------------------------------- MODULE Scenes -------------------------------
(* The graph of scenes: Director of client/game/scene.go. *)
EXTENDS Sequences, SequencesExt

SceneID == {"Boot", "Atelier", "Garde", "Run", "Salle", "Boss", "Revanche", "Enluminure",
            "Cahier", "Recap", "Bestiaire", "Fioles", "Exploits", "FinDeTemps"}

(* The scenes each leads to; the ones opened by Push lead nowhere, for Pop   *)
(* closes them.                                                              *)
transitions == [s \in SceneID |->
  CASE s = "Boot"       -> {"Atelier"}
    [] s = "Atelier"    -> {"Garde", "Bestiaire", "Fioles", "Exploits", "FinDeTemps"}
    [] s = "Garde"      -> {"Run"}
    [] s = "Run"        -> {"Salle", "Recap"}
    [] s = "Salle"      -> {"Run", "Boss", "Recap"}
    [] s = "Boss"       -> {"Enluminure", "Revanche", "Recap"}
    [] s = "Enluminure" -> {"Cahier"}
    [] s = "Cahier"     -> {"Recap"}
    [] s = "Recap"      -> {"Atelier"}
    [] OTHER            -> {}]

Current(stack) == Last(stack)

canGo(stack, target) == target \in transitions[Current(stack)]

(* The stack Replace leaves, where the graph allows it. *)
Replaced(stack, target) == Append(Front(stack), target)
=============================================================================
