------------------------------- MODULE Score -------------------------------
(***************************************************************************)
(* What one answer is worth: engine/score.go, which both the server's      *)
(* Replay and the client's RunScore call.                                  *)
(*                                                                         *)
(* The Aimant pays half again, so chips and scores are counted in halves:  *)
(* a chip of the code is two here.                                         *)
(***************************************************************************)
EXTENDS Integers

CONSTANTS
  Word,         \* the words of the run's deck
  Letters,      \* how many letters a word has
  Traps,        \* its traps of each Couleur
  ChipPerTrap,  \* Config.ChipPerTrap
  BlindMult     \* Config.BlindMult

Couleur == {"Muettes", "Jumelles", "Accentuees", "Masquees", "Sosies", "Accordees"}

(* The Talismans that bear on a score. *)
Talisman == {"Perroquet", "Chronometre", "Jumeau", "Loupe", "Gomme", "Collectionneur",
             "Aimant", "Sourd", "Fantome", "Bibliothecaire", "Colosse", "Couronne",
             "Meute", "Miroir", "Tambour"}

Bosses == {"Chuchoteur", "VoleurDAccents", "Brouillon", "Presse"}

(* Of a word's state, what a score reads. *)
ScoredStates == [seen: BOOLEAN, gold: BOOLEAN, tarnished: BOOLEAN, cursed: BOOLEAN]

(* One answer, its time reduced to whether it fell within the Chronometre's *)
(* window; a Rencontre is copied and always right (NewRencontreAttempt).     *)
Attempts == {a \in [word: Word, manche: 1..3, blind: BOOLEAN, copy: BOOLEAN,
                    correct: BOOLEAN, fast: BOOLEAN] :
               a.copy => a.correct /\ ~a.blind}

Ctx == [levels: [Couleur -> Nat], fast: BOOLEAN, boss: Bosses \cup {"NoBoss"}, goldPlayed: Nat]

ASSUME ScoreAssumption ==
  /\ Letters \in [Word -> Nat]
  /\ Traps \in [Word -> [Couleur -> Nat]]
  /\ ChipPerTrap \in Nat
  /\ BlindMult \in Nat

----------------------------------------------------------------------------
Times(holds, n) == IF holds THEN n ELSE 1
Plus(holds, n)  == IF holds THEN n ELSE 0

doubling == [Jumelles |-> "Loupe", Accentuees |-> "Couronne", Sosies |-> "Miroir"]

Doubled(c, owned) == c \in DOMAIN doubling /\ doubling[c] \in owned

(* The Voleur d'accents takes the Accentuees to nothing. *)
TrapChips(c, w, owned, ctx) ==
  IF ctx.boss = "VoleurDAccents" /\ c = "Accentuees"
  THEN 0
  ELSE Traps[w][c] * ChipPerTrap * ctx.levels[c] * Times(Doubled(c, owned), 2)

BareChips(w, owned, ctx) ==
  Letters[w] + TrapChips("Muettes", w, owned, ctx) + TrapChips("Jumelles", w, owned, ctx)
             + TrapChips("Accentuees", w, owned, ctx) + TrapChips("Masquees", w, owned, ctx)
             + TrapChips("Sosies", w, owned, ctx) + TrapChips("Accordees", w, owned, ctx)

(* In halves: two is once. *)
GoldHalves(ws, owned) ==
  IF ws.gold
  THEN (IF "Aimant" \in owned THEN 3 ELSE 2)
         * Times("Bibliothecaire" \in owned, 2) * Times(ws.tarnished, 2)
  ELSE 2

scoreChips(a, ws, owned, ctx) ==
  BareChips(a.word, owned, ctx) * GoldHalves(ws, owned) * Times(ws.cursed, 5)
    * Times(a.blind, BlindMult + Plus("Sourd" \in owned, 1))

multBonus(w, ws, owned, ctx) ==
  Plus("Perroquet" \in owned, 1)
    + Plus("Chronometre" \in owned /\ ctx.fast, 4)
    + Plus("Jumeau" \in owned, 2 * Traps[w]["Jumelles"])
    + Plus("Fantome" \in owned, 3 * Traps[w]["Muettes"])
    + Plus("Meute" \in owned, 2 * Traps[w]["Accordees"])
    + Plus("Collectionneur" \in owned, ctx.goldPlayed)
    + Plus("Colosse" \in owned, 5)
    + Plus("Tambour" \in owned /\ ws.cursed, 6)

(* A wrong answer scores nothing, multiplier included. *)
ScoreOf(a, ws, owned, combo, ctx) ==
  IF a.correct
  THEN [chips |-> scoreChips(a, ws, owned, ctx),
        mult  |-> combo + multBonus(a.word, ws, owned, ctx)]
  ELSE [chips |-> 0, mult |-> 0]
=============================================================================
