------------------------------ MODULE MCLists ------------------------------
(***************************************************************************)
(* Lists on two letters, of which one is a word the lexicon is not sure of. *)
(* The pastes hold a list of two words, a dictée with a run of stops and a  *)
(* tail without, and sentences with a pair of marks around nothing, a pair  *)
(* that opens inside a word and closes before the next, and a mark left     *)
(* open.                                                                    *)
(***************************************************************************)
EXTENDS Lists, TLC

CONSTANTS r1, r2, ch, at

known == <<ch, at>>
rare  == <<at>>

MCConfident == {known}
MCTrapsOf   == [w \in {known, rare} |-> IF w = rare THEN 2 ELSE 1]

MCPastes ==
  {[kind |-> "word", raw |-> <<ch, at, Comma, Space, at>>, label |-> "semaine"],
   [kind |-> "dictation", raw |-> <<ch, at, Stop, Stop, Space, at>>, label |-> "semaine"],
   [kind |-> "sentence", raw |-> <<at, Space, Mark, Mark>>, label |-> "mes mots"],
   [kind |-> "sentence", raw |-> <<ch, Mark, at, Space, Mark, at, Space, Mark, ch, at>>,
    label |-> "semaine"]}

MCTyped == {<<at, Space, ch, at>>, <<Comma>>}

MCPhrases ==
  {[words |-> <<known, rare>>, target |-> rare],
   [words |-> <<known>>, target |-> known],
   [words |-> <<known, known, known>>, target |-> known]}

MCWhitelist == {known}

MCSymmetry == Permutations(Requests)
=============================================================================
