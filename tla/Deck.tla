-------------------------------- MODULE Deck --------------------------------
(***************************************************************************)
(* What a run is played from: the catalogue of server/api/catalog.go, the  *)
(* deck engine.BuildDeck assembles from it, and the manches engine.Draw     *)
(* deals from the deck.                                                     *)
(*                                                                         *)
(* A word is a number, in the order of the items' ids.  What the engine    *)
(* remembers of a word is abstracted to the class the deck tells apart;    *)
(* gold and cursed exclude each other (CardDrawable of WordState).  The    *)
(* shuffle, the rooms' draw and the order of PHat are left open: any       *)
(* outcome is one the seed or the child's skill can produce.               *)
(***************************************************************************)
EXTENDS Integers, Sequences, FiniteSets, SequencesExt

CONSTANTS
  WordsPerManche, \* Config.WordsPerManche
  RecycleOld,     \* Config.RecycleOld: the older words a deck brings back
  GardeSlots      \* the Garde's slots at the child's rank, five at most

ASSUME DeckAssumption ==
  /\ WordsPerManche \in Nat \ {0}
  /\ RecycleOld \in Nat
  /\ GardeSlots \in 0 .. 5

Manches == 3

Classes == {"unmet", "seen", "gold", "tarnished", "cursed"}

Seen(class)   == class # "unmet"
Gold(class)   == class \in {"gold", "tarnished"}
Cursed(class) == class = "cursed"

UnmetIn(states)     == {w \in DOMAIN states : ~Seen(states[w])}
SeenIn(states)      == {w \in DOMAIN states : Seen(states[w])}
GoldIn(states)      == {w \in DOMAIN states : Gold(states[w])}
TarnishedIn(states) == {w \in DOMAIN states : states[w] = "tarnished"}

(* Bug forms of the definitions below carry the name of what they break.    *)

Prefix(ws, n) == SubSeq(ws, 1, IF Len(ws) < n THEN Len(ws) ELSE n)

----------------------------------------------------------------------------
(* Words in order.  The sequences below are functions of their places,      *)
(* which is how the proofs reason about them.                               *)

Below(S, w) == Cardinality({v \in S : v < w})

Lowest(S, n) == {w \in S : Below(S, w) < n}

(* The n-th of a set has n - 1 below it. *)
InOrder(S) ==
  [n \in 1 .. Cardinality(S) |-> CHOOSE w \in S : Below(S, w) = n - 1]

(* The words of ws that are in S, in the order of ws. *)
Only(ws, S) ==
  LET places == InOrder({i \in DOMAIN ws : ws[i] \in S})
  IN [n \in DOMAIN places |-> ws[places[n]]]

----------------------------------------------------------------------------
(* The catalogue. *)

(* runManches, which server/api keeps beside the engine's own manches. *)
RunManches == 3

WeekLimitOneMore == WordsPerManche * RunManches + 1

WeekLimit == WordsPerManche * RunManches

(* The words of the week: those never played first, then seen ones until    *)
(* the three manches are full.                                              *)
Week(all, states) ==
  LET unmet == all \cap UnmetIn(states)
      first == Lowest(unmet, WeekLimit)
  IN InOrder(first) \o InOrder(Lowest(all \ unmet, WeekLimit - Cardinality(first)))

----------------------------------------------------------------------------
(* BuildDeck. *)

(* filterGoldGarde, on the ids the client asks for, duplicates included. *)
FilterGoldGarde(ids, states) == Only(ids, GoldIn(states))

(* The Garde: known words only, tarnished ones at the head, up to the cap. *)
Garde(ids, known, states) ==
  LET kept      == Only(ids, known)
      tarnished == Only(kept, TarnishedIn(states))
      others    == Only(kept, known \ TarnishedIn(states))
  IN Prefix(tarnished \o others, GardeSlots)

(* The pool older words are brought back from: seen, and neither gold, nor  *)
(* cursed, nor asked for in the Garde.                                      *)
OldPoolWithGold(ids, known, states) ==
  {w \in known : Seen(states[w]) /\ ~Cursed(states[w]) /\ w \notin ToSet(ids)}

OldPool(ids, known, states) ==
  {w \in known : /\ Seen(states[w]) /\ ~Cursed(states[w]) /\ ~Gold(states[w])
                 /\ w \notin ToSet(ids)}

(* The shuffle: any of the pool's words may come first. *)
Recycled(pool) ==
  {old \in SUBSET pool :
     Cardinality(old) = IF Cardinality(pool) < RecycleOld
                        THEN Cardinality(pool) ELSE RecycleOld}

(* Every deck BuildDeck may assemble. *)
BuildDeck(ids, all, states) ==
  LET garde == FilterGoldGarde(ids, states)
  IN {[week   |-> Week(all, states),
       garde  |-> Garde(garde, all, states),
       old    |-> old,
       cursed |-> {w \in all : Cursed(states[w])}] :
        old \in Recycled(OldPool(garde, all, states))}

Decks(Words) ==
  [week: Seq(Words), garde: Seq(Words), old: SUBSET Words, cursed: SUBSET Words]

----------------------------------------------------------------------------
(* Draw.  A manche is 0, 1 or 2, as in the code. *)

(* Every third word, starting at the manche's own. *)
Tourniquet(ws, manche) ==
  [i \in 1 .. (Len(ws) - manche + Manches - 1) \div Manches |->
     ws[(i - 1) * Manches + manche + 1]]

Capped(ws) == Prefix(ws, WordsPerManche)

Unmet(deck, states) == Only(deck.week, UnmetIn(states))
Met(deck, states)   == Only(deck.week, SeenIn(states))

(* What may fill a manche beside the unmet words, before it is ranked: a    *)
(* word can be there twice, for the deck's parts overlap.                   *)
Optional(deck, states) ==
  Met(deck, states) \o deck.garde \o InOrder(deck.old) \o InOrder(deck.cursed)

(* Orders PHat may rank the pool in: any of its words may come first. *)
Rankings(pool) ==
  IF pool = <<>> THEN {<<>>}
  ELSE {[i \in 1 .. Len(pool) |-> pool[((i + k) % Len(pool)) + 1]] : k \in 1 .. Len(pool)}

(* A pool too thin to fill the manche is gone through again. *)
ToppedUp(drawn, ranked) ==
  LET missing == WordsPerManche - Len(drawn)
  IN IF missing <= 0 \/ ranked = <<>> THEN drawn
     ELSE drawn \o [i \in 1 .. missing |-> ranked[((i - 1) % Len(ranked)) + 1]]

Draw(deck, states, manche, ranked) ==
  LET mandatory == Capped(Tourniquet(Unmet(deck, states), manche))
  IN IF Len(mandatory) = WordsPerManche THEN mandatory
     ELSE Capped(ToppedUp(mandatory \o Tourniquet(ranked, manche), ranked))
=============================================================================
