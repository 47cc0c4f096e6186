---------------------------- MODULE Lists_proofs ----------------------------
(***************************************************************************)
(* Proofs about Lists, for any number of requests, lists and reviews and   *)
(* for any text: what a child is told was read, an analysis is of its      *)
(* text, an approved text was approved, a paste answered with a success is *)
(* there whole, and the words asked are the marked ones.  What a paste is  *)
(* cut into is followed by induction over its places.                      *)
(***************************************************************************)
EXTENDS Lists, SequenceTheorems, FiniteSetTheorems, WellFoundedInduction, TLAPS

Texts  == Seq(Runes)
Words  == Seq(Letters)
Drafts == [text: Texts, targets: Seq(Spans)]

(* Every set of numbers that has a member has a least one.                 *)
LEMMA LeastNatural ==
  ASSUME NEW T \in SUBSET Nat, T # {}
  PROVE  \E n \in T : \A m \in T : n <= m
<1> DEFINE R == OpToRel(<, Nat)
<1>1. IsWellFoundedOn(R, Nat)
  BY NatLessThanWellFounded
<1>2. \A x, y \in Nat : x < y => <<x, y>> \in R
  BY DEF OpToRel
<1> HIDE DEF R
<1>3. PICK n \in T : \A m \in T : <<m, n>> \notin R
  BY <1>1, WFMin
<1>4. \A m \in T : n <= m
  <2> SUFFICES ASSUME NEW m \in T, ~(n <= m)
               PROVE  FALSE
    OBVIOUS
  <2>1. m \in Nat /\ n \in Nat
    OBVIOUS
  <2>2. m < n
    BY <2>1
  <2>3. <<m, n>> \in R
    BY <2>1, <2>2, <1>2
  <2> QED
    BY <2>3, <1>3
<1> QED
  BY <1>4

LEMMA SetInduction ==
  ASSUME NEW T, 0 \in T, \A n \in Nat : n \in T => n + 1 \in T
  PROVE  Nat \subseteq T
<1> SUFFICES ASSUME Nat \ T # {}
             PROVE  FALSE
  OBVIOUS
<1>1. PICK n \in Nat \ T : \A m \in Nat \ T : n <= m
  <2> DEFINE U == Nat \ T
  <2> HIDE DEF U
  <2>1. U \in SUBSET Nat /\ U # {}
    BY DEF U
  <2> QED
    BY <2>1, LeastNatural DEF U
<1>2. n # 0
  OBVIOUS
<1>3. n - 1 \in Nat /\ (n - 1) + 1 = n
  BY <1>2
<1>4. n - 1 \notin Nat \ T
  BY <1>1, <1>3
<1> QED
  BY <1>3, <1>4

(* A value computed place by place exists.                                  *)
LEMMA PlaceByPlace ==
  ASSUME NEW S, NEW start \in S, NEW last \in Nat, NEW G \in [1 .. last -> [S -> S]]
  PROVE  \E f \in [0 .. last -> S] :
           f[0] = start /\ \A n \in 1 .. last : f[n] = G[n][f[n - 1]]
<1> DEFINE StepsTo(f, m) == f[0] = start /\ \A n \in 1 .. m : f[n] = G[n][f[n - 1]]
           T == {m \in Nat : m <= last => \E f \in [0 .. m -> S] : StepsTo(f, m)}
<1>1. 0 \in T
  <2>1. [n \in 0 .. 0 |-> start] \in [0 .. 0 -> S]
    OBVIOUS
  <2>2. StepsTo([n \in 0 .. 0 |-> start], 0)
    OBVIOUS
  <2> QED
    BY <2>1, <2>2
<1>2. ASSUME NEW m \in Nat, m \in T
      PROVE  m + 1 \in T
  <2> SUFFICES ASSUME m + 1 <= last
               PROVE  \E f \in [0 .. m + 1 -> S] : StepsTo(f, m + 1)
    OBVIOUS
  <2>1. PICK g \in [0 .. m -> S] : StepsTo(g, m)
    BY <1>2
  <2> DEFINE next == G[m + 1][g[m]]
             f == [n \in 0 .. m + 1 |-> IF n = m + 1 THEN next ELSE g[n]]
  <2>2. next \in S
    <3>1. g[m] \in S /\ m + 1 \in 1 .. last
      OBVIOUS
    <3>2. G[m + 1] \in [S -> S]
      BY <3>1
    <3> QED
      BY <3>1, <3>2
  <2> HIDE DEF next
  <2>4. f \in [0 .. m + 1 -> S]
    BY <2>2
  <2>5. f[0] = start
    BY <2>1
  <2>6. ASSUME NEW n \in 1 .. m + 1
        PROVE  f[n] = G[n][f[n - 1]]
    <3>1. CASE n = m + 1
      <4>1. f[n] = next /\ f[n - 1] = g[m]
        BY <3>1
      <4> QED
        BY <3>1, <4>1 DEF next
    <3>2. CASE n # m + 1
      <4>1. n \in 1 .. m
        BY <3>2
      <4>2. f[n] = g[n] /\ f[n - 1] = g[n - 1]
        BY <4>1
      <4> QED
        BY <2>1, <4>1, <4>2
    <3> QED
      BY <3>1, <3>2
  <2> HIDE DEF f
  <2> QED
    BY <2>4, <2>5, <2>6
<1>3. last \in T
  <2> HIDE DEF T
  <2> QED
    BY <1>1, <1>2, SetInduction
<1>4. PICK f \in [0 .. last -> S] : StepsTo(f, last)
  BY <1>3
<1> QED
  BY <1>4

LEMMA TypedByPlace ==
  ASSUME NEW S, NEW last \in Nat, NEW h, h[0] \in S,
         \A n \in 1 .. last : h[n - 1] \in S => h[n] \in S
  PROVE  \A n \in 0 .. last : h[n] \in S
<1> DEFINE T == {n \in Nat : n <= last => h[n] \in S}
<1>1. 0 \in T
  OBVIOUS
<1>2. \A n \in Nat : n \in T => n + 1 \in T
  OBVIOUS
<1> HIDE DEF T
<1>3. Nat \subseteq T
  BY <1>1, <1>2, SetInduction
<1> QED
  BY <1>3 DEF T

(* The state of a text whose words are being spelled out.                   *)
Spellings == [words: Seq(Words), word: Words]

LEMMA FinishedTyped ==
  ASSUME NEW cut \in Spellings
  PROVE  Finished(cut) \in Seq(Words)
<1>1. cut.words \in Seq(Words) /\ cut.word \in Words
  BY DEF Spellings
<1> QED
  BY <1>1 DEF Finished

LEMMA SpellTyped ==
  ASSUME NEW cut \in Spellings, NEW c \in Runes
  PROVE  Spell(cut, c) \in Spellings
<1>1. cut.words \in Seq(Words) /\ cut.word \in Words
  BY DEF Spellings
<1>2. CASE c \in Letters
  <2>1. Append(cut.word, c) \in Words
    BY <1>1, <1>2 DEF Words
  <2> QED
    BY <1>2, <2>1 DEF Spell, Spellings
<1>3. CASE c \notin Letters
  <2>1. [words |-> Finished(cut), word |-> <<>>] \in Spellings
    BY FinishedTyped DEF Spellings, Words
  <2> QED
    BY <1>3, <2>1 DEF Spell
<1> QED
  BY <1>2, <1>3

(* The states a text goes through as its words are spelled out.            *)
LEMMA SpelledPlaces ==
  ASSUME NEW text \in Texts
  PROVE  \E f \in [0 .. Len(text) -> Spellings] :
           /\ f[0] = [words |-> <<>>, word |-> <<>>]
           /\ \A n \in 1 .. Len(text) : f[n] = Spell(f[n - 1], text[n])
           /\ SpelledOut(text) = f[Len(text)]
<1> DEFINE S == Spellings
           start == [words |-> <<>>, word |-> <<>>]
           G == [n \in 1 .. Len(text) |-> [c \in S |-> Spell(c, text[n])]]
           cuts[n \in 0 .. Len(text)] ==
             IF n = 0 THEN [words |-> <<>>, word |-> <<>>]
             ELSE Spell(cuts[n - 1], text[n])
<1>0. Len(text) \in Nat /\ start \in S
  BY DEF Texts, Spellings, Words
<1>1. \A n \in 1 .. Len(text), c \in S : Spell(c, text[n]) \in S
  <2>1. \A n \in 1 .. Len(text) : text[n] \in Runes
    BY DEF Texts
  <2> QED
    BY <2>1, SpellTyped
<1>2. PICK f \in [0 .. Len(text) -> S] :
        f[0] = start /\ \A n \in 1 .. Len(text) : f[n] = G[n][f[n - 1]]
  <2>1. G \in [1 .. Len(text) -> [S -> S]]
    BY <1>1
  <2> DEFINE last == Len(text)
  <2>2. last \in Nat /\ start \in S /\ G \in [1 .. last -> [S -> S]]
    BY <1>0, <2>1
  <2> HIDE DEF S, G, last, start
  <2>3. \E f \in [0 .. last -> S] :
          f[0] = start /\ \A n \in 1 .. last : f[n] = G[n][f[n - 1]]
    BY <2>2, PlaceByPlace
  <2> QED
    BY <2>3 DEF last
<1>3. \A n \in 1 .. Len(text) : f[n] = Spell(f[n - 1], text[n])
  <2> HIDE DEF S, start
  <2>1. \A n \in 1 .. Len(text), c \in S : G[n][c] = Spell(c, text[n])
    OBVIOUS
  <2>2. \A n \in 1 .. Len(text) : f[n - 1] \in S
    BY <1>0
  <2> QED
    BY <1>0, <1>2, <2>1, <2>2
<1>4. f = [n \in 0 .. Len(text) |-> IF n = 0 THEN start ELSE Spell(f[n - 1], text[n])]
  <2> HIDE DEF S, start
  <2> QED
    BY <1>0, <1>2, <1>3
<1>5. cuts = [n \in 0 .. Len(text) |-> IF n = 0 THEN start ELSE Spell(cuts[n - 1], text[n])]
  BY <1>4
<1>6. SpelledOut(text) = cuts[Len(text)]
  BY DEF SpelledOut
<1> HIDE DEF cuts, S, start
<1>7. cuts[0] = start /\ \A n \in 1 .. Len(text) : cuts[n] = Spell(cuts[n - 1], text[n])
  BY <1>0, <1>5
<1>8. \A n \in 0 .. Len(text) : cuts[n] \in S
  BY <1>0, <1>1, <1>7, TypedByPlace
<1>9. cuts \in [0 .. Len(text) -> S]
  BY <1>5, <1>8
<1> QED
  BY <1>6, <1>7, <1>9 DEF S, start

LEMMA SpelledTyped ==
  ASSUME NEW text \in Texts
  PROVE  SpelledOut(text) \in Spellings
<1>1. Len(text) \in Nat
  BY DEF Texts
<1>2. \E f \in [0 .. Len(text) -> Spellings] : SpelledOut(text) = f[Len(text)]
  BY SpelledPlaces
<1> QED
  BY <1>1, <1>2

LEMMA WordsInTyped ==
  ASSUME NEW text \in Texts
  PROVE  WordsIn(text) \in Seq(Words)
BY SpelledTyped, FinishedTyped DEF WordsIn

(* The traps of a draft are a number.                                       *)
LEMMA TrapsTyped ==
  ASSUME NEW kind, NEW draft \in Drafts
  PROVE  Traps(kind, draft) \in Nat
<1> DEFINE last == Len(draft.text)
           Step(c, n) == c + TrapsEndingAt(kind, draft, n)
           G == [n \in 1 .. last |-> [c \in Nat |-> Step(c, n)]]
           sum[p \in 0 .. Len(draft.text)] ==
             IF p = 0 THEN 0 ELSE sum[p - 1] + TrapsEndingAt(kind, draft, p)
<1>0. last \in Nat
  BY DEF Drafts, Texts
<1>1. \A n \in 1 .. last, c \in Nat : Step(c, n) \in Nat
  BY PasteAssumption DEF TrapsEndingAt, TrapsIn
<1>2. PICK f \in [0 .. last -> Nat] :
        f[0] = 0 /\ \A n \in 1 .. last : f[n] = G[n][f[n - 1]]
  <2>1. G \in [1 .. last -> [Nat -> Nat]]
    BY <1>1
  <2> HIDE DEF last, G
  <2> DEFINE start == 0
             S == Nat
  <2>2. start \in S /\ G \in [1 .. last -> [S -> S]]
    BY <2>1
  <2> HIDE DEF start, S
  <2>3. \E f \in [0 .. last -> S] :
          f[0] = start /\ \A n \in 1 .. last : f[n] = G[n][f[n - 1]]
    BY <1>0, <2>2, PlaceByPlace
  <2> QED
    BY <2>3 DEF start, S
<1>3. \A n \in 1 .. last : f[n] = Step(f[n - 1], n)
  <2> HIDE DEF last, Step
  <2>1. \A n \in 1 .. last, c \in Nat : G[n][c] = Step(c, n)
    OBVIOUS
  <2>2. \A n \in 1 .. last : f[n - 1] \in Nat
    BY <1>0
  <2> QED
    BY <1>0, <1>2, <2>1, <2>2
<1>4. f = [n \in 0 .. last |-> IF n = 0 THEN 0 ELSE Step(f[n - 1], n)]
  <2> HIDE DEF last, Step
  <2> QED
    BY <1>0, <1>2, <1>3
<1>5. sum = [n \in 0 .. last |-> IF n = 0 THEN 0 ELSE Step(sum[n - 1], n)]
  BY <1>4
<1>6. \A n \in 0 .. last : sum[n] \in Nat
  <2> HIDE DEF sum, last, Step
  <2>1. sum[0] \in Nat
    BY <1>0, <1>5
  <2>2. \A n \in 1 .. last : sum[n] = Step(sum[n - 1], n)
    BY <1>0, <1>5
  <2> QED
    BY <1>0, <2>1, <2>2, <1>1, TypedByPlace
<1>7. Traps(kind, draft) = sum[last]
  BY DEF Traps
<1> HIDE DEF sum, last
<1> QED
  BY <1>0, <1>6, <1>7

LEMMA WholeTyped ==
  ASSUME NEW text \in Texts
  PROVE  Whole(text) \in Drafts /\ Whole(text).text = text
BY DEF Whole, Drafts

LEMMA FlushedTyped ==
  ASSUME NEW cut, cut.drafts \in Seq(Drafts), cut.current \in Texts
  PROVE  Flushed(cut) \in Seq(Drafts)
BY WholeTyped DEF Flushed

(* The state of a list of words under way.                                  *)
FieldStates == [drafts: Seq(Drafts), current: Texts]

LEMMA FieldTyped ==
  ASSUME NEW cut \in FieldStates, NEW c \in Runes
  PROVE  Field(cut, c) \in FieldStates
<1>1. cut.drafts \in Seq(Drafts) /\ cut.current \in Texts
  BY DEF FieldStates
<1>2. Append(cut.current, c) \in Texts /\ <<>> \in Texts
  BY <1>1 DEF Texts
<1>3. [drafts |-> Flushed(cut), current |-> <<>>] \in FieldStates
  BY <1>1, <1>2, FlushedTyped DEF FieldStates
<1>4. [cut EXCEPT !.current = Append(@, c)] \in FieldStates
  BY <1>1, <1>2 DEF FieldStates
<1> QED
  BY <1>3, <1>4 DEF Field

(* The states a text goes through as it is cut into words.                 *)
LEMMA FieldPlaces ==
  ASSUME NEW raw \in Texts
  PROVE  \E f \in [0 .. Len(raw) -> FieldStates] :
           /\ f[0] = [drafts |-> <<>>, current |-> <<>>]
           /\ \A n \in 1 .. Len(raw) : f[n] = Field(f[n - 1], raw[n])
           /\ CutAtFields(raw) = f[Len(raw)]
<1> DEFINE S == FieldStates
           start == [drafts |-> <<>>, current |-> <<>>]
           G == [n \in 1 .. Len(raw) |-> [c \in S |-> Field(c, raw[n])]]
           cuts[n \in 0 .. Len(raw)] ==
             IF n = 0 THEN [drafts |-> <<>>, current |-> <<>>]
             ELSE Field(cuts[n - 1], raw[n])
<1>0. Len(raw) \in Nat /\ start \in S
  BY DEF Texts, FieldStates
<1>1. \A n \in 1 .. Len(raw), c \in S : Field(c, raw[n]) \in S
  <2>1. \A n \in 1 .. Len(raw) : raw[n] \in Runes
    BY DEF Texts
  <2> QED
    BY <2>1, FieldTyped
<1>2. PICK f \in [0 .. Len(raw) -> S] :
        f[0] = start /\ \A n \in 1 .. Len(raw) : f[n] = G[n][f[n - 1]]
  <2>1. G \in [1 .. Len(raw) -> [S -> S]]
    BY <1>1
  <2> DEFINE last == Len(raw)
  <2>2. last \in Nat /\ start \in S /\ G \in [1 .. last -> [S -> S]]
    BY <1>0, <2>1
  <2> HIDE DEF S, G, last, start
  <2>3. \E f \in [0 .. last -> S] :
          f[0] = start /\ \A n \in 1 .. last : f[n] = G[n][f[n - 1]]
    BY <2>2, PlaceByPlace
  <2> QED
    BY <2>3 DEF last
<1>3. \A n \in 1 .. Len(raw) : f[n] = Field(f[n - 1], raw[n])
  <2> HIDE DEF S, start
  <2>1. \A n \in 1 .. Len(raw), c \in S : G[n][c] = Field(c, raw[n])
    OBVIOUS
  <2>2. \A n \in 1 .. Len(raw) : f[n - 1] \in S
    BY <1>0
  <2> QED
    BY <1>0, <1>2, <2>1, <2>2
<1>4. f = [n \in 0 .. Len(raw) |-> IF n = 0 THEN start ELSE Field(f[n - 1], raw[n])]
  <2> HIDE DEF S, start
  <2> QED
    BY <1>0, <1>2, <1>3
<1>5. cuts = [n \in 0 .. Len(raw) |-> IF n = 0 THEN start ELSE Field(cuts[n - 1], raw[n])]
  BY <1>4
<1>6. CutAtFields(raw) = cuts[Len(raw)]
  BY DEF CutAtFields
<1> HIDE DEF cuts, S, start
<1>7. cuts[0] = start /\ \A n \in 1 .. Len(raw) : cuts[n] = Field(cuts[n - 1], raw[n])
  BY <1>0, <1>5
<1>8. \A n \in 0 .. Len(raw) : cuts[n] \in S
  BY <1>0, <1>1, <1>7, TypedByPlace
<1>9. cuts \in [0 .. Len(raw) -> S]
  BY <1>5, <1>8
<1> QED
  BY <1>6, <1>7, <1>9 DEF S, start

LEMMA CutAtFieldsTyped ==
  ASSUME NEW raw \in Texts
  PROVE  CutAtFields(raw) \in FieldStates
<1>1. Len(raw) \in Nat
  BY DEF Texts
<1>2. \E f \in [0 .. Len(raw) -> FieldStates] : CutAtFields(raw) = f[Len(raw)]
  BY FieldPlaces
<1> QED
  BY <1>1, <1>2

LEMMA SplitWordsTyped ==
  ASSUME NEW raw \in Texts
  PROVE  SplitWords(raw) \in Seq(Drafts)
BY CutAtFieldsTyped, FlushedTyped DEF SplitWords, FieldStates

(* The state of a cut under way.                                            *)
CutStates == [drafts: Seq(Drafts), current: Texts, ending: BOOLEAN]

LEMMA CutTyped ==
  ASSUME NEW cut \in CutStates, NEW c \in Runes
  PROVE  Cut(cut, c) \in CutStates
<1>1. cut.drafts \in Seq(Drafts) /\ cut.current \in Texts /\ cut.ending \in BOOLEAN
  BY DEF CutStates
<1>2. Append(cut.current, c) \in Texts /\ <<c>> \in Texts
  BY <1>1 DEF Texts
<1>3. [drafts |-> Flushed(cut), current |-> <<c>>, ending |-> FALSE] \in CutStates
  BY <1>1, <1>2, FlushedTyped DEF CutStates
<1>4. [cut EXCEPT !.current = Append(@, c), !.ending = (c = Stop)] \in CutStates
  BY <1>1, <1>2 DEF CutStates
<1> QED
  BY <1>3, <1>4 DEF Cut

(* The states a text goes through as it is cut at its stops.               *)
LEMMA CutPlaces ==
  ASSUME NEW raw \in Texts
  PROVE  \E f \in [0 .. Len(raw) -> CutStates] :
           /\ f[0] = [drafts |-> <<>>, current |-> <<>>, ending |-> FALSE]
           /\ \A n \in 1 .. Len(raw) : f[n] = Cut(f[n - 1], raw[n])
           /\ CutAtStops(raw) = f[Len(raw)]
<1> DEFINE S == CutStates
           start == [drafts |-> <<>>, current |-> <<>>, ending |-> FALSE]
           G == [n \in 1 .. Len(raw) |-> [c \in S |-> Cut(c, raw[n])]]
           cuts[n \in 0 .. Len(raw)] ==
             IF n = 0 THEN [drafts |-> <<>>, current |-> <<>>, ending |-> FALSE]
             ELSE Cut(cuts[n - 1], raw[n])
<1>0. Len(raw) \in Nat /\ start \in S
  BY DEF Texts, CutStates
<1>1. \A n \in 1 .. Len(raw), c \in S : Cut(c, raw[n]) \in S
  <2>1. \A n \in 1 .. Len(raw) : raw[n] \in Runes
    BY DEF Texts
  <2> QED
    BY <2>1, CutTyped
<1>2. PICK f \in [0 .. Len(raw) -> S] :
        f[0] = start /\ \A n \in 1 .. Len(raw) : f[n] = G[n][f[n - 1]]
  <2>1. G \in [1 .. Len(raw) -> [S -> S]]
    BY <1>1
  <2> DEFINE last == Len(raw)
  <2>2. last \in Nat /\ start \in S /\ G \in [1 .. last -> [S -> S]]
    BY <1>0, <2>1
  <2> HIDE DEF S, G, last, start
  <2>3. \E f \in [0 .. last -> S] :
          f[0] = start /\ \A n \in 1 .. last : f[n] = G[n][f[n - 1]]
    BY <2>2, PlaceByPlace
  <2> QED
    BY <2>3 DEF last
<1>3. \A n \in 1 .. Len(raw) : f[n] = Cut(f[n - 1], raw[n])
  <2> HIDE DEF S, start
  <2>1. \A n \in 1 .. Len(raw), c \in S : G[n][c] = Cut(c, raw[n])
    OBVIOUS
  <2>2. \A n \in 1 .. Len(raw) : f[n - 1] \in S
    BY <1>0
  <2> QED
    BY <1>0, <1>2, <2>1, <2>2
<1>4. f = [n \in 0 .. Len(raw) |-> IF n = 0 THEN start ELSE Cut(f[n - 1], raw[n])]
  <2> HIDE DEF S, start
  <2> QED
    BY <1>0, <1>2, <1>3
<1>5. cuts = [n \in 0 .. Len(raw) |-> IF n = 0 THEN start ELSE Cut(cuts[n - 1], raw[n])]
  BY <1>4
<1>6. CutAtStops(raw) = cuts[Len(raw)]
  BY DEF CutAtStops
<1> HIDE DEF cuts, S, start
<1>7. cuts[0] = start /\ \A n \in 1 .. Len(raw) : cuts[n] = Cut(cuts[n - 1], raw[n])
  BY <1>0, <1>5
<1>8. \A n \in 0 .. Len(raw) : cuts[n] \in S
  BY <1>0, <1>1, <1>7, TypedByPlace
<1>9. cuts \in [0 .. Len(raw) -> S]
  BY <1>5, <1>8
<1> QED
  BY <1>6, <1>7, <1>9 DEF S, start

LEMMA CutAtStopsTyped ==
  ASSUME NEW raw \in Texts
  PROVE  CutAtStops(raw) \in CutStates
BY CutPlaces DEF Texts

(* The state of a sentence whose marks are being taken out.                 *)
StripStates == [text: Texts, targets: Seq(Spans), open: Int]

LEMMA StripTyped ==
  ASSUME NEW cut \in StripStates, NEW c \in Runes
  PROVE  Strip(cut, c) \in StripStates
<1>1. cut.text \in Texts /\ cut.targets \in Seq(Spans) /\ cut.open \in Int
  BY DEF StripStates
<1>2. Append(cut.text, c) \in Texts /\ Len(cut.text) \in Nat
  BY <1>1 DEF Texts
<1>3. [cut EXCEPT !.text = Append(@, c)] \in StripStates
  BY <1>1, <1>2 DEF StripStates
<1>4. [cut EXCEPT !.open = Len(cut.text)] \in StripStates
  BY <1>1, <1>2 DEF StripStates
<1>5. ASSUME ~(cut.open < 0)
      PROVE  [cut EXCEPT !.targets = Append(@, [start |-> cut.open, end |-> Len(cut.text)]),
                         !.open = -1] \in StripStates
  <2> DEFINE span == [start |-> cut.open, end |-> Len(cut.text)]
             targets == Append(cut.targets, span)
             shut == -1
  <2>1. span \in Spans
    BY <1>1, <1>2, <1>5 DEF Spans
  <2>2. targets \in Seq(Spans)
    BY <1>1, <2>1
  <2>3. shut \in Int
    OBVIOUS
  <2> HIDE DEF targets, shut
  <2>4. [cut EXCEPT !.targets = targets, !.open = shut] \in StripStates
    BY <1>1, <2>2, <2>3 DEF StripStates
  <2> QED
    BY <2>4 DEF targets, shut
<1> QED
  BY <1>3, <1>4, <1>5 DEF Strip

(* The states a sentence goes through as its marks are taken out.           *)
LEMMA StrippedPlaces ==
  ASSUME NEW raw \in Texts
  PROVE  \E f \in [0 .. Len(raw) -> StripStates] :
           /\ f[0] = [text |-> <<>>, targets |-> <<>>, open |-> -1]
           /\ \A n \in 1 .. Len(raw) : f[n] = Strip(f[n - 1], raw[n])
           /\ Stripped(raw) = f[Len(raw)]
<1> DEFINE S == StripStates
           start == [text |-> <<>>, targets |-> <<>>, open |-> -1]
           G == [n \in 1 .. Len(raw) |-> [c \in S |-> Strip(c, raw[n])]]
           cuts[n \in 0 .. Len(raw)] ==
             IF n = 0 THEN [text |-> <<>>, targets |-> <<>>, open |-> -1]
             ELSE Strip(cuts[n - 1], raw[n])
<1>0. Len(raw) \in Nat /\ start \in S
  BY DEF Texts, StripStates
<1>1. \A n \in 1 .. Len(raw), c \in S : Strip(c, raw[n]) \in S
  <2>1. \A n \in 1 .. Len(raw) : raw[n] \in Runes
    BY DEF Texts
  <2> QED
    BY <2>1, StripTyped
<1>2. PICK f \in [0 .. Len(raw) -> S] :
        f[0] = start /\ \A n \in 1 .. Len(raw) : f[n] = G[n][f[n - 1]]
  <2>1. G \in [1 .. Len(raw) -> [S -> S]]
    BY <1>1
  <2> DEFINE last == Len(raw)
  <2>2. last \in Nat /\ start \in S /\ G \in [1 .. last -> [S -> S]]
    BY <1>0, <2>1
  <2> HIDE DEF S, G, last, start
  <2>3. \E f \in [0 .. last -> S] :
          f[0] = start /\ \A n \in 1 .. last : f[n] = G[n][f[n - 1]]
    BY <2>2, PlaceByPlace
  <2> QED
    BY <2>3 DEF last
<1>3. \A n \in 1 .. Len(raw) : f[n] = Strip(f[n - 1], raw[n])
  <2> HIDE DEF S, start
  <2>1. \A n \in 1 .. Len(raw), c \in S : G[n][c] = Strip(c, raw[n])
    OBVIOUS
  <2>2. \A n \in 1 .. Len(raw) : f[n - 1] \in S
    BY <1>0
  <2> QED
    BY <1>0, <1>2, <2>1, <2>2
<1>4. f = [n \in 0 .. Len(raw) |-> IF n = 0 THEN start ELSE Strip(f[n - 1], raw[n])]
  <2> HIDE DEF S, start
  <2> QED
    BY <1>0, <1>2, <1>3
<1>5. cuts = [n \in 0 .. Len(raw) |-> IF n = 0 THEN start ELSE Strip(cuts[n - 1], raw[n])]
  BY <1>4
<1>6. Stripped(raw) = cuts[Len(raw)]
  BY DEF Stripped
<1> HIDE DEF cuts, S, start
<1>7. cuts[0] = start /\ \A n \in 1 .. Len(raw) : cuts[n] = Strip(cuts[n - 1], raw[n])
  BY <1>0, <1>5
<1>8. \A n \in 0 .. Len(raw) : cuts[n] \in S
  BY <1>0, <1>1, <1>7, TypedByPlace
<1>9. cuts \in [0 .. Len(raw) -> S]
  BY <1>5, <1>8
<1> QED
  BY <1>6, <1>7, <1>9 DEF S, start

LEMMA StrippedTyped ==
  ASSUME NEW raw \in Texts
  PROVE  Stripped(raw) \in StripStates
BY StrippedPlaces DEF Texts

(* What a paste is cut into is a sequence of drafts.                        *)
LEMMA BuildItemsTyped ==
  ASSUME NEW kind \in Kinds, NEW raw \in Texts
  PROVE  BuildItems(kind, raw) \in Seq(Drafts)
<1>1. CASE kind = "word"
  BY <1>1, SplitWordsTyped DEF BuildItems
<1>2. CASE kind = "sentence"
  <2>1. SplitSentenceTarget(raw) \in Drafts
    BY StrippedTyped DEF SplitSentenceTarget, StripStates, Drafts
  <2> QED
    BY <1>2, <2>1 DEF BuildItems
<1>3. CASE kind = "dictation"
  <2>1. SplitDictation(raw) \in Seq(Drafts)
    BY CutAtStopsTyped, FlushedTyped DEF SplitDictation, CutStates
  <2> QED
    BY <1>3, <2>1 DEF BuildItems
<1> QED
  BY <1>1, <1>2, <1>3 DEF Kinds

(* SetToSeq lists a finite set that is not empty.                           *)
LEMMA SetToSeqTyped ==
  ASSUME NEW S, IsFiniteSet(S), S # {}
  PROVE  SetToSeq(S) \in Seq(S) /\ SetToSeq(S) # <<>>
<1>1. PICK n \in Nat : ExistsBijection(1 .. n, S)
  BY FS_NatBijection
<1>2. Cardinality(1 .. n) = n /\ IsFiniteSet(1 .. n)
  BY FS_Interval
<1>3. Cardinality(S) = n
  BY <1>1, <1>2, FS_Bijection
<1>4. PICK f : f \in Bijection(1 .. n, S)
  BY <1>1 DEF ExistsBijection
<1>5. f \in [1 .. n -> S] /\ IsInjective(f)
  BY <1>4 DEF Bijection, Injection
<1>6. SetToSeq(S) \in [1 .. n -> S]
  BY <1>3, <1>5 DEF SetToSeq
<1>7. n # 0
  <2> SUFFICES ASSUME n = 0
               PROVE  FALSE
    OBVIOUS
  <2>1. S = {}
    BY <1>3, FS_EmptySet
  <2> QED
    BY <2>1
<1> DEFINE s == SetToSeq(S)
<1>8. s \in Seq(S) /\ Len(s) = n
  <2> HIDE DEF s
  <2> QED
    BY <1>6 DEF s
<1>9. s # <<>>
  <2> HIDE DEF s
  <2> QED
    BY <1>7, <1>8
<1> QED
  BY <1>8, <1>9

----------------------------------------------------------------------------
(* A paste cut up holds the words of the paste.                             *)
(* Sequences joined one after another.                                      *)
LEMMA JoinedPlaces ==
  ASSUME NEW last \in Nat, NEW seqs, \A n \in 1 .. last : seqs[n] \in Seq(Words)
  PROVE  \E f \in [0 .. last -> Seq(Words)] :
           f[0] = <<>> /\ \A n \in 1 .. last : f[n] = f[n - 1] \o seqs[n]
<1> DEFINE S == Seq(Words)
           start == <<>>
           G == [n \in 1 .. last |-> [c \in S |-> c \o seqs[n]]]
<1>1. start \in S
  OBVIOUS
<1>2. \A n \in 1 .. last, c \in S : c \o seqs[n] \in S
  OBVIOUS
<1>3. G \in [1 .. last -> [S -> S]]
  BY <1>2
<1>4. \A n \in 1 .. last, c \in S : G[n][c] = c \o seqs[n]
  OBVIOUS
<1> HIDE DEF S, start, G
<1>5. PICK f \in [0 .. last -> S] :
        f[0] = start /\ \A n \in 1 .. last : f[n] = G[n][f[n - 1]]
  BY <1>1, <1>3, PlaceByPlace, SMTT(20)
<1>6. \A n \in 1 .. last : f[n - 1] \in S
  BY <1>5
<1>7. \A n \in 1 .. last : f[n] = f[n - 1] \o seqs[n]
  BY <1>4, <1>5, <1>6
<1> QED
  BY <1>5, <1>7 DEF S, start

LEMMA FlattenPlaces ==
  ASSUME NEW seqs \in Seq(Seq(Words))
  PROVE  \E f \in [0 .. Len(seqs) -> Seq(Words)] :
           /\ f[0] = <<>>
           /\ \A n \in 1 .. Len(seqs) : f[n] = f[n - 1] \o seqs[n]
           /\ FlattenSeq(seqs) = f[Len(seqs)]
<1> DEFINE S == Seq(Words)
           last == Len(seqs)
           start == <<>>
           flatten[i \in 1 .. Len(seqs)] ==
             IF i = 1 THEN seqs[i] ELSE flatten[i - 1] \o seqs[i]
<1>0. last \in Nat /\ \A n \in 1 .. last : seqs[n] \in S
  OBVIOUS
<1>1. \E f \in [0 .. last -> S] :
        f[0] = start /\ \A n \in 1 .. last : f[n] = f[n - 1] \o seqs[n]
  <2> HIDE DEF last
  <2> QED
    BY <1>0, JoinedPlaces
<1>2. PICK f \in [0 .. last -> S] :
        f[0] = start /\ \A n \in 1 .. last : f[n] = f[n - 1] \o seqs[n]
  BY <1>1
<1>3. \A n \in 1 .. last : f[n] = f[n - 1] \o seqs[n]
  BY <1>2
<1>4. CASE last = 0
  <2>1. FlattenSeq(seqs) = seqs /\ seqs = <<>>
    BY <1>4 DEF FlattenSeq
  <2> QED
    BY <1>2, <1>3, <1>4, <2>1
<1>5. CASE last # 0
  <2> DEFINE g == [i \in 1 .. last |-> f[i]]
  <2>1. f[1] = seqs[1]
    <3>1. 1 \in 1 .. last /\ 1 - 1 = 0
      BY <1>0, <1>5
    <3>2. f[1] = f[0] \o seqs[1]
      BY <1>3, <3>1
    <3>3. <<>> \o seqs[1] = seqs[1]
      BY <1>0, <3>1
    <3> QED
      BY <1>2, <3>2, <3>3
  <2>2. g = [i \in 1 .. Len(seqs) |-> IF i = 1 THEN seqs[i] ELSE g[i - 1] \o seqs[i]]
    <3>1. \A i \in 1 .. last : i # 1 => i - 1 \in 1 .. last
      BY <1>0
    <3> QED
      BY <1>3, <2>1, <3>1
  <2>3. flatten = [i \in 1 .. Len(seqs) |-> IF i = 1 THEN seqs[i] ELSE flatten[i - 1] \o seqs[i]]
    BY <2>2
  <2>4. FlattenSeq(seqs) = flatten[last]
    BY <1>5 DEF FlattenSeq
  <2> HIDE DEF flatten, g, S
  <2>9. flatten[1] = seqs[1] /\ \A i \in 2 .. last : flatten[i] = flatten[i - 1] \o seqs[i]
    <3>1. 1 \in 1 .. last /\ \A i \in 2 .. last : i \in 1 .. last /\ i # 1
      BY <1>0, <1>5
    <3> QED
      BY <2>3, <3>1
  <2> DEFINE T == {n \in Nat : n + 1 <= last => flatten[n + 1] = f[n + 1]}
  <2>5. 0 \in T
    BY <2>1, <2>9
  <2>6. ASSUME NEW n \in Nat, n \in T
        PROVE  n + 1 \in T
    <3> SUFFICES ASSUME n + 1 + 1 <= last
                 PROVE  flatten[n + 1 + 1] = f[n + 1 + 1]
      OBVIOUS
    <3> DEFINE k == n + 1 + 1
    <3>1. /\ flatten[n + 1] = f[n + 1] /\ k - 1 = n + 1
          /\ k \in 1 .. last /\ k \in 2 .. last
      BY <1>0, <2>6
    <3> HIDE DEF k, last
    <3>2. flatten[k] = flatten[k - 1] \o seqs[k]
      BY <2>9, <3>1
    <3>3. f[k] = f[k - 1] \o seqs[k]
      BY <1>3, <3>1
    <3>4. flatten[k - 1] = f[k - 1]
      BY <3>1
    <3>5. flatten[k] = f[k]
      BY <3>2, <3>3, <3>4
    <3> QED
      BY <3>5 DEF k
  <2>7. last - 1 \in T
    <3> HIDE DEF T
    <3>1. last - 1 \in Nat
      BY <1>0, <1>5
    <3> QED
      BY <2>5, <2>6, <3>1, SetInduction
  <2>8. flatten[last] = f[last]
    BY <1>0, <1>5, <2>7
  <2> QED
    BY <1>2, <1>3, <2>4, <2>8 DEF S
<1> QED
  BY <1>4, <1>5

LEMMA FlattenTyped ==
  ASSUME NEW seqs \in Seq(Seq(Words))
  PROVE  FlattenSeq(seqs) \in Seq(Words)
<1>1. PICK f \in [0 .. Len(seqs) -> Seq(Words)] : FlattenSeq(seqs) = f[Len(seqs)]
  BY FlattenPlaces
<1>2. Len(seqs) \in 0 .. Len(seqs)
  OBVIOUS
<1> QED
  BY <1>1, <1>2

(* Steps alike from starts alike end alike.                                 *)
LEMMA SameByPlace ==
  ASSUME NEW last \in Nat, NEW f, NEW g, f[0] = g[0],
         \A n \in 1 .. last : f[n - 1] = g[n - 1] => f[n] = g[n]
  PROVE  f[last] = g[last]
<1> DEFINE T == {n \in Nat : n <= last => f[n] = g[n]}
<1>1. 0 \in T
  OBVIOUS
<1>2. \A n \in Nat : n \in T => n + 1 \in T
  OBVIOUS
<1> HIDE DEF T
<1>3. Nat \subseteq T
  BY <1>1, <1>2, SetInduction
<1> QED
  BY <1>3 DEF T

LEMMA FlattenAppend ==
  ASSUME NEW seqs \in Seq(Seq(Words)), NEW e \in Seq(Words)
  PROVE  FlattenSeq(Append(seqs, e)) = FlattenSeq(seqs) \o e
<1> DEFINE more == Append(seqs, e)
           last == Len(seqs)
<1>1. /\ more \in Seq(Seq(Words)) /\ Len(more) = last + 1 /\ last \in Nat
      /\ more[last + 1] = e
      /\ \A n \in 1 .. last : more[n] = seqs[n]
  OBVIOUS
<1> HIDE DEF more
<1>2. PICK f \in [0 .. last -> Seq(Words)] :
        /\ f[0] = <<>>
        /\ \A n \in 1 .. last : f[n] = f[n - 1] \o seqs[n]
        /\ FlattenSeq(seqs) = f[last]
  BY FlattenPlaces
<1>3. PICK g \in [0 .. last + 1 -> Seq(Words)] :
        /\ g[0] = <<>>
        /\ \A n \in 1 .. last + 1 : g[n] = g[n - 1] \o more[n]
        /\ FlattenSeq(more) = g[last + 1]
  BY <1>1, FlattenPlaces
<1> HIDE DEF last
<1>4. f[last] = g[last]
  <2>1. \A n \in 1 .. last : n \in 1 .. last + 1
    BY <1>1
  <2>2. \A n \in 1 .. last : f[n - 1] = g[n - 1] => f[n] = g[n]
    BY <1>1, <1>2, <1>3, <2>1
  <2>3. f[0] = g[0]
    BY <1>2, <1>3
  <2> QED
    BY <1>1, <2>2, <2>3, SameByPlace
<1>5. g[last + 1] = g[last] \o e
  <2> DEFINE k == last + 1
  <2>1. k \in 1 .. last + 1 /\ k - 1 = last /\ more[k] = e
    BY <1>1
  <2> HIDE DEF k
  <2>2. g[k] = g[k - 1] \o more[k]
    BY <1>3, <2>1
  <2> QED
    BY <2>1, <2>2 DEF k
<1> QED
  BY <1>2, <1>3, <1>4, <1>5 DEF more

LEMMA NoWordsJoined ==
  ASSUME NEW seqs \in Seq(Seq(Words)), \A n \in DOMAIN seqs : seqs[n] = <<>>
  PROVE  FlattenSeq(seqs) = <<>>
<1> DEFINE last == Len(seqs)
<1>1. PICK f \in [0 .. last -> Seq(Words)] :
        /\ f[0] = <<>>
        /\ \A n \in 1 .. last : f[n] = f[n - 1] \o seqs[n]
        /\ FlattenSeq(seqs) = f[last]
  BY FlattenPlaces
<1>2. last \in Nat /\ DOMAIN seqs = 1 .. last
  OBVIOUS
<1> HIDE DEF last
<1> DEFINE T == {n \in Nat : n <= last => f[n] = <<>>}
<1>3. 0 \in T
  BY <1>1
<1>4. ASSUME NEW n \in Nat, n \in T
      PROVE  n + 1 \in T
  <2> SUFFICES ASSUME n + 1 <= last
               PROVE  f[n + 1] = <<>>
    OBVIOUS
  <2> DEFINE k == n + 1
  <2>1. k \in 1 .. last /\ f[k - 1] = <<>>
    BY <1>2, <1>4
  <2>2. seqs[k] = <<>>
    BY <1>2, <2>1
  <2> HIDE DEF k
  <2>3. f[k] = f[k - 1] \o seqs[k]
    BY <1>1, <2>1
  <2>4. f[k] = <<>> \o <<>>
    BY <2>1, <2>2, <2>3
  <2> QED
    BY <2>4 DEF k
<1>5. last \in T
  <2> HIDE DEF T
  <2> QED
    BY <1>2, <1>3, <1>4, SetInduction
<1> QED
  BY <1>1, <1>2, <1>5

(* A text that grows by a rune is spelled out one rune further.             *)
LEMMA SpelledAppend ==
  ASSUME NEW text \in Texts, NEW c \in Runes
  PROVE  SpelledOut(Append(text, c)) = Spell(SpelledOut(text), c)
<1> DEFINE more == Append(text, c)
           last == Len(text)
<1>1. /\ more \in Texts /\ Len(more) = last + 1 /\ last \in Nat
      /\ more[last + 1] = c
      /\ \A n \in 1 .. last : more[n] = text[n]
  BY DEF Texts
<1> HIDE DEF more
<1>2. PICK f \in [0 .. last -> Spellings] :
        /\ f[0] = [words |-> <<>>, word |-> <<>>]
        /\ \A n \in 1 .. last : f[n] = Spell(f[n - 1], text[n])
        /\ SpelledOut(text) = f[last]
  BY SpelledPlaces
<1>3. PICK g \in [0 .. last + 1 -> Spellings] :
        /\ g[0] = [words |-> <<>>, word |-> <<>>]
        /\ \A n \in 1 .. last + 1 : g[n] = Spell(g[n - 1], more[n])
        /\ SpelledOut(more) = g[last + 1]
  BY <1>1, SpelledPlaces
<1> HIDE DEF last
<1>4. f[last] = g[last]
  <2>1. \A n \in 1 .. last : n \in 1 .. last + 1
    BY <1>1
  <2>2. \A n \in 1 .. last : f[n - 1] = g[n - 1] => f[n] = g[n]
    BY <1>1, <1>2, <1>3, <2>1
  <2>3. f[0] = g[0]
    BY <1>2, <1>3
  <2> QED
    BY <1>1, <2>2, <2>3, SameByPlace
<1>5. g[last + 1] = Spell(g[last], c)
  <2>1. last + 1 \in 1 .. last + 1 /\ last + 1 - 1 = last
    BY <1>1
  <2> QED
    BY <1>1, <1>3, <2>1
<1> QED
  BY <1>2, <1>3, <1>4, <1>5 DEF more

LEMMA NoWords ==
  SpelledOut(<<>>) = [words |-> <<>>, word |-> <<>>] /\ WordsIn(<<>>) = <<>>
<1>1. <<>> \in Texts /\ Len(<<>>) = 0
  BY DEF Texts
<1>2. SpelledOut(<<>>) = [words |-> <<>>, word |-> <<>>]
  BY <1>1, SpelledPlaces
<1> QED
  BY <1>2 DEF WordsIn, Finished

(* Words spelled out after others.                                          *)
Onto(words, cut) == [words |-> words \o cut.words, word |-> cut.word]

LEMMA OntoFinished ==
  ASSUME NEW words \in Seq(Words), NEW cut \in Spellings
  PROVE  /\ Onto(words, cut) \in Spellings
         /\ Finished(Onto(words, cut)) = words \o Finished(cut)
<1>1. cut.words \in Seq(Words) /\ cut.word \in Words
  BY DEF Spellings
<1>2. words \o Append(cut.words, cut.word) = Append(words \o cut.words, cut.word)
  BY <1>1
<1>3. words \o cut.words \in Seq(Words)
  BY <1>1
<1> QED
  BY <1>1, <1>2, <1>3 DEF Onto, Finished, Spellings

LEMMA OntoSpelled ==
  ASSUME NEW words \in Seq(Words), NEW cut \in Spellings, NEW c \in Runes
  PROVE  Spell(Onto(words, cut), c) = Onto(words, Spell(cut, c))
<1> DEFINE more == Onto(words, cut)
<1>1. /\ more \in Spellings /\ more.words = words \o cut.words /\ more.word = cut.word
      /\ Finished(more) = words \o Finished(cut)
  BY OntoFinished DEF Onto
<1> HIDE DEF more
<1>2. CASE c \in Letters
  <2>1. Spell(more, c) = [words |-> more.words, word |-> Append(more.word, c)]
    BY <1>1, <1>2 DEF Spell, Spellings
  <2>2. Spell(cut, c) = [words |-> cut.words, word |-> Append(cut.word, c)]
    BY <1>2 DEF Spell, Spellings
  <2> QED
    BY <1>1, <2>1, <2>2 DEF Onto, more
<1>3. CASE c \notin Letters /\ c = Mark
  <2>1. Spell(more, c) = more /\ Spell(cut, c) = cut
    BY <1>3 DEF Spell
  <2> QED
    BY <2>1 DEF more
<1>4. CASE c \notin Letters /\ c # Mark
  <2>1. Spell(more, c) = [words |-> Finished(more), word |-> <<>>]
    BY <1>4 DEF Spell
  <2>2. Spell(cut, c) = [words |-> Finished(cut), word |-> <<>>]
    BY <1>4 DEF Spell
  <2>3. Onto(words, Spell(cut, c)) = [words |-> words \o Finished(cut), word |-> <<>>]
    BY <2>2 DEF Onto
  <2>4. Spell(more, c) = [words |-> words \o Finished(cut), word |-> <<>>]
    BY <1>1, <2>1
  <2> QED
    BY <2>3, <2>4 DEF more
<1> QED
  BY <1>2, <1>3, <1>4

(* The words of a sequence of drafts.                                       *)
WordsOf(drafts) == FlattenSeq([n \in DOMAIN drafts |-> WordsIn(drafts[n].text)])

LEMMA WordsOfTyped ==
  ASSUME NEW drafts \in Seq(Drafts)
  PROVE  /\ [n \in DOMAIN drafts |-> WordsIn(drafts[n].text)] \in Seq(Seq(Words))
         /\ WordsOf(drafts) \in Seq(Words)
<1>1. \A n \in DOMAIN drafts : WordsIn(drafts[n].text) \in Seq(Words)
  <2>1. \A n \in DOMAIN drafts : drafts[n] \in Drafts
    OBVIOUS
  <2>2. \A n \in DOMAIN drafts : drafts[n].text \in Texts
    BY <2>1 DEF Drafts
  <2> QED
    BY <2>2, WordsInTyped
<1>2. DOMAIN drafts = 1 .. Len(drafts) /\ Len(drafts) \in Nat
  OBVIOUS
<1>3. [n \in DOMAIN drafts |-> WordsIn(drafts[n].text)] \in Seq(Seq(Words))
  BY <1>1, <1>2
<1> QED
  BY <1>3, FlattenTyped DEF WordsOf

LEMMA WordsOfAppend ==
  ASSUME NEW drafts \in Seq(Drafts), NEW d \in Drafts
  PROVE  WordsOf(Append(drafts, d)) = WordsOf(drafts) \o WordsIn(d.text)
<1> DEFINE more == Append(drafts, d)
           texts == [n \in DOMAIN drafts |-> WordsIn(drafts[n].text)]
           words == WordsIn(d.text)
<1>1. /\ more \in Seq(Drafts) /\ Len(more) = Len(drafts) + 1 /\ Len(drafts) \in Nat
      /\ more[Len(drafts) + 1] = d
      /\ \A n \in 1 .. Len(drafts) : more[n] = drafts[n]
  OBVIOUS
<1>2. texts \in Seq(Seq(Words)) /\ words \in Seq(Words)
  BY WordsOfTyped, WordsInTyped DEF Drafts
<1>3. DOMAIN more = 1 .. Len(drafts) + 1 /\ DOMAIN drafts = 1 .. Len(drafts)
  BY <1>1
<1> HIDE DEF more
<1>4. Len(texts) = Len(drafts) /\ \A n \in 1 .. Len(drafts) : texts[n] = WordsIn(drafts[n].text)
  BY <1>1, <1>3
<1>5. [n \in DOMAIN more |-> WordsIn(more[n].text)] = Append(texts, words)
  <2> DEFINE all == [n \in DOMAIN more |-> WordsIn(more[n].text)]
             other == Append(texts, words)
  <2>1. all \in Seq(Seq(Words)) /\ Len(all) = Len(drafts) + 1
    <3>1. all \in Seq(Seq(Words))
      BY <1>1, WordsOfTyped
    <3> QED
      BY <1>1, <1>3, <3>1
  <2>2. \A n \in 1 .. Len(drafts) + 1 : all[n] = WordsIn(more[n].text)
    BY <1>3
  <2> HIDE DEF texts, words, all
  <2>3. /\ other \in Seq(Seq(Words)) /\ Len(other) = Len(drafts) + 1
        /\ other[Len(drafts) + 1] = words
        /\ \A n \in 1 .. Len(drafts) : other[n] = texts[n]
    BY <1>2, <1>4
  <2> HIDE DEF other
  <2>4. \A n \in 1 .. Len(drafts) + 1 : all[n] = other[n]
    <3> TAKE n \in 1 .. Len(drafts) + 1
    <3>1. CASE n = Len(drafts) + 1
      <4>1. more[n] = d
        BY <1>1, <3>1
      <4> QED
        BY <2>2, <2>3, <3>1, <4>1 DEF words
    <3>2. CASE n # Len(drafts) + 1
      <4>1. n \in 1 .. Len(drafts)
        BY <1>1, <3>2
      <4>2. more[n] = drafts[n]
        BY <1>1, <4>1
      <4> QED
        BY <1>4, <2>2, <2>3, <4>1, <4>2
    <3> QED
      BY <3>1, <3>2
  <2>5. all = other
    BY <2>1, <2>3, <2>4
  <2> QED
    BY <2>5 DEF all, other, texts, words
<1> HIDE DEF texts, words
<1>6. FlattenSeq(Append(texts, words)) = FlattenSeq(texts) \o words
  BY <1>2, FlattenAppend
<1> QED
  BY <1>5, <1>6 DEF WordsOf, more, texts, words

LEMMA OneRune ==
  ASSUME NEW c \in Runes
  PROVE  SpelledOut(<<c>>) = Spell([words |-> <<>>, word |-> <<>>], c)
<1>1. <<>> \in Texts /\ Append(<<>>, c) = <<c>>
  BY DEF Texts
<1> QED
  BY <1>1, SpelledAppend, NoWords

LEMMA NoDrafts == WordsOf(<<>>) = <<>>
<1>1. <<>> \in Seq(Drafts)
  OBVIOUS
<1> DEFINE texts == [n \in DOMAIN <<>> |-> WordsIn(<<>>[n].text)]
<1>2. texts \in Seq(Seq(Words))
  BY <1>1, WordsOfTyped
<1>3. \A n \in DOMAIN texts : texts[n] = <<>>
  OBVIOUS
<1> HIDE DEF texts
<1>4. FlattenSeq(texts) = <<>>
  BY <1>2, <1>3, NoWordsJoined
<1> QED
  BY <1>4 DEF WordsOf, texts

LEMMA FlushedWords ==
  ASSUME NEW cut, cut.drafts \in Seq(Drafts), cut.current \in Texts
  PROVE  WordsOf(Flushed(cut)) = WordsOf(cut.drafts) \o WordsIn(cut.current)
<1>2. WordsOf(cut.drafts) \in Seq(Words)
  BY WordsOfTyped
<1>3. CASE cut.current = <<>>
  <2>1. Flushed(cut) = cut.drafts /\ WordsIn(cut.current) = <<>>
    BY <1>3, NoWords DEF Flushed
  <2>2. WordsOf(cut.drafts) \o <<>> = WordsOf(cut.drafts)
    BY <1>2
  <2> QED
    BY <2>1, <2>2
<1>4. CASE cut.current # <<>>
  <2>1. Whole(cut.current) \in Drafts /\ Whole(cut.current).text = cut.current
    BY WholeTyped
  <2>2. Flushed(cut) = Append(cut.drafts, Whole(cut.current))
    BY <1>4 DEF Flushed
  <2> QED
    BY <2>1, <2>2, WordsOfAppend
<1> QED
  BY <1>3, <1>4

(* The words of the drafts cut so far and of the one under way.             *)
SpelledSoFar(cut) == Onto(WordsOf(cut.drafts), SpelledOut(cut.current))

LEMMA SoFarTyped ==
  ASSUME NEW cut, cut.drafts \in Seq(Drafts), cut.current \in Texts
  PROVE  /\ WordsOf(cut.drafts) \in Seq(Words)
         /\ SpelledOut(cut.current) \in Spellings
         /\ SpelledSoFar(cut) \in Spellings
         /\ WordsOf(Flushed(cut)) = Finished(SpelledSoFar(cut))
<1>1. WordsOf(cut.drafts) \in Seq(Words) /\ SpelledOut(cut.current) \in Spellings
  BY WordsOfTyped, SpelledTyped
<1>2. WordsOf(Flushed(cut)) = WordsOf(cut.drafts) \o Finished(SpelledOut(cut.current))
  BY FlushedWords DEF WordsIn
<1> QED
  BY <1>1, <1>2, OntoFinished DEF SpelledSoFar

(* A draft that grows by a rune.                                            *)
LEMMA CurrentGrows ==
  ASSUME NEW cut, cut.drafts \in Seq(Drafts), cut.current \in Texts, NEW c \in Runes,
         NEW next, next.drafts = cut.drafts, next.current = Append(cut.current, c)
  PROVE  SpelledSoFar(next) = Spell(SpelledSoFar(cut), c)
<1>1. SpelledOut(next.current) = Spell(SpelledOut(cut.current), c)
  BY SpelledAppend
<1> QED
  BY <1>1, SoFarTyped, OntoSpelled DEF SpelledSoFar

LEMMA NoSpelling ==
  ASSUME NEW cut, cut.drafts = <<>>, cut.current = <<>>
  PROVE  SpelledSoFar(cut) = [words |-> <<>>, word |-> <<>>]
<1>1. WordsOf(cut.drafts) = <<>> /\ SpelledOut(cut.current) = [words |-> <<>>, word |-> <<>>]
  BY NoDrafts, NoWords
<1>2. <<>> \o <<>> = <<>>
  OBVIOUS
<1> QED
  BY <1>1, <1>2 DEF SpelledSoFar, Onto

(* What one more rune adds to the words cut so far.                         *)
LEMMA FieldSpells ==
  ASSUME NEW cut \in FieldStates, NEW c \in Runes
  PROVE  SpelledSoFar(Field(cut, c)) = Spell(SpelledSoFar(cut), c)
<1>1. cut.drafts \in Seq(Drafts) /\ cut.current \in Texts
  BY DEF FieldStates
<1>2. CASE c \in {Comma, Space}
  <2>1. c \notin Letters /\ c # Mark
    BY <1>2, PasteAssumption DEF Comma, Space, Mark
  <2>2. Spell(SpelledSoFar(cut), c) = [words |-> Finished(SpelledSoFar(cut)), word |-> <<>>]
    BY <2>1 DEF Spell
  <2>3. Field(cut, c).drafts = Flushed(cut) /\ Field(cut, c).current = <<>>
    BY <1>2 DEF Field
  <2>4. SpelledSoFar(Field(cut, c)) = [words |-> WordsOf(Flushed(cut)) \o <<>>, word |-> <<>>]
    <3> DEFINE none == [words |-> <<>>, word |-> <<>>]
    <3>1. SpelledOut(Field(cut, c).current) = none
      BY <2>3, NoWords
    <3>2. SpelledSoFar(Field(cut, c)) = Onto(WordsOf(Flushed(cut)), none)
      BY <2>3, <3>1 DEF SpelledSoFar
    <3> QED
      BY <3>2 DEF Onto
  <2>5. WordsOf(Flushed(cut)) \o <<>> = WordsOf(Flushed(cut))
    BY <1>1, FlushedTyped, WordsOfTyped
  <2> QED
    BY <1>1, <2>2, <2>4, <2>5, SoFarTyped
<1>3. CASE c \notin {Comma, Space}
  <2>1. Field(cut, c).drafts = cut.drafts /\ Field(cut, c).current = Append(cut.current, c)
    BY <1>3 DEF Field, FieldStates
  <2> QED
    BY <1>1, <2>1, CurrentGrows
<1> QED
  BY <1>2, <1>3

(* The sentence under way ends on no word once its end has been seen.       *)
Ended(cut) == cut.ending => SpelledOut(cut.current).word = <<>>

LEMMA CutSpells ==
  ASSUME NEW cut \in CutStates, Ended(cut), NEW c \in Runes
  PROVE  /\ SpelledSoFar(Cut(cut, c)) = Spell(SpelledSoFar(cut), c)
         /\ Ended(Cut(cut, c))
<1> DEFINE before == WordsOf(cut.drafts)
           last == SpelledOut(cut.current)
           none == [words |-> <<>>, word |-> <<>>]
<1>1. cut.drafts \in Seq(Drafts) /\ cut.current \in Texts
  BY DEF CutStates
<1>2. before \in Seq(Words) /\ last \in Spellings /\ SpelledSoFar(cut) = Onto(before, last)
  BY <1>1, SoFarTyped DEF SpelledSoFar
<1>3. last.words \in Seq(Words) /\ before \o last.words \in Seq(Words)
  BY <1>2 DEF Spellings
<1>4. cut.ending => SpelledSoFar(cut) = [words |-> before \o last.words, word |-> <<>>]
  BY <1>2 DEF Ended, Onto
<1> HIDE DEF before, last
<1>5. CASE cut.ending /\ c = Space
  <2>1. Cut(cut, c) = cut
    BY <1>5 DEF Cut
  <2>2. c \notin Letters /\ c # Mark
    BY <1>5, PasteAssumption DEF Space, Mark
  <2> QED
    BY <1>4, <1>5, <2>1, <2>2 DEF Spell, Finished
<1>6. CASE cut.ending /\ c # Space /\ c # Stop
  <2>1. Cut(cut, c) = [drafts |-> Flushed(cut), current |-> <<c>>, ending |-> FALSE]
    BY <1>6 DEF Cut
  <2>2. /\ Cut(cut, c).drafts = Flushed(cut) /\ Cut(cut, c).current = <<c>>
        /\ Cut(cut, c).ending = FALSE
    BY <2>1
  <2>3. WordsOf(Flushed(cut)) = before \o last.words
    <3>1. WordsOf(Flushed(cut)) = Finished(SpelledSoFar(cut))
      BY <1>1, SoFarTyped
    <3> QED
      BY <1>4, <1>6, <3>1 DEF Finished
  <2>4. SpelledSoFar(Cut(cut, c)) = Onto(before \o last.words, Spell(none, c))
    BY <2>2, <2>3, OneRune DEF SpelledSoFar
  <2>5. none \in Spellings
    BY DEF Spellings, Words
  <2>6. Onto(before \o last.words, none) = SpelledSoFar(cut)
    <3>1. (before \o last.words) \o <<>> = before \o last.words
      BY <1>3
    <3> QED
      BY <1>4, <1>6, <3>1 DEF Onto
  <2> HIDE DEF none
  <2>7. Spell(Onto(before \o last.words, none), c) = Onto(before \o last.words, Spell(none, c))
    BY <1>3, <2>5, OntoSpelled
  <2> QED
    BY <2>2, <2>4, <2>6, <2>7 DEF Ended
<1>7. CASE ~cut.ending \/ c = Stop
  <2> DEFINE next == Cut(cut, c)
  <2>1. next = [cut EXCEPT !.current = Append(@, c), !.ending = (c = Stop)]
    BY <1>7 DEF Cut, Stop, Space
  <2>2. /\ next.drafts = cut.drafts /\ next.current = Append(cut.current, c)
        /\ next.ending = (c = Stop)
    BY <2>1 DEF CutStates
  <2> HIDE DEF next
  <2>3. SpelledSoFar(next) = Spell(SpelledSoFar(cut), c)
    BY <1>1, <2>2, CurrentGrows
  <2>4. c = Stop => SpelledOut(next.current).word = <<>>
    <3>1. SpelledOut(next.current) = Spell(last, c)
      BY <1>1, <2>2, SpelledAppend DEF last
    <3>2. c = Stop => c \notin Letters /\ c # Mark
      BY PasteAssumption DEF Stop, Mark
    <3> QED
      BY <3>1, <3>2 DEF Spell
  <2> QED
    BY <2>2, <2>3, <2>4 DEF Ended, next
<1> QED
  BY <1>5, <1>6, <1>7

(* A list of words is cut into drafts that hold its words.                  *)
LEMMA SplitWordsWhole ==
  ASSUME NEW raw \in Texts
  PROVE  WordsOf(SplitWords(raw)) = WordsIn(raw)
<1> DEFINE last == Len(raw)
<1>1. last \in Nat /\ \A n \in 1 .. last : raw[n] \in Runes
  BY DEF Texts
<1>2. PICK f \in [0 .. last -> FieldStates] :
        /\ f[0] = [drafts |-> <<>>, current |-> <<>>]
        /\ \A n \in 1 .. last : f[n] = Field(f[n - 1], raw[n])
        /\ CutAtFields(raw) = f[last]
  BY FieldPlaces
<1>3. PICK w \in [0 .. last -> Spellings] :
        /\ w[0] = [words |-> <<>>, word |-> <<>>]
        /\ \A n \in 1 .. last : w[n] = Spell(w[n - 1], raw[n])
        /\ SpelledOut(raw) = w[last]
  BY SpelledPlaces
<1> HIDE DEF last
<1> DEFINE sofar == [n \in 0 .. last |-> SpelledSoFar(f[n])]
<1>4. sofar[0] = w[0]
  <2>1. f[0].drafts = <<>> /\ f[0].current = <<>> /\ 0 \in 0 .. last
    BY <1>1, <1>2
  <2> QED
    BY <1>3, <2>1, NoSpelling
<1>5. \A n \in 1 .. last : sofar[n - 1] = w[n - 1] => sofar[n] = w[n]
  <2> TAKE n \in 1 .. last
  <2>1. /\ f[n - 1] \in FieldStates /\ f[n] = Field(f[n - 1], raw[n])
        /\ n \in 0 .. last /\ n - 1 \in 0 .. last
    BY <1>1, <1>2
  <2>2. sofar[n] = Spell(sofar[n - 1], raw[n])
    BY <1>1, <2>1, FieldSpells
  <2> HIDE DEF sofar
  <2> QED
    BY <1>3, <2>2
<1>6. WordsOf(Flushed(f[last])) = Finished(sofar[last])
  <2>1. last \in 0 .. last /\ f[last].drafts \in Seq(Drafts) /\ f[last].current \in Texts
    BY <1>1, <1>2 DEF FieldStates
  <2> QED
    BY <2>1, SoFarTyped
<1> HIDE DEF sofar
<1>7. sofar[last] = w[last]
  BY <1>1, <1>4, <1>5, SameByPlace
<1> QED
  BY <1>2, <1>3, <1>6, <1>7 DEF SplitWords, WordsIn

(* A dictée is cut into sentences that hold its words.                      *)
LEMMA SplitDictationWhole ==
  ASSUME NEW raw \in Texts
  PROVE  WordsOf(SplitDictation(raw)) = WordsIn(raw)
<1> DEFINE last == Len(raw)
<1>1. last \in Nat /\ \A n \in 1 .. last : raw[n] \in Runes
  BY DEF Texts
<1>2. PICK f \in [0 .. last -> CutStates] :
        /\ f[0] = [drafts |-> <<>>, current |-> <<>>, ending |-> FALSE]
        /\ \A n \in 1 .. last : f[n] = Cut(f[n - 1], raw[n])
        /\ CutAtStops(raw) = f[last]
  BY CutPlaces
<1>3. PICK w \in [0 .. last -> Spellings] :
        /\ w[0] = [words |-> <<>>, word |-> <<>>]
        /\ \A n \in 1 .. last : w[n] = Spell(w[n - 1], raw[n])
        /\ SpelledOut(raw) = w[last]
  BY SpelledPlaces
<1> HIDE DEF last
<1> DEFINE sofar == [n \in 0 .. last |-> SpelledSoFar(f[n])]
<1>4. sofar[0] = w[0]
  <2>1. f[0].drafts = <<>> /\ f[0].current = <<>> /\ 0 \in 0 .. last
    BY <1>1, <1>2
  <2> QED
    BY <1>3, <2>1, NoSpelling
<1>5. \A n \in 0 .. last : f[n] \in {cut \in CutStates : Ended(cut)}
  <2> DEFINE S == {cut \in CutStates : Ended(cut)}
  <2>1. f[0] \in S
    <3>1. f[0] \in CutStates
      <4>1. 0 \in 0 .. last
        BY <1>1
      <4> QED
        BY <4>1
    <3>2. ~f[0].ending
      BY <1>2
    <3> QED
      BY <3>1, <3>2 DEF Ended
  <2>2. \A n \in 1 .. last : f[n - 1] \in S => f[n] \in S
    <3> TAKE n \in 1 .. last
    <3>1. f[n] \in CutStates /\ f[n] = Cut(f[n - 1], raw[n]) /\ raw[n] \in Runes
      BY <1>1, <1>2
    <3> QED
      BY <3>1, CutSpells
  <2> HIDE DEF S
  <2> QED
    BY <1>1, <2>1, <2>2, TypedByPlace DEF S
<1>6. \A n \in 1 .. last : sofar[n - 1] = w[n - 1] => sofar[n] = w[n]
  <2> TAKE n \in 1 .. last
  <2>1. /\ f[n - 1] \in CutStates /\ Ended(f[n - 1]) /\ f[n] = Cut(f[n - 1], raw[n])
        /\ n \in 0 .. last /\ n - 1 \in 0 .. last
    BY <1>1, <1>2, <1>5
  <2>2. sofar[n] = Spell(sofar[n - 1], raw[n])
    BY <1>1, <2>1, CutSpells
  <2> HIDE DEF sofar
  <2> QED
    BY <1>3, <2>2
<1>7. WordsOf(Flushed(f[last])) = Finished(sofar[last])
  <2>1. last \in 0 .. last /\ f[last].drafts \in Seq(Drafts) /\ f[last].current \in Texts
    BY <1>1, <1>2 DEF CutStates
  <2> QED
    BY <2>1, SoFarTyped
<1> HIDE DEF sofar
<1>8. sofar[last] = w[last]
  BY <1>1, <1>4, <1>6, SameByPlace
<1> QED
  BY <1>2, <1>3, <1>7, <1>8 DEF SplitDictation, WordsIn

(* Taking the marks out of a sentence leaves its words.                     *)
LEMMA StrippedWhole ==
  ASSUME NEW raw \in Texts
  PROVE  WordsIn(Stripped(raw).text) = WordsIn(raw)
<1> DEFINE last == Len(raw)
<1>1. last \in Nat /\ \A n \in 1 .. last : raw[n] \in Runes
  BY DEF Texts
<1>2. PICK f \in [0 .. last -> StripStates] :
        /\ f[0] = [text |-> <<>>, targets |-> <<>>, open |-> -1]
        /\ \A n \in 1 .. last : f[n] = Strip(f[n - 1], raw[n])
        /\ Stripped(raw) = f[last]
  BY StrippedPlaces
<1>3. PICK w \in [0 .. last -> Spellings] :
        /\ w[0] = [words |-> <<>>, word |-> <<>>]
        /\ \A n \in 1 .. last : w[n] = Spell(w[n - 1], raw[n])
        /\ SpelledOut(raw) = w[last]
  BY SpelledPlaces
<1> HIDE DEF last
<1> DEFINE sofar == [n \in 0 .. last |-> SpelledOut(f[n].text)]
<1>4. sofar[0] = w[0]
  <2>1. f[0].text = <<>> /\ 0 \in 0 .. last
    BY <1>1, <1>2
  <2> QED
    BY <1>3, <2>1, NoWords
<1>5. \A n \in 1 .. last : sofar[n - 1] = w[n - 1] => sofar[n] = w[n]
  <2> TAKE n \in 1 .. last
  <2>1. f[n - 1] \in StripStates /\ f[n] = Strip(f[n - 1], raw[n]) /\ n \in 0 .. last /\ n - 1 \in 0 .. last
    BY <1>1, <1>2
  <2>2. f[n - 1].text \in Texts
    BY <2>1 DEF StripStates
  <2>3. sofar[n] = Spell(sofar[n - 1], raw[n])
    <3>1. CASE raw[n] = Mark
      <4>1. f[n].text = f[n - 1].text
        BY <2>1, <3>1 DEF Strip, StripStates
      <4>2. raw[n] \notin Letters
        BY <3>1, PasteAssumption
      <4> QED
        BY <2>1, <3>1, <4>1, <4>2 DEF Spell
    <3>2. CASE raw[n] # Mark
      <4>1. f[n].text = Append(f[n - 1].text, raw[n])
        BY <2>1, <3>2 DEF Strip, StripStates
      <4> QED
        BY <1>1, <2>1, <2>2, <4>1, SpelledAppend
    <3> QED
      BY <3>1, <3>2
  <2> HIDE DEF sofar
  <2> QED
    BY <1>3, <2>3
<1>6. SpelledOut(f[last].text) = sofar[last]
  BY <1>1
<1> HIDE DEF sofar
<1>7. sofar[last] = w[last]
  BY <1>1, <1>4, <1>5, SameByPlace
<1> QED
  BY <1>2, <1>3, <1>6, <1>7 DEF WordsIn

(* However a paste is cut, its words are in what it is cut into.            *)
LEMMA BuildItemsWhole ==
  ASSUME NEW kind \in Kinds, NEW raw \in Texts, BuildItems(kind, raw) # <<>>
  PROVE  WordsOf(BuildItems(kind, raw)) = WordsIn(raw)
<1>1. CASE kind = "word"
  BY <1>1, SplitWordsWhole DEF BuildItems
<1>2. CASE kind = "dictation"
  BY <1>2, SplitDictationWhole DEF BuildItems
<1>3. CASE kind = "sentence"
  <2> DEFINE draft == SplitSentenceTarget(raw)
             none == <<>>
  <2>1. BuildItems(kind, raw) = <<draft>>
    BY <1>3 DEF BuildItems
  <2>2. draft \in Drafts /\ draft.text = Stripped(raw).text
    BY StrippedTyped DEF SplitSentenceTarget, StripStates, Drafts
  <2>3. none \in Seq(Drafts) /\ <<draft>> = Append(none, draft)
    BY <2>2
  <2> HIDE DEF draft
  <2>4. WordsOf(none) = <<>>
    BY NoDrafts
  <2>5. WordsIn(draft.text) \in Seq(Words)
    BY <2>2, WordsInTyped DEF Drafts
  <2>6. WordsOf(<<draft>>) = <<>> \o WordsIn(draft.text)
    <3> HIDE DEF none
    <3> QED
      BY <2>2, <2>3, <2>4, WordsOfAppend
  <2>7. <<>> \o WordsIn(draft.text) = WordsIn(draft.text)
    BY <2>5
  <2> QED
    BY <2>1, <2>2, <2>6, <2>7, StrippedWhole
<1> QED
  BY <1>1, <1>2, <1>3 DEF Kinds

----------------------------------------------------------------------------
(* The marks of a text counted from its start: m[k] of them before place k. *)
Counts(raw, m) ==
  /\ m \in [1 .. Len(raw) + 1 -> Nat]
  /\ m[1] = 0
  /\ \A n \in 1 .. Len(raw) : m[n + 1] = IF raw[n] = Mark THEN m[n] + 1 ELSE m[n]
  /\ \A j, k \in 1 .. Len(raw) + 1 : j <= k => m[j] <= m[k] /\ j - m[j] <= k - m[k]

LEMMA MarksCounted ==
  ASSUME NEW raw \in Texts
  PROVE  Counts(raw, [k \in 1 .. Len(raw) + 1 |-> MarksBefore(raw, k)])
<1> DEFINE M(k) == {j \in 1 .. k - 1 : raw[j] = Mark}
<1>1. Len(raw) \in Nat
  BY DEF Texts
<1>2. \A k \in 1 .. Len(raw) + 1 : IsFiniteSet(M(k)) /\ Cardinality(M(k)) \in Nat
  <2> TAKE k \in 1 .. Len(raw) + 1
  <2>1. IsFiniteSet(1 .. k - 1)
    BY <1>1, FS_Interval
  <2>2. M(k) \subseteq 1 .. k - 1
    OBVIOUS
  <2> HIDE DEF M
  <2> QED
    BY <2>1, <2>2, FS_Subset, FS_CardinalityType
<1>3. Cardinality(M(1)) = 0
  <2>1. M(1) = {}
    OBVIOUS
  <2> HIDE DEF M
  <2> QED
    BY <2>1, FS_EmptySet
<1>4. \A n \in 1 .. Len(raw) :
        Cardinality(M(n + 1)) = IF raw[n] = Mark THEN Cardinality(M(n)) + 1 ELSE Cardinality(M(n))
  <2> TAKE n \in 1 .. Len(raw)
  <2>1. M(n + 1) = IF raw[n] = Mark THEN M(n) \union {n} ELSE M(n)
    BY <1>1
  <2>2. n \notin M(n) /\ IsFiniteSet(M(n))
    BY <1>1, <1>2
  <2> HIDE DEF M
  <2> QED
    BY <2>1, <2>2, FS_AddElement
<1>5. \A j, k \in 1 .. Len(raw) + 1 : j <= k => Cardinality(M(j)) <= Cardinality(M(k))
  <2> SUFFICES ASSUME NEW j \in 1 .. Len(raw) + 1, NEW k \in 1 .. Len(raw) + 1, j <= k
               PROVE  Cardinality(M(j)) <= Cardinality(M(k))
    OBVIOUS
  <2>1. M(j) \subseteq M(k) /\ IsFiniteSet(M(k))
    BY <1>1, <1>2
  <2> HIDE DEF M
  <2> QED
    BY <2>1, FS_Subset
<1>8. \A j, k \in 1 .. Len(raw) + 1 :
        j <= k => j - Cardinality(M(j)) <= k - Cardinality(M(k))
  <2> SUFFICES ASSUME NEW j \in 1 .. Len(raw) + 1, NEW k \in 1 .. Len(raw) + 1, j <= k
               PROVE  j - Cardinality(M(j)) <= k - Cardinality(M(k))
    OBVIOUS
  <2> DEFINE between == j .. k - 1
  <2>1. M(k) \subseteq M(j) \union between
    BY <1>1
  <2>2. IsFiniteSet(between) /\ Cardinality(between) = k - j
    <3>1. j \in Int /\ k - 1 \in Int /\ (k - 1) - j + 1 = k - j
      BY <1>1
    <3>2. Cardinality(between) = IF j > k - 1 THEN 0 ELSE (k - 1) - j + 1
      BY <3>1, FS_Interval
    <3>3. (IF j > k - 1 THEN 0 ELSE (k - 1) - j + 1) = k - j
      BY <1>1
    <3>4. IsFiniteSet(between)
      BY <3>1, FS_Interval
    <3> QED
      BY <3>2, <3>3, <3>4
  <2> HIDE DEF M, between
  <2>3. IsFiniteSet(M(j)) /\ Cardinality(M(j)) \in Nat
    BY <1>2
  <2> DEFINE all == M(j) \union between
             both == M(j) \intersect between
  <2>4. IsFiniteSet(all) /\ Cardinality(all) = Cardinality(M(j)) + Cardinality(between) - Cardinality(both)
    BY <2>2, <2>3, FS_Union
  <2>5. Cardinality(both) \in Nat
    BY <2>3, FS_Intersection, FS_CardinalityType
  <2>6. Cardinality(M(k)) <= Cardinality(all)
    BY <2>1, <2>4, FS_Subset
  <2>7. Cardinality(M(k)) \in Nat /\ j \in Int /\ k \in Int
    BY <1>1, <1>2
  <2> HIDE DEF all, both
  <2> QED
    BY <2>2, <2>3, <2>4, <2>5, <2>6, <2>7
<1> DEFINE m == [k \in 1 .. Len(raw) + 1 |-> MarksBefore(raw, k)]
<1>6. \A k \in 1 .. Len(raw) + 1 : m[k] = Cardinality(M(k))
  BY DEF MarksBefore
<1> HIDE DEF M, m
<1>7. m \in [1 .. Len(raw) + 1 -> Nat]
  BY <1>2, <1>6 DEF m
<1> QED
  BY <1>1, <1>3, <1>4, <1>5, <1>6, <1>7, <1>8 DEF Counts, m

Kept(raw, n)  == {k \in 1 .. n : raw[k] # Mark}
PlaceOf(m, k) == k - m[k]

(* The text so far is the unmarked places so far, in their order.           *)
TextSoFar(raw, m, n, cut) ==
  /\ Len(cut.text) = n - m[n + 1]
  /\ \A k \in Kept(raw, n) :
       PlaceOf(m, k) \in 1 .. Len(cut.text) /\ cut.text[PlaceOf(m, k)] = raw[k]
  /\ \A p \in 1 .. Len(cut.text) : \E k \in Kept(raw, n) : p = PlaceOf(m, k)

(* Each pair of marks so far has its span, and each span its pair; a mark   *)
(* without its second is the open one.                                      *)
PairsSoFar(raw, m, n) ==
  {p \in (1 .. n) \X (1 .. n) :
     /\ p[1] < p[2] /\ raw[p[1]] = Mark /\ raw[p[2]] = Mark
     /\ m[p[1]] % 2 = 0 /\ m[p[2]] = m[p[1]] + 1}

SpanOf(m, p) == [start |-> p[1] - 1 - m[p[1]], end |-> p[2] - 1 - m[p[2]]]

SpansSoFar(raw, m, n, cut) ==
  /\ m[n + 1] % 2 = 0 => cut.open = -1
  /\ m[n + 1] % 2 = 1 =>
       \E k \in 1 .. n : raw[k] = Mark /\ m[k] + 1 = m[n + 1] /\ cut.open = k - 1 - m[k]
  /\ \A p \in PairsSoFar(raw, m, n) : \E i \in DOMAIN cut.targets : cut.targets[i] = SpanOf(m, p)
  /\ \A i \in DOMAIN cut.targets : \E p \in PairsSoFar(raw, m, n) : cut.targets[i] = SpanOf(m, p)

LEMMA Parity ==
  ASSUME NEW n \in Nat
  PROVE  n % 2 = 0 <=> (n + 1) % 2 = 1
OBVIOUS

LEMMA WordKept ==
  ASSUME NEW raw \in Texts, NEW m, Counts(raw, m), NEW n \in 1 .. Len(raw),
         NEW cut \in StripStates, raw[n] # Mark,
         TextSoFar(raw, m, n - 1, cut), SpansSoFar(raw, m, n - 1, cut)
  PROVE  TextSoFar(raw, m, n, Strip(cut, raw[n])) /\ SpansSoFar(raw, m, n, Strip(cut, raw[n]))
<1> DEFINE t == raw[n]
           next == [cut EXCEPT !.text = Append(@, t)]
<1>0. Len(raw) \in Nat /\ n \in Nat /\ n - 1 + 1 = n /\ n \in 1 .. Len(raw) + 1
  BY DEF Texts
<1>1. Strip(cut, t) = next
  BY DEF Strip
<1>2. /\ next.text = Append(cut.text, t) /\ next.targets = cut.targets /\ next.open = cut.open
  BY DEF StripStates
<1>3. cut.text \in Seq(Runes) /\ cut.targets \in Seq(Spans) /\ cut.open \in Int
  BY DEF StripStates, Texts
<1>4. m[n + 1] = m[n] /\ m[n] \in Nat
  BY <1>0 DEF Counts
<1>5. Kept(raw, n) = Kept(raw, n - 1) \union {n} /\ n \notin Kept(raw, n - 1)
  BY <1>0 DEF Kept
<1>6. \A k \in Kept(raw, n - 1) : k \in 1 .. n - 1 /\ m[k] \in Nat
  <2>1. \A k \in Kept(raw, n - 1) : k \in 1 .. n - 1 /\ k \in 1 .. Len(raw) + 1
    BY <1>0 DEF Kept
  <2>2. \A k \in 1 .. Len(raw) + 1 : m[k] \in Nat
    BY DEF Counts
  <2> QED
    BY <2>1, <2>2
<1>7. Len(cut.text) = n - 1 - m[n]
  BY <1>0 DEF TextSoFar
<1>8. t \in Runes
  BY DEF Texts
<1>9. /\ Len(next.text) = Len(cut.text) + 1
      /\ next.text[Len(cut.text) + 1] = t
      /\ \A p \in 1 .. Len(cut.text) : next.text[p] = cut.text[p]
  <2> HIDE DEF next, t
  <2> QED
    BY <1>2, <1>3, <1>8
<1>10. PlaceOf(m, n) = Len(cut.text) + 1
  BY <1>0, <1>4, <1>7 DEF PlaceOf
<1>11. \A k \in Kept(raw, n - 1) : PlaceOf(m, k) \in 1 .. Len(cut.text) /\ cut.text[PlaceOf(m, k)] = raw[k]
  BY DEF TextSoFar
<1> HIDE DEF next
<1>12. TextSoFar(raw, m, n, next)
  <2>1. Len(next.text) = n - m[n + 1]
    BY <1>0, <1>4, <1>7, <1>9, SMTT(20)
  <2>2. \A k \in Kept(raw, n) :
          PlaceOf(m, k) \in 1 .. Len(next.text) /\ next.text[PlaceOf(m, k)] = raw[k]
    BY <1>3, <1>5, <1>9, <1>10, <1>11, SMTT(20)
  <2>3. ASSUME NEW p \in 1 .. Len(next.text)
        PROVE  \E k \in Kept(raw, n) : p = PlaceOf(m, k)
    <3>1. CASE p = Len(cut.text) + 1
      BY <3>1, <1>5, <1>10
    <3>2. CASE p # Len(cut.text) + 1
      <4>1. p \in 1 .. Len(cut.text)
        BY <3>2, <1>3, <1>9
      <4> QED
        BY <4>1, <1>5 DEF TextSoFar
    <3> QED
      BY <3>1, <3>2
  <2> QED
    BY <2>1, <2>2, <2>3 DEF TextSoFar
<1>13. SpansSoFar(raw, m, n, next)
  <2>1. PairsSoFar(raw, m, n) = PairsSoFar(raw, m, n - 1)
    <3>1. \A k \in 1 .. n : raw[k] = Mark => k \in 1 .. n - 1
      BY <1>0
    <3>2. \A k \in 1 .. n - 1 : k \in 1 .. n
      BY <1>0
    <3> QED
      BY <3>1, <3>2 DEF PairsSoFar
  <2>2. m[n + 1] % 2 = 0 => next.open = -1
    BY <1>0, <1>2, <1>4 DEF SpansSoFar
  <2>3. ASSUME m[n + 1] % 2 = 1
        PROVE  \E k \in 1 .. n : raw[k] = Mark /\ m[k] + 1 = m[n + 1] /\ next.open = k - 1 - m[k]
    <3>1. PICK k \in 1 .. n - 1 : raw[k] = Mark /\ m[k] + 1 = m[n] /\ cut.open = k - 1 - m[k]
      BY <1>0, <1>4, <2>3 DEF SpansSoFar
    <3>2. k \in 1 .. n
      BY <1>0
    <3> QED
      BY <1>2, <1>4, <3>1, <3>2
  <2> QED
    BY <1>2, <2>1, <2>2, <2>3 DEF SpansSoFar
<1> QED
  BY <1>1, <1>12, <1>13

LEMMA MarkTaken ==
  ASSUME NEW raw \in Texts, NEW m, Counts(raw, m), NEW n \in 1 .. Len(raw),
         NEW cut \in StripStates, raw[n] = Mark,
         TextSoFar(raw, m, n - 1, cut), SpansSoFar(raw, m, n - 1, cut)
  PROVE  TextSoFar(raw, m, n, Strip(cut, raw[n])) /\ SpansSoFar(raw, m, n, Strip(cut, raw[n]))
<1>0. Len(raw) \in Nat /\ n \in Nat /\ n - 1 + 1 = n /\ n \in 1 .. Len(raw) + 1
  BY DEF Texts
<1>1. cut.text \in Seq(Runes) /\ cut.targets \in Seq(Spans) /\ cut.open \in Int
  BY DEF StripStates, Texts
<1>2. m[n + 1] = m[n] + 1 /\ m[n] \in Nat
  BY <1>0 DEF Counts
<1>3. Kept(raw, n) = Kept(raw, n - 1)
  BY <1>0 DEF Kept
<1>4. Len(cut.text) = n - m[n + 1] /\ Len(cut.text) = n - 1 - m[n] /\ Len(cut.text) \in Nat
  BY <1>0, <1>1, <1>2 DEF TextSoFar
<1>5. TextSoFar(raw, m, n, cut)
  BY <1>3, <1>4 DEF TextSoFar
<1>6. \A k \in 1 .. n - 1 : k \in 1 .. n /\ k \in 1 .. Len(raw) + 1 /\ m[k] \in Nat
  <2>1. \A k \in 1 .. n - 1 : k \in 1 .. n /\ k \in 1 .. Len(raw) + 1
    BY <1>0
  <2> QED
    BY <2>1 DEF Counts
<1>7. \A p \in PairsSoFar(raw, m, n) : p \notin PairsSoFar(raw, m, n - 1) =>
        /\ p[1] \in 1 .. n - 1 /\ raw[p[1]] = Mark /\ p = <<p[1], n>>
        /\ m[p[1]] % 2 = 0 /\ m[n] = m[p[1]] + 1
  <2> TAKE p \in PairsSoFar(raw, m, n)
  <2>1. /\ p \in (1 .. n) \X (1 .. n) /\ p[1] < p[2] /\ raw[p[1]] = Mark /\ raw[p[2]] = Mark
        /\ m[p[1]] % 2 = 0 /\ m[p[2]] = m[p[1]] + 1
    BY DEF PairsSoFar
  <2>2. p[1] \in 1 .. n - 1 /\ (p[2] # n => p[2] \in 1 .. n - 1) /\ p = <<p[1], p[2]>>
    BY <1>0, <2>1
  <2>3. p[2] # n => p \in PairsSoFar(raw, m, n - 1)
    BY <2>1, <2>2 DEF PairsSoFar
  <2> QED
    BY <2>1, <2>2, <2>3
<1>8. PairsSoFar(raw, m, n - 1) \subseteq PairsSoFar(raw, m, n)
  BY <1>6 DEF PairsSoFar
<1>10. CASE m[n] % 2 = 0
  <2> DEFINE next == [cut EXCEPT !.open = Len(cut.text)]
  <2>1. cut.open = -1
    BY <1>0, <1>10 DEF SpansSoFar
  <2>2. Strip(cut, raw[n]) = next
    BY <2>1 DEF Strip
  <2>3. next.text = cut.text /\ next.targets = cut.targets /\ next.open = Len(cut.text)
    BY DEF StripStates
  <2> HIDE DEF next
  <2>4. TextSoFar(raw, m, n, next)
    BY <1>5, <2>3 DEF TextSoFar
  <2>5. m[n + 1] % 2 = 1
    BY <1>2, <1>10
  <2>6. PairsSoFar(raw, m, n) = PairsSoFar(raw, m, n - 1)
    <3>1. ASSUME NEW k \in 1 .. n - 1, m[k] % 2 = 0, m[n] = m[k] + 1
          PROVE  FALSE
      <4>1. m[k] \in Nat
        BY <1>6
      <4>2. m[n] % 2 = 1
        BY <3>1, <4>1, Parity
      <4> QED
        BY <1>10, <4>2
    <3> QED
      BY <1>7, <1>8, <3>1
  <2>7. \E k \in 1 .. n : raw[k] = Mark /\ m[k] + 1 = m[n + 1] /\ next.open = k - 1 - m[k]
    BY <1>0, <1>2, <1>4, <2>3
  <2>8. SpansSoFar(raw, m, n, next)
    BY <2>3, <2>5, <2>6, <2>7 DEF SpansSoFar
  <2> QED
    BY <2>2, <2>4, <2>8
<1>11. CASE m[n] % 2 = 1
  <2>1. PICK k \in 1 .. n - 1 : raw[k] = Mark /\ m[k] + 1 = m[n] /\ cut.open = k - 1 - m[k]
    BY <1>0, <1>11 DEF SpansSoFar
  <2> DEFINE span == [start |-> cut.open, end |-> Len(cut.text)]
             pair == <<k, n>>
             targets == Append(cut.targets, span)
             shut == -1
             next == [cut EXCEPT !.targets = targets, !.open = shut]
  <2>2. m[k] \in Nat /\ m[k] % 2 = 0 /\ m[k] <= k - 1 /\ cut.open \in Nat
    <3>1. 1 \in 1 .. Len(raw) + 1 /\ k \in 1 .. Len(raw) + 1 /\ m[k] \in Nat /\ 1 <= k
      BY <1>0, <1>6
    <3>2. m[1] = 0 /\ 1 - m[1] <= k - m[k]
      BY <3>1 DEF Counts
    <3>3. m[k] % 2 = 0
      <4>1. (m[k] + 1) % 2 = 1
        BY <1>11, <2>1
      <4> QED
        BY <3>1, <4>1, Parity
    <3>4. k \in Nat
      BY <1>0
    <3>5. m[k] <= k - 1 /\ k - 1 - m[k] \in Nat
      <4> DEFINE u == m[k]
      <4>1. u \in Nat /\ 1 - 0 <= k - u
        BY <3>1, <3>2
      <4> HIDE DEF u
      <4>2. u <= k - 1 /\ k - 1 - u \in Nat
        BY <3>4, <4>1
      <4> QED
        BY <4>2 DEF u
    <3> QED
      BY <2>1, <3>1, <3>3, <3>5
  <2>3. span \in Spans /\ span = SpanOf(m, pair)
    BY <1>4, <2>1, <2>2 DEF Spans, SpanOf
  <2>4. Strip(cut, raw[n]) = next
    BY <2>2 DEF Strip
  <2> HIDE DEF span, pair
  <2>5. /\ targets \in Seq(Spans) /\ Len(targets) = Len(cut.targets) + 1
        /\ targets[Len(cut.targets) + 1] = span
        /\ \A i \in DOMAIN cut.targets : targets[i] = cut.targets[i]
    BY <1>1, <2>3
  <2> HIDE DEF targets
  <2>6. DOMAIN targets = DOMAIN cut.targets \union {Len(cut.targets) + 1}
    <3>1. /\ DOMAIN targets = 1 .. Len(targets) /\ DOMAIN cut.targets = 1 .. Len(cut.targets)
          /\ Len(cut.targets) \in Nat
      BY <1>1, <2>5
    <3> QED
      BY <2>5, <3>1
  <2>7. next.text = cut.text /\ next.targets = targets /\ next.open = shut
    BY DEF StripStates
  <2> HIDE DEF next
  <2>8. TextSoFar(raw, m, n, next)
    BY <1>5, <2>7 DEF TextSoFar
  <2>9. m[n + 1] % 2 = 0
    BY <1>2, <1>11
  <2>10. PairsSoFar(raw, m, n) = PairsSoFar(raw, m, n - 1) \union {pair}
    <3>1. pair \in PairsSoFar(raw, m, n)
      BY <1>0, <1>6, <2>1, <2>2 DEF PairsSoFar, pair
    <3>2. ASSUME NEW j \in 1 .. n - 1, raw[j] = Mark, m[n] = m[j] + 1
          PROVE  j = k
      <4>1. m[j] \in Nat /\ m[k] \in Nat /\ m[k] + 1 = m[j] + 1
        BY <1>6, <2>1, <3>2
      <4>2. m[j] = m[k]
        BY <4>1
      <4>3. /\ j \in 1 .. Len(raw) /\ j \in 1 .. Len(raw) + 1 /\ j + 1 \in 1 .. Len(raw) + 1
            /\ k \in 1 .. Len(raw) /\ k \in 1 .. Len(raw) + 1 /\ k + 1 \in 1 .. Len(raw) + 1
        BY <1>0
      <4>4. m[j + 1] = m[j] + 1 /\ m[k + 1] = m[k] + 1
        BY <2>1, <3>2, <4>3 DEF Counts
      <4>5. (j + 1 <= k => m[j + 1] <= m[k]) /\ (k + 1 <= j => m[k + 1] <= m[j])
        BY <4>3 DEF Counts
      <4>6. ~(j + 1 <= k) /\ ~(k + 1 <= j)
        BY <4>1, <4>2, <4>4, <4>5
      <4> QED
        BY <4>3, <4>6
    <3> QED
      BY <1>7, <1>8, <3>1, <3>2 DEF pair
  <2>11. ASSUME NEW p \in PairsSoFar(raw, m, n)
         PROVE  \E i \in DOMAIN targets : targets[i] = SpanOf(m, p)
    <3>1. CASE p = pair
      BY <2>3, <2>5, <2>6, <3>1
    <3>2. CASE p \in PairsSoFar(raw, m, n - 1)
      <4>1. PICK i \in DOMAIN cut.targets : cut.targets[i] = SpanOf(m, p)
        BY <3>2 DEF SpansSoFar
      <4> QED
        BY <2>5, <2>6, <4>1
    <3> QED
      BY <2>10, <3>1, <3>2
  <2>12. ASSUME NEW i \in DOMAIN targets
         PROVE  \E p \in PairsSoFar(raw, m, n) : targets[i] = SpanOf(m, p)
    <3>1. CASE i = Len(cut.targets) + 1
      BY <2>3, <2>5, <2>10, <3>1
    <3>2. CASE i \in DOMAIN cut.targets
      <4>1. PICK p \in PairsSoFar(raw, m, n - 1) : cut.targets[i] = SpanOf(m, p)
        BY <3>2 DEF SpansSoFar
      <4> QED
        BY <2>5, <2>10, <3>2, <4>1
    <3> QED
      BY <2>6, <3>1, <3>2
  <2>13. SpansSoFar(raw, m, n, next)
    BY <2>7, <2>9, <2>11, <2>12 DEF SpansSoFar
  <2> QED
    BY <2>4, <2>8, <2>13
<1> QED
  BY <1>2, <1>10, <1>11

LEMMA StrippedSoFar ==
  ASSUME NEW raw \in Texts, NEW m, Counts(raw, m)
  PROVE  /\ TextSoFar(raw, m, Len(raw), Stripped(raw))
         /\ SpansSoFar(raw, m, Len(raw), Stripped(raw))
<1>0. Len(raw) \in Nat
  BY DEF Texts
<1>1. PICK f \in [0 .. Len(raw) -> StripStates] :
        /\ f[0] = [text |-> <<>>, targets |-> <<>>, open |-> -1]
        /\ \A n \in 1 .. Len(raw) : f[n] = Strip(f[n - 1], raw[n])
        /\ Stripped(raw) = f[Len(raw)]
  BY StrippedPlaces
<1> DEFINE Good(n) == TextSoFar(raw, m, n, f[n]) /\ SpansSoFar(raw, m, n, f[n])
           T == {n \in Nat : n <= Len(raw) => Good(n)}
<1>2. Good(0)
  <2>1. Kept(raw, 0) = {} /\ PairsSoFar(raw, m, 0) = {}
    BY DEF Kept, PairsSoFar
  <2>2. m[0 + 1] = 0
    BY DEF Counts
  <2>3. f[0].text = <<>> /\ f[0].targets = <<>> /\ f[0].open = -1
    BY <1>1
  <2>4. Len(f[0].text) = 0 /\ DOMAIN f[0].targets = {}
    BY <2>3
  <2>5. TextSoFar(raw, m, 0, f[0])
    BY <2>1, <2>2, <2>4 DEF TextSoFar
  <2>6. m[0 + 1] % 2 = 0
    BY <2>2
  <2>7. SpansSoFar(raw, m, 0, f[0])
    BY <2>1, <2>3, <2>4, <2>6 DEF SpansSoFar
  <2> QED
    BY <2>5, <2>7
<1>3. ASSUME NEW n \in Nat, n \in T
      PROVE  n + 1 \in T
  <2> SUFFICES ASSUME n + 1 <= Len(raw)
               PROVE  Good(n + 1)
    OBVIOUS
  <2>1. n + 1 \in 1 .. Len(raw) /\ f[n] \in StripStates /\ (n + 1) - 1 = n
    BY <1>0
  <2>2. Good(n)
    BY <1>0, <1>3
  <2>3. f[n + 1] = Strip(f[n], raw[n + 1])
    BY <1>1, <2>1
  <2> QED
    BY <2>1, <2>2, <2>3, WordKept, MarkTaken
<1>4. Len(raw) \in T
  <2>1. 0 \in T
    BY <1>2
  <2> HIDE DEF T
  <2> QED
    BY <1>0, <1>3, <2>1, SetInduction
<1> QED
  BY <1>0, <1>1, <1>4

(* A rune comes before a mark when its place among those kept does.         *)
LEMMA RankOrder ==
  ASSUME NEW raw \in Texts, NEW m, Counts(raw, m), NEW k \in 1 .. Len(raw), raw[k] # Mark,
         NEW x \in 1 .. Len(raw), raw[x] = Mark
  PROVE  /\ k < x <=> PlaceOf(m, k) <= x - 1 - m[x]
         /\ x < k <=> x - 1 - m[x] < PlaceOf(m, k)
<1>0. Len(raw) \in Nat
  BY DEF Texts
<1>1. \A i \in {k, x} : i \in 1 .. Len(raw) + 1 /\ i + 1 \in 1 .. Len(raw) + 1
  BY <1>0
<1>2. m[k] \in Nat /\ m[x] \in Nat /\ m[k + 1] = m[k] /\ m[x + 1] = m[x] + 1
  BY <1>1 DEF Counts
<1>3. k + 1 <= x => (k + 1) - m[k + 1] <= x - m[x]
  BY <1>1 DEF Counts
<1>4. x + 1 <= k => (x + 1) - m[x + 1] <= k - m[k]
  BY <1>1 DEF Counts
<1>5. k # x /\ k \in Nat /\ x \in Nat
  BY <1>0
<1> DEFINE u == m[k]
           v == m[x]
<1>6. /\ u \in Nat /\ v \in Nat
      /\ k + 1 <= x => (k + 1) - u <= x - v
      /\ x + 1 <= k => (x + 1) - (v + 1) <= k - u
  BY <1>2, <1>3, <1>4
<1>7. PlaceOf(m, k) = k - u
  BY DEF PlaceOf
<1> HIDE DEF u, v
<1>8. /\ k < x <=> k - u <= x - 1 - v
      /\ x < k <=> x - 1 - v < k - u
  BY <1>5, <1>6
<1> QED
  BY <1>7, <1>8 DEF v

(* The words asked for are those a pair of marks reaches.                   *)
LEMMA AskedIsMarked ==
  ASSUME NEW raw \in Texts, SplitSentenceTarget(raw).targets # <<>>
  PROVE  Asked(SplitSentenceTarget(raw))
           = {t \in Tokens(SplitSentenceTarget(raw).text) : Reached(raw, t)}
<1> DEFINE draft == SplitSentenceTarget(raw)
           cut == Stripped(raw)
           m == [i \in 1 .. Len(raw) + 1 |-> MarksBefore(raw, i)]
           last == Len(raw)
<1>0. last \in Nat /\ DOMAIN raw = 1 .. last /\ \A k \in 1 .. last : k \in 1 .. last + 1
  BY DEF Texts
<1>1. Counts(raw, m) /\ \A k \in 1 .. last + 1 : m[k] = MarksBefore(raw, k)
  BY MarksCounted
<1>2. draft.text = cut.text /\ draft.targets = cut.targets
  BY DEF SplitSentenceTarget
<1> HIDE DEF m, cut, draft
<1>3. TextSoFar(raw, m, last, cut) /\ SpansSoFar(raw, m, last, cut)
  BY <1>1, StrippedSoFar DEF cut
<1>4. cut.text \in Texts /\ Len(cut.text) \in Nat
  BY StrippedTyped DEF cut, StripStates, Texts
<1>5. Pairs(raw) = PairsSoFar(raw, m, last)
  <2>1. \A k \in DOMAIN raw : m[k] = MarksBefore(raw, k)
    BY <1>0, <1>1
  <2> QED
    BY <1>0, <2>1 DEF Pairs, PairsSoFar
<1>6. \A t : LettersOf(raw, t) = {k \in Kept(raw, last) : PlaceOf(m, k) \in t.start + 1 .. t.end}
  <2>1. \A k \in Kept(raw, last) : PlaceOf(m, k) = k - MarksBefore(raw, k)
    BY <1>0, <1>1 DEF Kept, PlaceOf
  <2> QED
    BY <1>0, <2>1 DEF LettersOf, Kept
<1>7. ASSUME NEW t \in Tokens(draft.text), NEW p \in Pairs(raw)
      PROVE  InSpan(t, SpanOf(m, p)) <=> \E a, b \in LettersOf(raw, t) : p[1] < b /\ a < p[2]
  <2>1. t.start \in Nat /\ t.end \in Nat /\ t.start < t.end /\ t.end <= Len(cut.text)
    BY <1>2, <1>4 DEF Tokens
  <2>2. /\ p[1] \in 1 .. last /\ p[2] \in 1 .. last
        /\ raw[p[1]] = Mark /\ raw[p[2]] = Mark
    BY <1>5 DEF PairsSoFar
  <2> DEFINE from == p[1] - 1 - m[p[1]]
             upto == p[2] - 1 - m[p[2]]
  <2>3. from \in Int /\ upto \in Int
    <3>1. m[p[1]] \in Nat /\ m[p[2]] \in Nat
      BY <1>0, <1>1, <2>2 DEF Counts
    <3>2. p[1] \in Nat /\ p[2] \in Nat
      BY <1>0, <2>2
    <3> QED
      BY <3>1, <3>2
  <2>4. \A k \in Kept(raw, last) :
          /\ PlaceOf(m, k) \in Nat
          /\ k < p[2] <=> PlaceOf(m, k) <= upto
          /\ p[1] < k <=> from < PlaceOf(m, k)
    <3> TAKE k \in Kept(raw, last)
    <3>1. k \in 1 .. last /\ raw[k] # Mark /\ PlaceOf(m, k) \in Nat
      BY <1>3, <1>4 DEF Kept, TextSoFar
    <3> QED
      BY <1>1, <2>2, <3>1, RankOrder
  <2>5. InSpan(t, SpanOf(m, p)) <=> t.start < upto /\ from < t.end
    BY DEF InSpan, SpanOf
  <2> HIDE DEF from, upto
  <2>6. ASSUME t.start < upto, from < t.end
        PROVE  \E a, b \in LettersOf(raw, t) : p[1] < b /\ a < p[2]
    <3>1. t.start + 1 \in 1 .. Len(cut.text) /\ t.end \in 1 .. Len(cut.text)
      BY <1>4, <2>1
    <3>2. PICK a \in Kept(raw, last) : t.start + 1 = PlaceOf(m, a)
      BY <1>3, <3>1 DEF TextSoFar
    <3>3. PICK b \in Kept(raw, last) : t.end = PlaceOf(m, b)
      BY <1>3, <3>1 DEF TextSoFar
    <3>4. a \in LettersOf(raw, t) /\ b \in LettersOf(raw, t)
      BY <1>6, <2>1, <3>2, <3>3
    <3>5. PlaceOf(m, a) <= upto /\ from < PlaceOf(m, b)
      BY <2>1, <2>3, <2>6, <3>2, <3>3
    <3>6. a < p[2] /\ p[1] < b
      BY <2>4, <3>5
    <3> QED
      BY <3>4, <3>6
  <2>7. ASSUME NEW a \in LettersOf(raw, t), NEW b \in LettersOf(raw, t), p[1] < b, a < p[2]
        PROVE  t.start < upto /\ from < t.end
    <3>1. /\ a \in Kept(raw, last) /\ b \in Kept(raw, last)
          /\ t.start + 1 <= PlaceOf(m, a) /\ PlaceOf(m, b) <= t.end
      BY <1>6, <2>1
    <3>2. /\ PlaceOf(m, a) <= upto /\ from < PlaceOf(m, b)
          /\ PlaceOf(m, a) \in Nat /\ PlaceOf(m, b) \in Nat
      BY <2>4, <2>7, <3>1
    <3> QED
      BY <2>1, <2>3, <3>1, <3>2
  <2> QED
    BY <2>5, <2>6, <2>7
<1>8. ASSUME NEW t \in Tokens(draft.text)
      PROVE  Targeted(t, draft.targets) <=> Reached(raw, t)
  <2>1. Targeted(t, draft.targets) <=> \E i \in DOMAIN cut.targets : InSpan(t, cut.targets[i])
    BY <1>2 DEF Targeted, draft
  <2>2. (\E i \in DOMAIN cut.targets : InSpan(t, cut.targets[i]))
          <=> \E p \in Pairs(raw) : InSpan(t, SpanOf(m, p))
    BY <1>3, <1>5 DEF SpansSoFar
  <2> QED
    BY <1>7, <2>1, <2>2 DEF Reached
<1> QED
  BY <1>8 DEF Asked, draft

----------------------------------------------------------------------------
(* The inductive invariant.  A row is good when its analysis and its        *)
(* confirmation, or its approval, are of the text it holds; what a request   *)
(* read stays good while it is held, because lists, items, reviews and      *)
(* approvals only grow.                                                     *)
PastedRows == [paste: Pastes, told: BOOLEAN]
MadeRows   == [told: BOOLEAN]
BornRows   == [list: Nat, draft: Drafts, quick: BOOLEAN]

Holds == [id: Nat, row: {NoRow} \union ItemRows \union SentenceRows,
          left: Seq(Drafts \union Phrases), seen: SUBSET (Nat \X ItemRows)]

ItemSteps     == {"patch", "confirm", "colour", "itemAudio"}
SentenceSteps == {"regenerate", "approve", "sentenceAudio"}
ListSteps     == {"saveItems", "validate", "saveQuick", "saveQuickApi"}

DraftOf(row) == [text |-> row.text, targets |-> row.targets]

GoodItem(known, reviews, i, row) ==
  /\ row \in ItemRows
  /\ row.list \in known
  /\ row.confirmed => <<i, row.text>> \in reviews
  /\ row.sure = IsSure(row.kind, DraftOf(row))
  /\ row.traps <= Traps(row.kind, DraftOf(row))

GoodSentence(known, given, s, row) ==
  /\ row \in SentenceRows
  /\ row.item \in known
  /\ row.approved => <<s, row.words>> \in given

ListsInv ==
  /\ lists \in Seq(ListRows)
  /\ pasted \in Seq(PastedRows \union MadeRows)
  /\ Len(pasted) = Len(lists)

ItemsInv ==
  /\ items \in Seq(ItemRows)
  /\ born \in Seq(BornRows)
  /\ Len(born) = Len(items)
  /\ \A i \in DOMAIN items : GoodItem(DOMAIN lists, reviewed, i, items[i])

SentencesInv ==
  /\ sentences \in Seq(SentenceRows)
  /\ \A s \in DOMAIN sentences : GoodSentence(DOMAIN items, approvals, s, sentences[s])

(* What request r holds at each of its steps.                               *)
HoldsGood(r) ==
  /\ pc[r] \in ItemSteps =>
       /\ held[r].id \in DOMAIN items
       /\ GoodItem(DOMAIN lists, reviewed, held[r].id, held[r].row)
  /\ pc[r] \in SentenceSteps =>
       /\ held[r].id \in DOMAIN sentences
       /\ GoodSentence(DOMAIN items, approvals, held[r].id, held[r].row)
  /\ pc[r] \in ListSteps => held[r].id \in DOMAIN lists
  /\ pc[r] = "saveItems" =>
       /\ pasted[held[r].id] \in PastedRows
       /\ held[r].left \in Seq(Drafts) /\ held[r].left # <<>>
  /\ pc[r] = "validate" => \A seen \in held[r].seen : ~Unsure(seen[2])
  /\ pc[r] = "saveGenerated" =>
       /\ held[r].id \in DOMAIN items
       /\ held[r].left \in Seq(Phrases) /\ held[r].left # <<>>

RequestsInv ==
  /\ pc \in [Requests -> Steps]
  /\ held \in [Requests -> Holds]
  /\ \A r \in Requests : HoldsGood(r)

CountsInv == sent \in 0 .. MaxSent /\ faults \in 0 .. MaxFaults

IInv == ListsInv /\ ItemsInv /\ SentencesInv /\ RequestsInv /\ CountsInv

----------------------------------------------------------------------------
(* What is good stays so while lists, items, reviews and approvals grow.    *)
LEMMA GoodItemGrows ==
  ASSUME NEW known, NEW more, known \subseteq more,
         NEW reviews, NEW others, reviews \subseteq others,
         NEW i, NEW row, GoodItem(known, reviews, i, row)
  PROVE  GoodItem(more, others, i, row)
BY DEF GoodItem

LEMMA GoodSentenceGrows ==
  ASSUME NEW known, NEW more, known \subseteq more,
         NEW given, NEW others, given \subseteq others,
         NEW s, NEW row, GoodSentence(known, given, s, row)
  PROVE  GoodSentence(more, others, s, row)
BY DEF GoodSentence

LEMMA TypedTyped ==
  ASSUME NEW text \in Typed
  PROVE  /\ text \in Texts
         /\ Whole(text) \in Drafts /\ Whole(text).text = text
<1>1. text \in Texts
  BY ListsAssumption DEF Texts
<1> QED
  BY <1>1, WholeTyped

LEMMA DraftOfDraft ==
  ASSUME NEW draft \in Drafts
  PROVE  [text |-> draft.text, targets |-> draft.targets] = draft
BY DEF Drafts

(* A row fresh from its analysis is good, and unconfirmed.                  *)
LEMMA AnalysedIsGood ==
  ASSUME NEW known \in SUBSET Nat, NEW reviews, NEW l \in known, NEW kind \in Kinds,
         NEW draft \in Drafts, NEW i
  PROVE  /\ Analysed(l, kind, draft) \in ItemRows
         /\ GoodItem(known, reviews, i, Analysed(l, kind, draft))
<1> DEFINE row == Analysed(l, kind, draft)
<1>1. Traps(kind, draft) \in Nat
  BY TrapsTyped
<1>2. IsSure(kind, draft) \in BOOLEAN
  BY DEF IsSure
<1>3. draft.text \in Texts /\ draft.targets \in Seq(Spans) /\ l \in Nat
  BY DEF Drafts
<1>4. row \in ItemRows
  BY <1>1, <1>2, <1>3 DEF Analysed, ItemRows, Texts
<1>5. /\ row.list = l /\ row.kind = kind /\ row.text = draft.text /\ row.targets = draft.targets
      /\ row.traps = Traps(kind, draft) /\ row.sure = IsSure(kind, draft) /\ row.confirmed = FALSE
  BY DEF Analysed
<1>6. DraftOf(row) = draft
  BY <1>5, DraftOfDraft DEF DraftOf
<1> HIDE DEF row
<1>7. row.traps <= Traps(row.kind, DraftOf(row))
  BY <1>1, <1>5, <1>6
<1>8. GoodItem(known, reviews, i, row)
  BY <1>4, <1>5, <1>6, <1>7 DEF GoodItem
<1> QED
  BY <1>4, <1>8 DEF row

(* What no step undoes.                                                     *)
Grows ==
  /\ DOMAIN lists \subseteq DOMAIN lists'
  /\ DOMAIN items \subseteq DOMAIN items'
  /\ DOMAIN sentences \subseteq DOMAIN sentences'
  /\ reviewed \subseteq reviewed'
  /\ approvals \subseteq approvals'
  /\ \A l \in DOMAIN pasted : pasted[l] \in PastedRows => pasted'[l] \in PastedRows

LEMMA NothingGrows ==
  ASSUME UNCHANGED <<rows, deeds>>
  PROVE  Grows
BY DEF Grows, rows, deeds

LEMMA ListsFrame ==
  ASSUME ListsInv, UNCHANGED <<lists, pasted>>
  PROVE  ListsInv'
BY DEF ListsInv

LEMMA ItemsFrame ==
  ASSUME ItemsInv, Grows, UNCHANGED <<items, born>>
  PROVE  ItemsInv'
<1>1. \A i \in DOMAIN items : GoodItem(DOMAIN lists', reviewed', i, items[i])
  BY GoodItemGrows DEF ItemsInv, Grows
<1> QED
  BY <1>1 DEF ItemsInv

LEMMA SentencesFrame ==
  ASSUME SentencesInv, Grows, UNCHANGED sentences
  PROVE  SentencesInv'
<1>1. \A s \in DOMAIN sentences : GoodSentence(DOMAIN items', approvals', s, sentences[s])
  BY GoodSentenceGrows DEF SentencesInv, Grows
<1> QED
  BY <1>1 DEF SentencesInv

(* A request that does not move holds what is still good.                   *)
LEMMA StillGood ==
  ASSUME Grows, ListsInv, NEW r \in Requests, HoldsGood(r),
         pc'[r] = pc[r], held'[r] = held[r]
  PROVE  HoldsGood(r)'
<1>1. ASSUME pc[r] \in ItemSteps
      PROVE  /\ held[r].id \in DOMAIN items'
             /\ GoodItem(DOMAIN lists', reviewed', held[r].id, held[r].row)
  BY <1>1, GoodItemGrows DEF HoldsGood, ListSteps, Grows
<1>2. ASSUME pc[r] \in SentenceSteps
      PROVE  /\ held[r].id \in DOMAIN sentences'
             /\ GoodSentence(DOMAIN items', approvals', held[r].id, held[r].row)
  BY <1>2, GoodSentenceGrows DEF HoldsGood, ListSteps, Grows
<1>3. ASSUME pc[r] \in ListSteps
      PROVE  held[r].id \in DOMAIN lists'
  BY <1>3 DEF HoldsGood, ListSteps, Grows
<1>4. ASSUME pc[r] = "saveItems"
      PROVE  pasted'[held[r].id] \in PastedRows
  <2>1. DOMAIN pasted = DOMAIN lists
    BY DEF ListsInv
  <2>2. held[r].id \in DOMAIN pasted /\ pasted[held[r].id] \in PastedRows
    BY <1>4, <2>1 DEF HoldsGood, ListSteps
  <2> QED
    BY <2>2 DEF Grows
<1>5. ASSUME pc[r] = "saveGenerated"
      PROVE  held[r].id \in DOMAIN items'
  BY <1>5 DEF HoldsGood, ListSteps, Grows
<1> QED
  BY <1>1, <1>2, <1>3, <1>4, <1>5 DEF HoldsGood, ListSteps

LEMMA RequestsGoOn ==
  ASSUME RequestsInv, ListsInv, Grows, NEW r \in Requests, NEW step \in Steps, NEW hold \in Holds,
         GoesOn(r, step, hold), HoldsGood(r)'
  PROVE  RequestsInv'
<1>1. pc' = [pc EXCEPT ![r] = step] /\ held' = [held EXCEPT ![r] = hold]
  BY DEF GoesOn
<1>2. pc' \in [Requests -> Steps] /\ held' \in [Requests -> Holds]
  BY <1>1 DEF RequestsInv
<1>3. ASSUME NEW q \in Requests
      PROVE  HoldsGood(q)'
  <2>1. CASE q = r
    BY <2>1
  <2>2. CASE q # r
    <3>1. pc'[q] = pc[q] /\ held'[q] = held[q]
      BY <1>1, <2>2 DEF RequestsInv
    <3> QED
      BY <3>1, StillGood DEF RequestsInv
  <2> QED
    BY <2>1, <2>2
<1> QED
  BY <1>2, <1>3 DEF RequestsInv

LEMMA NothingTyped == Nothing \in Holds
<1>1. <<>> \in Seq(Drafts \union Phrases)
  OBVIOUS
<1> QED
  BY <1>1 DEF Nothing, Holds

LEMMA RequestsEnd ==
  ASSUME RequestsInv, ListsInv, Grows, NEW r \in Requests, Ends(r)
  PROVE  RequestsInv'
<1>1. GoesOn(r, "idle", Nothing)
  BY DEF Ends
<1>2. pc'[r] = "idle"
  BY <1>1 DEF GoesOn, RequestsInv
<1>3. HoldsGood(r)'
  BY <1>2 DEF HoldsGood, ListSteps, ItemSteps, SentenceSteps
<1> QED
  BY <1>1, <1>3, NothingTyped, RequestsGoOn DEF Steps

LEMMA RequestsStay ==
  ASSUME RequestsInv, ListsInv, Grows, NEW r \in Requests, Stays(r)
  PROVE  RequestsInv'
<1>1. UNCHANGED <<pc, held>>
  BY DEF Stays
<1>2. \A q \in Requests : HoldsGood(q)'
  BY <1>1, StillGood DEF RequestsInv
<1> QED
  BY <1>1, <1>2 DEF RequestsInv

(* What a step of a request finds of itself.                                *)
LEMMA CountsArrive ==
  ASSUME CountsInv, NEW r, Arrives(r)
  PROVE  CountsInv'
BY ListsAssumption DEF CountsInv, Arrives

LEMMA CountsAt ==
  ASSUME CountsInv, NEW r, NEW step, At(r, step)
  PROVE  CountsInv'
BY DEF CountsInv, At

----------------------------------------------------------------------------
(* A row saved under its id, and a row added, when they are good.           *)
LEMMA ItemSaved ==
  ASSUME ItemsInv, Grows, NEW i \in DOMAIN items, NEW row, SaveItem(i, row),
         born' = born, GoodItem(DOMAIN lists, reviewed', i, row)
  PROVE  ItemsInv' /\ DOMAIN items' = DOMAIN items
<1>1. items' = [items EXCEPT ![i] = row] /\ lists' = lists
  BY DEF SaveItem
<1>2. row \in ItemRows /\ items \in Seq(ItemRows)
  BY DEF GoodItem, ItemsInv
<1>3. items' \in Seq(ItemRows) /\ Len(items') = Len(items) /\ DOMAIN items' = DOMAIN items
  BY <1>1, <1>2
<1>4. ASSUME NEW j \in DOMAIN items
      PROVE  GoodItem(DOMAIN lists', reviewed', j, items'[j])
  <2>1. CASE j = i
    BY <1>1, <2>1
  <2>2. CASE j # i
    <3>1. items'[j] = items[j]
      BY <1>1, <2>2
    <3> QED
      BY <3>1, GoodItemGrows DEF ItemsInv, Grows
  <2> QED
    BY <2>1, <2>2
<1> QED
  BY <1>3, <1>4 DEF ItemsInv

LEMMA ItemAdded ==
  ASSUME ItemsInv, reviewed \subseteq reviewed', lists' = lists, NEW row, NEW birth \in BornRows,
         items' = Append(items, row), born' = Append(born, birth),
         GoodItem(DOMAIN lists, reviewed', Len(items) + 1, row)
  PROVE  ItemsInv' /\ DOMAIN items \subseteq DOMAIN items'
<1>1. row \in ItemRows /\ items \in Seq(ItemRows) /\ born \in Seq(BornRows)
  BY DEF GoodItem, ItemsInv
<1>2. items' \in Seq(ItemRows) /\ Len(items') = Len(items) + 1
  BY <1>1
<1>3. born' \in Seq(BornRows) /\ Len(born') = Len(born) + 1
  BY <1>1
<1>4. ASSUME NEW j \in DOMAIN items'
      PROVE  GoodItem(DOMAIN lists', reviewed', j, items'[j])
  <2>1. CASE j = Len(items) + 1
    <3>1. items'[j] = row
      BY <1>1, <2>1
    <3> QED
      BY <2>1, <3>1
  <2>2. CASE j # Len(items) + 1
    <3>1. j \in DOMAIN items /\ items'[j] = items[j]
      BY <1>1, <1>2, <2>2
    <3> QED
      BY <3>1, GoodItemGrows DEF ItemsInv
  <2> QED
    BY <2>1, <2>2
<1>5. DOMAIN items \subseteq DOMAIN items'
  BY <1>1, <1>2
<1> QED
  BY <1>2, <1>3, <1>4, <1>5 DEF ItemsInv

LEMMA SentenceSaved ==
  ASSUME SentencesInv, Grows, NEW s \in DOMAIN sentences, NEW row, SaveSentence(s, row),
         GoodSentence(DOMAIN items, approvals', s, row)
  PROVE  SentencesInv'
<1>1. sentences' = [sentences EXCEPT ![s] = row] /\ items' = items
  BY DEF SaveSentence
<1>2. row \in SentenceRows /\ sentences \in Seq(SentenceRows)
  BY DEF GoodSentence, SentencesInv
<1>3. sentences' \in Seq(SentenceRows) /\ DOMAIN sentences' = DOMAIN sentences
  BY <1>1, <1>2
<1>4. ASSUME NEW j \in DOMAIN sentences
      PROVE  GoodSentence(DOMAIN items', approvals', j, sentences'[j])
  <2>1. CASE j = s
    BY <1>1, <2>1
  <2>2. CASE j # s
    <3>1. sentences'[j] = sentences[j]
      BY <1>1, <2>2
    <3> QED
      BY <3>1, GoodSentenceGrows DEF SentencesInv, Grows
  <2> QED
    BY <2>1, <2>2
<1> QED
  BY <1>3, <1>4 DEF SentencesInv

LEMMA SentenceAdded ==
  ASSUME SentencesInv, approvals \subseteq approvals', items' = items, NEW row,
         sentences' = Append(sentences, row),
         GoodSentence(DOMAIN items, approvals', Len(sentences) + 1, row)
  PROVE  SentencesInv' /\ DOMAIN sentences \subseteq DOMAIN sentences'
<1>1. row \in SentenceRows /\ sentences \in Seq(SentenceRows)
  BY DEF GoodSentence, SentencesInv
<1>2. sentences' \in Seq(SentenceRows) /\ Len(sentences') = Len(sentences) + 1
  BY <1>1
<1>4. ASSUME NEW j \in DOMAIN sentences'
      PROVE  GoodSentence(DOMAIN items', approvals', j, sentences'[j])
  <2>1. CASE j = Len(sentences) + 1
    <3>1. sentences'[j] = row
      BY <1>1, <2>1
    <3> QED
      BY <2>1, <3>1
  <2>2. CASE j # Len(sentences) + 1
    <3>1. j \in DOMAIN sentences /\ sentences'[j] = sentences[j]
      BY <1>1, <1>2, <2>2
    <3> QED
      BY <3>1, GoodSentenceGrows DEF SentencesInv
  <2> QED
    BY <2>1, <2>2
<1>5. DOMAIN sentences \subseteq DOMAIN sentences'
  BY <1>1, <1>2
<1> QED
  BY <1>2, <1>4, <1>5 DEF SentencesInv

----------------------------------------------------------------------------
(* The actions, one by one.                                                 *)
LEMMA SaveItemGrows ==
  ASSUME NEW i, NEW row, SaveItem(i, row), reviewed \subseteq reviewed',
         UNCHANGED <<pasted, approvals>>
  PROVE  Grows
BY DEF Grows, SaveItem

LEMMA SaveSentenceGrows ==
  ASSUME NEW s, NEW row, SaveSentence(s, row), approvals \subseteq approvals',
         UNCHANGED <<pasted, reviewed>>
  PROVE  Grows
BY DEF Grows, SaveSentence

(* A request that only read, and now holds something good or nothing.        *)
LEMMA ReadingStep ==
  ASSUME IInv, NEW r \in Requests, NEW step \in Steps, NEW hold \in Holds,
         Arrives(r), GoesOn(r, step, hold), UNCHANGED <<rows, deeds>>, HoldsGood(r)'
  PROVE  IInv'
<1>1. Grows
  BY NothingGrows
<1>2. ListsInv' /\ ItemsInv' /\ SentencesInv'
  BY <1>1, ListsFrame, ItemsFrame, SentencesFrame DEF IInv, rows, deeds
<1> QED
  BY <1>1, <1>2, RequestsGoOn, CountsArrive DEF IInv

LEMMA IdleStep ==
  ASSUME IInv, NEW r \in Requests, Arrives(r), Stays(r), UNCHANGED <<rows, deeds>>
  PROVE  IInv'
<1>1. Grows
  BY NothingGrows
<1>2. ListsInv' /\ ItemsInv' /\ SentencesInv'
  BY <1>1, ListsFrame, ItemsFrame, SentencesFrame DEF IInv, rows, deeds
<1> QED
  BY <1>1, <1>2, RequestsStay, CountsArrive DEF IInv

LEMMA FailStep ==
  ASSUME IInv, NEW r \in Requests, Fail(r)
  PROVE  IInv'
<1>1. Grows
  BY NothingGrows DEF Fail
<1>2. ListsInv' /\ ItemsInv' /\ SentencesInv'
  BY <1>1, ListsFrame, ItemsFrame, SentencesFrame DEF IInv, rows, deeds, Fail
<1>3. RequestsInv'
  BY <1>1, RequestsEnd DEF IInv, Fail
<1>4. CountsInv'
  BY ListsAssumption DEF IInv, CountsInv, Fail
<1> QED
  BY <1>2, <1>3, <1>4 DEF IInv

LEMMA PasteListStep ==
  ASSUME IInv, NEW r \in Requests, PasteList(r)
  PROVE  IInv'
<1>0. PICK paste \in Pastes :
        LET drafts == BuildItems(paste.kind, paste.raw)
        IN /\ drafts # <<>>
           /\ lists' = Append(lists, [label |-> paste.label, api |-> FALSE, validated |-> FALSE])
           /\ pasted' = Append(pasted, [paste |-> paste, told |-> FALSE])
           /\ GoesOn(r, "saveItems", [Nothing EXCEPT !.id = Len(lists) + 1, !.left = drafts])
  BY DEF PasteList
<1> DEFINE drafts == BuildItems(paste.kind, paste.raw)
<1>1. /\ drafts = BuildItems(paste.kind, paste.raw) /\ drafts # <<>>
      /\ lists' = Append(lists, [label |-> paste.label, api |-> FALSE, validated |-> FALSE])
      /\ pasted' = Append(pasted, [paste |-> paste, told |-> FALSE])
      /\ GoesOn(r, "saveItems", [Nothing EXCEPT !.id = Len(lists) + 1, !.left = drafts])
  BY <1>0
<1> HIDE DEF drafts
<1>2. Arrives(r) /\ UNCHANGED <<items, sentences, born, reviewed, approvals>>
  BY DEF PasteList
<1>3. paste.kind \in Kinds /\ paste.raw \in Texts /\ paste.label \in Labels
  BY ListsAssumption DEF Texts
<1>4. drafts \in Seq(Drafts)
  BY <1>1, <1>3, BuildItemsTyped
<1>5. lists \in Seq(ListRows) /\ pasted \in Seq(PastedRows \union MadeRows) /\ Len(pasted) = Len(lists)
  BY DEF IInv, ListsInv
<1>6. [label |-> paste.label, api |-> FALSE, validated |-> FALSE] \in ListRows
  BY <1>3 DEF ListRows
<1>7. [paste |-> paste, told |-> FALSE] \in PastedRows
  BY DEF PastedRows
<1>8. lists' \in Seq(ListRows) /\ Len(lists') = Len(lists) + 1
  BY <1>1, <1>5, <1>6
<1>9. pasted' \in Seq(PastedRows \union MadeRows) /\ Len(pasted') = Len(pasted) + 1
  BY <1>1, <1>5, <1>7
<1>10. ListsInv'
  BY <1>5, <1>8, <1>9 DEF ListsInv
<1>11. Grows
  <2>1. \A l \in DOMAIN pasted : pasted'[l] = pasted[l]
    BY <1>1, <1>5
  <2>2. DOMAIN lists \subseteq DOMAIN lists'
    BY <1>5, <1>8
  <2> QED
    BY <1>2, <2>1, <2>2 DEF Grows
<1>12. ItemsInv' /\ SentencesInv'
  BY <1>2, <1>11, ItemsFrame, SentencesFrame DEF IInv
<1>13. RequestsInv'
  <2> DEFINE hold == [Nothing EXCEPT !.id = Len(lists) + 1, !.left = drafts]
  <2>1. hold.id = Len(lists) + 1 /\ hold.left = drafts
    BY DEF Nothing
  <2>2. hold \in Holds
    <3>1. Len(lists) + 1 \in Nat /\ drafts \in Seq(Drafts \union Phrases)
      BY <1>4, <1>5
    <3> QED
      BY <3>1 DEF Nothing, Holds
  <2> HIDE DEF hold
  <2>3. GoesOn(r, "saveItems", hold)
    BY <1>1 DEF hold
  <2>4. pc'[r] = "saveItems" /\ held'[r] = hold
    BY <2>3 DEF GoesOn, IInv, RequestsInv
  <2>5. hold.id \in DOMAIN lists'
    BY <1>5, <1>8, <2>1
  <2>6. pasted'[hold.id] \in PastedRows
    BY <1>1, <1>5, <1>7, <2>1
  <2>7. HoldsGood(r)'
    BY <1>1, <1>4, <2>1, <2>4, <2>5, <2>6 DEF HoldsGood, ListSteps, ItemSteps, SentenceSteps
  <2> QED
    BY <1>11, <2>2, <2>3, <2>7, RequestsGoOn DEF IInv, Steps
<1> QED
  BY <1>2, <1>10, <1>12, <1>13, CountsArrive DEF IInv

LEMMA TailTyped ==
  ASSUME NEW S, NEW s \in Seq(S), Len(s) > 1
  PROVE  Tail(s) \in Seq(S) /\ Tail(s) # <<>>
<1> DEFINE rest == Tail(s)
<1>1. rest \in Seq(S) /\ Len(rest) = Len(s) - 1
  OBVIOUS
<1> HIDE DEF rest
<1>2. rest # <<>>
  BY <1>1
<1> QED
  BY <1>1, <1>2 DEF rest

LEMMA SaveNextItemStep ==
  ASSUME IInv, NEW r \in Requests, SaveNextItem(r)
  PROVE  IInv'
<1> DEFINE l == held[r].id
           draft == Head(held[r].left)
           row == Analysed(l, pasted[l].paste.kind, draft)
           birth == [list |-> l, draft |-> draft, quick |-> FALSE]
<1>1. At(r, "saveItems") /\ UNCHANGED <<lists, sentences, reviewed, approvals>>
  BY DEF SaveNextItem
<1>2. items' = Append(items, row) /\ born' = Append(born, birth)
  BY DEF SaveNextItem
<1>3. pc[r] = "saveItems" /\ HoldsGood(r) /\ held[r] \in Holds
  BY <1>1 DEF At, IInv, RequestsInv
<1>4. /\ l \in DOMAIN lists /\ pasted[l] \in PastedRows
      /\ held[r].left \in Seq(Drafts) /\ held[r].left # <<>>
  BY <1>3 DEF HoldsGood, ListSteps
<1>5. /\ lists \in Seq(ListRows) /\ pasted \in Seq(PastedRows \union MadeRows)
      /\ Len(pasted) = Len(lists)
  BY DEF IInv, ListsInv
<1>6. draft \in Drafts
  BY <1>4
<1>7. pasted[l].paste.kind \in Kinds
  BY <1>4, ListsAssumption DEF PastedRows
<1>8. DOMAIN lists \in SUBSET Nat /\ l \in Nat /\ l \in DOMAIN pasted
  BY <1>4, <1>5
<1>9. GoodItem(DOMAIN lists, reviewed, Len(items) + 1, row)
  BY <1>4, <1>6, <1>7, <1>8, AnalysedIsGood
<1>10. birth \in BornRows
  BY <1>6, <1>8 DEF BornRows
<1>11. ItemsInv' /\ DOMAIN items \subseteq DOMAIN items'
  <2> HIDE DEF row, birth, l
  <2> QED
    BY <1>1, <1>2, <1>9, <1>10, ItemAdded DEF IInv
<1>12. pasted' = pasted \/ pasted' = [pasted EXCEPT ![l].told = TRUE]
  BY DEF SaveNextItem
<1>13. /\ pasted' \in Seq(PastedRows \union MadeRows) /\ Len(pasted') = Len(pasted)
       /\ \A k \in DOMAIN pasted : pasted[k] \in PastedRows => pasted'[k] \in PastedRows
  <2>1. CASE pasted' = pasted
    BY <1>5, <2>1
  <2>2. CASE pasted' = [pasted EXCEPT ![l].told = TRUE]
    <3> DEFINE told == [pasted[l] EXCEPT !.told = TRUE]
    <3>1. told \in PastedRows
      BY <1>4 DEF PastedRows
    <3>2. pasted' = [pasted EXCEPT ![l] = told]
      BY <2>2
    <3> HIDE DEF told, l
    <3>3. pasted' \in Seq(PastedRows \union MadeRows) /\ Len(pasted') = Len(pasted)
      BY <1>5, <1>8, <3>1, <3>2
    <3>4. \A k \in DOMAIN pasted : pasted'[k] = IF k = l THEN told ELSE pasted[k]
      BY <1>5, <3>2
    <3> QED
      BY <3>1, <3>3, <3>4
  <2> QED
    BY <1>12, <2>1, <2>2
<1>14. ListsInv'
  BY <1>1, <1>5, <1>13 DEF ListsInv
<1>15. Grows
  BY <1>1, <1>11, <1>13 DEF Grows
<1>16. SentencesInv'
  BY <1>1, <1>15, SentencesFrame DEF IInv
<1>17. RequestsInv'
  <2>1. CASE Len(held[r].left) > 1
    <3> DEFINE hold == [held[r] EXCEPT !.left = Tail(@)]
    <3>1. GoesOn(r, "saveItems", hold)
      BY <2>1 DEF SaveNextItem
    <3>2. Tail(held[r].left) \in Seq(Drafts) /\ Tail(held[r].left) # <<>>
      BY <1>4, <2>1, TailTyped
    <3>3. Tail(held[r].left) \in Seq(Drafts \union Phrases)
      BY <3>2
    <3>4. hold.id = l /\ hold.left = Tail(held[r].left)
      BY <1>3 DEF Holds
    <3>5. hold \in Holds
      BY <1>3, <3>3 DEF Holds
    <3> HIDE DEF hold, l
    <3>6. pc'[r] = "saveItems" /\ held'[r] = hold
      BY <3>1 DEF GoesOn, IInv, RequestsInv
    <3>7. HoldsGood(r)'
      BY <1>1, <1>4, <1>8, <1>13, <3>2, <3>4, <3>6 DEF HoldsGood, ListSteps, ItemSteps, SentenceSteps
    <3> QED
      BY <1>15, <3>1, <3>5, <3>7, RequestsGoOn DEF IInv, Steps
  <2>2. CASE ~(Len(held[r].left) > 1)
    <3>1. Ends(r)
      BY <2>2 DEF SaveNextItem
    <3> QED
      BY <1>15, <3>1, RequestsEnd DEF IInv
  <2> QED
    BY <2>1, <2>2
<1> QED
  BY <1>1, <1>11, <1>14, <1>16, <1>17, CountsAt DEF IInv

(* The steps that save an item read earlier.                                *)
LEMMA ItemRewrittenStep ==
  ASSUME IInv, NEW r \in Requests, NEW step, At(r, step), Ends(r),
         NEW i \in DOMAIN items, NEW row, SaveItem(i, row),
         reviewed \subseteq reviewed', UNCHANGED <<pasted, born, approvals>>,
         GoodItem(DOMAIN lists, reviewed', i, row)
  PROVE  IInv'
<1>1. Grows
  BY SaveItemGrows
<1>2. ItemsInv'
  BY <1>1, ItemSaved DEF IInv
<1>3. ListsInv' /\ SentencesInv'
  BY <1>1, ListsFrame, SentencesFrame DEF IInv, SaveItem
<1>4. RequestsInv'
  BY <1>1, RequestsEnd DEF IInv
<1> QED
  BY <1>2, <1>3, <1>4, CountsAt DEF IInv

(* An item a request holds is still there, and the row it holds is good.     *)
LEMMA HeldItem ==
  ASSUME IInv, NEW r \in Requests, pc[r] \in ItemSteps
  PROVE  /\ held[r].id \in DOMAIN items
         /\ GoodItem(DOMAIN lists, reviewed, held[r].id, held[r].row)
         /\ held[r].row \in ItemRows /\ held[r].row.list \in DOMAIN lists
         /\ DOMAIN lists \in SUBSET Nat
<1>1. HoldsGood(r)
  BY DEF IInv, RequestsInv
<1>2. DOMAIN lists \in SUBSET Nat
  BY DEF IInv, ListsInv
<1> QED
  BY <1>1, <1>2 DEF HoldsGood, ListSteps, GoodItem

LEMMA SaveSameItemStep ==
  ASSUME IInv, NEW r \in Requests, NEW step \in ItemSteps, At(r, step), Ends(r),
         SaveItem(held[r].id, held[r].row), UNCHANGED deeds
  PROVE  IInv'
<1>1. pc[r] \in ItemSteps
  BY DEF At
<1> QED
  BY <1>1, HeldItem, ItemRewrittenStep DEF deeds

LEMMA PatchItemStep ==
  ASSUME IInv, NEW r \in Requests, PatchItem(r)
  PROVE  IInv'
<1> DEFINE row == held[r].row
<1>1. At(r, "patch") /\ Ends(r) /\ UNCHANGED deeds /\ pc[r] \in ItemSteps
  BY DEF PatchItem, At, ItemSteps
<1>2. CASE SaveItem(held[r].id, row)
  BY <1>1, <1>2, SaveSameItemStep DEF ItemSteps
<1>3. ASSUME NEW text \in Typed, SaveItem(held[r].id, Patched(row, text))
      PROVE  IInv'
  <2>1. /\ held[r].id \in DOMAIN items /\ row \in ItemRows
        /\ row.list \in DOMAIN lists /\ DOMAIN lists \in SUBSET Nat
    BY <1>1, HeldItem
  <2>2. row.kind \in Kinds
    BY <2>1 DEF ItemRows
  <2>3. GoodItem(DOMAIN lists, reviewed, held[r].id, Patched(row, text))
    BY <2>1, <2>2, TypedTyped, AnalysedIsGood DEF Patched
  <2> HIDE DEF row
  <2> QED
    BY <1>1, <1>3, <2>1, <2>3, ItemRewrittenStep DEF deeds
<1> QED
  BY <1>2, <1>3 DEF PatchItem

LEMMA ConfirmItemStep ==
  ASSUME IInv, NEW r \in Requests, ConfirmItem(r)
  PROVE  IInv'
<1> DEFINE i == held[r].id  row == held[r].row
           saved == [row EXCEPT !.confirmed = TRUE]
<1>1. /\ At(r, "confirm") /\ Ends(r) /\ UNCHANGED <<pasted, born, approvals>>
      /\ SaveItem(i, saved) /\ reviewed' = reviewed \union {<<i, row.text>>}
      /\ pc[r] \in ItemSteps
  BY DEF ConfirmItem, At, ItemSteps
<1>2. i \in DOMAIN items /\ row \in ItemRows /\ GoodItem(DOMAIN lists, reviewed, i, row)
  BY <1>1, HeldItem
<1>3. /\ saved \in ItemRows /\ saved.list = row.list /\ saved.kind = row.kind
      /\ saved.text = row.text /\ saved.targets = row.targets
      /\ saved.sure = row.sure /\ saved.traps = row.traps
  BY <1>2 DEF ItemRows
<1> HIDE DEF saved, row, i
<1>4. DraftOf(saved) = DraftOf(row)
  BY <1>3 DEF DraftOf
<1>5. GoodItem(DOMAIN lists, reviewed', i, saved)
  BY <1>1, <1>2, <1>3, <1>4 DEF GoodItem
<1>6. reviewed \subseteq reviewed'
  BY <1>1
<1> QED
  BY <1>1, <1>2, <1>5, <1>6, ItemRewrittenStep

LEMMA RemoveColourStep ==
  ASSUME IInv, NEW r \in Requests, RemoveColour(r)
  PROVE  IInv'
<1> DEFINE i == held[r].id  row == held[r].row
           saved == [row EXCEPT !.traps = @ - 1]
<1>1. At(r, "colour") /\ Ends(r) /\ UNCHANGED deeds /\ pc[r] \in ItemSteps
  BY DEF RemoveColour, At, ItemSteps
<1>2. i \in DOMAIN items /\ row \in ItemRows /\ GoodItem(DOMAIN lists, reviewed, i, row)
  BY <1>1, HeldItem
<1>3. CASE row.traps > 0 /\ SaveItem(i, saved)
  <2>1. SaveItem(i, saved)
    BY <1>3
  <2>2. row.traps - 1 \in Nat
    BY <1>2, <1>3 DEF ItemRows
  <2>3. /\ saved \in ItemRows /\ saved.list = row.list /\ saved.kind = row.kind
        /\ saved.text = row.text /\ saved.targets = row.targets /\ saved.sure = row.sure
        /\ saved.traps = row.traps - 1 /\ saved.confirmed = row.confirmed
    BY <1>2, <2>2 DEF ItemRows
  <2>4. DraftOf(row) \in Drafts
    BY <1>2 DEF ItemRows, DraftOf, Drafts, Texts
  <2>5. Traps(row.kind, DraftOf(row)) \in Nat /\ row.traps \in Nat
    BY <1>2, <2>4, TrapsTyped DEF ItemRows
  <2> HIDE DEF saved, row, i
  <2>6. DraftOf(saved) = DraftOf(row)
    BY <2>3 DEF DraftOf
  <2>7. saved.traps <= Traps(saved.kind, DraftOf(saved))
    BY <1>2, <2>3, <2>5, <2>6 DEF GoodItem
  <2>8. GoodItem(DOMAIN lists, reviewed, i, saved)
    BY <1>2, <2>3, <2>6, <2>7 DEF GoodItem
  <2> QED
    BY <1>1, <1>2, <2>1, <2>8, ItemRewrittenStep DEF deeds
<1>4. CASE UNCHANGED rows
  <2>1. UNCHANGED <<rows, deeds>>
    BY <1>1, <1>4
  <2>2. Grows
    BY <2>1, NothingGrows
  <2>3. ListsInv' /\ ItemsInv' /\ SentencesInv'
    BY <2>1, <2>2, ListsFrame, ItemsFrame, SentencesFrame DEF IInv, rows, deeds
  <2> QED
    BY <1>1, <2>2, <2>3, RequestsEnd, CountsAt DEF IInv
<1> QED
  BY <1>3, <1>4 DEF RemoveColour

LEMMA OpenItemStep ==
  ASSUME IInv, NEW r \in Requests, OpenItem(r)
  PROVE  IInv'
<1>1. PICK i \in DOMAIN items, step \in ItemSteps :
        GoesOn(r, step, [Nothing EXCEPT !.id = i, !.row = items[i]])
  BY DEF OpenItem, ItemSteps
<1> DEFINE hold == [Nothing EXCEPT !.id = i, !.row = items[i]]
<1>2. Arrives(r) /\ UNCHANGED <<rows, deeds>>
  BY DEF OpenItem
<1>3. i \in Nat /\ items[i] \in ItemRows /\ GoodItem(DOMAIN lists, reviewed, i, items[i])
  BY DEF IInv, ItemsInv
<1>4. hold.id = i /\ hold.row = items[i]
  BY DEF Nothing
<1>5. hold \in Holds
  BY <1>3, NothingTyped DEF Nothing, Holds
<1> HIDE DEF hold
<1>6. pc'[r] = step /\ held'[r] = hold
  BY <1>1 DEF GoesOn, IInv, RequestsInv, hold
<1>7. HoldsGood(r)'
  BY <1>2, <1>3, <1>4, <1>6 DEF HoldsGood, ListSteps, ItemSteps, SentenceSteps, rows, deeds
<1>8. step \in Steps
  BY DEF Steps, ItemSteps
<1> QED
  BY <1>1, <1>2, <1>5, <1>7, <1>8, ReadingStep DEF hold

----------------------------------------------------------------------------
LEMMA ReadItemsStep ==
  ASSUME IInv, NEW r \in Requests, ReadItems(r)
  PROVE  IInv'
<1>1. Arrives(r) /\ UNCHANGED <<rows, deeds>>
  BY DEF ReadItems
<1>2. PICK l \in DOMAIN lists :
        IF \E i \in ItemsOfList(l) : Unsure(items[i])
        THEN Stays(r)
        ELSE GoesOn(r, "validate",
               [Nothing EXCEPT !.id = l, !.seen = {<<i, items[i]>> : i \in ItemsOfList(l)}])
  BY DEF ReadItems
<1>3. CASE \E i \in ItemsOfList(l) : Unsure(items[i])
  BY <1>1, <1>2, <1>3, IdleStep
<1>4. CASE ~\E i \in ItemsOfList(l) : Unsure(items[i])
  <2> DEFINE seen == {<<i, items[i]>> : i \in ItemsOfList(l)}
             hold == [Nothing EXCEPT !.id = l, !.seen = seen]
  <2>1. l \in Nat
    BY DEF IInv, ListsInv
  <2>2. \A i \in ItemsOfList(l) : i \in Nat /\ items[i] \in ItemRows
    BY DEF IInv, ItemsInv, ItemsOfList
  <2>3. seen \in SUBSET (Nat \X ItemRows)
    BY <2>2
  <2>4. \A pair \in seen : ~Unsure(pair[2])
    BY <1>4
  <2>5. GoesOn(r, "validate", hold)
    BY <1>2, <1>4
  <2> HIDE DEF seen
  <2>6. hold.id = l /\ hold.seen = seen
    BY DEF Nothing
  <2>7. hold \in Holds
    BY <2>1, <2>3, NothingTyped DEF Nothing, Holds
  <2> HIDE DEF hold
  <2>8. pc'[r] = "validate" /\ held'[r] = hold
    BY <2>5 DEF GoesOn, IInv, RequestsInv
  <2>9. HoldsGood(r)'
    BY <1>1, <2>4, <2>6, <2>8 DEF HoldsGood, ListSteps, ItemSteps, SentenceSteps, rows, Unsure
  <2> QED
    BY <1>1, <2>5, <2>7, <2>9, ReadingStep DEF Steps
<1> QED
  BY <1>3, <1>4

LEMMA ValidateListStep ==
  ASSUME IInv, NEW r \in Requests, ValidateList(r)
  PROVE  IInv'
<1> DEFINE l == held[r].id
           row == [lists[l] EXCEPT !.validated = TRUE]
<1>1. /\ At(r, "validate") /\ Ends(r) /\ UNCHANGED <<items, sentences, deeds>>
      /\ lists' = [lists EXCEPT ![l] = row] /\ pc[r] = "validate"
  BY DEF ValidateList, At
<1>2. l \in DOMAIN lists /\ lists \in Seq(ListRows)
  BY <1>1 DEF IInv, RequestsInv, HoldsGood, ListSteps, ListsInv
<1>3. row \in ListRows
  <2>1. lists[l] \in ListRows
    BY <1>2
  <2> QED
    BY <2>1 DEF ListRows
<1> HIDE DEF row, l
<1>4. lists' \in Seq(ListRows) /\ Len(lists') = Len(lists) /\ DOMAIN lists' = DOMAIN lists
  BY <1>1, <1>2, <1>3
<1>5. ListsInv'
  BY <1>1, <1>4 DEF IInv, ListsInv, deeds
<1>6. Grows
  BY <1>1, <1>4 DEF Grows, deeds
<1>7. ItemsInv' /\ SentencesInv'
  BY <1>1, <1>6, ItemsFrame, SentencesFrame DEF IInv, deeds
<1> QED
  BY <1>1, <1>5, <1>6, <1>7, RequestsEnd, CountsAt DEF IInv

----------------------------------------------------------------------------
(* A request sent on to add a word to list l.                               *)
LEMMA QuickHold ==
  ASSUME NEW l \in Nat, NEW hold, hold = [Nothing EXCEPT !.id = l]
  PROVE  hold \in Holds /\ hold.id = l
BY NothingTyped DEF Nothing, Holds

LEMMA FindQuickListStep ==
  ASSUME IInv, NEW r \in Requests, Arrives(r), UNCHANGED <<rows, deeds>>,
         \/ \E l \in DOMAIN lists, step \in {"saveQuick", "saveQuickApi"} :
              GoesOn(r, step, [Nothing EXCEPT !.id = l])
         \/ \E step \in {"createQuick", "createApi"} : GoesOn(r, step, Nothing)
  PROVE  IInv'
<1>1. ASSUME NEW l \in DOMAIN lists, NEW step \in {"saveQuick", "saveQuickApi"},
             GoesOn(r, step, [Nothing EXCEPT !.id = l])
      PROVE  IInv'
  <2> DEFINE hold == [Nothing EXCEPT !.id = l]
  <2>1. l \in Nat
    BY DEF IInv, ListsInv
  <2>2. hold \in Holds /\ hold.id = l
    BY <2>1, QuickHold
  <2> HIDE DEF hold
  <2>3. pc'[r] = step /\ held'[r] = hold
    BY <1>1 DEF GoesOn, IInv, RequestsInv, hold
  <2>4. HoldsGood(r)'
    BY <2>2, <2>3 DEF HoldsGood, ListSteps, ItemSteps, SentenceSteps, rows
  <2> QED
    BY <1>1, <2>2, <2>4, ReadingStep DEF Steps, hold
<1>2. ASSUME NEW step \in {"createQuick", "createApi"}, GoesOn(r, step, Nothing)
      PROVE  IInv'
  <2>1. pc'[r] = step
    BY <1>2 DEF GoesOn, IInv, RequestsInv
  <2>2. HoldsGood(r)'
    BY <2>1 DEF HoldsGood, ListSteps, ItemSteps, SentenceSteps
  <2>3. step \in Steps
    BY DEF Steps
  <2> QED
    BY <1>2, <2>2, <2>3, NothingTyped, ReadingStep
<1> QED
  BY <1>1, <1>2

(* Of the lists of a label there is a newest.                               *)
LEMMA NewestList ==
  ASSUME ListsInv, Labelled # {}
  PROVE  (CHOOSE l \in Labelled : \A k \in Labelled : k <= l) \in DOMAIN lists
<1>1. Labelled \subseteq 1 .. Len(lists) /\ Len(lists) \in Nat
  BY DEF Labelled, ListsInv
<1> DEFINE T == {n \in Nat : \E l \in Labelled : n = Len(lists) - l}
<1>2. T \in SUBSET Nat /\ T # {}
  <2>1. PICK l \in Labelled : TRUE
    OBVIOUS
  <2>2. Len(lists) - l \in T
    BY <1>1, <2>1
  <2> QED
    BY <2>2
<1>3. PICK n \in T : \A m \in T : n <= m
  <2> HIDE DEF T
  <2> QED
    BY <1>2, LeastNatural
<1>4. PICK l \in Labelled : n = Len(lists) - l
  BY <1>3
<1>5. \A k \in Labelled : k <= l
  <2> SUFFICES ASSUME NEW k \in Labelled
               PROVE  k <= l
    OBVIOUS
  <2>1. k \in 1 .. Len(lists) /\ l \in 1 .. Len(lists)
    BY <1>1
  <2>2. Len(lists) - k \in T
    BY <1>1, <2>1
  <2>3. Len(lists) - l <= Len(lists) - k
    BY <1>3, <1>4, <2>2
  <2> QED
    BY <1>1, <2>1, <2>3
<1>6. (CHOOSE m \in Labelled : \A k \in Labelled : k <= m) \in Labelled
  BY <1>5
<1> QED
  BY <1>6 DEF Labelled

LEMMA QuickWordListStep ==
  ASSUME IInv, NEW r \in Requests, QuickWordList(r)
  PROVE  IInv'
<1>1. Arrives(r) /\ UNCHANGED <<rows, deeds>>
  BY DEF QuickWordList
<1>2. CASE Labelled # {}
  <2> DEFINE l == CHOOSE l \in Labelled : \A k \in Labelled : k <= l
  <2>1. l \in DOMAIN lists
    BY <1>2, NewestList DEF IInv
  <2>2. GoesOn(r, "saveQuick", [Nothing EXCEPT !.id = l])
    BY <1>2 DEF QuickWordList
  <2> HIDE DEF l
  <2> QED
    BY <1>1, <2>1, <2>2, FindQuickListStep
<1>3. CASE Labelled = {}
  <2>1. GoesOn(r, "createQuick", Nothing)
    BY <1>3 DEF QuickWordList
  <2> QED
    BY <1>1, <2>1, FindQuickListStep
<1> QED
  BY <1>2, <1>3

LEMMA MesMotsListStep ==
  ASSUME IInv, NEW r \in Requests, MesMotsList(r)
  PROVE  IInv'
<1>1. Arrives(r) /\ UNCHANGED <<rows, deeds>>
  BY DEF MesMotsList
<1>2. CASE ApiList # {}
  <2> DEFINE l == CHOOSE l \in ApiList : TRUE
  <2>1. l \in DOMAIN lists
    BY <1>2 DEF ApiList
  <2>2. GoesOn(r, "saveQuickApi", [Nothing EXCEPT !.id = l])
    BY <1>2 DEF MesMotsList
  <2> HIDE DEF l
  <2> QED
    BY <1>1, <2>1, <2>2, FindQuickListStep
<1>3. CASE ApiList = {}
  <2>1. GoesOn(r, "createApi", Nothing)
    BY <1>3 DEF MesMotsList
  <2> QED
    BY <1>1, <2>1, FindQuickListStep
<1> QED
  BY <1>2, <1>3

LEMMA CreateQuickListStep ==
  ASSUME IInv, NEW r \in Requests, CreateQuickList(r)
  PROVE  IInv'
<1>1. PICK api \in BOOLEAN :
        /\ At(r, IF api THEN "createApi" ELSE "createQuick")
        /\ IF api /\ ApiList # {}
           THEN Ends(r) /\ UNCHANGED <<lists, pasted>>
           ELSE /\ lists' = Append(lists, [label |-> MesMots, api |-> api, validated |-> TRUE])
                /\ pasted' = Append(pasted, [told |-> FALSE])
                /\ GoesOn(r, IF api THEN "saveQuickApi" ELSE "saveQuick",
                     [Nothing EXCEPT !.id = Len(lists) + 1])
        /\ UNCHANGED <<items, sentences, born, reviewed, approvals>>
  BY DEF CreateQuickList
<1>2. CountsInv'
  BY <1>1, CountsAt DEF IInv
<1>3. CASE api /\ ApiList # {}
  <2>1. Ends(r) /\ UNCHANGED <<rows, deeds>>
    BY <1>1, <1>3 DEF rows, deeds
  <2>2. Grows
    BY <2>1, NothingGrows
  <2>3. ListsInv' /\ ItemsInv' /\ SentencesInv'
    BY <2>1, <2>2, ListsFrame, ItemsFrame, SentencesFrame DEF IInv, rows, deeds
  <2> QED
    BY <1>2, <2>1, <2>2, <2>3, RequestsEnd DEF IInv
<1>4. CASE ~(api /\ ApiList # {})
  <2> DEFINE row == [label |-> MesMots, api |-> api, validated |-> TRUE]
             made == [told |-> FALSE]
             hold == [Nothing EXCEPT !.id = Len(lists) + 1]
             step == IF api THEN "saveQuickApi" ELSE "saveQuick"
  <2>1. /\ lists' = Append(lists, row) /\ pasted' = Append(pasted, made)
        /\ GoesOn(r, step, hold)
    BY <1>1, <1>4
  <2>2. row \in ListRows /\ made \in MadeRows
    BY ListsAssumption DEF ListRows, MadeRows
  <2>3. /\ lists \in Seq(ListRows) /\ pasted \in Seq(PastedRows \union MadeRows)
        /\ Len(pasted) = Len(lists)
    BY DEF IInv, ListsInv
  <2>4. hold \in Holds /\ hold.id = Len(lists) + 1
    BY <2>3, QuickHold
  <2>13. step \in {"saveQuick", "saveQuickApi"}
    OBVIOUS
  <2> HIDE DEF row, made, hold, step
  <2>5. lists' \in Seq(ListRows) /\ Len(lists') = Len(lists) + 1
    BY <2>1, <2>2, <2>3
  <2>6. pasted' \in Seq(PastedRows \union MadeRows) /\ Len(pasted') = Len(pasted) + 1
    BY <2>1, <2>2, <2>3
  <2>7. ListsInv'
    BY <2>3, <2>5, <2>6 DEF ListsInv
  <2>8. Grows
    <3>1. \A l \in DOMAIN pasted : pasted'[l] = pasted[l]
      BY <2>1, <2>3
    <3>2. DOMAIN lists \subseteq DOMAIN lists'
      BY <2>3, <2>5
    <3> QED
      BY <1>1, <3>1, <3>2 DEF Grows
  <2>9. ItemsInv' /\ SentencesInv'
    BY <1>1, <2>8, ItemsFrame, SentencesFrame DEF IInv
  <2>10. pc'[r] = step /\ held'[r] = hold
    BY <2>1 DEF GoesOn, IInv, RequestsInv
  <2>11. hold.id \in DOMAIN lists'
    BY <2>3, <2>4, <2>5
  <2>12. HoldsGood(r)'
    BY <2>10, <2>11, <2>13 DEF HoldsGood, ListSteps, ItemSteps, SentenceSteps
  <2> QED
    BY <1>2, <2>1, <2>4, <2>7, <2>8, <2>9, <2>12, <2>13, RequestsGoOn DEF IInv, Steps
<1> QED
  BY <1>3, <1>4

(* The word a button adds, when what was typed holds one.                    *)
LEMMA QuickDraftsTyped ==
  ASSUME NEW step, NEW text \in Typed
  PROVE  QuickDrafts(step, text) \in Seq(Drafts)
<1>1. text \in Texts /\ Whole(text) \in Drafts
  BY TypedTyped
<1>2. SplitWords(text) \in Seq(Drafts)
  BY <1>1, SplitWordsTyped
<1>3. <<Whole(text)>> \in Seq(Drafts)
  BY <1>1
<1> QED
  BY <1>2, <1>3 DEF QuickDrafts

LEMMA SaveQuickSaves ==
  ASSUME IInv, NEW l \in DOMAIN lists, NEW draft \in Drafts, SaveQuick(l, draft), lists' = lists
  PROVE  ItemsInv' /\ DOMAIN items \subseteq DOMAIN items' /\ reviewed \subseteq reviewed'
<1> DEFINE fresh == Analysed(l, "word", draft)
           row == [fresh EXCEPT !.confirmed = TRUE]
           birth == [list |-> l, draft |-> draft, quick |-> TRUE]
           place == Len(items) + 1
<1>1. items' = Append(items, row) /\ born' = Append(born, birth)
      /\ reviewed' = reviewed \union {<<place, draft.text>>}
  BY DEF SaveQuick
<1>2. l \in Nat /\ DOMAIN lists \in SUBSET Nat
  BY DEF IInv, ListsInv
<1>3. birth \in BornRows
  BY <1>2 DEF BornRows
<1>4. fresh \in ItemRows /\ GoodItem(DOMAIN lists, reviewed, place, fresh)
  BY <1>2, AnalysedIsGood DEF Kinds
<1>5. fresh.text = draft.text
  BY DEF Analysed
<1> HIDE DEF fresh
<1>6. /\ row \in ItemRows /\ row.list = fresh.list /\ row.kind = fresh.kind
      /\ row.text = fresh.text /\ row.targets = fresh.targets
      /\ row.sure = fresh.sure /\ row.traps = fresh.traps
  BY <1>4 DEF ItemRows
<1> HIDE DEF row
<1>7. DraftOf(row) = DraftOf(fresh)
  BY <1>6 DEF DraftOf
<1>8. <<place, row.text>> \in reviewed' /\ reviewed \subseteq reviewed'
  BY <1>1, <1>5, <1>6
<1> HIDE DEF place
<1>9. GoodItem(DOMAIN lists, reviewed', place, row)
  BY <1>4, <1>6, <1>7, <1>8 DEF GoodItem
<1> HIDE DEF birth
<1> QED
  BY <1>1, <1>3, <1>8, <1>9, ItemAdded DEF IInv, place

LEMMA SaveQuickWordStep ==
  ASSUME IInv, NEW r \in Requests, SaveQuickWord(r)
  PROVE  IInv'
<1> DEFINE l == held[r].id
<1>1. PICK step \in {"saveQuick", "saveQuickApi"}, text \in Typed :
        /\ At(r, step) /\ Ends(r) /\ UNCHANGED <<lists, sentences, pasted, approvals>>
        /\ IF QuickDrafts(step, text) = <<>>
           THEN UNCHANGED <<items, born, reviewed>>
           ELSE SaveQuick(l, Head(QuickDrafts(step, text)))
  BY DEF SaveQuickWord
<1>2. l \in DOMAIN lists
  BY <1>1 DEF At, IInv, RequestsInv, HoldsGood, ListSteps
<1> HIDE DEF l
<1>3. ItemsInv' /\ DOMAIN items \subseteq DOMAIN items' /\ reviewed \subseteq reviewed'
  <2> DEFINE drafts == QuickDrafts(step, text)
  <2>1. drafts \in Seq(Drafts)
    BY QuickDraftsTyped
  <2> HIDE DEF drafts
  <2>2. CASE drafts = <<>>
    <3>1. UNCHANGED <<items, born, reviewed, lists>>
      BY <1>1, <2>2 DEF drafts
    <3> QED
      BY <3>1 DEF IInv, ItemsInv
  <2>3. CASE drafts # <<>>
    <3>1. Head(drafts) \in Drafts
      BY <2>1, <2>3
    <3>2. SaveQuick(l, Head(drafts)) /\ lists' = lists
      BY <1>1, <2>3 DEF drafts
    <3> QED
      BY <1>2, <3>1, <3>2, SaveQuickSaves
  <2> QED
    BY <2>2, <2>3
<1>4. Grows
  BY <1>1, <1>3 DEF Grows
<1>5. ListsInv' /\ SentencesInv'
  BY <1>1, <1>4, ListsFrame, SentencesFrame DEF IInv
<1> QED
  BY <1>1, <1>3, <1>4, <1>5, RequestsEnd, CountsAt DEF IInv

----------------------------------------------------------------------------
LEMMA GenerateStep ==
  ASSUME IInv, NEW r \in Requests, Generate(r)
  PROVE  IInv'
<1>1. Arrives(r) /\ UNCHANGED <<rows, deeds>>
  BY DEF Generate
<1>2. PICK i \in DOMAIN items, kept \in SUBSET Accepted :
        IF kept = {}
        THEN Stays(r)
        ELSE GoesOn(r, "saveGenerated", [Nothing EXCEPT !.id = i, !.left = SetToSeq(kept)])
  BY DEF Generate
<1>3. CASE kept = {}
  BY <1>1, <1>2, <1>3, IdleStep
<1>4. CASE kept # {}
  <2> DEFINE left == SetToSeq(kept)
             hold == [Nothing EXCEPT !.id = i, !.left = left]
  <2>1. kept \subseteq Phrases
    BY DEF Accepted
  <2>2. IsFiniteSet(kept)
    BY <2>1, ListsAssumption, FS_Subset
  <2>3. left \in Seq(kept) /\ left # <<>>
    BY <1>4, <2>2, SetToSeqTyped
  <2> HIDE DEF left
  <2>4. left \in Seq(Phrases) /\ left \in Seq(Drafts \union Phrases)
    BY <2>1, <2>3
  <2>5. i \in Nat
    BY DEF IInv, ItemsInv
  <2>6. hold.id = i /\ hold.left = left
    BY DEF Nothing
  <2>7. hold \in Holds
    BY <2>4, <2>5, NothingTyped DEF Nothing, Holds
  <2>8. GoesOn(r, "saveGenerated", hold)
    BY <1>2, <1>4 DEF left
  <2> HIDE DEF hold
  <2>9. pc'[r] = "saveGenerated" /\ held'[r] = hold
    BY <2>8 DEF GoesOn, IInv, RequestsInv
  <2>10. HoldsGood(r)'
    BY <1>1, <2>3, <2>4, <2>6, <2>9 DEF HoldsGood, ListSteps, ItemSteps, SentenceSteps, rows
  <2> QED
    BY <1>1, <2>7, <2>8, <2>10, ReadingStep DEF Steps
<1> QED
  BY <1>3, <1>4

LEMMA SaveGeneratedStep ==
  ASSUME IInv, NEW r \in Requests, SaveGenerated(r)
  PROVE  IInv'
<1> DEFINE i == held[r].id
           row == [item |-> i, approved |-> FALSE, words |-> Head(held[r].left).words]
<1>1. /\ At(r, "saveGenerated") /\ pc[r] = "saveGenerated"
      /\ sentences' = Append(sentences, row) /\ UNCHANGED <<lists, items, deeds>>
  BY DEF SaveGenerated, At
<1>2. HoldsGood(r) /\ held[r] \in Holds
  BY DEF IInv, RequestsInv
<1>3. i \in DOMAIN items /\ held[r].left \in Seq(Phrases) /\ held[r].left # <<>>
  BY <1>1, <1>2 DEF HoldsGood, ListSteps
<1>4. i \in Nat
  BY <1>3 DEF IInv, ItemsInv
<1>5. Head(held[r].left).words \in Seq(Words)
  <2>1. Head(held[r].left) \in Phrases
    BY <1>3
  <2> QED
    BY <2>1, ListsAssumption DEF Words
<1>6. GoodSentence(DOMAIN items, approvals, Len(sentences) + 1, row)
  BY <1>3, <1>4, <1>5 DEF GoodSentence, SentenceRows, Words
<1> HIDE DEF row, i
<1>7. SentencesInv' /\ DOMAIN sentences \subseteq DOMAIN sentences'
  BY <1>1, <1>6, SentenceAdded DEF IInv, deeds
<1>8. Grows
  BY <1>1, <1>7 DEF Grows, deeds
<1>9. ListsInv' /\ ItemsInv'
  BY <1>1, <1>8, ListsFrame, ItemsFrame DEF IInv, deeds
<1>10. RequestsInv'
  <2>1. CASE Len(held[r].left) > 1
    <3> DEFINE hold == [held[r] EXCEPT !.left = Tail(@)]
    <3>1. GoesOn(r, "saveGenerated", hold)
      BY <2>1 DEF SaveGenerated
    <3>2. Tail(held[r].left) \in Seq(Phrases) /\ Tail(held[r].left) # <<>>
      BY <1>3, <2>1, TailTyped
    <3>3. Tail(held[r].left) \in Seq(Drafts \union Phrases)
      BY <3>2
    <3>4. hold.id = i /\ hold.left = Tail(held[r].left)
      BY <1>2 DEF Holds, i
    <3>5. hold \in Holds
      BY <1>2, <3>3 DEF Holds
    <3> HIDE DEF hold
    <3>6. pc'[r] = "saveGenerated" /\ held'[r] = hold
      BY <3>1 DEF GoesOn, IInv, RequestsInv
    <3>7. HoldsGood(r)'
      BY <1>1, <1>3, <3>2, <3>4, <3>6 DEF HoldsGood, ListSteps, ItemSteps, SentenceSteps
    <3> QED
      BY <1>8, <3>1, <3>5, <3>7, RequestsGoOn DEF IInv, Steps
  <2>2. CASE ~(Len(held[r].left) > 1)
    <3>1. Ends(r)
      BY <2>2 DEF SaveGenerated
    <3> QED
      BY <1>8, <3>1, RequestsEnd DEF IInv
  <2> QED
    BY <2>1, <2>2
<1> QED
  BY <1>1, <1>7, <1>9, <1>10, CountsAt DEF IInv

LEMMA ManualSentenceStep ==
  ASSUME IInv, NEW r \in Requests, ManualSentence(r)
  PROVE  IInv'
<1>1. Arrives(r) /\ Stays(r) /\ UNCHANGED <<lists, items, pasted, born, reviewed>>
  BY DEF ManualSentence
<1>2. PICK i \in DOMAIN items, p \in Phrases :
        /\ sentences' = Append(sentences, [item |-> i, words |-> p.words, approved |-> TRUE])
        /\ approvals' = approvals \union {<<Len(sentences) + 1, p.words>>}
  BY DEF ManualSentence
<1> DEFINE row == [item |-> i, words |-> p.words, approved |-> TRUE]
<1>3. i \in Nat /\ p.words \in Seq(Words)
  BY ListsAssumption DEF IInv, ItemsInv, Words
<1>4. GoodSentence(DOMAIN items, approvals', Len(sentences) + 1, row)
  BY <1>2, <1>3 DEF GoodSentence, SentenceRows, Words
<1>5. approvals \subseteq approvals' /\ sentences' = Append(sentences, row)
  BY <1>2
<1> HIDE DEF row
<1>6. SentencesInv' /\ DOMAIN sentences \subseteq DOMAIN sentences'
  BY <1>1, <1>4, <1>5, SentenceAdded DEF IInv
<1>7. Grows
  BY <1>1, <1>5, <1>6 DEF Grows
<1>8. ListsInv' /\ ItemsInv'
  BY <1>1, <1>7, ListsFrame, ItemsFrame DEF IInv
<1> QED
  BY <1>1, <1>6, <1>7, <1>8, RequestsStay, CountsArrive DEF IInv

LEMMA OpenSentenceStep ==
  ASSUME IInv, NEW r \in Requests, OpenSentence(r)
  PROVE  IInv'
<1>1. PICK s \in DOMAIN sentences, step \in SentenceSteps :
        GoesOn(r, step, [Nothing EXCEPT !.id = s, !.row = sentences[s]])
  BY DEF OpenSentence, SentenceSteps
<1> DEFINE hold == [Nothing EXCEPT !.id = s, !.row = sentences[s]]
<1>2. Arrives(r) /\ UNCHANGED <<rows, deeds>>
  BY DEF OpenSentence
<1>3. /\ s \in Nat /\ sentences[s] \in SentenceRows
      /\ GoodSentence(DOMAIN items, approvals, s, sentences[s])
  BY DEF IInv, SentencesInv
<1>4. hold.id = s /\ hold.row = sentences[s]
  BY DEF Nothing
<1>5. hold \in Holds
  BY <1>3, NothingTyped DEF Nothing, Holds
<1> HIDE DEF hold
<1>6. pc'[r] = step /\ held'[r] = hold
  BY <1>1 DEF GoesOn, IInv, RequestsInv, hold
<1>7. HoldsGood(r)'
  BY <1>2, <1>3, <1>4, <1>6 DEF HoldsGood, ListSteps, ItemSteps, SentenceSteps, rows, deeds
<1>8. step \in Steps
  BY DEF Steps, SentenceSteps
<1> QED
  BY <1>1, <1>2, <1>5, <1>7, <1>8, ReadingStep DEF hold

(* The steps that save a sentence.                                          *)
LEMMA SentenceRewrittenStep ==
  ASSUME IInv, NEW r \in Requests, NEW step, At(r, step), Ends(r),
         NEW s \in DOMAIN sentences, NEW row, SaveSentence(s, row),
         approvals \subseteq approvals', UNCHANGED <<pasted, born, reviewed>>,
         GoodSentence(DOMAIN items, approvals', s, row)
  PROVE  IInv'
<1>1. Grows
  BY SaveSentenceGrows
<1>2. SentencesInv'
  BY <1>1, SentenceSaved DEF IInv
<1>3. ListsInv' /\ ItemsInv'
  BY <1>1, ListsFrame, ItemsFrame DEF IInv, SaveSentence
<1>4. RequestsInv'
  BY <1>1, RequestsEnd DEF IInv
<1> QED
  BY <1>2, <1>3, <1>4, CountsAt DEF IInv

LEMMA HeldSentence ==
  ASSUME IInv, NEW r \in Requests, pc[r] \in SentenceSteps
  PROVE  /\ held[r].id \in DOMAIN sentences
         /\ GoodSentence(DOMAIN items, approvals, held[r].id, held[r].row)
BY DEF IInv, RequestsInv, HoldsGood, ListSteps

LEMMA RegenerateSentenceStep ==
  ASSUME IInv, NEW r \in Requests, RegenerateSentence(r)
  PROVE  IInv'
<1> DEFINE s == held[r].id  row == held[r].row
<1>1. At(r, "regenerate") /\ Ends(r) /\ UNCHANGED deeds /\ pc[r] \in SentenceSteps
  BY DEF RegenerateSentence, At, SentenceSteps
<1>2. PICK p \in Accepted : SaveSentence(s, Regenerated(row, p))
  BY DEF RegenerateSentence
<1>3. s \in DOMAIN sentences /\ GoodSentence(DOMAIN items, approvals, s, row)
  BY <1>1, HeldSentence
<1>4. p.words \in Seq(Words)
  BY ListsAssumption DEF Accepted, Words
<1> HIDE DEF s, row
<1>5. GoodSentence(DOMAIN items, approvals, s, Regenerated(row, p))
  BY <1>3, <1>4 DEF GoodSentence, SentenceRows, Words, Regenerated
<1> QED
  BY <1>1, <1>2, <1>3, <1>5, SentenceRewrittenStep DEF deeds

LEMMA ApproveSentenceStep ==
  ASSUME IInv, NEW r \in Requests, ApproveSentence(r)
  PROVE  IInv'
<1> DEFINE s == held[r].id
           row == [sentences[s] EXCEPT !.approved = TRUE]
<1>1. /\ At(r, "approve") /\ Ends(r) /\ UNCHANGED <<pasted, born, reviewed>>
      /\ SaveSentence(s, row) /\ approvals' = approvals \union {<<s, sentences[s].words>>}
      /\ pc[r] \in SentenceSteps
  BY DEF ApproveSentence, At, SentenceSteps
<1>2. s \in DOMAIN sentences
  BY <1>1, HeldSentence
<1>3. GoodSentence(DOMAIN items, approvals, s, sentences[s])
  BY <1>2 DEF IInv, SentencesInv
<1>4. row \in SentenceRows /\ row.item = sentences[s].item /\ row.words = sentences[s].words
  BY <1>3 DEF GoodSentence, SentenceRows, Words
<1> HIDE DEF row, s
<1>5. GoodSentence(DOMAIN items, approvals', s, row)
  BY <1>1, <1>3, <1>4 DEF GoodSentence
<1>6. approvals \subseteq approvals'
  BY <1>1
<1> QED
  BY <1>1, <1>2, <1>5, <1>6, SentenceRewrittenStep

LEMMA SaveSentenceAudioStep ==
  ASSUME IInv, NEW r \in Requests, SaveSentenceAudio(r)
  PROVE  IInv'
<1>1. /\ At(r, "sentenceAudio") /\ Ends(r) /\ UNCHANGED deeds
      /\ SaveSentence(held[r].id, held[r].row) /\ pc[r] \in SentenceSteps
  BY DEF SaveSentenceAudio, At, SentenceSteps
<1> QED
  BY <1>1, HeldSentence, SentenceRewrittenStep DEF deeds

----------------------------------------------------------------------------
LEMMA InitIInv == Init => IInv
<1> SUFFICES ASSUME Init
             PROVE  IInv
  OBVIOUS
<1>1. ListsInv /\ ItemsInv /\ SentencesInv
  BY DEF Init, ListsInv, ItemsInv, SentencesInv
<1>2. RequestsInv
  BY NothingTyped DEF Init, RequestsInv, Steps, HoldsGood, ListSteps, ItemSteps, SentenceSteps
<1>3. CountsInv
  BY ListsAssumption DEF Init, CountsInv
<1> QED
  BY <1>1, <1>2, <1>3 DEF IInv

LEMMA StepIInv ==
  ASSUME IInv, [Next]_vars
  PROVE  IInv'
<1>1. ASSUME NEW r \in Requests, PasteList(r)
      PROVE  IInv'
  BY <1>1, PasteListStep
<1>2. ASSUME NEW r \in Requests, SaveNextItem(r)
      PROVE  IInv'
  BY <1>2, SaveNextItemStep
<1>3. ASSUME NEW r \in Requests, OpenItem(r)
      PROVE  IInv'
  BY <1>3, OpenItemStep
<1>4. ASSUME NEW r \in Requests, PatchItem(r)
      PROVE  IInv'
  BY <1>4, PatchItemStep
<1>5. ASSUME NEW r \in Requests, ConfirmItem(r)
      PROVE  IInv'
  BY <1>5, ConfirmItemStep
<1>6. ASSUME NEW r \in Requests, RemoveColour(r)
      PROVE  IInv'
  BY <1>6, RemoveColourStep
<1>7. ASSUME NEW r \in Requests, SaveItemAudio(r)
      PROVE  IInv'
  BY <1>7, SaveSameItemStep DEF SaveItemAudio, ItemSteps
<1>8. ASSUME NEW r \in Requests, ReadItems(r)
      PROVE  IInv'
  BY <1>8, ReadItemsStep
<1>9. ASSUME NEW r \in Requests, ValidateList(r)
      PROVE  IInv'
  BY <1>9, ValidateListStep
<1>10. ASSUME NEW r \in Requests, QuickWordList(r)
       PROVE  IInv'
  BY <1>10, QuickWordListStep
<1>11. ASSUME NEW r \in Requests, MesMotsList(r)
       PROVE  IInv'
  BY <1>11, MesMotsListStep
<1>12. ASSUME NEW r \in Requests, CreateQuickList(r)
       PROVE  IInv'
  BY <1>12, CreateQuickListStep
<1>13. ASSUME NEW r \in Requests, SaveQuickWord(r)
       PROVE  IInv'
  BY <1>13, SaveQuickWordStep
<1>14. ASSUME NEW r \in Requests, Generate(r)
       PROVE  IInv'
  BY <1>14, GenerateStep
<1>15. ASSUME NEW r \in Requests, SaveGenerated(r)
       PROVE  IInv'
  BY <1>15, SaveGeneratedStep
<1>16. ASSUME NEW r \in Requests, ManualSentence(r)
       PROVE  IInv'
  BY <1>16, ManualSentenceStep
<1>17. ASSUME NEW r \in Requests, OpenSentence(r)
       PROVE  IInv'
  BY <1>17, OpenSentenceStep
<1>18. ASSUME NEW r \in Requests, RegenerateSentence(r)
       PROVE  IInv'
  BY <1>18, RegenerateSentenceStep
<1>19. ASSUME NEW r \in Requests, ApproveSentence(r)
       PROVE  IInv'
  BY <1>19, ApproveSentenceStep
<1>20. ASSUME NEW r \in Requests, SaveSentenceAudio(r)
       PROVE  IInv'
  BY <1>20, SaveSentenceAudioStep
<1>21. ASSUME NEW r \in Requests, Fail(r)
       PROVE  IInv'
  BY <1>21, FailStep
<1>22. ASSUME UNCHANGED vars
       PROVE  IInv'
  <2>1. UNCHANGED <<lists, items, sentences, pc, held, sent, faults, pasted, born, reviewed, approvals>>
    BY <1>22 DEF vars, rows, deeds
  <2>2. Grows
    BY <2>1 DEF Grows
  <2>3. ListsInv' /\ ItemsInv' /\ SentencesInv'
    BY <2>1, <2>2, ListsFrame, ItemsFrame, SentencesFrame DEF IInv
  <2>4. \A q \in Requests : HoldsGood(q)'
    BY <2>1, <2>2, StillGood DEF IInv, RequestsInv
  <2>5. RequestsInv' /\ CountsInv'
    BY <2>1, <2>4 DEF IInv, RequestsInv, CountsInv
  <2> QED
    BY <2>3, <2>5 DEF IInv
<1> QED
  BY <1>1, <1>2, <1>3, <1>4, <1>5, <1>6, <1>7, <1>8, <1>9, <1>10, <1>11, <1>12, <1>13,
     <1>14, <1>15, <1>16, <1>17, <1>18, <1>19, <1>20, <1>21, <1>22 DEF Next

(* The inductive invariant holds in every state.                            *)
THEOREM Invariance == Spec => []IInv
BY InitIInv, StepIInv, PTL DEF Spec

----------------------------------------------------------------------------
(* Every row keeps its type and refers to a row that exists.                *)
THEOREM ListsTypeCorrect == Spec => []TypeOK
<1>1. IInv => TypeOK
  <2> SUFFICES ASSUME IInv
               PROVE  TypeOK
    OBVIOUS
  <2>1. \A i \in DOMAIN items : items[i].list \in DOMAIN lists
    BY DEF IInv, ItemsInv, GoodItem
  <2>2. \A s \in DOMAIN sentences : sentences[s].item \in DOMAIN items
    BY DEF IInv, SentencesInv, GoodSentence
  <2>3. DOMAIN pasted = DOMAIN lists /\ DOMAIN born = DOMAIN items
    BY DEF IInv, ListsInv, ItemsInv
  <2> QED
    BY <2>1, <2>2, <2>3
       DEF TypeOK, IInv, ListsInv, ItemsInv, SentencesInv, RequestsInv, CountsInv
<1> QED
  BY <1>1, Invariance, PTL

(* A confirmation is of a text a parent's request read, whatever edits,     *)
(* recordings and confirmations save whole rows at the same time.           *)
THEOREM ConfirmedWasAlwaysRead == Spec => []ConfirmedWasRead
<1>1. IInv => ConfirmedWasRead
  BY DEF IInv, ItemsInv, GoodItem, ConfirmedWasRead
<1> QED
  BY <1>1, Invariance, PTL

(* An item's analysis is that of its own text.                              *)
THEOREM AnalysisIsAlwaysOfItsText == Spec => []AnalysisIsOfItsText
<1>1. IInv => AnalysisIsOfItsText
  BY DEF IInv, ItemsInv, GoodItem, AnalysisIsOfItsText, DraftOf
<1> QED
  BY <1>1, Invariance, PTL

(* An approved sentence was approved with its words.                        *)
THEOREM ApprovedTextWasAlwaysApproved == Spec => []ApprovedTextWasApproved
<1>1. IInv => ApprovedTextWasApproved
  BY DEF IInv, SentencesInv, GoodSentence, ApprovedTextWasApproved
<1> QED
  BY <1>1, Invariance, PTL

(* Only the statement that follows a look at every item of a list unlocks   *)
(* it, and that look saw nothing left to check.                             *)
LEMMA OnlyValidateUnlocks ==
  ASSUME IInv, [Next]_vars, \A r \in Requests : ~ValidateList(r)
  PROVE  \A l \in DOMAIN lists : lists'[l] = lists[l]
<1>1. CASE UNCHANGED vars
  BY <1>1 DEF vars, rows
<1>2. ASSUME NEW r \in Requests, PasteList(r) \/ CreateQuickList(r)
      PROVE  \A l \in DOMAIN lists : lists'[l] = lists[l]
  <2>1. lists \in Seq(ListRows)
    BY DEF IInv, ListsInv
  <2>2. lists' = lists \/ \E row : lists' = Append(lists, row)
    BY <1>2 DEF PasteList, CreateQuickList
  <2> QED
    BY <2>1, <2>2
<1>3. ASSUME NEW r \in Requests,
             \/ SaveNextItem(r) \/ OpenItem(r) \/ PatchItem(r) \/ ConfirmItem(r)
             \/ RemoveColour(r) \/ SaveItemAudio(r) \/ ReadItems(r)
             \/ QuickWordList(r) \/ MesMotsList(r) \/ SaveQuickWord(r)
             \/ Generate(r) \/ SaveGenerated(r) \/ ManualSentence(r) \/ OpenSentence(r)
             \/ RegenerateSentence(r) \/ ApproveSentence(r) \/ SaveSentenceAudio(r)
             \/ Fail(r)
      PROVE  lists' = lists
  BY <1>3 DEF SaveNextItem, OpenItem, PatchItem, ConfirmItem, RemoveColour, SaveItemAudio,
       ReadItems, QuickWordList, MesMotsList, SaveQuickWord, Generate, SaveGenerated,
       ManualSentence, OpenSentence, RegenerateSentence, ApproveSentence, SaveSentenceAudio,
       Fail, SaveItem, SaveSentence, rows
<1> QED
  BY <1>1, <1>2, <1>3 DEF Next

THEOREM ValidationAlwaysLooked == Spec => ValidationLooked
<1>1. ASSUME IInv, [Next]_vars, NEW l \in DOMAIN lists,
             ~lists[l].validated, lists'[l].validated
      PROVE  \E r \in Requests :
               /\ pc[r] = "validate" /\ held[r].id = l
               /\ \A i \in ItemsOfList(l) :
                    Unsure(items[i]) => <<i, items[i]>> \notin held[r].seen
  <2>1. PICK r \in Requests : ValidateList(r)
    BY <1>1, OnlyValidateUnlocks
  <2>2. pc[r] = "validate" /\ lists' = [lists EXCEPT ![held[r].id].validated = TRUE]
    BY <2>1 DEF ValidateList, At
  <2>3. held[r].id = l
    BY <1>1, <2>2 DEF IInv, ListsInv
  <2>4. \A seen \in held[r].seen : ~Unsure(seen[2])
    BY <1>1, <2>2 DEF IInv, RequestsInv, HoldsGood, ListSteps
  <2> QED
    BY <2>2, <2>3, <2>4
<1>2. IInv /\ [Next]_vars => [UnlockedAfterALook]_vars
  BY <1>1 DEF UnlockedAfterALook
<1> QED
  BY <1>2, Invariance, PTL DEF Spec, ValidationLooked

----------------------------------------------------------------------------
(* What becomes of a paste.  Each list has at most one request that saves    *)
(* its items, and that request has saved the first of its drafts and holds   *)
(* the others; a list that was answered has them all.                       *)
PasteOf(l)  == pasted[l].paste
DraftsOf(l) == BuildItems(PasteOf(l).kind, PasteOf(l).raw)

Writes(r, l) == pc[r] = "saveItems" /\ held[r].id = l

(* The first k drafts of list l are saved and request r holds the others.   *)
Midway(r, l, k) ==
  /\ held[r].left = SubSeq(DraftsOf(l), k + 1, Len(DraftsOf(l)))
  /\ WordsSaved(l) = WordsOf(SubSeq(DraftsOf(l), 1, k))

OfItsPaste(row) ==
  /\ row.list \in DOMAIN pasted
  /\ ~row.quick =>
       /\ pasted[row.list] \in PastedRows
       /\ \E n \in DOMAIN DraftsOf(row.list) : row.draft = DraftsOf(row.list)[n]

BornInv == \A i \in DOMAIN born : OfItsPaste(born[i])

(* Its request has saved the first of its drafts and holds the others.      *)
WriterGood(r, l) ==
  ~pasted[l].told /\ \E k \in 0 .. Len(DraftsOf(l)) - 1 : Midway(r, l, k)

WritersInv ==
  \A l \in DOMAIN pasted, r \in Requests : Writes(r, l) =>
    WriterGood(r, l) /\ \A q \in Requests : Writes(q, l) => q = r

ToldGood(l) ==
  pasted[l].told => pasted[l] \in PastedRows /\ WordsSaved(l) = WordsIn(PasteOf(l).raw)

ToldInv == \A l \in DOMAIN pasted : ToldGood(l)

PasteInv == BornInv /\ WritersInv /\ ToldInv

LEMMA PasteTyped ==
  ASSUME NEW l, pasted[l] \in PastedRows
  PROVE  /\ PasteOf(l).kind \in Kinds /\ PasteOf(l).raw \in Texts
         /\ DraftsOf(l) \in Seq(Drafts)
<1>1. PasteOf(l) \in Pastes
  BY DEF PastedRows, PasteOf
<1>2. PasteOf(l).kind \in Kinds /\ PasteOf(l).raw \in Texts
  BY <1>1, ListsAssumption DEF Texts
<1> QED
  BY <1>2, BuildItemsTyped DEF DraftsOf

(* The words an item adds to those saved of list l.                         *)
WordsAdded(l, row)   == IF row.list = l /\ ~row.quick THEN WordsIn(row.draft.text) ELSE <<>>
WordsSavedIn(l, all) == FlattenSeq([i \in DOMAIN all |-> WordsAdded(l, all[i])])

LEMMA AddedTyped ==
  ASSUME NEW l, NEW row \in BornRows
  PROVE  WordsAdded(l, row) \in Seq(Words)
<1>1. row.draft.text \in Texts
  BY DEF BornRows, Drafts
<1>2. WordsIn(row.draft.text) \in Seq(Words) /\ <<>> \in Seq(Words)
  BY <1>1, WordsInTyped
<1> QED
  BY <1>2 DEF WordsAdded

LEMMA SavedTyped ==
  ASSUME NEW all \in Seq(BornRows), NEW l
  PROVE  /\ [i \in DOMAIN all |-> WordsAdded(l, all[i])] \in Seq(Seq(Words))
         /\ WordsSavedIn(l, all) \in Seq(Words)
<1>1. \A i \in DOMAIN all : WordsAdded(l, all[i]) \in Seq(Words)
  BY AddedTyped
<1>2. DOMAIN all = 1 .. Len(all) /\ Len(all) \in Nat
  OBVIOUS
<1>3. [i \in DOMAIN all |-> WordsAdded(l, all[i])] \in Seq(Seq(Words))
  BY <1>1, <1>2
<1> QED
  BY <1>3, FlattenTyped DEF WordsSavedIn

LEMMA SavedAppend ==
  ASSUME NEW all \in Seq(BornRows), NEW row \in BornRows, NEW l
  PROVE  WordsSavedIn(l, Append(all, row)) = WordsSavedIn(l, all) \o WordsAdded(l, row)
<1> DEFINE last == Len(all)
           more == Append(all, row)
           before == [i \in DOMAIN all |-> WordsAdded(l, all[i])]
           added == WordsAdded(l, row)
           after == [i \in DOMAIN more |-> WordsAdded(l, more[i])]
           other == Append(before, added)
<1>1. /\ more \in Seq(BornRows) /\ Len(more) = last + 1 /\ last \in Nat
      /\ more[last + 1] = row
      /\ \A i \in 1 .. last : more[i] = all[i]
  OBVIOUS
<1>2. DOMAIN more = 1 .. last + 1 /\ DOMAIN all = 1 .. last
  BY <1>1
<1> HIDE DEF more
<1>3. before \in Seq(Seq(Words)) /\ after \in Seq(Seq(Words)) /\ added \in Seq(Words)
  BY <1>1, SavedTyped, AddedTyped
<1>4. Len(before) = last /\ \A i \in 1 .. last : before[i] = WordsAdded(l, all[i])
  BY <1>1, <1>2
<1>5. Len(after) = last + 1 /\ \A i \in 1 .. last + 1 : after[i] = WordsAdded(l, more[i])
  BY <1>1, <1>2
<1> HIDE DEF before, after, added
<1>6. /\ other \in Seq(Seq(Words)) /\ Len(other) = last + 1
      /\ other[last + 1] = added
      /\ \A i \in 1 .. last : other[i] = before[i]
  BY <1>3, <1>4
<1> HIDE DEF other, last
<1>7. \A i \in 1 .. last + 1 : after[i] = other[i]
  <2> TAKE i \in 1 .. last + 1
  <2>1. CASE i = last + 1
    BY <1>1, <1>5, <1>6, <2>1 DEF added
  <2>2. CASE i # last + 1
    <3>1. i \in 1 .. last
      BY <1>1, <2>2
    <3> QED
      BY <1>1, <1>4, <1>5, <1>6, <3>1
  <2> QED
    BY <2>1, <2>2
<1>8. after = other
  BY <1>3, <1>5, <1>6, <1>7
<1>9. FlattenSeq(other) = FlattenSeq(before) \o added
  BY <1>3, FlattenAppend DEF other
<1> QED
  BY <1>8, <1>9 DEF WordsSavedIn, after, before, added, more

LEMMA SavedNothing ==
  ASSUME NEW all \in Seq(BornRows), NEW l, \A i \in DOMAIN all : all[i].list # l
  PROVE  WordsSavedIn(l, all) = <<>>
<1> DEFINE texts == [i \in DOMAIN all |-> WordsAdded(l, all[i])]
<1>1. texts \in Seq(Seq(Words))
  BY SavedTyped
<1>2. \A i \in DOMAIN texts : texts[i] = <<>>
  BY DEF WordsAdded
<1> HIDE DEF texts
<1> QED
  BY <1>1, <1>2, NoWordsJoined DEF WordsSavedIn, texts

LEMMA SavedIsBorn == \A l : WordsSaved(l) = WordsSavedIn(l, born)
BY DEF WordsSaved, WordsSavedIn, WordsAdded

LEMMA SavedIsBornNext == \A l : WordsSaved(l)' = WordsSavedIn(l, born')
BY DEF WordsSaved, WordsSavedIn, WordsAdded

(* An item that is not of list l adds nothing to it.                        *)
LEMMA OthersSaved ==
  ASSUME born \in Seq(BornRows), NEW row \in BornRows, born' = Append(born, row),
         NEW l, row.list # l \/ row.quick
  PROVE  WordsSaved(l)' = WordsSaved(l)
<1>1. WordsSaved(l)' = WordsSavedIn(l, born) \o WordsAdded(l, row)
  BY SavedAppend, SavedIsBornNext
<1>2. WordsAdded(l, row) = <<>>
  BY DEF WordsAdded
<1>3. WordsSavedIn(l, born) \in Seq(Words)
  BY SavedTyped
<1>4. WordsSavedIn(l, born) \o <<>> = WordsSavedIn(l, born)
  BY <1>3
<1> QED
  BY <1>1, <1>2, <1>4, SavedIsBorn

(* A paste stays what it was; whether it was answered may change.           *)
SamePaste(l) ==
  /\ l \in DOMAIN pasted'
  /\ pasted[l] \in PastedRows => pasted'[l] \in PastedRows
  /\ pasted'[l] \in PastedRows => pasted[l] \in PastedRows
  /\ pasted[l] \in PastedRows => PasteOf(l)' = PasteOf(l) /\ DraftsOf(l)' = DraftsOf(l)

LEMMA PasteKept ==
  ASSUME NEW l \in DOMAIN pasted, l \in DOMAIN pasted', pasted'[l] = pasted[l]
  PROVE  SamePaste(l)
BY DEF SamePaste, PasteOf, DraftsOf

LEMMA StillOfItsPaste ==
  ASSUME NEW row, OfItsPaste(row), \A l \in DOMAIN pasted : SamePaste(l)
  PROVE  OfItsPaste(row)'
<1> DEFINE l == row.list
<1>1. l \in DOMAIN pasted /\ SamePaste(l)
  BY DEF OfItsPaste
<1>2. l \in DOMAIN pasted'
  BY <1>1 DEF SamePaste
<1>3. ~row.quick =>
        /\ pasted'[l] \in PastedRows
        /\ DraftsOf(l)' = DraftsOf(l)
        /\ \E n \in DOMAIN DraftsOf(l) : row.draft = DraftsOf(l)[n]
  BY <1>1 DEF OfItsPaste, SamePaste
<1> QED
  BY <1>2, <1>3 DEF OfItsPaste

LEMMA BornStays ==
  ASSUME BornInv, born' = born, \A l \in DOMAIN pasted : SamePaste(l)
  PROVE  BornInv'
<1> SUFFICES ASSUME NEW i \in DOMAIN born
             PROVE  OfItsPaste(born[i])'
  BY DEF BornInv
<1>1. PICK row : row = born[i]
  OBVIOUS
<1>2. OfItsPaste(row)'
  BY <1>1, StillOfItsPaste DEF BornInv
<1>3. row = born'[i]
  BY <1>1
<1> QED
  BY <1>2, <1>3 DEF OfItsPaste, DraftsOf, PasteOf

LEMMA BornGrows ==
  ASSUME BornInv, born \in Seq(BornRows), NEW row \in BornRows, born' = Append(born, row),
         \A l \in DOMAIN pasted : SamePaste(l), OfItsPaste(row)'
  PROVE  BornInv'
<1> SUFFICES ASSUME NEW i \in DOMAIN born'
             PROVE  OfItsPaste(born[i])'
  BY DEF BornInv
<1>1. PICK each : each = born'[i]
  OBVIOUS
<1>2. OfItsPaste(each)'
  <2>1. CASE i \in DOMAIN born
    <3>1. each = born[i]
      BY <1>1, <2>1
    <3>2. OfItsPaste(each)
      BY <2>1, <3>1 DEF BornInv
    <3> QED
      BY <3>2, StillOfItsPaste
  <2>2. CASE i \notin DOMAIN born
    <3>1. each = row
      BY <1>1, <2>2
    <3> QED
      BY <3>1
  <2> QED
    BY <2>1, <2>2
<1> QED
  BY <1>1, <1>2 DEF OfItsPaste, DraftsOf, PasteOf

(* A list of which no request saves an item.                                *)
Untouched(l) ==
  /\ SamePaste(l)
  /\ WordsSaved(l)' = WordsSaved(l)
  /\ pasted'[l].told = pasted[l].told

LEMMA WriterStillGood ==
  ASSUME NEW l, NEW q, WriterGood(q, l), Untouched(l), pasted[l] \in PastedRows,
         held'[q] = held[q]
  PROVE  WriterGood(q, l)'
<1>1. PICK k \in 0 .. Len(DraftsOf(l)) - 1 : Midway(q, l, k)
  BY DEF WriterGood
<1>2. DraftsOf(l)' = DraftsOf(l) /\ WordsSaved(l)' = WordsSaved(l) /\ pasted'[l].told = pasted[l].told
  BY DEF Untouched, SamePaste
<1>3. Midway(q, l, k)'
  BY <1>1, <1>2 DEF Midway
<1> QED
  BY <1>1, <1>2, <1>3 DEF WriterGood

LEMMA StillTold ==
  ASSUME NEW l, ToldGood(l), Untouched(l)
  PROVE  ToldGood(l)'
BY DEF ToldGood, Untouched, SamePaste

LEMMA WriterHolds ==
  ASSUME IInv, NEW r \in Requests, NEW l, Writes(r, l)
  PROVE  /\ l \in DOMAIN pasted /\ l \in DOMAIN lists /\ pasted[l] \in PastedRows
         /\ held[r] \in Holds
<1>1. HoldsGood(r) /\ held[r] \in Holds
  BY DEF IInv, RequestsInv
<1>2. l \in DOMAIN lists /\ pasted[l] \in PastedRows
  BY <1>1 DEF HoldsGood, ListSteps, Writes
<1>3. DOMAIN pasted = DOMAIN lists
  BY DEF IInv, ListsInv
<1> QED
  BY <1>1, <1>2, <1>3

NoNewWriter ==
  \A q \in Requests : pc'[q] = "saveItems" => pc[q] = "saveItems" /\ held'[q] = held[q]

LEMMA QuietStep ==
  ASSUME IInv, PasteInv, NoNewWriter, \A l \in DOMAIN pasted : Untouched(l),
         \A l \in DOMAIN pasted' \ DOMAIN pasted : ~pasted'[l].told
  PROVE  WritersInv' /\ ToldInv'
<1>1. ASSUME NEW r \in Requests, NEW l, Writes(r, l)'
      PROVE  Writes(r, l) /\ held'[r] = held[r] /\ l \in DOMAIN pasted /\ pasted[l] \in PastedRows
  <2>1. Writes(r, l) /\ held'[r] = held[r]
    BY <1>1 DEF Writes, NoNewWriter
  <2> QED
    BY <2>1, WriterHolds
<1>2. ASSUME NEW l \in DOMAIN pasted', NEW r \in Requests, Writes(r, l)'
      PROVE  WriterGood(r, l)' /\ \A q \in Requests : Writes(q, l)' => q = r
  <2>1. Writes(r, l) /\ held'[r] = held[r] /\ l \in DOMAIN pasted /\ pasted[l] \in PastedRows
    BY <1>1, <1>2
  <2>2. WriterGood(r, l) /\ \A q \in Requests : Writes(q, l) => q = r
    BY <2>1 DEF PasteInv, WritersInv
  <2>3. WriterGood(r, l)'
    BY <2>1, <2>2, WriterStillGood
  <2> QED
    BY <1>1, <2>2, <2>3
<1>3. ASSUME NEW l \in DOMAIN pasted'
      PROVE  ToldGood(l)'
  <2>1. CASE l \in DOMAIN pasted
    BY <2>1, StillTold DEF PasteInv, ToldInv
  <2>2. CASE l \notin DOMAIN pasted
    BY <2>2 DEF ToldGood
  <2> QED
    BY <2>1, <2>2
<1> QED
  BY <1>2, <1>3 DEF WritersInv, ToldInv

(* A step that neither pastes nor adds an item.                             *)
LEMMA BystanderStep ==
  ASSUME IInv, PasteInv, NoNewWriter, UNCHANGED <<pasted, born>>
  PROVE  PasteInv'
<1>1. \A l \in DOMAIN pasted : SamePaste(l)
  BY PasteKept
<1>2. \A l : WordsSaved(l)' = WordsSaved(l)
  BY SavedIsBorn, SavedIsBornNext
<1>3. \A l \in DOMAIN pasted : Untouched(l)
  BY <1>1, <1>2 DEF Untouched
<1>4. BornInv'
  BY <1>1, BornStays DEF PasteInv
<1>5. WritersInv' /\ ToldInv'
  BY <1>3, QuietStep
<1> QED
  BY <1>4, <1>5 DEF PasteInv

LEMMA NoWriter ==
  ASSUME RequestsInv, NEW r \in Requests, NEW step, step # "saveItems", NEW hold,
         GoesOn(r, step, hold)
  PROVE  NoNewWriter
BY DEF RequestsInv, GoesOn, NoNewWriter

LEMMA NoWriterEnds ==
  ASSUME RequestsInv, NEW r \in Requests, Ends(r)
  PROVE  NoNewWriter
BY NoWriter DEF Ends

LEMMA NoWriterStays ==
  ASSUME NEW r \in Requests, Stays(r)
  PROVE  NoNewWriter
BY DEF Stays, NoNewWriter

LEMMA CreateQuickListPaste ==
  ASSUME IInv, PasteInv, NEW r \in Requests, CreateQuickList(r)
  PROVE  PasteInv'
<1>1. PICK api \in BOOLEAN :
        /\ IF api /\ ApiList # {}
           THEN Ends(r) /\ UNCHANGED <<lists, pasted>>
           ELSE /\ pasted' = Append(pasted, [told |-> FALSE])
                /\ GoesOn(r, IF api THEN "saveQuickApi" ELSE "saveQuick",
                     [Nothing EXCEPT !.id = Len(lists) + 1])
        /\ UNCHANGED born
  BY DEF CreateQuickList
<1>2. CASE api /\ ApiList # {}
  <2>1. NoNewWriter
    BY <1>1, <1>2, NoWriterEnds DEF IInv
  <2> QED
    BY <1>1, <1>2, <2>1, BystanderStep
<1>3. CASE ~(api /\ ApiList # {})
  <2>1. pasted' = Append(pasted, [told |-> FALSE])
    BY <1>1, <1>3
  <2>2. NoNewWriter
    BY <1>1, <1>3, NoWriter DEF IInv
  <2>3. pasted \in Seq(PastedRows \union MadeRows)
    BY DEF IInv, ListsInv
  <2>4. /\ \A l \in DOMAIN pasted : l \in DOMAIN pasted' /\ pasted'[l] = pasted[l]
        /\ \A l \in DOMAIN pasted' \ DOMAIN pasted : pasted'[l] = [told |-> FALSE]
    BY <2>1, <2>3
  <2>5. \A l \in DOMAIN pasted : SamePaste(l)
    BY <2>4, PasteKept
  <2>6. \A l : WordsSaved(l)' = WordsSaved(l)
    BY <1>1, SavedIsBorn, SavedIsBornNext
  <2>7. \A l \in DOMAIN pasted : Untouched(l)
    BY <2>4, <2>5, <2>6 DEF Untouched
  <2>8. BornInv'
    BY <1>1, <2>5, BornStays DEF PasteInv
  <2>9. WritersInv' /\ ToldInv'
    BY <2>2, <2>4, <2>7, QuietStep
  <2> QED
    BY <2>8, <2>9 DEF PasteInv
<1> QED
  BY <1>2, <1>3

LEMMA SaveQuickWordPaste ==
  ASSUME IInv, PasteInv, NEW r \in Requests, SaveQuickWord(r)
  PROVE  PasteInv'
<1>1. PICK step \in {"saveQuick", "saveQuickApi"}, text \in Typed :
        /\ At(r, step) /\ Ends(r) /\ UNCHANGED <<lists, pasted>>
        /\ IF QuickDrafts(step, text) = <<>>
           THEN UNCHANGED born
           ELSE SaveQuick(held[r].id, Head(QuickDrafts(step, text)))
  BY DEF SaveQuickWord
<1>2. NoNewWriter
  BY <1>1, NoWriterEnds DEF IInv
<1> DEFINE drafts == QuickDrafts(step, text)
<1>3. drafts \in Seq(Drafts)
  BY QuickDraftsTyped
<1> HIDE DEF drafts
<1>4. CASE drafts = <<>>
  <2>1. UNCHANGED <<pasted, born>>
    BY <1>1, <1>4 DEF drafts
  <2> QED
    BY <1>2, <2>1, BystanderStep
<1>5. CASE drafts # <<>>
  <2>1. held[r].id \in DOMAIN pasted /\ DOMAIN pasted \in SUBSET Nat
    BY <1>1 DEF At, IInv, RequestsInv, HoldsGood, ListSteps, ListsInv
  <2>2. PICK row : row = [list |-> held[r].id, draft |-> Head(drafts), quick |-> TRUE]
    OBVIOUS
  <2>3. Head(drafts) \in Drafts
    BY <1>3, <1>5
  <2>4. row \in BornRows /\ row.quick /\ row.list \in DOMAIN pasted
    BY <2>1, <2>2, <2>3 DEF BornRows
  <2>5. born' = Append(born, row)
    BY <1>1, <1>5, <2>2 DEF SaveQuick, drafts
  <2>6. born \in Seq(BornRows)
    BY DEF IInv, ItemsInv
  <2>7. \A l \in DOMAIN pasted : SamePaste(l)
    BY <1>1, PasteKept
  <2>8. \A l : WordsSaved(l)' = WordsSaved(l)
    BY <2>4, <2>5, <2>6, OthersSaved
  <2>9. \A l \in DOMAIN pasted : Untouched(l)
    BY <1>1, <2>7, <2>8 DEF Untouched
  <2>10. OfItsPaste(row)'
    BY <1>1, <2>4 DEF OfItsPaste
  <2>11. BornInv'
    BY <2>4, <2>5, <2>6, <2>7, <2>10, BornGrows DEF PasteInv
  <2>12. WritersInv' /\ ToldInv'
    BY <1>1, <1>2, <2>9, QuietStep
  <2> QED
    BY <2>11, <2>12 DEF PasteInv
<1> QED
  BY <1>4, <1>5

(* A paste begins with nothing saved and all its drafts left.               *)
LEMMA PasteListPaste ==
  ASSUME IInv, PasteInv, NEW r \in Requests, PasteList(r)
  PROVE  PasteInv'
<1>0. PICK paste \in Pastes :
        LET drafts == BuildItems(paste.kind, paste.raw)
        IN /\ drafts # <<>>
           /\ pasted' = Append(pasted, [paste |-> paste, told |-> FALSE])
           /\ GoesOn(r, "saveItems", [Nothing EXCEPT !.id = Len(lists) + 1, !.left = drafts])
  BY DEF PasteList
<1> DEFINE drafts == BuildItems(paste.kind, paste.raw)
<1>1. /\ drafts = BuildItems(paste.kind, paste.raw) /\ drafts # <<>>
      /\ pasted' = Append(pasted, [paste |-> paste, told |-> FALSE])
      /\ GoesOn(r, "saveItems", [Nothing EXCEPT !.id = Len(lists) + 1, !.left = drafts])
  BY <1>0
<1> HIDE DEF drafts
<1>2. pc[r] = "idle" /\ UNCHANGED born
  BY DEF PasteList, Arrives
<1>3. /\ pasted \in Seq(PastedRows \union MadeRows) /\ Len(pasted) = Len(lists)
      /\ lists \in Seq(ListRows) /\ born \in Seq(BornRows)
  BY DEF IInv, ListsInv, ItemsInv
<1>4. PICK new : new = Len(lists) + 1
  OBVIOUS
<1>5. /\ new \in Nat /\ new \notin DOMAIN pasted /\ DOMAIN pasted' = DOMAIN pasted \union {new}
      /\ \A l \in DOMAIN pasted : pasted'[l] = pasted[l]
      /\ pasted'[new] = [paste |-> paste, told |-> FALSE]
  BY <1>1, <1>3, <1>4
<1>6. PasteOf(new)' = paste /\ DraftsOf(new)' = drafts /\ ~pasted'[new].told
  BY <1>1, <1>5 DEF PasteOf, DraftsOf
<1>7. drafts \in Seq(Drafts)
  BY <1>1, BuildItemsTyped, ListsAssumption DEF Texts
<1>8. \A l \in DOMAIN pasted : SamePaste(l)
  BY <1>5, PasteKept
<1>9. \A l : WordsSaved(l)' = WordsSaved(l)
  BY <1>2, SavedIsBorn, SavedIsBornNext
<1>10. \A l \in DOMAIN pasted : Untouched(l)
  BY <1>5, <1>8, <1>9 DEF Untouched
<1>11. BornInv'
  BY <1>2, <1>8, BornStays DEF PasteInv
<1>12. WordsSaved(new)' = <<>>
  <2>1. \A i \in DOMAIN born : born[i].list # new
    BY <1>5 DEF PasteInv, BornInv, OfItsPaste
  <2> QED
    BY <1>3, <1>9, <2>1, SavedNothing, SavedIsBorn
<1>13. /\ pc'[r] = "saveItems" /\ held'[r].id = new /\ held'[r].left = drafts
       /\ \A q \in Requests \ {r} : pc'[q] = pc[q] /\ held'[q] = held[q]
  BY <1>1, <1>4 DEF GoesOn, IInv, RequestsInv, Nothing
<1>14. WriterGood(r, new)'
  <2>1. Len(drafts) - 1 \in Nat /\ 0 \in 0 .. Len(drafts) - 1
    BY <1>1, <1>7
  <2>2. SubSeq(drafts, 0 + 1, Len(drafts)) = drafts /\ SubSeq(drafts, 1, 0) = <<>>
    BY <1>7
  <2>3. Midway(r, new, 0)'
    BY <1>6, <1>12, <1>13, <2>2, NoDrafts DEF Midway
  <2> QED
    BY <1>6, <2>1, <2>3 DEF WriterGood
<1>15. ASSUME NEW q \in Requests, NEW l, Writes(q, l)', q # r
       PROVE  /\ Writes(q, l) /\ held'[q] = held[q]
              /\ l \in DOMAIN pasted /\ pasted[l] \in PastedRows
  <2>1. Writes(q, l) /\ held'[q] = held[q]
    BY <1>13, <1>15 DEF Writes
  <2> QED
    BY <2>1, WriterHolds
<1>16. ASSUME NEW q \in Requests, NEW l \in DOMAIN pasted', Writes(q, l)'
       PROVE  WriterGood(q, l)' /\ \A s \in Requests : Writes(s, l)' => s = q
  <2>1. CASE q = r
    <3>1. l = new
      BY <1>13, <1>16, <2>1 DEF Writes
    <3>2. \A s \in Requests : Writes(s, l)' => s = q
      BY <1>5, <1>15, <2>1, <3>1
    <3> QED
      BY <1>14, <2>1, <3>1, <3>2
  <2>2. CASE q # r
    <3>1. /\ Writes(q, l) /\ held'[q] = held[q]
          /\ l \in DOMAIN pasted /\ pasted[l] \in PastedRows
      BY <1>15, <1>16, <2>2
    <3>2. WriterGood(q, l) /\ \A s \in Requests : Writes(s, l) => s = q
      BY <3>1 DEF PasteInv, WritersInv
    <3>3. WriterGood(q, l)'
      BY <1>10, <3>1, <3>2, WriterStillGood
    <3>4. ASSUME NEW s \in Requests, Writes(s, l)'
          PROVE  s = q
      <4>1. s # r
        BY <1>5, <1>13, <3>1, <3>4 DEF Writes
      <4> QED
        BY <1>15, <3>2, <3>4, <4>1
    <3> QED
      BY <3>3, <3>4
  <2> QED
    BY <2>1, <2>2
<1>17. ASSUME NEW l \in DOMAIN pasted'
       PROVE  ToldGood(l)'
  <2>1. CASE l \in DOMAIN pasted
    BY <1>10, <2>1, StillTold DEF PasteInv, ToldInv
  <2>2. CASE l \notin DOMAIN pasted
    BY <1>5, <1>6, <2>2 DEF ToldGood
  <2> QED
    BY <2>1, <2>2
<1> QED
  BY <1>11, <1>16, <1>17 DEF PasteInv, WritersInv, ToldInv

LEMMA NextOfLeft ==
  ASSUME NEW drafts \in Seq(Drafts), NEW k \in 0 .. Len(drafts) - 1
  PROVE  /\ Head(SubSeq(drafts, k + 1, Len(drafts))) = drafts[k + 1]
         /\ Len(SubSeq(drafts, k + 1, Len(drafts))) = Len(drafts) - k
         /\ Tail(SubSeq(drafts, k + 1, Len(drafts))) = SubSeq(drafts, k + 1 + 1, Len(drafts))
         /\ SubSeq(drafts, 1, k) \in Seq(Drafts)
         /\ SubSeq(drafts, 1, k + 1) = Append(SubSeq(drafts, 1, k), drafts[k + 1])
         /\ drafts[k + 1] \in Drafts /\ k + 1 \in DOMAIN drafts
<1>1. Len(drafts) \in Nat /\ k \in Nat /\ k + 1 <= Len(drafts)
  OBVIOUS
<1>2. k + 1 \in DOMAIN drafts /\ drafts[k + 1] \in Drafts
  BY <1>1
<1> DEFINE left == SubSeq(drafts, k + 1, Len(drafts))
<1>3. left \in Seq(Drafts) /\ Len(left) = Len(drafts) - k /\ \A n \in 1 .. Len(drafts) - k : left[n] = drafts[n + k]
  BY <1>1
<1>4. Head(left) = drafts[k + 1]
  BY <1>1, <1>3
<1>5. Tail(left) = SubSeq(drafts, k + 1 + 1, Len(drafts))
  BY <1>1
<1>6. SubSeq(drafts, 1, k) \in Seq(Drafts)
  BY <1>1
<1>7. SubSeq(drafts, 1, k + 1) = Append(SubSeq(drafts, 1, k), drafts[k + 1])
  BY <1>1
<1> QED
  BY <1>2, <1>3, <1>4, <1>5, <1>6, <1>7

(* The next draft is saved: the words of the list grow by its words.        *)
LEMMA SaveNextItemPaste ==
  ASSUME IInv, PasteInv, NEW r \in Requests, SaveNextItem(r)
  PROVE  PasteInv'
<1>1. PICK l : l = held[r].id
  OBVIOUS
<1>2. pc[r] = "saveItems" /\ Writes(r, l)
  BY <1>1 DEF SaveNextItem, At, Writes
<1>3. l \in DOMAIN pasted /\ l \in DOMAIN lists /\ pasted[l] \in PastedRows /\ held[r] \in Holds
  BY <1>2, WriterHolds
<1>4. WriterGood(r, l) /\ \A q \in Requests : Writes(q, l) => q = r
  BY <1>2, <1>3 DEF PasteInv, WritersInv
<1>5. PICK drafts : drafts = DraftsOf(l)
  OBVIOUS
<1>6. drafts \in Seq(Drafts) /\ PasteOf(l).kind \in Kinds /\ PasteOf(l).raw \in Texts
  BY <1>3, <1>5, PasteTyped
<1>7. PICK k \in 0 .. Len(drafts) - 1 :
        /\ held[r].left = SubSeq(drafts, k + 1, Len(drafts))
        /\ WordsSaved(l) = WordsOf(SubSeq(drafts, 1, k))
  BY <1>4, <1>5 DEF WriterGood, Midway
<1>8. ~pasted[l].told
  BY <1>4 DEF WriterGood
<1>9. PICK row : row = [list |-> l, draft |-> drafts[k + 1], quick |-> FALSE]
  OBVIOUS
<1>10. row.list = l /\ row.draft = drafts[k + 1] /\ row.quick = FALSE
  BY <1>9
<1>11. /\ pasted \in Seq(PastedRows \union MadeRows) /\ born \in Seq(BornRows)
       /\ l \in Nat
  BY <1>3 DEF IInv, ListsInv, ItemsInv
<1>12. row \in BornRows
  BY <1>6, <1>9, <1>11, NextOfLeft DEF BornRows
<1>13. born' = Append(born, row)
  BY <1>1, <1>6, <1>7, <1>9, NextOfLeft DEF SaveNextItem
<1>14. PICK more : more = Len(held[r].left)
  OBVIOUS
<1>15. more = Len(drafts) - k /\ Len(drafts) \in Nat
  BY <1>6, <1>7, <1>14, NextOfLeft
<1>16. /\ pasted' = IF more > 1 THEN pasted ELSE [pasted EXCEPT ![l].told = TRUE]
       /\ IF more > 1 THEN GoesOn(r, "saveItems", [held[r] EXCEPT !.left = Tail(@)]) ELSE Ends(r)
  BY <1>1, <1>14 DEF SaveNextItem
<1>17. /\ DOMAIN pasted' = DOMAIN pasted
       /\ \A m \in DOMAIN pasted : m # l => pasted'[m] = pasted[m]
       /\ pasted'[l] \in PastedRows /\ pasted'[l].paste = pasted[l].paste
       /\ more > 1 => ~pasted'[l].told
  <2>1. CASE more > 1
    BY <1>3, <1>8, <1>15, <1>16, <2>1 DEF PastedRows
  <2>2. CASE ~(more > 1)
    <3>1. pasted' = [pasted EXCEPT ![l].told = TRUE]
      BY <1>16, <2>2
    <3>2. pasted'[l] = [pasted[l] EXCEPT !.told = TRUE]
      BY <1>3, <1>11, <3>1
    <3>3. DOMAIN pasted' = DOMAIN pasted /\ \A m \in DOMAIN pasted : m # l => pasted'[m] = pasted[m]
      BY <1>3, <1>11, <3>1
    <3> QED
      BY <1>3, <1>15, <2>2, <3>2, <3>3 DEF PastedRows
  <2> QED
    BY <2>1, <2>2
<1>18. PasteOf(l)' = PasteOf(l) /\ DraftsOf(l)' = drafts
  BY <1>5, <1>17 DEF PasteOf, DraftsOf
<1>19. \A m \in DOMAIN pasted : SamePaste(m)
  <2>1. SamePaste(l)
    BY <1>3, <1>5, <1>17, <1>18 DEF SamePaste
  <2> QED
    BY <1>17, <2>1, PasteKept
<1>20. ASSUME NEW m \in DOMAIN pasted, m # l
       PROVE  Untouched(m)
  <2>1. WordsSaved(m)' = WordsSaved(m)
    BY <1>10, <1>11, <1>12, <1>13, <1>20, OthersSaved
  <2> QED
    BY <1>17, <1>19, <1>20, <2>1 DEF Untouched
<1>21. WordsSaved(l)' = WordsOf(SubSeq(drafts, 1, k + 1))
  <2>1. WordsSaved(l)' = WordsSaved(l) \o WordsIn(drafts[k + 1].text)
    <3>1. WordsSaved(l)' = WordsSavedIn(l, born) \o WordsAdded(l, row)
      BY <1>11, <1>12, <1>13, SavedAppend, SavedIsBornNext
    <3>2. WordsAdded(l, row) = WordsIn(drafts[k + 1].text)
      BY <1>10 DEF WordsAdded
    <3> QED
      BY <3>1, <3>2, SavedIsBorn
  <2>2. /\ SubSeq(drafts, 1, k) \in Seq(Drafts) /\ drafts[k + 1] \in Drafts
        /\ SubSeq(drafts, 1, k + 1) = Append(SubSeq(drafts, 1, k), drafts[k + 1])
    BY <1>6, NextOfLeft
  <2> QED
    BY <1>7, <2>1, <2>2, WordsOfAppend
<1>22. BornInv'
  <2>1. k + 1 \in DOMAIN drafts
    BY <1>6, NextOfLeft
  <2>2. OfItsPaste(row)'
    <3>1. DraftsOf(row.list)' = drafts
      BY <1>10, <1>18 DEF DraftsOf, PasteOf
    <3> QED
      BY <1>3, <1>10, <1>17, <2>1, <3>1 DEF OfItsPaste
  <2> QED
    BY <1>11, <1>12, <1>13, <1>19, <2>2, BornGrows DEF PasteInv
<1>23. ASSUME NEW q \in Requests \ {r}
       PROVE  pc'[q] = pc[q] /\ held'[q] = held[q]
  BY <1>16 DEF GoesOn, Ends, IInv, RequestsInv
<1>24. ASSUME NEW q \in Requests, NEW m, Writes(q, m)'
       PROVE  Writes(q, m)
  <2>1. CASE q = r
    <3>1. more > 1
      BY <1>16, <1>24, <2>1 DEF Ends, GoesOn, Writes, IInv, RequestsInv
    <3>2. held'[r].id = held[r].id
      BY <1>3, <1>16, <3>1 DEF GoesOn, IInv, RequestsInv, Holds
    <3> QED
      BY <1>2, <1>24, <2>1, <3>2 DEF Writes
  <2>2. CASE q # r
    BY <1>23, <1>24, <2>2 DEF Writes
  <2> QED
    BY <2>1, <2>2
<1>25. ASSUME NEW q \in Requests, NEW m \in DOMAIN pasted, Writes(q, m)'
       PROVE  WriterGood(q, m)'
  <2>1. Writes(q, m)
    BY <1>24, <1>25
  <2>2. CASE m = l
    <3>1. q = r /\ more > 1
      BY <1>4, <1>16, <1>25, <2>1, <2>2 DEF Ends, GoesOn, Writes, IInv, RequestsInv
    <3>2. held'[r].left = Tail(held[r].left)
      BY <1>3, <1>16, <3>1 DEF GoesOn, IInv, RequestsInv, Holds
    <3>3. Tail(held[r].left) = SubSeq(drafts, k + 1 + 1, Len(drafts))
      BY <1>6, <1>7, NextOfLeft
    <3>4. k + 1 \in 0 .. Len(drafts) - 1
      BY <1>15, <3>1
    <3>5. Midway(r, l, k + 1)'
      BY <1>18, <1>21, <3>2, <3>3 DEF Midway
    <3>6. ~pasted'[l].told
      BY <1>15, <1>17, <3>1
    <3> QED
      BY <1>18, <2>2, <3>1, <3>4, <3>5, <3>6 DEF WriterGood
  <2>3. CASE m # l
    <3>1. q # r
      BY <1>2, <2>1, <2>3 DEF Writes
    <3>2. pasted[m] \in PastedRows /\ WriterGood(q, m)
      BY <2>1, WriterHolds DEF PasteInv, WritersInv
    <3> QED
      BY <1>20, <1>23, <2>3, <3>1, <3>2, WriterStillGood
  <2> QED
    BY <2>2, <2>3
<1>26. WritersInv'
  <2>1. ASSUME NEW q \in Requests, NEW m \in DOMAIN pasted, Writes(q, m)', NEW s \in Requests, Writes(s, m)'
        PROVE  s = q
    BY <1>24, <2>1 DEF PasteInv, WritersInv
  <2> QED
    BY <1>17, <1>25, <2>1 DEF WritersInv
<1>27. ASSUME NEW m \in DOMAIN pasted
       PROVE  ToldGood(m)'
  <2>1. CASE m = l
    <3>1. CASE more > 1
      BY <1>17, <2>1, <3>1, <1>15 DEF ToldGood
    <3>2. CASE ~(more > 1)
      <4>1. k + 1 = Len(drafts) /\ drafts # <<>>
        BY <1>15, <3>2
      <4>2. SubSeq(drafts, 1, k + 1) = drafts
        BY <1>6, <4>1
      <4>3. WordsOf(drafts) = WordsIn(PasteOf(l).raw)
        BY <1>5, <1>6, <4>1, BuildItemsWhole DEF DraftsOf
      <4> QED
        BY <1>17, <1>18, <1>21, <2>1, <4>2, <4>3 DEF ToldGood
    <3> QED
      BY <3>1, <3>2
  <2>2. CASE m # l
    BY <1>20, <2>2, StillTold DEF PasteInv, ToldInv
  <2> QED
    BY <2>1, <2>2
<1> QED
  BY <1>17, <1>22, <1>26, <1>27 DEF PasteInv, ToldInv

(* The steps of requests that are about something else.                     *)
LEMMA OtherRequests ==
  ASSUME IInv, NEW r \in Requests,
         \/ OpenItem(r) \/ PatchItem(r) \/ ConfirmItem(r) \/ RemoveColour(r) \/ SaveItemAudio(r)
         \/ ReadItems(r) \/ ValidateList(r) \/ QuickWordList(r) \/ MesMotsList(r)
         \/ Generate(r) \/ SaveGenerated(r) \/ ManualSentence(r)
         \/ OpenSentence(r) \/ RegenerateSentence(r) \/ ApproveSentence(r) \/ SaveSentenceAudio(r)
         \/ Fail(r)
  PROVE  NoNewWriter /\ UNCHANGED <<pasted, born>>
<1>0. RequestsInv
  BY DEF IInv
<1>1. CASE \/ PatchItem(r) \/ ConfirmItem(r) \/ RemoveColour(r) \/ SaveItemAudio(r)
           \/ ValidateList(r) \/ RegenerateSentence(r) \/ ApproveSentence(r)
           \/ SaveSentenceAudio(r) \/ Fail(r)
  <2>1. Ends(r) /\ UNCHANGED <<pasted, born>>
    BY <1>1 DEF PatchItem, ConfirmItem, RemoveColour, SaveItemAudio, ValidateList,
         RegenerateSentence, ApproveSentence, SaveSentenceAudio, Fail, deeds
  <2> QED
    BY <1>0, <2>1, NoWriterEnds
<1>2. CASE OpenItem(r)
  <2>1. /\ \E step \in {"patch", "confirm", "colour", "itemAudio"} : \E hold : GoesOn(r, step, hold)
        /\ UNCHANGED <<pasted, born>>
    BY <1>2 DEF OpenItem, deeds
  <2> QED
    BY <1>0, <2>1, NoWriter
<1>3. CASE OpenSentence(r)
  <2>1. /\ \E step \in {"regenerate", "approve", "sentenceAudio"} : \E hold : GoesOn(r, step, hold)
        /\ UNCHANGED <<pasted, born>>
    BY <1>3 DEF OpenSentence, deeds
  <2> QED
    BY <1>0, <2>1, NoWriter
<1>4. CASE ReadItems(r)
  <2>1. /\ Stays(r) \/ \E hold : GoesOn(r, "validate", hold)
        /\ UNCHANGED <<pasted, born>>
    BY <1>4 DEF ReadItems, deeds
  <2> QED
    BY <1>0, <2>1, NoWriter, NoWriterStays
<1>5. CASE QuickWordList(r)
  <2>1. /\ (\E hold : GoesOn(r, "saveQuick", hold)) \/ GoesOn(r, "createQuick", Nothing)
        /\ UNCHANGED <<pasted, born>>
    BY <1>5 DEF QuickWordList, deeds
  <2> QED
    BY <1>0, <2>1, NoWriter
<1>6. CASE MesMotsList(r)
  <2>1. /\ (\E hold : GoesOn(r, "saveQuickApi", hold)) \/ GoesOn(r, "createApi", Nothing)
        /\ UNCHANGED <<pasted, born>>
    BY <1>6 DEF MesMotsList, deeds
  <2> QED
    BY <1>0, <2>1, NoWriter
<1>7. CASE Generate(r)
  <2>1. /\ Stays(r) \/ \E hold : GoesOn(r, "saveGenerated", hold)
        /\ UNCHANGED <<pasted, born>>
    BY <1>7 DEF Generate, deeds
  <2> QED
    BY <1>0, <2>1, NoWriter, NoWriterStays
<1>8. CASE SaveGenerated(r)
  <2>1. /\ Ends(r) \/ \E hold : GoesOn(r, "saveGenerated", hold)
        /\ UNCHANGED <<pasted, born>>
    BY <1>8 DEF SaveGenerated, deeds
  <2> QED
    BY <1>0, <2>1, NoWriter, NoWriterEnds
<1>9. CASE ManualSentence(r)
  <2>1. Stays(r) /\ UNCHANGED <<pasted, born>>
    BY <1>9 DEF ManualSentence
  <2> QED
    BY <2>1, NoWriterStays
<1> QED
  BY <1>1, <1>2, <1>3, <1>4, <1>5, <1>6, <1>7, <1>8, <1>9

LEMMA StepPasteInv ==
  ASSUME IInv, PasteInv, [Next]_vars
  PROVE  PasteInv'
<1>1. CASE UNCHANGED vars
  <2>1. UNCHANGED <<pc, held, pasted, born>>
    BY <1>1 DEF vars, deeds
  <2> QED
    BY <2>1, BystanderStep DEF NoNewWriter
<1>2. ASSUME NEW r \in Requests,
             PasteList(r) \/ SaveNextItem(r) \/ CreateQuickList(r) \/ SaveQuickWord(r)
      PROVE  PasteInv'
  BY <1>2, PasteListPaste, SaveNextItemPaste, CreateQuickListPaste, SaveQuickWordPaste
<1>3. ASSUME NEW r \in Requests,
             \/ OpenItem(r) \/ PatchItem(r) \/ ConfirmItem(r) \/ RemoveColour(r) \/ SaveItemAudio(r)
             \/ ReadItems(r) \/ ValidateList(r) \/ QuickWordList(r) \/ MesMotsList(r)
             \/ Generate(r) \/ SaveGenerated(r) \/ ManualSentence(r)
             \/ OpenSentence(r) \/ RegenerateSentence(r) \/ ApproveSentence(r)
             \/ SaveSentenceAudio(r) \/ Fail(r)
      PROVE  PasteInv'
  BY <1>3, OtherRequests, BystanderStep
<1> QED
  BY <1>1, <1>2, <1>3 DEF Next

THEOREM PasteInvariance == Spec => []PasteInv
<1>1. Init => PasteInv
  BY DEF Init, PasteInv, BornInv, WritersInv, ToldInv
<1>2. IInv /\ PasteInv /\ [Next]_vars => PasteInv'
  BY StepPasteInv
<1> QED
  BY <1>1, <1>2, Invariance, PTL DEF Spec

(* A list the parent was sent on to holds every word of the paste as many    *)
(* times as it was pasted, and no other: at any length, and whatever other  *)
(* requests save or fail meanwhile.                                         *)
THEOREM PasteIsAlwaysWhole == Spec => []PasteIsWhole
<1>1. PasteInv => PasteIsWhole
  BY DEF PasteInv, ToldInv, ToldGood, PasteIsWhole, PasteOf, SameWords
<1> QED
  BY <1>1, PasteInvariance, PTL

(* The words a child is asked for, in a sentence pasted with marks, are     *)
(* those a pair of asterisks reaches: wherever the asterisks stand, inside  *)
(* words too, and however many there are.                                   *)
THEOREM MarkedIsAlwaysAsked == Spec => []MarkedIsAsked
<1>1. ASSUME PasteInv
      PROVE  MarkedIsAsked
  <2> SUFFICES ASSUME NEW i \in DOMAIN born, ~born[i].quick, pasted[born[i].list].told,
                      pasted[born[i].list].paste.kind = "sentence"
               PROVE  Asked(born[i].draft)
                        = {t \in Tokens(born[i].draft.text) :
                             Reached(pasted[born[i].list].paste.raw, t)}
    BY DEF MarkedIsAsked
  <2> DEFINE l == born[i].list
             raw == PasteOf(l).raw
             draft == SplitSentenceTarget(raw)
  <2>1. OfItsPaste(born[i])
    BY <1>1 DEF PasteInv, BornInv
  <2>2. pasted[l] \in PastedRows /\ \E n \in DOMAIN DraftsOf(l) : born[i].draft = DraftsOf(l)[n]
    BY <2>1 DEF OfItsPaste
  <2>3. raw \in Texts
    BY <2>2, PasteTyped
  <2>4. DraftsOf(l) = IF draft.targets = <<>> THEN <<>> ELSE <<draft>>
    BY DEF DraftsOf, BuildItems, PasteOf
  <2>5. born[i].draft = draft /\ draft.targets # <<>>
    BY <2>2, <2>4
  <2> HIDE DEF l
  <2>6. Asked(draft) = {t \in Tokens(draft.text) : Reached(raw, t)}
    BY <2>3, <2>5, AskedIsMarked
  <2> QED
    BY <2>5, <2>6 DEF PasteOf, l
<1>2. PasteInv => MarkedIsAsked
  BY <1>1
<1> QED
  BY <1>2, PasteInvariance, PTL
=============================================================================
