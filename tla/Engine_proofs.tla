---------------------------- MODULE Engine_proofs ----------------------------
(***************************************************************************)
(* Theorems about the rules of the engine package, for all values of their *)
(* constants: the state of a word (WordState, which implements Card), the  *)
(* rank and the levels a run leaves (Standing), and the score of a run,    *)
(* recomputed by Replay (Play), with a fault or without (Twins).           *)
(***************************************************************************)
EXTENDS WordState, Standing, Twins, FiniteSetTheorems, SequenceTheorems, TLAPS

(* The state of a word. *)

(* Learning never takes mastery below zero, even past full mastery, where  *)
(* what is left to learn is negative.                                      *)
LEMMA LearnType ==
  ASSUME NEW m \in Nat, NEW half \in BOOLEAN
  PROVE  Learn(m, half) \in Nat
<1> DEFINE gap == MasteryOne - m
           den == IF half THEN 2 * LearnDen ELSE LearnDen
<1>1. /\ MasteryOne \in Nat /\ LearnNum \in Nat
      /\ gap \in Int /\ den \in Nat \ {0} /\ LearnNum \in 0 .. den
  BY WordStateAssumption
<1>2. (gap * LearnNum) \div den >= (IF gap < 0 THEN gap ELSE 0)
  <2> HIDE DEF gap, den
  <2> QED BY <1>1, SMTT(60)
<1>3. (gap * LearnNum) \div den \in Int
  <2> HIDE DEF gap, den
  <2> QED BY <1>1
<1> QED BY <1>1, <1>2, <1>3 DEF Learn

(* The week is a number and does not go back from one day to the next.     *)
LEMMA WeekType ==
  ASSUME NEW day \in Nat
  PROVE  WeekOf(day) \in Nat /\ WeekOf(day) <= WeekOf(day + 1)
BY WordStateAssumption DEF WeekOf

LEMMA ConstantTypes ==
  /\ RencontreMastery \in Nat /\ CurseFails \in Nat \ {0}
  /\ GoldDays \in Nat \ {0} /\ GoldMinSpanDays \in Nat \ {0}
  /\ CurseWeeks \in Nat \ {0}
BY WordStateAssumption

(* Type correctness: every reachable state of a word is a WordState.        *)
THEOREM WordTypeCorrect == WordSpec => []WordTypeOK
<1>1. WordInit => WordTypeOK
  BY DEF WordInit, WordTypeOK, Unmet, WordStates
<1>2. WordTypeOK /\ [WordNext]_wordVars => WordTypeOK'
  <2> SUFFICES ASSUME WordTypeOK, [WordNext]_wordVars
               PROVE  WordTypeOK'
    OBVIOUS
  <2>1. WeekOf(today) \in Nat /\ st \in WordStates /\ today \in Nat
    BY WeekType DEF WordTypeOK
  <2>2. CASE Rencontre
    <3>1. st.mastery + RencontreMastery \in Nat
      BY ConstantTypes, <2>1 DEF WordStates
    <3>2. st' \in WordStates
      BY <2>1, <2>2, <3>1 DEF Rencontre, WordStates
    <3> QED BY <2>1, <2>2, <3>2 DEF Rencontre, WordTypeOK
  <2>3. CASE Success
    <3> DEFINE days == st.successDays \cup {today}
               streak == st.consecOK + 1
    <3>1. Learn(st.mastery, FALSE) \in Nat
      BY LearnType, <2>1 DEF WordStates
    <3>2. /\ FirstSuccessOf(days) \in Nat
          /\ days \in SUBSET Nat
          /\ streak \in Nat
      BY <2>1 DEF FirstSuccessOf, WordStates
    <3>3. PICK shine \in DrawShine(st.shine) :
            st' = [st EXCEPT
                     !.seen = TRUE, !.lastPlayedW = WeekOf(today),
                     !.mastery = Learn(st.mastery, FALSE), !.consecOK = streak,
                     !.successDays = days, !.firstSuccess = FirstSuccessOf(days),
                     !.tarnished = FALSE,
                     !.cursed = st.cursed /\ ~Tames(streak),
                     !.gold = st.gold \/ Tames(streak) \/ Gilds(days),
                     !.shine = shine]
      BY <2>3, Zenon DEF Success
    <3>4. shine \in Shines \cup {"none"}
      BY <2>1 DEF DrawShine, WordStates
    <3>5. st' \in WordStates
      <4> DEFINE thisWeek   == WeekOf(today)
                 m      == Learn(st.mastery, FALSE)
                 first  == FirstSuccessOf(days)
                 cursed == st.cursed /\ ~Tames(streak)
                 gold   == st.gold \/ Tames(streak) \/ Gilds(days)
      <4>1. cursed \in BOOLEAN /\ gold \in BOOLEAN
        BY Zenon
      <4>0. thisWeek \in Nat /\ m \in Nat /\ first \in Nat
        BY <2>1, <3>1, <3>2
      <4>2. st' = [st EXCEPT
                     !.seen = TRUE, !.lastPlayedW = thisWeek, !.mastery = m,
                     !.consecOK = streak, !.successDays = days,
                     !.firstSuccess = first, !.tarnished = FALSE,
                     !.cursed = cursed, !.gold = gold, !.shine = shine]
        BY <3>3
      <4> HIDE DEF days, streak, thisWeek, m, first, cursed, gold
      <4>3. st \in WordStates /\ days \in SUBSET Nat /\ streak \in Nat
        BY <2>1, <3>2
      <4> QED BY <3>4, <4>0, <4>1, <4>2, <4>3, ZenonT(40) DEF WordStates
    <3> QED BY <2>1, <2>3, <3>5 DEF Success, WordTypeOK
  <2>4. CASE Miss
    <3> DEFINE weeks == Append(st.failWeeks, WeekOf(today))
               curses == st.cursed \/ RecentFails(weeks, WeekOf(today)) >= CurseFails
    <3>1. Learn(st.mastery, TRUE) \in Nat
      BY LearnType, <2>1 DEF WordStates
    <3>2. weeks \in Seq(Nat) /\ st.fails + 1 \in Nat
      BY <2>1 DEF WordStates
    <3>3. PICK shine \in DrawShine(st.shine) :
            st' = [st EXCEPT
                     !.seen = TRUE, !.lastPlayedW = WeekOf(today),
                     !.mastery = Learn(st.mastery, TRUE),
                     !.fails = st.fails + 1, !.consecOK = 0, !.failWeeks = weeks,
                     !.gold = FALSE,
                     !.tarnished = st.tarnished /\ ~st.gold,
                     !.cursed = curses,
                     !.shine = shine]
      BY <2>4, Zenon DEF Miss
    <3>4. shine \in Shines \cup {"none"}
      BY <2>1 DEF DrawShine, WordStates
    <3>5. st' \in WordStates
      <4> DEFINE thisWeek      == WeekOf(today)
                 m         == Learn(st.mastery, TRUE)
                 fails     == st.fails + 1
                 tarnished == st.tarnished /\ ~st.gold
      <4>1. curses \in BOOLEAN /\ tarnished \in BOOLEAN
        BY Zenon
      <4>0. thisWeek \in Nat /\ m \in Nat
        BY <2>1, <3>1
      <4>2. st' = [st EXCEPT
                     !.seen = TRUE, !.lastPlayedW = thisWeek, !.mastery = m,
                     !.fails = fails, !.consecOK = 0, !.failWeeks = weeks,
                     !.gold = FALSE, !.tarnished = tarnished,
                     !.cursed = curses, !.shine = shine]
        BY <3>3
      <4>3. st \in WordStates /\ weeks \in Seq(Nat) /\ fails \in Nat
        BY <2>1, <3>2
      <4> HIDE DEF weeks, curses, thisWeek, m, fails, tarnished
      <4> QED BY <3>4, <4>0, <4>1, <4>2, <4>3, ZenonT(40) DEF WordStates
    <3> QED BY <2>1, <2>4, <3>5 DEF Miss, WordTypeOK
  <2>5. CASE Tarnish
    BY <2>1, <2>5 DEF Tarnish, WordTypeOK, WordStates
  <2>6. CASE NextDay
    BY <2>1, <2>6 DEF NextDay, WordTypeOK
  <2>7. CASE UNCHANGED wordVars
    BY <2>1, <2>7 DEF wordVars, WordTypeOK
  <2> QED BY <2>2, <2>3, <2>4, <2>5, <2>6, <2>7 DEF WordNext
<1> QED BY <1>1, <1>2, PTL DEF WordSpec

----------------------------------------------------------------------------
(* What is remembered lies in the past: no success after today, no miss in  *)
(* a week to come.  Hence the successes are finitely many, and the window   *)
(* of a curse that falls today is the window the count looked at.           *)
PastInv ==
  /\ \A day \in st.successDays : day <= today
  /\ \A i \in DOMAIN st.failWeeks : st.failWeeks[i] <= WeekOf(today)

LEMMA PastInductive == WordTypeOK /\ PastInv /\ [WordNext]_wordVars => PastInv'
<1> SUFFICES ASSUME WordTypeOK, PastInv, [WordNext]_wordVars
             PROVE  PastInv'
  OBVIOUS
<1>1. /\ st \in WordStates /\ today \in Nat /\ WeekOf(today) \in Nat
      /\ st.failWeeks \in Seq(Nat) /\ st.successDays \subseteq Nat
  BY WeekType DEF WordTypeOK, WordStates
<1>2. CASE Rencontre
  BY <1>1, <1>2 DEF Rencontre, WordStates, PastInv
<1>3. CASE Success
  <2>1. /\ st'.successDays = st.successDays \cup {today}
        /\ st'.failWeeks = st.failWeeks /\ today' = today
    BY <1>1, <1>3 DEF Success, WordStates
  <2> QED BY <1>1, <2>1 DEF PastInv
<1>4. CASE Miss
  <2>1. /\ st'.successDays = st.successDays /\ today' = today
        /\ st'.failWeeks = Append(st.failWeeks, WeekOf(today))
    BY <1>1, <1>4 DEF Miss, WordStates
  <2>2. \A i \in DOMAIN st'.failWeeks :
          st'.failWeeks[i] = WeekOf(today) \/ (i \in DOMAIN st.failWeeks /\ st'.failWeeks[i] = st.failWeeks[i])
    BY <1>1, <2>1
  <2> QED BY <1>1, <2>1, <2>2 DEF PastInv
<1>5. CASE Tarnish
  BY <1>1, <1>5 DEF Tarnish, WordStates, PastInv
<1>6. CASE NextDay
  <2>1. st' = st /\ today' = today + 1 /\ WeekOf(today) <= WeekOf(today') /\ WeekOf(today') \in Nat
    BY <1>1, <1>6, WeekType DEF NextDay
  <2> QED BY <1>1, <2>1 DEF PastInv
<1>7. CASE UNCHANGED wordVars
  BY <1>7 DEF wordVars, PastInv
<1> QED BY <1>2, <1>3, <1>4, <1>5, <1>6, <1>7 DEF WordNext

LEMMA SuccessesFinite ==
  ASSUME WordTypeOK, PastInv
  PROVE  IsFiniteSet(st.successDays)
BY FS_BoundedSetOfNaturals DEF WordTypeOK, WordStates, PastInv

----------------------------------------------------------------------------
(* The flags: what a card can be drawn as, and what the streak behind each  *)
(* flag is.  None of the three parts is inductive without the others, nor   *)
(* without the curse's own window: a taming takes the word to gold, and the *)
(* misses that cursed it are what the gold is earned by.                    *)
FlagsInv == CardDrawable /\ StreakMatchesCard /\ GoldIsEarned

LEMMA FlagsInductive ==
  WordTypeOK /\ PastInv /\ FlagsInv /\ CurseIsEarned /\ [WordNext]_wordVars => FlagsInv'
<1> SUFFICES ASSUME WordTypeOK, PastInv, FlagsInv, CurseIsEarned, [WordNext]_wordVars
             PROVE  FlagsInv'
  OBVIOUS
<1>1. st \in WordStates /\ today \in Nat
  BY DEF WordTypeOK
<1>2. CASE Rencontre
  <2>1. st'.gold = st.gold /\ st'.cursed = st.cursed /\ st'.tarnished = st.tarnished
        /\ st'.consecOK = st.consecOK /\ st'.successDays = st.successDays
        /\ st'.failWeeks = st.failWeeks
    BY <1>1, <1>2 DEF Rencontre, WordStates
  <2> QED BY <2>1 DEF FlagsInv, CardDrawable, StreakMatchesCard, GoldIsEarned, MissedIntoACurse
<1>3. CASE Success
  <2> DEFINE days == st.successDays \cup {today}
             streak == st.consecOK + 1
  <2>1. /\ st'.cursed = (st.cursed /\ ~Tames(streak))
        /\ st'.gold = (st.gold \/ Tames(streak) \/ Gilds(days))
        /\ st'.tarnished = FALSE /\ st'.consecOK = streak /\ st'.successDays = days
        /\ st'.failWeeks = st.failWeeks
    BY <1>1, <1>3 DEF Success, WordStates
  <2>2. streak \in Nat /\ streak > 0 /\ streak > st.consecOK /\ st.consecOK \in Nat
    BY <1>1 DEF WordStates
  <2>3. CardDrawable'
    BY <2>1 DEF Gilds, Tames, FlagsInv, CardDrawable
  <2>4. StreakMatchesCard'
    <3>1. st'.cursed => ~(streak >= TamingRun)
      BY <2>1, Zenon DEF Tames
    <3>2. ~(streak >= TamingRun) => streak < TamingRun
      BY <2>2 DEF TamingRun
    <3> QED BY <2>1, <2>2, <3>1, <3>2 DEF StreakMatchesCard
  <2>5. MissedIntoACurse => MissedIntoACurse'
    BY <2>1 DEF MissedIntoACurse
  <2>6. GoldIsEarned'
    <3>1. CASE st.gold
      <4>1. CASE st.consecOK >= TamingRun /\ MissedIntoACurse
        BY <2>1, <2>2, <2>5, <4>1 DEF TamingRun, GoldIsEarned
      <4>2. CASE ~(st.consecOK >= TamingRun /\ MissedIntoACurse)
        <5>1. /\ Cardinality(st.successDays) >= GoldDays
              /\ \E first, last \in st.successDays : last - first >= GoldMinSpanDays
          BY <3>1, <4>2 DEF FlagsInv, GoldIsEarned
        <5>2. IsFiniteSet(st.successDays) /\ IsFiniteSet(days)
          BY SuccessesFinite, FS_AddElement
        <5>3. /\ Cardinality(days) \in Nat /\ Cardinality(st.successDays) \in Nat
              /\ Cardinality(st.successDays) <= Cardinality(days)
          BY <5>2, FS_Subset, FS_CardinalityType
        <5>4. Cardinality(days) >= GoldDays
          BY <5>1, <5>3, ConstantTypes
        <5> QED BY <2>1, <5>1, <5>4 DEF GoldIsEarned
      <4> QED BY <4>1, <4>2
    <3>2. CASE Tames(streak)
      BY <2>1, <2>5, <3>2 DEF Tames, CurseIsEarned, GoldIsEarned
    <3>3. CASE Gilds(days)
      BY <2>1, <3>3 DEF Gilds, Remembered, GoldIsEarned
    <3>4. CASE ~st'.gold
      BY <3>4 DEF GoldIsEarned
    <3> QED BY <2>1, <3>1, <3>2, <3>3, <3>4
  <2> QED BY <2>3, <2>4, <2>6 DEF FlagsInv
<1>4. CASE Miss
  <2>1. /\ st'.gold = FALSE /\ st'.consecOK = 0
        /\ st'.tarnished = (st.tarnished /\ ~st.gold)
    BY <1>1, <1>4 DEF Miss, WordStates
  <2>2. CardDrawable' /\ GoldIsEarned'
    BY <2>1 DEF FlagsInv, CardDrawable, GoldIsEarned
  <2>3. StreakMatchesCard'
    BY <2>1 DEF StreakMatchesCard, TamingRun
  <2> QED BY <2>2, <2>3 DEF FlagsInv
<1>5. CASE Tarnish
  <2>1. /\ st.gold /\ st'.gold = st.gold /\ st'.cursed = st.cursed
        /\ st'.consecOK = st.consecOK /\ st'.successDays = st.successDays
        /\ st'.failWeeks = st.failWeeks
    BY <1>1, <1>5 DEF Tarnish, WordStates
  <2> QED BY <2>1 DEF FlagsInv, CardDrawable, StreakMatchesCard, GoldIsEarned, MissedIntoACurse
<1>6. CASE NextDay
  BY <1>6 DEF NextDay, FlagsInv, CardDrawable, StreakMatchesCard, GoldIsEarned, MissedIntoACurse
<1>7. CASE UNCHANGED wordVars
  BY <1>7 DEF wordVars, FlagsInv, CardDrawable, StreakMatchesCard, GoldIsEarned,
         MissedIntoACurse
<1> QED BY <1>2, <1>3, <1>4, <1>5, <1>6, <1>7 DEF WordNext

----------------------------------------------------------------------------
(* The curse: the window that brought it stays among the misses.           *)
Window(failWeeks, w) ==
  {i \in DOMAIN failWeeks : failWeeks[i] <= w /\ w - failWeeks[i] < CurseWeeks}

LEMMA WindowFinite ==
  ASSUME NEW failWeeks \in Seq(Nat), NEW w \in Nat
  PROVE  /\ IsFiniteSet(Window(failWeeks, w))
         /\ Cardinality(Window(failWeeks, w)) \in Nat
<1>1. Len(failWeeks) \in Nat /\ DOMAIN failWeeks = 1 .. Len(failWeeks)
  OBVIOUS
<1>2. IsFiniteSet(1 .. Len(failWeeks))
  BY <1>1, FS_Interval
<1>3. Window(failWeeks, w) \in SUBSET (1 .. Len(failWeeks))
  BY <1>1 DEF Window
<1>4. IsFiniteSet(Window(failWeeks, w))
  BY <1>2, <1>3, FS_Subset
<1> QED BY <1>4, FS_CardinalityType

LEMMA WindowGrows ==
  ASSUME NEW failWeeks \in Seq(Nat), NEW thisWeek \in Nat, NEW w \in Nat
  PROVE  Cardinality(Window(failWeeks, w)) <= Cardinality(Window(Append(failWeeks, thisWeek), w))
<1>1. Window(failWeeks, w) \subseteq Window(Append(failWeeks, thisWeek), w)
  BY DEF Window
<1>2. Append(failWeeks, thisWeek) \in Seq(Nat)
  OBVIOUS
<1>3. IsFiniteSet(Window(Append(failWeeks, thisWeek), w))
  BY <1>2, WindowFinite
<1> QED BY <1>1, <1>3, FS_Subset

LEMMA CurseInductive ==
  WordTypeOK /\ PastInv /\ CurseIsEarned /\ [WordNext]_wordVars => CurseIsEarned'
<1> SUFFICES ASSUME WordTypeOK, PastInv, CurseIsEarned, [WordNext]_wordVars
             PROVE  CurseIsEarned'
  OBVIOUS
<1>1. /\ st \in WordStates /\ today \in Nat /\ WeekOf(today) \in Nat
      /\ st.failWeeks \in Seq(Nat)
  BY WeekType DEF WordTypeOK, WordStates
<1>2. CASE Miss
  <2> DEFINE thisWeek == WeekOf(today)
             weeks == Append(st.failWeeks, thisWeek)
  <2>1. /\ st'.failWeeks = weeks
        /\ st'.cursed = (st.cursed \/ RecentFails(weeks, thisWeek) >= CurseFails)
    BY <1>1, <1>2 DEF Miss, WordStates
  <2>2. CASE st.cursed
    <3>1. PICK i \in DOMAIN st.failWeeks :
            Cardinality(Window(st.failWeeks, st.failWeeks[i])) >= CurseFails
      BY <2>2 DEF CurseIsEarned, MissedIntoACurse, Window
    <3>2. i \in DOMAIN weeks /\ weeks[i] = st.failWeeks[i] /\ weeks[i] \in Nat
      BY <1>1
    <3>5. weeks \in Seq(Nat)
      BY <1>1
    <3>3. /\ Cardinality(Window(st.failWeeks, weeks[i])) <= Cardinality(Window(weeks, weeks[i]))
          /\ Cardinality(Window(st.failWeeks, weeks[i])) \in Nat
          /\ Cardinality(Window(weeks, weeks[i])) \in Nat
      BY <1>1, <3>2, <3>5, WindowGrows, WindowFinite
    <3>4. Cardinality(Window(weeks, weeks[i])) >= CurseFails
      BY <3>1, <3>2, <3>3, ConstantTypes
    <3> QED BY <2>1, <3>2, <3>4 DEF CurseIsEarned, MissedIntoACurse, Window
  <2>3. CASE RecentFails(weeks, thisWeek) >= CurseFails
    <3>1. \A i \in DOMAIN weeks : weeks[i] <= thisWeek
      BY <1>1 DEF PastInv
    <3>2. Window(weeks, thisWeek) = {i \in DOMAIN weeks : thisWeek - weeks[i] < CurseWeeks}
      BY <3>1 DEF Window
    <3>3. Len(weeks) \in DOMAIN weeks /\ weeks[Len(weeks)] = thisWeek
      BY <1>1
    <3>4. Cardinality(Window(weeks, thisWeek)) >= CurseFails
      BY <2>3, <3>2 DEF RecentFails
    <3> QED BY <2>1, <3>3, <3>4 DEF CurseIsEarned, MissedIntoACurse, Window
  <2> QED BY <2>1, <2>2, <2>3 DEF CurseIsEarned
<1>3. CASE Rencontre \/ Success \/ Tarnish
  <2>1. st'.failWeeks = st.failWeeks /\ (st'.cursed => st.cursed)
    BY <1>1, <1>3 DEF Rencontre, Success, Tarnish, WordStates
  <2> QED BY <2>1 DEF CurseIsEarned, MissedIntoACurse
<1>4. CASE NextDay \/ UNCHANGED wordVars
  BY <1>4 DEF NextDay, wordVars, CurseIsEarned, MissedIntoACurse
<1> QED BY <1>2, <1>3, <1>4 DEF WordNext

----------------------------------------------------------------------------
(* The first success: zero stands for "never" only while nothing has been   *)
(* spelled right.                                                           *)
FirstInv ==
  /\ FirstSuccessIsFirst
  /\ st.firstSuccess # 0 => st.firstSuccess \in st.successDays

LEMMA FirstInductive == WordTypeOK /\ PastInv /\ FirstInv /\ [WordNext]_wordVars => FirstInv'
<1> SUFFICES ASSUME WordTypeOK, PastInv, FirstInv, [WordNext]_wordVars
             PROVE  FirstInv'
  OBVIOUS
<1>1. /\ st \in WordStates /\ today \in Nat
      /\ st.successDays \subseteq Nat /\ st.firstSuccess \in Nat
  BY DEF WordTypeOK, WordStates
<1>2. CASE Success
  <2> DEFINE days == st.successDays \cup {today}
  <2>1. st'.successDays = days /\ st'.firstSuccess = FirstSuccessOf(days)
    BY <1>1, <1>2 DEF Success, WordStates
  <2>2. CASE st.firstSuccess = 0 /\ Cardinality(days) = 1
    <3>1. IsFiniteSet(days)
      BY SuccessesFinite, FS_AddElement
    <3>2. PICK day : days = {day}
      BY <2>2, <3>1, FS_Singleton
    <3>3. days = {today}
      BY <3>2
    <3> QED BY <1>1, <2>1, <2>2, <3>3 DEF FirstSuccessOf, FirstInv, FirstSuccessIsFirst
  <2>3. CASE ~(st.firstSuccess = 0 /\ Cardinality(days) = 1)
    <3>1. st.successDays # {}
      BY <2>3, FS_Singleton DEF FirstInv
    <3>2. /\ st.firstSuccess \in st.successDays
          /\ \A day \in st.successDays : st.firstSuccess <= day
          /\ st.firstSuccess <= today
      BY <1>1, <3>1 DEF FirstInv, FirstSuccessIsFirst, PastInv
    <3>3. st'.firstSuccess = st.firstSuccess
      BY <2>1, <2>3 DEF FirstSuccessOf
    <3> QED BY <2>1, <3>2, <3>3 DEF FirstInv, FirstSuccessIsFirst
  <2> QED BY <2>2, <2>3
<1>3. CASE Rencontre \/ Miss \/ Tarnish
  <2>1. st'.successDays = st.successDays /\ st'.firstSuccess = st.firstSuccess
    BY <1>1, <1>3 DEF Rencontre, Miss, Tarnish, WordStates
  <2> QED BY <2>1 DEF FirstInv, FirstSuccessIsFirst
<1>4. CASE NextDay \/ UNCHANGED wordVars
  BY <1>4 DEF NextDay, wordVars, FirstInv, FirstSuccessIsFirst
<1> QED BY <1>2, <1>3, <1>4 DEF WordNext

----------------------------------------------------------------------------
(* The inductive invariant, and what it is for. *)
IInv == WordTypeOK /\ PastInv /\ FlagsInv /\ CurseIsEarned /\ FirstInv

THEOREM Invariance == WordSpec => []IInv
<1>1. WordInit => PastInv /\ FlagsInv /\ CurseIsEarned /\ FirstInv
  BY DEF WordInit, Unmet, PastInv, FlagsInv, CardDrawable, StreakMatchesCard,
         GoldIsEarned, CurseIsEarned, FirstInv, FirstSuccessIsFirst, TamingRun
<1>2. IInv /\ [WordNext]_wordVars => (PastInv /\ FlagsInv /\ CurseIsEarned /\ FirstInv)'
  BY PastInductive, FlagsInductive, CurseInductive, FirstInductive DEF IInv
<1> QED BY <1>1, <1>2, WordTypeCorrect, PTL DEF WordSpec, IInv

(* No card is gold and cursed at once, and only gold tarnishes: score.go    *)
(* never pays the gold bonus and the curse's x5 for one word.               *)
THEOREM CardAlwaysDrawable == WordSpec => []CardDrawable
<1>1. IInv => CardDrawable
  BY DEF IInv, FlagsInv
<1> QED BY <1>1, Invariance, PTL

(* A gold word's last answer was right; a cursed word has not had the run   *)
(* that tames it.                                                           *)
THEOREM StreakAlwaysMatches == WordSpec => []StreakMatchesCard
<1>1. IInv => StreakMatchesCard
  BY DEF IInv, FlagsInv
<1> QED BY <1>1, Invariance, PTL

(* Gold is earned: by days far enough apart, or by the run that tames a      *)
(* word whose misses brought a curse.                                       *)
THEOREM GoldAlwaysEarned == WordSpec => []GoldIsEarned
<1>1. IInv => GoldIsEarned
  BY DEF IInv, FlagsInv
<1> QED BY <1>1, Invariance, PTL

(* A curse always has its window of misses.                                 *)
THEOREM CurseAlwaysEarned == WordSpec => []CurseIsEarned
<1>1. IInv => CurseIsEarned
  BY DEF IInv
<1> QED BY <1>1, Invariance, PTL

(* FirstSuccess is the first success.                                       *)
THEOREM FirstSuccessAlwaysFirst == WordSpec => []FirstSuccessIsFirst
<1>1. IInv => FirstSuccessIsFirst
  BY DEF IInv, FirstInv
<1> QED BY <1>1, Invariance, PTL

----------------------------------------------------------------------------
(* WordState implements Card: every step of a word is one its card allows,  *)
(* or changes nothing a card shows.                                         *)
LEMMA CardStep ==
  WordTypeOK /\ CardDrawable /\ StreakMatchesCard /\ [WordNext]_wordVars
     => [Drawn!Next]_(Drawn!vars)
<1> SUFFICES ASSUME WordTypeOK, CardDrawable, StreakMatchesCard, [WordNext]_wordVars
             PROVE  [Drawn!Next]_(Drawn!vars)
  OBVIOUS
<1>1. /\ st \in WordStates /\ st.consecOK \in Nat
      /\ st.gold \in BOOLEAN /\ st.cursed \in BOOLEAN /\ st.tarnished \in BOOLEAN
  BY DEF WordTypeOK, WordStates
<1>2. /\ ~(st.gold /\ st.cursed)
      /\ st.tarnished => st.gold
      /\ st.cursed => st.consecOK < TamingRun
  BY DEF CardDrawable, StreakMatchesCard
<1>3. CASE Success
  <2> DEFINE days == st.successDays \cup {today}
             streak == st.consecOK + 1
  <2>1. /\ st'.cursed = (st.cursed /\ ~Tames(streak))
        /\ st'.gold = (st.gold \/ Tames(streak) \/ Gilds(days))
        /\ st'.tarnished = FALSE /\ st'.consecOK = streak
    BY <1>1, <1>3 DEF Success, WordStates
  <2>2. CardRun' = IF CardRun < TamingRun THEN CardRun + 1 ELSE CardRun
    BY <1>1, <2>1 DEF CardRun, TamingRun
  <2>3. CASE st.cursed
    <3>1. CardFace = "cursed" /\ CardRun < TamingRun /\ ~st.gold
      BY <1>1, <1>2, <2>3 DEF CardFace, CardRun
    <3>2. Tames(streak) <=> CardRun' = TamingRun
      BY <1>1, <1>2, <2>1, <2>3 DEF Tames, CardRun, TamingRun
    <3>3. CardFace' = IF CardRun' = TamingRun THEN "gold" ELSE "cursed"
      BY <2>1, <2>3, <3>2 DEF CardFace
    <3> QED BY <2>2, <3>1, <3>3 DEF Drawn!Next, Drawn!Right
  <2>4. CASE ~st.cursed /\ st.gold
    <3>1. CardFace \in {"gold", "tarnished"}
      BY <2>4 DEF CardFace
    <3>2. CardFace' = "gold"
      BY <2>1, <2>4 DEF CardFace
    <3> QED BY <2>2, <3>1, <3>2 DEF Drawn!Next, Drawn!Right
  <2>5. CASE ~st.cursed /\ ~st.gold
    <3>1. CardFace = "plain"
      BY <1>1, <1>2, <2>5 DEF CardFace
    <3>2. CardFace' \in {"plain", "gold"}
      BY <2>1, <2>5 DEF CardFace
    <3> QED BY <2>2, <3>1, <3>2 DEF Drawn!Next, Drawn!Right
  <2> QED BY <2>3, <2>4, <2>5
<1>4. CASE Miss
  <2>1. /\ st'.gold = FALSE /\ st'.consecOK = 0
        /\ st'.tarnished = (st.tarnished /\ ~st.gold)
        /\ (st.cursed => st'.cursed)
    BY <1>1, <1>4 DEF Miss, WordStates
  <2>2. CardRun' = 0
    BY <2>1 DEF CardRun, TamingRun
  <2>3. CardFace' \in IF CardFace = "cursed" THEN {"cursed"} ELSE {"plain", "cursed"}
    BY <1>2, <2>1 DEF CardFace
  <2> QED BY <2>2, <2>3 DEF Drawn!Next, Drawn!Wrong
<1>5. CASE Tarnish
  <2>1. /\ st.gold /\ ~st.tarnished /\ st'.cursed = st.cursed
        /\ st'.tarnished = TRUE /\ st'.consecOK = st.consecOK
    BY <1>1, <1>5 DEF Tarnish, WordStates
  <2>2. CardFace = "gold" /\ CardFace' = "tarnished" /\ CardRun' = CardRun
    BY <1>2, <2>1 DEF CardFace, CardRun
  <2> QED BY <2>2 DEF Drawn!Next, Drawn!Neglect
<1>6. CASE Rencontre
  <2>1. /\ st'.gold = st.gold /\ st'.cursed = st.cursed
        /\ st'.tarnished = st.tarnished /\ st'.consecOK = st.consecOK
    BY <1>1, <1>6 DEF Rencontre, WordStates
  <2> QED BY <2>1 DEF CardFace, CardRun, Drawn!vars
<1>7. CASE NextDay \/ UNCHANGED wordVars
  BY <1>7 DEF NextDay, wordVars, CardFace, CardRun, Drawn!vars
<1> QED BY <1>3, <1>4, <1>5, <1>6, <1>7 DEF WordNext

THEOREM WordKeepsCardPromise == WordSpec => ImplementsCard
<1>1. WordInit => Drawn!Init
  BY DEF WordInit, Unmet, Drawn!Init, CardFace, CardRun, TamingRun
<1>2. IInv => WordTypeOK /\ CardDrawable /\ StreakMatchesCard
  BY DEF IInv, FlagsInv
<1> QED BY <1>1, <1>2, CardStep, Invariance, PTL DEF WordSpec, ImplementsCard, Drawn!Spec

----------------------------------------------------------------------------
(* The rank. *)

LEMMA NextWeekType ==
  ASSUME RankTypeOK, NextWeek
  PROVE  RankTypeOK'
BY RankAssumption, CalendarAssumption DEF RankTypeOK, NextWeek, history

LEMMA WonType ==
  ASSUME RankTypeOK, Won
  PROVE  RankTypeOK'
<1>1. rank' \in 0 .. MaxRank /\ bestRank' \in 0 .. MaxRank /\ weeksAtRank' \in Nat
      /\ lastRankW' \in 0 .. week' /\ rises' \in Nat /\ rankedAt' \in 0 .. week'
  BY RankAssumption, CalendarAssumption DEF RankTypeOK, Won, RisesTo, Ready, Larger
<1>2. bossWinsAtRank' \in Nat /\ bossWinsTotal' \in Nat /\ runs' \in 0 .. MaxRuns
  BY RankAssumption, CalendarAssumption DEF RankTypeOK, Won, WinsAfter, PlaysRun
<1>3. kindness' \in {0} \cup KindnessFloor .. 100
  BY RankAssumption, CalendarAssumption DEF Won
<1> QED BY <1>1, <1>2, <1>3 DEF RankTypeOK, Won

LEMMA LostType ==
  ASSUME RankTypeOK, NEW early \in BOOLEAN, Lost(early)
  PROVE  RankTypeOK'
<1>1. kindness' \in {0} \cup KindnessFloor .. 100
  BY RankAssumption, CalendarAssumption DEF RankTypeOK, Lost, KindnessAfter, Larger
<1>2. lostInARow' \in [early: Nat, late: Nat]
  BY DEF RankTypeOK, Lost
<1>3. /\ rank' \in 0 .. MaxRank /\ bossWinsAtRank' \in Nat /\ weeksAtRank' \in Nat
      /\ bossFailStreak' \in Nat /\ rankedAt' \in 0 .. week'
  BY RankAssumption, CalendarAssumption DEF RankTypeOK, Lost, Falls
<1>4. earlyLosses' \in Nat /\ runs' \in 0 .. MaxRuns
  BY RankAssumption, CalendarAssumption DEF RankTypeOK, Lost, PlaysRun
<1> QED BY <1>1, <1>2, <1>3, <1>4 DEF RankTypeOK, Lost

(* Every reachable standing is well typed: in particular the rank stays     *)
(* within the table of multipliers it indexes.                              *)
THEOREM RankTypeCorrect == RankSpec => []RankTypeOK
<1>1. RankInit => RankTypeOK
  BY RankAssumption, CalendarAssumption DEF RankInit, RankTypeOK
<1>2. RankTypeOK /\ [RankNext]_rankVars => RankTypeOK'
  <2>1. RankTypeOK /\ UNCHANGED rankVars => RankTypeOK'
    BY DEF RankTypeOK, rankVars, counters, history
  <2> QED BY <2>1, NextWeekType, WonType, LostType DEF RankNext
<1> QED BY <1>1, <1>2, PTL DEF RankSpec

----------------------------------------------------------------------------
(* The weeks counted at a rank are calendar weeks since it last moved: a    *)
(* job that misses weeks counts fewer, never more.                          *)
WeeksAreReal == weeksAtRank <= week - rankedAt

RankInv ==
  /\ RankTypeOK
  /\ WinsPayForRises /\ StreakBelowFall /\ StreakIsLosses /\ BestRankReached
  /\ KindnessCountsEarlyLosses
  /\ WeeksAreReal

LEMMA NextWeekInv ==
  ASSUME RankInv, RankTypeOK', NextWeek
  PROVE  RankInv'
<1>1. WeeksAreReal'
  BY DEF RankInv, RankTypeOK, NextWeek, history, WeeksAreReal
<1>2. UNCHANGED <<rank, bestRank, bossWinsAtRank, bossFailStreak, bossWinsTotal, kindness,
                  rises, earlyLosses, lostInARow>>
  BY DEF NextWeek, history
<1>3. WinsPayForRises' /\ StreakBelowFall' /\ StreakIsLosses' /\ BestRankReached'
  BY <1>2 DEF RankInv, WinsPayForRises, StreakBelowFall, StreakIsLosses, BestRankReached
<1>4. KindnessCountsEarlyLosses'
  BY <1>2 DEF RankInv, KindnessCountsEarlyLosses
<1> QED BY <1>1, <1>3, <1>4 DEF RankInv

LEMMA WonInv ==
  ASSUME RankInv, RankTypeOK', Won
  PROVE  RankInv'
<1>t. rank \in Nat /\ bestRank \in Nat /\ bossWinsAtRank \in Nat /\ bossWinsTotal \in Nat
      /\ rises \in Nat /\ week \in Nat /\ rankedAt \in Nat /\ weeksAtRank \in Nat
  BY RankAssumption, CalendarAssumption DEF RankInv, RankTypeOK
<1>1. WinsPayForRises'
  <2>1. bossWinsTotal >= RankUpWins * rises + bossWinsAtRank
    BY DEF RankInv, WinsPayForRises
  <2>2. CASE Ready
    <3>1. rises' = rises + 1 /\ bossWinsAtRank' = 0 /\ bossWinsTotal' = bossWinsTotal + 1
      BY <2>2 DEF Won, RisesTo, WinsAfter
    <3>2. bossWinsAtRank + 1 >= RankUpWins
      BY <2>2 DEF Ready
    <3>3. RankUpWins * (rises + 1) = RankUpWins * rises + RankUpWins
      BY <1>t, RankAssumption, CalendarAssumption
    <3>4. RankUpWins * rises \in Nat /\ RankUpWins \in Nat
      BY <1>t, RankAssumption, CalendarAssumption
    <3> QED BY <1>t, <2>1, <3>1, <3>2, <3>3, <3>4 DEF WinsPayForRises
  <2>3. CASE ~Ready
    <3>1. rises' = rises /\ bossWinsAtRank' = bossWinsAtRank + 1
          /\ bossWinsTotal' = bossWinsTotal + 1
      BY <2>3 DEF Won, RisesTo, WinsAfter
    <3>2. RankUpWins * rises \in Nat
      BY <1>t, RankAssumption, CalendarAssumption
    <3> QED BY <1>t, <2>1, <3>1, <3>2 DEF WinsPayForRises
  <2> QED BY <2>2, <2>3
<1>2. StreakBelowFall' /\ StreakIsLosses'
  BY RankAssumption, CalendarAssumption DEF Won, StreakBelowFall, StreakIsLosses
<1>3. BestRankReached'
  BY <1>t DEF RankInv, BestRankReached, Won, RisesTo, Larger
<1>4. KindnessCountsEarlyLosses'
  BY <1>t DEF Won, KindnessCountsEarlyLosses
<1>5. WeeksAreReal'
  BY <1>t DEF RankInv, WeeksAreReal, Won, RisesTo
<1> QED BY <1>1, <1>2, <1>3, <1>4, <1>5 DEF RankInv

LEMMA LostInv ==
  ASSUME RankInv, RankTypeOK', NEW early \in BOOLEAN, Lost(early)
  PROVE  RankInv'
<1>t. /\ rank \in Nat /\ bestRank \in Nat /\ bossWinsAtRank \in Nat /\ bossWinsTotal \in Nat
      /\ rises \in Nat /\ week \in Nat /\ rankedAt \in Nat /\ weeksAtRank \in Nat
      /\ rankedAt <= week
      /\ bossFailStreak \in Nat /\ lostInARow \in [early: Nat, late: Nat]
      /\ earlyLosses \in Nat /\ kindness \in Int
  BY RankAssumption, CalendarAssumption DEF RankInv, RankTypeOK
<1>1. WinsPayForRises'
  <2>1. RankUpWins * rises \in Nat
    BY <1>t, RankAssumption, CalendarAssumption
  <2>2. bossWinsTotal >= RankUpWins * rises + bossWinsAtRank
    BY DEF RankInv, WinsPayForRises
  <2>3. rises' = rises /\ bossWinsTotal' = bossWinsTotal
        /\ (bossWinsAtRank' = 0 \/ bossWinsAtRank' = bossWinsAtRank)
    BY DEF Lost
  <2> QED BY <1>t, <2>1, <2>2, <2>3 DEF WinsPayForRises
<1>2. StreakBelowFall'
  BY <1>t, RankAssumption, CalendarAssumption DEF Lost, Falls, StreakBelowFall
<1>3. StreakIsLosses'
  BY <1>t DEF RankInv, Lost, StreakIsLosses
<1>4. BestRankReached'
  BY <1>t DEF RankInv, BestRankReached, Lost, Falls
<1>5. KindnessCountsEarlyLosses'
  <2> DEFINE start == IF bossWinsTotal = 0 THEN FirstKindness ELSE 100
  <2>1. kindness = IF earlyLosses = 0 THEN start
                   ELSE Larger(start - KindnessStep * earlyLosses, KindnessFloor)
    BY DEF RankInv, KindnessCountsEarlyLosses
  <2>2. bossWinsTotal' = bossWinsTotal
    BY DEF Lost
  <2>3. CASE ~early
    BY <2>1, <2>2, <2>3 DEF Lost, KindnessAfter, KindnessCountsEarlyLosses
  <2>4. CASE early
    <3>1. earlyLosses' = earlyLosses + 1
          /\ kindness' = Larger(kindness - KindnessStep, KindnessFloor)
      BY <2>4 DEF Lost, KindnessAfter
    <3>2. KindnessStep \in Nat /\ KindnessFloor \in Int /\ start \in Int
      BY RankAssumption
    <3>3. kindness' = Larger(start - KindnessStep * (earlyLosses + 1), KindnessFloor)
      <4> HIDE DEF start
      <4>1. CASE earlyLosses = 0
        BY <2>1, <3>1, <3>2, <4>1
      <4>2. CASE earlyLosses # 0
        <5>1. /\ KindnessStep * (earlyLosses + 1) = KindnessStep * earlyLosses + KindnessStep
              /\ KindnessStep * earlyLosses \in Int
          BY <1>t, <3>2
        <5> QED BY <2>1, <3>1, <3>2, <4>2, <5>1 DEF Larger
      <4> QED BY <4>1, <4>2
    <3>4. earlyLosses' # 0
      BY <1>t, <3>1
    <3> QED BY <2>2, <3>1, <3>3, <3>4 DEF KindnessCountsEarlyLosses
  <2> QED BY <2>3, <2>4
<1>6. WeeksAreReal'
  BY <1>t DEF RankInv, WeeksAreReal, Lost
<1> QED BY <1>1, <1>2, <1>3, <1>4, <1>5, <1>6 DEF RankInv

THEOREM RankInvariance == RankSpec => []RankInv
<1>1. RankInit => RankInv
  <2>1. RankInit => RankTypeOK
    BY RankAssumption, CalendarAssumption DEF RankInit, RankTypeOK
  <2>2. RankInit => WinsPayForRises /\ StreakBelowFall /\ StreakIsLosses /\ BestRankReached
                /\ WeeksAreReal
    BY RankAssumption, CalendarAssumption
       DEF RankInit, WinsPayForRises, StreakBelowFall, StreakIsLosses, BestRankReached, WeeksAreReal
  <2>3. RankInit => KindnessCountsEarlyLosses
    BY RankAssumption, CalendarAssumption DEF RankInit, KindnessCountsEarlyLosses, Larger
  <2> QED BY <2>1, <2>2, <2>3 DEF RankInv
<1>2. RankInv /\ RankTypeOK' /\ [RankNext]_rankVars => RankInv'
  <2>1. RankInv /\ RankTypeOK' /\ UNCHANGED rankVars => RankInv'
    BY DEF RankInv, rankVars, counters, history, WinsPayForRises, StreakBelowFall, StreakIsLosses,
           BestRankReached, KindnessCountsEarlyLosses, WeeksAreReal
  <2> QED BY <2>1, NextWeekInv, WonInv, LostInv DEF RankNext
<1> QED BY <1>1, <1>2, RankTypeCorrect, PTL DEF RankSpec

----------------------------------------------------------------------------
(* A rank that goes up has stood for RankUpMinWeeks calendar weeks.         *)
THEOREM RisesAlwaysApart == RankSpec => RisesApart
<1>1. RankInv /\ [RankNext]_rankVars => [rank' > rank => week - rankedAt >= RankUpMinWeeks]_rankVars
  <2> SUFFICES ASSUME RankInv, [RankNext]_rankVars, rank' > rank
               PROVE  week - rankedAt >= RankUpMinWeeks
    OBVIOUS
  <2>t. rank \in Nat /\ week \in Nat /\ rankedAt \in Nat /\ weeksAtRank \in Nat
    BY RankAssumption, CalendarAssumption DEF RankInv, RankTypeOK
  <2>1. Won
    BY <2>t DEF RankNext, NextWeek, Lost, Falls, rankVars
  <2>2. Ready
    BY <2>1, <2>t DEF Won, RisesTo
  <2> QED BY <2>2, <2>t, RankAssumption, CalendarAssumption DEF Ready, RankInv, WeeksAreReal
<1> QED BY <1>1, RankInvariance, PTL DEF RankSpec, RisesApart

(* No win pays for two rises. *)
THEOREM WinsAlwaysPay == RankSpec => []WinsPayForRises
<1>1. RankInv => WinsPayForRises
  BY DEF RankInv
<1> QED BY <1>1, RankInvariance, PTL

(* Above the first rank a child is always short of the losses that take it  *)
(* down.                                                                    *)
THEOREM StreakAlwaysBelowFall == RankSpec => []StreakBelowFall
<1>1. RankInv => StreakBelowFall
  BY DEF RankInv
<1> QED BY <1>1, RankInvariance, PTL

(* The streak is the losses since the last win or fall. *)
THEOREM StreakAlwaysLosses == RankSpec => []StreakIsLosses
<1>1. RankInv => StreakIsLosses
  BY DEF RankInv
<1> QED BY <1>1, RankInvariance, PTL

(* The Bienveillance is a function of the runs lost early since a win, for   *)
(* a child who began at 100 and for one the panel's row began at 0.          *)
THEOREM KindnessAlwaysCounts == RankSpec => []KindnessCountsEarlyLosses
<1>1. RankInv => KindnessCountsEarlyLosses
  BY DEF RankInv
<1> QED BY <1>1, RankInvariance, PTL

----------------------------------------------------------------------------
(* The experience. *)

LEMMA GainXPType ==
  ASSUME LevelsTypeOK, NEW traps \in SUBSET Colors, GainXP(traps)
  PROVE  LevelsTypeOK'
<1>1. ASSUME NEW c \in Colors
      PROVE  /\ xp'[c] \in Nat
             /\ level'[c] \in 1 .. LevelMax
             /\ nextLevelW'[c] \in Nat
             /\ earned'[c] \in Nat
             /\ levelledAt'[c] \in SUBSET (0 .. MaxWeek)
             /\ paidAt'[c] \in Nat
  <2>1. xp[c] \in Nat /\ level[c] \in 1 .. LevelMax /\ nextLevelW[c] \in Nat
        /\ earned[c] \in Nat /\ week \in 0 .. MaxWeek /\ paidAt[c] \in Nat
        /\ levelledAt[c] \in SUBSET (0 .. MaxWeek)
    BY DEF LevelsTypeOK
  <2>2. Need(c) \in Nat
    BY <2>1, LevelsAssumption, CalendarAssumption DEF Need
  <2>3. XPAfter(c) \in Nat
    BY <2>1, <2>2 DEF XPAfter, LevelsUp
  <2>4. xp'[c] \in Nat /\ earned'[c] \in Nat /\ paidAt'[c] \in Nat
    BY <2>1, <2>3 DEF GainXP
  <2>5. level'[c] \in 1 .. LevelMax /\ nextLevelW'[c] \in Nat
    BY <2>1, LevelsAssumption, CalendarAssumption DEF GainXP, LevelsUp
  <2>6. levelledAt'[c] \in SUBSET (0 .. MaxWeek)
    BY <2>1 DEF GainXP
  <2> QED BY <2>4, <2>5, <2>6
<1>2. /\ xp' = [c \in Colors |-> xp'[c]]
      /\ level' = [c \in Colors |-> level'[c]]
      /\ nextLevelW' = [c \in Colors |-> nextLevelW'[c]]
      /\ earned' = [c \in Colors |-> earned'[c]]
      /\ levelledAt' = [c \in Colors |-> levelledAt'[c]]
      /\ paidAt' = [c \in Colors |-> paidAt'[c]]
  BY DEF GainXP
<1>3. week' \in 0 .. MaxWeek
  BY DEF GainXP, LevelsTypeOK
<1> QED BY <1>1, <1>2, <1>3 DEF LevelsTypeOK

(* Every reachable standing is well typed: no level is ever past LevelMax,  *)
(* and no experience goes negative.                                         *)
THEOREM LevelsTypeCorrect == LevelsSpec => []LevelsTypeOK
<1>1. LevelsInit => LevelsTypeOK
  BY LevelsAssumption, CalendarAssumption DEF LevelsInit, LevelsTypeOK
<1>2. LevelsTypeOK /\ [LevelsNext]_levelVars => LevelsTypeOK'
  <2>1. LevelsTypeOK /\ (LevelsWeek \/ UNCHANGED levelVars) => LevelsTypeOK'
    BY LevelsAssumption, CalendarAssumption DEF LevelsTypeOK, LevelsWeek, levelVars
  <2> QED BY <2>1, GainXPType DEF LevelsNext
<1> QED BY <1>1, <1>2, PTL DEF LevelsSpec

----------------------------------------------------------------------------
(* The last level-up began the cooldown that runs now. *)
CooldownRuns ==
  \A c \in Colors : \A w \in levelledAt[c] : w + LevelCooldownW <= nextLevelW[c]

LevelsInv == LevelsTypeOK /\ XPAddsUp /\ LevelsApart /\ NoLevelOverdue /\ CooldownRuns

(* The arithmetic of a level that is paid for.                              *)
LEMMA PaidForLevel ==
  ASSUME NEW e \in Int, NEW x \in Int, NEW step \in Int, NEW cost \in Int,
         2 * e = 2 * x + cost
  PROVE  2 * (e + 1) = 2 * (x + 1 - step) + (cost + 2 * step)
OBVIOUS

LEMMA PaidForAttempt ==
  ASSUME NEW e \in Int, NEW x \in Int, NEW cost \in Int, 2 * e = 2 * x + cost
  PROVE  2 * (e + 1) = 2 * (x + 1) + cost
OBVIOUS

(* One Couleur, one paying attempt. *)
LEMMA GainXPColor ==
  ASSUME LevelsInv, LevelsTypeOK', NEW traps \in SUBSET Colors, GainXP(traps), NEW c \in traps
  PROVE  /\ 2 * earned'[c] = 2 * xp'[c] + XPPerLevel * (level'[c] * (level'[c] - 1))
         /\ \A v, w \in levelledAt'[c] : v < w => w - v >= LevelCooldownW
         /\ XPPerLevel * level'[c] <= xp'[c] => level'[c] = LevelMax \/ paidAt'[c] < nextLevelW'[c]
         /\ \A w \in levelledAt'[c] : w + LevelCooldownW <= nextLevelW'[c]
<1>t. /\ xp[c] \in Nat /\ level[c] \in 1 .. LevelMax /\ nextLevelW[c] \in Nat
      /\ earned[c] \in Nat /\ week \in 0 .. MaxWeek /\ levelledAt[c] \in SUBSET (0 .. MaxWeek)
      /\ XPPerLevel \in Nat \ {0} /\ LevelCooldownW \in Nat \ {0} /\ LevelMax \in Nat
      /\ MaxWeek \in Nat
  BY LevelsAssumption, CalendarAssumption DEF LevelsInv, LevelsTypeOK
<1>a. 2 * earned[c] = 2 * xp[c] + XPPerLevel * (level[c] * (level[c] - 1))
  BY DEF LevelsInv, XPAddsUp
<1>b. \A v, w \in levelledAt[c] : v < w => w - v >= LevelCooldownW
  BY DEF LevelsInv, LevelsApart
<1>c. \A w \in levelledAt[c] : w + LevelCooldownW <= nextLevelW[c]
  BY DEF LevelsInv, CooldownRuns
<1>d. earned'[c] = earned[c] + 1 /\ paidAt'[c] = week /\ xp'[c] = XPAfter(c)
  BY DEF GainXP
<1>1. CASE LevelsUp(c)
  <2>1. /\ xp'[c] = xp[c] + 1 - XPPerLevel * level[c]
        /\ level'[c] = level[c] + 1
        /\ nextLevelW'[c] = week + LevelCooldownW
        /\ levelledAt'[c] = levelledAt[c] \cup {week}
    BY <1>1, <1>d DEF GainXP, XPAfter, Need
  <2>2. week >= nextLevelW[c]
    BY <1>1 DEF LevelsUp
  <2>3. 2 * earned'[c] = 2 * xp'[c] + XPPerLevel * (level'[c] * (level'[c] - 1))
    <3> DEFINE l == level[c]
    <3>0. l \in Nat
      BY <1>t
    <3>1. (l + 1) * ((l + 1) - 1) = l * (l - 1) + 2 * l
      BY <3>0
    <3>2. XPPerLevel * (l * (l - 1) + 2 * l) = XPPerLevel * (l * (l - 1)) + 2 * (XPPerLevel * l)
      BY <3>0, <1>t
    <3>3. XPPerLevel * l \in Int /\ XPPerLevel * (l * (l - 1)) \in Int
      BY <3>0, <1>t
    <3>4. level'[c] * (level'[c] - 1) = l * (l - 1) + 2 * l
      BY <2>1, <3>1
    <3>5. XPPerLevel * (level'[c] * (level'[c] - 1)) = XPPerLevel * (l * (l - 1)) + 2 * (XPPerLevel * l)
      BY <3>4, <3>2
    <3>6. xp'[c] = xp[c] + 1 - XPPerLevel * l /\ earned'[c] = earned[c] + 1
      BY <2>1, <1>d
    <3>7. 2 * earned[c] = 2 * xp[c] + XPPerLevel * (l * (l - 1))
      BY <1>a
    <3> DEFINE step == XPPerLevel * l
               cost == XPPerLevel * (l * (l - 1))
               e == earned[c]
               x == xp[c]
    <3>8. step \in Int /\ cost \in Int /\ e \in Int /\ x \in Int
      BY <3>3, <1>t
    <3>e. 2 * e = 2 * x + cost
      BY <3>7
    <3>9. /\ xp'[c] = x + 1 - step /\ earned'[c] = e + 1
          /\ XPPerLevel * (level'[c] * (level'[c] - 1)) = cost + 2 * step
      BY <3>5, <3>6
    <3> HIDE DEF l, step, cost, e, x
    <3>10. 2 * (e + 1) = 2 * (x + 1 - step) + (cost + 2 * step)
      BY <3>8, <3>e, PaidForLevel
    <3> QED BY <3>9, <3>10, Zenon
  <2>4. \A w \in levelledAt[c] : week - w >= LevelCooldownW
    BY <1>t, <1>c, <2>2
  <2>5. \A v, w \in levelledAt'[c] : v < w => w - v >= LevelCooldownW
    BY <1>t, <1>b, <2>1, <2>4
  <2>6. \A w \in levelledAt'[c] : w + LevelCooldownW <= nextLevelW'[c]
    BY <1>t, <1>c, <2>1, <2>2
  <2> QED BY <1>d, <1>t, <2>1, <2>3, <2>5, <2>6
<1>2. CASE ~LevelsUp(c)
  <2>1. /\ xp'[c] = xp[c] + 1
        /\ level'[c] = level[c]
        /\ nextLevelW'[c] = nextLevelW[c]
        /\ levelledAt'[c] = levelledAt[c]
    BY <1>2, <1>d DEF GainXP, XPAfter
  <2>2. 2 * earned'[c] = 2 * xp'[c] + XPPerLevel * (level'[c] * (level'[c] - 1))
    <3> DEFINE cost == XPPerLevel * (level[c] * (level[c] - 1))
               e == earned[c]
               x == xp[c]
    <3>1. cost \in Int /\ e \in Int /\ x \in Int
      BY <1>t
    <3>2. 2 * e = 2 * x + cost
      BY <1>a
    <3>3. XPPerLevel * (level'[c] * (level'[c] - 1)) = cost
      BY <2>1
    <3>4. earned'[c] = e + 1 /\ xp'[c] = x + 1
      BY <2>1, <1>d
    <3> HIDE DEF cost, e, x
    <3>5. 2 * (e + 1) = 2 * (x + 1) + cost
      BY <3>1, <3>2, PaidForAttempt
    <3> QED BY <3>3, <3>4, <3>5, Zenon
  <2>3. XPPerLevel * level'[c] <= xp'[c] => level'[c] = LevelMax \/ week < nextLevelW'[c]
    <3> DEFINE need == XPPerLevel * level[c]
    <3>1. need \in Int
      BY <1>t
    <3>2. ~(xp[c] + 1 >= need /\ level[c] < LevelMax /\ week >= nextLevelW[c])
      BY <1>2 DEF LevelsUp, Need
    <3>3. XPPerLevel * level'[c] = need
      BY <2>1
    <3>4. level'[c] = level[c] /\ nextLevelW'[c] = nextLevelW[c] /\ xp'[c] = xp[c] + 1
      BY <2>1
    <3> HIDE DEF need
    <3>5. xp[c] + 1 >= need => level[c] = LevelMax \/ week < nextLevelW[c]
      BY <3>1, <3>2, <1>t
    <3> QED BY <3>1, <3>3, <3>4, <3>5, <1>t
  <2> QED BY <1>b, <1>c, <1>d, <2>1, <2>2, <2>3
<1> QED BY <1>1, <1>2

THEOREM LevelsInvariance == LevelsSpec => []LevelsInv
<1>1. LevelsInit => LevelsInv
  <2>1. LevelsInit => LevelsTypeOK /\ LevelsApart /\ CooldownRuns
    BY LevelsAssumption, CalendarAssumption DEF LevelsInit, LevelsTypeOK, LevelsApart, CooldownRuns
  <2>2. LevelsInit => NoLevelOverdue
    BY LevelsAssumption, CalendarAssumption DEF LevelsInit, NoLevelOverdue, Need
  <2>3. LevelsInit => XPAddsUp
    <3>1. XPPerLevel * (1 * (1 - 1)) = 0
      BY LevelsAssumption, CalendarAssumption
    <3>2. 2 * 0 = 2 * 0 + 0
      OBVIOUS
    <3>3. ASSUME LevelsInit
          PROVE  \A c \in Colors : earned[c] = 0 /\ xp[c] = 0 /\ level[c] = 1
      BY <3>3 DEF LevelsInit
    <3>4. 2 * 0 = 2 * 0 + XPPerLevel * (1 * (1 - 1))
      BY <3>1, <3>2
    <3> QED BY <3>3, <3>4, Zenon DEF XPAddsUp
  <2> QED BY <2>1, <2>2, <2>3 DEF LevelsInv
<1>2. LevelsInv /\ LevelsTypeOK' /\ [LevelsNext]_levelVars => LevelsInv'
  <2>1. ASSUME LevelsInv, LevelsTypeOK', LevelsWeek \/ UNCHANGED levelVars
        PROVE  LevelsInv'
    <3>1. UNCHANGED <<level, xp, nextLevelW, earned, levelledAt, paidAt>>
      BY <2>1 DEF LevelsWeek, levelVars
    <3> QED BY <2>1, <3>1 DEF LevelsInv, XPAddsUp, LevelsApart, NoLevelOverdue, CooldownRuns, Need
  <2>2. ASSUME LevelsInv, LevelsTypeOK', NEW traps \in SUBSET Colors, GainXP(traps)
        PROVE  LevelsInv'
    <3>1. \A c \in Colors \ traps :
            /\ earned'[c] = earned[c] /\ xp'[c] = xp[c] /\ level'[c] = level[c]
            /\ nextLevelW'[c] = nextLevelW[c] /\ levelledAt'[c] = levelledAt[c]
            /\ paidAt'[c] = paidAt[c]
      BY <2>2 DEF GainXP
    <3>2. XPAddsUp'
      BY <2>2, <3>1, GainXPColor DEF XPAddsUp, LevelsInv
    <3>3. LevelsApart'
      BY <2>2, <3>1, GainXPColor DEF LevelsApart, LevelsInv
    <3>4. NoLevelOverdue'
      <4> SUFFICES ASSUME NEW c \in Colors, xp'[c] >= XPPerLevel * level'[c]
                   PROVE  level'[c] = LevelMax \/ paidAt'[c] < nextLevelW'[c]
        BY DEF NoLevelOverdue, Need
      <4>1. CASE c \in traps
        BY <2>2, <4>1, GainXPColor
      <4>2. CASE c \notin traps
        BY <3>1, <4>2, <2>2 DEF LevelsInv, NoLevelOverdue, Need
      <4> QED BY <4>1, <4>2
    <3>5. CooldownRuns'
      BY <2>2, <3>1, GainXPColor DEF CooldownRuns, LevelsInv
    <3> QED BY <2>2, <3>2, <3>3, <3>4, <3>5 DEF LevelsInv
  <2> QED BY <2>1, <2>2 DEF LevelsNext
<1> QED BY <1>1, <1>2, LevelsTypeCorrect, PTL DEF LevelsSpec

(* No experience is ever lost or made up. *)
THEOREM XPAlwaysAddsUp == LevelsSpec => []XPAddsUp
<1>1. LevelsInv => XPAddsUp
  BY DEF LevelsInv
<1> QED BY <1>1, LevelsInvariance, PTL

(* Two levels of one Couleur are always a cooldown apart. *)
THEOREM LevelsAlwaysApart == LevelsSpec => []LevelsApart
<1>1. LevelsInv => LevelsApart
  BY DEF LevelsInv
<1> QED BY <1>1, LevelsInvariance, PTL

(* No level is ever overdue. *)
THEOREM NeverOverdue == LevelsSpec => []NoLevelOverdue
<1>1. LevelsInv => NoLevelOverdue
  BY DEF LevelsInv
<1> QED BY <1>1, LevelsInvariance, PTL

----------------------------------------------------------------------------
(* Both, as a finished run moves them. *)

LEMMA StepsAreSteps ==
  ASSUME [StandingNext]_standing
  PROVE  [RankNext]_rankVars /\ [LevelsNext]_levelVars
<1>1. CASE PayAttempt
  <2>1. LevelsNext
    BY <1>1 DEF PayAttempt, LevelsNext
  <2>2. UNCHANGED rankVars
    BY <1>1 DEF PayAttempt
  <2> QED BY <2>1, <2>2
<1>2. CASE MoveRank
  <2>1. RankNext
    BY <1>2 DEF MoveRank, RankNext
  <2>2. UNCHANGED levelVars
    BY <1>2 DEF MoveRank
  <2> QED BY <2>1, <2>2
<1>3. CASE WeekPasses
  BY <1>3 DEF WeekPasses, RankNext, LevelsNext
<1>4. CASE UNCHANGED standing
  BY <1>4 DEF standing
<1> QED BY <1>1, <1>2, <1>3, <1>4 DEF StandingNext

(* Every history of finished runs is one of the rank: what is proved of     *)
(* RankSpec holds of a run's Apply.                                             *)
THEOREM StandingKeepsRank == StandingSpec => RankSpec
<1>1. StandingInit => RankInit
  BY DEF StandingInit
<1> QED BY <1>1, StepsAreSteps, PTL DEF StandingSpec, RankSpec

(* And one of the experience: what is proved of LevelsSpec holds of a       *)
(* run's Apply.                                                             *)
THEOREM StandingKeepsLevels == StandingSpec => LevelsSpec
<1>1. StandingInit => LevelsInit
  BY DEF StandingInit
<1> QED BY <1>1, StepsAreSteps, PTL DEF StandingSpec, LevelsSpec

----------------------------------------------------------------------------
(* Play and Twins. *)

LEMMA MulInNat ==
  ASSUME NEW m \in Nat, NEW n \in Nat
  PROVE  m * n \in Nat
OBVIOUS

LEMMA TrapChipsInNat ==
  ASSUME NEW c \in Couleur, NEW w \in Word, NEW owned, NEW ctx \in Ctx
  PROVE  TrapChips(c, w, owned, ctx) \in Nat
<1>1. Traps[w][c] \in Nat /\ ChipPerTrap \in Nat BY ScoreAssumption
<1>2. ctx.levels[c] \in Nat BY DEF Ctx
<1>4. Times(Doubled(c, owned), 2) \in Nat BY DEF Times
<1>5. Traps[w][c] * ChipPerTrap \in Nat BY <1>1, MulInNat
<1>6. Traps[w][c] * ChipPerTrap * ctx.levels[c] \in Nat BY <1>2, <1>5, MulInNat
<1>7. Traps[w][c] * ChipPerTrap * ctx.levels[c] * Times(Doubled(c, owned), 2) \in Nat
  BY <1>4, <1>6, MulInNat
<1> QED BY <1>7 DEF TrapChips

LEMMA BareChipsInNat ==
  ASSUME NEW w \in Word, NEW owned, NEW ctx \in Ctx
  PROVE  BareChips(w, owned, ctx) \in Nat
<1>1. \A c \in Couleur : TrapChips(c, w, owned, ctx) \in Nat BY TrapChipsInNat
<1>2. Letters[w] \in Nat BY ScoreAssumption
<1> QED BY <1>1, <1>2 DEF BareChips, Couleur

LEMMA ScoreChipsInNat ==
  ASSUME NEW a \in Attempts, NEW ws \in ScoredStates, NEW owned, NEW ctx \in Ctx
  PROVE  scoreChips(a, ws, owned, ctx) \in Nat
<1>0. a.word \in Word BY DEF Attempts
<1>2. BareChips(a.word, owned, ctx) \in Nat BY <1>0, BareChipsInNat
<1>3. GoldHalves(ws, owned) \in Nat
  <2>1. Times("Bibliothecaire" \in owned, 2) \in Nat BY DEF Times
  <2>2. Times(ws.tarnished, 2) \in Nat BY DEF Times
  <2>3. (IF "Aimant" \in owned THEN 3 ELSE 2) \in Nat OBVIOUS
  <2>4. (IF "Aimant" \in owned THEN 3 ELSE 2) * Times("Bibliothecaire" \in owned, 2) \in Nat
    BY <2>1, <2>3, MulInNat
  <2>5. (IF "Aimant" \in owned THEN 3 ELSE 2) * Times("Bibliothecaire" \in owned, 2)
          * Times(ws.tarnished, 2) \in Nat
    BY <2>2, <2>4, MulInNat
  <2> QED BY <2>5 DEF GoldHalves
<1>4. Times(ws.cursed, 5) \in Nat BY DEF Times
<1>5. BlindMult + Plus("Sourd" \in owned, 1) \in Nat BY ScoreAssumption DEF Plus
<1>6. Times(a.blind, BlindMult + Plus("Sourd" \in owned, 1)) \in Nat BY <1>5 DEF Times
<1>7. BareChips(a.word, owned, ctx) * GoldHalves(ws, owned) \in Nat BY <1>2, <1>3, MulInNat
<1>8. BareChips(a.word, owned, ctx) * GoldHalves(ws, owned) * Times(ws.cursed, 5) \in Nat
  BY <1>4, <1>7, MulInNat
<1>9. BareChips(a.word, owned, ctx) * GoldHalves(ws, owned) * Times(ws.cursed, 5)
        * Times(a.blind, BlindMult + Plus("Sourd" \in owned, 1)) \in Nat
  BY <1>6, <1>8, MulInNat
<1> QED BY <1>9 DEF scoreChips

LEMMA MultBonusInNat ==
  ASSUME NEW w \in Word, NEW ws \in ScoredStates, NEW owned, NEW ctx \in Ctx
  PROVE  multBonus(w, ws, owned, ctx) \in Nat
<1>1. \A c \in Couleur : Traps[w][c] \in Nat BY ScoreAssumption
<1>2. 2 * Traps[w]["Jumelles"] \in Nat /\ 3 * Traps[w]["Muettes"] \in Nat
      /\ 2 * Traps[w]["Accordees"] \in Nat
  BY <1>1 DEF Couleur
<1>3. ctx.goldPlayed \in Nat BY DEF Ctx
<1>4. /\ Plus("Perroquet" \in owned, 1) \in Nat
      /\ Plus("Chronometre" \in owned /\ ctx.fast, 4) \in Nat
      /\ Plus("Jumeau" \in owned, 2 * Traps[w]["Jumelles"]) \in Nat
      /\ Plus("Fantome" \in owned, 3 * Traps[w]["Muettes"]) \in Nat
      /\ Plus("Meute" \in owned, 2 * Traps[w]["Accordees"]) \in Nat
      /\ Plus("Collectionneur" \in owned, ctx.goldPlayed) \in Nat
      /\ Plus("Colosse" \in owned, 5) \in Nat
      /\ Plus("Tambour" \in owned /\ ws.cursed, 6) \in Nat
  BY <1>2, <1>3 DEF Plus
<1> QED BY <1>4 DEF multBonus

(* What a score is made of: a fault is worth nothing at all, and a right    *)
(* answer is taken at no less than the combo.                               *)
LEMMA ScoreShape ==
  ASSUME NEW a \in Attempts, NEW ws \in ScoredStates, NEW owned, NEW combo \in Nat, NEW ctx \in Ctx
  PROVE  LET s == ScoreOf(a, ws, owned, combo, ctx)
         IN /\ s.chips \in Nat /\ s.mult \in Nat
            /\ a.correct => s.mult >= combo
            /\ ~a.correct => s.chips = 0 /\ s.mult = 0
<1>1. scoreChips(a, ws, owned, ctx) \in Nat BY ScoreChipsInNat
<1>2. multBonus(a.word, ws, owned, ctx) \in Nat BY MultBonusInNat DEF Attempts
<1>3. CASE a.correct BY <1>1, <1>2, <1>3 DEF ScoreOf
<1>4. CASE ~a.correct BY <1>4 DEF ScoreOf
<1> QED BY <1>3, <1>4

----------------------------------------------------------------------------
(* Types *)

LEMMA BonusType == ASSUME NEW b PROVE Plus(b, 1) \in 0..1 /\ Plus(b, 1) \in Nat
BY DEF Plus

LEMMA BossType == ASSUME NEW m PROVE bossOf(m) \in Bosses \cup {"NoBoss"}
BY PlayAssumption DEF bossOf

LEMMA CtxType ==
  ASSUME NEW a \in Attempts, NEW lvls \in [Couleur -> Nat],
         NEW boss \in Bosses \cup {"NoBoss"}, NEW g \in Nat
  PROVE  CtxOf(a, lvls, boss, g) \in Ctx
<1>1. a.fast \in BOOLEAN BY DEF Attempts
<1> QED BY <1>1 DEF CtxOf, Ctx

LEMMA StartMancheType ==
  ASSUME NEW r \in Counters, NEW m \in Manches, NEW b
  PROVE  StartManche(r, m, b) \in Counters
BY BossType, BonusType DEF StartManche, Counters

LEMMA NewRunScoreType == NewRunScore \in Counters
<1> DEFINE zero == [scores |-> [m \in Manches |-> 0], combo |-> 1, manche |-> 1, boss |-> "NoBoss",
                    revancheBonus |-> 0, goldPlayed |-> 0, gommeSpent |-> FALSE]
<1>1. zero \in Counters BY DEF Counters, Manches
<1>2. NewRunScore = StartManche(zero, 1, FALSE) BY DEF NewRunScore
<1>3. 1 \in Manches BY DEF Manches
<1> HIDE DEF zero
<1> QED BY <1>1, <1>2, <1>3, StartMancheType

LEMMA ApplyAnswerType ==
  ASSUME NEW r \in Counters, NEW a \in Attempts
  PROVE  ApplyAnswer(r, a) \in Counters
<1> DEFINE ws == States[a.word]
           s  == ScoreOf(a, ws, Owned, r.combo + r.revancheBonus,
                         CtxOf(a, Levels, r.boss, r.goldPlayed))
           forgive == ~a.correct /\ "Gomme" \in Owned /\ ~r.gommeSpent
           combo == IF a.correct THEN r.combo + Plus(~a.copy, 1)
                    ELSE IF forgive THEN r.combo ELSE 1
<1>1. /\ r.scores \in [Manches -> Nat] /\ r.manche \in Manches /\ r.combo \in Nat
      /\ r.goldPlayed \in Nat /\ r.revancheBonus \in Nat /\ r.boss \in Bosses \cup {"NoBoss"}
  BY DEF Counters
<1>2. ws \in ScoredStates BY PlayAssumption DEF Attempts
<1>3. s.chips \in Nat /\ s.mult \in Nat
  <2>1. CtxOf(a, Levels, r.boss, r.goldPlayed) \in Ctx BY <1>1, CtxType, PlayAssumption
  <2>2. r.combo + r.revancheBonus \in Nat BY <1>1
  <2> HIDE DEF ws
  <2> QED BY <1>2, <2>1, <2>2, ScoreShape
<1>4. s.chips * s.mult \in Nat BY <1>3, MulInNat
<1> DEFINE scores == [r.scores EXCEPT ![r.manche] = r.scores[r.manche] + s.chips * s.mult]
           gold   == r.goldPlayed + Plus(ws.gold, 1)
           spent  == r.gommeSpent \/ forgive
<1>5. scores \in [Manches -> Nat] BY <1>1, <1>4
<1>6. gold \in Nat BY <1>1, BonusType
<1>7. combo \in Nat BY <1>1, BonusType
<1>8. spent \in BOOLEAN OBVIOUS
<1>9. ApplyAnswer(r, a) = [r EXCEPT !.scores = scores, !.goldPlayed = gold, !.combo = combo,
                                    !.gommeSpent = spent]
  BY <1>1 DEF ApplyAnswer, Counters
<1> HIDE DEF ws, s, forgive, combo, scores, gold, spent
<1> QED BY <1>5, <1>6, <1>7, <1>8, <1>9 DEF Counters

(* One answer of the walk: the score without the bonus is never negative,   *)
(* for a fault is worth nothing before the bonus is taken off.              *)
LEMMA ScoredType ==
  ASSUME NEW p \in WalkRecords, NEW a \in Attempts
  PROVE  Scored(p, a) \in WalkRecords
<1> DEFINE ws    == p.states[a.word]
           bonus == RevancheBonus(p.manche)
           s     == ScoreOf(a, ws, Owned, p.combo + bonus,
                            CtxOf(a, p.levels, bossOf(p.manche), p.goldPlayed))
<1>1. /\ p.scores \in [Manches -> Nat] /\ p.manche \in Manches /\ p.combo \in Nat
      /\ p.goldPlayed \in Nat /\ p.raw \in Nat /\ p.at \in Nat
      /\ p.states \in [Word -> ScoredStates] /\ p.levels \in [Couleur -> Nat]
  BY DEF WalkRecords
<1>2. ws \in ScoredStates BY <1>1 DEF Attempts
<1>3. bonus \in Nat BY BonusType DEF RevancheBonus
<1>4. /\ s.chips \in Nat /\ s.mult \in Nat
      /\ a.correct => s.mult >= p.combo + bonus
      /\ ~a.correct => s.chips = 0
  <2>1. CtxOf(a, p.levels, bossOf(p.manche), p.goldPlayed) \in Ctx BY <1>1, CtxType, BossType
  <2>2. p.combo + bonus \in Nat BY <1>1, <1>3
  <2> HIDE DEF ws, bonus
  <2> QED BY <1>2, <2>1, <2>2, ScoreShape
<1> DEFINE scores == [p.scores EXCEPT ![p.manche] = p.scores[p.manche] + s.chips * s.mult]
           raw    == p.raw + s.chips * (s.mult - bonus)
           gold   == p.goldPlayed + Plus(ws.gold, 1)
           combo  == CASE a.correct /\ ~a.copy -> p.combo + 1
                       [] ~a.correct /\ ("Gomme" \notin Owned \/ p.gommeSpent) -> 1
                       [] OTHER -> p.combo
           spent  == p.gommeSpent \/ (~a.correct /\ "Gomme" \in Owned)
<1>5. scores \in [Manches -> Nat]
  <2> HIDE DEF s
  <2>1. s.chips * s.mult \in Nat BY <1>4, MulInNat
  <2> QED BY <1>1, <2>1
<1>6. raw \in Nat
  <2> HIDE DEF s, bonus
  <2>1. CASE a.correct
    <3>1. s.mult - bonus \in Nat BY <1>1, <1>3, <1>4, <2>1
    <3>2. s.chips * (s.mult - bonus) \in Nat BY <1>4, <3>1, MulInNat
    <3> QED BY <1>1, <3>2
  <2>2. CASE ~a.correct
    <3>1. s.chips = 0 /\ s.mult - bonus \in Int BY <1>3, <1>4, <2>2
    <3>2. s.chips * (s.mult - bonus) = 0 BY <3>1
    <3> QED BY <1>1, <3>2
  <2> QED BY <2>1, <2>2
<1>7. gold \in Nat BY <1>1, BonusType
<1>8. combo \in Nat BY <1>1
<1>9. spent \in BOOLEAN OBVIOUS
<1>10. Scored(p, a) = [p EXCEPT !.at = p.at + 1, !.goldPlayed = gold, !.scores = scores,
                                !.raw = raw, !.combo = combo, !.gommeSpent = spent]
  BY <1>1 DEF Scored, WalkRecords
<1>11. p.at + 1 \in Nat BY <1>1
<1> HIDE DEF ws, bonus, s, scores, raw, gold, combo, spent
<1>12. p \in WalkRecords OBVIOUS
<1> QED
  <2>1. [p EXCEPT !.at = p.at + 1, !.goldPlayed = gold, !.scores = scores,
                  !.raw = raw, !.combo = combo, !.gommeSpent = spent] \in WalkRecords
    BY <1>5, <1>6, <1>7, <1>8, <1>9, <1>11, <1>12 DEF WalkRecords
  <2> QED BY <1>10, <2>1

LEMMA PassedType ==
  ASSUME NEW p \in WalkRecords, NEW pay \in Nat
  PROVE  /\ Passed(p, pay) \in WalkRecords
         /\ Passed(p, pay).at = p.at
<1>1. p.manche \in Manches /\ p.money \in Nat BY DEF WalkRecords
<1>2. p.money + pay \in Nat BY <1>1
<1>3. CahierBonus \in Nat BY PlayAssumption
<1>4. CASE p.manche = 3 BY <1>2, <1>3, <1>4 DEF Passed, WalkRecords, Walks
<1>5. CASE p.manche # 3
  <2>1. p.manche + 1 \in Manches BY <1>1, <1>5 DEF Manches
  <2> QED BY <1>2, <1>5, <2>1 DEF Passed, WalkRecords
<1> QED BY <1>4, <1>5

LEMMA JudgedType ==
  ASSUME NEW p \in WalkRecords
  PROVE  /\ Judged(p) \in WalkRecords
         /\ Judged(p).at = p.at
<1> DEFINE target == Targets[p.manche]
           score  == p.scores[p.manche]
           pay    == MancheMoney + AtMost(score \div AtLeast(target, 2), 3)
           marked == [p EXCEPT !.taken = @ \cup {p.manche}]
<1>1. /\ p.manche \in Manches /\ score \in Nat /\ target \in Nat
      /\ MancheMoney \in Nat
  BY PlayAssumption DEF WalkRecords
<1>2. pay \in Nat
  <2> HIDE DEF score, target
  <2>1. AtLeast(target, 2) \in Nat /\ AtLeast(target, 2) > 0 BY <1>1 DEF AtLeast
  <2>2. score \div AtLeast(target, 2) \in Nat BY <1>1, <2>1
  <2>3. AtMost(score \div AtLeast(target, 2), 3) \in Nat BY <2>2 DEF AtMost
  <2> QED BY <1>1, <2>3
<1>3. marked \in WalkRecords /\ marked.at = p.at BY <1>1 DEF WalkRecords
<1>4. [p EXCEPT !.walk = "refused"] \in WalkRecords BY DEF WalkRecords, Walks
<1>5. [p EXCEPT !.walk = "failed", !.failedAt = p.manche] \in WalkRecords
  <2>1. p.manche \in 0..3 BY <1>1 DEF Manches
  <2> QED BY <2>1 DEF WalkRecords, Walks
<1>6. /\ Passed(marked, MancheMoney) \in WalkRecords
      /\ Passed(marked, MancheMoney).at = p.at
  <2> HIDE DEF marked
  <2> QED BY <1>1, <1>3, PassedType
<1>7. Passed(p, pay) \in WalkRecords /\ Passed(p, pay).at = p.at
  <2> HIDE DEF pay
  <2> QED BY <1>2, PassedType
<1>8. \/ Judged(p) = [p EXCEPT !.walk = "refused"]
      \/ Judged(p) = Passed(marked, MancheMoney)
      \/ Judged(p) = Passed(p, pay)
      \/ Judged(p) = [p EXCEPT !.walk = "failed", !.failedAt = p.manche]
  BY DEF Judged
<1>9. /\ [p EXCEPT !.walk = "refused"].at = p.at
      /\ [p EXCEPT !.walk = "failed", !.failedAt = p.manche].at = p.at
  BY DEF WalkRecords
<1> HIDE DEF marked, pay
<1> QED BY <1>4, <1>5, <1>6, <1>7, <1>8, <1>9

LEMMA InitType == Init => TypeOK
<1> SUFFICES ASSUME Init PROVE TypeOK OBVIOUS
<1>1. attempts \in Seq(Attempts) /\ shown \in Seq(Counters) /\ Len(shown) = Len(attempts)
      /\ Len(attempts) = 0
  BY EmptySeq DEF Init
<1>2. turn \in 0..WordsPerManche /\ ended \in 0..4 /\ others \in 0..MaxOthers
  BY PlayAssumption DEF Init
<1>3. counter \in Counters BY NewRunScoreType DEF Init
<1>4. levels \in [Couleur -> Nat] /\ states \in [Word -> ScoredStates] BY PlayAssumption DEF Init
<1>5. replay \in WalkRecords /\ replay.at = 0
  BY PlayAssumption DEF Init, NoWalk, WalkRecords, Walks, Manches
<1> QED BY <1>1, <1>2, <1>3, <1>4, <1>5 DEF Init, TypeOK

(* What an answer appends. *)
LEMMA AnswerFacts ==
  ASSUME TypeOK, NEW x \in Answers, Answer(x)
  PROVE  \E a \in Attempts :
           /\ a.manche = counter.manche
           /\ counter' = ApplyAnswer(counter, a)
           /\ counter' \in Counters
           /\ attempts' = Append(attempts, a) /\ attempts' \in Seq(Attempts)
           /\ shown' = Append(shown, counter') /\ shown' \in Seq(Counters)
           /\ Len(attempts') = Len(attempts) + 1 /\ Len(shown') = Len(shown) + 1
           /\ attempts'[Len(attempts) + 1] = a /\ shown'[Len(shown) + 1] = counter'
           /\ \A i \in 1..Len(attempts) : attempts'[i] = attempts[i] /\ shown'[i] = shown[i]
<1> DEFINE a == [word |-> x.word, manche |-> counter.manche, blind |-> x.blind,
                 copy |-> x.copy, correct |-> x.correct, fast |-> x.fast]
<1>0. counter \in Counters /\ attempts \in Seq(Attempts) /\ shown \in Seq(Counters)
      /\ Len(shown) = Len(attempts)
  BY DEF TypeOK
<1>1. counter.manche \in Manches BY <1>0 DEF Counters
<1>2. a \in Attempts BY <1>1, PlayAssumption
<1>3. a.manche = counter.manche OBVIOUS
<1>4. /\ counter' = ApplyAnswer(counter, a)
      /\ attempts' = Append(attempts, a) /\ shown' = Append(shown, counter')
  BY DEF Answer
<1> HIDE DEF a
<1>5. counter' \in Counters BY <1>0, <1>2, <1>4, ApplyAnswerType
<1>6. /\ attempts' \in Seq(Attempts) /\ Len(attempts') = Len(attempts) + 1
      /\ attempts'[Len(attempts) + 1] = a
      /\ \A i \in 1..Len(attempts) : attempts'[i] = attempts[i]
  BY <1>0, <1>2, <1>4, AppendProperties
<1>7. /\ shown' \in Seq(Counters) /\ Len(shown') = Len(shown) + 1
      /\ shown'[Len(shown) + 1] = counter'
      /\ \A i \in 1..Len(attempts) : shown'[i] = shown[i]
  BY <1>0, <1>4, <1>5, AppendProperties
<1> QED BY <1>2, <1>3, <1>4, <1>5, <1>6, <1>7

LEMMA NextType == TypeOK /\ [Next]_vars => TypeOK'
<1> SUFFICES ASSUME TypeOK, [Next]_vars PROVE TypeOK' OBVIOUS
<1>0. /\ counter \in Counters /\ counter.manche \in Manches
      /\ attempts \in Seq(Attempts) /\ shown \in Seq(Counters)
      /\ Len(attempts) \in Nat /\ turn \in 0..WordsPerManche /\ WordsPerManche \in Nat \ {0}
      /\ replay \in WalkRecords /\ replay.at \in Nat /\ replay.at <= Len(attempts)
      /\ levels \in [Couleur -> Nat] /\ states \in [Word -> ScoredStates]
  BY PlayAssumption, LenProperties DEF TypeOK, Counters, WalkRecords
<1>1. ASSUME NEW x \in Answers, Answer(x) PROVE TypeOK'
  <2>1. /\ counter' \in Counters /\ attempts' \in Seq(Attempts) /\ shown' \in Seq(Counters)
        /\ Len(shown') = Len(attempts') /\ Len(attempts') = Len(attempts) + 1
    BY <1>1, AnswerFacts DEF TypeOK
  <2>2. turn' \in 0..WordsPerManche BY <1>0, <1>1 DEF Answer
  <2>3. replay' = replay /\ replay.at <= Len(attempts') BY <1>0, <1>1, <2>1 DEF Answer
  <2> QED BY <1>1, <2>1, <2>2, <2>3 DEF Answer, rows, TypeOK
<1>2. CASE NextManche
  <2>1. CASE counter.manche = 3 BY <1>2, <2>1 DEF NextManche, rows, TypeOK
  <2>2. CASE counter.manche # 3
    <3>1. counter.manche + 1 \in Manches BY <1>0, <2>2 DEF Manches
    <3>2. counter' \in Counters BY <1>0, <1>2, <2>2, <3>1, StartMancheType DEF NextManche
    <3>3. turn' \in 0..WordsPerManche BY <1>0, <1>2, <2>2 DEF NextManche
    <3> QED BY <1>2, <2>2, <3>2, <3>3 DEF NextManche, rows, TypeOK
  <2> QED BY <2>1, <2>2
<1>3. CASE Revanche
  <2>1. counter' \in Counters BY <1>0, <1>3, StartMancheType DEF Revanche
  <2>2. turn' \in 0..WordsPerManche BY <1>0, <1>3 DEF Revanche
  <2>3. claim' \subseteq Manches BY <1>0, <1>3 DEF Revanche, TypeOK
  <2> QED BY <1>3, <2>1, <2>2, <2>3 DEF Revanche, rows, TypeOK
<1>4. CASE Lose
  <2>1. ended' \in 0..4 BY <1>0, <1>4 DEF Lose, Manches
  <2> QED BY <1>4, <2>1 DEF Lose, rows, TypeOK
<1>5. CASE OtherRun
  <2>1. levels' \in [Couleur -> Nat] /\ states' \in [Word -> ScoredStates]
    BY <1>5, PlayAssumption DEF OtherRun
  <2>2. others' \in 0..MaxOthers BY <1>5, PlayAssumption DEF OtherRun, TypeOK
  <2> QED BY <1>5, <2>1, <2>2 DEF OtherRun, client, TypeOK
<1>6. CASE Finish
  <2>1. replay' \in WalkRecords /\ replay'.at = replay.at
    BY <1>0, <1>6 DEF Finish, WalkRecords, Walks
  <2> QED BY <1>0, <1>6, <2>1 DEF Finish, client, rows, TypeOK
<1>7. CASE ReplayAttempt
  <2>1. replay.at + 1 \in 1..Len(attempts) BY <1>0, <1>7 DEF ReplayAttempt, MoreOf
  <2>2. attempts[replay.at + 1] \in Attempts BY <1>0, <2>1, ElementOfSeq
  <2>3. replay' \in WalkRecords BY <1>0, <1>7, <2>2, ScoredType DEF ReplayAttempt
  <2>4. replay'.at = replay.at + 1 BY <1>0, <1>7 DEF ReplayAttempt, Scored, WalkRecords
  <2>5. replay'.at <= Len(attempts) BY <1>0, <2>1, <2>4
  <2> QED BY <1>7, <2>3, <2>5 DEF ReplayAttempt, client, rows, TypeOK
<1>8. CASE ReplayManche
  <2>1. replay' \in WalkRecords /\ replay'.at = replay.at
    BY <1>0, <1>8, JudgedType DEF ReplayManche
  <2> QED BY <1>0, <1>8, <2>1 DEF ReplayManche, client, rows, TypeOK
<1>9. CASE UNCHANGED vars BY <1>9 DEF vars, client, rows, TypeOK
<1> QED BY <1>1, <1>2, <1>3, <1>4, <1>5, <1>6, <1>7, <1>8, <1>9 DEF Next

(* The types, and that no score taken without the Revanche's bonus is ever  *)
(* negative.                                                                *)
THEOREM PlayTypeCorrect == Spec => []TypeOK
<1>1. Init => TypeOK BY InitType
<1>2. TypeOK /\ [Next]_vars => TypeOK' BY NextType
<1> QED BY <1>1, <1>2, PTL DEF Spec

----------------------------------------------------------------------------
(* The client's counter and the server's walk, side by side *)

(* The counter an answer of manche m is applied to, after n answers. *)
Opened(n, m) ==
  IF n = 0 THEN NewRunScore
  ELSE IF m = attempts[n].manche THEN shown[n]
  ELSE StartManche(shown[n], m, FALSE)

Steady(r) == r.boss = bossOf(r.manche) /\ r.revancheBonus = 0

(* The history of a run without a Revanche: each counter is the one before  *)
(* it with the answer applied, and manches follow one another.              *)
HistoryInv ==
  claim = {} =>
    /\ counter = Opened(Len(attempts), counter.manche)
    /\ Steady(counter)
    /\ turn > 0 => Len(attempts) > 0 /\ attempts[Len(attempts)].manche = counter.manche
    /\ \A i \in 1..Len(attempts) :
         /\ shown[i] = ApplyAnswer(Opened(i - 1, attempts[i].manche), attempts[i])
         /\ shown[i].manche = attempts[i].manche
         /\ Steady(shown[i])
         /\ attempts[i].manche <= counter.manche
    /\ \A i, j \in 1..Len(attempts) : i <= j => attempts[i].manche <= attempts[j].manche

Matches(p, r) ==
  /\ p.scores = r.scores
  /\ p.combo = r.combo
  /\ p.goldPlayed = r.goldPlayed
  /\ p.gommeSpent = r.gommeSpent

(* A manche left behind is finished with: its score met its target and no   *)
(* later answer counts in it.                                               *)
EndInv ==
  /\ ended # 0 => turn = WordsPerManche
  /\ claim = {} =>
       /\ \A m \in Manches : m < counter.manche => counter.scores[m] >= Targets[m]
       /\ ended \in 1..3 => ended = counter.manche /\ ~Reached
       /\ ended = 4 => counter.manche = 3 /\ Reached
       /\ \A i \in 1..Len(attempts), m \in Manches :
            (i < Len(attempts) => attempts[i + 1].manche > m) =>
              shown[i].scores[m] = counter.scores[m]

(* The walk is where the counter was after the same answers. *)
WalkInv ==
  /\ replay.walk = "waiting" => replay = NoWalk
  /\ replay.walk # "waiting" => ended # 0
  /\ claim = {} /\ SameRows =>
       /\ Matches(replay, Opened(replay.at, replay.manche))
       /\ replay.at = 0 => replay.manche = 1
       /\ replay.at > 0 => attempts[replay.at].manche <= replay.manche
       /\ replay.at < Len(attempts) => attempts[replay.at + 1].manche >= replay.manche
       /\ replay.manche <= counter.manche
       /\ replay.walk = "won" => ended = 4
       /\ replay.walk = "failed" => ended = replay.failedAt
       /\ replay.walk # "refused"

LEMMA NewRunScoreIs ==
  /\ NewRunScore.manche = 1 /\ NewRunScore.combo = 1 /\ NewRunScore.goldPlayed = 0
  /\ NewRunScore.gommeSpent = FALSE /\ NewRunScore.scores = [m \in Manches |-> 0]
  /\ Steady(NewRunScore)
BY DEF NewRunScore, StartManche, Steady, Plus

LEMMA StartMancheIs ==
  ASSUME NEW r \in Counters, NEW m \in Manches
  PROVE  LET o == StartManche(r, m, FALSE)
         IN /\ o.manche = m /\ Steady(o) /\ o.scores = r.scores /\ o.combo = r.combo
            /\ o.goldPlayed = 0 /\ o.gommeSpent = FALSE
BY DEF StartManche, Steady, Counters, Plus

LEMMA ApplyAnswerKeeps ==
  ASSUME NEW r \in Counters, NEW a \in Attempts, Steady(r)
  PROVE  ApplyAnswer(r, a).manche = r.manche /\ Steady(ApplyAnswer(r, a))
BY DEF ApplyAnswer, Counters, Steady

LEMMA ApplyAnswerScores ==
  ASSUME NEW r \in Counters, NEW a \in Attempts, NEW m \in Manches, m # r.manche
  PROVE  ApplyAnswer(r, a).scores[m] = r.scores[m]
BY DEF ApplyAnswer, Counters

(* The same answer, scored by RunScore and by Replay. *)
LEMMA SameAnswer ==
  ASSUME NEW p \in WalkRecords, NEW r \in Counters, NEW a \in Attempts,
         Matches(p, r), Steady(r), r.manche = p.manche,
         p.levels = Levels, p.states = States, claim = {}
  PROVE  Matches(Scored(p, a), ApplyAnswer(r, a))
<1> DEFINE ws == States[a.word]
           s  == ScoreOf(a, ws, Owned, r.combo, CtxOf(a, Levels, r.boss, r.goldPlayed))
<1>1. RevancheBonus(p.manche) = 0 /\ p.combo + 0 = r.combo /\ r.combo + r.revancheBonus = r.combo
      /\ p.combo + RevancheBonus(p.manche) = r.combo
  BY DEF RevancheBonus, Plus, Steady, Matches, Counters
<1>2. ScoreOf(a, p.states[a.word], Owned, p.combo + RevancheBonus(p.manche),
              CtxOf(a, p.levels, bossOf(p.manche), p.goldPlayed)) = s
  BY <1>1 DEF Matches, Steady
<1>3. ScoreOf(a, ws, Owned, r.combo + r.revancheBonus, CtxOf(a, Levels, r.boss, r.goldPlayed)) = s
  BY <1>1
<1>4. a.correct \in BOOLEAN /\ a.copy \in BOOLEAN BY DEF Attempts
<1>5. Scored(p, a).scores = ApplyAnswer(r, a).scores
  BY <1>2, <1>3 DEF Scored, ApplyAnswer, Matches, WalkRecords, Counters
<1>6. Scored(p, a).goldPlayed = ApplyAnswer(r, a).goldPlayed
  BY DEF Scored, ApplyAnswer, Matches, WalkRecords, Counters
<1>7. Scored(p, a).combo = ApplyAnswer(r, a).combo
  <2>1. CASE a.correct
    BY <1>4, <2>1 DEF Scored, ApplyAnswer, Matches, WalkRecords, Counters, Plus
  <2>2. CASE ~a.correct
    BY <1>4, <2>2 DEF Scored, ApplyAnswer, Matches, WalkRecords, Counters, Plus
  <2> QED BY <2>1, <2>2
<1>8. Scored(p, a).gommeSpent = ApplyAnswer(r, a).gommeSpent
  BY DEF Scored, ApplyAnswer, Matches, WalkRecords, Counters
<1> QED BY <1>5, <1>6, <1>7, <1>8 DEF Matches

LEMMA OpenedIs ==
  ASSUME TypeOK, HistoryInv, claim = {}, NEW n \in 0..Len(attempts), NEW m \in Manches,
         n = 0 => m = 1
  PROVE  /\ Opened(n, m) \in Counters
         /\ Opened(n, m).manche = m
         /\ Steady(Opened(n, m))
<1>1. CASE n = 0 BY <1>1, NewRunScoreIs, NewRunScoreType DEF Opened
<1>2. CASE n # 0
  <2>1. n \in 1..Len(attempts) BY <1>2, LenProperties DEF TypeOK
  <2>2. shown[n] \in Counters BY <2>1, ElementOfSeq DEF TypeOK
  <2>3. shown[n].manche = attempts[n].manche /\ Steady(shown[n]) BY <2>1 DEF HistoryInv
  <2> QED BY <1>2, <2>2, <2>3, StartMancheType, StartMancheIs DEF Opened
<1> QED BY <1>1, <1>2

LEMMA HistoryInit == Init => HistoryInv
<1> SUFFICES ASSUME Init PROVE HistoryInv OBVIOUS
<1>1. Len(attempts) = 0 /\ turn = 0 /\ counter = NewRunScore BY DEF Init
<1> QED BY <1>1, NewRunScoreIs DEF HistoryInv, Opened

(* What happened is scored the same as long as it is not added to. *)
LEMMA PastSame ==
  ASSUME UNCHANGED <<attempts, shown>>, NEW i \in Int
  PROVE  /\ ApplyAnswer(Opened(i - 1, attempts[i].manche), attempts[i])'
              = ApplyAnswer(Opened(i - 1, attempts[i].manche), attempts[i])
         /\ Steady(shown[i])' = Steady(shown[i])
<1>1. Opened(i - 1, attempts[i].manche)' = Opened(i - 1, attempts[i].manche)
  BY DEF Opened, NewRunScore, StartManche, bossOf, Plus
<1>2. ApplyAnswer(Opened(i - 1, attempts[i].manche), attempts[i])'
        = ApplyAnswer(Opened(i - 1, attempts[i].manche)', attempts'[i])
  BY DEF ApplyAnswer, CtxOf, ScoreOf, scoreChips, multBonus, BareChips, TrapChips, GoldHalves,
         Plus, Times, Doubled
<1>3. Steady(shown[i])' = Steady(shown[i]) BY DEF Steady, bossOf
<1> QED BY <1>1, <1>2, <1>3

LEMMA HistorySame ==
  HistoryInv /\ UNCHANGED <<attempts, turn, counter, shown, claim>> => HistoryInv'
<1> SUFFICES ASSUME HistoryInv, UNCHANGED <<attempts, turn, counter, shown, claim>>, claim = {}
             PROVE  HistoryInv'
  BY DEF HistoryInv
<1>1. counter' = Opened(Len(attempts), counter.manche)' /\ Steady(counter)'
  BY DEF HistoryInv, Opened, NewRunScore, StartManche, bossOf, Plus, Steady
<1>2. \A i \in 1..Len(attempts') :
         /\ shown[i]' = ApplyAnswer(Opened(i - 1, attempts[i].manche), attempts[i])'
         /\ shown[i]'.manche = attempts[i]'.manche
         /\ Steady(shown[i])'
         /\ attempts[i]'.manche <= counter'.manche
  BY PastSame DEF HistoryInv
<1>3. turn' > 0 => Len(attempts') > 0 /\ attempts'[Len(attempts')].manche = counter'.manche
  BY DEF HistoryInv
<1>4. \A i, j \in 1..Len(attempts') : i <= j => attempts'[i].manche <= attempts'[j].manche
  BY DEF HistoryInv
<1> QED BY <1>1, <1>2, <1>3, <1>4 DEF HistoryInv

LEMMA HistoryStep == TypeOK /\ HistoryInv /\ [Next]_vars => HistoryInv'
<1> SUFFICES ASSUME TypeOK, HistoryInv, [Next]_vars, claim' = {} PROVE HistoryInv'
  BY DEF HistoryInv
<1>0. /\ counter \in Counters /\ counter.manche \in Manches /\ counter.manche \in Int
      /\ attempts \in Seq(Attempts) /\ shown \in Seq(Counters) /\ Len(shown) = Len(attempts)
      /\ Len(attempts) \in Nat /\ WordsPerManche \in Nat \ {0} /\ turn \in Nat
  BY PlayAssumption, LenProperties DEF TypeOK, Counters, Manches
<1>1. ASSUME NEW x \in Answers, Answer(x) PROVE HistoryInv'
  <2>0. claim = {} /\ claim' = claim BY <1>1 DEF Answer
  <2>1. PICK a \in Attempts :
           /\ a.manche = counter.manche
           /\ counter' = ApplyAnswer(counter, a)
           /\ counter' \in Counters
           /\ Len(attempts') = Len(attempts) + 1
           /\ attempts'[Len(attempts) + 1] = a /\ shown'[Len(shown) + 1] = counter'
           /\ \A i \in 1..Len(attempts) : attempts'[i] = attempts[i] /\ shown'[i] = shown[i]
    BY <1>1, AnswerFacts
  <2>2. counter'.manche = counter.manche /\ Steady(counter')
    BY <1>0, <2>0, <2>1, ApplyAnswerKeeps DEF HistoryInv
  <2>3. Steady(counter)' BY <2>2 DEF Steady, bossOf
  <2>4. Opened(Len(attempts), counter.manche)' = counter'
    <3>1. Len(attempts') # 0 /\ attempts'[Len(attempts')] = a /\ shown'[Len(attempts')] = counter'
      BY <1>0, <2>1
    <3>2. attempts'[Len(attempts')].manche = counter'.manche BY <2>1, <2>2, <3>1
    <3> QED BY <3>1, <3>2 DEF Opened
  <2>5. turn' > 0 => Len(attempts') > 0 /\ attempts'[Len(attempts')].manche = counter'.manche
    BY <1>0, <2>1, <2>2
  <2>6. \A i \in 1..Len(attempts') :
           /\ shown'[i] = ApplyAnswer(Opened(i - 1, attempts[i].manche)', attempts'[i])
           /\ shown'[i].manche = attempts'[i].manche
           /\ Steady(shown'[i])
           /\ attempts'[i].manche <= counter'.manche
    <3> TAKE i \in 1..Len(attempts')
    <3>1. CASE i \in 1..Len(attempts)
      <4>1. Opened(i - 1, attempts[i].manche)' = Opened(i - 1, attempts[i].manche)
        <5>1. CASE i = 1 BY <5>1 DEF Opened
        <5>2. CASE i # 1
          <6>1. i - 1 \in 1..Len(attempts) /\ i - 1 # 0 BY <1>0, <3>1, <5>2
          <6> QED BY <2>1, <3>1, <6>1 DEF Opened
        <5> QED BY <5>1, <5>2
      <4> QED BY <2>0, <2>1, <2>2, <3>1, <4>1 DEF HistoryInv
    <3>2. CASE i = Len(attempts) + 1
      <4>1. Opened(i - 1, attempts[i].manche)' = Opened(Len(attempts), counter.manche)
        <5>1. i - 1 = Len(attempts) /\ attempts'[i].manche = counter.manche BY <1>0, <2>1, <3>2
        <5>2. CASE Len(attempts) = 0 BY <5>1, <5>2 DEF Opened
        <5>3. CASE Len(attempts) # 0
          <6>1. Len(attempts) \in 1..Len(attempts) BY <1>0, <5>3
          <6> QED BY <2>1, <5>1, <5>3, <6>1 DEF Opened
        <5> QED BY <5>2, <5>3
      <4>2. shown'[i] = counter' /\ attempts'[i] = a BY <1>0, <2>1, <3>2
      <4>3. counter = Opened(Len(attempts), counter.manche) BY <2>0 DEF HistoryInv
      <4> QED BY <1>0, <2>1, <2>2, <4>1, <4>2, <4>3
    <3> QED BY <1>0, <2>1, <3>1, <3>2
  <2>7. \A i, j \in 1..Len(attempts') : i <= j => attempts'[i].manche <= attempts'[j].manche
    <3> SUFFICES ASSUME NEW i \in 1..Len(attempts'), NEW j \in 1..Len(attempts'), i <= j
                 PROVE  attempts'[i].manche <= attempts'[j].manche
      OBVIOUS
    <3>1. CASE j \in 1..Len(attempts)
      <4>1. i \in 1..Len(attempts) BY <1>0, <3>1
      <4> QED BY <2>0, <2>1, <3>1, <4>1 DEF HistoryInv
    <3>2. CASE j = Len(attempts) + 1
      <4>1. attempts'[j].manche = counter'.manche BY <2>1, <2>2, <3>2
      <4> QED BY <2>6, <4>1
    <3> QED BY <1>0, <2>1, <3>1, <3>2
  <2>8. \A i \in 1..Len(attempts') : Steady(shown[i])' BY <2>6 DEF Steady, bossOf
  <2>9. \A i \in 1..Len(attempts') :
           ApplyAnswer(Opened(i - 1, attempts[i].manche), attempts[i])'
             = ApplyAnswer(Opened(i - 1, attempts[i].manche)', attempts'[i])
    BY DEF ApplyAnswer, CtxOf, ScoreOf, scoreChips, multBonus, BareChips, TrapChips, GoldHalves,
           Plus, Times, Doubled
  <2> QED BY <2>3, <2>4, <2>5, <2>6, <2>7, <2>8, <2>9 DEF HistoryInv
<1>2. CASE NextManche
  <2>0. claim = {} /\ attempts' = attempts /\ shown' = shown BY <1>2 DEF NextManche
  <2>1. CASE counter.manche = 3
    <3>1. UNCHANGED <<attempts, turn, counter, shown, claim>> BY <1>2, <2>1 DEF NextManche
    <3> QED BY <3>1, HistorySame
  <2>2. CASE counter.manche # 3
    <3>1. turn > 0 BY <1>0, <1>2 DEF NextManche
    <3>2. Len(attempts) > 0 /\ attempts[Len(attempts)].manche = counter.manche
          /\ Len(attempts) \in 1..Len(attempts)
      BY <1>0, <2>0, <3>1 DEF HistoryInv
    <3>3. counter.manche + 1 \in Manches /\ counter.manche + 1 # counter.manche
      BY <1>0, <2>2 DEF Manches
    <3>4. counter' = StartManche(shown[Len(attempts)], counter.manche + 1, FALSE)
          /\ counter = shown[Len(attempts)] /\ turn' = 0
      <4>1. counter = Opened(Len(attempts), counter.manche) BY <2>0 DEF HistoryInv
      <4>2. counter = shown[Len(attempts)] BY <3>2, <4>1 DEF Opened
      <4>3. counter' = StartManche(counter, counter.manche + 1, FALSE) /\ turn' = 0
        BY <1>2, <2>2 DEF NextManche
      <4> QED BY <4>2, <4>3
    <3>5. counter'.manche = counter.manche + 1 /\ Steady(counter')
      BY <1>0, <3>3, <3>4, StartMancheIs
    <3>6. Opened(Len(attempts), counter.manche)' = counter'
      <4>1. Len(attempts') # 0 /\ attempts'[Len(attempts')].manche # counter'.manche
            /\ shown'[Len(attempts')] = shown[Len(attempts)]
        BY <2>0, <3>2, <3>3, <3>5
      <4>2. counter' = StartManche(shown'[Len(attempts')], counter'.manche, FALSE)
        BY <3>4, <3>5, <4>1
      <4>3. Opened(Len(attempts), counter.manche)'
              = StartManche(shown'[Len(attempts')], counter'.manche, FALSE)
        BY <4>1 DEF Opened, StartManche, bossOf, Plus
      <4> QED BY <4>2, <4>3
    <3>7. \A i \in 1..Len(attempts) : attempts[i].manche <= counter'.manche
      <4> TAKE i \in 1..Len(attempts)
      <4>1. attempts[i].manche <= attempts[Len(attempts)].manche
        BY <1>0, <2>0, <3>2 DEF HistoryInv
      <4>2. attempts[i] \in Attempts BY <1>0, ElementOfSeq
      <4>3. attempts[i].manche \in Int BY <4>2 DEF Attempts
      <4> QED BY <1>0, <3>2, <3>5, <4>1, <4>3
    <3>8. Steady(counter)' BY <3>5 DEF Steady, bossOf
    <3>9. turn' > 0 => Len(attempts') > 0 /\ attempts'[Len(attempts')].manche = counter'.manche
      BY <3>4
    <3>10. \A i \in 1..Len(attempts') :
              /\ shown[i]' = ApplyAnswer(Opened(i - 1, attempts[i].manche), attempts[i])'
              /\ shown[i]'.manche = attempts[i]'.manche
              /\ Steady(shown[i])'
      BY <2>0, PastSame DEF HistoryInv
    <3>11. \A i, j \in 1..Len(attempts') : i <= j => attempts'[i].manche <= attempts'[j].manche
      BY <2>0 DEF HistoryInv
    <3> QED BY <2>0, <3>6, <3>7, <3>8, <3>9, <3>10, <3>11 DEF HistoryInv
  <2> QED BY <2>1, <2>2
<1>3. CASE Revanche BY <1>3 DEF Revanche
<1>4. CASE UNCHANGED <<attempts, turn, counter, shown, claim>>
  BY <1>4, HistorySame
<1> QED BY <1>1, <1>2, <1>3, <1>4
  DEF Next, Lose, OtherRun, Finish, ReplayAttempt, ReplayManche, vars, client

LEMMA EndInit == Init => EndInv
<1> SUFFICES ASSUME Init PROVE EndInv OBVIOUS
<1>1. Len(attempts) = 0 /\ ended = 0 /\ counter.manche = 1 BY NewRunScoreIs DEF Init
<1> QED BY <1>1 DEF EndInv, Manches

LEMMA EndStep == TypeOK /\ HistoryInv /\ EndInv /\ [Next]_vars => EndInv'
<1> SUFFICES ASSUME TypeOK, HistoryInv, EndInv, [Next]_vars PROVE EndInv'
  OBVIOUS
<1>0. /\ counter \in Counters /\ counter.manche \in Manches /\ counter.manche \in Int
      /\ counter.scores \in [Manches -> Nat]
      /\ attempts \in Seq(Attempts) /\ shown \in Seq(Counters) /\ Len(shown) = Len(attempts)
      /\ Len(attempts) \in Nat /\ WordsPerManche \in Nat \ {0} /\ turn \in Nat /\ ended \in 0..4
      /\ Targets \in [Manches -> Nat]
  BY PlayAssumption, LenProperties DEF TypeOK, Counters, Manches
<1>1. ASSUME NEW x \in Answers, Answer(x) PROVE EndInv'
  <2>0. ended = 0 /\ ended' = 0 /\ claim' = claim BY <1>1 DEF Answer
  <2>1. PICK a \in Attempts :
           /\ a.manche = counter.manche
           /\ counter' = ApplyAnswer(counter, a)
           /\ counter' \in Counters
           /\ Len(attempts') = Len(attempts) + 1
           /\ attempts'[Len(attempts) + 1] = a /\ shown'[Len(shown) + 1] = counter'
           /\ \A i \in 1..Len(attempts) : attempts'[i] = attempts[i] /\ shown'[i] = shown[i]
    BY <1>1, AnswerFacts
  <2>2. claim = {} => counter'.manche = counter.manche
    BY <1>0, <2>1, ApplyAnswerKeeps DEF HistoryInv
  <2>3. \A m \in Manches : m # counter.manche => counter'.scores[m] = counter.scores[m]
    BY <1>0, <2>1, ApplyAnswerScores
  <2>4. claim = {} => \A m \in Manches : m < counter'.manche => counter'.scores[m] >= Targets[m]
    BY <1>0, <2>2, <2>3, SMTT(20) DEF EndInv, Manches
  <2>5. ASSUME claim = {}, NEW i \in 1..Len(attempts'), NEW m \in Manches,
               i < Len(attempts') => attempts'[i + 1].manche > m
        PROVE  shown'[i].scores[m] = counter'.scores[m]
    <3>1. CASE i = Len(attempts) + 1 BY <1>0, <2>1, <3>1
    <3>2. CASE i \in 1..Len(attempts)
      <4>1. shown'[i] = shown[i] /\ i < Len(attempts') /\ attempts'[i + 1].manche > m
        BY <1>0, <2>1, <2>5, <3>2
      <4>2. CASE i = Len(attempts)
        <5>1. m # counter.manche BY <1>0, <2>1, <4>1, <4>2
        <5> QED BY <1>0, <2>3, <2>5, <3>2, <4>1, <4>2, <5>1 DEF EndInv
      <4>3. CASE i < Len(attempts)
        <5>1. i + 1 \in 1..Len(attempts) BY <1>0, <3>2, <4>3
        <5>2. attempts[i + 1].manche > m /\ attempts[i + 1].manche <= counter.manche
          BY <2>1, <2>5, <4>1, <5>1 DEF HistoryInv
        <5>3. attempts[i + 1] \in Attempts BY <1>0, <5>1, ElementOfSeq
        <5>4. m # counter.manche BY <5>2, <5>3 DEF Attempts, Manches
        <5> QED BY <2>3, <2>5, <3>2, <4>1, <5>2, <5>4 DEF EndInv
      <4> QED BY <1>0, <3>2, <4>2, <4>3
    <3> QED BY <1>0, <2>1, <3>1, <3>2
  <2>6. claim' = {} <=> claim = {} BY <2>0
  <2>7. ended' = 0 /\ ended' \notin 1..3 /\ ended' # 4 BY <2>0
  <2> QED BY <2>4, <2>5, <2>6, <2>7 DEF EndInv
<1>2. CASE NextManche
  <2>0. attempts' = attempts /\ shown' = shown /\ claim' = claim /\ ended = 0
        /\ turn = WordsPerManche /\ counter.scores[counter.manche] >= Targets[counter.manche]
    BY <1>2 DEF NextManche, Reached
  <2>1. CASE counter.manche = 3
    <3>1. counter' = counter /\ turn' = turn /\ ended' = 4 BY <1>2, <2>1 DEF NextManche
    <3>2. Reached' BY <2>0, <3>1 DEF Reached
    <3>3. ended' # 0 => turn' = WordsPerManche BY <2>0, <3>1
    <3> QED BY <2>0, <2>1, <3>1, <3>2, <3>3 DEF EndInv
  <2>2. CASE counter.manche # 3
    <3>1. counter' = StartManche(counter, counter.manche + 1, FALSE) /\ ended' = 0
      BY <1>2, <2>2 DEF NextManche
    <3>2. counter.manche + 1 \in Manches BY <1>0, <2>2 DEF Manches
    <3>3. counter'.manche = counter.manche + 1 /\ counter'.scores = counter.scores
      BY <1>0, <3>1, <3>2, StartMancheIs
    <3>4. claim = {} => \A m \in Manches : m < counter'.manche => counter'.scores[m] >= Targets[m]
      BY <1>0, <2>0, <3>3, SMTT(20) DEF EndInv, Manches
    <3>5. claim = {} =>
            \A i \in 1..Len(attempts), m \in Manches :
              (i < Len(attempts) => attempts[i + 1].manche > m) =>
                shown[i].scores[m] = counter'.scores[m]
      BY <3>3 DEF EndInv
    <3>6. ended' = 0 /\ ended' \notin 1..3 /\ ended' # 4 BY <3>1
    <3> QED BY <2>0, <3>4, <3>5, <3>6 DEF EndInv
  <2> QED BY <2>1, <2>2
<1>3. CASE Revanche
  <2>1. ended' = 0 /\ claim' # {} BY <1>3 DEF Revanche
  <2> QED BY <2>1 DEF EndInv
<1>4. CASE Lose
  <2>1. UNCHANGED <<attempts, turn, counter, shown, claim>> /\ ended' = counter.manche
        /\ turn = WordsPerManche /\ ~Reached
    BY <1>4 DEF Lose
  <2>2. ended' \in 1..3 /\ ended' # 4 BY <1>0, <2>1 DEF Manches
  <2>3. ~Reached' BY <2>1 DEF Reached
  <2> QED BY <2>1, <2>2, <2>3 DEF EndInv
<1>5. CASE UNCHANGED <<attempts, turn, counter, shown, claim, ended>>
  BY <1>5 DEF EndInv, Reached
<1> QED BY <1>1, <1>2, <1>3, <1>4, <1>5
  DEF Next, OtherRun, Finish, ReplayAttempt, ReplayManche, vars, client

----------------------------------------------------------------------------
LEMMA FirstManche ==
  ASSUME TypeOK, HistoryInv, claim = {}, Len(attempts) > 0
  PROVE  attempts[1].manche = 1
<1>1. 1 \in 1..Len(attempts) /\ attempts[1] \in Attempts
  BY LenProperties, ElementOfSeq DEF TypeOK
<1>2. shown[1].manche = attempts[1].manche
      /\ shown[1] = ApplyAnswer(Opened(0, attempts[1].manche), attempts[1])
  BY <1>1 DEF HistoryInv
<1>3. Opened(0, attempts[1].manche) = NewRunScore BY DEF Opened
<1> QED BY <1>1, <1>2, <1>3, NewRunScoreIs, NewRunScoreType, ApplyAnswerKeeps

(* The counter the walk stands at is the one the child was shown last. *)
LEMMA ShownAt ==
  ASSUME TypeOK, HistoryInv, claim = {}, NEW n \in 1..Len(attempts), NEW m \in Manches
  PROVE  /\ Opened(n, m).scores = shown[n].scores
         /\ Opened(n, m).combo = shown[n].combo
<1>1. shown[n] \in Counters /\ n # 0 BY ElementOfSeq DEF TypeOK
<1> QED BY <1>1, StartMancheIs DEF Opened

LEMMA WalkInit == Init => WalkInv
<1> SUFFICES ASSUME Init PROVE WalkInv OBVIOUS
<1>1. replay = NoWalk /\ Len(attempts) = 0 /\ counter.manche = 1 BY NewRunScoreIs DEF Init
<1>2. Matches(NoWalk, NewRunScore) BY NewRunScoreIs DEF Matches, NoWalk
<1> QED BY <1>1, <1>2 DEF WalkInv, Opened, NoWalk

(* Nothing the client does before the finish moves the walk. *)
LEMMA BeforeFinish ==
  ASSUME TypeOK, TypeOK', HistoryInv', ended = 0, replay' = replay, WalkInv
  PROVE  WalkInv'
<1>1. replay = NoWalk /\ replay' = NoWalk BY DEF WalkInv
<1>2. replay'.at = 0 /\ replay'.manche = 1 /\ replay'.walk = "waiting"
  BY <1>1 DEF NoWalk
<1>3. Matches(replay', Opened(replay.at, replay.manche)')
  BY <1>1, <1>2, NewRunScoreIs DEF Matches, NoWalk, Opened, NewRunScore, StartManche, bossOf, Plus
<1>4. Matches(replay, Opened(replay.at, replay.manche))' BY <1>3 DEF Matches
<1>5. counter'.manche \in Manches BY DEF TypeOK, Counters
<1>6. 0 < Len(attempts') => attempts'[1].manche >= 1
  <2>1. ASSUME 0 < Len(attempts') PROVE attempts'[1] \in Attempts
    BY <2>1, LenProperties, ElementOfSeq DEF TypeOK
  <2> QED BY <2>1 DEF Attempts, Manches
<1> QED BY <1>1, <1>2, <1>4, <1>5, <1>6 DEF WalkInv, Manches

LEMMA WalkSame ==
  ASSUME WalkInv, UNCHANGED <<attempts, shown, counter, claim, replay>>,
         replay.walk = "waiting" \/ ended' = ended
  PROVE  WalkInv'
<1>1. Opened(replay.at, replay.manche)' = Opened(replay.at, replay.manche)
  BY DEF Opened, NewRunScore, StartManche, bossOf, Plus
<1>2. Matches(replay, Opened(replay.at, replay.manche))'
        <=> Matches(replay, Opened(replay.at, replay.manche))
  BY <1>1 DEF Matches
<1>3. SameRows' <=> SameRows BY DEF SameRows
<1>4. replay.walk = "waiting" => replay.walk # "won" /\ replay.walk # "failed"
  OBVIOUS
<1>5. NoWalk' = NoWalk BY DEF NoWalk
<1> QED BY <1>2, <1>3, <1>4, <1>5 DEF WalkInv

LEMMA FinishStep ==
  ASSUME TypeOK, WalkInv, Finish
  PROVE  WalkInv'
<1>0. UNCHANGED <<attempts, shown, counter, claim, ended>> /\ ended # 0 /\ replay = NoWalk
  BY DEF Finish, client, WalkInv
<1>1. replay' = [replay EXCEPT !.walk = "walking", !.levels = levels, !.states = states]
  BY DEF Finish
<1>2. replay'.walk = "walking" /\ replay'.at = replay.at /\ replay'.manche = replay.manche
      /\ replay'.scores = replay.scores /\ replay'.combo = replay.combo
      /\ replay'.goldPlayed = replay.goldPlayed /\ replay'.gommeSpent = replay.gommeSpent
  BY <1>0, <1>1 DEF NoWalk
<1>3. replay.levels = Levels /\ replay.states = States BY <1>0 DEF NoWalk
<1>4. Opened(replay.at, replay.manche)' = Opened(replay.at, replay.manche)
  BY <1>0, <1>2 DEF Opened, NewRunScore, StartManche, bossOf, Plus
<1>5. Matches(replay, Opened(replay.at, replay.manche))'
        <=> Matches(replay, Opened(replay.at, replay.manche))
  BY <1>2, <1>4 DEF Matches
<1> QED BY <1>0, <1>2, <1>3, <1>5 DEF WalkInv, SameRows

LEMMA AttemptStep ==
  ASSUME TypeOK, HistoryInv, WalkInv, ReplayAttempt
  PROVE  WalkInv'
<1> DEFINE a == attempts[replay.at + 1]
           r == Opened(replay.at, replay.manche)
<1>0. UNCHANGED <<attempts, shown, counter, claim, ended>> /\ replay.walk = "walking"
      /\ replay.at < Len(attempts) /\ a.manche = replay.manche /\ replay' = Scored(replay, a)
  BY DEF ReplayAttempt, client, MoreOf
<1>1. replay \in WalkRecords /\ replay.at \in Nat /\ replay.manche \in Manches
      /\ Len(attempts) \in Nat
  BY LenProperties DEF TypeOK, WalkRecords
<1>2. replay.at + 1 \in 1..Len(attempts) /\ a \in Attempts
  BY <1>0, <1>1, ElementOfSeq DEF TypeOK
<1>3. replay'.walk = "walking" /\ replay'.at = replay.at + 1 /\ replay'.manche = replay.manche
      /\ replay'.levels = replay.levels /\ replay'.states = replay.states
  BY <1>0, <1>1 DEF Scored, WalkRecords
<1>4. ASSUME claim' = {}, SameRows'
      PROVE  /\ Matches(replay, Opened(replay.at, replay.manche))'
             /\ replay'.at < Len(attempts) => attempts[replay'.at + 1].manche >= replay'.manche
             /\ replay.manche <= counter.manche
  <2>1. claim = {} /\ SameRows BY <1>0, <1>3, <1>4 DEF SameRows
  <2>2. Matches(replay, r) /\ (replay.at = 0 => replay.manche = 1) /\ replay.manche <= counter.manche
    BY <2>1 DEF WalkInv
  <2>3. r \in Counters /\ r.manche = replay.manche /\ Steady(r)
    BY <1>1, <1>2, <2>1, <2>2, OpenedIs
  <2>4. Matches(Scored(replay, a), ApplyAnswer(r, a))
    BY <1>1, <1>2, <2>1, <2>2, <2>3, SameAnswer DEF SameRows
  <2>5. shown[replay.at + 1] = ApplyAnswer(r, a)
    <3>1. ASSUME NEW n \in 1..Len(attempts), n = replay.at + 1
          PROVE  shown[n] = ApplyAnswer(Opened(replay.at, attempts[n].manche), attempts[n])
      <4>1. n - 1 = replay.at BY <1>1, <3>1
      <4> QED BY <2>1, <4>1 DEF HistoryInv
    <3> QED BY <1>0, <1>2, <3>1
  <2>6. Opened(replay.at, replay.manche)' = shown[replay.at + 1]
    <3>1. replay'.at # 0 /\ attempts'[replay'.at].manche = replay'.manche
          /\ shown'[replay'.at] = shown[replay.at + 1]
      BY <1>0, <1>1, <1>3
    <3> QED BY <3>1 DEF Opened
  <2>7. Matches(replay, Opened(replay.at, replay.manche))'
    BY <1>0, <2>4, <2>5, <2>6 DEF Matches
  <2>8. replay'.at < Len(attempts) => attempts[replay'.at + 1].manche >= replay'.manche
    <3> SUFFICES ASSUME replay'.at < Len(attempts)
                 PROVE  attempts[replay'.at + 1].manche >= replay'.manche
      OBVIOUS
    <3>1. replay.at + 1 + 1 \in 1..Len(attempts) BY <1>1, <1>3
    <3>2. a.manche <= attempts[replay.at + 1 + 1].manche
      BY <1>1, <1>2, <2>1, <3>1 DEF HistoryInv
    <3>3. attempts[replay.at + 1 + 1] \in Attempts BY <3>1, ElementOfSeq DEF TypeOK
    <3> QED BY <1>0, <1>1, <1>3, <3>2, <3>3 DEF Attempts, Manches
  <2> QED BY <2>2, <2>7, <2>8
<1>5. attempts'[replay'.at].manche <= replay'.manche BY <1>0, <1>1, <1>3 DEF Manches
<1>6. ended' # 0 BY <1>0 DEF WalkInv
<1> QED BY <1>0, <1>1, <1>3, <1>4, <1>5, <1>6 DEF WalkInv

LEMMA MancheStep ==
  ASSUME TypeOK, HistoryInv, EndInv, WalkInv, ReplayManche
  PROVE  WalkInv'
<1> DEFINE m == replay.manche
<1>0. UNCHANGED <<attempts, shown, counter, claim, ended, turn>> /\ replay.walk = "walking"
      /\ ~MoreOf(replay) /\ replay' = Judged(replay)
  BY DEF ReplayManche, client
<1>1. /\ replay \in WalkRecords /\ replay.at \in Nat /\ m \in Manches /\ m \in Int
      /\ replay.scores \in [Manches -> Nat]
      /\ Len(attempts) \in Nat /\ replay.at <= Len(attempts)
      /\ Targets \in [Manches -> Nat] /\ ended \in 0..4
      /\ counter.manche \in Manches /\ counter.manche \in Int
      /\ counter.scores \in [Manches -> Nat]
  <2>1. replay \in WalkRecords /\ replay.at <= Len(attempts) /\ ended \in 0..4 BY DEF TypeOK
  <2>2. counter \in Counters BY DEF TypeOK
  <2>3. counter.manche \in Manches /\ counter.scores \in [Manches -> Nat] BY <2>2 DEF Counters
  <2>4. replay.at \in Nat /\ m \in Manches /\ replay.scores \in [Manches -> Nat]
    BY <2>1 DEF WalkRecords
  <2>5. m \in Int /\ counter.manche \in Int BY <2>3, <2>4 DEF Manches
  <2>6. Len(attempts) \in Nat BY LenProperties DEF TypeOK
  <2> QED BY <2>1, <2>3, <2>4, <2>5, <2>6, PlayAssumption
<1>2. replay'.walk # "waiting" /\ replay'.at = replay.at
      /\ replay'.levels = replay.levels /\ replay'.states = replay.states
  BY <1>0, <1>1 DEF Judged, Passed, WalkRecords, Walks
<1>3. ended # 0 /\ ended' # 0 BY <1>0 DEF WalkInv
<1>4. ASSUME claim = {}, SameRows
      PROVE  /\ Matches(replay, Opened(replay.at, replay.manche))'
             /\ replay'.at = 0 => replay'.manche = 1
             /\ replay'.at > 0 => attempts[replay'.at].manche <= replay'.manche
             /\ replay'.at < Len(attempts) => attempts[replay'.at + 1].manche >= replay'.manche
             /\ replay'.manche <= counter.manche
             /\ replay'.walk = "won" => ended = 4
             /\ replay'.walk = "failed" => ended = replay'.failedAt
             /\ replay'.walk # "refused"
  <2>1. /\ Matches(replay, Opened(replay.at, m))
        /\ replay.at = 0 => m = 1
        /\ replay.at > 0 => attempts[replay.at].manche <= m
        /\ replay.at < Len(attempts) => attempts[replay.at + 1].manche >= m
        /\ m <= counter.manche
    BY <1>4 DEF WalkInv
  <2>2. turn = WordsPerManche /\ turn > 0 BY <1>3, PlayAssumption DEF EndInv
  <2>3. Len(attempts) > 0 BY <1>4, <2>2 DEF HistoryInv
  <2>4. attempts[1].manche = 1 BY <1>4, <2>3, FirstManche
  <2>5. replay.at # 0
    <3>1. replay.at = 0 => attempts[replay.at + 1].manche = m /\ replay.at < Len(attempts)
      BY <1>1, <2>1, <2>3, <2>4
    <3> QED BY <1>0, <3>1 DEF MoreOf
  <2>6. replay.at \in 1..Len(attempts) BY <1>1, <2>5
  <2>7. replay.at < Len(attempts) => attempts[replay.at + 1].manche > m
    <3> SUFFICES ASSUME replay.at < Len(attempts) PROVE attempts[replay.at + 1].manche > m
      OBVIOUS
    <3>0. replay.at + 1 \in 1..Len(attempts) BY <1>1, SMTT(20)
    <3>1. attempts[replay.at + 1] \in Attempts BY <3>0, ElementOfSeq DEF TypeOK
    <3>2. attempts[replay.at + 1].manche # m BY <1>0 DEF MoreOf
    <3> QED BY <1>1, <2>1, <3>1, <3>2 DEF Attempts
  <2>8. replay.scores[m] = counter.scores[m]
    <3>1. replay.scores = shown[replay.at].scores
      BY <1>1, <1>4, <2>1, <2>6, ShownAt DEF Matches
    <3>2. shown[replay.at].scores[m] = counter.scores[m]
      BY <1>1, <1>4, <2>6, <2>7 DEF EndInv
    <3> QED BY <3>1, <3>2
  <2>9. /\ \A n \in Manches : n < counter.manche => counter.scores[n] >= Targets[n]
        /\ ended \in 1..3 => ended = counter.manche
                             /\ ~(counter.scores[counter.manche] >= Targets[counter.manche])
        /\ ended = 4 => counter.manche = 3 /\ counter.scores[3] >= Targets[3]
    BY <1>4 DEF EndInv, Reached
  <2>10. m \notin claim BY <1>4
  <2>11. CASE ~(replay.scores[m] >= Targets[m])
    <3>1. replay' = [replay EXCEPT !.walk = "failed", !.failedAt = m]
      BY <1>0, <2>10, <2>11 DEF Judged
    <3>2. replay'.walk = "failed" /\ replay'.failedAt = m /\ replay'.manche = m
          /\ replay'.scores = replay.scores /\ replay'.combo = replay.combo
          /\ replay'.goldPlayed = replay.goldPlayed /\ replay'.gommeSpent = replay.gommeSpent
      BY <1>1, <3>1 DEF WalkRecords
    <3>3. ended = m
      <4>1. m = counter.manche
        <5>1. ~(m < counter.manche) BY <1>1, <2>8, <2>9, <2>11
        <5> QED BY <1>1, <2>1, <5>1
      <4>2. ended # 4 BY <2>8, <2>9, <2>11, <4>1
      <4> QED BY <1>1, <1>3, <2>9, <4>1, <4>2
    <3>4. Opened(replay.at, replay.manche)' = Opened(replay.at, m)
      BY <1>0, <1>2, <3>2 DEF Opened, NewRunScore, StartManche, bossOf, Plus
    <3>5. Matches(replay, Opened(replay.at, replay.manche))'
      BY <2>1, <3>2, <3>4 DEF Matches
    <3> QED BY <1>2, <2>1, <3>2, <3>3, <3>5
  <2>12. CASE replay.scores[m] >= Targets[m]
    <3>1. PICK pay : replay' = Passed(replay, pay) BY <1>0, <2>10, <2>12 DEF Judged
    <3>2. CASE m = 3
      <4>1. replay'.walk = "won" /\ replay'.manche = m
            /\ replay'.scores = replay.scores /\ replay'.combo = replay.combo
            /\ replay'.goldPlayed = replay.goldPlayed /\ replay'.gommeSpent = replay.gommeSpent
        BY <1>1, <3>1, <3>2 DEF Passed, WalkRecords
      <4>2. ended = 4
        <5>1. counter.manche = 3 BY <1>1, <2>1, <3>2 DEF Manches
        <5> QED BY <1>1, <1>3, <2>8, <2>9, <2>12, <3>2, <5>1
      <4>3. Opened(replay.at, replay.manche)' = Opened(replay.at, m)
        BY <1>0, <1>2, <4>1 DEF Opened, NewRunScore, StartManche, bossOf, Plus
      <4>4. Matches(replay, Opened(replay.at, replay.manche))'
        BY <2>1, <4>1, <4>3 DEF Matches
      <4> QED BY <1>2, <2>1, <4>1, <4>2, <4>4
    <3>3. CASE m # 3
      <4>0. m + 1 \in Manches BY <1>1, <3>3, SMTT(20) DEF Manches
      <4>1. replay'.walk = "walking" /\ replay'.manche = m + 1
            /\ replay'.scores = replay.scores /\ replay'.combo = replay.combo
            /\ replay'.goldPlayed = 0 /\ replay'.gommeSpent = FALSE
        BY <1>0, <1>1, <3>1, <3>3 DEF Passed, WalkRecords
      <4>2. m + 1 <= counter.manche
        <5>1. m # counter.manche
          BY <1>1, <1>3, <2>8, <2>9, <2>12, <3>3
        <5> QED BY <1>1, <2>1, <5>1, SMTT(20) DEF Manches
      <4>3. attempts[replay.at] \in Attempts BY <2>6, ElementOfSeq DEF TypeOK
      <4>4. attempts[replay.at].manche <= m /\ attempts[replay.at].manche # m + 1
        BY <1>1, <2>1, <2>6, <4>3 DEF Attempts
      <4>5. Opened(replay.at, replay.manche)' = StartManche(shown[replay.at], m + 1, FALSE)
        <5>1. replay'.at # 0 /\ attempts'[replay'.at].manche # replay'.manche
              /\ shown'[replay'.at] = shown[replay.at]
          BY <1>0, <1>2, <2>5, <4>1, <4>4
        <5>2. Opened(replay.at, replay.manche)'
                = StartManche(shown'[replay'.at], replay'.manche, FALSE)
          BY <5>1 DEF Opened, StartManche, bossOf, Plus
        <5> QED BY <4>1, <5>1, <5>2
      <4>6. replay.scores = shown[replay.at].scores /\ replay.combo = shown[replay.at].combo
        BY <1>1, <1>4, <2>1, <2>6, ShownAt DEF Matches
      <4>7. shown[replay.at] \in Counters BY <2>6, ElementOfSeq DEF TypeOK
      <4>8. Matches(replay', StartManche(shown[replay.at], m + 1, FALSE))
        BY <4>0, <4>1, <4>6, <4>7, StartMancheIs DEF Matches
      <4>9. Matches(replay, Opened(replay.at, replay.manche))'
        BY <4>5, <4>8 DEF Matches
      <4>10. replay'.at < Len(attempts) => attempts[replay'.at + 1].manche >= replay'.manche
        <5> SUFFICES ASSUME replay.at < Len(attempts)
                     PROVE  attempts[replay.at + 1].manche >= m + 1
          BY <1>2, <4>1
        <5>0. replay.at + 1 \in 1..Len(attempts) BY <1>1, SMTT(20)
        <5>1. attempts[replay.at + 1] \in Attempts BY <5>0, ElementOfSeq DEF TypeOK
        <5> QED BY <1>1, <2>7, <5>1, SMTT(20) DEF Attempts
      <4>11. attempts[replay'.at].manche <= replay'.manche
        BY <1>1, <1>2, <4>1, <4>3, <4>4, SMTT(20) DEF Attempts
      <4> QED BY <1>2, <2>5, <4>1, <4>2, <4>9, <4>10, <4>11
    <3> QED BY <3>2, <3>3
  <2> QED BY <2>11, <2>12
<1>5. SameRows' <=> SameRows BY <1>2 DEF SameRows
<1> QED BY <1>0, <1>2, <1>3, <1>4, <1>5 DEF WalkInv

LEMMA WalkStep ==
  TypeOK /\ TypeOK' /\ HistoryInv /\ HistoryInv' /\ EndInv /\ WalkInv /\ [Next]_vars => WalkInv'
<1> SUFFICES ASSUME TypeOK, TypeOK', HistoryInv, HistoryInv', EndInv, WalkInv, [Next]_vars
             PROVE  WalkInv'
  OBVIOUS
<1>1. ASSUME NEW x \in Answers, Answer(x) PROVE WalkInv'
  BY <1>1, BeforeFinish DEF Answer
<1>2. CASE NextManche BY <1>2, BeforeFinish DEF NextManche
<1>3. CASE Revanche BY <1>3, BeforeFinish DEF Revanche
<1>4. CASE Lose BY <1>4, BeforeFinish DEF Lose
<1>5. CASE OtherRun BY <1>5, WalkSame DEF OtherRun, client
<1>6. CASE Finish BY <1>6, FinishStep
<1>7. CASE ReplayAttempt BY <1>7, AttemptStep
<1>8. CASE ReplayManche BY <1>8, MancheStep
<1>9. CASE UNCHANGED vars BY <1>9, WalkSame DEF vars, client
<1> QED BY <1>1, <1>2, <1>3, <1>4, <1>5, <1>6, <1>7, <1>8, <1>9 DEF Next

(* All of the above holds throughout every run. *)
LEMMA SideBySide == Spec => [](TypeOK /\ HistoryInv /\ EndInv /\ WalkInv)
<1> DEFINE Inv == TypeOK /\ HistoryInv /\ EndInv /\ WalkInv
<1>1. Init => Inv BY InitType, HistoryInit, EndInit, WalkInit
<1>2. Inv /\ [Next]_vars => Inv'
  <2> SUFFICES ASSUME TypeOK, HistoryInv, EndInv, WalkInv, [Next]_vars PROVE Inv'
    OBVIOUS
  <2>1. TypeOK' BY NextType
  <2>2. HistoryInv' BY HistoryStep
  <2>3. EndInv' BY EndStep
  <2>4. WalkInv' BY <2>1, <2>2, WalkStep
  <2> QED BY <2>1, <2>2, <2>3, <2>4
<1> QED BY <1>1, <1>2, PTL DEF Spec

(* What the child watched is what the server counts: after every attempt of *)
(* its walk Replay has the scores and the combo RunScore showed after the   *)
(* same attempt, as long as the rows are those the run was dealt from and   *)
(* no manche was replayed.                                                  *)
THEOREM ScoresAgreeAlways == Spec => []ScoresAgree
<1>1. TypeOK /\ HistoryInv /\ EndInv /\ WalkInv => ScoresAgree
  <2> SUFFICES ASSUME TypeOK, HistoryInv, WalkInv, SameRows, claim = {}, replay.at > 0
               PROVE  /\ replay.scores = shown[replay.at].scores
                      /\ replay.combo = shown[replay.at].combo
    BY DEF ScoresAgree
  <2>1. replay.at \in 1..Len(attempts) /\ replay.manche \in Manches
    BY LenProperties DEF TypeOK, WalkRecords
  <2>2. Matches(replay, Opened(replay.at, replay.manche)) BY DEF WalkInv
  <2> QED BY <2>1, <2>2, ShownAt DEF Matches
<1> QED BY <1>1, SideBySide, PTL

(* Under the same conditions the server's verdict is the end the child saw: *)
(* a won run is won, a lost one failed in the manche it was lost in, and    *)
(* none is refused.                                                         *)
THEOREM OutcomeAsPlayedAlways == Spec => []OutcomeAsPlayed
<1>1. TypeOK /\ HistoryInv /\ EndInv /\ WalkInv => OutcomeAsPlayed
  BY DEF WalkInv, OutcomeAsPlayed
<1> QED BY <1>1, SideBySide, PTL

----------------------------------------------------------------------------
(* The twins.  While the walk is on, the mended run stands beside the run:  *)
(* at the same attempt of the same manche, with the same gold words behind  *)
(* it, no lower in anything it may have gained, and with the Gomme in hand  *)
(* if the run still has it.                                                 *)
Beside(p, q) ==
  /\ q.walk = p.walk /\ q.at = p.at /\ q.manche = p.manche /\ q.goldPlayed = p.goldPlayed
  /\ q.levels = p.levels /\ q.states = p.states
  /\ p.combo >= 1 /\ q.combo >= p.combo
  /\ q.money >= p.money
  /\ q.raw >= p.raw
  /\ \A m \in Manches : q.scores[m] >= p.scores[m]
  /\ q.gommeSpent => p.gommeSpent

NeverBehind(p, q) ==
  /\ \A m \in Manches : q.scores[m] >= p.scores[m]
  /\ q.combo >= p.combo
  /\ q.money >= p.money
  /\ p.walk \in {"walking", "won"} => q.walk = p.walk
  /\ p.walk = "failed" => q.walk # "refused"

TwinsInv ==
  /\ TypeOK
  /\ twin \in WalkRecords
  /\ replay.walk \in {"waiting", "walking"} => Beside(replay, twin)
  /\ NeverBehind(replay, twin)

LEMMA BesideIsNotBehind ==
  ASSUME NEW p \in WalkRecords, NEW q \in WalkRecords, Beside(p, q)
  PROVE  NeverBehind(p, q)
BY DEF Beside, NeverBehind

LEMMA MulGrows ==
  ASSUME NEW m \in Nat, NEW n \in Nat, NEW k \in Nat, n <= k
  PROVE  m * n <= m * k
<1>1. PICK d \in Nat : k = n + d
  <2>1. k - n \in Nat /\ k = n + (k - n)
    OBVIOUS
  <2> QED BY <2>1
<1>2. m * k = m * n + m * d
  BY <1>1
<1>3. m * d \in Nat /\ m * n \in Nat
  BY MulInNat
<1> QED BY <1>2, <1>3

(* What an answer adds to a walk: chips, and a multiplier that is the combo *)
(* and something that depends on neither the combo nor the scores.          *)
Chips(p, a) == IF a.correct THEN scoreChips(a, p.states[a.word], Owned,
                                             CtxOf(a, p.levels, bossOf(p.manche), p.goldPlayed))
                            ELSE 0

Extra(p, a) == multBonus(a.word, p.states[a.word], Owned,
                         CtxOf(a, p.levels, bossOf(p.manche), p.goldPlayed))

Combo(p, a) ==
  CASE a.correct /\ ~a.copy -> p.combo + 1
    [] ~a.correct /\ ("Gomme" \notin Owned \/ p.gommeSpent) -> 1
    [] OTHER -> p.combo

LEMMA ScoredIs ==
  ASSUME NEW p \in WalkRecords, NEW a \in Attempts
  PROVE  LET r     == Scored(p, a)
             bonus == RevancheBonus(p.manche)
         IN /\ r.walk = p.walk /\ r.at = p.at + 1 /\ r.manche = p.manche /\ r.money = p.money
            /\ r.levels = p.levels /\ r.states = p.states
            /\ r.goldPlayed = p.goldPlayed + Plus(p.states[a.word].gold, 1)
            /\ r.combo = Combo(p, a)
            /\ r.gommeSpent = (p.gommeSpent \/ (~a.correct /\ "Gomme" \in Owned))
            /\ Chips(p, a) \in Nat /\ Extra(p, a) \in Nat /\ bonus \in Nat
            /\ \A m \in Manches : m # p.manche => r.scores[m] = p.scores[m]
            /\ r.scores[p.manche] =
                 p.scores[p.manche] + Chips(p, a) * (p.combo + bonus + Extra(p, a))
            /\ r.raw = p.raw + Chips(p, a) * (p.combo + Extra(p, a))
<1> DEFINE ws    == p.states[a.word]
           bonus == RevancheBonus(p.manche)
           ctx   == CtxOf(a, p.levels, bossOf(p.manche), p.goldPlayed)
           s     == ScoreOf(a, ws, Owned, p.combo + bonus, ctx)
           r     == Scored(p, a)
<1>1. /\ p.scores \in [Manches -> Nat] /\ p.manche \in Manches /\ p.combo \in Nat
      /\ p.goldPlayed \in Nat /\ p.raw \in Nat /\ p.at \in Nat
      /\ p.states \in [Word -> ScoredStates] /\ p.levels \in [Couleur -> Nat]
  BY DEF WalkRecords
<1>2. bonus \in Nat /\ ws \in ScoredStates /\ ctx \in Ctx /\ a.word \in Word
  BY <1>1, BonusType, CtxType, BossType DEF RevancheBonus, Attempts
<1>3. Chips(p, a) \in Nat /\ Extra(p, a) \in Nat
  BY <1>2, ScoreChipsInNat, MultBonusInNat DEF Chips, Extra
<1>4. /\ s.chips = Chips(p, a)
      /\ a.correct => s.mult = p.combo + bonus + Extra(p, a)
      /\ ~a.correct => s.mult = 0
  BY DEF ScoreOf, Chips, Extra
<1>5. /\ r.walk = p.walk /\ r.at = p.at + 1 /\ r.manche = p.manche /\ r.money = p.money
      /\ r.levels = p.levels /\ r.states = p.states
      /\ r.goldPlayed = p.goldPlayed + Plus(ws.gold, 1)
      /\ r.gommeSpent = (p.gommeSpent \/ (~a.correct /\ "Gomme" \in Owned))
      /\ r.combo = Combo(p, a)
      /\ r.scores = [p.scores EXCEPT ![p.manche] = p.scores[p.manche] + s.chips * s.mult]
      /\ r.raw = p.raw + s.chips * (s.mult - bonus)
  <2> HIDE DEF s, bonus
  <2>1. Scored(p, a) =
          [p EXCEPT !.at = p.at + 1, !.goldPlayed = p.goldPlayed + Plus(ws.gold, 1),
                    !.scores = [p.scores EXCEPT ![p.manche] = p.scores[p.manche] + s.chips * s.mult],
                    !.raw = p.raw + s.chips * (s.mult - bonus),
                    !.combo = Combo(p, a),
                    !.gommeSpent = p.gommeSpent \/ (~a.correct /\ "Gomme" \in Owned)]
    BY <1>1 DEF Scored, Combo, WalkRecords, s, bonus
  <2> QED BY <2>1 DEF WalkRecords
<1> HIDE DEF r, s, ws, ctx, bonus
<1>6. s.chips * s.mult = Chips(p, a) * (p.combo + bonus + Extra(p, a))
  <2>1. CASE a.correct
    BY <2>1, <1>4
  <2>2. CASE ~a.correct
    <3>1. Chips(p, a) = 0 /\ s.chips = 0 /\ s.mult = 0
      BY <2>2, <1>4 DEF Chips
    <3> QED BY <3>1, <1>1, <1>2, <1>3
  <2> QED BY <2>1, <2>2
<1>7. s.chips * (s.mult - bonus) = Chips(p, a) * (p.combo + Extra(p, a))
  <2>1. CASE a.correct
    <3>1. s.mult - bonus = p.combo + Extra(p, a)
      BY <2>1, <1>1, <1>2, <1>3, <1>4
    <3> QED BY <3>1, <1>4
  <2>2. CASE ~a.correct
    <3>1. Chips(p, a) = 0 /\ s.chips = 0 /\ s.mult = 0
      BY <2>2, <1>4 DEF Chips
    <3> QED BY <3>1, <1>1, <1>2, <1>3
  <2> QED BY <2>1, <2>2
<1> QED BY <1>1, <1>2, <1>3, <1>5, <1>6, <1>7 DEF r, ws, bonus

(* One answer, or a right one in the place of a fault, leaves the mended    *)
(* run beside the run.                                                      *)
LEMMA ScoredBeside ==
  ASSUME NEW p \in WalkRecords, NEW q \in WalkRecords, Beside(p, q),
         NEW a \in Attempts, NEW b \in Attempts,
         b = a \/ (~a.correct /\ b = [a EXCEPT !.correct = TRUE])
  PROVE  Beside(Scored(p, a), Scored(q, b))
<1> DEFINE x == Scored(p, a)
           y == Scored(q, b)
           bonus == RevancheBonus(p.manche)
<1>1. /\ x.walk = p.walk /\ x.at = p.at + 1 /\ x.manche = p.manche /\ x.money = p.money
      /\ x.levels = p.levels /\ x.states = p.states
      /\ x.goldPlayed = p.goldPlayed + Plus(p.states[a.word].gold, 1)
      /\ x.combo = Combo(p, a)
      /\ x.gommeSpent = (p.gommeSpent \/ (~a.correct /\ "Gomme" \in Owned))
      /\ Chips(p, a) \in Nat /\ Extra(p, a) \in Nat /\ bonus \in Nat
      /\ \A m \in Manches : m # p.manche => x.scores[m] = p.scores[m]
      /\ x.scores[p.manche] = p.scores[p.manche] + Chips(p, a) * (p.combo + bonus + Extra(p, a))
      /\ x.raw = p.raw + Chips(p, a) * (p.combo + Extra(p, a))
  BY ScoredIs
<1>2. q.manche = p.manche
  BY DEF Beside
<1>3. /\ y.walk = q.walk /\ y.at = q.at + 1 /\ y.manche = q.manche /\ y.money = q.money
      /\ y.levels = q.levels /\ y.states = q.states
      /\ y.goldPlayed = q.goldPlayed + Plus(q.states[b.word].gold, 1)
      /\ y.combo = Combo(q, b)
      /\ y.gommeSpent = (q.gommeSpent \/ (~b.correct /\ "Gomme" \in Owned))
      /\ Chips(q, b) \in Nat /\ Extra(q, b) \in Nat
      /\ \A m \in Manches : m # p.manche => y.scores[m] = q.scores[m]
      /\ y.scores[p.manche] = q.scores[p.manche] + Chips(q, b) * (q.combo + bonus + Extra(q, b))
      /\ y.raw = q.raw + Chips(q, b) * (q.combo + Extra(q, b))
  BY <1>2, ScoredIs
<1>4. /\ p.combo \in Nat /\ q.combo \in Nat /\ p.raw \in Nat /\ q.raw \in Nat /\ p.manche \in Manches
      /\ p.scores \in [Manches -> Nat] /\ q.scores \in [Manches -> Nat]
      /\ p.gommeSpent \in BOOLEAN /\ q.gommeSpent \in BOOLEAN
      /\ a.correct \in BOOLEAN /\ b.correct \in BOOLEAN /\ a.copy \in BOOLEAN
  BY DEF WalkRecords, Attempts
<1>a. /\ b.word = a.word /\ b.copy = a.copy
      /\ a.copy => a.correct
      /\ a.correct => b = a
      /\ ~b.correct => b = a
  BY DEF Attempts
<1> HIDE DEF x, y, bonus
<1>5. (x.combo >= 1) /\ (y.combo >= x.combo) /\ (y.gommeSpent => x.gommeSpent)
  BY <1>a, <1>1, <1>3, <1>4 DEF Combo, Beside
<1>6. (y.scores[p.manche] >= x.scores[p.manche]) /\ (y.raw >= x.raw)
  <2>0. p.scores[p.manche] \in Nat /\ q.scores[p.manche] \in Nat
        /\ q.scores[p.manche] >= p.scores[p.manche] /\ q.raw >= p.raw /\ q.combo >= p.combo
    BY <1>4 DEF Beside
  <2>1. CASE ~a.correct
    <3>1. Chips(p, a) = 0
      BY <2>1 DEF Chips
    <3>2. /\ Chips(p, a) * (p.combo + bonus + Extra(p, a)) = 0
          /\ Chips(p, a) * (p.combo + Extra(p, a)) = 0
      BY <3>1, <1>1, <1>4
    <3>3. /\ Chips(q, b) * (q.combo + bonus + Extra(q, b)) \in Nat
          /\ Chips(q, b) * (q.combo + Extra(q, b)) \in Nat
      <4>1. q.combo + bonus + Extra(q, b) \in Nat /\ q.combo + Extra(q, b) \in Nat
        BY <1>1, <1>3, <1>4
      <4> QED BY <4>1, <1>3, MulInNat
    <3> QED BY <2>0, <3>2, <3>3, <1>1, <1>3, <1>4
  <2>2. CASE a.correct
    <3>1. b = a
      BY <2>2, <1>a
    <3>2. Chips(q, b) = Chips(p, a) /\ Extra(q, b) = Extra(p, a)
      BY <3>1 DEF Beside, Chips, Extra
    <3>3. /\ Chips(p, a) * (p.combo + bonus + Extra(p, a)) <= Chips(p, a) * (q.combo + bonus + Extra(p, a))
          /\ Chips(p, a) * (p.combo + Extra(p, a)) <= Chips(p, a) * (q.combo + Extra(p, a))
      <4>1. /\ p.combo + bonus + Extra(p, a) \in Nat /\ p.combo + Extra(p, a) \in Nat
            /\ q.combo + bonus + Extra(p, a) \in Nat /\ q.combo + Extra(p, a) \in Nat
            /\ p.combo + bonus + Extra(p, a) <= q.combo + bonus + Extra(p, a)
            /\ p.combo + Extra(p, a) <= q.combo + Extra(p, a)
        BY <1>1, <1>4, <2>0
      <4> QED BY <4>1, <1>1, MulGrows
    <3>4. /\ Chips(p, a) * (p.combo + bonus + Extra(p, a)) \in Nat
          /\ Chips(p, a) * (q.combo + bonus + Extra(p, a)) \in Nat
          /\ Chips(p, a) * (p.combo + Extra(p, a)) \in Nat
          /\ Chips(p, a) * (q.combo + Extra(p, a)) \in Nat
      <4>1. /\ p.combo + bonus + Extra(p, a) \in Nat /\ p.combo + Extra(p, a) \in Nat
            /\ q.combo + bonus + Extra(p, a) \in Nat /\ q.combo + Extra(p, a) \in Nat
        BY <1>1, <1>4
      <4> QED BY <4>1, <1>1, MulInNat
    <3> QED BY <2>0, <3>2, <3>3, <3>4, <1>1, <1>3, <1>4
  <2> QED BY <1>4, <2>1, <2>2
<1>7. \A m \in Manches : y.scores[m] >= x.scores[m]
  <2> SUFFICES ASSUME NEW m \in Manches PROVE y.scores[m] >= x.scores[m]
    OBVIOUS
  <2>1. CASE m = p.manche BY <2>1, <1>6
  <2>2. CASE m # p.manche BY <2>2, <1>1, <1>3 DEF Beside
  <2> QED BY <2>1, <2>2
<1>8. y.goldPlayed = x.goldPlayed
  BY <1>1, <1>3, <1>a DEF Beside
<1> QED BY <1>1, <1>3, <1>5, <1>6, <1>7, <1>8 DEF Beside, x, y

LEMMA DivGrows ==
  ASSUME NEW m \in Nat, NEW n \in Nat, NEW d \in Nat \ {0}, m <= n
  PROVE  m \div d <= n \div d
<1>1. /\ m \div d \in Nat /\ n \div d \in Nat
      /\ m % d \in 0 .. d - 1 /\ n % d \in 0 .. d - 1
      /\ m = d * (m \div d) + (m % d) /\ n = d * (n \div d) + (n % d)
  OBVIOUS
<1> SUFFICES ASSUME m \div d >= n \div d + 1
             PROVE  FALSE
  BY <1>1
<1>2. d * (n \div d + 1) <= d * (m \div d)
  BY <1>1, MulGrows
<1>3. d * (n \div d + 1) = d * (n \div d) + d
  BY <1>1
<1> DEFINE qn == d * (n \div d)
           qm == d * (m \div d)
           rn == n % d
           rm == m % d
<1>4. qn \in Nat /\ qm \in Nat
  BY <1>1, MulInNat
<1>5. qn + d <= qm /\ m = qm + rm /\ n = qn + rn /\ rm \in 0 .. d - 1 /\ rn \in 0 .. d - 1
  BY <1>1, <1>2, <1>3
<1> HIDE DEF qn, qm, rn, rm
<1> QED BY <1>4, <1>5

(* What a manche that is passed pays, from its score and its target.        *)
Pay(score, target) == MancheMoney + AtMost(score \div AtLeast(target, 2), 3)

LEMMA PayGrows ==
  ASSUME NEW m \in Nat, NEW n \in Nat, NEW target \in Nat, m <= n
  PROVE  Pay(m, target) \in Nat /\ Pay(n, target) \in Nat /\ Pay(m, target) <= Pay(n, target)
<1> DEFINE d == AtLeast(target, 2)
<1>1. d \in Nat \ {0}
  BY DEF AtLeast
<1> HIDE DEF d
<1>2. m \div d \in Nat /\ n \div d \in Nat /\ m \div d <= n \div d
  BY <1>1, DivGrows
<1>3. AtMost(m \div d, 3) \in Nat /\ AtMost(n \div d, 3) \in Nat
      /\ AtMost(m \div d, 3) <= AtMost(n \div d, 3)
  BY <1>2 DEF AtMost
<1> QED BY <1>3, PlayAssumption DEF Pay, d

LEMMA PassedBeside ==
  ASSUME NEW p \in WalkRecords, NEW q \in WalkRecords, Beside(p, q), p.walk = "walking",
         NEW m \in Nat, NEW n \in Nat, m <= n
  PROVE  /\ Beside(Passed(p, m), Passed(q, n))
         /\ Passed(p, m).walk \in {"walking", "won"}
<1>1. p.money \in Nat /\ q.money \in Nat /\ p.manche \in Manches /\ q.manche = p.manche
      /\ q.money >= p.money
  BY DEF WalkRecords, Beside
<1>2. p.money + m <= q.money + n
  BY <1>1
<1>3. CASE p.manche = 3
  <2> DEFINE won(r, pay) == [r EXCEPT !.money = r.money + pay, !.walk = "won",
                                      !.cahierBonus = IF Cahier THEN CahierBonus ELSE 0]
  <2>1. Passed(p, m) = won(p, m) /\ Passed(q, n) = won(q, n)
    BY <1>1, <1>3 DEF Passed, WalkRecords
  <2>2. Beside(won(p, m), won(q, n)) /\ won(p, m).walk = "won"
    BY <1>2 DEF Beside, WalkRecords
  <2> QED BY <2>1, <2>2
<1>4. CASE p.manche # 3
  <2> DEFINE on(r, pay) == [r EXCEPT !.money = r.money + pay, !.manche = r.manche + 1,
                                     !.goldPlayed = 0, !.gommeSpent = FALSE, !.raw = 0]
  <2>1. Passed(p, m) = on(p, m) /\ Passed(q, n) = on(q, n)
    BY <1>1, <1>4 DEF Passed, WalkRecords
  <2>2. Beside(on(p, m), on(q, n)) /\ on(p, m).walk = "walking"
    BY <1>2 DEF Beside, WalkRecords
  <2> QED BY <2>1, <2>2
<1> QED BY <1>3, <1>4

(* The end of a manche: the mended run passes it if the run does, is paid   *)
(* no less for it, and is not refused where the run is not.                 *)
LEMMA JudgedBeside ==
  ASSUME NEW p \in WalkRecords, NEW q \in WalkRecords, Beside(p, q), p.walk = "walking"
  PROVE  LET x == Judged(p)
             y == Judged(q)
         IN /\ x.walk \in {"waiting", "walking"} => Beside(x, y)
            /\ NeverBehind(x, y)
<1> DEFINE target == Targets[p.manche]
           x == Judged(p)
           y == Judged(q)
           marked(r) == [r EXCEPT !.taken = @ \cup {r.manche}]
<1>1. /\ p.manche \in Manches /\ q.manche = p.manche /\ target \in Nat
      /\ p.scores[p.manche] \in Nat /\ q.scores[p.manche] \in Nat
      /\ q.scores[p.manche] >= p.scores[p.manche]
      /\ p.raw \in Nat /\ q.raw \in Nat /\ q.raw >= p.raw
      /\ WindowPct \in Nat /\ MancheMoney \in Nat
  BY PlayAssumption DEF Beside, WalkRecords
<1>2. ASSUME NEW m \in Nat, NEW n \in Nat, m <= n, NEW r \in WalkRecords, NEW s \in WalkRecords,
             Beside(r, s), r.walk = "walking", x = Passed(r, m), y = Passed(s, n)
      PROVE  /\ x.walk \in {"waiting", "walking"} => Beside(x, y)
             /\ NeverBehind(x, y)
  <2>1. Beside(x, y) /\ x \in WalkRecords /\ y \in WalkRecords
    BY <1>2, PassedBeside, PassedType, SMTT(20)
  <2> QED BY <2>1, BesideIsNotBehind
<1>3. ASSUME NEW bad \in {"failed", "refused"}, x.walk = bad,
             x.scores = p.scores, x.combo = p.combo, x.money = p.money,
             \A m \in Manches : y.scores[m] = q.scores[m], y.combo = q.combo, y.money >= q.money,
             bad = "failed" => y.walk # "refused"
      PROVE  /\ x.walk \in {"waiting", "walking"} => Beside(x, y)
             /\ NeverBehind(x, y)
  <2>1. p.money \in Nat /\ q.money \in Nat /\ y.money \in Nat /\ q.money >= p.money
    BY JudgedType DEF WalkRecords, Beside
  <2>2. NeverBehind(x, y)
    BY <1>3, <2>1 DEF NeverBehind, Beside
  <2> QED BY <1>3, <2>2
<1>4. /\ \A m \in Manches : y.scores[m] = q.scores[m]
      /\ y.combo = q.combo /\ y.money >= q.money
  <2>1. ASSUME NEW r \in WalkRecords, NEW pay \in Nat, r.scores = q.scores, r.combo = q.combo,
               r.money = q.money
        PROVE  /\ Passed(r, pay).scores = q.scores /\ Passed(r, pay).combo = q.combo
               /\ Passed(r, pay).money >= q.money
    BY <2>1 DEF Passed, WalkRecords
  <2>2. marked(q) \in WalkRecords /\ marked(q).scores = q.scores /\ marked(q).combo = q.combo
        /\ marked(q).money = q.money
    BY <1>1 DEF WalkRecords
  <2>3. Pay(q.scores[q.manche], Targets[q.manche]) \in Nat
    BY <1>1, PayGrows
  <2>4. \/ y = [q EXCEPT !.walk = "refused"]
        \/ y = Passed(marked(q), MancheMoney)
        \/ y = Passed(q, Pay(q.scores[q.manche], Targets[q.manche]))
        \/ y = [q EXCEPT !.walk = "failed", !.failedAt = q.manche]
    BY DEF Judged, Pay
  <2>5. q.money >= q.money
    BY DEF WalkRecords
  <2> HIDE DEF y, marked
  <2>6. CASE y = [q EXCEPT !.walk = "refused"] \/ y = [q EXCEPT !.walk = "failed", !.failedAt = q.manche]
    BY <2>5, <2>6 DEF WalkRecords
  <2>7. CASE y = Passed(marked(q), MancheMoney)
    BY <1>1, <2>1, <2>2, <2>7
  <2>8. CASE y = Passed(q, Pay(q.scores[q.manche], Targets[q.manche]))
    BY <2>1, <2>3, <2>8
  <2> QED BY <2>4, <2>6, <2>7, <2>8
<1>5. CASE p.manche \in claim
  <2>1. CASE p.raw * 100 < target * WindowPct
    <3>1. x = [p EXCEPT !.walk = "refused"]
      BY <1>5, <2>1 DEF Judged
    <3>2. x.walk = "refused" /\ x.scores = p.scores /\ x.combo = p.combo /\ x.money = p.money
      BY <3>1 DEF WalkRecords
    <3>q. /\ x.walk \in {"waiting", "walking"} => Beside(x, y)
          /\ NeverBehind(x, y)
      <4> HIDE DEF x, y
      <4> QED BY <3>2, <1>3, <1>4
    <3> QED BY <3>q
  <2>2. CASE ~(p.raw * 100 < target * WindowPct)
    <3>1. ~(q.raw * 100 < target * WindowPct)
      <4> DEFINE bar == target * WindowPct
      <4>1. bar \in Nat
        BY <1>1, MulInNat
      <4> HIDE DEF bar
      <4>2. ~(p.raw * 100 < bar) => ~(q.raw * 100 < bar)
        BY <4>1, <1>1
      <4> QED BY <2>2, <4>2 DEF bar
    <3>2. x = Passed(marked(p), MancheMoney) /\ y = Passed(marked(q), MancheMoney)
      BY <1>1, <1>5, <2>2, <3>1 DEF Judged
    <3>3. marked(p) \in WalkRecords /\ marked(q) \in WalkRecords /\ marked(p).walk = "walking"
          /\ Beside(marked(p), marked(q))
      BY <1>1 DEF WalkRecords, Beside
    <3>q. /\ x.walk \in {"waiting", "walking"} => Beside(x, y)
          /\ NeverBehind(x, y)
      <4> HIDE DEF x, y, marked
      <4> QED BY <3>2, <3>3, <1>1, <1>2
    <3> QED BY <3>q
  <2> QED BY <2>1, <2>2
<1>6. CASE p.manche \notin claim
  <2>1. CASE p.scores[p.manche] >= target
    <3>1. /\ x = Passed(p, Pay(p.scores[p.manche], target))
          /\ y = Passed(q, Pay(q.scores[p.manche], target))
      BY <1>1, <1>6, <2>1 DEF Judged, Pay
    <3>2. /\ Pay(p.scores[p.manche], target) \in Nat /\ Pay(q.scores[p.manche], target) \in Nat
          /\ Pay(p.scores[p.manche], target) <= Pay(q.scores[p.manche], target)
      BY <1>1, PayGrows
    <3>q. /\ x.walk \in {"waiting", "walking"} => Beside(x, y)
          /\ NeverBehind(x, y)
      <4> HIDE DEF x, y
      <4> QED BY <3>1, <3>2, <1>2
    <3> QED BY <3>q
  <2>2. CASE ~(p.scores[p.manche] >= target)
    <3>1. x = [p EXCEPT !.walk = "failed", !.failedAt = p.manche]
      BY <1>6, <2>2 DEF Judged
    <3>2. x.walk = "failed" /\ x.scores = p.scores /\ x.combo = p.combo /\ x.money = p.money
      BY <3>1 DEF WalkRecords
    <3>3. y.walk # "refused"
      <4>1. q.walk = "walking" /\ q.manche \notin claim
        BY <1>1, <1>6 DEF Beside
      <4> QED BY <4>1 DEF Judged, Passed, WalkRecords
    <3>q. /\ x.walk \in {"waiting", "walking"} => Beside(x, y)
          /\ NeverBehind(x, y)
      <4> HIDE DEF x, y
      <4> QED BY <3>2, <3>3, <1>3, <1>4
    <3> QED BY <3>q
  <2> QED BY <2>1, <2>2
<1> QED BY <1>5, <1>6

LEMMA NoWalkType == NoWalk \in WalkRecords
BY PlayAssumption DEF NoWalk, WalkRecords, Walks, Manches

LEMMA SelfBeside ==
  ASSUME NEW p \in WalkRecords, p.combo >= 1
  PROVE  Beside(p, p)
BY DEF Beside, WalkRecords

LEMMA TwinsInit == TwinInit => TwinsInv
<1> SUFFICES ASSUME TwinInit
             PROVE  TwinsInv
  OBVIOUS
<1>1. replay = NoWalk /\ twin = NoWalk /\ NoWalk.combo >= 1
  BY DEF TwinInit, Init, NoWalk
<1> QED BY <1>1, NoWalkType, SelfBeside, BesideIsNotBehind, InitType DEF TwinsInv, TwinInit

LEMMA TwinsStep == TwinsInv /\ [TwinNext]_twinVars => TwinsInv'
<1> SUFFICES ASSUME TwinsInv, [TwinNext]_twinVars
             PROVE  TwinsInv'
  OBVIOUS
<1>0. /\ replay \in WalkRecords /\ twin \in WalkRecords /\ attempts \in Seq(Attempts)
      /\ replay.at \in Nat /\ Len(attempts) \in Nat
  BY LenProperties DEF TwinsInv, TypeOK, WalkRecords
<1>1. [Next]_vars
  BY DEF TwinNext, twinVars, TwinFinish, PerfectFinish, TwinAttempt, TwinManche, Next
<1>2. TypeOK' /\ replay' \in WalkRecords
  BY <1>1, NextType DEF TwinsInv, TypeOK
<1>3. ASSUME UNCHANGED <<replay, twin>>
      PROVE  TwinsInv'
  BY <1>2, <1>3 DEF TwinsInv
<1>4. CASE TwinFinish \/ PerfectFinish
  <2>1. twin' = replay' /\ replay'.combo = replay.combo /\ replay.walk = "waiting"
    BY <1>0, <1>4 DEF TwinFinish, PerfectFinish, Finish, WalkRecords
  <2>2. replay'.combo >= 1
    BY <2>1 DEF TwinsInv, Beside
  <2> QED BY <1>2, <2>1, <2>2, SelfBeside, BesideIsNotBehind DEF TwinsInv
<1>5. CASE TwinAttempt
  <2> DEFINE a == attempts[replay.at + 1]
             b == Mended(replay.at + 1)
  <2>1. replay.walk = "walking" /\ Beside(replay, twin) /\ twin.walk = "walking"
    BY <1>5 DEF TwinAttempt, ReplayAttempt, TwinsInv, Beside
  <2>2. a \in Attempts
    <3>1. replay.at + 1 \in 1 .. Len(attempts)
      BY <1>0, <1>5 DEF TwinAttempt, ReplayAttempt, MoreOf
    <3> QED BY <1>0, <3>1, ElementOfSeq
  <2>3. b \in Attempts /\ (b = a \/ (~a.correct /\ b = [a EXCEPT !.correct = TRUE]))
    <3>1. b = a \/ b = [a EXCEPT !.correct = TRUE]
      BY DEF Mended
    <3>2. a.correct => [a EXCEPT !.correct = TRUE] = a
      BY <2>2 DEF Attempts
    <3>3. ~a.correct => [a EXCEPT !.correct = TRUE] \in Attempts
      BY <2>2 DEF Attempts
    <3> QED BY <2>2, <3>1, <3>2, <3>3
  <2>4. replay' = Scored(replay, a) /\ twin' = Scored(twin, b)
    BY <1>5, <2>1 DEF TwinAttempt, ReplayAttempt
  <2> HIDE DEF a, b
  <2>5. Beside(replay', twin') /\ twin' \in WalkRecords
    BY <1>0, <2>1, <2>2, <2>3, <2>4, ScoredBeside, ScoredType
  <2> QED BY <1>2, <2>5, BesideIsNotBehind DEF TwinsInv
<1>6. CASE TwinManche
  <2>1. replay.walk = "walking" /\ Beside(replay, twin) /\ twin.walk = "walking"
    BY <1>6 DEF TwinManche, ReplayManche, TwinsInv, Beside
  <2>2. replay' = Judged(replay) /\ twin' = Judged(twin)
    BY <1>6, <2>1 DEF TwinManche, ReplayManche
  <2>3. twin' \in WalkRecords
    BY <1>0, <2>2, JudgedType
  <2> QED BY <1>0, <1>2, <2>1, <2>2, <2>3, JudgedBeside DEF TwinsInv
<1> QED
  BY <1>3, <1>4, <1>5, <1>6
     DEF TwinNext, twinVars, twins, vars, Answer, NextManche, Revanche, Lose, OtherRun, rows, client

(* One fault put right never costs a child anything: in no manche a point,  *)
(* no combo, no money, and never the run; nor is a run refused for it that  *)
(* was merely lost.                                                         *)
THEOREM RightIsNeverWorseAlways == TwinSpec => []RightIsNeverWorse
<1>1. TwinsInv => RightIsNeverWorse
  BY DEF TwinsInv, NeverBehind, RightIsNeverWorse
<1> QED BY <1>1, TwinsInit, TwinsStep, PTL DEF TwinSpec
=============================================================================
