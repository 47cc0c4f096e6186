------------------------------ MODULE Run_proofs ------------------------------
(***************************************************************************)
(* Proofs about a run before it is finished.                               *)
(*                                                                         *)
(* About RunStart, for any child, any words and any number of requests at  *)
(* once: acknowledged time is never lost and no bonus is without its       *)
(* dictee.  About Deck, for any words, histories and sizes: the decks keep *)
(* their promises, and the manches deal each unmet word once.  About       *)
(* Writing, for any cards, letters and paris: what has been written starts *)
(* the word, each card is scored once for its pari, and the counter is the *)
(* score.                                                                  *)
(***************************************************************************)
EXTENDS RunStart, Writing, FiniteSetTheorems, SequenceTheorems, WellFoundedInduction, TLAPS

----------------------------------------------------------------------------
(* The head and the tail of a sequence. *)
LEMMA HeadTailPlaces ==
  ASSUME NEW S, NEW s \in Seq(S), s # <<>>
  PROVE  /\ Head(s) \in S /\ Tail(s) \in Seq(S)
         /\ Len(s) # 1 => Tail(s) # <<>>
<1>1. Head(s) \in S /\ Tail(s) \in Seq(S) /\ Len(Tail(s)) = Len(s) - 1 /\ Len(s) \in Nat
  BY HeadTailProperties, LenProperties
<1> QED BY <1>1

----------------------------------------------------------------------------
(* Types of what the day's account depends on. *)
AccountTyped ==
  /\ day \in Days
  /\ account \in [Days -> Accounts]
  /\ told \in [Days -> Accounts]
  /\ results \in [Days -> Counts]
  /\ limit \in LimitRows
  /\ validated \subseteq Lists
  /\ states \in [Words -> Classes]
  /\ pc \in [Requests -> Steps]
  /\ held \in [Requests -> HeldRecords]
  /\ \A q \in Requests : pc[q] = "save" => held[q].left # <<>>
  /\ \A q \in Requests :
       pc[q] \in {"addTime", "beatChild", "beatTime"} => held[q].claim \in 1 .. MaxBeat

LEMMA NothingIsHeld == Nothing \in HeldRecords
<1>1. 0 \in Days /\ 0 \in Nat /\ 0 \in Int
  BY RunStartAssumption DEF Days
<1>2. SavedLimit(0) \in LimitRows /\ NoTime \in Accounts
  BY DEF SavedLimit, LimitRows, NoTime, Accounts
<1>3. [w \in Words |-> "unmet"] \in [Words -> Classes]
  BY DEF Classes
<1> QED BY <1>1, <1>2, <1>3 DEF Nothing, HeldRecords

(* A step of one request, by what it leaves of it.                          *)
LEMMA OneRequestTyped ==
  ASSUME AccountTyped, NEW q \in Requests, NEW step \in Steps, NEW hold \in HeldRecords,
         step = "save" => hold.left # <<>>,
         step \in {"addTime", "beatChild", "beatTime"} => hold.claim \in 1 .. MaxBeat,
         GoesOn(q, step, hold)
  PROVE  /\ pc' \in [Requests -> Steps]
         /\ held' \in [Requests -> HeldRecords]
         /\ \A r \in Requests : pc'[r] = "save" => held'[r].left # <<>>
         /\ \A r \in Requests :
              pc'[r] \in {"addTime", "beatChild", "beatTime"} => held'[r].claim \in 1 .. MaxBeat
BY DEF AccountTyped, GoesOn

LEMMA EndsTyped ==
  ASSUME AccountTyped, NEW q \in Requests, Ends(q)
  PROVE  /\ pc' \in [Requests -> Steps]
         /\ held' \in [Requests -> HeldRecords]
         /\ \A r \in Requests : pc'[r] = "save" => held'[r].left # <<>>
         /\ \A r \in Requests :
              pc'[r] \in {"addTime", "beatChild", "beatTime"} => held'[r].claim \in 1 .. MaxBeat
<1>1. GoesOn(q, "idle", Nothing) /\ "idle" \in Steps
  BY DEF Ends, GoesOn, Steps
<1> QED BY <1>1, NothingIsHeld, OneRequestTyped

LEMMA ArrivalTyped ==
  ASSUME AccountTyped, NEW q \in Requests,
         \/ \E ids \in Asks : Start(q, ids)
         \/ \E claim \in Claims : Beat(q, claim)
         \/ \E report \in Reports : Report(q, report)
  PROVE  AccountTyped'
<1>1. PICK step \in Steps, hold \in HeldRecords :
        /\ Arrives(q, step, hold)
        /\ step \notin {"save", "addTime", "beatChild", "beatTime"}
  <2>1. ASSUME NEW ids \in Asks, Start(q, ids)
        PROVE  \E step \in Steps, hold \in HeldRecords :
                 /\ Arrives(q, step, hold)
                 /\ step \notin {"save", "addTime", "beatChild", "beatTime"}
    <3>1. [Nothing EXCEPT !.ids = ids] \in HeldRecords
      BY NothingIsHeld, RunStartAssumption DEF HeldRecords
    <3> QED BY <2>1, <3>1 DEF Start, Steps
  <2>2. ASSUME NEW claim \in Claims, Beat(q, claim)
        PROVE  \E step \in Steps, hold \in HeldRecords :
                 /\ Arrives(q, step, hold)
                 /\ step \notin {"save", "addTime", "beatChild", "beatTime"}
    <3>1. [Nothing EXCEPT !.claim = claim] \in HeldRecords
      BY NothingIsHeld, RunStartAssumption DEF HeldRecords
    <3> QED BY <2>2, <3>1 DEF Beat, Steps
  <2>3. ASSUME NEW report \in Reports, Report(q, report)
        PROVE  \E step \in Steps, hold \in HeldRecords :
                 /\ Arrives(q, step, hold)
                 /\ step \notin {"save", "addTime", "beatChild", "beatTime"}
    <3>1. /\ report.results \in Seq([item: Words, correct: BOOLEAN])
          /\ ItemsOf[report.list] \in SUBSET Words
      BY RunStartAssumption
    <3>2. [Nothing EXCEPT !.left = report.results, !.list = ItemsOf[report.list]] \in HeldRecords
      BY <3>1, NothingIsHeld DEF HeldRecords
    <3> QED BY <2>3, <3>2 DEF Report, Steps
  <2> QED BY <2>1, <2>2, <2>3
<1>2. GoesOn(q, step, hold) /\ UNCHANGED <<day, rows, told>>
  BY <1>1 DEF Arrives
<1> QED BY <1>1, <1>2, OneRequestTyped DEF AccountTyped, rows

(* The steps of POST /run/start. *)
LEMMA StartTyped ==
  ASSUME AccountTyped, NEW q \in Requests,
         ReadChild(q) \/ ReadTime(q) \/ ReadStates(q) \/ ReadLists(q) \/ ReadItems(q) \/ CreateRun(q)
  PROVE  AccountTyped'
<1>h. held[q] \in HeldRecords
  BY DEF AccountTyped
<1>u. UNCHANGED <<day, account, results, limit, validated, states, told>>
  BY DEF ReadChild, ReadTime, ReadStates, ReadLists, ReadItems, CreateRun, rows
<1>1. CASE Ends(q)
  BY <1>1, <1>u, EndsTyped DEF AccountTyped
<1>2. ASSUME NEW step \in Steps, NEW hold \in HeldRecords, GoesOn(q, step, hold),
             step \notin {"save", "addTime", "beatChild", "beatTime"}
      PROVE  AccountTyped'
  BY <1>2, <1>u, OneRequestTyped DEF AccountTyped
<1>3. CASE ReadChild(q)
  <2>1. [held[q] EXCEPT !.limit = limit] \in HeldRecords
    BY <1>h DEF AccountTyped, HeldRecords
  <2> QED BY <1>2, <1>3, <2>1 DEF ReadChild, Steps
<1>4. CASE ReadTime(q)
  <2>1. [held[q] EXCEPT !.time = account[day]] \in HeldRecords
    BY <1>h DEF AccountTyped, HeldRecords
  <2> QED BY <1>1, <1>2, <1>4, <2>1 DEF ReadTime, Steps
<1>5. CASE ReadStates(q)
  <2>1. [held[q] EXCEPT !.states = states] \in HeldRecords
    BY <1>h DEF AccountTyped, HeldRecords
  <2> QED BY <1>2, <1>5, <2>1 DEF ReadStates, Steps
<1>6. CASE ReadLists(q)
  <2>1. [held[q] EXCEPT !.lists = validated] \in HeldRecords
    BY <1>h DEF AccountTyped, HeldRecords
  <2>2. PICK step \in {"create", "readItems"} : GoesOn(q, step, [held[q] EXCEPT !.lists = validated])
    BY <1>6 DEF ReadLists
  <2> QED BY <1>2, <2>1, <2>2 DEF Steps
<1>7. CASE ReadItems(q)
  <2>1. PICK l \in held[q].lists, step \in {"create", "readItems"} :
          GoesOn(q, step, [held[q] EXCEPT !.lists = @ \ {l}, !.all = @ \cup ItemsOf[l]])
    BY <1>7 DEF ReadItems
  <2>2. ItemsOf[l] \subseteq Words
    BY <1>h, RunStartAssumption DEF HeldRecords
  <2>3. [held[q] EXCEPT !.lists = @ \ {l}, !.all = @ \cup ItemsOf[l]] \in HeldRecords
    BY <1>h, <2>2 DEF HeldRecords
  <2> QED BY <1>2, <2>1, <2>3 DEF Steps
<1>8. CASE CreateRun(q)
  BY <1>1, <1>8 DEF CreateRun
<1> QED BY <1>3, <1>4, <1>5, <1>6, <1>7, <1>8

(* The steps of a heartbeat. *)
LEMMA BeatTyped ==
  ASSUME AccountTyped, NEW q \in Requests,
         OwnRun(q) \/ AddPlayTime(q) \/ BeatReadsChild(q) \/ BeatAnswers(q)
  PROVE  AccountTyped'
<1>h. held[q] \in HeldRecords /\ held[q].day \in Days /\ held[q].claim \in Int
  BY DEF AccountTyped, HeldRecords
<1>1. CASE OwnRun(q)
  <2>1. [held[q] EXCEPT !.day = day] \in HeldRecords
        /\ [held[q] EXCEPT !.day = day].claim = held[q].claim
    BY <1>h DEF AccountTyped, HeldRecords
  <2>2. CASE Ends(q)
    BY <1>1, <2>2, EndsTyped DEF AccountTyped, OwnRun, rows
  <2>3. CASE GoesOn(q, "addTime", [held[q] EXCEPT !.day = day]) /\ held[q].claim \in 1 .. MaxBeat
    BY <1>1, <2>1, <2>3, OneRequestTyped DEF AccountTyped, OwnRun, rows, Steps
  <2> QED BY <1>1, <2>2, <2>3 DEF OwnRun
<1>2. CASE AddPlayTime(q)
  <2>1. held[q].claim \in 1 .. MaxBeat /\ GoesOn(q, "beatChild", held[q]) /\ "beatChild" \in Steps
    BY <1>2 DEF AddPlayTime, AccountTyped, Steps
  <2>2. account' \in [Days -> Accounts]
    <3>1. AddSeconds(account[held[q].day], held[q].claim) \in Accounts
      <4>1. account[held[q].day] \in Accounts /\ held[q].claim \in Nat
        BY <1>h, <2>1, RunStartAssumption DEF AccountTyped
      <4> QED BY <4>1 DEF AddSeconds, Accounts
    <3> QED BY <1>2, <1>h, <3>1 DEF AddPlayTime, AccountTyped
  <2> QED BY <1>2, <1>h, <2>1, <2>2, OneRequestTyped DEF AccountTyped, AddPlayTime
<1>3. CASE BeatReadsChild(q)
  <2>1. [held[q] EXCEPT !.limit = limit] \in HeldRecords
        /\ [held[q] EXCEPT !.limit = limit].claim = held[q].claim
    BY <1>h DEF AccountTyped, HeldRecords
  <2>2. held[q].claim \in 1 .. MaxBeat /\ "beatTime" \in Steps
    BY <1>3 DEF BeatReadsChild, AccountTyped, Steps
  <2> QED BY <1>3, <2>1, <2>2, OneRequestTyped DEF AccountTyped, BeatReadsChild, rows
<1>4. CASE BeatAnswers(q)
  <2>1. held[q].claim \in Nat
    BY <1>4, RunStartAssumption DEF BeatAnswers, AccountTyped
  <2>2. told' \in [Days -> Accounts]
    <3>1. told[held[q].day] \in Accounts
      BY <1>h DEF AccountTyped
    <3>2. [told[held[q].day] EXCEPT !.seconds = @ + held[q].claim] \in Accounts
      BY <2>1, <3>1 DEF Accounts
    <3>3. told' = [told EXCEPT ![held[q].day] =
                     [told[held[q].day] EXCEPT !.seconds = @ + held[q].claim]]
      BY <1>4 DEF BeatAnswers
    <3> QED BY <3>2, <3>3 DEF AccountTyped
  <2> QED BY <1>4, <2>2, EndsTyped DEF AccountTyped, BeatAnswers, rows
<1> QED BY <1>1, <1>2, <1>3, <1>4

LEMMA BonusIsNat ==
  ASSUME NEW n \in Nat
  PROVE  Bonus(n) \in Nat
<1>1. CompletionBonus \in Nat /\ WordBonus \in Nat
  BY RunStartAssumption
<1> QED BY <1>1 DEF Bonus

(* The steps of a dictée report. *)
LEMMA ReportTyped ==
  ASSUME AccountTyped, NEW q \in Requests,
         ReadReported(q) \/ SaveResult(q) \/ CreditBonus(q)
  PROVE  AccountTyped'
<1> DEFINE Result == [item: Words, correct: BOOLEAN]
<1>h. /\ held[q] \in HeldRecords /\ held[q].day \in Days
      /\ held[q].left \in Seq(Result) /\ held[q].correct \in Nat
  BY DEF AccountTyped, HeldRecords
<1>1. CASE ReadReported(q)
  <2>1. [held[q] EXCEPT !.day = day] \in HeldRecords
        /\ [held[q] EXCEPT !.day = day].left = held[q].left
    BY <1>h DEF AccountTyped, HeldRecords
  <2>2. CASE Ends(q)
    BY <1>1, <2>2, EndsTyped DEF AccountTyped, ReadReported, rows
  <2>3. CASE GoesOn(q, "save", [held[q] EXCEPT !.day = day]) /\ held[q].left # <<>>
    BY <1>1, <2>1, <2>3, OneRequestTyped DEF AccountTyped, ReadReported, rows, Steps
  <2> QED BY <1>1, <2>2, <2>3 DEF ReadReported
<1>2. CASE SaveResult(q)
  <2> DEFINE right == IF Head(held[q].left).correct THEN 1 ELSE 0
             hold  == [held[q] EXCEPT !.left = Tail(held[q].left), !.correct = held[q].correct + right]
             step  == IF Len(held[q].left) = 1 THEN "credit" ELSE "save"
  <2>1. held[q].left # <<>> /\ right \in Nat
    BY <1>2 DEF SaveResult, AccountTyped
  <2>2. /\ Tail(held[q].left) \in Seq(Result)
        /\ Len(held[q].left) # 1 => Tail(held[q].left) # <<>>
    BY <1>h, <2>1, HeadTailPlaces
  <2>3. /\ hold \in HeldRecords
        /\ hold.left = Tail(held[q].left)
    <3> HIDE DEF right
    <3>1. held[q].correct + right \in Nat
      BY <1>h, <2>1
    <3> QED BY <1>h, <2>2, <3>1 DEF HeldRecords
  <2>4. GoesOn(q, step, hold)
    BY <1>2 DEF SaveResult
  <2>5. step \in Steps /\ (step = "save" => hold.left # <<>>) /\ step \in {"save", "credit"}
    BY <2>2, <2>3 DEF Steps
  <2>6. results' \in [Days -> Counts]
    <3>1. results[held[q].day] \in Counts
      BY <1>h DEF AccountTyped
    <3>2. [all |-> results[held[q].day].all + 1, correct |-> results[held[q].day].correct + right] \in Counts
      BY <2>1, <3>1 DEF Counts
    <3>3. results' = [results EXCEPT ![held[q].day] =
            [all |-> results[held[q].day].all + 1, correct |-> results[held[q].day].correct + right]]
      BY <1>2 DEF SaveResult
    <3> HIDE DEF right
    <3> QED BY <3>2, <3>3 DEF AccountTyped
  <2>7. UNCHANGED <<day, account, limit, validated, states, told>>
    BY <1>2 DEF SaveResult
  <2> HIDE DEF step, hold
  <2> QED BY <2>3, <2>4, <2>5, <2>6, <2>7, OneRequestTyped DEF AccountTyped
<1>3. CASE CreditBonus(q)
  <2> DEFINE bonus == Bonus(held[q].correct)
  <2>1. bonus \in Nat
    BY <1>h, BonusIsNat
  <2> HIDE DEF bonus
  <2>2. account' \in [Days -> Accounts]
    <3>1. account[held[q].day] \in Accounts
      BY <1>h DEF AccountTyped
    <3>2. AddBonus(account[held[q].day], bonus) \in Accounts
      BY <2>1, <3>1 DEF AddBonus, Accounts
    <3>3. account' = [account EXCEPT ![held[q].day] = AddBonus(account[held[q].day], bonus)]
      BY <1>3 DEF CreditBonus, bonus
    <3> QED BY <3>2, <3>3 DEF AccountTyped
  <2>3. told' \in [Days -> Accounts]
    <3>1. told[held[q].day] \in Accounts
      BY <1>h DEF AccountTyped
    <3>2. [told[held[q].day] EXCEPT !.bonus = told[held[q].day].bonus + bonus] \in Accounts
      BY <2>1, <3>1 DEF Accounts
    <3>3. told' = [told EXCEPT ![held[q].day] =
                     [told[held[q].day] EXCEPT !.bonus = told[held[q].day].bonus + bonus]]
      BY <1>3 DEF CreditBonus, bonus
    <3> QED BY <3>2, <3>3 DEF AccountTyped
  <2> QED BY <1>3, <2>2, <2>3, EndsTyped DEF AccountTyped, CreditBonus
<1> QED BY <1>1, <1>2, <1>3

(* Everything else. *)
LEMMA OtherTyped ==
  ASSUME AccountTyped,
         \/ \E q \in Requests : Fail(q)
         \/ Restart \/ Midnight \/ SaveSettings \/ ValidateList \/ FinishElsewhere
  PROVE  AccountTyped'
<1>1. ASSUME NEW q \in Requests, Fail(q)
      PROVE  AccountTyped'
  BY <1>1, EndsTyped DEF Fail, rows, AccountTyped
<1>2. CASE Restart
  BY <1>2, NothingIsHeld DEF Restart, rows, AccountTyped, Steps
<1>3. CASE Midnight
  BY <1>3, RunStartAssumption DEF Midnight, rows, AccountTyped, Days
<1>4. CASE SaveSettings
  BY <1>4, RunStartAssumption DEF SaveSettings, AccountTyped, SavedLimit, LimitRows
<1>5. CASE ValidateList
  BY <1>5 DEF ValidateList, AccountTyped
<1>6. CASE FinishElsewhere
  <2>1. PICK w \in Words : \E class \in Follows(states[w]) : states' = [states EXCEPT ![w] = class]
    BY <1>6 DEF FinishElsewhere
  <2>2. PICK class \in Follows(states[w]) : states' = [states EXCEPT ![w] = class]
    BY <2>1
  <2>3. states[w] \in Classes
    BY DEF AccountTyped
  <2>4. class \in Classes
    BY <2>3 DEF Follows, Classes
  <2> QED BY <1>6, <2>2, <2>4 DEF FinishElsewhere, AccountTyped
<1> QED BY <1>1, <1>2, <1>3, <1>4, <1>5, <1>6

LEMMA InitTyped == Init => AccountTyped
<1>1. 0 \in Days /\ NoTime \in Accounts /\ [all |-> 0, correct |-> 0] \in Counts
  BY RunStartAssumption DEF Days, NoTime, Accounts, Counts
<1>2. SavedLimit(DefaultLimit) \in LimitRows
  BY RunStartAssumption DEF SavedLimit, LimitRows
<1> QED BY <1>1, <1>2, NothingIsHeld, RunStartAssumption DEF Init, AccountTyped, Steps

(* The day's account, and what the requests hold of it, are well typed:     *)
(* a claim on its way to the account is one the bounds let through.         *)
THEOREM AccountsTyped == Spec => []AccountTyped
<1>1. Init => AccountTyped
  BY InitTyped
<1>2. AccountTyped /\ [Next]_vars => AccountTyped'
  <2>1. AccountTyped /\ UNCHANGED vars => AccountTyped'
    BY DEF AccountTyped, vars, rows
  <2>2. ASSUME AccountTyped, NEW q \in Requests, Handle(q)
        PROVE  AccountTyped'
    BY <2>2, StartTyped, BeatTyped, ReportTyped DEF Handle
  <2> QED BY <2>1, <2>2, ArrivalTyped, OtherTyped DEF Next
<1> QED BY <1>1, <1>2, PTL DEF Spec

----------------------------------------------------------------------------
(* What n units are worth, as a set: the sums below are sizes of disjoint   *)
(* unions of these.                                                         *)
Span(q, n) == {q} \X (1 .. n)

LEMMA SpanSize ==
  ASSUME NEW q, NEW n \in Nat
  PROVE  IsFiniteSet(Span(q, n)) /\ Cardinality(Span(q, n)) = n
<1>1. IsFiniteSet({q}) /\ Cardinality({q}) = 1
  BY FS_Singleton
<1>2. IsFiniteSet(1 .. n) /\ Cardinality(1 .. n) = n
  BY FS_Interval
<1>3. /\ IsFiniteSet({q} \X (1 .. n))
      /\ Cardinality({q} \X (1 .. n)) = Cardinality({q}) * Cardinality(1 .. n)
  BY <1>1, <1>2, FS_Product
<1> QED BY <1>1, <1>2, <1>3 DEF Span

(* Play on the account of day d that the server has yet to answer for.      *)
Unanswered(d) ==
  {u \in Requests \X Nat :
     /\ pc[u[1]] \in {"beatChild", "beatTime"}
     /\ held[u[1]].day = d
     /\ u[2] \in 1 .. held[u[1]].claim}

(* The right words of day d that a report under way has saved and not yet   *)
(* been credited for, and the reports that wait for their credit.           *)
Uncredited(d) ==
  {u \in Requests \X Nat :
     /\ pc[u[1]] \in {"save", "credit"}
     /\ held[u[1]].day = d
     /\ u[2] \in 1 .. held[u[1]].correct}

Crediting(d) == {q \in Requests : pc[q] = "credit" /\ held[q].day = d}

(* Time is answered for only once it is on the account.                     *)
TimeInv ==
  \A d \in Days :
    /\ IsFiniteSet(Unanswered(d))
    /\ account[d].seconds >= told[d].seconds + Cardinality(Unanswered(d))
    /\ account[d].bonus >= told[d].bonus

(* A day's bonus is that of some reports and some right words, and the      *)
(* results on record cover these and those of the reports under way.        *)
Backed(d, reports, right) ==
  /\ account[d].bonus = CompletionBonus * reports + WordBonus * right
  /\ reports + Cardinality(Crediting(d)) <= results[d].all
  /\ right + Cardinality(Uncredited(d)) <= results[d].correct

BonusInv ==
  \A d \in Days :
    /\ IsFiniteSet(Uncredited(d))
    /\ IsFiniteSet(Crediting(d))
    /\ \E reports, right \in Nat : Backed(d, reports, right)

ReportFresh == \A q \in Requests : pc[q] = "items" => held[q].correct = 0

IInv == AccountTyped /\ TimeInv /\ BonusInv /\ ReportFresh

(* A step that touches no account and no result leaves less on its way, if  *)
(* anything, but for a report that has saved nothing yet.                   *)
Quiet ==
  /\ UNCHANGED <<account, told, results>>
  /\ \A q \in Requests :
       /\ pc'[q] \in {"beatChild", "beatTime"} =>
            /\ pc[q] \in {"beatChild", "beatTime"}
            /\ held'[q].day = held[q].day /\ held'[q].claim = held[q].claim
       /\ pc'[q] \in {"save", "credit"} =>
            \/ pc'[q] = pc[q] /\ held'[q].day = held[q].day /\ held'[q].correct = held[q].correct
            \/ pc'[q] = "save" /\ held'[q].correct = 0
       /\ pc'[q] = "items" => held'[q].correct = 0

LEMMA QuietTime ==
  ASSUME IInv, Quiet
  PROVE  TimeInv'
<1> SUFFICES ASSUME NEW d \in Days
             PROVE  /\ IsFiniteSet(Unanswered(d)')
                    /\ account[d].seconds >= told[d].seconds + Cardinality(Unanswered(d)')
                    /\ account[d].bonus >= told[d].bonus
  BY DEF TimeInv, Quiet
<1>1. Unanswered(d)' \subseteq Unanswered(d)
  BY DEF Unanswered, Quiet
<1>2. /\ IsFiniteSet(Unanswered(d))
      /\ account[d].seconds >= told[d].seconds + Cardinality(Unanswered(d))
      /\ account[d].bonus >= told[d].bonus
  BY DEF IInv, TimeInv
<1>3. /\ IsFiniteSet(Unanswered(d)')
      /\ Cardinality(Unanswered(d)') <= Cardinality(Unanswered(d))
      /\ Cardinality(Unanswered(d)') \in Nat /\ Cardinality(Unanswered(d)) \in Nat
  BY <1>1, <1>2, FS_Subset, FS_CardinalityType
<1>4. account[d].seconds \in Nat /\ told[d].seconds \in Nat
  BY DEF IInv, AccountTyped, Accounts
<1> QED BY <1>2, <1>3, <1>4

LEMMA QuietBonus ==
  ASSUME IInv, Quiet
  PROVE  BonusInv' /\ ReportFresh'
<1>1. ReportFresh'
  BY DEF Quiet, ReportFresh
<1>2. ASSUME NEW d \in Days
      PROVE  /\ IsFiniteSet(Uncredited(d)') /\ IsFiniteSet(Crediting(d)')
             /\ \E reports, right \in Nat : Backed(d, reports, right)'
  <2>1. Uncredited(d)' \subseteq Uncredited(d) /\ Crediting(d)' \subseteq Crediting(d)
    <3>1. \A q \in Requests : pc'[q] = "save" /\ held'[q].correct = 0 => 1 .. held'[q].correct = {}
      OBVIOUS
    <3> QED BY <3>1 DEF Uncredited, Crediting, Quiet
  <2>2. PICK reports \in Nat, right \in Nat : Backed(d, reports, right)
    BY DEF IInv, BonusInv
  <2>3. IsFiniteSet(Uncredited(d)) /\ IsFiniteSet(Crediting(d))
    BY DEF IInv, BonusInv
  <2>4. /\ IsFiniteSet(Uncredited(d)') /\ IsFiniteSet(Crediting(d)')
        /\ Cardinality(Uncredited(d)') <= Cardinality(Uncredited(d))
        /\ Cardinality(Crediting(d)') <= Cardinality(Crediting(d))
        /\ Cardinality(Uncredited(d)') \in Nat /\ Cardinality(Uncredited(d)) \in Nat
        /\ Cardinality(Crediting(d)') \in Nat /\ Cardinality(Crediting(d)) \in Nat
    BY <2>1, <2>3, FS_Subset, FS_CardinalityType
  <2>5. results[d].all \in Nat /\ results[d].correct \in Nat
    BY DEF IInv, AccountTyped, Counts
  <2>6. Backed(d, reports, right)'
    BY <2>2, <2>4, <2>5 DEF Backed, Quiet
  <2> QED BY <2>4, <2>6
<1> QED BY <1>1, <1>2 DEF BonusInv

LEMMA QuietInv ==
  ASSUME IInv, AccountTyped', Quiet
  PROVE  IInv'
BY QuietTime, QuietBonus DEF IInv

LEMMA QuietSteps ==
  ASSUME IInv,
         \/ \E q \in Requests :
              \/ \E ids \in Asks : Start(q, ids)
              \/ \E claim \in Claims : Beat(q, claim)
              \/ \E report \in Reports : Report(q, report)
              \/ ReadChild(q) \/ ReadTime(q) \/ ReadStates(q) \/ ReadLists(q) \/ ReadItems(q)
              \/ CreateRun(q) \/ OwnRun(q) \/ BeatReadsChild(q) \/ ReadReported(q) \/ Fail(q)
         \/ Restart \/ Midnight \/ SaveSettings \/ ValidateList \/ FinishElsewhere
  PROVE  Quiet
<1>t. pc \in [Requests -> Steps] /\ held \in [Requests -> HeldRecords]
  BY DEF IInv, AccountTyped
<1>f. \A r \in Requests : pc[r] = "items" => held[r].correct = 0
  BY DEF IInv, ReportFresh
<1>1. ASSUME NEW q \in Requests, NEW step, NEW hold, GoesOn(q, step, hold),
             UNCHANGED <<account, told, results>>,
             step \notin {"beatChild", "beatTime", "save", "credit", "items"}
      PROVE  Quiet
  BY <1>t, <1>f, <1>1 DEF GoesOn, Quiet
<1>2. ASSUME NEW q \in Requests, Ends(q), UNCHANGED <<account, told, results>>
      PROVE  Quiet
  <2>1. GoesOn(q, "idle", Nothing)
    BY <1>2 DEF Ends, GoesOn
  <2> QED BY <1>1, <1>2, <2>1
<1>3. ASSUME NEW q \in Requests, NEW ids \in Asks, Start(q, ids)
      PROVE  Quiet
  BY <1>1, <1>3 DEF Start, Arrives, rows
<1>4. ASSUME NEW q \in Requests, NEW claim \in Claims, Beat(q, claim)
      PROVE  Quiet
  BY <1>1, <1>4 DEF Beat, Arrives, rows
<1>5. ASSUME NEW q \in Requests, NEW report \in Reports, Report(q, report)
      PROVE  Quiet
  <2> DEFINE hold == [Nothing EXCEPT !.left = report.results, !.list = ItemsOf[report.list]]
  <2>1. hold.correct = 0
    BY DEF Nothing
  <2>2. GoesOn(q, "items", hold) /\ UNCHANGED <<account, told, results>>
    BY <1>5 DEF Report, Arrives, rows
  <2> HIDE DEF hold
  <2> QED BY <1>t, <1>f, <2>1, <2>2 DEF GoesOn, Quiet
<1>6. ASSUME NEW q \in Requests,
             ReadChild(q) \/ ReadTime(q) \/ ReadStates(q) \/ ReadLists(q) \/ ReadItems(q)
             \/ CreateRun(q) \/ OwnRun(q)
      PROVE  Quiet
  <2>1. UNCHANGED <<account, told, results>>
    BY <1>6 DEF ReadChild, ReadTime, ReadStates, ReadLists, ReadItems, CreateRun, OwnRun, rows
  <2>2. \/ Ends(q)
        \/ \E hold : \/ GoesOn(q, "readTime", hold) \/ GoesOn(q, "readStates", hold)
                      \/ GoesOn(q, "readLists", hold) \/ GoesOn(q, "readItems", hold)
                      \/ GoesOn(q, "create", hold) \/ GoesOn(q, "addTime", hold)
    <3>1. CASE ReadChild(q)
      BY <3>1 DEF ReadChild
    <3>2. CASE ReadTime(q)
      BY <3>2 DEF ReadTime
    <3>3. CASE ReadStates(q)
      BY <3>3 DEF ReadStates
    <3>4. CASE ReadLists(q)
      BY <3>4 DEF ReadLists
    <3>5. CASE ReadItems(q)
      BY <3>5 DEF ReadItems
    <3>6. CASE CreateRun(q)
      BY <3>6 DEF CreateRun
    <3>7. CASE OwnRun(q)
      BY <3>7 DEF OwnRun
    <3> QED BY <1>6, <3>1, <3>2, <3>3, <3>4, <3>5, <3>6, <3>7
  <2> QED BY <1>1, <1>2, <2>1, <2>2
<1>7. ASSUME NEW q \in Requests, BeatReadsChild(q)
      PROVE  Quiet
  <2> DEFINE hold == [held[q] EXCEPT !.limit = limit]
  <2>1. hold.day = held[q].day /\ hold.claim = held[q].claim
    BY <1>t DEF HeldRecords
  <2>2. GoesOn(q, "beatTime", hold) /\ pc[q] = "beatChild" /\ UNCHANGED <<account, told, results>>
    BY <1>7 DEF BeatReadsChild, rows
  <2> HIDE DEF hold
  <2> QED BY <1>t, <1>f, <2>1, <2>2 DEF GoesOn, Quiet
<1>8. ASSUME NEW q \in Requests, ReadReported(q)
      PROVE  Quiet
  <2> DEFINE hold == [held[q] EXCEPT !.day = day]
  <2>1. hold.correct = held[q].correct
    BY <1>t DEF HeldRecords
  <2>2. /\ Ends(q) \/ GoesOn(q, "save", hold)
        /\ pc[q] = "items" /\ UNCHANGED <<account, told, results>>
    BY <1>8 DEF ReadReported, rows
  <2> HIDE DEF hold
  <2>3. CASE GoesOn(q, "save", hold)
    BY <1>t, <1>f, <2>1, <2>2, <2>3 DEF GoesOn, Quiet
  <2> QED BY <1>2, <2>2, <2>3
<1>9. ASSUME NEW q \in Requests, Fail(q)
      PROVE  Quiet
  BY <1>2, <1>9 DEF Fail, rows
<1>10. CASE Restart
  BY <1>10 DEF Restart, Quiet, rows
<1>11. CASE Midnight \/ SaveSettings \/ ValidateList \/ FinishElsewhere
  BY <1>11, <1>f DEF Midnight, SaveSettings, ValidateList, FinishElsewhere, Quiet, rows
<1> QED BY <1>3, <1>4, <1>5, <1>6, <1>7, <1>8, <1>9, <1>10, <1>11

(* A heartbeat's claim goes on the account before it is answered for.       *)
LEMMA AddPlayTimeInv ==
  ASSUME IInv, AccountTyped', NEW q \in Requests, AddPlayTime(q)
  PROVE  IInv'
<1> DEFINE d0 == held[q].day
           n  == held[q].claim
<1>t. /\ pc \in [Requests -> Steps] /\ held \in [Requests -> HeldRecords]
      /\ account \in [Days -> Accounts] /\ told \in [Days -> Accounts]
      /\ d0 \in Days /\ n \in Nat
  <2>1. n \in 1 .. MaxBeat /\ MaxBeat \in Nat
    BY RunStartAssumption DEF IInv, AccountTyped, AddPlayTime
  <2>2. held[q] \in HeldRecords
    BY DEF IInv, AccountTyped
  <2>3. held[q].day \in Days
    BY <2>2 DEF HeldRecords
  <2> QED BY <2>1, <2>3 DEF IInv, AccountTyped
<1>1. /\ pc' = [pc EXCEPT ![q] = "beatChild"] /\ held' = held /\ pc[q] = "addTime"
      /\ account' = [account EXCEPT ![d0] = AddSeconds(account[d0], n)]
      /\ UNCHANGED <<told, results>>
  BY <1>t DEF AddPlayTime, GoesOn
<1>2. /\ account'[d0].seconds = account[d0].seconds + n
      /\ \A d \in Days : account'[d].bonus = account[d].bonus
      /\ \A d \in Days \ {d0} : account'[d] = account[d]
  <2>1. account[d0] \in Accounts
    BY <1>t
  <2>2. /\ AddSeconds(account[d0], n).seconds = account[d0].seconds + n
        /\ AddSeconds(account[d0], n).bonus = account[d0].bonus
    BY <2>1 DEF AddSeconds, Accounts
  <2> HIDE DEF n, d0
  <2> QED BY <1>1, <1>t, <2>2
<1>3. TimeInv'
  <2> SUFFICES ASSUME NEW d \in Days
               PROVE  /\ IsFiniteSet(Unanswered(d)')
                      /\ account'[d].seconds >= told[d].seconds + Cardinality(Unanswered(d)')
                      /\ account'[d].bonus >= told[d].bonus
    BY <1>1 DEF TimeInv
  <2>1. /\ IsFiniteSet(Unanswered(d))
        /\ account[d].seconds >= told[d].seconds + Cardinality(Unanswered(d))
        /\ account[d].bonus >= told[d].bonus
    BY DEF IInv, TimeInv
  <2>2. CASE d # d0
    <3>1. Unanswered(d)' = Unanswered(d)
      BY <1>1, <1>t, <2>2 DEF Unanswered
    <3> QED BY <1>1, <1>2, <2>1, <2>2, <3>1
  <2>3. CASE d = d0
    <3>1. Unanswered(d)' = Unanswered(d) \cup Span(q, n) /\ Unanswered(d) \cap Span(q, n) = {}
      BY <1>1, <1>t, <2>3 DEF Unanswered, Span
    <3>2. IsFiniteSet(Span(q, n)) /\ Cardinality(Span(q, n)) = n
      BY <1>t, SpanSize
    <3>3. /\ IsFiniteSet(Unanswered(d)')
          /\ Cardinality(Unanswered(d)') = Cardinality(Unanswered(d)) + n
      <4>1. /\ IsFiniteSet(Unanswered(d) \cup Span(q, n))
            /\ Cardinality(Unanswered(d) \cup Span(q, n)) =
                 Cardinality(Unanswered(d)) + Cardinality(Span(q, n)) - Cardinality({})
        BY <2>1, <3>1, <3>2, FS_Union
      <4>2. Cardinality({}) = 0 /\ Cardinality(Unanswered(d)) \in Nat
        BY <2>1, FS_EmptySet, FS_CardinalityType
      <4> HIDE DEF n
      <4> QED BY <3>1, <3>2, <4>1, <4>2, <1>t
    <3>4. /\ account[d].seconds \in Nat /\ told[d].seconds \in Nat
          /\ Cardinality(Unanswered(d)) \in Nat
      BY <1>t, <2>1, FS_CardinalityType DEF Accounts
    <3> HIDE DEF n
    <3> QED BY <1>2, <1>t, <2>1, <2>3, <3>3, <3>4
  <2> QED BY <2>2, <2>3
<1>4. BonusInv'
  <2>1. ASSUME NEW d \in Days
        PROVE  Uncredited(d)' = Uncredited(d) /\ Crediting(d)' = Crediting(d)
    BY <1>1, <1>t DEF Uncredited, Crediting
  <2>2. ASSUME NEW d \in Days, NEW reports \in Nat, NEW right \in Nat, Backed(d, reports, right)
        PROVE  Backed(d, reports, right)'
    BY <1>1, <1>2, <2>1, <2>2 DEF Backed
  <2> QED BY <2>1, <2>2 DEF IInv, BonusInv
<1>5. ReportFresh'
  BY <1>1, <1>t DEF IInv, ReportFresh
<1> QED BY <1>3, <1>4, <1>5 DEF IInv

LEMMA BeatAnswersInv ==
  ASSUME IInv, AccountTyped', NEW q \in Requests, BeatAnswers(q)
  PROVE  IInv'
<1> DEFINE d0 == held[q].day
           n  == held[q].claim
<1>t. /\ pc \in [Requests -> Steps] /\ held \in [Requests -> HeldRecords]
      /\ account \in [Days -> Accounts] /\ told \in [Days -> Accounts]
      /\ d0 \in Days /\ n \in Nat
  <2>1. n \in 1 .. MaxBeat /\ MaxBeat \in Nat
    BY RunStartAssumption DEF IInv, AccountTyped, BeatAnswers
  <2>2. held[q] \in HeldRecords
    BY DEF IInv, AccountTyped
  <2>3. held[q].day \in Days
    BY <2>2 DEF HeldRecords
  <2> QED BY <2>1, <2>3 DEF IInv, AccountTyped
<1>1. /\ pc' = [pc EXCEPT ![q] = "idle"] /\ held' = [held EXCEPT ![q] = Nothing] /\ pc[q] = "beatTime"
      /\ told' = [told EXCEPT ![d0] = [told[d0] EXCEPT !.seconds = told[d0].seconds + n]]
      /\ UNCHANGED <<account, results>>
  BY <1>t DEF BeatAnswers, Ends, rows
<1>2. /\ told'[d0].seconds = told[d0].seconds + n
      /\ \A d \in Days : told'[d].bonus = told[d].bonus
      /\ \A d \in Days \ {d0} : told'[d] = told[d]
  <2>1. told[d0] \in Accounts
    BY <1>t
  <2>2. /\ [told[d0] EXCEPT !.seconds = told[d0].seconds + n].seconds = told[d0].seconds + n
        /\ [told[d0] EXCEPT !.seconds = told[d0].seconds + n].bonus = told[d0].bonus
    BY <2>1 DEF Accounts
  <2> HIDE DEF n, d0
  <2> QED BY <1>1, <1>t, <2>2
<1>3. TimeInv'
  <2> SUFFICES ASSUME NEW d \in Days
               PROVE  /\ IsFiniteSet(Unanswered(d)')
                      /\ account[d].seconds >= told'[d].seconds + Cardinality(Unanswered(d)')
                      /\ account[d].bonus >= told'[d].bonus
    BY <1>1 DEF TimeInv
  <2>1. /\ IsFiniteSet(Unanswered(d))
        /\ account[d].seconds >= told[d].seconds + Cardinality(Unanswered(d))
        /\ account[d].bonus >= told[d].bonus
    BY DEF IInv, TimeInv
  <2>2. CASE d # d0
    <3>1. Unanswered(d)' = Unanswered(d)
      BY <1>1, <1>t, <2>2 DEF Unanswered
    <3> QED BY <1>1, <1>2, <2>1, <2>2, <3>1
  <2>3. CASE d = d0
    <3>1. Unanswered(d)' = Unanswered(d) \ Span(q, n) /\ Unanswered(d) \cap Span(q, n) = Span(q, n)
      BY <1>1, <1>t, <2>3 DEF Unanswered, Span
    <3>2. IsFiniteSet(Span(q, n)) /\ Cardinality(Span(q, n)) = n
      BY <1>t, SpanSize
    <3>3. /\ IsFiniteSet(Unanswered(d)')
          /\ Cardinality(Unanswered(d)') = Cardinality(Unanswered(d)) - n
      BY <2>1, <3>1, <3>2, FS_Difference
    <3>4. /\ account[d].seconds \in Nat /\ told[d].seconds \in Nat
          /\ Cardinality(Unanswered(d)) \in Nat
      BY <1>t, <2>1, FS_CardinalityType DEF Accounts
    <3> HIDE DEF n
    <3> QED BY <1>2, <1>t, <2>1, <2>3, <3>3, <3>4
  <2> QED BY <2>2, <2>3
<1>4. BonusInv'
  <2>1. ASSUME NEW d \in Days
        PROVE  Uncredited(d)' = Uncredited(d) /\ Crediting(d)' = Crediting(d)
    BY <1>1, <1>t DEF Uncredited, Crediting
  <2>2. ASSUME NEW d \in Days, NEW reports \in Nat, NEW right \in Nat, Backed(d, reports, right)
        PROVE  Backed(d, reports, right)'
    BY <1>1, <2>1, <2>2 DEF Backed
  <2> QED BY <2>1, <2>2 DEF IInv, BonusInv
<1>5. ReportFresh'
  BY <1>1, <1>t DEF IInv, ReportFresh
<1> QED BY <1>3, <1>4, <1>5 DEF IInv

(* Each result is on record before the report counts it.                    *)
LEMMA SaveResultInv ==
  ASSUME IInv, AccountTyped', NEW q \in Requests, SaveResult(q)
  PROVE  IInv'
<1> DEFINE d0    == held[q].day
           n     == held[q].correct
           right == IF Head(held[q].left).correct THEN 1 ELSE 0
           step  == IF Len(held[q].left) = 1 THEN "credit" ELSE "save"
           hold  == [held[q] EXCEPT !.left = Tail(held[q].left), !.correct = n + right]
           row   == [all |-> results[d0].all + 1, correct |-> results[d0].correct + right]
<1>t. /\ pc \in [Requests -> Steps] /\ held \in [Requests -> HeldRecords]
      /\ results \in [Days -> Counts] /\ d0 \in Days /\ n \in Nat /\ right \in {0, 1}
      /\ held[q] \in HeldRecords
  BY DEF IInv, AccountTyped, HeldRecords
<1>1. /\ pc' = [pc EXCEPT ![q] = step] /\ held' = [held EXCEPT ![q] = hold] /\ pc[q] = "save"
      /\ results' = [results EXCEPT ![d0] = row]
      /\ UNCHANGED <<account, told>>
  BY <1>t DEF SaveResult, GoesOn
<1>2. hold.day = d0 /\ hold.correct = n + right /\ step \in {"save", "credit"}
  BY <1>t DEF HeldRecords
<1>3. /\ row.all = results[d0].all + 1 /\ row.correct = results[d0].correct + right
      /\ results[d0].all \in Nat /\ results[d0].correct \in Nat
  BY <1>t DEF Counts
<1> HIDE DEF d0, n, right, step, hold, row
<1>4. /\ pc'[q] = step /\ held'[q] = hold /\ results'[d0] = row
      /\ \A r \in Requests \ {q} : pc'[r] = pc[r] /\ held'[r] = held[r]
      /\ \A d \in Days \ {d0} : results'[d] = results[d]
  BY <1>1, <1>t
<1>5. TimeInv'
  <2>1. ASSUME NEW d \in Days
        PROVE  Unanswered(d)' = Unanswered(d)
    BY <1>1, <1>2, <1>4 DEF Unanswered
  <2> QED BY <1>1, <2>1 DEF IInv, TimeInv
<1>6. BonusInv'
  <2> SUFFICES ASSUME NEW d \in Days
               PROVE  /\ IsFiniteSet(Uncredited(d)') /\ IsFiniteSet(Crediting(d)')
                      /\ \E reports, right_ \in Nat : Backed(d, reports, right_)'
    BY DEF BonusInv
  <2>1. /\ IsFiniteSet(Uncredited(d)) /\ IsFiniteSet(Crediting(d))
        /\ Cardinality(Uncredited(d)) \in Nat /\ Cardinality(Crediting(d)) \in Nat
    BY FS_CardinalityType DEF IInv, BonusInv
  <2>2. PICK p \in Nat, k \in Nat : Backed(d, p, k)
    BY DEF IInv, BonusInv
  <2>3. CASE d # d0
    <3>1. Uncredited(d)' = Uncredited(d) /\ Crediting(d)' = Crediting(d)
      BY <1>1, <1>2, <1>4, <2>3 DEF Uncredited, Crediting, d0
    <3>2. Backed(d, p, k)'
      BY <1>1, <1>4, <2>2, <2>3, <3>1 DEF Backed
    <3> QED BY <2>1, <3>1, <3>2
  <2>4. CASE d = d0
    <3>1. Crediting(d)' \subseteq Crediting(d) \cup {q} /\ q \notin Crediting(d)
      BY <1>1, <1>4 DEF Crediting
    <3>2. /\ IsFiniteSet(Crediting(d)') /\ Cardinality(Crediting(d)') \in Nat
          /\ Cardinality(Crediting(d)') <= Cardinality(Crediting(d)) + 1
      <4>1. /\ IsFiniteSet(Crediting(d) \cup {q})
            /\ Cardinality(Crediting(d) \cup {q}) = Cardinality(Crediting(d)) + 1
        BY <2>1, <3>1, FS_AddElement
      <4> QED BY <3>1, <4>1, FS_Subset, FS_CardinalityType
    <3>3. Uncredited(d)' = IF right = 1 THEN Uncredited(d) \cup {<<q, n + 1>>} ELSE Uncredited(d)
      <4>1. \A i \in Nat : i \in 1 .. n + right <=> i \in 1 .. n \/ (right = 1 /\ i = n + 1)
        BY <1>t
      <4>2. ASSUME NEW u \in Requests \X Nat
            PROVE  u \in Uncredited(d)' <=> u \in Uncredited(d) \/ (right = 1 /\ u = <<q, n + 1>>)
        <5>1. CASE u[1] # q
          BY <1>4, <5>1 DEF Uncredited
        <5>2. CASE u[1] = q
          <6>1. u = <<q, u[2]>> /\ u[2] \in Nat
            BY <5>2
          <6>2. u \in Uncredited(d)' <=> u[2] \in 1 .. n + right
            BY <1>2, <1>4, <2>4, <5>2 DEF Uncredited
          <6>3. u \in Uncredited(d) <=> u[2] \in 1 .. n
            BY <1>1, <2>4, <5>2 DEF Uncredited, d0, n
          <6>4. u = <<q, n + 1>> <=> u[2] = n + 1
            BY <6>1
          <6> QED BY <4>1, <6>1, <6>2, <6>3, <6>4
        <5> QED BY <5>1, <5>2
      <4>3. Uncredited(d)' \subseteq Requests \X Nat /\ Uncredited(d) \subseteq Requests \X Nat
            /\ <<q, n + 1>> \in Requests \X Nat
        BY <1>t DEF Uncredited
      <4> QED BY <4>2, <4>3
    <3>4. /\ IsFiniteSet(Uncredited(d)') /\ Cardinality(Uncredited(d)') \in Nat
          /\ Cardinality(Uncredited(d)') <= Cardinality(Uncredited(d)) + right
      <4>1. CASE right = 1
        <5>1. /\ IsFiniteSet(Uncredited(d) \cup {<<q, n + 1>>})
              /\ Cardinality(Uncredited(d) \cup {<<q, n + 1>>}) \in
                   {Cardinality(Uncredited(d)), Cardinality(Uncredited(d)) + 1}
          BY <2>1, FS_AddElement
        <5> QED BY <2>1, <3>3, <4>1, <5>1
      <4>2. CASE right = 0
        BY <2>1, <3>3, <4>2
      <4> QED BY <1>t, <4>1, <4>2
    <3>5. Backed(d, p, k)'
      BY <1>1, <1>3, <1>4, <1>t, <2>1, <2>2, <2>4, <3>2, <3>4 DEF Backed
    <3> QED BY <3>2, <3>4, <3>5
  <2> QED BY <2>3, <2>4
<1>7. ReportFresh'
  BY <1>1, <1>2, <1>4 DEF IInv, ReportFresh
<1> QED BY <1>5, <1>6, <1>7 DEF IInv

(* The credit of a report moves it from what is under way to what is paid.  *)
LEMMA CreditBonusInv ==
  ASSUME IInv, AccountTyped', NEW q \in Requests, CreditBonus(q)
  PROVE  IInv'
<1> DEFINE d0    == held[q].day
           n     == held[q].correct
           bonus == Bonus(n)
<1>t. /\ pc \in [Requests -> Steps] /\ held \in [Requests -> HeldRecords]
      /\ account \in [Days -> Accounts] /\ told \in [Days -> Accounts]
      /\ results \in [Days -> Counts] /\ d0 \in Days /\ n \in Nat
      /\ held[q] \in HeldRecords
  BY DEF IInv, AccountTyped, HeldRecords
<1>b. bonus \in Nat /\ CompletionBonus \in Nat /\ WordBonus \in Nat
      /\ bonus = CompletionBonus + n * WordBonus
  BY <1>t, BonusIsNat, RunStartAssumption DEF Bonus
<1>1. /\ pc' = [pc EXCEPT ![q] = "idle"] /\ held' = [held EXCEPT ![q] = Nothing] /\ pc[q] = "credit"
      /\ account' = [account EXCEPT ![d0] = AddBonus(account[d0], bonus)]
      /\ told' = [told EXCEPT ![d0] = [told[d0] EXCEPT !.bonus = told[d0].bonus + bonus]]
      /\ UNCHANGED results
  BY <1>t DEF CreditBonus, Ends
<1>2. /\ \A d \in Days : account'[d].seconds = account[d].seconds /\ told'[d].seconds = told[d].seconds
      /\ account'[d0].bonus = account[d0].bonus + bonus /\ told'[d0].bonus = told[d0].bonus + bonus
      /\ \A d \in Days \ {d0} : account'[d] = account[d] /\ told'[d] = told[d]
      /\ \A d \in Days : /\ account[d].seconds \in Nat /\ account[d].bonus \in Nat
                          /\ told[d].seconds \in Nat /\ told[d].bonus \in Nat
  <2>1. \A d \in Days : account[d] \in Accounts /\ told[d] \in Accounts
    BY <1>t
  <2> HIDE DEF bonus, n, d0
  <2>2. /\ AddBonus(account[d0], bonus).seconds = account[d0].seconds
        /\ AddBonus(account[d0], bonus).bonus = account[d0].bonus + bonus
        /\ [told[d0] EXCEPT !.bonus = told[d0].bonus + bonus].seconds = told[d0].seconds
        /\ [told[d0] EXCEPT !.bonus = told[d0].bonus + bonus].bonus = told[d0].bonus + bonus
    BY <1>t, <2>1 DEF AddBonus, Accounts
  <2>3. /\ account'[d0] = AddBonus(account[d0], bonus)
        /\ told'[d0] = [told[d0] EXCEPT !.bonus = told[d0].bonus + bonus]
        /\ \A d \in Days \ {d0} : account'[d] = account[d] /\ told'[d] = told[d]
    BY <1>1, <1>t
  <2> QED BY <2>1, <2>2, <2>3 DEF Accounts
<1> HIDE DEF d0, n, bonus
<1>4. /\ pc'[q] = "idle"
      /\ \A r \in Requests \ {q} : pc'[r] = pc[r] /\ held'[r] = held[r]
  BY <1>1, <1>t
<1>5. TimeInv'
  <2>1. ASSUME NEW d \in Days
        PROVE  Unanswered(d)' = Unanswered(d)
    BY <1>1, <1>4 DEF Unanswered
  <2>2. ASSUME NEW d \in Days
        PROVE  /\ account'[d].seconds >= told'[d].seconds + Cardinality(Unanswered(d))
               /\ account'[d].bonus >= told'[d].bonus
    <3>1. account[d].seconds >= told[d].seconds + Cardinality(Unanswered(d))
          /\ account[d].bonus >= told[d].bonus
      BY DEF IInv, TimeInv
    <3>2. CASE d = d0
      BY <1>2, <1>b, <3>1, <3>2
    <3>3. CASE d # d0
      BY <1>2, <3>1, <3>3
    <3> QED BY <3>2, <3>3
  <2> QED BY <2>1, <2>2 DEF IInv, TimeInv
<1>6. BonusInv'
  <2> SUFFICES ASSUME NEW d \in Days
               PROVE  /\ IsFiniteSet(Uncredited(d)') /\ IsFiniteSet(Crediting(d)')
                      /\ \E reports, right \in Nat : Backed(d, reports, right)'
    BY DEF BonusInv
  <2>1. /\ IsFiniteSet(Uncredited(d)) /\ IsFiniteSet(Crediting(d))
        /\ Cardinality(Uncredited(d)) \in Nat /\ Cardinality(Crediting(d)) \in Nat
    BY FS_CardinalityType DEF IInv, BonusInv
  <2>2. PICK p \in Nat, k \in Nat : Backed(d, p, k)
    BY DEF IInv, BonusInv
  <2>3. CASE d # d0
    <3>1. Uncredited(d)' = Uncredited(d) /\ Crediting(d)' = Crediting(d)
      BY <1>1, <1>4, <2>3 DEF Uncredited, Crediting, d0
    <3>2. Backed(d, p, k)'
      BY <1>1, <1>2, <2>2, <2>3, <3>1 DEF Backed
    <3> QED BY <2>1, <3>1, <3>2
  <2>4. CASE d = d0
    <3>1. Crediting(d)' = Crediting(d) \ {q} /\ q \in Crediting(d)
      BY <1>1, <1>4, <2>4 DEF Crediting, d0
    <3>2. /\ IsFiniteSet(Crediting(d)')
          /\ Cardinality(Crediting(d)') = Cardinality(Crediting(d)) - 1
      BY <2>1, <3>1, FS_RemoveElement
    <3>3. Uncredited(d)' = Uncredited(d) \ Span(q, n) /\ Uncredited(d) \cap Span(q, n) = Span(q, n)
      BY <1>1, <1>4, <1>t, <2>4 DEF Uncredited, Span, d0, n
    <3>4. IsFiniteSet(Span(q, n)) /\ Cardinality(Span(q, n)) = n
      BY <1>t, SpanSize
    <3>5. /\ IsFiniteSet(Uncredited(d)')
          /\ Cardinality(Uncredited(d)') = Cardinality(Uncredited(d)) - n
      <4>1. /\ IsFiniteSet(Uncredited(d) \ Span(q, n))
            /\ Cardinality(Uncredited(d) \ Span(q, n)) =
                 Cardinality(Uncredited(d)) - Cardinality(Uncredited(d) \cap Span(q, n))
        BY <2>1, FS_Difference
      <4> QED BY <3>3, <3>4, <4>1
    <3>6. PICK paid \in Nat, won \in Nat : paid = p + 1 /\ won = k + n
      BY <1>t
    <3>7. CompletionBonus * p + WordBonus * k + (CompletionBonus + n * WordBonus)
            = CompletionBonus * (p + 1) + WordBonus * (k + n)
      BY <1>t, <1>b
    <3>8. Backed(d, paid, won)'
      <4>1. account'[d].bonus = CompletionBonus * paid + WordBonus * won
        BY <1>2, <1>b, <2>2, <2>4, <3>6, <3>7 DEF Backed
      <4>2. results[d].all \in Nat /\ results[d].correct \in Nat
        BY <1>t DEF Counts
      <4>3. /\ paid + Cardinality(Crediting(d)') <= results[d].all
            /\ won + Cardinality(Uncredited(d)') <= results[d].correct
        BY <1>t, <2>1, <2>2, <3>2, <3>5, <3>6, <4>2 DEF Backed
      <4> QED BY <1>1, <4>1, <4>3 DEF Backed
    <3> QED BY <3>2, <3>5, <3>6, <3>8
  <2> QED BY <2>3, <2>4
<1>7. ReportFresh'
  BY <1>1, <1>4 DEF IInv, ReportFresh
<1> QED BY <1>5, <1>6, <1>7 DEF IInv

THEOREM Invariance == Spec => []IInv
<1>1. Init => IInv
  <2> SUFFICES ASSUME Init
               PROVE  TimeInv /\ BonusInv /\ ReportFresh
    BY InitTyped DEF IInv
  <2>1. ReportFresh
    BY DEF Init, ReportFresh
  <2>2. ASSUME NEW d \in Days
        PROVE  /\ Unanswered(d) = {} /\ Uncredited(d) = {} /\ Crediting(d) = {}
               /\ account[d] = NoTime /\ told[d] = NoTime
               /\ results[d].all = 0 /\ results[d].correct = 0
    BY DEF Init, Unanswered, Uncredited, Crediting
  <2>3. IsFiniteSet({}) /\ Cardinality({}) = 0
    BY FS_EmptySet
  <2>4. TimeInv
    <3>1. NoTime.seconds = 0 /\ NoTime.bonus = 0
      BY DEF NoTime
    <3>2. ASSUME NEW d \in Days
          PROVE  IsFiniteSet(Unanswered(d)) /\ Cardinality(Unanswered(d)) = 0
      BY <2>2, <2>3
    <3> QED BY <2>2, <3>1, <3>2 DEF TimeInv
  <2>5. ASSUME NEW d \in Days
        PROVE  Backed(d, 0, 0)
    <3>1. CompletionBonus \in Nat /\ WordBonus \in Nat
      BY RunStartAssumption
    <3>2. CompletionBonus * 0 + WordBonus * 0 = 0
      BY <3>1
    <3>3. NoTime.bonus = 0
      BY DEF NoTime
    <3>4. Cardinality(Crediting(d)) = 0 /\ Cardinality(Uncredited(d)) = 0
      BY <2>2, <2>3
    <3> QED BY <2>2, <3>2, <3>3, <3>4 DEF Backed
  <2>6. BonusInv
    <3>1. 0 \in Nat
      OBVIOUS
    <3>2. ASSUME NEW d \in Days
          PROVE  /\ IsFiniteSet(Uncredited(d)) /\ IsFiniteSet(Crediting(d))
                 /\ \E reports, right \in Nat : Backed(d, reports, right)
      <4>1. IsFiniteSet(Uncredited(d)) /\ IsFiniteSet(Crediting(d))
        BY <2>2, <2>3
      <4> QED BY <2>5, <3>1, <4>1
    <3> QED BY <3>2 DEF BonusInv
  <2> QED BY <2>1, <2>4, <2>6
<1>2. IInv /\ AccountTyped' /\ [Next]_vars => IInv'
  <2>1. ASSUME IInv, AccountTyped', UNCHANGED vars
        PROVE  IInv'
    <3>1. Quiet
      BY <2>1 DEF Quiet, vars, rows, IInv, ReportFresh
    <3> QED BY <2>1, <3>1, QuietInv
  <2>2. ASSUME IInv, AccountTyped', Next
        PROVE  IInv'
    <3>1. ASSUME NEW q \in Requests, AddPlayTime(q) \/ BeatAnswers(q) \/ SaveResult(q) \/ CreditBonus(q)
          PROVE  IInv'
      BY <2>2, <3>1, AddPlayTimeInv, BeatAnswersInv, SaveResultInv, CreditBonusInv
    <3>2. CASE Quiet
      BY <2>2, <3>2, QuietInv
    <3> QED BY <2>2, <3>1, <3>2, QuietSteps DEF Next, Handle
  <2> QED BY <2>1, <2>2
<1> QED BY <1>1, <1>2, AccountsTyped, PTL DEF Spec

(* What a heartbeat or a report was answered 200 for is on the account of   *)
(* its day, whatever failed, interleaved or ran past midnight.              *)
THEOREM AcknowledgedIsAlwaysCounted == Spec => []AcknowledgedIsCounted
<1>1. IInv => AcknowledgedIsCounted
  <2> SUFFICES ASSUME IInv, NEW d \in Days
               PROVE  /\ account[d].seconds >= told[d].seconds
                      /\ account[d].bonus >= told[d].bonus
    BY DEF AcknowledgedIsCounted
  <2>1. /\ account[d].seconds >= told[d].seconds + Cardinality(Unanswered(d))
        /\ Cardinality(Unanswered(d)) \in Nat
        /\ account[d].bonus >= told[d].bonus
    BY FS_CardinalityType DEF IInv, TimeInv
  <2>2. account[d].seconds \in Nat /\ told[d].seconds \in Nat
    BY DEF IInv, AccountTyped, Accounts
  <2> QED BY <2>1, <2>2
<1> QED BY <1>1, Invariance, PTL

(* No second of bonus is without a dictee result on record for its day,     *)
(* through failed statements, restarts and reports sent twice.              *)
THEOREM BonusIsAlwaysBacked == Spec => []BonusIsBacked
<1>1. IInv => BonusIsBacked
  <2> SUFFICES ASSUME IInv, NEW d \in Days
               PROVE  account[d].bonus
                        <= CompletionBonus * results[d].all + WordBonus * results[d].correct
    BY DEF BonusIsBacked
  <2>1. PICK p \in Nat, k \in Nat : Backed(d, p, k)
    BY DEF IInv, BonusInv
  <2>2. /\ Cardinality(Crediting(d)) \in Nat /\ Cardinality(Uncredited(d)) \in Nat
        /\ results[d].all \in Nat /\ results[d].correct \in Nat
    BY FS_CardinalityType DEF IInv, BonusInv, AccountTyped, Counts
  <2>3. p <= results[d].all /\ k <= results[d].correct
    BY <2>1, <2>2 DEF Backed
  <2>4. CompletionBonus \in Nat /\ WordBonus \in Nat
    BY RunStartAssumption
  <2>5. CompletionBonus * p <= CompletionBonus * results[d].all
    BY <2>2, <2>3, <2>4
  <2>6. WordBonus * k <= WordBonus * results[d].correct
    BY <2>2, <2>3, <2>4
  <2> QED BY <2>1, <2>2, <2>4, <2>5, <2>6 DEF Backed
<1> QED BY <1>1, Invariance, PTL

----------------------------------------------------------------------------
(* What Draw deals: every place of the list falls in exactly one manche,    *)
(* and a list no longer than the catalogue's limit is never cut.            *)

(* The place in the list of the j-th word the tourniquet deals a manche. *)
Place(manche, j) == (j - 1) * Manches + manche + 1

(* Every word of a list is dealt: some manche has it (tourniquet).          *)
LEMMA EveryPlaceIsDealt ==
  ASSUME NEW S, NEW ws \in Seq(S), NEW i \in 1 .. Len(ws)
  PROVE  \E m \in 0 .. Manches - 1 : \E j \in DOMAIN Tourniquet(ws, m) :
           Place(m, j) = i /\ Tourniquet(ws, m)[j] = ws[i]
<1> DEFINE m == (i - 1) % 3
           j == (i - 1) \div 3 + 1
<1>1. Len(ws) \in Nat
  OBVIOUS
<1>2. /\ m \in 0 .. 2
      /\ j \in Int
      /\ (j - 1) * 3 + m + 1 = i
  OBVIOUS
<1>3. j \in 1 .. (Len(ws) - m + 3 - 1) \div 3
  BY <1>1, <1>2
<1>4. j \in DOMAIN Tourniquet(ws, m)
  BY <1>3 DEF Tourniquet, Manches
<1>5. Tourniquet(ws, m)[j] = ws[i]
  BY <1>2, <1>3 DEF Tourniquet, Manches
<1>6. m \in 0 .. Manches - 1 /\ Place(m, j) = i
  BY <1>2 DEF Place, Manches
<1> HIDE DEF m, j
<1> QED
  BY <1>4, <1>5, <1>6

(* No word of a list is dealt twice: a place fixes its manche and its rank  *)
(* there (tourniquet).                                                      *)
LEMMA NoPlaceIsDealtTwice ==
  ASSUME NEW m1 \in 0 .. Manches - 1, NEW m2 \in 0 .. Manches - 1,
         NEW j1 \in Nat, NEW j2 \in Nat, Place(m1, j1) = Place(m2, j2)
  PROVE  m1 = m2 /\ j1 = j2
BY DEF Place, Manches

(* The catalogue's limit keeps Draw from cutting a word the child has not   *)
(* met: the manches are as many on both sides, so the share of a list of at *)
(* most WeekLimit words fits a manche (wordCatalog, Draw).                  *)
LEMMA NoMandatoryWordIsCut ==
  ASSUME NEW S, NEW ws \in Seq(S), Len(ws) <= WeekLimit, NEW m \in 0 .. Manches - 1
  PROVE  Len(Tourniquet(ws, m)) <= WordsPerManche
<1>1. /\ Len(ws) \in Nat
      /\ WordsPerManche \in Nat
      /\ m \in 0 .. 2
  BY DeckAssumption DEF Manches
<1>2. Len(ws) <= WordsPerManche * 3
  BY DEF WeekLimit, RunManches
<1> DEFINE n == (Len(ws) - m + 3 - 1) \div 3
<1>3. n \in Nat
  BY <1>1
<1>4. n <= WordsPerManche
  BY <1>1, <1>2
<1>5. Len(Tourniquet(ws, m)) = n
  BY <1>3 DEF Tourniquet, Manches
<1>6. QED
  BY <1>4, <1>5

----------------------------------------------------------------------------
(* Words in order: each has its own number of words below it. *)
LEMMA BelowBounds ==
  ASSUME NEW S \in SUBSET Nat, IsFiniteSet(S), NEW w \in S
  PROVE  Below(S, w) \in 0 .. Cardinality(S) - 1
<1> DEFINE B == {v \in S : v < w}
<1>1. Cardinality(S) \in Nat
  BY FS_CardinalityType
<1>2. IsFiniteSet(S \ {w}) /\ Cardinality(S \ {w}) = Cardinality(S) - 1
  BY FS_RemoveElement
<1>3. B \in SUBSET (S \ {w})
  OBVIOUS
<1>4. IsFiniteSet(B) /\ Cardinality(B) <= Cardinality(S \ {w})
  BY <1>2, <1>3, FS_Subset
<1>5. Cardinality(B) \in Nat
  BY <1>4, FS_CardinalityType
<1> HIDE DEF B
<1>6. Below(S, w) = Cardinality(B)
  BY DEF Below, B
<1> QED
  BY <1>1, <1>2, <1>4, <1>5, <1>6

LEMMA BelowGrows ==
  ASSUME NEW S \in SUBSET Nat, IsFiniteSet(S), NEW v \in S, NEW w \in S, v < w
  PROVE  Below(S, v) < Below(S, w)
<1> DEFINE A == {u \in S : u < v}
           B == {u \in S : u < w}
<1>0. S \subseteq Nat /\ v \in Nat /\ w \in Nat
  OBVIOUS
<1>1. A \in SUBSET B /\ v \in B /\ v \notin A
  <2>1. \A u \in S : u < v => u < w
    BY <1>0
  <2>2. ~(v < v)
    BY <1>0
  <2> QED
    BY <2>1, <2>2
<1>2. IsFiniteSet(B)
  BY FS_Subset
<1> HIDE DEF A, B
<1>3. Cardinality(A) <= Cardinality(B) /\ Cardinality(A) # Cardinality(B)
  BY <1>1, <1>2, FS_Subset
<1>4. Cardinality(A) \in Nat /\ Cardinality(B) \in Nat
  BY <1>1, <1>2, FS_Subset, FS_CardinalityType
<1>5. Below(S, v) = Cardinality(A) /\ Below(S, w) = Cardinality(B)
  BY DEF Below, A, B
<1> QED
  BY <1>3, <1>4, <1>5

LEMMA BelowIsInjective ==
  ASSUME NEW S \in SUBSET Nat, IsFiniteSet(S), NEW v \in S, NEW w \in S,
         Below(S, v) = Below(S, w)
  PROVE  v = w
<1>1. CASE v < w
  BY <1>1, BelowBounds, BelowGrows
<1>2. CASE w < v
  BY <1>2, BelowBounds, BelowGrows
<1> QED
  BY <1>1, <1>2

(* A set of n numbers has one with k below it, for each k less than n.      *)
LEMMA EveryRankIsTaken ==
  ASSUME NEW S \in SUBSET Nat, IsFiniteSet(S), NEW k \in 0 .. Cardinality(S) - 1
  PROVE  \E w \in S : Below(S, w) = k
<1> DEFINE T == 0 .. Cardinality(S) - 1
           f == [w \in S |-> Below(S, w)]
<1>1. Cardinality(S) \in Nat
  BY FS_CardinalityType
<1>2. IsFiniteSet(T) /\ Cardinality(T) = Cardinality(S)
  BY <1>1, FS_Interval
<1>3. f \in [S -> T]
  BY BelowBounds
<1>4. \A v, w \in S : f[v] = f[w] => v = w
  BY BelowIsInjective
<1> HIDE DEF T, f
<1>5. f \in Injection(S, T)
  BY <1>3, <1>4 DEF Injection, IsInjective
<1>6. f \in Surjection(S, T)
  BY <1>2, <1>5, FS_Injection
<1>7. PICK w \in S : f[w] = k
  BY <1>6 DEF Surjection, T
<1> QED
  BY <1>7 DEF f

LEMMA InOrderPlaces ==
  ASSUME NEW S \in SUBSET Nat, IsFiniteSet(S)
  PROVE  /\ InOrder(S) \in Seq(S) /\ Len(InOrder(S)) = Cardinality(S)
         /\ DOMAIN InOrder(S) = 1 .. Cardinality(S)
         /\ \A w \in S : \E n \in DOMAIN InOrder(S) : InOrder(S)[n] = w
         /\ IsInjective(InOrder(S))
<1> DEFINE size == Cardinality(S)
<1>1. size \in Nat
  BY FS_CardinalityType
<1> HIDE DEF size
<1>2. ASSUME NEW n \in 1 .. size
      PROVE  InOrder(S)[n] \in S /\ Below(S, InOrder(S)[n]) = n - 1
  <2>1. n - 1 \in 0 .. size - 1
    BY <1>1
  <2>2. \E w \in S : Below(S, w) = n - 1
    BY <2>1, EveryRankIsTaken DEF size
  <2>3. InOrder(S)[n] = CHOOSE w \in S : Below(S, w) = n - 1
    BY DEF InOrder, size
  <2> QED
    BY <2>2, <2>3
<1>3. DOMAIN InOrder(S) = 1 .. size
  BY DEF InOrder, size
<1>4. InOrder(S) \in [1 .. size -> S]
  BY <1>2 DEF InOrder, size
<1>5. InOrder(S) \in Seq(S) /\ Len(InOrder(S)) = size
  BY <1>1, <1>4
<1>6. ASSUME NEW w \in S
      PROVE  \E n \in 1 .. size : InOrder(S)[n] = w
  <2>1. Below(S, w) \in 0 .. size - 1
    BY BelowBounds DEF size
  <2>2. Below(S, w) + 1 \in 1 .. size /\ (Below(S, w) + 1) - 1 = Below(S, w)
    BY <1>1, <2>1
  <2> DEFINE n == Below(S, w) + 1
  <2>3. InOrder(S)[n] \in S /\ Below(S, InOrder(S)[n]) = n - 1 /\ n - 1 = Below(S, w)
    BY <1>2, <2>2
  <2> HIDE DEF n
  <2>4. Below(S, InOrder(S)[n]) = Below(S, w)
    BY <2>3
  <2>5. InOrder(S)[n] = w
    BY <2>3, <2>4, BelowIsInjective
  <2> QED
    BY <2>2, <2>5 DEF n
<1>7. ASSUME NEW m \in 1 .. size, NEW n \in 1 .. size, InOrder(S)[m] = InOrder(S)[n]
      PROVE  m = n
  BY <1>1, <1>2, <1>7
<1> QED
  BY <1>3, <1>5, <1>6, <1>7 DEF IsInjective, size

(* What a filter keeps, and in as many places at most. *)
LEMMA OnlyPlaces ==
  ASSUME NEW T, NEW ws \in Seq(T), NEW S
  PROVE  /\ Only(ws, S) \in Seq(T) /\ Len(Only(ws, S)) <= Len(ws)
         /\ \A n \in DOMAIN Only(ws, S) :
              Only(ws, S)[n] \in S /\ \E i \in DOMAIN ws : Only(ws, S)[n] = ws[i]
         /\ \A i \in DOMAIN ws :
              ws[i] \in S => \E n \in DOMAIN Only(ws, S) : Only(ws, S)[n] = ws[i]
         /\ IsInjective(ws) => IsInjective(Only(ws, S))
<1> DEFINE I == {i \in DOMAIN ws : ws[i] \in S}
           places == InOrder(I)
<1>1. Len(ws) \in Nat /\ DOMAIN ws = 1 .. Len(ws) /\ \A i \in DOMAIN ws : ws[i] \in T
  OBVIOUS
<1>2. IsFiniteSet(DOMAIN ws) /\ Cardinality(DOMAIN ws) = Len(ws)
  <2> DEFINE size == Len(ws)
  <2>1. size \in Nat /\ DOMAIN ws = 1 .. size
    BY <1>1
  <2> HIDE DEF size
  <2>2. /\ IsFiniteSet(1 .. size)
        /\ Cardinality(1 .. size) = IF 1 > size THEN 0 ELSE size - 1 + 1
    BY <2>1, FS_Interval
  <2>3. Cardinality(1 .. size) = size
    BY <2>1, <2>2
  <2> QED
    BY <2>1, <2>2, <2>3 DEF size
<1>3. I \in SUBSET Nat /\ IsFiniteSet(I) /\ Cardinality(I) <= Len(ws)
  BY <1>1, <1>2, FS_Subset
<1>4. Cardinality(I) \in Nat
  BY <1>3, FS_CardinalityType
<1>5. /\ places \in Seq(I) /\ Len(places) = Cardinality(I)
      /\ DOMAIN places = 1 .. Cardinality(I)
      /\ \A i \in I : \E n \in DOMAIN places : places[n] = i
      /\ IsInjective(places)
  BY <1>3, InOrderPlaces
<1>6. Only(ws, S) = [n \in DOMAIN places |-> ws[places[n]]]
  BY DEF Only
<1> HIDE DEF places
<1>7. \A n \in DOMAIN places : places[n] \in I
  BY <1>5
<1> DEFINE size == Cardinality(I)
<1> HIDE DEF size
<1>8. Only(ws, S) \in Seq(T) /\ Len(Only(ws, S)) = Cardinality(I)
  <2>1. Only(ws, S) = [n \in 1 .. size |-> ws[places[n]]]
    BY <1>5, <1>6 DEF size
  <2>2. \A n \in 1 .. size : ws[places[n]] \in T
    BY <1>1, <1>5, <1>7 DEF size
  <2>3. size \in Nat
    BY <1>4 DEF size
  <2>4. Only(ws, S) \in [1 .. size -> T]
    BY <2>1, <2>2
  <2> QED
    BY <2>1, <2>3, <2>4 DEF size
<1>9. DOMAIN Only(ws, S) = DOMAIN places
  BY <1>6
<1>10. \A n \in DOMAIN places : Only(ws, S)[n] = ws[places[n]]
  BY <1>6
<1>11. ASSUME IsInjective(ws)
       PROVE  IsInjective(Only(ws, S))
  BY <1>5, <1>7, <1>9, <1>10, <1>11 DEF IsInjective
<1>12. \A n \in DOMAIN Only(ws, S) :
         Only(ws, S)[n] \in S /\ \E i \in DOMAIN ws : Only(ws, S)[n] = ws[i]
  BY <1>7, <1>9, <1>10
<1>13. ASSUME NEW i \in DOMAIN ws, ws[i] \in S
       PROVE  \E n \in DOMAIN Only(ws, S) : Only(ws, S)[n] = ws[i]
  <2>1. i \in I
    BY <1>13
  <2>2. PICK n \in DOMAIN places : places[n] = i
    BY <1>5, <2>1
  <2> QED
    BY <1>9, <1>10, <2>2
<1> HIDE DEF I
<1> QED
  BY <1>3, <1>8, <1>11, <1>12, <1>13

LEMMA LowestSize ==
  ASSUME NEW S \in SUBSET Nat, IsFiniteSet(S), NEW n \in Nat
  PROVE  /\ Lowest(S, n) \in SUBSET S /\ IsFiniteSet(Lowest(S, n))
         /\ Cardinality(Lowest(S, n)) <= n
         /\ Cardinality(Lowest(S, n)) < n => Lowest(S, n) = S
<1> DEFINE L == Lowest(S, n)
           T == 0 .. n - 1
           f == [w \in L |-> Below(S, w)]
<1>1. L \in SUBSET S /\ \A w \in S : w \in L <=> Below(S, w) < n
  BY DEF Lowest
<1>2. IsFiniteSet(L) /\ Cardinality(L) \in Nat
  BY <1>1, FS_Subset, FS_CardinalityType
<1>3. IsFiniteSet(T) /\ Cardinality(T) = n
  BY FS_Interval
<1>4. \A w \in S : Below(S, w) \in 0 .. Cardinality(S) - 1
  BY BelowBounds
<1>5. Cardinality(S) \in Nat
  BY FS_CardinalityType
<1> HIDE DEF L
<1>6. f \in [L -> T]
  BY <1>1, <1>4, <1>5
<1>7. \A v, w \in L : f[v] = f[w] => v = w
  BY <1>1, BelowIsInjective
<1>8. \A w \in L : f[w] = Below(S, w)
  OBVIOUS
<1> HIDE DEF T, f
<1>9. f \in Injection(L, T)
  BY <1>6, <1>7 DEF Injection, IsInjective
<1>10. Cardinality(L) <= n
  BY <1>3, <1>9, FS_Injection
<1>11. ASSUME NEW w \in S, w \notin L
       PROVE  n <= Cardinality(L)
  <2>1. n <= Cardinality(S) - 1
    BY <1>1, <1>4, <1>5, <1>11
  <2>2. ASSUME NEW k \in T
        PROVE  \E v \in L : f[v] = k
    <3>1. k \in 0 .. Cardinality(S) - 1 /\ k < n
      BY <1>5, <2>1 DEF T
    <3>2. PICK v \in S : Below(S, v) = k
      BY <3>1, EveryRankIsTaken
    <3> QED
      BY <1>1, <1>8, <3>1, <3>2
  <2>3. f \in Surjection(L, T)
    BY <1>6, <2>2 DEF Surjection
  <2> QED
    BY <1>2, <1>3, <2>3, FS_Surjection
<1>12. ASSUME Cardinality(L) < n
       PROVE  L = S
  <2>1. \A w \in S : w \in L
    BY <1>2, <1>11, <1>12
  <2> QED
    BY <1>1, <2>1
<1> QED
  BY <1>1, <1>2, <1>10, <1>12 DEF L

LEMMA WiderSeq ==
  ASSUME NEW S, NEW T, S \subseteq T, NEW s \in Seq(S)
  PROVE  s \in Seq(T)
OBVIOUS

(* The words of a list one after those of another. *)
LEMMA JoinedPlaces ==
  ASSUME NEW T, NEW s \in Seq(T), NEW t \in Seq(T)
  PROVE  /\ s \o t \in Seq(T) /\ Len(s \o t) = Len(s) + Len(t)
         /\ \A i \in DOMAIN s : (s \o t)[i] = s[i]
         /\ \A i \in DOMAIN t : Len(s) + i \in DOMAIN (s \o t) /\ (s \o t)[Len(s) + i] = t[i]
         /\ \A i \in DOMAIN (s \o t) :
              \/ i \in DOMAIN s
              \/ i - Len(s) \in DOMAIN t /\ (s \o t)[i] = t[i - Len(s)]
OBVIOUS

LEMMA JoinedWords ==
  ASSUME NEW T, NEW s \in Seq(T), NEW t \in Seq(T)
  PROVE  ToSet(s \o t) = ToSet(s) \cup ToSet(t)
<1>1. /\ \A i \in DOMAIN s : i \in DOMAIN (s \o t) /\ (s \o t)[i] = s[i]
      /\ \A i \in DOMAIN t : Len(s) + i \in DOMAIN (s \o t) /\ (s \o t)[Len(s) + i] = t[i]
      /\ \A i \in DOMAIN (s \o t) :
              \/ i \in DOMAIN s /\ (s \o t)[i] = s[i]
              \/ i - Len(s) \in DOMAIN t /\ (s \o t)[i] = t[i - Len(s)]
  OBVIOUS
<1>2. ASSUME NEW w
      PROVE  w \in ToSet(s \o t) => w \in ToSet(s) \/ w \in ToSet(t)
  BY <1>1 DEF ToSet
<1>3. ASSUME NEW w
      PROVE  w \in ToSet(s) \/ w \in ToSet(t) => w \in ToSet(s \o t)
  <2>1. ASSUME NEW i \in DOMAIN s, w = s[i]
        PROVE  w \in ToSet(s \o t)
    BY <1>1, <2>1 DEF ToSet
  <2>2. ASSUME NEW i \in DOMAIN t, w = t[i]
        PROVE  w \in ToSet(s \o t)
    BY <1>1, <2>2 DEF ToSet
  <2> QED
    BY <2>1, <2>2 DEF ToSet
<1> QED
  BY <1>2, <1>3

LEMMA TakenPlaces ==
  ASSUME NEW T, NEW ws \in Seq(T), NEW n \in Nat
  PROVE  /\ Prefix(ws, n) \in Seq(T)
         /\ Len(Prefix(ws, n)) = IF Len(ws) < n THEN Len(ws) ELSE n
         /\ \A i \in 1 .. Len(Prefix(ws, n)) : Prefix(ws, n)[i] = ws[i]
BY DEF Prefix

(* The same facts, of the words rather than of their places. *)
LEMMA InOrderWords ==
  ASSUME NEW S \in SUBSET Nat, IsFiniteSet(S)
  PROVE  ToSet(InOrder(S)) = S
<1>1. /\ \A w \in S : \E n \in DOMAIN InOrder(S) : InOrder(S)[n] = w
      /\ \A n \in DOMAIN InOrder(S) : InOrder(S)[n] \in S
  BY InOrderPlaces
<1> QED
  BY <1>1 DEF ToSet

LEMMA OnlyWords ==
  ASSUME NEW T, NEW ws \in Seq(T), NEW S
  PROVE  ToSet(Only(ws, S)) = ToSet(ws) \cap S
<1>1. /\ \A n \in DOMAIN Only(ws, S) :
           Only(ws, S)[n] \in S /\ \E i \in DOMAIN ws : Only(ws, S)[n] = ws[i]
      /\ \A i \in DOMAIN ws :
           ws[i] \in S => \E n \in DOMAIN Only(ws, S) : Only(ws, S)[n] = ws[i]
  BY OnlyPlaces
<1>2. ASSUME NEW w \in ToSet(Only(ws, S))
      PROVE  w \in ToSet(ws) \cap S
  BY <1>1 DEF ToSet
<1>3. ASSUME NEW w \in ToSet(ws) \cap S
      PROVE  w \in ToSet(Only(ws, S))
  BY <1>1 DEF ToSet
<1> QED
  BY <1>2, <1>3

LEMMA TakenWords ==
  ASSUME NEW T, NEW ws \in Seq(T), NEW n \in Nat
  PROVE  ToSet(Prefix(ws, n)) \subseteq ToSet(ws)
<1>1. \A i \in DOMAIN Prefix(ws, n) : i \in DOMAIN ws /\ Prefix(ws, n)[i] = ws[i]
  BY TakenPlaces
<1> QED
  BY <1>1 DEF ToSet

----------------------------------------------------------------------------
(* The week: each of its words once, no more of them than the limit, and a  *)
(* seen one only beside every unmet word of the catalogue.                  *)
LEMMA WeekPlaces ==
  ASSUME NEW all \in SUBSET Nat, IsFiniteSet(all), NEW known, NEW W, W = Week(all, known),
         all \subseteq DOMAIN known
  PROVE  /\ W \in Seq(all) /\ Len(W) <= WeekLimit /\ IsInjective(W)
         /\ (\E w \in ToSet(W) : Seen(known[w])) =>
              \A w \in all : ~Seen(known[w]) => w \in ToSet(W)
<1> DEFINE unmet == all \cap UnmetIn(known)
           first == Lowest(unmet, WeekLimit)
           need  == WeekLimit - Cardinality(first)
           rest  == Lowest(all \ unmet, need)
<1>1. /\ unmet \in SUBSET Nat /\ IsFiniteSet(unmet)
      /\ all \ unmet \in SUBSET Nat /\ IsFiniteSet(all \ unmet)
  BY FS_Intersection, FS_Difference
<1>2. \A w \in all : w \in unmet <=> ~Seen(known[w])
  BY DEF UnmetIn
<1>3. WeekLimit \in Nat
  BY DeckAssumption DEF WeekLimit, RunManches
<1>4. unmet \subseteq all /\ all \ unmet \subseteq all
  OBVIOUS
<1> HIDE DEF unmet
<1>5. /\ first \in SUBSET unmet /\ IsFiniteSet(first)
      /\ Cardinality(first) <= WeekLimit
      /\ Cardinality(first) < WeekLimit => first = unmet
  BY <1>1, <1>3, LowestSize
<1>6. Cardinality(first) \in Nat
  BY <1>5, FS_CardinalityType
<1> HIDE DEF first
<1>7. need \in Nat /\ Cardinality(first) + need = WeekLimit
  BY <1>3, <1>5, <1>6
<1> HIDE DEF need
<1>8. rest \in SUBSET (all \ unmet) /\ IsFiniteSet(rest) /\ Cardinality(rest) <= need
  BY <1>1, <1>7, LowestSize
<1>9. Cardinality(rest) \in Nat
  BY <1>8, FS_CardinalityType
<1>10. need = 0 => rest = {}
  BY <1>8, <1>9, FS_EmptySet
<1> HIDE DEF rest
<1>11. W = InOrder(first) \o InOrder(rest)
  BY DEF Week, unmet, first, need, rest
<1> DEFINE f == InOrder(first)
           r == InOrder(rest)
<1>12. first \in SUBSET Nat /\ rest \in SUBSET Nat
  BY <1>4, <1>5, <1>8
<1>13. /\ f \in Seq(first) /\ Len(f) = Cardinality(first) /\ IsInjective(f) /\ ToSet(f) = first
       /\ r \in Seq(rest) /\ Len(r) = Cardinality(rest) /\ IsInjective(r) /\ ToSet(r) = rest
  BY <1>5, <1>8, <1>12, InOrderPlaces, InOrderWords
<1> HIDE DEF f, r
<1>14. f \in Seq(all) /\ r \in Seq(all)
  <2>1. first \subseteq all /\ rest \subseteq all
    BY <1>4, <1>5, <1>8
  <2> QED
    BY <1>13, <2>1, WiderSeq
<1>15. W \in Seq(all) /\ Len(W) = Len(f) + Len(r) /\ ToSet(W) = first \cup rest
  <2>1. W = f \o r
    BY <1>11 DEF f, r
  <2>2. f \o r \in Seq(all) /\ Len(f \o r) = Len(f) + Len(r)
    BY <1>14, JoinedPlaces
  <2>3. ToSet(f \o r) = ToSet(f) \cup ToSet(r)
    BY <1>14, JoinedWords
  <2> QED
    BY <1>13, <2>1, <2>2, <2>3
<1>16. Len(W) <= WeekLimit
  BY <1>6, <1>7, <1>8, <1>9, <1>13, <1>15
<1>17. IsInjective(W)
  <2>1. first \cap rest = {}
    BY <1>5, <1>8
  <2>2. \A i \in DOMAIN f : f[i] \in first
    BY <1>13
  <2>3. \A i \in DOMAIN r : r[i] \in rest
    BY <1>13
  <2>4. \A i \in DOMAIN W :
          \/ i \in DOMAIN f /\ W[i] = f[i]
          \/ i \notin DOMAIN f /\ i - Len(f) \in DOMAIN r /\ W[i] = r[i - Len(f)]
    BY <1>11, <1>14 DEF f, r
  <2>5. \A i, j \in DOMAIN W : i - Len(f) = j - Len(f) => i = j
    BY <1>14, <1>15
  <2> QED
    BY <1>13, <2>1, <2>2, <2>3, <2>4, <2>5 DEF IsInjective
<1>18. ASSUME NEW w \in ToSet(W), Seen(known[w]), NEW v \in all, ~Seen(known[v])
       PROVE  v \in ToSet(W)
  <2>1. w \in rest
    BY <1>2, <1>4, <1>5, <1>15, <1>18
  <2>2. need # 0
    BY <1>10, <2>1
  <2>3. first = unmet
    BY <1>3, <1>5, <1>6, <1>7, <2>2
  <2> QED
    BY <1>2, <1>15, <1>18, <2>3
<1> QED
  BY <1>15, <1>16, <1>17, <1>18

(* A catalogue is a finite set of numbers. *)
LEMMA CatalogueIsFinite ==
  ASSUME NEW all \in SUBSET Words
  PROVE  all \in SUBSET Nat /\ IsFiniteSet(all)
BY RunStartAssumption, FS_Subset

(* The Garde: gold words of the catalogue that the client asked for. *)
LEMMA GardeWords ==
  ASSUME NEW ids \in Seq(Words), NEW all, NEW known
  PROVE  LET golden == FilterGoldGarde(ids, known)
             garde  == Garde(golden, all, known)
         IN /\ garde \in Seq(Words) /\ Len(garde) <= GardeSlots
            /\ ToSet(garde) \subseteq all \cap GoldIn(known) \cap ToSet(golden)
<1> DEFINE golden    == FilterGoldGarde(ids, known)
           kept      == Only(golden, all)
           tarnished == Only(kept, TarnishedIn(known))
           others    == Only(kept, all \ TarnishedIn(known))
<1>1. golden \in Seq(Words) /\ ToSet(golden) \subseteq GoldIn(known)
  BY OnlyPlaces, OnlyWords DEF FilterGoldGarde
<1> HIDE DEF golden
<1>2. kept \in Seq(Words) /\ ToSet(kept) = ToSet(golden) \cap all
  BY <1>1, OnlyPlaces, OnlyWords
<1> HIDE DEF kept
<1>3. /\ tarnished \in Seq(Words) /\ others \in Seq(Words)
      /\ ToSet(tarnished) \subseteq ToSet(kept) /\ ToSet(others) \subseteq ToSet(kept)
  BY <1>2, OnlyPlaces, OnlyWords
<1>4. Garde(golden, all, known) = Prefix(tarnished \o others, GardeSlots)
  BY DEF Garde, kept
<1> HIDE DEF tarnished, others
<1>5. /\ tarnished \o others \in Seq(Words)
      /\ ToSet(tarnished \o others) = ToSet(tarnished) \cup ToSet(others)
  BY <1>3, JoinedPlaces, JoinedWords
<1>6. GardeSlots \in Nat
  BY DeckAssumption
<1>7. Len(Prefix(tarnished \o others, GardeSlots)) <= GardeSlots
  BY <1>5, <1>6 DEF Prefix
<1>8. /\ Prefix(tarnished \o others, GardeSlots) \in Seq(Words)
      /\ ToSet(Prefix(tarnished \o others, GardeSlots)) \subseteq ToSet(tarnished \o others)
  BY <1>5, <1>6, TakenPlaces, TakenWords
<1>9. /\ Garde(golden, all, known) \in Seq(Words)
      /\ Len(Garde(golden, all, known)) <= GardeSlots
      /\ ToSet(Garde(golden, all, known)) \subseteq all \cap GoldIn(known) \cap ToSet(golden)
  BY <1>1, <1>2, <1>3, <1>4, <1>5, <1>7, <1>8
<1> QED
  BY <1>9 DEF golden

LEMMA DeckParts ==
  ASSUME NEW ids \in Seq(Words), NEW all \in SUBSET Words, NEW known \in [Words -> Classes],
         NEW deck \in BuildDeck(ids, all, known)
  PROVE  /\ deck \in Decks(Words)
         /\ deck.week \in Seq(Words) /\ Len(deck.week) <= WeekLimit /\ IsInjective(deck.week)
         /\ (\E w \in ToSet(deck.week) : Seen(known[w])) =>
              \A w \in all : ~Seen(known[w]) => w \in ToSet(deck.week)
         /\ deck.garde \in Seq(Words) /\ Len(deck.garde) <= GardeSlots
         /\ ToSet(deck.garde) \subseteq all \cap GoldIn(known)
         /\ \A w \in deck.old :
              /\ w \in all /\ Seen(known[w]) /\ ~Gold(known[w]) /\ ~Cursed(known[w])
              /\ w \notin ToSet(deck.garde)
         /\ \A w \in deck.cursed : w \in all /\ Cursed(known[w])
<1> DEFINE golden == FilterGoldGarde(ids, known)
<1>1. PICK old \in Recycled(OldPool(golden, all, known)) :
         deck = [week |-> Week(all, known), garde |-> Garde(golden, all, known),
                 old |-> old, cursed |-> {w \in all : Cursed(known[w])}]
  BY DEF BuildDeck
<1>2. /\ deck.week = Week(all, known) /\ deck.garde = Garde(golden, all, known)
      /\ deck.old = old /\ deck.cursed = {w \in all : Cursed(known[w])}
  BY <1>1
<1>3. /\ Garde(golden, all, known) \in Seq(Words)
      /\ Len(Garde(golden, all, known)) <= GardeSlots
      /\ ToSet(Garde(golden, all, known)) \subseteq all \cap GoldIn(known) \cap ToSet(golden)
  BY GardeWords
<1> HIDE DEF golden
<1>4. old \subseteq OldPool(golden, all, known)
  BY <1>1 DEF Recycled
<1>5. \A w \in old :
        /\ w \in all /\ Seen(known[w]) /\ ~Gold(known[w]) /\ ~Cursed(known[w])
        /\ w \notin ToSet(golden)
  BY <1>4 DEF OldPool
<1>6. all \in SUBSET Nat /\ IsFiniteSet(all) /\ all \subseteq DOMAIN known /\ all \subseteq Words
  BY CatalogueIsFinite
<1>7. /\ deck.week \in Seq(all) /\ Len(deck.week) <= WeekLimit /\ IsInjective(deck.week)
      /\ (\E w \in ToSet(deck.week) : Seen(known[w])) =>
           \A w \in all : ~Seen(known[w]) => w \in ToSet(deck.week)
  BY <1>2, <1>6, WeekPlaces
<1>8. deck.week \in Seq(Words)
  BY <1>6, <1>7, WiderSeq
<1>9. deck \in Decks(Words)
  BY <1>1, <1>2, <1>3, <1>5, <1>6, <1>8 DEF Decks
<1> QED
  BY <1>2, <1>3, <1>5, <1>7, <1>8, <1>9

LEMMA DeckIsSound ==
  ASSUME NEW ids \in Seq(Words), NEW all \in SUBSET Words, NEW known \in [Words -> Classes],
         NEW deck \in BuildDeck(ids, all, known)
  PROVE  DeckSound(deck, all, known)
<1>1. (\E w \in ToSet(deck.week) : Seen(known[w])) =>
         \A w \in all : ~Seen(known[w]) => w \in ToSet(deck.week)
  BY DeckParts
<1>2. \A w \in ToSet(deck.garde) : Gold(known[w]) /\ w \in all
  BY DeckParts DEF GoldIn
<1>3. \A w \in deck.old :
        /\ Seen(known[w]) /\ ~Gold(known[w]) /\ ~Cursed(known[w])
        /\ w \notin ToSet(deck.garde)
  BY DeckParts
<1>4. Len(deck.week) <= WeekLimit /\ IsInjective(deck.week) /\ Len(deck.garde) <= GardeSlots
  BY DeckParts
<1> QED
  BY <1>1, <1>2, <1>3, <1>4 DEF DeckSound

(* What fills a manche beside the unmet words has been met. *)
LEMMA OptionalIsSeen ==
  ASSUME NEW ids \in Seq(Words), NEW all \in SUBSET Words, NEW known \in [Words -> Classes],
         NEW deck \in BuildDeck(ids, all, known)
  PROVE  /\ Optional(deck, known) \in Seq(Words)
         /\ \A w \in ToSet(Optional(deck, known)) : Seen(known[w])
<1> DEFINE met    == Met(deck, known)
           garde  == deck.garde
           old    == InOrder(deck.old)
           cursed == InOrder(deck.cursed)
<1>1. deck.week \in Seq(Words)
  BY DeckParts
<1>2. met \in Seq(Words) /\ \A w \in ToSet(met) : Seen(known[w])
  BY <1>1, OnlyPlaces, OnlyWords DEF Met, SeenIn
<1>3. garde \in Seq(Words) /\ \A w \in ToSet(garde) : Seen(known[w])
  BY DeckParts DEF GoldIn, Gold, Seen
<1>4. /\ deck.old \in SUBSET all /\ \A w \in deck.old : Seen(known[w])
      /\ deck.cursed \in SUBSET all /\ \A w \in deck.cursed : Seen(known[w])
  <2>1. /\ \A w \in deck.old : w \in all /\ Seen(known[w])
        /\ \A w \in deck.cursed : w \in all /\ Cursed(known[w])
    BY DeckParts
  <2>2. \A class : Cursed(class) => Seen(class)
    BY DEF Cursed, Seen
  <2> QED
    BY <2>1, <2>2
<1>5. deck.old \in SUBSET Words /\ deck.cursed \in SUBSET Words
  BY <1>4
<1>6. /\ deck.old \in SUBSET Nat /\ IsFiniteSet(deck.old)
      /\ deck.cursed \in SUBSET Nat /\ IsFiniteSet(deck.cursed)
  BY <1>5, CatalogueIsFinite
<1>7. /\ old \in Seq(Words) /\ \A w \in ToSet(old) : Seen(known[w])
      /\ cursed \in Seq(Words) /\ \A w \in ToSet(cursed) : Seen(known[w])
  BY <1>4, <1>5, <1>6, InOrderPlaces, InOrderWords, WiderSeq
<1>8. Optional(deck, known) = met \o garde \o old \o cursed
  BY DEF Optional
<1> HIDE DEF met, garde, old, cursed
<1> DEFINE two   == met \o garde
           three == two \o old
<1>9. two \in Seq(Words) /\ \A w \in ToSet(two) : Seen(known[w])
  BY <1>2, <1>3, JoinedPlaces, JoinedWords
<1>10. Optional(deck, known) = three \o cursed
  BY <1>8
<1> HIDE DEF two
<1>11. three \in Seq(Words) /\ \A w \in ToSet(three) : Seen(known[w])
  BY <1>7, <1>9, JoinedPlaces, JoinedWords
<1> HIDE DEF three
<1>12. three \o cursed \in Seq(Words) /\ \A w \in ToSet(three \o cursed) : Seen(known[w])
  BY <1>7, <1>11, JoinedPlaces, JoinedWords
<1> QED
  BY <1>10, <1>12

----------------------------------------------------------------------------
(* A manche as Draw leaves it: the mandatory words at their places, then    *)
(* only words of the ranked pool, and no place empty if the pool is not.    *)
LEMMA ToppedUpPlaces ==
  ASSUME NEW drawn \in Seq(Words), NEW ranked \in Seq(Words)
  PROVE  LET full == ToppedUp(drawn, ranked)
         IN /\ full \in Seq(Words) /\ Len(drawn) <= Len(full)
            /\ \A j \in 1 .. Len(drawn) : full[j] = drawn[j]
            /\ \A j \in 1 .. Len(full) :
                 j > Len(drawn) => \E i \in DOMAIN ranked : full[j] = ranked[i]
            /\ ranked # <<>> => Len(full) >= WordsPerManche
<1> DEFINE missing == WordsPerManche - Len(drawn)
           more    == [i \in 1 .. missing |-> ranked[((i - 1) % Len(ranked)) + 1]]
<1>1. WordsPerManche \in Nat /\ Len(drawn) \in Nat /\ Len(ranked) \in Nat
  BY DeckAssumption
<1>2. CASE missing <= 0 \/ ranked = <<>>
  <2>1. ToppedUp(drawn, ranked) = drawn
    BY <1>2 DEF ToppedUp
  <2>2. ranked # <<>> => Len(drawn) >= WordsPerManche
    BY <1>1, <1>2
  <2> QED
    BY <2>1, <2>2
<1>3. CASE ~(missing <= 0 \/ ranked = <<>>)
  <2>1. missing \in Nat /\ Len(ranked) > 0
    BY <1>1, <1>3
  <2>2. \A i \in 1 .. missing : ((i - 1) % Len(ranked)) + 1 \in DOMAIN ranked
    BY <1>1, <2>1
  <2>3. \A i \in DOMAIN ranked : ranked[i] \in Words
    OBVIOUS
  <2>4. more \in [1 .. missing -> Words]
    BY <2>2, <2>3
  <2>6. \A i \in 1 .. missing : \E k \in DOMAIN ranked : more[i] = ranked[k]
    BY <2>2
  <2>7. ToppedUp(drawn, ranked) = drawn \o more
    BY <1>3 DEF ToppedUp
  <2> HIDE DEF more, missing
  <2>5. more \in Seq(Words) /\ Len(more) = missing /\ DOMAIN more = 1 .. missing
    BY <2>1, <2>4
  <2>8. drawn \o more \in Seq(Words) /\ Len(drawn \o more) = Len(drawn) + missing
    BY <2>5, JoinedPlaces
  <2>9. \A j \in 1 .. Len(drawn) : (drawn \o more)[j] = drawn[j]
    BY <2>5, JoinedPlaces
  <2>10. \A j \in 1 .. Len(drawn \o more) :
           j > Len(drawn) => \E i \in DOMAIN ranked : (drawn \o more)[j] = ranked[i]
    <3> SUFFICES ASSUME NEW j \in 1 .. Len(drawn \o more), j > Len(drawn)
                 PROVE  \E i \in DOMAIN ranked : (drawn \o more)[j] = ranked[i]
      OBVIOUS
    <3>1. j - Len(drawn) \in 1 .. missing
      BY <1>1, <2>1, <2>8
    <3>2. (drawn \o more)[j] = more[j - Len(drawn)]
      BY <1>1, <2>5, <2>8
    <3> QED
      BY <2>6, <3>1, <3>2
  <2>11. Len(drawn) <= Len(drawn \o more) /\ Len(drawn \o more) >= WordsPerManche
    BY <1>1, <2>1, <2>8 DEF missing
  <2> QED
    BY <2>7, <2>8, <2>9, <2>10, <2>11
<1> QED
  BY <1>2, <1>3

LEMMA TurnPlaces ==
  ASSUME NEW ws \in Seq(Words), NEW m \in 0 .. Manches - 1
  PROVE  /\ Tourniquet(ws, m) \in Seq(Words)
         /\ \A j \in DOMAIN Tourniquet(ws, m) :
              Place(m, j) \in DOMAIN ws /\ Tourniquet(ws, m)[j] = ws[Place(m, j)]
<1> DEFINE n == (Len(ws) - m + 3 - 1) \div 3
<1>1. Len(ws) \in Nat /\ m \in 0 .. 2
  BY DEF Manches
<1>2. n \in Nat /\ \A j \in 1 .. n : (j - 1) * 3 + m + 1 \in 1 .. Len(ws)
  BY <1>1
<1>3. Tourniquet(ws, m) = [j \in 1 .. n |-> ws[(j - 1) * 3 + m + 1]]
  BY DEF Tourniquet, Manches
<1> HIDE DEF n
<1>4. \A i \in 1 .. Len(ws) : ws[i] \in Words
  OBVIOUS
<1>5. Tourniquet(ws, m) \in [1 .. n -> Words]
  BY <1>2, <1>3, <1>4
<1>6. Tourniquet(ws, m) \in Seq(Words)
  BY <1>2, <1>5
<1>7. \A j \in 1 .. n : Place(m, j) = (j - 1) * 3 + m + 1
  BY DEF Place, Manches
<1>8. DOMAIN Tourniquet(ws, m) = 1 .. n /\ DOMAIN ws = 1 .. Len(ws)
  BY <1>3
<1> QED
  BY <1>2, <1>3, <1>6, <1>7, <1>8

DealtFrom(hand, turn, ranked) ==
  /\ hand \in Seq(Words)
  /\ Len(hand) <= WordsPerManche /\ Len(turn) <= Len(hand)
  /\ \A j \in 1 .. Len(turn) : hand[j] = turn[j]
  /\ \A j \in 1 .. Len(hand) :
       j > Len(turn) => \E i \in DOMAIN ranked : hand[j] = ranked[i]
  /\ ranked # <<>> => Len(hand) = WordsPerManche

LEMMA DrawPlaces ==
  ASSUME NEW deck, NEW known, Unmet(deck, known) \in Seq(Words),
         Len(Unmet(deck, known)) <= WeekLimit,
         NEW ranked \in Seq(Words), NEW m \in 0 .. Manches - 1
  PROVE  DealtFrom(Draw(deck, known, m, ranked), Tourniquet(Unmet(deck, known), m), ranked)
<1> DEFINE U     == Unmet(deck, known)
           turn  == Tourniquet(U, m)
           hand  == Draw(deck, known, m, ranked)
           more  == Tourniquet(ranked, m)
           drawn == turn \o more
           full  == ToppedUp(drawn, ranked)
<1>1. WordsPerManche \in Nat
  BY DeckAssumption
<1>0. U \in Seq(Words) /\ Len(U) <= WeekLimit
  OBVIOUS
<1> HIDE DEF U
<1>2. turn \in Seq(Words) /\ Len(turn) <= WordsPerManche /\ Len(turn) \in Nat
  BY <1>0, TurnPlaces, NoMandatoryWordIsCut
<1>3. more \in Seq(Words) /\ \A j \in DOMAIN more : \E i \in DOMAIN ranked : more[j] = ranked[i]
  BY TurnPlaces
<1>4. hand = IF Len(Capped(turn)) = WordsPerManche THEN Capped(turn)
             ELSE Capped(ToppedUp(Capped(turn) \o more, ranked))
  BY DEF Draw, U
<1> HIDE DEF turn, more, hand
<1> SUFFICES DealtFrom(hand, turn, ranked)
  BY DEF hand, turn, U
<1>5. Capped(turn) = turn
  <2>1. /\ Capped(turn) \in Seq(Words) /\ Len(Capped(turn)) = Len(turn)
        /\ \A i \in 1 .. Len(Capped(turn)) : Capped(turn)[i] = turn[i]
    BY <1>1, <1>2, TakenPlaces DEF Capped
  <2>2. \A i \in 1 .. Len(turn) : Capped(turn)[i] = turn[i]
    BY <2>1
  <2>3. turn = [i \in 1 .. Len(turn) |-> turn[i]]
    BY <1>2
  <2>4. Capped(turn) = [i \in 1 .. Len(turn) |-> Capped(turn)[i]]
    BY <2>1
  <2> QED
    BY <2>2, <2>3, <2>4
<1>6. CASE Len(turn) = WordsPerManche
  <2>1. hand = turn
    BY <1>4, <1>5, <1>6
  <2> QED
    BY <1>1, <1>2, <1>6, <2>1 DEF DealtFrom
<1>7. CASE Len(turn) # WordsPerManche
  <2>1. hand = Capped(full)
    BY <1>4, <1>5, <1>7
  <2>2. /\ drawn \in Seq(Words) /\ Len(drawn) = Len(turn) + Len(more)
        /\ \A j \in 1 .. Len(turn) : drawn[j] = turn[j]
        /\ \A j \in 1 .. Len(drawn) :
             j > Len(turn) => j - Len(turn) \in DOMAIN more /\ drawn[j] = more[j - Len(turn)]
    BY <1>2, <1>3
  <2> HIDE DEF drawn
  <2>3. /\ full \in Seq(Words) /\ Len(drawn) <= Len(full)
        /\ \A j \in 1 .. Len(drawn) : full[j] = drawn[j]
        /\ \A j \in 1 .. Len(full) :
             j > Len(drawn) => \E i \in DOMAIN ranked : full[j] = ranked[i]
        /\ ranked # <<>> => Len(full) >= WordsPerManche
    BY <2>2, ToppedUpPlaces
  <2> HIDE DEF full
  <2>4. /\ hand \in Seq(Words)
        /\ Len(hand) = IF Len(full) < WordsPerManche THEN Len(full) ELSE WordsPerManche
        /\ \A j \in 1 .. Len(hand) : hand[j] = full[j]
    BY <1>1, <2>1, <2>3, TakenPlaces DEF Capped
  <2>5. /\ Len(full) \in Nat /\ Len(drawn) \in Nat /\ Len(more) \in Nat /\ Len(hand) \in Nat
    BY <1>3, <2>2, <2>3, <2>4
  <2>6. /\ Len(hand) <= WordsPerManche /\ Len(turn) <= Len(hand) /\ Len(hand) <= Len(full)
        /\ Len(turn) <= Len(drawn)
    <3>1. Len(turn) + Len(more) = Len(drawn) /\ Len(drawn) <= Len(full)
      BY <2>2, <2>3
    <3>2. Len(hand) = IF Len(full) < WordsPerManche THEN Len(full) ELSE WordsPerManche
      BY <2>4
    <3> QED
      BY <1>1, <1>2, <2>5, <3>1, <3>2
  <2>7. ASSUME NEW j \in 1 .. Len(turn)
        PROVE  hand[j] = turn[j]
    <3>1. j \in 1 .. Len(drawn) /\ j \in 1 .. Len(hand)
      BY <1>2, <2>5, <2>6
    <3> QED
      BY <2>2, <2>3, <2>4, <3>1
  <2>8. ASSUME NEW j \in 1 .. Len(hand), j > Len(turn)
        PROVE  \E i \in DOMAIN ranked : hand[j] = ranked[i]
    <3>1. j \in 1 .. Len(full) /\ hand[j] = full[j]
      BY <2>4, <2>5, <2>6
    <3>2. CASE j > Len(drawn)
      BY <2>3, <3>1, <3>2
    <3>3. CASE j \in 1 .. Len(drawn)
      <4>1. full[j] = drawn[j] /\ j - Len(turn) \in DOMAIN more /\ drawn[j] = more[j - Len(turn)]
        BY <2>2, <2>3, <2>8, <3>3
      <4>2. \E i \in DOMAIN ranked : more[j - Len(turn)] = ranked[i]
        BY <1>3, <4>1
      <4> QED
        BY <3>1, <4>1, <4>2
    <3> QED
      BY <2>5, <3>1, <3>2, <3>3
  <2>9. ranked # <<>> => Len(hand) = WordsPerManche
    BY <1>1, <2>3, <2>4, <2>5
  <2> QED
    BY <2>4, <2>6, <2>7, <2>8, <2>9 DEF DealtFrom
<1> QED
  BY <1>6, <1>7

(* An order of the pool has the pool's words, and is as empty. *)
LEMMA RankedWords ==
  ASSUME NEW pool \in Seq(Words), NEW ranked \in Rankings(pool)
  PROVE  /\ ranked \in Seq(Words)
         /\ pool # <<>> => ranked # <<>>
         /\ \A i \in DOMAIN ranked : ranked[i] \in ToSet(pool)
<1>1. CASE pool = <<>>
  <2>1. ranked = <<>>
    BY <1>1 DEF Rankings
  <2> QED
    BY <1>1, <2>1
<1>2. CASE pool # <<>>
  <2>1. PICK k \in 1 .. Len(pool) :
           ranked = [i \in 1 .. Len(pool) |-> pool[((i + k) % Len(pool)) + 1]]
    BY <1>2 DEF Rankings
  <2>2. Len(pool) \in Nat /\ Len(pool) > 0
    BY <1>2
  <2>3. \A i \in 1 .. Len(pool) : ((i + k) % Len(pool)) + 1 \in DOMAIN pool
    BY <2>2
  <2>4. \A i \in DOMAIN pool : pool[i] \in Words /\ pool[i] \in ToSet(pool)
    BY DEF ToSet
  <2>5. \A i \in 1 .. Len(pool) : ranked[i] \in Words /\ ranked[i] \in ToSet(pool)
    BY <2>1, <2>3, <2>4
  <2>6. DOMAIN ranked = 1 .. Len(pool) /\ ranked \in [1 .. Len(pool) -> Words]
    BY <2>1, <2>5
  <2>7. ranked \in Seq(Words) /\ Len(ranked) = Len(pool)
    BY <2>2, <2>6
  <2> QED
    BY <2>2, <2>5, <2>6, <2>7
<1> QED
  BY <1>1, <1>2

LEMMA DeckIsDealtFairly ==
  ASSUME NEW ids \in Seq(Words), NEW all \in SUBSET Words, NEW known \in [Words -> Classes],
         NEW deck \in BuildDeck(ids, all, known)
  PROVE  DealtFairly(deck, known)
<1> DEFINE U        == Unmet(deck, known)
           optional == Optional(deck, known)
<1>1. deck.week \in Seq(Words) /\ Len(deck.week) <= WeekLimit /\ IsInjective(deck.week)
  BY DeckParts
<1>4. WeekLimit \in Nat
  BY DeckAssumption DEF WeekLimit, RunManches
<1>5. /\ U \in Seq(Words) /\ Len(U) <= Len(deck.week) /\ IsInjective(U)
      /\ \A w \in ToSet(U) : ~Seen(known[w])
  BY <1>1, OnlyPlaces, OnlyWords DEF Unmet, UnmetIn
<1>6. Len(U) <= WeekLimit
  BY <1>1, <1>4, <1>5
<1>7. optional \in Seq(Words) /\ \A w \in ToSet(optional) : Seen(known[w])
  BY OptionalIsSeen
<1> SUFFICES ASSUME NEW ranked \in Rankings(optional)
             PROVE  LET hand == [m \in 0 .. Manches - 1 |-> Draw(deck, known, m, ranked)] IN
                    /\ \A w \in ToSet(U) :
                         Cardinality({p \in (0 .. Manches - 1) \X (1 .. WordsPerManche) :
                                        /\ p[2] \in DOMAIN hand[p[1]]
                                        /\ hand[p[1]][p[2]] = w}) = 1
                    /\ \A m \in 0 .. Manches - 1 :
                         optional # <<>> => Len(hand[m]) = WordsPerManche
  BY DEF DealtFairly
<1> DEFINE hand    == [m \in 0 .. Manches - 1 |-> Draw(deck, known, m, ranked)]
           turn(m) == Tourniquet(U, m)
<1>8. U = Unmet(deck, known)
  OBVIOUS
<1> HIDE DEF optional, U
<1>9. /\ ranked \in Seq(Words)
      /\ optional # <<>> => ranked # <<>>
      /\ \A i \in DOMAIN ranked : Seen(known[ranked[i]])
  BY <1>7, RankedWords
<1>10. ASSUME NEW m \in 0 .. Manches - 1
       PROVE  DealtFrom(hand[m], turn(m), ranked)
  <2>1. Unmet(deck, known) \in Seq(Words) /\ Len(Unmet(deck, known)) <= WeekLimit
    BY <1>5, <1>6, <1>8
  <2>2. DealtFrom(Draw(deck, known, m, ranked), Tourniquet(Unmet(deck, known), m), ranked)
    BY <1>9, <2>1, DrawPlaces
  <2> QED
    BY <1>8, <2>2
<1>11. \A m \in 0 .. Manches - 1 :
         /\ turn(m) \in Seq(Words)
         /\ \A j \in DOMAIN turn(m) : Place(m, j) \in DOMAIN U /\ turn(m)[j] = U[Place(m, j)]
  BY <1>5, TurnPlaces
<1>12. \A m \in 0 .. Manches - 1 : DOMAIN turn(m) = 1 .. Len(turn(m)) /\ Len(turn(m)) \in Nat
  BY <1>11
<1>13. \A m \in 0 .. Manches - 1 : DOMAIN hand[m] = 1 .. Len(hand[m]) /\ Len(hand[m]) \in Nat
  BY <1>10 DEF DealtFrom
<1>14. \A i \in DOMAIN U : \E m \in 0 .. Manches - 1 : \E j \in DOMAIN turn(m) : Place(m, j) = i
  BY <1>5, EveryPlaceIsDealt
<1>15. WordsPerManche \in Nat
  BY DeckAssumption
<1> HIDE DEF hand, turn
<1>16. ASSUME NEW w \in ToSet(U)
       PROVE  Cardinality({p \in (0 .. Manches - 1) \X (1 .. WordsPerManche) :
                             p[2] \in DOMAIN hand[p[1]] /\ hand[p[1]][p[2]] = w}) = 1
  <2> DEFINE places == {p \in (0 .. Manches - 1) \X (1 .. WordsPerManche) :
                          p[2] \in DOMAIN hand[p[1]] /\ hand[p[1]][p[2]] = w}
  <2>1. PICK i \in DOMAIN U : U[i] = w
    BY DEF ToSet
  <2>2. PICK m \in 0 .. Manches - 1 : \E j \in DOMAIN turn(m) : Place(m, j) = i
    BY <1>14
  <2>3. PICK j \in DOMAIN turn(m) : Place(m, j) = i
    BY <2>2
  <2>4. j \in 1 .. WordsPerManche /\ j \in DOMAIN hand[m] /\ hand[m][j] = w
    <3>1. j \in 1 .. Len(turn(m)) /\ turn(m)[j] = w
      BY <1>11, <1>12, <2>1, <2>3
    <3>2. hand[m][j] = turn(m)[j]
      BY <1>10, <3>1 DEF DealtFrom
    <3>3. j \in 1 .. Len(hand[m]) /\ Len(hand[m]) <= WordsPerManche
      BY <1>10, <1>12, <1>13, <3>1 DEF DealtFrom
    <3> QED
      BY <1>13, <1>15, <3>1, <3>2, <3>3
  <2>5. <<m, j>> \in places
    BY <2>4
  <2>6. ASSUME NEW p \in places
        PROVE  p = <<m, j>>
    <3>1. /\ p[1] \in 0 .. Manches - 1 /\ p[2] \in 1 .. WordsPerManche /\ p = <<p[1], p[2]>>
          /\ p[2] \in DOMAIN hand[p[1]] /\ hand[p[1]][p[2]] = w
      BY <2>6
    <3>2. CASE p[2] \in DOMAIN turn(p[1])
      <4>1. Place(p[1], p[2]) \in DOMAIN U /\ U[Place(p[1], p[2])] = w
        <5>1. p[2] \in 1 .. Len(turn(p[1]))
          BY <1>12, <3>1, <3>2
        <5>2. hand[p[1]][p[2]] = turn(p[1])[p[2]]
          BY <1>10, <3>1, <5>1 DEF DealtFrom
        <5>3. /\ Place(p[1], p[2]) \in DOMAIN U
              /\ turn(p[1])[p[2]] = U[Place(p[1], p[2])]
          BY <1>11, <3>1, <3>2
        <5> QED
          BY <3>1, <5>2, <5>3
      <4>2. Place(p[1], p[2]) = Place(m, j)
        BY <1>5, <2>1, <2>3, <4>1 DEF IsInjective
      <4>3. p[2] \in Nat /\ j \in Nat
        BY <1>15, <2>4, <3>1
      <4>4. p[1] = m /\ p[2] = j
        BY <3>1, <4>2, <4>3, NoPlaceIsDealtTwice
      <4> QED
        BY <3>1, <4>4
    <3>3. CASE p[2] \notin DOMAIN turn(p[1])
      <4>1. p[2] \in 1 .. Len(hand[p[1]]) /\ p[2] > Len(turn(p[1]))
        BY <1>12, <1>13, <1>15, <3>1, <3>3
      <4>2. \E k \in DOMAIN ranked : w = ranked[k]
        BY <1>10, <3>1, <4>1 DEF DealtFrom
      <4> QED
        BY <1>5, <1>9, <4>2
    <3> QED
      BY <3>2, <3>3
  <2> HIDE DEF places
  <2>7. places = {<<m, j>>}
    BY <2>5, <2>6
  <2>8. Cardinality(places) = 1
    BY <2>7, FS_Singleton
  <2> QED
    BY <2>8 DEF places
<1>17. \A m \in 0 .. Manches - 1 : optional # <<>> => Len(hand[m]) = WordsPerManche
  BY <1>9, <1>10 DEF DealtFrom
<1>18. hand = [m \in 0 .. Manches - 1 |-> Draw(deck, known, m, ranked)]
  BY DEF hand
<1> QED
  BY <1>16, <1>17, <1>18

----------------------------------------------------------------------------
(* The decks of the runs a child opens. *)

(* Only the end of POST /run/start adds a run. *)
LEMMA RunsAreCreated ==
  ASSUME Next, runs' # runs
  PROVE  \E q \in Requests : CreateRun(q)
<1>1. ASSUME NEW q \in Requests,
             \/ \E ids \in Asks : Start(q, ids)
             \/ \E claim \in Claims : Beat(q, claim)
             \/ \E report \in Reports : Report(q, report)
      PROVE  FALSE
  BY <1>1 DEF Start, Beat, Report, Arrives, rows
<1>2. ASSUME NEW q \in Requests,
             ReadChild(q) \/ ReadTime(q) \/ ReadStates(q) \/ ReadLists(q) \/ ReadItems(q)
      PROVE  FALSE
  BY <1>2 DEF ReadChild, ReadTime, ReadStates, ReadLists, ReadItems, rows
<1>3. ASSUME NEW q \in Requests,
             OwnRun(q) \/ AddPlayTime(q) \/ BeatReadsChild(q) \/ BeatAnswers(q)
      PROVE  FALSE
  BY <1>3 DEF OwnRun, AddPlayTime, BeatReadsChild, BeatAnswers, rows
<1>4. ASSUME NEW q \in Requests, ReadReported(q) \/ SaveResult(q) \/ CreditBonus(q) \/ Fail(q)
      PROVE  FALSE
  BY <1>4 DEF ReadReported, SaveResult, CreditBonus, Fail, rows
<1>5. ~(Restart \/ Midnight \/ SaveSettings \/ ValidateList \/ FinishElsewhere)
  BY DEF Restart, Midnight, SaveSettings, ValidateList, FinishElsewhere, rows
<1>6. PICK q \in Requests : \/ \E ids \in Asks : Start(q, ids)
                            \/ \E claim \in Claims : Beat(q, claim)
                            \/ \E report \in Reports : Report(q, report)
                            \/ Handle(q) \/ Fail(q)
  BY <1>5 DEF Next
<1> QED
  BY <1>1, <1>2, <1>3, <1>4, <1>6 DEF Handle

(* What a request holds when it opens a run. *)
LEMMA DeckIngredients ==
  ASSUME AccountTyped, NEW q \in Requests
  PROVE  /\ held[q].ids \in Seq(Words) /\ held[q].all \in SUBSET Words
         /\ held[q].states \in [Words -> Classes]
BY DEF AccountTyped, HeldRecords

(* A run that appears as a request ends is built from what that request     *)
(* held: no other request's.                                                *)
LEMMA OpenedDeck ==
  ASSUME AccountTyped, Next, NEW q \in Requests, Opens(q), NEW deck \in runs' \ runs
  PROVE  deck \in BuildDeck(held[q].ids, held[q].all, held[q].states)
<1>1. PICK r \in Requests : CreateRun(r)
  BY RunsAreCreated
<1>2. pc' = [pc EXCEPT ![r] = "idle"] /\ pc \in [Requests -> Steps]
  BY <1>1 DEF CreateRun, Ends, AccountTyped
<1>3. r = q
  BY <1>2 DEF Opens
<1>4. PICK opened \in BuildDeck(held[q].ids, held[q].all, held[q].states) :
         runs' = runs \cup {opened}
  BY <1>1, <1>3 DEF CreateRun
<1> QED
  BY <1>4

(* Every deck keeps its promises on the words as the request read them: a   *)
(* seen word takes a place in the week only once every unmet word of the    *)
(* catalogue has one, the Garde is gold, what is brought back can still be  *)
(* learned and is not in the Garde; for any words, lists, histories and     *)
(* sizes (handleRunStart, wordCatalog, BuildDeck).                          *)
THEOREM DecksAreAlwaysSound == Spec => DecksSound
<1>1. AccountTyped /\ Next =>
        \A q \in Requests : Opens(q) =>
          \A deck \in runs' \ runs : DeckSound(deck, held[q].all, held[q].states)
  BY OpenedDeck, DeckIngredients, DeckIsSound
<1>2. AccountTyped /\ [Next]_vars =>
        [\A q \in Requests : Opens(q) =>
           \A deck \in runs' \ runs : DeckSound(deck, held[q].all, held[q].states)]_runs
  BY <1>1 DEF vars, rows
<1> QED
  BY <1>2, AccountsTyped, PTL DEF Spec, DecksSound

(* Each unmet word of the week is dealt in exactly one of the run's three   *)
(* manches, once, and no manche goes short while the deck has a word to     *)
(* repeat, for any words, any size of manche and any deck the server opens  *)
(* (wordCatalog, BuildDeck, Draw).                                          *)
THEOREM EveryUnmetWordIsAlwaysDealt == Spec => EveryUnmetWordIsDealt
<1>1. AccountTyped /\ Next =>
        \A q \in Requests : Opens(q) =>
          \A deck \in runs' \ runs : DealtFairly(deck, held[q].states)
  BY OpenedDeck, DeckIngredients, DeckIsDealtFairly
<1>2. AccountTyped /\ [Next]_vars =>
        [\A q \in Requests : Opens(q) =>
           \A deck \in runs' \ runs : DealtFairly(deck, held[q].states)]_runs
  BY <1>1 DEF vars, rows
<1> QED
  BY <1>2, AccountsTyped, PTL DEF Spec, EveryUnmetWordIsDealt

(* What AccountTyped leaves out: the runs and the bounds.                   *)
RunsTyped ==
  /\ runs \subseteq Decks(Words)
  /\ sent \in 0 .. MaxSent
  /\ faults \in 0 .. MaxFaults
  /\ moves \in 0 .. MaxMoves

LEMMA RunsGoOnTyped ==
  ASSUME AccountTyped, RunsTyped, Next
  PROVE  RunsTyped'
<1>1. runs' \subseteq Decks(Words)
  <2>1. CASE runs' = runs
    BY <2>1 DEF RunsTyped
  <2>2. CASE runs' # runs
    <3>1. PICK q \in Requests : CreateRun(q)
      BY <2>2, RunsAreCreated
    <3>2. PICK deck \in BuildDeck(held[q].ids, held[q].all, held[q].states) :
             runs' = runs \cup {deck}
      BY <3>1 DEF CreateRun
    <3>3. deck \in Decks(Words)
      BY DeckIngredients, DeckParts
    <3> QED
      BY <3>2, <3>3 DEF RunsTyped
  <2> QED
    BY <2>1, <2>2
<1>2. /\ sent' = sent \/ (sent < MaxSent /\ sent' = sent + 1)
      /\ faults' = faults \/ (faults < MaxFaults /\ faults' = faults + 1)
      /\ moves' = moves \/ (moves < MaxMoves /\ moves' = moves + 1)
  <2>1. ASSUME NEW q \in Requests,
               \/ \E ids \in Asks : Start(q, ids)
               \/ \E claim \in Claims : Beat(q, claim)
               \/ \E report \in Reports : Report(q, report)
        PROVE  UNCHANGED <<faults, moves>> /\ sent < MaxSent /\ sent' = sent + 1
    BY <2>1 DEF Start, Beat, Report, Arrives
  <2>2. ASSUME NEW q \in Requests, Handle(q)
        PROVE  UNCHANGED <<sent, faults, moves>>
    BY <2>2 DEF Handle, ReadChild, ReadTime, ReadStates, ReadLists, ReadItems, CreateRun,
       OwnRun, AddPlayTime, BeatReadsChild, BeatAnswers, ReadReported, SaveResult, CreditBonus
  <2>3. ASSUME (\E q \in Requests : Fail(q)) \/ Restart
        PROVE  UNCHANGED <<sent, moves>> /\ faults < MaxFaults /\ faults' = faults + 1
    BY <2>3 DEF Fail, Restart
  <2>4. ASSUME Midnight
        PROVE  UNCHANGED <<sent, faults, moves>>
    BY <2>4 DEF Midnight
  <2>5. ASSUME SaveSettings \/ ValidateList \/ FinishElsewhere
        PROVE  UNCHANGED <<sent, faults>> /\ moves < MaxMoves /\ moves' = moves + 1
    BY <2>5 DEF SaveSettings, ValidateList, FinishElsewhere
  <2> QED
    BY <2>1, <2>2, <2>3, <2>4, <2>5 DEF Next
<1>3. MaxSent \in Nat /\ MaxFaults \in Nat /\ MaxMoves \in Nat
  BY RunStartAssumption
<1> QED
  BY <1>1, <1>2, <1>3 DEF RunsTyped

(* Every row, every run's deck and what every request holds are well typed. *)
THEOREM DayTypeCorrect == Spec => []TypeOK
<1>1. Init => RunsTyped
  BY RunStartAssumption DEF Init, RunsTyped
<1>2. AccountTyped /\ RunsTyped /\ [Next]_vars => RunsTyped'
  BY RunsGoOnTyped DEF vars, rows, RunsTyped
<1>3. AccountTyped /\ RunsTyped => TypeOK
  BY DEF AccountTyped, RunsTyped, TypeOK
<1> QED
  BY <1>1, <1>2, <1>3, AccountsTyped, PTL DEF Spec

----------------------------------------------------------------------------
(* Induction, for what Writing computes place by place. *)

(* Every set of numbers that has a member has a least one.                 *)
LEMMA LeastNatural ==
  ASSUME NEW T \in SUBSET Nat, T # {}
  PROVE  \E n \in T : \A m \in T : n <= m
<1> DEFINE R == OpToRel(<, Nat)
<1>1. IsWellFoundedOn(R, Nat)
  BY NatLessThanWellFounded
<1>2. \A x, y \in Nat : x < y => <<x, y>> \in R
  BY DEF OpToRel
<1> HIDE DEF R
<1>3. PICK n \in T : \A m \in T : <<m, n>> \notin R
  BY <1>1, WFMin
<1>4. \A m \in T : n <= m
  <2> SUFFICES ASSUME NEW m \in T, ~(n <= m)
               PROVE  FALSE
    OBVIOUS
  <2>1. m \in Nat /\ n \in Nat
    OBVIOUS
  <2>2. m < n
    BY <2>1
  <2>3. <<m, n>> \in R
    BY <2>1, <2>2, <1>2
  <2> QED
    BY <2>3, <1>3
<1> QED
  BY <1>4

LEMMA SetInduction ==
  ASSUME NEW T, 0 \in T, \A n \in Nat : n \in T => n + 1 \in T
  PROVE  Nat \subseteq T
<1> SUFFICES ASSUME Nat \ T # {}
             PROVE  FALSE
  OBVIOUS
<1>1. PICK n \in Nat \ T : \A m \in Nat \ T : n <= m
  <2> DEFINE U == Nat \ T
  <2> HIDE DEF U
  <2>1. U \in SUBSET Nat /\ U # {}
    BY DEF U
  <2> QED
    BY <2>1, LeastNatural DEF U
<1>2. n # 0
  OBVIOUS
<1>3. n - 1 \in Nat /\ (n - 1) + 1 = n
  BY <1>2
<1>4. n - 1 \notin Nat \ T
  BY <1>1, <1>3
<1> QED
  BY <1>3, <1>4

(* A value computed place by place exists.                                  *)
LEMMA PlaceByPlace ==
  ASSUME NEW S, NEW start \in S, NEW last \in Nat, NEW G \in [1 .. last -> [S -> S]]
  PROVE  \E f \in [0 .. last -> S] :
           f[0] = start /\ \A n \in 1 .. last : f[n] = G[n][f[n - 1]]
<1> DEFINE StepsTo(f, m) == f[0] = start /\ \A n \in 1 .. m : f[n] = G[n][f[n - 1]]
           T == {m \in Nat : m <= last => \E f \in [0 .. m -> S] : StepsTo(f, m)}
<1>1. 0 \in T
  <2>1. [n \in 0 .. 0 |-> start] \in [0 .. 0 -> S]
    OBVIOUS
  <2>2. StepsTo([n \in 0 .. 0 |-> start], 0)
    OBVIOUS
  <2> QED
    BY <2>1, <2>2
<1>2. ASSUME NEW m \in Nat, m \in T
      PROVE  m + 1 \in T
  <2> SUFFICES ASSUME m + 1 <= last
               PROVE  \E f \in [0 .. m + 1 -> S] : StepsTo(f, m + 1)
    OBVIOUS
  <2>1. PICK g \in [0 .. m -> S] : StepsTo(g, m)
    BY <1>2
  <2> DEFINE next == G[m + 1][g[m]]
             f == [n \in 0 .. m + 1 |-> IF n = m + 1 THEN next ELSE g[n]]
  <2>2. next \in S
    <3>1. g[m] \in S /\ m + 1 \in 1 .. last
      OBVIOUS
    <3>2. G[m + 1] \in [S -> S]
      BY <3>1
    <3> QED
      BY <3>1, <3>2
  <2> HIDE DEF next
  <2>4. f \in [0 .. m + 1 -> S]
    BY <2>2
  <2>5. f[0] = start
    BY <2>1
  <2>6. ASSUME NEW n \in 1 .. m + 1
        PROVE  f[n] = G[n][f[n - 1]]
    <3>1. CASE n = m + 1
      <4>1. f[n] = next /\ f[n - 1] = g[m]
        BY <3>1
      <4> QED
        BY <3>1, <4>1 DEF next
    <3>2. CASE n # m + 1
      <4>1. n \in 1 .. m
        BY <3>2
      <4>2. f[n] = g[n] /\ f[n - 1] = g[n - 1]
        BY <4>1
      <4> QED
        BY <2>1, <4>1, <4>2
    <3> QED
      BY <3>1, <3>2
  <2> HIDE DEF f
  <2> QED
    BY <2>4, <2>5, <2>6
<1>3. last \in T
  <2> HIDE DEF T
  <2> QED
    BY <1>1, <1>2, SetInduction
<1>4. PICK f \in [0 .. last -> S] : StepsTo(f, last)
  BY <1>3
<1> QED
  BY <1>4

LEMMA TypedByPlace ==
  ASSUME NEW S, NEW last \in Nat, NEW h, h[0] \in S,
         \A n \in 1 .. last : h[n - 1] \in S => h[n] \in S
  PROVE  \A n \in 0 .. last : h[n] \in S
<1> DEFINE T == {n \in Nat : n <= last => h[n] \in S}
<1>1. 0 \in T
  OBVIOUS
<1>2. \A n \in Nat : n \in T => n + 1 \in T
  OBVIOUS
<1> HIDE DEF T
<1>3. Nat \subseteq T
  BY <1>1, <1>2, SetInduction
<1> QED
  BY <1>3 DEF T

----------------------------------------------------------------------------
(* The client record. *)
Phases   == {"wager", "writing", "silence", "droplets"}
Paris    == [card: DOMAIN Cards, blind: BOOLEAN]
Attempts == [card: DOMAIN Cards, blind: BOOLEAN, typed: Seq(Letters)]
Entries  == Seq(Letters)

Clients ==
  [phase: Phases, cardIdx: DOMAIN Cards, wagerBlind: BOOLEAN, entry: Entries,
   letterTimes: Nat, correction: Nat \union {None}, frozen: BOOLEAN,
   held: Keys \union {Erase, Validate, None},
   flying: Nat, share: Nat, counterShown: Nat, score: Nat, combo: Nat, missed: BOOLEAN,
   wagers: Seq(Paris), attempts: Seq(Attempts)]

(* What a child has written starts the word asked. *)
Spelled(s) == IsPrefix(s.entry, currentCard(s)) /\ s.letterTimes = Len(s.entry)

(* What no letter changes. *)
SamePlay(s, t) ==
  /\ t.cardIdx = s.cardIdx /\ t.wagerBlind = s.wagerBlind /\ t.wagers = s.wagers
  /\ t.attempts = s.attempts /\ t.score = s.score /\ t.combo = s.combo
  /\ t.flying = s.flying /\ t.share = s.share /\ t.counterShown = s.counterShown

LEMMA CardTyped ==
  ASSUME NEW s \in Clients
  PROVE  currentCard(s) \in Entries /\ Len(currentCard(s)) \in Nat \ {0}
<1>1. s.cardIdx \in DOMAIN Cards
  BY DEF Clients
<1>2. Cards[s.cardIdx] \in Seq(Letters) \ {<<>>}
  BY <1>1, WritingAssumption
<1>3. \A w \in Seq(Letters) : Len(w) \in Nat /\ (w # <<>> => Len(w) # 0)
  BY EmptySeq
<1> QED
  BY <1>2, <1>3 DEF currentCard, Entries

----------------------------------------------------------------------------
(* Two words agree on what starts them both: a set of places from the first *)
(* on, which FirstMismatch counts.                                          *)
LEMMA StartIsInterval ==
  ASSUME NEW m \in Nat, NEW T \in SUBSET (1 .. m),
         \A n \in T : \A k \in 1 .. n : k \in T
  PROVE  Cardinality(T) \in 0 .. m /\ T = 1 .. Cardinality(T)
<1> DEFINE U == {n \in Nat : n + 1 \notin T}
<1>1. m \in U
  OBVIOUS
<1>2. PICK n \in U : \A k \in U : n <= k
  <2> HIDE DEF U
  <2>1. U # {} /\ U \in SUBSET Nat
    BY <1>1 DEF U
  <2> QED
    BY <2>1, LeastNatural
<1>3. n \in 0 .. m
  BY <1>1, <1>2
<1>4. \A k \in 1 .. n : k \in T
  <2> TAKE k \in 1 .. n
  <2>1. k - 1 \in Nat /\ k - 1 \notin U
    BY <1>2
  <2> QED
    BY <2>1
<1>5. \A k \in T : k \in 1 .. n
  <2> SUFFICES ASSUME NEW k \in T, ~(k \in 1 .. n)
               PROVE  FALSE
    OBVIOUS
  <2>1. n + 1 \in 1 .. k
    BY <1>3
  <2> QED
    BY <2>1, <1>2
<1> HIDE DEF U
<1>6. T = 1 .. n
  BY <1>4, <1>5
<1>7. Cardinality(1 .. n) = n
  BY <1>3, FS_Interval
<1> QED
  BY <1>3, <1>6, <1>7

LEMMA MismatchIsTheStart ==
  ASSUME NEW target \in Entries, NEW typed \in Entries
  PROVE  /\ FirstMismatch(target, typed) = -1 => typed = target
         /\ typed = target => FirstMismatch(target, typed) = -1
         /\ typed # target =>
              /\ FirstMismatch(target, typed) \in 0 .. Len(typed)
              /\ FirstMismatch(target, typed) <= Len(target)
              /\ \A n \in 1 .. FirstMismatch(target, typed) : target[n] = typed[n]
              /\ \A n \in Nat : /\ n <= Len(target) /\ n <= Len(typed)
                                /\ \A k \in 1 .. n : target[k] = typed[k]
                   => n <= FirstMismatch(target, typed)
<1> DEFINE m == Smaller(Len(target), Len(typed))
           T == {n \in 1 .. m : SubSeq(target, 1, n) = SubSeq(typed, 1, n)}
<1>0. Len(target) \in Nat /\ Len(typed) \in Nat
  BY DEF Entries
<1>1. m \in Nat /\ m <= Len(target) /\ m <= Len(typed)
      /\ \A n \in Nat : n <= Len(target) /\ n <= Len(typed) => n <= m
  BY <1>0 DEF Smaller
<1>2. \A n \in 1 .. m : n \in T <=> \A k \in 1 .. n : target[k] = typed[k]
  <2> TAKE n \in 1 .. m
  <2>1. /\ SubSeq(target, 1, n) = [k \in 1 .. n |-> target[k]]
        /\ SubSeq(typed, 1, n) = [k \in 1 .. n |-> typed[k]]
    BY <1>0, <1>1 DEF Entries
  <2> HIDE DEF m
  <2> QED
    BY <2>1
<1> HIDE DEF m
<1>3. Cardinality(T) \in 0 .. m /\ T = 1 .. Cardinality(T)
  <2>1. \A n \in T : \A k \in 1 .. n : k \in T
    BY <1>1, <1>2
  <2> HIDE DEF T
  <2>2. T \in SUBSET (1 .. m)
    BY DEF T
  <2> QED
    BY <1>1, <2>1, <2>2, StartIsInterval
<1>4. typed # target => FirstMismatch(target, typed) = Cardinality(T)
  BY DEF FirstMismatch, m
<1>5. typed = target => FirstMismatch(target, typed) = -1
  BY DEF FirstMismatch
<1>6. \A n \in 1 .. Cardinality(T) : target[n] = typed[n]
  <2> TAKE n \in 1 .. Cardinality(T)
  <2>1. n \in T /\ n \in 1 .. m
    BY <1>3, <1>1
  <2> HIDE DEF T
  <2>2. n \in 1 .. n
    OBVIOUS
  <2> QED
    BY <1>2, <2>1, <2>2
<1>7. \A n \in Nat : /\ n <= Len(target) /\ n <= Len(typed)
                     /\ \A k \in 1 .. n : target[k] = typed[k]
        => n <= Cardinality(T)
  <2> SUFFICES ASSUME NEW n \in Nat, n <= Len(target), n <= Len(typed), n # 0,
                      \A k \in 1 .. n : target[k] = typed[k]
               PROVE  n <= Cardinality(T)
    BY <1>1, <1>3
  <2>1. n \in 1 .. m
    BY <1>1
  <2>2. n \in T
    BY <1>2, <2>1
  <2> HIDE DEF T
  <2> QED
    BY <1>1, <1>3, <2>1, <2>2
<1> HIDE DEF T
<1> QED
  BY <1>0, <1>1, <1>3, <1>4, <1>5, <1>6, <1>7

LEMMA PrefixPlaces ==
  ASSUME NEW u \in Entries, NEW w \in Entries
  PROVE  IsPrefix(u, w) <=> /\ Len(u) <= Len(w)
                            /\ \A n \in 1 .. Len(u) : u[n] = w[n]
<1>0. Len(u) \in Nat /\ Len(w) \in Nat
  BY DEF Entries
<1>1. CASE Len(u) <= Len(w)
  <2>1. SubSeq(w, 1, Len(u)) = [k \in 1 .. Len(u) |-> w[k]]
    BY <1>0, <1>1 DEF Entries
  <2>2. u = [k \in 1 .. Len(u) |-> u[k]]
    BY DEF Entries
  <2>3. SubSeq(u, 1, Len(u)) = [k \in 1 .. Len(u) |-> u[k]]
    BY <1>0 DEF Entries
  <2> QED
    BY <1>1, <2>1, <2>2, <2>3 DEF IsPrefix
<1>2. CASE ~(Len(u) <= Len(w))
  BY <1>2 DEF IsPrefix
<1> QED
  BY <1>1, <1>2

----------------------------------------------------------------------------
(* One letter. *)
LEMMA OneMore ==
  ASSUME NEW u \in Entries, NEW r \in Letters
  PROVE  /\ Append(u, r) \in Entries /\ Len(Append(u, r)) = Len(u) + 1
         /\ \A n \in 1 .. Len(u) : Append(u, r)[n] = u[n]
BY DEF Entries

LEMMA Begun ==
  ASSUME NEW u \in Entries, NEW k \in 0 .. Len(u)
  PROVE  /\ SubSeq(u, 1, k) \in Entries /\ Len(SubSeq(u, 1, k)) = k
         /\ \A n \in 1 .. k : SubSeq(u, 1, k)[n] = u[n]
BY DEF Entries

LEMMA LetterTyped ==
  ASSUME NEW s \in Clients, s.phase \in {"writing", "silence"}, Spelled(s), NEW r \in Letters
  PROVE  /\ Type(s, r) \in Clients /\ Type(s, r).phase \in {"writing", "silence"}
         /\ Spelled(Type(s, r)) /\ SamePlay(s, Type(s, r)) /\ Type(s, r).held = s.held
<1> DEFINE word == currentCard(s)
           more == Append(s.entry, r)
           t == Type(s, r)
           k == FirstMismatch(word, more)
<1>0. /\ s.entry \in Entries /\ s.letterTimes = Len(s.entry) /\ Len(s.entry) \in Nat
      /\ word \in Entries
  BY CardTyped DEF Clients, Spelled, Entries
<1>1. more \in Entries /\ Len(more) = Len(s.entry) + 1
  BY <1>0, OneMore
<1>2. IsPrefix(s.entry, word)
  BY DEF Spelled
<1> HIDE DEF more, word
<1>3. CASE more = word
  <2>1. k = -1
    BY <1>0, <1>1, <1>3, MismatchIsTheStart
  <2>2. t = [s EXCEPT !.entry = more, !.letterTimes = @ + 1, !.correction = None,
                      !.phase = "silence"]
    BY <2>1 DEF Type, onLetterTyped, completeWord, currentCard, word, more, Clients
  <2> HIDE DEF t
  <2>3. t \in Clients
    <3>1. s.letterTimes + 1 \in Nat /\ "silence" \in Phases
      BY <1>0 DEF Phases
    <3> HIDE DEF t
    <3> QED
      BY <1>1, <2>2, <3>1 DEF Clients
  <2>4. SamePlay(s, t) /\ t.phase = "silence" /\ t.held = s.held
    BY <2>2 DEF SamePlay, Clients
  <2>5. t.entry = more /\ t.letterTimes = Len(more) /\ currentCard(t) = word
    BY <1>0, <1>1, <2>2 DEF currentCard, word, Clients
  <2>6. IsPrefix(more, word)
    BY <1>0, <1>1, <1>3, PrefixPlaces DEF Entries
  <2>7. Spelled(t)
    BY <2>5, <2>6 DEF Spelled
  <2> QED
    BY <2>3, <2>4, <2>7 DEF t
<1>4. CASE more # word
  <2>1. k \in 0 .. Len(more) /\ k <= Len(word)
    BY <1>0, <1>1, <1>4, MismatchIsTheStart
  <2>1a. \A n \in 1 .. k : word[n] = more[n]
    BY <1>0, <1>1, <1>4, MismatchIsTheStart
  <2> HIDE DEF k
  <2>2. t = [s EXCEPT !.entry = SubSeq(more, 1, k), !.correction = k, !.frozen = TRUE,
                      !.letterTimes = Smaller(@ + 1, k), !.missed = @ \/ k < Len(more)]
    <3> DEFINE u == [s EXCEPT !.entry = more]
    <3>1. u.entry = more /\ currentCard(u) = word
      BY DEF currentCard, word, Clients
    <3>2. t = onLetterTyped(u)
      BY DEF Type, more
    <3> HIDE DEF u, t
    <3>3. FirstMismatch(currentCard(u), u.entry) = k /\ ~(k < 0)
      BY <3>1, <2>1 DEF k
    <3>4. t = [u EXCEPT !.correction = k, !.frozen = TRUE, !.entry = SubSeq(@, 1, k),
                        !.letterTimes = Smaller(@ + 1, k), !.missed = @ \/ k < Len(u.entry)]
      BY <3>2, <3>3 DEF onLetterTyped
    <3> QED
      BY <3>1, <3>4 DEF u, Clients
  <2>3. Smaller(s.letterTimes + 1, k) = k
    BY <1>0, <1>1, <2>1 DEF Smaller
  <2>4. SubSeq(more, 1, k) \in Entries /\ Len(SubSeq(more, 1, k)) = k
    BY <1>1, <2>1, Begun
  <2>4a. \A n \in 1 .. k : SubSeq(more, 1, k)[n] = more[n]
    BY <1>1, <2>1, Begun
  <2> DEFINE kept == SubSeq(more, 1, k)
  <2> HIDE DEF t, kept
  <2>5. t = [s EXCEPT !.entry = kept, !.correction = k, !.frozen = TRUE,
                      !.letterTimes = k, !.missed = @ \/ k < Len(more)]
    BY <2>2, <2>3 DEF kept
  <2>6. t \in Clients
    <3>1. k \in Nat /\ (s.missed \/ k < Len(more)) \in BOOLEAN /\ kept \in Entries
      BY <2>1, <2>4 DEF kept
    <3> QED
      BY <2>5, <3>1 DEF Clients
  <2>7. SamePlay(s, t) /\ t.phase = s.phase /\ t.held = s.held
    BY <2>5 DEF SamePlay, Clients
  <2>8. t.entry = kept /\ t.letterTimes = Len(kept) /\ currentCard(t) = word
    BY <2>4, <2>5 DEF currentCard, word, kept, Clients
  <2>9. IsPrefix(kept, word)
    <3>1. kept \in Entries /\ Len(kept) <= Len(word)
      BY <2>1, <2>4 DEF kept
    <3>2. \A n \in 1 .. Len(kept) : kept[n] = word[n]
      BY <2>1a, <2>4, <2>4a DEF kept
    <3> QED
      BY <1>0, <3>1, <3>2, PrefixPlaces
  <2>10. Spelled(t)
    BY <2>8, <2>9 DEF Spelled
  <2> QED
    BY <2>6, <2>7, <2>10 DEF t
<1> QED
  BY <1>3, <1>4

LEMMA LetterErased ==
  ASSUME NEW s \in Clients, Spelled(s)
  PROVE  /\ eraseLastLetter(s) \in Clients /\ eraseLastLetter(s).phase = s.phase
         /\ Spelled(eraseLastLetter(s)) /\ SamePlay(s, eraseLastLetter(s))
<1> DEFINE word == currentCard(s)
           t == eraseLastLetter(s)
           rest == IF s.entry = <<>> THEN <<>> ELSE Front(s.entry)
           fewer == Larger(s.letterTimes - 1, 0)
<1>0. /\ s.entry \in Entries /\ s.letterTimes = Len(s.entry) /\ Len(s.entry) \in Nat
      /\ word \in Entries
  BY CardTyped DEF Clients, Spelled, Entries
<1>1. /\ Len(s.entry) <= Len(word)
      /\ \A n \in 1 .. Len(s.entry) : s.entry[n] = word[n]
  BY <1>0, PrefixPlaces DEF Spelled
<1>2. rest \in Entries /\ Len(rest) = fewer /\ Len(rest) <= Len(s.entry)
      /\ \A n \in 1 .. Len(rest) : rest[n] = s.entry[n]
  <2>1. CASE s.entry = <<>>
    BY <1>0, <2>1 DEF Larger, Entries
  <2>2. CASE s.entry # <<>>
    <3>1. Len(s.entry) - 1 \in 0 .. Len(s.entry)
      BY <1>0, <2>2 DEF Entries
    <3>2. fewer = Len(s.entry) - 1 /\ rest = SubSeq(s.entry, 1, Len(s.entry) - 1)
      BY <1>0, <2>2, <3>1 DEF Larger, Front
    <3> HIDE DEF rest, fewer
    <3> DEFINE k == Len(s.entry) - 1
    <3> HIDE DEF k
    <3>3. k \in 0 .. Len(s.entry) /\ rest = SubSeq(s.entry, 1, k) /\ fewer = k
      BY <3>1, <3>2 DEF k
    <3> QED
      BY <1>0, <3>3, Begun
  <2> QED
    BY <2>1, <2>2
<1>3. t = [s EXCEPT !.entry = rest, !.letterTimes = fewer]
  BY DEF eraseLastLetter, Clients
<1> HIDE DEF t, rest, fewer, word
<1>4. t \in Clients
  <2>1. fewer \in Nat
    BY <1>2 DEF Entries
  <2> QED
    BY <1>2, <1>3, <2>1 DEF Clients
<1>5. SamePlay(s, t) /\ t.phase = s.phase
  BY <1>3 DEF SamePlay, Clients
<1>6. t.entry = rest /\ t.letterTimes = Len(rest) /\ currentCard(t) = word
  BY <1>2, <1>3 DEF currentCard, word, Clients
<1>7. IsPrefix(rest, word)
  BY <1>0, <1>1, <1>2, PrefixPlaces DEF Entries
<1>8. Spelled(t)
  BY <1>6, <1>7 DEF Spelled
<1> QED
  BY <1>4, <1>5, <1>8 DEF t

----------------------------------------------------------------------------
(* A frame of writing: the letters of a frame are followed one by one. *)
KeepsThePlay(s, t) ==
  /\ t \in Clients /\ t.phase \in {"writing", "silence"} /\ Spelled(t) /\ SamePlay(s, t)

LEMMA SamePlayOn ==
  ASSUME NEW s, NEW t, NEW u, SamePlay(s, t), SamePlay(t, u)
  PROVE  SamePlay(s, u)
BY DEF SamePlay

LEMMA LettersTyped ==
  ASSUME NEW s \in Clients, s.phase \in {"writing", "silence"}, Spelled(s),
         NEW chars \in Entries
  PROVE  KeepsThePlay(s, Typed(s, chars))
<1> DEFINE last == Len(chars)
           S == {t \in Clients : KeepsThePlay(s, t)}
           G == [n \in 1 .. last |-> [t \in S |-> Type(t, chars[n])]]
           after[n \in 0 .. Len(chars)] == IF n = 0 THEN s ELSE Type(after[n - 1], chars[n])
<1>0. last \in Nat /\ \A n \in 1 .. last : chars[n] \in Letters
  BY DEF Entries
<1>1. s \in S
  BY DEF KeepsThePlay, SamePlay
<1>2. \A t \in S, r \in Letters : Type(t, r) \in S
  <2> SUFFICES ASSUME NEW t \in S, NEW r \in Letters
               PROVE  Type(t, r) \in S
    OBVIOUS
  <2>1. t \in Clients /\ t.phase \in {"writing", "silence"} /\ Spelled(t) /\ SamePlay(s, t)
    BY DEF KeepsThePlay
  <2>2. /\ Type(t, r) \in Clients /\ Type(t, r).phase \in {"writing", "silence"}
        /\ Spelled(Type(t, r)) /\ SamePlay(t, Type(t, r))
    BY <2>1, LetterTyped
  <2> QED
    BY <2>1, <2>2, SamePlayOn DEF KeepsThePlay
<1>3. PICK f \in [0 .. last -> S] :
        f[0] = s /\ \A n \in 1 .. last : f[n] = G[n][f[n - 1]]
  <2>1. G \in [1 .. last -> [S -> S]]
    BY <1>0, <1>2
  <2> DEFINE start == s
  <2>2. last \in Nat /\ start \in S
    BY <1>0, <1>1
  <2> HIDE DEF S, G, last, start
  <2>3. \E f \in [0 .. last -> S] :
          f[0] = start /\ \A n \in 1 .. last : f[n] = G[n][f[n - 1]]
    BY <2>1, <2>2, PlaceByPlace
  <2> QED
    BY <2>3 DEF start
<1>4. \A n \in 1 .. last : f[n] = Type(f[n - 1], chars[n])
  <2> HIDE DEF S, last
  <2>1. \A n \in 1 .. last : f[n - 1] \in S
    BY <1>0
  <2> QED
    BY <1>0, <1>3, <2>1
<1>5. f = [n \in 0 .. last |-> IF n = 0 THEN s ELSE Type(f[n - 1], chars[n])]
  <2> HIDE DEF S, last
  <2> QED
    BY <1>0, <1>3, <1>4
<1>6. after = [n \in 0 .. last |-> IF n = 0 THEN s ELSE Type(after[n - 1], chars[n])]
  BY <1>5
<1>7. Typed(s, chars) = after[last]
  BY DEF Typed
<1> HIDE DEF after, S, last, G
<1>8. after[0] = s /\ \A n \in 1 .. last : after[n] = Type(after[n - 1], chars[n])
  BY <1>0, <1>6
<1>9. \A n \in 0 .. last : after[n] \in S
  <2>1. after[0] \in S
    BY <1>1, <1>8
  <2>2. \A n \in 1 .. last : after[n - 1] \in S => after[n] \in S
    BY <1>0, <1>2, <1>8
  <2> QED
    BY <1>0, <2>1, <2>2, TypedByPlace
<1> QED
  BY <1>0, <1>7, <1>9 DEF S

LEMMA FingerTyped ==
  ASSUME NEW s \in Clients, s.phase \in {"writing", "silence"}, Spelled(s),
         NEW touch \in Touches
  PROVE  KeepsThePlay(s, Touched(s, touch))
<1>0. KeepsThePlay(s, s)
  BY DEF KeepsThePlay, SamePlay
<1>1. ASSUME NEW t, KeepsThePlay(s, t), NEW h \in Keys \union {Erase, Validate, None}
      PROVE  KeepsThePlay(s, [t EXCEPT !.held = h])
  <2> DEFINE u == [t EXCEPT !.held = h]
  <2>0. t \in Clients /\ Spelled(t) /\ SamePlay(s, t) /\ t.phase \in {"writing", "silence"}
    BY <1>1 DEF KeepsThePlay
  <2>1. u \in Clients
    BY <1>1, <2>0 DEF Clients
  <2>2. u.phase = t.phase /\ SamePlay(t, u) /\ u.entry = t.entry
        /\ u.letterTimes = t.letterTimes /\ currentCard(u) = currentCard(t)
    BY <2>0 DEF SamePlay, currentCard, Clients
  <2> HIDE DEF u
  <2>3. Spelled(u)
    BY <2>0, <2>2 DEF Spelled
  <2> QED
    BY <2>0, <2>1, <2>2, <2>3, SamePlayOn DEF KeepsThePlay, u
<1>2. CASE touch[1] \in Keys \cup {Erase, Validate}
  <2>1. touch[1] \in Keys \union {Erase, Validate, None}
    BY <1>2
  <2>2. Touched(s, touch) = [s EXCEPT !.held = touch[1]]
    BY <1>2 DEF Touched
  <2> QED
    BY <1>0, <1>1, <2>1, <2>2
<1>3. CASE /\ ~(touch[1] \in Keys \cup {Erase, Validate})
           /\ touch[2] # "down" /\ s.held # None
  <2> DEFINE typed == IF s.held \in Letters /\ touch[2] \in Variants[s.held]
                      THEN Type(s, touch[2]) ELSE Pressed(s)
  <2>1. Touched(s, touch) = [typed EXCEPT !.held = None]
    BY <1>3 DEF Touched, release
  <2>2. KeepsThePlay(s, typed)
    <3>1. CASE s.held \in Letters /\ touch[2] \in Variants[s.held]
      <4>1. touch[2] \in Letters
        BY <3>1, WritingAssumption
      <4> QED
        BY <3>1, <4>1, LetterTyped DEF KeepsThePlay
    <3>2. CASE ~(s.held \in Letters /\ touch[2] \in Variants[s.held])
      <4>1. CASE s.held = Erase
        <5>1. Pressed(s) = eraseLastLetter(s)
          BY <4>1 DEF Pressed, Erase, Validate
        <5> QED
          BY <3>2, <5>1, LetterErased DEF KeepsThePlay
      <4>2. CASE s.held = Validate
        <5>1. Pressed(s) = s
          BY <4>2 DEF Pressed, Erase, Validate
        <5> QED
          BY <1>0, <3>2, <5>1
      <4>3. CASE s.held \notin {Erase, Validate}
        <5>1. s.held \in Keys
          BY <1>3, <4>3 DEF Clients
        <5>2. s.held \in Letters
          BY <5>1, WritingAssumption
        <5>3. Pressed(s) = Type(s, s.held)
          BY <4>3 DEF Pressed
        <5> QED
          BY <3>2, <5>2, <5>3, LetterTyped DEF KeepsThePlay
      <4> QED
        BY <4>1, <4>2, <4>3
    <3> QED
      BY <3>1, <3>2
  <2> HIDE DEF typed
  <2>3. None \in Keys \union {Erase, Validate, None}
    OBVIOUS
  <2> QED
    BY <1>1, <2>1, <2>2, <2>3
<1>4. CASE /\ ~(touch[1] \in Keys \cup {Erase, Validate})
           /\ ~(touch[2] # "down" /\ s.held # None)
  <2>1. Touched(s, touch) = s
    BY <1>4 DEF Touched
  <2> QED
    BY <1>0, <2>1
<1> QED
  BY <1>2, <1>3, <1>4

LEMMA TypingsAreWords == ASSUME NEW chars \in Typings PROVE chars \in Entries
<1>1. PICK n \in 0 .. MaxTyped : chars \in [1 .. n -> Letters]
  BY DEF Typings
<1>2. n \in Nat
  BY WritingAssumption
<1> QED
  BY <1>1, <1>2 DEF Entries

LEMMA WordWritten ==
  ASSUME NEW s \in Clients, s.phase = "writing", Spelled(s),
         NEW touch \in Touches, NEW chars \in Typings, NEW back \in BOOLEAN
  PROVE  KeepsThePlay(s, Written(s, touch, chars, back))
<1>1. KeepsThePlay(s, s)
  BY DEF KeepsThePlay, SamePlay
<1> DEFINE t == Touched(s, touch)
           u == Typed(t, chars)
<1>2. t \in Clients /\ t.phase \in {"writing", "silence"} /\ Spelled(t) /\ SamePlay(s, t)
  BY FingerTyped DEF KeepsThePlay
<1> HIDE DEF t
<1>3. u \in Clients /\ u.phase \in {"writing", "silence"} /\ Spelled(u) /\ SamePlay(t, u)
  BY <1>2, LettersTyped, TypingsAreWords DEF KeepsThePlay
<1> HIDE DEF u
<1>4. SamePlay(s, u)
  BY <1>2, <1>3, SamePlayOn
<1>5. KeepsThePlay(s, Backspace(u, back))
  <2>1. CASE back
    BY <1>3, <1>4, <2>1, LetterErased, SamePlayOn DEF Backspace, KeepsThePlay
  <2>2. CASE ~back
    BY <1>3, <1>4, <2>2 DEF Backspace, KeepsThePlay
  <2> QED
    BY <2>1, <2>2
<1> QED
  BY <1>1, <1>5 DEF Written, t, u

----------------------------------------------------------------------------
(* Arithmetic: a division that comes out even, and turns through the cards. *)
LEMMA DivisionIsUnique ==
  ASSUME NEW d \in Nat \ {0}, NEW q \in Int, NEW r \in 0 .. d - 1
  PROVE  (d * q + r) % d = r
<1> DEFINE a == d * q + r
           p == a \div d
           m == a % d
<1>1. a \in Int /\ p \in Int /\ m \in 0 .. d - 1 /\ a = d * p + m
  OBVIOUS
<1> HIDE DEF p, m
<1>2. d * (p - q) = r - m
  BY <1>1
<1>3. p = q
  <2>1. CASE p - q >= 1
    <3>1. d * (p - q) >= d
      BY <1>1, <2>1
    <3> QED
      BY <1>1, <1>2, <3>1
  <2>2. CASE p - q <= -1
    <3>1. d * (p - q) <= -d
      BY <1>1, <2>2
    <3> QED
      BY <1>1, <1>2, <3>1
  <2> QED
    BY <1>1, <2>1, <2>2
<1> QED
  BY <1>1, <1>3 DEF m

LEMMA EvenShares ==
  ASSUME NEW a \in Nat, NEW d \in Nat \ {0}, a % d = 0
  PROVE  a \div d \in Nat /\ d * (a \div d) = a
OBVIOUS

LEMMA CardTurns ==
  ASSUME NEW d \in Nat \ {0}, NEW n \in Nat
  PROVE  /\ n % d \in 0 .. d - 1
         /\ ((n % d) + 1) % d = (n + 1) % d
<1> DEFINE q == n \div d
           r == n % d
<1>1. q \in Int /\ r \in 0 .. d - 1 /\ n = d * q + r
  OBVIOUS
<1> HIDE DEF q, r
<1>2. CASE r + 1 < d
  <2>1. r + 1 \in 0 .. d - 1
    BY <1>1, <1>2
  <2>2. (d * q + (r + 1)) % d = r + 1
    BY <1>1, <2>1, DivisionIsUnique
  <2>3. (d * 0 + (r + 1)) % d = r + 1
    BY <2>1, DivisionIsUnique
  <2>4. n + 1 = d * q + (r + 1) /\ r + 1 = d * 0 + (r + 1)
    BY <1>1
  <2> QED
    BY <1>1, <2>2, <2>3, <2>4 DEF r
<1>3. CASE ~(r + 1 < d)
  <2>0. r + 1 = d /\ 0 \in 0 .. d - 1
    BY <1>1, <1>3
  <2>1. (d * (q + 1) + 0) % d = 0
    BY <1>1, <2>0, DivisionIsUnique
  <2>2. (d * 1 + 0) % d = 0
    BY <2>0, DivisionIsUnique
  <2>3. n + 1 = d * (q + 1) + 0 /\ r + 1 = d * 1 + 0
    BY <1>1, <2>0
  <2> QED
    BY <1>1, <2>1, <2>2, <2>3 DEF r
<1> QED
  BY <1>2, <1>3

----------------------------------------------------------------------------
(* What the attempts have earned, as a sum up to each of them. *)
Purse(s) ==
  /\ s.wagers \in Seq(Paris) /\ Len(s.attempts) \in Nat
  /\ Len(s.attempts) <= Len(s.wagers)

LEMMA WorthTyped ==
  ASSUME NEW s, Purse(s), NEW i \in 1 .. Len(s.wagers)
  PROVE  Worth(s, i) \in Nat
<1>1. s.wagers[i] \in Paris
  BY DEF Purse
<1>2. s.wagers[i].card \in DOMAIN Cards /\ i \in Nat
  BY <1>1 DEF Paris, Purse
<1>3. Cards[s.wagers[i].card] \in Seq(Letters)
  BY <1>2, WritingAssumption
<1>4. Len(Cards[s.wagers[i].card]) \in Nat
  BY <1>3
<1>5. BlindMult \in Nat
  BY WritingAssumption
<1>6. \A m, n \in Nat : m * n \in Nat
  OBVIOUS
<1> DEFINE chips == Chips(Cards[s.wagers[i].card], s.wagers[i].blind)
<1>7. chips \in Nat
  BY <1>4, <1>5, <1>6 DEF Chips
<1> HIDE DEF chips
<1>8. chips * i \in Nat
  BY <1>2, <1>6, <1>7
<1> QED
  BY <1>8 DEF Worth, chips

LEMMA EarnedPlaces ==
  ASSUME NEW s, Purse(s)
  PROVE  \E f \in [0 .. Len(s.attempts) -> Nat] :
           /\ f[0] = 0
           /\ \A n \in 1 .. Len(s.attempts) : f[n] = f[n - 1] + Worth(s, n)
           /\ Earned(s) = f[Len(s.attempts)]
<1> DEFINE last == Len(s.attempts)
           Step(e, n) == e + Worth(s, n)
           G == [n \in 1 .. last |-> [e \in Nat |-> Step(e, n)]]
           sum[n \in 0 .. Len(s.attempts)] == IF n = 0 THEN 0 ELSE sum[n - 1] + Worth(s, n)
<1>0. last \in Nat /\ \A n \in 1 .. last : Worth(s, n) \in Nat
  <2>1. last \in Nat /\ Len(s.wagers) \in Nat /\ last <= Len(s.wagers)
    BY DEF Purse
  <2> QED
    BY <2>1, WorthTyped
<1>1. \A n \in 1 .. last, e \in Nat : Step(e, n) \in Nat
  BY <1>0
<1>2. PICK f \in [0 .. last -> Nat] :
        f[0] = 0 /\ \A n \in 1 .. last : f[n] = G[n][f[n - 1]]
  <2>1. G \in [1 .. last -> [Nat -> Nat]]
    BY <1>1
  <2> HIDE DEF last, G
  <2> DEFINE start == 0
             S == Nat
  <2>2. last \in Nat /\ start \in S /\ G \in [1 .. last -> [S -> S]]
    BY <1>0, <2>1
  <2> HIDE DEF start, S
  <2>3. \E f \in [0 .. last -> S] :
          f[0] = start /\ \A n \in 1 .. last : f[n] = G[n][f[n - 1]]
    BY <2>2, PlaceByPlace
  <2> QED
    BY <2>3 DEF start, S
<1>3. \A n \in 1 .. last : f[n] = Step(f[n - 1], n)
  <2> HIDE DEF last, Step
  <2>1. \A n \in 1 .. last, e \in Nat : G[n][e] = Step(e, n)
    OBVIOUS
  <2>2. \A n \in 1 .. last : f[n - 1] \in Nat
    BY <1>0
  <2> QED
    BY <1>0, <1>2, <2>1, <2>2
<1>4. f = [n \in 0 .. last |-> IF n = 0 THEN 0 ELSE Step(f[n - 1], n)]
  <2> HIDE DEF last, Step
  <2> QED
    BY <1>0, <1>2, <1>3
<1>5. sum = [n \in 0 .. last |-> IF n = 0 THEN 0 ELSE Step(sum[n - 1], n)]
  BY <1>4
<1>6. Earned(s) = sum[last]
  BY DEF Earned
<1> HIDE DEF sum
<1>7. sum[0] = 0 /\ \A n \in 1 .. last : sum[n] = Step(sum[n - 1], n)
  <2> HIDE DEF last, Step
  <2> QED
    BY <1>0, <1>5
<1>8. \A n \in 0 .. last : sum[n] \in Nat
  <2>1. sum[0] \in Nat
    BY <1>7
  <2>2. \A n \in 1 .. last : sum[n - 1] \in Nat => sum[n] \in Nat
    <3> HIDE DEF last, Step
    <3> QED
      BY <1>1, <1>7
  <2> HIDE DEF last, Step
  <2> DEFINE S == Nat
  <2> HIDE DEF S
  <2>3. sum[0] \in S /\ \A n \in 1 .. last : sum[n - 1] \in S => sum[n] \in S
    BY <2>1, <2>2 DEF S
  <2>4. \A n \in 0 .. last : sum[n] \in S
    BY <1>0, <2>3, TypedByPlace
  <2> QED
    BY <2>4 DEF S
<1>9. sum \in [0 .. last -> Nat]
  <2> HIDE DEF last, Step
  <2> QED
    BY <1>5, <1>8
<1> QED
  BY <1>6, <1>7, <1>9

LEMMA EarnedSoFar ==
  ASSUME NEW s, NEW t, Purse(s), Purse(t),
         \A i \in 1 .. Len(s.attempts) : t.wagers[i] = s.wagers[i],
         Len(t.attempts) \in {Len(s.attempts), Len(s.attempts) + 1}
  PROVE  /\ Earned(s) \in Nat
         /\ Len(t.attempts) = Len(s.attempts) => Earned(t) = Earned(s)
         /\ Len(t.attempts) = Len(s.attempts) + 1 =>
              Earned(t) = Earned(s) + Worth(t, Len(t.attempts))
<1> DEFINE m == Len(s.attempts)
           last == Len(t.attempts)
<1>0. m \in Nat /\ last \in {m, m + 1}
  BY DEF Purse
<1>1. PICK f \in [0 .. m -> Nat] :
        f[0] = 0 /\ (\A n \in 1 .. m : f[n] = f[n - 1] + Worth(s, n)) /\ Earned(s) = f[m]
  BY EarnedPlaces
<1>2. PICK g \in [0 .. last -> Nat] :
        g[0] = 0 /\ (\A n \in 1 .. last : g[n] = g[n - 1] + Worth(t, n)) /\ Earned(t) = g[last]
  BY EarnedPlaces
<1>3. \A n \in 1 .. m : Worth(t, n) = Worth(s, n)
  BY DEF Worth
<1> HIDE DEF m, last
<1>4. \A n \in Nat : n <= m => g[n] = f[n]
  <2> DEFINE T == {n \in Nat : n <= m => g[n] = f[n]}
  <2>1. 0 \in T
    BY <1>1, <1>2
  <2>2. \A n \in Nat : n \in T => n + 1 \in T
    BY <1>0, <1>1, <1>2, <1>3
  <2> HIDE DEF T
  <2>3. Nat \subseteq T
    BY <2>1, <2>2, SetInduction
  <2> QED
    BY <2>3 DEF T
<1>5. Earned(s) \in Nat /\ g[m] = Earned(s)
  BY <1>0, <1>1, <1>4
<1>6. last = m => Earned(t) = Earned(s)
  BY <1>2, <1>5
<1>7. last = m + 1 => Earned(t) = Earned(s) + Worth(t, last)
  <2> SUFFICES ASSUME last = m + 1
               PROVE  Earned(t) = Earned(s) + Worth(t, last)
    OBVIOUS
  <2>1. g[last] = g[last - 1] + Worth(t, last) /\ last - 1 = m
    BY <1>0, <1>2
  <2> QED
    BY <1>2, <1>5, <2>1
<1> QED
  BY <1>5, <1>6, <1>7 DEF m, last

----------------------------------------------------------------------------
(* The invariant of the client. *)
Turn(n) == (n % Len(Cards)) + 1

Writes(s) == s.phase \in {"writing", "silence"}

Placed(s) ==
  /\ Len(s.attempts) + (IF Writes(s) THEN 1 ELSE 0) = Len(s.wagers)
  /\ Len(s.wagers) <= MaxWords
  /\ s.combo = Len(s.attempts) + 1
  /\ s.phase # "droplets" => s.cardIdx = Turn(Len(s.attempts))
  /\ s.phase = "droplets" => /\ Len(s.attempts) > 0
                             /\ s.cardIdx = Turn(Len(s.attempts) - 1)
  /\ Writes(s) => s.wagers[Len(s.wagers)] = [card |-> s.cardIdx, blind |-> s.wagerBlind]

InTurn(s) == \A i \in 1 .. Len(s.wagers) : s.wagers[i].card = Turn(i - 1)

Answered(s) ==
  \A i \in 1 .. Len(s.attempts) :
    s.attempts[i].card = s.wagers[i].card /\ s.attempts[i].blind = s.wagers[i].blind

Scored(s) == Placed(s) /\ InTurn(s) /\ Answered(s) /\ s.score = Earned(s)

Counted(s) ==
  /\ s.counterShown + s.flying * s.share = Scale * s.score
  /\ s.phase # "droplets" => s.flying = 0

ClientInv(s) == s \in Clients /\ Spelled(s) /\ Scored(s) /\ Counted(s)

LEMMA PlacedPurse ==
  ASSUME NEW s \in Clients, Placed(s)
  PROVE  Purse(s)
<1>1. s.wagers \in Seq(Paris) /\ Len(s.attempts) \in Nat /\ Len(s.wagers) \in Nat
  BY DEF Clients
<1>2. Len(s.attempts) = Len(s.wagers) \/ Len(s.attempts) + 1 = Len(s.wagers)
  <2>1. CASE Writes(s)
    BY <1>1, <2>1 DEF Placed
  <2>2. CASE ~Writes(s)
    BY <1>1, <2>2 DEF Placed
  <2> QED
    BY <2>1, <2>2
<1>3. Len(s.attempts) <= Len(s.wagers)
  BY <1>1, <1>2
<1> QED
  BY <1>1, <1>3 DEF Purse

(* Nothing that leaves the play alone changes the score. *)
LEMMA SamePlaySameScore ==
  ASSUME NEW s \in Clients, NEW t \in Clients, Scored(s), Counted(s), SamePlay(s, t),
         t.phase = s.phase \/ (Writes(s) /\ Writes(t))
  PROVE  Scored(t) /\ Counted(t)
<1>1. Placed(t)
  BY DEF Scored, Placed, SamePlay, Writes
<1>2. InTurn(t) /\ Answered(t)
  BY DEF Scored, InTurn, Answered, SamePlay
<1>3. Earned(t) = Earned(s)
  <2>1. Purse(s) /\ Purse(t)
    BY <1>1, PlacedPurse DEF Scored
  <2>2. /\ \A i \in 1 .. Len(s.attempts) : t.wagers[i] = s.wagers[i]
        /\ Len(t.attempts) = Len(s.attempts)
    BY DEF SamePlay
  <2> QED
    BY <2>1, <2>2, EarnedSoFar
<1>4. t.score = Earned(t)
  BY <1>3 DEF Scored, SamePlay
<1>5. Counted(t)
  BY DEF Counted, SamePlay, Writes
<1> QED
  BY <1>1, <1>2, <1>4, <1>5 DEF Scored

LEMMA FrameWritten ==
  ASSUME NEW s, ClientInv(s), s.phase = "writing",
         NEW touch \in Touches, NEW chars \in Typings, NEW back \in BOOLEAN
  PROVE  ClientInv(Written(s, touch, chars, back))
<1> DEFINE t == Written(s, touch, chars, back)
<1>1. KeepsThePlay(s, t)
  BY WordWritten DEF ClientInv
<1> HIDE DEF t
<1>2. Scored(t) /\ Counted(t)
  BY <1>1, SamePlaySameScore DEF ClientInv, KeepsThePlay, Writes
<1> QED
  BY <1>1, <1>2 DEF ClientInv, KeepsThePlay, t

(* The pari: another word is asked, in its turn. *)
LEMMA PariChosen ==
  ASSUME NEW s, ClientInv(s), s.phase = "wager", Len(s.wagers) < MaxWords,
         NEW blind \in BOOLEAN
  PROVE  ClientInv(chooseWager(s, blind))
<1> DEFINE pari == [card |-> s.cardIdx, blind |-> blind]
           t == chooseWager(s, blind)
<1>0. s \in Clients /\ Spelled(s) /\ Scored(s) /\ Counted(s)
  BY DEF ClientInv
<1>1. t = [s EXCEPT !.wagerBlind = blind, !.phase = "writing", !.wagers = Append(@, pari)]
  BY DEF chooseWager
<1>2. /\ s.wagers \in Seq(Paris) /\ pari \in Paris /\ Len(s.wagers) \in Nat
      /\ Len(s.attempts) \in Nat
  BY <1>0 DEF Clients, Paris
<1> DEFINE more == Append(s.wagers, pari)
<1>3. /\ more \in Seq(Paris) /\ Len(more) = Len(s.wagers) + 1 /\ more[Len(more)] = pari
      /\ \A i \in 1 .. Len(s.wagers) : more[i] = s.wagers[i]
  BY <1>2
<1> HIDE DEF t
<1>4. /\ t.phase = "writing" /\ t.wagerBlind = blind /\ t.wagers = more
      /\ t.cardIdx = s.cardIdx /\ t.attempts = s.attempts /\ t.score = s.score
      /\ t.combo = s.combo /\ t.flying = s.flying /\ t.share = s.share
      /\ t.counterShown = s.counterShown /\ t.entry = s.entry
      /\ t.letterTimes = s.letterTimes
  BY <1>0, <1>1 DEF Clients
<1>5. t \in Clients
  <2> HIDE DEF more
  <2> QED
    BY <1>0, <1>1, <1>3 DEF Clients, Phases, more
<1> HIDE DEF more
<1>6. Spelled(t)
  BY <1>0, <1>4 DEF Spelled, currentCard
<1>7. Len(s.attempts) = Len(s.wagers) /\ s.cardIdx = Turn(Len(s.attempts))
      /\ s.combo = Len(s.attempts) + 1
  BY <1>0, <1>2 DEF Scored, Placed, Writes
<1>8. Placed(t)
  BY <1>2, <1>3, <1>4, <1>7, WritingAssumption DEF Placed, Writes, pari
<1>9. InTurn(t)
  <2> SUFFICES ASSUME NEW i \in 1 .. Len(more)
               PROVE  more[i].card = Turn(i - 1)
    BY <1>4 DEF InTurn
  <2>1. CASE i \in 1 .. Len(s.wagers)
    BY <1>0, <1>3, <2>1 DEF Scored, InTurn
  <2>2. CASE i = Len(more)
    BY <1>2, <1>3, <1>7, <2>2 DEF pari
  <2> QED
    BY <1>2, <1>3, <2>1, <2>2
<1>10. Answered(t)
  BY <1>0, <1>3, <1>4, <1>7 DEF Scored, Answered
<1>11. t.score = Earned(t)
  <2>1. Purse(s) /\ Purse(t)
    BY <1>0, <1>5, <1>8, PlacedPurse DEF Scored
  <2>2. /\ \A i \in 1 .. Len(s.attempts) : t.wagers[i] = s.wagers[i]
        /\ Len(t.attempts) = Len(s.attempts)
    BY <1>3, <1>4, <1>7
  <2>3. Earned(t) = Earned(s)
    BY <2>1, <2>2, EarnedSoFar
  <2> QED
    BY <1>0, <1>4, <2>3 DEF Scored
<1>12. Counted(t)
  BY <1>0, <1>4 DEF Counted
<1> QED
  BY <1>5, <1>6, <1>8, <1>9, <1>10, <1>11, <1>12 DEF ClientInv, Scored, t

LEMMA Tapped ==
  ASSUME NEW s, ClientInv(s), s.phase = "wager", NEW place
  PROVE  ClientInv(handleWagerTap(s, place))
<1>1. CASE place \in {"twice", "once"} /\ Len(s.wagers) < MaxWords
  <2>1. handleWagerTap(s, place) = chooseWager(s, place = "once")
    BY <1>1 DEF handleWagerTap
  <2> QED
    BY <1>1, <2>1, PariChosen
<1>2. CASE ~(place \in {"twice", "once"} /\ Len(s.wagers) < MaxWords)
  BY <1>2 DEF handleWagerTap
<1> QED
  BY <1>1, <1>2

----------------------------------------------------------------------------
(* The pay: a word is scored for the pari taken on it. *)
LEMMA ChipsTyped ==
  ASSUME NEW i \in DOMAIN Cards, NEW blind \in BOOLEAN
  PROVE  Chips(Cards[i], blind) \in Nat
<1>1. Len(Cards[i]) \in Nat
  <2>1. Cards[i] \in Seq(Letters)
    BY WritingAssumption
  <2> QED
    BY <2>1
<1>2. BlindMult \in Nat
  BY WritingAssumption
<1> QED
  BY <1>1, <1>2 DEF Chips

LEMMA DropletsTyped ==
  ASSUME NEW total \in Nat
  PROVE  Droplets(total) \in Nat \ {0}
<1>1. DropletPerTokens \in Nat \ {0}
  BY WritingAssumption
<1>2. (total + DropletPerTokens - 1) \div DropletPerTokens \in Int
  BY <1>1
<1> QED
  BY <1>2 DEF Droplets, Larger

LEMMA WordSettled ==
  ASSUME NEW s, ClientInv(s), s.phase = "silence"
  PROVE  ClientInv(settleWord(s))
<1> DEFINE total == Chips(currentCard(s), s.wagerBlind) * s.combo
           answer == [card |-> s.cardIdx, blind |-> s.wagerBlind, typed |-> s.entry]
           share == (Scale * total) \div Droplets(total)
           number == Droplets(total)
           more == Append(s.attempts, answer)
           t == settleWord(s)
<1>0. s \in Clients /\ Spelled(s) /\ Scored(s) /\ Counted(s)
  BY DEF ClientInv
<1>1. /\ s.attempts \in Seq(Attempts) /\ answer \in Attempts /\ Len(s.wagers) \in Nat
      /\ Len(s.attempts) \in Nat /\ s.wagers \in Seq(Paris)
  BY <1>0 DEF Clients, Attempts, Entries
<1>2. /\ Len(s.wagers) = Len(s.attempts) + 1 /\ Len(s.wagers) <= MaxWords
      /\ s.combo = Len(s.attempts) + 1 /\ s.cardIdx = Turn(Len(s.attempts))
      /\ s.wagers[Len(s.wagers)] = [card |-> s.cardIdx, blind |-> s.wagerBlind]
  BY <1>0 DEF Scored, Placed, Writes
<1>3. total \in Nat /\ number \in Nat \ {0} /\ share \in Nat /\ number * share = Scale * total
  <2>1. s.cardIdx \in DOMAIN Cards /\ s.wagerBlind \in BOOLEAN
    BY <1>0 DEF Clients
  <2>2. s.combo \in 1 .. MaxWords
    BY <1>1, <1>2, WritingAssumption
  <2>3. Chips(Cards[s.cardIdx], s.wagerBlind) \in Nat
    BY <2>1, ChipsTyped
  <2>4. (Scale * total) % number = 0
    BY <2>1, <2>2, WholeDroplets DEF currentCard
  <2>5. \A m, n \in Nat : m * n \in Nat
    OBVIOUS
  <2>6. total \in Nat
    BY <2>2, <2>3, <2>5 DEF currentCard
  <2>7. Scale \in Nat
    BY WritingAssumption
  <2> HIDE DEF total
  <2>8. Scale * total \in Nat
    BY <2>5, <2>6, <2>7
  <2>9. number \in Nat \ {0}
    BY <2>6, DropletsTyped
  <2> DEFINE a == Scale * total
  <2>10. a \in Nat /\ a % number = 0 /\ share = a \div number
    BY <2>4, <2>8
  <2> HIDE DEF a, number, share
  <2>11. a \div number \in Nat /\ number * (a \div number) = a
    BY <2>9, <2>10, EvenShares
  <2> QED
    BY <2>6, <2>9, <2>10, <2>11 DEF a
<1>4. t = [s EXCEPT !.score = @ + total, !.combo = @ + 1, !.attempts = more,
                    !.flying = number, !.share = share, !.phase = "droplets"]
  BY DEF settleWord
<1>5. /\ more \in Seq(Attempts) /\ Len(more) = Len(s.attempts) + 1 /\ more[Len(more)] = answer
      /\ \A i \in 1 .. Len(s.attempts) : more[i] = s.attempts[i]
  BY <1>1
<1> HIDE DEF t, total, number, share
<1>6. /\ t.phase = "droplets" /\ t.score = s.score + total /\ t.combo = s.combo + 1
      /\ t.attempts = more /\ t.flying = number /\ t.share = share
      /\ t.wagers = s.wagers /\ t.wagerBlind = s.wagerBlind /\ t.cardIdx = s.cardIdx
      /\ t.counterShown = s.counterShown /\ t.entry = s.entry
      /\ t.letterTimes = s.letterTimes
  BY <1>0, <1>4 DEF Clients
<1>7. t \in Clients
  <2>1. s.score + total \in Nat /\ s.combo + 1 \in Nat /\ "droplets" \in Phases
    BY <1>0, <1>3, SMTT(20) DEF Clients, Phases
  <2> HIDE DEF more
  <2> QED
    BY <1>0, <1>3, <1>4, <1>5, <2>1 DEF Clients
<1> HIDE DEF more
<1>8. Spelled(t)
  BY <1>0, <1>6 DEF Spelled, currentCard
<1>9. Placed(t)
  BY <1>1, <1>2, <1>5, <1>6 DEF Placed, Writes
<1>10. InTurn(t)
  BY <1>0, <1>6 DEF Scored, InTurn
<1>11. Answered(t)
  <2> SUFFICES ASSUME NEW i \in 1 .. Len(more)
               PROVE  more[i].card = s.wagers[i].card /\ more[i].blind = s.wagers[i].blind
    BY <1>6 DEF Answered
  <2>1. CASE i \in 1 .. Len(s.attempts)
    BY <1>0, <1>5, <2>1 DEF Scored, Answered
  <2>2. CASE i = Len(more)
    BY <1>2, <1>5, <2>2 DEF answer
  <2> QED
    BY <1>1, <1>5, <2>1, <2>2
<1>12. t.score = Earned(t)
  <2>1. Purse(s) /\ Purse(t)
    BY <1>0, <1>7, <1>9, PlacedPurse DEF Scored
  <2>2. /\ \A i \in 1 .. Len(s.attempts) : t.wagers[i] = s.wagers[i]
        /\ Len(t.attempts) = Len(s.attempts) + 1
    BY <1>5, <1>6
  <2>3. Earned(t) = Earned(s) + Worth(t, Len(t.attempts))
    BY <2>1, <2>2, EarnedSoFar
  <2>4. Worth(t, Len(t.attempts)) = total
    BY <1>2, <1>5, <1>6 DEF Worth, total, currentCard
  <2> QED
    BY <1>0, <1>6, <2>3, <2>4 DEF Scored
<1>13. Counted(t)
  <2>1. s.counterShown = Scale * s.score
    BY <1>0, WritingAssumption DEF Counted, Clients
  <2>2. Scale * (s.score + total) = Scale * s.score + Scale * total
    BY <1>0, <1>3, WritingAssumption DEF Clients
  <2> QED
    BY <1>3, <1>6, <2>1, <2>2 DEF Counted
<1> QED
  BY <1>7, <1>8, <1>9, <1>10, <1>11, <1>12, <1>13 DEF ClientInv, Scored, t

(* The droplets that land, and the next card once they all have. *)
LEMMA DropletsLanded ==
  ASSUME NEW s, ClientInv(s), s.phase = "droplets", NEW n \in 0 .. s.flying
  PROVE  ClientInv(advanceDroplets(s, n))
<1> DEFINE after == [s EXCEPT !.flying = @ - n, !.counterShown = @ + n * s.share]
           u == [after EXCEPT !.cardIdx = (@ % Len(Cards)) + 1]
           t == nextCard(after)
<1>0. s \in Clients /\ Spelled(s) /\ Scored(s) /\ Counted(s)
  BY DEF ClientInv
<1>1. /\ s.flying \in Nat /\ s.share \in Nat /\ s.counterShown \in Nat /\ s.score \in Nat
      /\ n \in Nat /\ s.flying - n \in Nat
  BY <1>0 DEF Clients
<1>2. n * s.share \in Nat /\ (s.flying - n) * s.share + n * s.share = s.flying * s.share
  <2>1. \A i, j \in Nat : i * j \in Nat
    OBVIOUS
  <2> QED
    BY <1>1, <2>1
<1>3. /\ after.flying = s.flying - n /\ after.counterShown = s.counterShown + n * s.share
      /\ after.phase = "droplets" /\ after.score = s.score /\ after.combo = s.combo
      /\ after.attempts = s.attempts /\ after.share = s.share /\ after.wagers = s.wagers
      /\ after.wagerBlind = s.wagerBlind /\ after.cardIdx = s.cardIdx
      /\ after.entry = s.entry /\ after.letterTimes = s.letterTimes
  BY <1>0 DEF Clients
<1>4. after \in Clients
  <2> DEFINE shown == s.counterShown + n * s.share
             left == s.flying - n
  <2>1. shown \in Nat /\ left \in Nat
    BY <1>1, <1>2
  <2>2. after = [s EXCEPT !.flying = left, !.counterShown = shown]
    OBVIOUS
  <2> HIDE DEF shown, left, after
  <2> QED
    BY <1>0, <2>1, <2>2 DEF Clients
<1>5. after.counterShown + after.flying * after.share = Scale * after.score
  <2>1. s.counterShown + s.flying * s.share = Scale * s.score
    BY <1>0 DEF Counted
  <2> QED
    BY <1>1, <1>2, <1>3, <2>1
<1> HIDE DEF after
<1>6. /\ Spelled(after) /\ Placed(after) /\ InTurn(after) /\ Answered(after)
  BY <1>0, <1>3 DEF Spelled, currentCard, Scored, Placed, InTurn, Answered, Writes
<1>7. after.score = Earned(after)
  <2>1. Purse(s) /\ Purse(after)
    BY <1>0, <1>4, <1>6, PlacedPurse DEF Scored
  <2>2. Earned(after) = Earned(s)
    BY <1>3, <2>1, EarnedSoFar
  <2> QED
    BY <1>0, <1>3, <2>2 DEF Scored
<1>8. CASE after.flying # 0
  <2>1. advanceDroplets(s, n) = after
    BY <1>8 DEF advanceDroplets, after
  <2>2. Counted(after)
    BY <1>3, <1>5 DEF Counted
  <2> QED
    BY <1>4, <1>6, <1>7, <2>1, <2>2 DEF ClientInv, Scored
<1>9. CASE after.flying = 0
  <2>1. advanceDroplets(s, n) = t
    BY <1>9 DEF advanceDroplets, after
  <2> DEFINE next == (after.cardIdx % Len(Cards)) + 1
  <2>2. t = [after EXCEPT !.cardIdx = next, !.phase = "wager", !.entry = <<>>,
                          !.correction = None, !.letterTimes = 0, !.missed = FALSE]
    BY <1>4 DEF nextCard, startWager, Clients
  <2>3. Len(Cards) \in Nat \ {0} /\ DOMAIN Cards = 1 .. Len(Cards)
    <3>1. Cards \in Seq(Seq(Letters)) /\ Cards # <<>>
      BY WritingAssumption
    <3> QED
      BY <3>1, EmptySeq
  <2>4. Len(s.attempts) \in Nat /\ Len(s.attempts) > 0
        /\ s.cardIdx = Turn(Len(s.attempts) - 1)
    BY <1>0 DEF Clients, Scored, Placed
  <2>5. next = Turn(Len(s.attempts))
    <3> DEFINE m == Len(s.attempts) - 1
    <3>1. m \in Nat /\ m + 1 = Len(s.attempts)
      BY <2>4
    <3>2. after.cardIdx = (m % Len(Cards)) + 1
      BY <1>3, <2>4 DEF Turn
    <3> HIDE DEF m
    <3>3. (((m % Len(Cards)) + 1) % Len(Cards)) = (m + 1) % Len(Cards)
      BY <2>3, <3>1, CardTurns
    <3> QED
      BY <3>1, <3>2, <3>3 DEF Turn
  <2>6. next \in DOMAIN Cards
    <3>1. Len(s.attempts) % Len(Cards) \in 0 .. Len(Cards) - 1
      BY <2>3, <2>4, CardTurns
    <3> HIDE DEF next
    <3> DEFINE r == Len(s.attempts) % Len(Cards)
    <3> HIDE DEF r
    <3>2. r \in 0 .. Len(Cards) - 1 /\ next = r + 1
      BY <2>5, <3>1 DEF Turn, r
    <3> QED
      BY <2>3, <3>2
  <2> HIDE DEF t, next
  <2>7. /\ t.cardIdx = next /\ t.phase = "wager" /\ t.entry = <<>> /\ t.letterTimes = 0
        /\ t.flying = after.flying /\ t.counterShown = after.counterShown
        /\ t.score = after.score /\ t.combo = after.combo /\ t.attempts = after.attempts
        /\ t.share = after.share /\ t.wagers = after.wagers
        /\ t.wagerBlind = after.wagerBlind
    BY <1>4, <2>2 DEF Clients
  <2>8. t \in Clients
    <3>1. <<>> \in Entries /\ "wager" \in Phases /\ None \in Nat \union {None}
      BY DEF Entries, Phases
    <3> QED
      BY <1>4, <2>2, <2>6, <3>1 DEF Clients
  <2>9. Spelled(t)
    <3>1. currentCard(t) \in Entries /\ <<>> \in Entries /\ Len(<<>>) = 0
      BY <2>8, CardTyped DEF Entries
    <3>2. IsPrefix(<<>>, currentCard(t))
      BY <3>1, PrefixPlaces, CardTyped, <2>8
    <3> QED
      BY <2>7, <3>1, <3>2 DEF Spelled
  <2>10. Placed(t)
    BY <1>3, <1>6, <2>4, <2>5, <2>7 DEF Placed, Writes
  <2>11. InTurn(t) /\ Answered(t)
    BY <1>6, <2>7 DEF InTurn, Answered
  <2>12. t.score = Earned(t)
    <3>1. Purse(after) /\ Purse(t)
      BY <1>4, <1>6, <2>8, <2>10, PlacedPurse
    <3>2. Earned(t) = Earned(after)
      BY <2>7, <3>1, EarnedSoFar
    <3> QED
      BY <1>7, <2>7, <3>2
  <2>13. Counted(t)
    BY <1>5, <1>9, <2>7 DEF Counted
  <2> QED
    BY <2>1, <2>8, <2>9, <2>10, <2>11, <2>12, <2>13 DEF ClientInv, Scored, t
<1> QED
  BY <1>8, <1>9

----------------------------------------------------------------------------
(* The clocks. *)
LEMMA Ticked ==
  ASSUME NEW s, ClientInv(s), NEW t \in tick(s)
  PROVE  ClientInv(t)
<1>1. \A u : u \in Ticks(s) => ClientInv(u)
  <2> SUFFICES ASSUME NEW u, u \in Ticks(s)
               PROVE  ClientInv(u)
    OBVIOUS
  <2>1. CASE s.phase = "silence"
    <3>1. u \in {s, settleWord(s)}
      BY <2>1 DEF Ticks
    <3> QED
      BY <2>1, <3>1, WordSettled
  <2>2. CASE s.phase = "droplets"
    <3>1. u \in {advanceDroplets(s, n) : n \in 0 .. s.flying}
      BY <2>2 DEF Ticks
    <3> QED
      BY <2>2, <3>1, DropletsLanded
  <2>3. CASE s.phase \notin {"silence", "droplets"}
    BY <2>3 DEF Ticks
  <2> QED
    BY <2>1, <2>2, <2>3
<1>2. PICK u \in Ticks(s) : \E f \in {s.frozen, FALSE} : t = [u EXCEPT !.frozen = f]
  BY DEF tick
<1>3. PICK f \in {s.frozen, FALSE} : t = [u EXCEPT !.frozen = f]
  BY <1>2
<1>4. u \in Clients /\ Spelled(u) /\ Scored(u) /\ Counted(u)
  BY <1>1 DEF ClientInv
<1>5. f \in BOOLEAN
  BY <1>3 DEF ClientInv, Clients
<1>6. t \in Clients
  BY <1>3, <1>4, <1>5 DEF Clients
<1>7. SamePlay(u, t) /\ t.phase = u.phase /\ t.entry = u.entry
      /\ t.letterTimes = u.letterTimes
  BY <1>3, <1>4 DEF SamePlay, Clients
<1>8. Spelled(t)
  BY <1>4, <1>7 DEF Spelled, SamePlay, currentCard
<1>9. Scored(t) /\ Counted(t)
  BY <1>4, <1>6, <1>7, SamePlaySameScore
<1> QED
  BY <1>6, <1>8, <1>9 DEF ClientInv

----------------------------------------------------------------------------
(* Until the seal is tapped nothing has been played. *)
Unplayed(s) ==
  /\ s.phase = "wager" /\ s.wagers = <<>> /\ s.attempts = <<>> /\ s.flying = 0
  /\ s.share = 0

WritingInv ==
  /\ stack \in {<<"Garde">>, <<"Run">>}
  /\ ClientInv(c)
  /\ stack = <<"Garde">> => Unplayed(c)

(* A client with everything at its start. *)
LEMMA StartsRight ==
  ASSUME NEW s \in Clients, Unplayed(s), s.cardIdx = 1, s.counterShown = 0, s.score = 0,
         s.combo = 1, s.entry = <<>>, s.letterTimes = 0
  PROVE  ClientInv(s)
<1>0. /\ s.flying = 0 /\ s.wagers = <<>> /\ s.attempts = <<>> /\ Len(<<>>) = 0
      /\ s.phase = "wager" /\ s.share = 0
  BY DEF Unplayed
<1>1. Spelled(s)
  <2>1. currentCard(s) \in Entries /\ <<>> \in Entries /\ Len(currentCard(s)) \in Nat
    BY CardTyped DEF Entries
  <2>2. IsPrefix(<<>>, currentCard(s))
    BY <1>0, <2>1, PrefixPlaces
  <2> QED
    BY <1>0, <2>2 DEF Spelled
<1>2. Len(Cards) \in Nat \ {0}
  <2>1. Cards \in Seq(Seq(Letters)) /\ Cards # <<>>
    BY WritingAssumption
  <2> QED
    BY <2>1, EmptySeq
<1>3. Turn(0) = 1
  <2>1. (Len(Cards) * 0 + 0) % Len(Cards) = 0
    BY <1>2, DivisionIsUnique
  <2>2. Len(Cards) * 0 + 0 = 0
    BY <1>2
  <2> QED
    BY <2>1, <2>2 DEF Turn
<1>4. Placed(s)
  BY <1>0, <1>3, WritingAssumption DEF Placed, Writes
<1>5. InTurn(s) /\ Answered(s)
  BY <1>0 DEF InTurn, Answered
<1>6. Earned(s) = 0
  <2>1. Purse(s)
    BY <1>4, PlacedPurse
  <2> QED
    BY <1>0, <2>1, EarnedPlaces
<1>7. Counted(s)
  BY <1>0, WritingAssumption DEF Counted
<1> QED
  BY <1>1, <1>4, <1>5, <1>6, <1>7 DEF ClientInv, Scored

LEMMA WritingStarts == WritingInit => WritingInv
<1> SUFFICES ASSUME WritingInit
             PROVE  WritingInv
  OBVIOUS
<1>1. 1 \in DOMAIN Cards
  <2>1. Cards \in Seq(Seq(Letters)) /\ Cards # <<>>
    BY WritingAssumption
  <2>2. Len(Cards) \in Nat \ {0} /\ DOMAIN Cards = 1 .. Len(Cards)
    BY <2>1, EmptySeq
  <2> QED
    BY <2>2
<1>2. <<>> \in Entries /\ <<>> \in Seq(Paris) /\ <<>> \in Seq(Attempts) /\ "wager" \in Phases
  BY DEF Entries, Phases
<1>3. c \in Clients
  BY <1>1, <1>2 DEF WritingInit, Clients
<1>4. Unplayed(c)
  BY DEF WritingInit, Unplayed
<1>5. /\ c.cardIdx = 1 /\ c.counterShown = 0 /\ c.score = 0
      /\ c.combo = 1 /\ c.entry = <<>> /\ c.letterTimes = 0
  BY DEF WritingInit
<1> QED
  BY <1>3, <1>4, <1>5, StartsRight DEF WritingInv, WritingInit

LEMMA WritingGoesOn == WritingInv /\ [WritingNext]_writingVars => WritingInv'
<1> SUFFICES ASSUME WritingInv, [WritingNext]_writingVars
             PROVE  WritingInv'
  OBVIOUS
<1>0. ClientInv(c) /\ c \in Clients
  BY DEF WritingInv, ClientInv
<1>1. CASE StartManche
  <2>0. stack = <<"Garde">>
    <3>1. Last(<<"Run">>) = "Run"
      BY DEF Last
    <3> QED
      BY <1>1, <3>1 DEF StartManche, Current, WritingInv
  <2>1. stack' = <<"Run">>
    <3> DEFINE garde == <<"Garde">>
               rest == SubSeq(garde, 1, 0)
    <3>1. garde \in Seq({"Garde"}) /\ Len(garde) = 1
      <4>1. \A x : <<x>> \in Seq({x}) /\ Len(<<x>>) = 1
        OBVIOUS
      <4> QED
        BY <4>1
    <3> HIDE DEF garde
    <3>2. rest \in Seq({"Garde"}) /\ Len(rest) = 0
      BY <3>1
    <3> HIDE DEF rest
    <3>3. rest = <<>>
      BY <3>2, EmptySeq
    <3>4. Front(stack) = rest
      BY <2>0, <3>1 DEF Front, garde, rest
    <3>5. stack' = Append(<<>>, "Run")
      BY <1>1, <3>3, <3>4 DEF StartManche, Replaced
    <3> QED
      BY <3>5
  <2>2. Unplayed(c)
    BY <2>0 DEF WritingInv
  <2>3. c' = [c EXCEPT !.cardIdx = 1, !.counterShown = 0, !.score = 0, !.combo = 1,
                       !.phase = "wager", !.entry = <<>>, !.correction = None,
                       !.letterTimes = 0, !.missed = FALSE]
    BY <1>0, <1>1 DEF StartManche, startWager, Clients
  <2>4. 1 \in DOMAIN Cards
    <3>1. Cards \in Seq(Seq(Letters)) /\ Cards # <<>>
      BY WritingAssumption
    <3>2. Len(Cards) \in Nat \ {0} /\ DOMAIN Cards = 1 .. Len(Cards)
      BY <3>1, EmptySeq
    <3> QED
      BY <3>2
  <2>5. c' \in Clients
    <3>1. <<>> \in Entries /\ "wager" \in Phases
      BY DEF Entries, Phases
    <3> QED
      BY <1>0, <2>3, <2>4, <3>1 DEF Clients
  <2>6. /\ c'.cardIdx = 1 /\ c'.counterShown = 0 /\ c'.score = 0
        /\ c'.combo = 1 /\ c'.entry = <<>> /\ c'.letterTimes = 0
    BY <1>0, <2>3 DEF Clients
  <2>7. Unplayed(c')
    BY <1>0, <2>2, <2>3 DEF Unplayed, Clients
  <2>8. ClientInv(c')
    BY <2>5, <2>6, <2>7, StartsRight
  <2> QED
    BY <2>1, <2>8 DEF WritingInv
<1>2. CASE Update
  <2>1. stack = <<"Run">> /\ stack' = stack
    <3>1. Last(<<"Garde">>) = "Garde"
      BY DEF Last
    <3> QED
      BY <1>2, <3>1 DEF Update, Frame, Current, WritingInv
  <2>2. PICK t \in tick(c) : WagerFrame(t) \/ WaitingFrame(t) \/ WritingFrame(t)
    BY <1>2 DEF Update, Frame
  <2>3. ClientInv(t)
    BY <1>0, Ticked
  <2>4. ClientInv(c')
    <3>1. CASE WagerFrame(t)
      <4>1. PICK place \in Places : c' = handleWagerTap(t, place)
        BY <3>1 DEF WagerFrame
      <4> QED
        BY <2>3, <3>1, <4>1, Tapped DEF WagerFrame
    <3>2. CASE WaitingFrame(t)
      BY <2>3, <3>2 DEF WaitingFrame
    <3>3. CASE WritingFrame(t)
      <4>1. PICK touch \in Touches : \E chars \in Typings, back \in BOOLEAN :
              c' = Written(t, touch, chars, back)
        BY <3>3 DEF WritingFrame
      <4>2. PICK chars \in Typings, back \in BOOLEAN : c' = Written(t, touch, chars, back)
        BY <4>1
      <4> QED
        BY <2>3, <3>3, <4>2, FrameWritten DEF WritingFrame
    <3> QED
      BY <2>2, <3>1, <3>2, <3>3
  <2>5. <<"Garde">> # <<"Run">>
    OBVIOUS
  <2> QED
    BY <2>1, <2>4, <2>5 DEF WritingInv
<1>3. CASE UNCHANGED writingVars
  BY <1>3 DEF WritingInv, writingVars
<1> QED
  BY <1>1, <1>2, <1>3 DEF WritingNext

LEMMA WritingInvAlways == WritingSpec => []WritingInv
<1> QED
  BY WritingStarts, WritingGoesOn, PTL DEF WritingSpec

(* The client of Writing stays within its types. *)
THEOREM WritingTypeCorrect == WritingSpec => []WritingTypeOK
<1>1. WritingInv => WritingTypeOK
  <2> SUFFICES ASSUME WritingInv
               PROVE  WritingTypeOK
    OBVIOUS
  <2>1. c \in Clients /\ Placed(c)
    BY DEF WritingInv, ClientInv, Scored
  <2>2. Len(c.wagers) <= MaxWords /\ Purse(c)
    BY <2>1, PlacedPurse DEF Placed
  <2>3. Len(c.attempts) <= MaxWords
    <3>1. Len(c.wagers) \in Nat /\ Len(c.attempts) \in Nat
      BY <2>1 DEF Clients
    <3>2. MaxWords \in Nat
      BY WritingAssumption
    <3> QED
      BY <2>2, <3>1, <3>2 DEF Purse
  <2> QED
    BY <2>1, <2>2, <2>3 DEF WritingInv, WritingTypeOK, Clients, Phases, Entries
<1> QED
  BY <1>1, WritingInvAlways, PTL

(* What a child has written always starts the word that is asked, with one  *)
(* time for each letter, whatever falls in a frame.                         *)
THEOREM EntryAlwaysStartsTheWord == WritingSpec => []EntryStartsTheWord
<1>1. WritingInv => EntryStartsTheWord
  BY DEF WritingInv, ClientInv, Spelled, EntryStartsTheWord
<1> QED
  BY <1>1, WritingInvAlways, PTL

(* Each card is scored once, in its turn, by the pari chosen for it, and    *)
(* the score is what those paris are worth.                                 *)
THEOREM EachCardIsAlwaysScored == WritingSpec => []EachCardIsScored
<1>1. WritingInv => EachCardIsScored
  <2> SUFFICES ASSUME WritingInv
               PROVE  EachCardIsScored
    OBVIOUS
  <2>1. c \in Clients /\ Scored(c)
    BY DEF WritingInv, ClientInv
  <2>2. DOMAIN c.wagers = 1 .. Len(c.wagers) /\ DOMAIN c.attempts = 1 .. Len(c.attempts)
    BY <2>1 DEF Clients
  <2> QED
    BY <2>1, <2>2 DEF EachCardIsScored, Scored, Placed, Writes, InTurn, Answered, Turn
<1> QED
  BY <1>1, WritingInvAlways, PTL

(* The counter and the droplets in flight always add up to the score, for   *)
(* any paris, words and size of a droplet.                                  *)
THEOREM CounterIsAlwaysTheScore == WritingSpec => []CounterIsTheScore
<1>1. WritingInv => CounterIsTheScore
  BY DEF WritingInv, ClientInv, Counted, CounterIsTheScore
<1> QED
  BY <1>1, WritingInvAlways, PTL
=============================================================================
