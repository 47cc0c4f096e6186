---------------------------- MODULE Outbox_proofs ----------------------------
(***************************************************************************)
(* Proofs about Outbox where a Drain blocks play and a write is whole: a   *)
(* run that was saved is never lost, a queued run stays queued, and the    *)
(* outbox keeps the promise of Courier.                                    *)
(***************************************************************************)
EXTENDS Outbox, SequenceTheorems, TLAPS

(* What an append and a suffix do to a sequence, place by place.            *)
LEMMA AppendPlaces ==
  ASSUME NEW S, NEW s \in Seq(S), NEW e \in S
  PROVE  /\ Append(s, e) \in Seq(S)
         /\ Len(Append(s, e)) = Len(s) + 1
         /\ DOMAIN Append(s, e) = 1 .. Len(s) + 1
         /\ DOMAIN s = 1 .. Len(s)
         /\ Len(s) \in Nat
         /\ \A i \in DOMAIN s : Append(s, e)[i] = s[i]
         /\ Append(s, e)[Len(s) + 1] = e
<1>1. /\ Append(s, e) \in Seq(S) /\ Len(Append(s, e)) = Len(s) + 1
      /\ \A i \in 1 .. Len(s) : Append(s, e)[i] = s[i]
      /\ Append(s, e)[Len(s) + 1] = e
  BY AppendProperties
<1>2. Len(s) \in Nat /\ DOMAIN s = 1 .. Len(s)
  BY LenProperties
<1>3. DOMAIN Append(s, e) = 1 .. Len(Append(s, e))
  BY <1>1, LenProperties
<1> QED BY <1>1, <1>2, <1>3

LEMMA SuffixPlaces ==
  ASSUME NEW S, NEW s \in Seq(S), NEW at \in Nat \ {0}, at <= Len(s) + 1
  PROVE  /\ SubSeq(s, at, Len(s)) \in Seq(S)
         /\ Len(SubSeq(s, at, Len(s))) = Len(s) - at + 1
         /\ DOMAIN SubSeq(s, at, Len(s)) = 1 .. Len(s) - at + 1
         /\ DOMAIN s = 1 .. Len(s)
         /\ Len(s) \in Nat
         /\ \A i \in 1 .. Len(s) - at + 1 : SubSeq(s, at, Len(s))[i] = s[at + i - 1]
<1>1. Len(s) \in Nat /\ DOMAIN s = 1 .. Len(s)
  BY LenProperties
<1>2. \A i \in at .. Len(s) : s[i] \in S
  BY <1>1, ElementOfSeq
<1>3. /\ SubSeq(s, at, Len(s)) \in Seq(S)
      /\ Len(SubSeq(s, at, Len(s))) = IF at <= Len(s) THEN Len(s) - at + 1 ELSE 0
      /\ \A i \in 1 .. Len(s) - at + 1 : SubSeq(s, at, Len(s))[i] = s[at + i - 1]
  BY <1>1, <1>2, SubSeqProperties
<1>4. DOMAIN SubSeq(s, at, Len(s)) = 1 .. Len(SubSeq(s, at, Len(s)))
  BY <1>3, LenProperties
<1> QED BY <1>1, <1>3, <1>4

----------------------------------------------------------------------------
(* Types. *)

LEMMA PlayType ==
  ASSUME TypeOK, Play
  PROVE  TypeOK'
<1>1. CASE \E r \in Runs : StartRun(r)
  BY <1>1, OutboxAssumption DEF StartRun, TypeOK, store, bounds
<1>2. CASE ResumeRun
  BY <1>2, OutboxAssumption DEF ResumeRun, TypeOK, store, history, bounds
<1>3. CASE RecordAttempt
  <2>1. session \in Runs /\ saved' \in Runs \cup {None} /\ kept' \subseteq Runs
    BY <1>3 DEF RecordAttempt, TypeOK
  <2>2. saveFailures' \in 0 .. MaxSaveFailures
    BY <1>3, OutboxAssumption DEF RecordAttempt, SaveFails, TypeOK
  <2> QED BY <1>3, <2>1, <2>2 DEF RecordAttempt, TypeOK, memory
<1> QED BY <1>1, <1>2, <1>3 DEF Play

LEMMA QueueType ==
  ASSUME TypeOK, Queue
  PROVE  TypeOK'
<1>1. CASE FinishLoad
  BY <1>1 DEF FinishLoad, TypeOK, store, history, bounds
<1>2. CASE FinishSave
  <2>1. session \in Runs /\ finish.jobs \in Seq(Runs) /\ finished \in Seq(Runs)
        /\ outbox \in Seq(Runs)
    BY <1>2 DEF FinishSave, TypeOK
  <2>2. Append(finish.jobs, session) \in Seq(Runs) /\ Append(finished, session) \in Seq(Runs)
    BY <2>1, AppendProperties
  <2>3. outbox' \in Seq(Runs) /\ finished' \in Seq(Runs)
    BY <1>2, <2>1, <2>2 DEF FinishSave
  <2>4. saveFailures' \in 0 .. MaxSaveFailures
    BY <1>2, OutboxAssumption DEF FinishSave, SaveFails, TypeOK
  <2>5. finish' \in [pc: {"none", "loaded", "queued"}, jobs: Seq(Runs)]
    <3>1. NotFinishing \in [pc: {"none", "loaded", "queued"}, jobs: Seq(Runs)]
      BY EmptySeq DEF NotFinishing
    <3>2. [finish EXCEPT !.pc = "queued"] \in [pc: {"none", "loaded", "queued"}, jobs: Seq(Runs)]
      BY DEF TypeOK
    <3> QED BY <1>2, <3>1, <3>2 DEF FinishSave
  <2>6. kept' \subseteq Runs
    BY <1>2, <2>1 DEF FinishSave, TypeOK
  <2> QED BY <1>2, <2>1, <2>3, <2>4, <2>5, <2>6 DEF FinishSave, TypeOK
<1>3. CASE FinishClear
  <2>1. saveFailures' \in 0 .. MaxSaveFailures
    BY <1>3, OutboxAssumption DEF FinishClear, SaveFails, TypeOK
  <2> QED BY <1>3, <2>1 DEF FinishClear, NotFinishing, TypeOK, history
<1> QED BY <1>1, <1>2, <1>3 DEF Queue

LEMMA DrainType ==
  ASSUME TypeOK, Drain
  PROVE  TypeOK'
<1>l. Len(drain.jobs) \in Nat /\ drain.at \in Nat \ {0}
  BY LenProperties DEF TypeOK
<1>n. NotDraining \in [pc: {"none", "sending", "waiting", "saving"}, jobs: Seq(Runs), at: Nat \ {0}]
      /\ NotDraining.at <= Len(NotDraining.jobs) + 1 /\ NotDraining.pc = "none"
  BY DEF NotDraining
<1>1. CASE StartDrain
  <2>1. /\ drain'.pc = "sending" /\ drain'.at = 1 /\ drain'.jobs = outbox
        /\ drain' \in [pc: {"none", "sending", "waiting", "saving"}, jobs: Seq(Runs), at: Nat \ {0}]
    BY <1>1 DEF StartDrain, TypeOK
  <2>2. Len(outbox) \in Nat
    BY LenProperties DEF TypeOK
  <2> QED BY <1>1, <2>1, <2>2 DEF StartDrain, TypeOK, store, history, bounds
<1>2. CASE Send
  BY <1>2, <1>l DEF Send, Sending, TypeOK, store, history, bounds
<1>3. CASE SendUnmade
  BY <1>3, <1>n, OutboxAssumption DEF SendUnmade, SaveFails, TypeOK, store, history
<1>4. ASSUME NEW result \in Results, Reply(result)
      PROVE  TypeOK'
  <2>1. Job \in Runs
    BY <1>4, <1>l, ElementOfSeq DEF Reply, Job, TypeOK
  <2>2. delivered' \subseteq Runs /\ rejected' \subseteq Runs
    BY <1>4, <2>1 DEF Reply, TypeOK
  <2>3. /\ drain' \in [pc: {"none", "sending", "waiting", "saving"}, jobs: Seq(Runs), at: Nat \ {0}]
        /\ drain'.at <= Len(drain'.jobs) + 1 /\ drain'.pc # "waiting"
    <3>1. drain.at <= Len(drain.jobs)
      BY <1>4 DEF Reply, TypeOK
    <3>2. CASE result = "unreachable"
      BY <1>4, <3>1, <3>2, <1>l DEF Reply, TypeOK
    <3>3. CASE result # "unreachable"
      <4>1. drain' = [drain EXCEPT !.pc = "sending", !.at = drain.at + 1]
        BY <1>4, <3>3 DEF Reply
      <4>2. drain.at + 1 \in Nat \ {0} /\ drain.at + 1 <= Len(drain.jobs) + 1
        BY <3>1, <1>l
      <4>3. drain \in [pc: {"none", "sending", "waiting", "saving"}, jobs: Seq(Runs), at: Nat \ {0}]
        BY DEF TypeOK
      <4>4. /\ drain'.at = drain.at + 1 /\ drain'.jobs = drain.jobs /\ drain'.pc = "sending"
            /\ drain' \in [pc: {"none", "sending", "waiting", "saving"}, jobs: Seq(Runs), at: Nat \ {0}]
        BY <4>1, <4>2, <4>3
      <4> QED BY <4>2, <4>4
    <3> QED BY <3>2, <3>3
  <2> QED BY <1>4, <2>2, <2>3 DEF Reply, TypeOK, store, bounds
<1>5. CASE DrainSave
  <2>1. outbox' \in Seq(Runs)
    <3>1. SubSeq(drain.jobs, drain.at, Len(drain.jobs)) \in Seq(Runs)
      BY <1>l, SuffixPlaces DEF TypeOK
    <3> QED BY <1>5, <3>1 DEF DrainSave, TypeOK
  <2>2. saveFailures' \in 0 .. MaxSaveFailures
    BY <1>5, OutboxAssumption DEF DrainSave, SaveFails, TypeOK
  <2> QED BY <1>5, <1>n, <2>1, <2>2 DEF DrainSave, TypeOK, history
<1> QED BY <1>1, <1>2, <1>3, <1>4, <1>5 DEF Drain

LEMMA KillType ==
  ASSUME TypeOK, Kill
  PROVE  TypeOK'
<1>1. outbox' \in Seq(Runs) /\ saved' \in Runs \cup {None}
  BY EmptySeq DEF Kill, TypeOK, store
<1>2. kills' \in 0 .. MaxKills
  BY OutboxAssumption DEF Kill, TypeOK
<1> QED BY <1>1, <1>2 DEF Kill, TypeOK, NotFinishing, NotDraining, history

(* Every reachable state of the client is well typed, drains that run over  *)
(* a full disk and killed tabs included.                                    *)
THEOREM TypeCorrect == Spec => []TypeOK
<1>1. Init => TypeOK
  BY OutboxAssumption DEF Init, TypeOK, NotFinishing, NotDraining
<1>2. TypeOK /\ [Next]_vars => TypeOK'
  <2>1. TypeOK /\ UNCHANGED vars => TypeOK'
    BY DEF TypeOK, vars, memory, store, history, bounds
  <2> QED BY <2>1, PlayType, QueueType, DrainType, KillType DEF Next
<1> QED BY <1>1, <1>2, PTL DEF Spec

----------------------------------------------------------------------------
(* The invariant.  Every part but NothingLost is needed for the next to be  *)
(* kept: what Finish and Drain hold is what the store holds, for neither    *)
(* lets the other in; what a Drain has passed is settled; and the outbox    *)
(* holds what is not settled of the finished runs, in their order, perhaps  *)
(* with some of them again and with some that are settled.                  *)
SlotIsSession == session # None /\ saved # None => session = saved

FinishHolds ==
  /\ finish.pc # "none" => session # None /\ drain.pc = "none"
  /\ finish.pc = "loaded" => finish.jobs = outbox
  /\ finish.pc = "queued" => \E n \in DOMAIN finished : finished[n] = session

DrainHolds ==
  drain.pc # "none" =>
    /\ drain.jobs = outbox
    /\ \A i \in DOMAIN outbox : i < drain.at => outbox[i] \in Settled

QueuedWasFinished ==
  \A i \in DOMAIN outbox : \E n \in DOMAIN finished : finished[n] = outbox[i]

FinishedIsQueued ==
  \A n \in DOMAIN finished :
    finished[n] \in Settled \/ \E i \in DOMAIN outbox : outbox[i] = finished[n]

QueuedInOrder ==
  \A i \in DOMAIN outbox : \A m, n \in DOMAIN finished :
    outbox[i] = finished[n] /\ m < n =>
      \/ finished[m] \in Settled
      \/ \E j \in DOMAIN outbox : j < i /\ outbox[j] = finished[m]

FinishedOnce == \A m, n \in DOMAIN finished : finished[m] = finished[n] => m = n

SettledWasFinished == \A r \in Settled : \E n \in DOMAIN finished : finished[n] = r

SplitsAt(n) ==
  /\ n \in 0 .. Len(finished)
  /\ \A i \in DOMAIN finished : finished[i] \in Settled <=> i <= n

SettledInOrder == \E n \in 0 .. Len(finished) : SplitsAt(n)

QueueInv ==
  /\ QueuedWasFinished /\ FinishedIsQueued /\ QueuedInOrder
  /\ FinishedOnce /\ SettledWasFinished /\ SettledInOrder

IInv ==
  /\ TypeOK
  /\ SlotIsSession /\ FinishHolds /\ DrainHolds
  /\ QueueInv
  /\ NothingLost

LEMMA QueueStays ==
  ASSUME QueueInv, UNCHANGED <<outbox, finished, delivered, rejected>>
  PROVE  QueueInv' /\ Settled' = Settled
<1>1. Settled' = Settled
  BY DEF Settled
<1> QED BY <1>1 DEF QueueInv, QueuedWasFinished, FinishedIsQueued, QueuedInOrder, FinishedOnce,
                    SettledWasFinished, SettledInOrder, SplitsAt

(* The steps that leave the outbox and what came of it alone.               *)
LEMMA PlayInv ==
  ASSUME IInv, TypeOK', Play
  PROVE  IInv'
<1>q. UNCHANGED <<outbox, finished, delivered, rejected, finish, drain>>
  BY DEF Play, StartRun, ResumeRun, RecordAttempt, store, history, memory
<1>1. QueueInv' /\ Settled' = Settled
  BY <1>q, QueueStays DEF IInv
<1>2. DrainHolds'
  BY <1>q, <1>1 DEF IInv, DrainHolds
<1>3. SlotIsSession' /\ FinishHolds' /\ NothingLost'
  <2>1. CASE \E r \in Runs : StartRun(r)
    <3>1. UNCHANGED <<saved, kept>> /\ saved = None /\ finish.pc = "none"
      BY <2>1 DEF StartRun, store, IInv, FinishHolds
    <3> QED BY <1>q, <1>1, <3>1 DEF IInv, SlotIsSession, FinishHolds, NothingLost
  <2>2. CASE ResumeRun
    <3>1. UNCHANGED <<saved, kept>> /\ session' = saved /\ finish.pc = "none"
      BY <2>2 DEF ResumeRun, store, history, IInv, FinishHolds
    <3> QED BY <1>q, <1>1, <3>1 DEF IInv, SlotIsSession, FinishHolds, NothingLost
  <2>3. CASE RecordAttempt
    <3>1. /\ session' = session /\ session # None /\ finish.pc = "none"
          /\ \/ saved' = session /\ kept' = kept \cup {session}
             \/ UNCHANGED <<saved, kept>>
      BY <2>3 DEF RecordAttempt, memory
    <3>2. saved = None \/ saved = session
      BY <3>1 DEF IInv, SlotIsSession
    <3>3. \A r \in kept : r = saved \/ r \in ToSet(outbox) \/ r \in Settled
      BY DEF IInv, NothingLost
    <3>4. None \notin kept
      BY OutboxAssumption DEF IInv, TypeOK
    <3>5. NothingLost'
      BY <1>q, <1>1, <3>1, <3>2, <3>3, <3>4 DEF NothingLost
    <3> QED BY <1>q, <3>1, <3>2, <3>5 DEF IInv, SlotIsSession, FinishHolds
  <2> QED BY <2>1, <2>2, <2>3 DEF Play
<1> QED BY <1>1, <1>2, <1>3 DEF IInv

LEMMA FinishLoadInv ==
  ASSUME IInv, TypeOK', DrainBlocksPlay, FinishLoad
  PROVE  IInv'
<1>q. UNCHANGED <<session, saved, outbox, kept, finished, delivered, rejected, drain>>
  BY DEF FinishLoad, store, history
<1>1. QueueInv' /\ Settled' = Settled
  BY <1>q, QueueStays DEF IInv
<1>2. FinishHolds'
  BY <1>q DEF FinishLoad, FinishHolds, MayFinish
<1> QED BY <1>q, <1>1, <1>2 DEF IInv, SlotIsSession, DrainHolds, NothingLost

LEMMA FinishClearInv ==
  ASSUME IInv, TypeOK', FinishClear
  PROVE  IInv'
<1>q. UNCHANGED <<outbox, kept, finished, delivered, rejected, drain>>
  BY DEF FinishClear, history
<1>1. QueueInv' /\ Settled' = Settled
  BY <1>q, QueueStays DEF IInv
<1>2. FinishHolds' /\ SlotIsSession'
  BY DEF FinishClear, NotFinishing, FinishHolds, SlotIsSession, IInv
<1>3. session \in ToSet(outbox) \/ session \in Settled
  <2>1. PICK n \in DOMAIN finished : finished[n] = session
    BY DEF FinishClear, IInv, FinishHolds
  <2> QED BY <2>1 DEF IInv, QueueInv, FinishedIsQueued, ToSet
<1>4. saved' = saved \/ saved = None \/ saved = session
  BY DEF FinishClear, IInv, SlotIsSession, FinishHolds
<1>5. None \notin kept
  BY OutboxAssumption DEF IInv, TypeOK
<1>6. NothingLost'
  BY <1>q, <1>1, <1>3, <1>4, <1>5 DEF IInv, NothingLost
<1> QED BY <1>q, <1>1, <1>2, <1>6 DEF IInv, DrainHolds

(* Enqueue: the run is the last of the outbox, and of the finished ones if  *)
(* it is not one of them yet.                                               *)
LEMMA FinishSaveInv ==
  ASSUME IInv, TypeOK', DrainBlocksPlay, FinishSave
  PROVE  IInv'
<1>t. /\ session \in Runs /\ outbox \in Seq(Runs) /\ finished \in Seq(Runs)
      /\ finish.pc = "loaded" /\ finish.jobs = outbox /\ drain.pc = "none"
  BY DEF FinishSave, IInv, TypeOK, FinishHolds
<1>u. UNCHANGED <<session, saved, drain, delivered, rejected>> /\ Settled' = Settled
  BY DEF FinishSave, Settled
<1>1. CASE UNCHANGED outbox /\ finish' = NotFinishing /\ UNCHANGED <<kept, finished>>
  <2>1. QueueInv'
    BY <1>u, <1>1, QueueStays DEF IInv
  <2> QED BY <1>u, <1>1, <2>1
          DEF IInv, SlotIsSession, FinishHolds, DrainHolds, NothingLost, NotFinishing
<1>2. CASE /\ outbox' = Append(outbox, session) /\ finish'.pc = "queued"
           /\ kept' = kept \cup {session}
           /\ finished' = IF session \in ToSet(finished) THEN finished
                                                         ELSE Append(finished, session)
  <2> DEFINE last == Len(outbox) + 1
  <2>1. /\ DOMAIN outbox' = DOMAIN outbox \cup {last} /\ last \notin DOMAIN outbox
        /\ \A i \in DOMAIN outbox : outbox'[i] = outbox[i] /\ i < last /\ i \in Int
        /\ outbox'[last] = session
    BY <1>2, <1>t, AppendPlaces
  <2>2. /\ DOMAIN finished \subseteq DOMAIN finished'
        /\ \A n \in DOMAIN finished : finished'[n] = finished[n]
        /\ \E n \in DOMAIN finished' : finished'[n] = session
        /\ \A n \in DOMAIN finished' \ DOMAIN finished :
             /\ finished'[n] = session
             /\ session \notin ToSet(finished)
             /\ n = Len(finished) + 1
             /\ \A m \in DOMAIN finished : m < n
    <3>1. CASE session \in ToSet(finished)
      BY <1>2, <3>1 DEF ToSet
    <3>2. CASE session \notin ToSet(finished)
      BY <1>2, <1>t, <3>2, AppendPlaces
    <3> QED BY <3>1, <3>2
  <2>3. SettledWasFinished' /\ FinishedOnce'
    BY <1>u, <2>2 DEF IInv, QueueInv, SettledWasFinished, FinishedOnce, ToSet
  <2>4. SettledInOrder'
    <3>1. PICK n \in 0 .. Len(finished) : SplitsAt(n)
      BY DEF IInv, QueueInv, SettledInOrder
    <3>2. DOMAIN finished = 1 .. Len(finished) /\ Len(finished) \in Nat
      BY <1>t, LenProperties
    <3>3. n \in 0 .. Len(finished')
      <4>1. Len(finished') = Len(finished) \/ Len(finished') = Len(finished) + 1
        BY <1>2, <1>t, AppendPlaces
      <4> QED BY <4>1, <3>2
    <3>4. ASSUME NEW i \in DOMAIN finished'
          PROVE  finished'[i] \in Settled <=> i <= n
      <4>1. CASE i \in DOMAIN finished
        BY <4>1, <3>1, <2>2 DEF SplitsAt
      <4>2. CASE i \notin DOMAIN finished
        <5>1. finished'[i] = session /\ i = Len(finished) + 1 /\ session \notin ToSet(finished)
          BY <4>2, <3>4, <2>2
        <5>2. session \notin Settled
          BY <5>1 DEF IInv, QueueInv, SettledWasFinished, ToSet
        <5> QED BY <5>1, <5>2, <3>2
      <4> QED BY <4>1, <4>2
    <3> QED BY <1>u, <3>3, <3>4 DEF SettledInOrder, SplitsAt
  <2>5. QueuedWasFinished'
    BY <2>1, <2>2 DEF IInv, QueueInv, QueuedWasFinished
  <2>6. FinishedIsQueued'
    BY <1>u, <2>1, <2>2 DEF IInv, QueueInv, FinishedIsQueued
  <2>7. QueuedInOrder'
    <3> SUFFICES ASSUME NEW i \in DOMAIN outbox', NEW m \in DOMAIN finished',
                        NEW n \in DOMAIN finished', outbox'[i] = finished'[n], m < n,
                        finished'[m] \notin Settled
                 PROVE  \E j \in DOMAIN outbox' : j < i /\ outbox'[j] = finished'[m]
      BY <1>u DEF QueuedInOrder
    <3>1. m \in DOMAIN finished /\ finished'[m] = finished[m]
      <4>1. DOMAIN finished' = 1 .. Len(finished') /\ Len(finished') \in Nat
        BY LenProperties DEF TypeOK
      <4>2. DOMAIN finished = 1 .. Len(finished) /\ Len(finished) \in Nat
        BY <1>t, LenProperties
      <4> QED BY <2>2, <4>1, <4>2
    <3>2. CASE i = last
      <4>1. PICK j \in DOMAIN outbox : outbox[j] = finished[m]
        BY <3>1 DEF IInv, QueueInv, FinishedIsQueued
      <4> QED BY <2>1, <3>1, <3>2, <4>1
    <3>3. CASE i \in DOMAIN outbox
      <4>1. outbox'[i] = outbox[i]
        BY <3>3, <2>1
      <4>2. n \in DOMAIN finished /\ finished'[n] = finished[n]
        <5>1. PICK k \in DOMAIN finished : finished[k] = outbox[i]
          BY <3>3 DEF IInv, QueueInv, QueuedWasFinished
        <5> QED BY <5>1, <4>1, <2>2 DEF ToSet
      <4>3. PICK j \in DOMAIN outbox : j < i /\ outbox[j] = finished[m]
        BY <3>1, <3>3, <4>1, <4>2 DEF IInv, QueueInv, QueuedInOrder
      <4> QED BY <4>3, <3>1, <2>1
    <3> QED BY <3>2, <3>3, <2>1
  <2>8. NothingLost'
    BY <1>2, <1>u, <2>1 DEF IInv, NothingLost, ToSet
  <2>9. FinishHolds'
    BY <1>2, <1>t, <1>u, <2>2, OutboxAssumption DEF FinishHolds
  <2>10. DrainHolds' /\ SlotIsSession'
    BY <1>t, <1>u DEF IInv, DrainHolds, SlotIsSession
  <2> QED BY <2>3, <2>4, <2>5, <2>6, <2>7, <2>8, <2>9, <2>10 DEF IInv, QueueInv
<1> QED
  <2>1. finish'.pc = "queued" \/ finish' = NotFinishing
    BY DEF FinishSave, IInv, TypeOK
  <2> QED BY <1>1, <1>2, <1>t DEF FinishSave, IInv, TypeOK

(* StartDrain, Send and SendUnmade: nothing is settled by them.             *)
LEMMA DrainMovesInv ==
  ASSUME IInv, TypeOK', DrainBlocksPlay, StartDrain \/ Send \/ SendUnmade
  PROVE  IInv'
<1>q. UNCHANGED <<session, saved, outbox, finish, kept, finished, delivered, rejected>>
  BY DEF StartDrain, Send, SendUnmade, store, history
<1>1. QueueInv' /\ Settled' = Settled
  BY <1>q, QueueStays DEF IInv
<1>2. DrainHolds' /\ FinishHolds'
  <2>1. CASE StartDrain
    <3>1. /\ drain'.jobs = outbox /\ drain'.at = 1 /\ finish.pc = "none"
          /\ DOMAIN outbox = 1 .. Len(outbox)
      BY <2>1, LenProperties DEF StartDrain, MayDrain, IInv, TypeOK
    <3> QED BY <1>q, <3>1 DEF DrainHolds, FinishHolds
  <2>2. CASE Send
    <3>1. drain.pc = "sending" /\ drain'.jobs = drain.jobs /\ drain'.at = drain.at
      BY <2>2 DEF Send, Sending, IInv, TypeOK
    <3> QED BY <1>q, <1>1, <3>1 DEF IInv, DrainHolds, FinishHolds
  <2>3. CASE SendUnmade
    <3>1. drain.pc = "sending" /\ drain'.pc = "none"
      BY <2>3 DEF SendUnmade, Sending, NotDraining
    <3> QED BY <1>q, <3>1 DEF IInv, DrainHolds, FinishHolds
  <2> QED BY <2>1, <2>2, <2>3
<1> QED BY <1>q, <1>1, <1>2 DEF IInv, SlotIsSession, NothingLost

(* What a reply settles is settled already, or the first finished run that  *)
(* is not.                                                                  *)
LEMMA JobIsNext ==
  ASSUME IInv, drain.pc = "waiting"
  PROVE  /\ drain.at \in DOMAIN outbox /\ Job = outbox[drain.at]
         /\ \E n \in DOMAIN finished :
              /\ finished[n] = Job
              /\ \A m \in DOMAIN finished : m < n => finished[m] \in Settled
<1>1. /\ drain.jobs = outbox /\ drain.at \in 1 .. Len(outbox)
      /\ DOMAIN outbox = 1 .. Len(outbox)
  BY LenProperties DEF IInv, DrainHolds, TypeOK
<1>2. drain.at \in DOMAIN outbox /\ Job = outbox[drain.at]
  BY <1>1 DEF Job
<1>3. PICK n \in DOMAIN finished : finished[n] = Job
  BY <1>2 DEF IInv, QueueInv, QueuedWasFinished
<1>4. ASSUME NEW m \in DOMAIN finished, m < n
      PROVE  finished[m] \in Settled
  <2>1. \/ finished[m] \in Settled
        \/ \E j \in DOMAIN outbox : j < drain.at /\ outbox[j] = finished[m]
    BY <1>2, <1>3, <1>4 DEF IInv, QueueInv, QueuedInOrder
  <2> QED BY <2>1 DEF IInv, DrainHolds
<1> QED BY <1>2, <1>3, <1>4

(* A reply that settles a run settles the first that is pending.            *)
LEMMA NextIsSplit ==
  ASSUME IInv, drain.pc = "waiting", UNCHANGED finished,
         Settled' = Settled \cup {Job}, Settled' # Settled,
         NEW n \in 0 .. Len(finished), SplitsAt(n)
  PROVE  /\ n + 1 \in DOMAIN finished /\ finished[n + 1] = Job
         /\ n + 1 \in 0 .. Len(finished')
         /\ SplitsAt(n + 1)'
<1>1. PICK k \in DOMAIN finished :
        finished[k] = Job /\ \A m \in DOMAIN finished : m < k => finished[m] \in Settled
  BY JobIsNext
<1>2. DOMAIN finished = 1 .. Len(finished) /\ Len(finished) \in Nat
  BY LenProperties DEF IInv, TypeOK
<1>3. Job \notin Settled
  OBVIOUS
<1>4. k > n
  BY <1>1, <1>2, <1>3 DEF SplitsAt
<1>5. k <= n + 1
  <2>1. SUFFICES ASSUME k > n + 1
                 PROVE  FALSE
    BY <1>2
  <2>2. n + 1 \in DOMAIN finished /\ n + 1 < k
    BY <1>2, <2>1
  <2> QED BY <1>1, <2>2 DEF SplitsAt
<1>6. k = n + 1
  BY <1>2, <1>4, <1>5
<1>7. ASSUME NEW i \in DOMAIN finished
      PROVE  finished[i] \in Settled \cup {Job} <=> i <= n + 1
  <2>1. finished[i] = Job <=> i = n + 1
    BY <1>1, <1>6 DEF IInv, QueueInv, FinishedOnce
  <2> QED BY <1>2, <2>1 DEF SplitsAt
<1>8. n + 1 \in 0 .. Len(finished) /\ (n + 1)' = n + 1
  BY <1>1, <1>2, <1>6
<1> QED BY <1>1, <1>6, <1>7, <1>8 DEF SplitsAt

LEMMA ReplyInv ==
  ASSUME IInv, TypeOK', NEW result \in Results, Reply(result)
  PROVE  IInv'
<1>q. UNCHANGED <<session, saved, outbox, finish, kept, finished>> /\ drain.pc = "waiting"
  BY DEF Reply, store
<1>1. /\ Settled' = Settled \/ Settled' = Settled \cup {Job}
      /\ result # "unreachable" => Settled' = Settled \cup {Job}
  BY DEF Reply, Settled, Results
<1>2. /\ drain.at \in DOMAIN outbox /\ Job = outbox[drain.at]
      /\ \E n \in DOMAIN finished :
           /\ finished[n] = Job
           /\ \A m \in DOMAIN finished : m < n => finished[m] \in Settled
  BY <1>q, JobIsNext
<1>3. QueuedWasFinished' /\ FinishedIsQueued' /\ QueuedInOrder' /\ FinishedOnce'
  BY <1>q, <1>1 DEF IInv, QueueInv, QueuedWasFinished, FinishedIsQueued, QueuedInOrder, FinishedOnce
<1>4. SettledWasFinished'
  BY <1>q, <1>1, <1>2 DEF IInv, QueueInv, SettledWasFinished
<1>5. SettledInOrder'
  <2>1. PICK n \in 0 .. Len(finished) : SplitsAt(n)
    BY DEF IInv, QueueInv, SettledInOrder
  <2>2. CASE Settled' = Settled
    BY <1>q, <2>1, <2>2 DEF SettledInOrder, SplitsAt
  <2>3. CASE Settled' # Settled
    <3>1. n + 1 \in 0 .. Len(finished') /\ SplitsAt(n + 1)'
      BY <1>q, <1>1, <2>1, <2>3, NextIsSplit
    <3> QED BY <3>1 DEF SettledInOrder, SplitsAt
  <2> QED BY <2>2, <2>3
<1>6. DrainHolds'
  <2>1. drain'.jobs = drain.jobs /\ drain.jobs = outbox
    BY <1>q DEF Reply, IInv, TypeOK, DrainHolds
  <2>2. DOMAIN outbox \subseteq Int /\ drain.at \in Int
    BY <1>q, LenProperties DEF IInv, TypeOK
  <2>3. \A i \in DOMAIN outbox : i < drain.at => outbox[i] \in Settled
    BY <1>q DEF IInv, DrainHolds
  <2>4. CASE result = "unreachable"
    <3>1. drain'.at = drain.at
      BY <2>4 DEF Reply, IInv, TypeOK
    <3> QED BY <1>q, <1>1, <2>1, <2>3, <3>1 DEF DrainHolds
  <2>5. CASE result # "unreachable"
    <3>1. drain'.at = drain.at + 1
      BY <2>5 DEF Reply, IInv, TypeOK
    <3>2. \A i \in DOMAIN outbox : i < drain.at + 1 => i < drain.at \/ i = drain.at
      BY <2>2
    <3> QED BY <1>q, <1>1, <1>2, <2>1, <2>3, <2>5, <3>1, <3>2 DEF DrainHolds
  <2> QED BY <2>4, <2>5
<1>7. FinishHolds'
  BY <1>q DEF IInv, FinishHolds
<1>8. SlotIsSession' /\ NothingLost'
  BY <1>q, <1>1 DEF IInv, SlotIsSession, NothingLost
<1> QED BY <1>3, <1>4, <1>5, <1>6, <1>7, <1>8 DEF IInv, QueueInv

(* What a Drain leaves is what follows the last run it settled.             *)
LEMMA DrainSaveInv ==
  ASSUME IInv, TypeOK', DrainSave
  PROVE  IInv'
<1>q. /\ UNCHANGED <<session, saved, finish, kept, finished, delivered, rejected>>
      /\ drain.pc # "none" /\ drain'.pc = "none"
  BY DEF DrainSave, DrainEnds, history, NotDraining
<1>u. Settled' = Settled
  BY <1>q DEF Settled
<1>1. DrainHolds' /\ FinishHolds' /\ SlotIsSession'
  BY <1>q DEF IInv, DrainHolds, FinishHolds, SlotIsSession
<1>2. CASE UNCHANGED outbox
  BY <1>q, <1>1, <1>2, <1>u, QueueStays DEF IInv, NothingLost
<1>3. CASE outbox' = SubSeq(drain.jobs, drain.at, Len(drain.jobs))
  <2> DEFINE at == drain.at
  <2>1. /\ drain.jobs = outbox /\ outbox \in Seq(Runs) /\ at \in Nat \ {0}
        /\ at <= Len(outbox) + 1
        /\ \A i \in DOMAIN outbox : i < at => outbox[i] \in Settled
    BY <1>q DEF IInv, TypeOK, DrainHolds
  <2>2. /\ DOMAIN outbox = 1 .. Len(outbox) /\ Len(outbox) \in Nat
        /\ DOMAIN outbox' = 1 .. Len(outbox) - at + 1
        /\ \A i \in DOMAIN outbox' : outbox'[i] = outbox[at + i - 1]
    BY <1>3, <2>1, SuffixPlaces
  <2>3. /\ \A i \in DOMAIN outbox' : at + i - 1 \in DOMAIN outbox
        /\ \A i \in DOMAIN outbox : i >= at => /\ i - at + 1 \in DOMAIN outbox'
                                            /\ outbox'[i - at + 1] = outbox[i]
    <3>1. \A i \in DOMAIN outbox' : at + i - 1 \in DOMAIN outbox
      BY <2>1, <2>2
    <3>2. ASSUME NEW i \in DOMAIN outbox, i >= at
          PROVE  i - at + 1 \in DOMAIN outbox' /\ outbox'[i - at + 1] = outbox[i]
      <4>1. i - at + 1 \in DOMAIN outbox' /\ at + (i - at + 1) - 1 = i
        BY <2>1, <2>2, <3>2
      <4> QED BY <2>2, <4>1
    <3> QED BY <3>1, <3>2
  <2> HIDE DEF at
  <2>4. QueuedWasFinished'
    BY <1>q, <2>2, <2>3 DEF IInv, QueueInv, QueuedWasFinished
  <2>5. \A i \in DOMAIN outbox : outbox[i] \in Settled \/ \E j \in DOMAIN outbox' : outbox'[j] = outbox[i]
    BY <2>1, <2>2, <2>3
  <2>6. FinishedIsQueued'
    <3> SUFFICES ASSUME NEW n \in DOMAIN finished, finished[n] \notin Settled
                 PROVE  \E j \in DOMAIN outbox' : outbox'[j] = finished[n]
      BY <1>q, <1>u DEF FinishedIsQueued
    <3>1. PICK i \in DOMAIN outbox : outbox[i] = finished[n]
      BY DEF IInv, QueueInv, FinishedIsQueued
    <3> QED BY <3>1, <2>5
  <2>7. QueuedInOrder'
    <3> SUFFICES ASSUME NEW i \in DOMAIN outbox', NEW m \in DOMAIN finished,
                        NEW n \in DOMAIN finished, outbox'[i] = finished[n], m < n,
                        finished[m] \notin Settled
                 PROVE  \E j \in DOMAIN outbox' : j < i /\ outbox'[j] = finished[m]
      BY <1>q, <1>u DEF QueuedInOrder
    <3>1. at + i - 1 \in DOMAIN outbox /\ outbox[at + i - 1] = finished[n]
      BY <2>2, <2>3
    <3>2. PICK j \in DOMAIN outbox : j < at + i - 1 /\ outbox[j] = finished[m]
      BY <3>1 DEF IInv, QueueInv, QueuedInOrder
    <3>3. j >= at
      BY <2>1, <2>2, <3>2
    <3>4. j - at + 1 \in DOMAIN outbox' /\ outbox'[j - at + 1] = finished[m]
      BY <2>3, <3>2, <3>3
    <3>5. j - at + 1 < i
      BY <2>1, <2>2, <3>2
    <3> QED BY <3>4, <3>5
  <2>8. FinishedOnce' /\ SettledWasFinished' /\ SettledInOrder'
    BY <1>q, <1>u DEF IInv, QueueInv, FinishedOnce, SettledWasFinished, SettledInOrder,
                       SplitsAt
  <2>9. NothingLost'
    BY <1>q, <1>u, <2>5 DEF IInv, NothingLost, ToSet
  <2> QED BY <1>1, <2>4, <2>6, <2>7, <2>8, <2>9 DEF IInv, QueueInv
<1> QED BY <1>2, <1>3 DEF DrainSave

(* A killed client loses its memory and, for its writes are whole, nothing  *)
(* else.                                                                    *)
LEMMA KillInv ==
  ASSUME IInv, TypeOK', ~TornWrites, Kill
  PROVE  IInv'
<1>q. /\ UNCHANGED <<saved, outbox, kept, finished, delivered, rejected>>
      /\ session' = None /\ finish'.pc = "none" /\ drain'.pc = "none"
  BY DEF Kill, store, history, NotFinishing, NotDraining
<1>1. QueueInv' /\ Settled' = Settled
  BY <1>q, QueueStays DEF IInv
<1> QED BY <1>q, <1>1 DEF IInv, SlotIsSession, FinishHolds, DrainHolds, NothingLost

THEOREM Invariance ==
  ASSUME DrainBlocksPlay, ~TornWrites
  PROVE  Spec => []IInv
<1>1. Init => IInv
  BY OutboxAssumption
     DEF Init, IInv, TypeOK, NotFinishing, NotDraining, SlotIsSession, FinishHolds, DrainHolds,
         QueueInv, QueuedWasFinished, FinishedIsQueued, QueuedInOrder, FinishedOnce,
         SettledWasFinished, SettledInOrder, SplitsAt, Settled, NothingLost
<1>2. IInv /\ TypeOK' /\ [Next]_vars => IInv'
  <2>1. ASSUME IInv, UNCHANGED vars
        PROVE  IInv'
    <3>1. QueueInv' /\ Settled' = Settled
      BY <2>1, QueueStays DEF IInv, vars, memory, store, history
    <3> QED BY <2>1, <3>1 DEF IInv, TypeOK, SlotIsSession, FinishHolds, DrainHolds, NothingLost,
                              vars, memory, store, history, bounds
  <2>2. IInv /\ TypeOK' /\ Queue => IInv'
    BY FinishLoadInv, FinishSaveInv, FinishClearInv DEF Queue
  <2>3. IInv /\ TypeOK' /\ Drain => IInv'
    BY DrainMovesInv, ReplyInv, DrainSaveInv DEF Drain
  <2> QED BY <2>1, <2>2, <2>3, PlayInv, KillInv DEF Next
<1> QED BY <1>1, <1>2, TypeCorrect, PTL DEF Spec

(* A run that was saved once is in the store until the server has taken or  *)
(* refused it, whenever the tab is closed and whatever save fails.          *)
THEOREM NothingIsEverLost ==
  ASSUME DrainBlocksPlay, ~TornWrites
  PROVE  Spec => []NothingLost
<1>1. IInv => NothingLost
  BY DEF IInv
<1> QED BY <1>1, Invariance, PTL

(* The outbox is durable (queue.go's "survives a closed tab or a killed     *)
(* process"), where no Drain saves over a run queued since.                 *)
THEOREM QueuedAlwaysSurvives ==
  ASSUME DrainBlocksPlay, ~TornWrites
  PROVE  Spec => []QueuedSurvives
<1>1. IInv => QueuedSurvives
  BY DEF IInv, QueueInv, FinishedIsQueued, QueuedSurvives, ToSet
<1> QED BY <1>1, Invariance, PTL

----------------------------------------------------------------------------
(* The refinement: SettledInTurn splits the finished runs into those that   *)
(* are settled and those that are pending.                                  *)
SplitInTurn ==
  /\ SettledInTurn \in 0 .. Len(finished)
  /\ \A i \in DOMAIN finished : finished[i] \in Settled <=> i <= SettledInTurn

LEMMA SplitIsInTurn == IInv => SplitInTurn
<1> SUFFICES ASSUME IInv
             PROVE  SplitInTurn
  OBVIOUS
<1> DEFINE InTurn(n) == /\ \A i \in 1 .. n : finished[i] \in Settled
                        /\ n < Len(finished) => finished[n + 1] \notin Settled
<1>1. DOMAIN finished = 1 .. Len(finished) /\ Len(finished) \in Nat
  BY LenProperties DEF IInv, TypeOK
<1>2. PICK n \in 0 .. Len(finished) : SplitsAt(n)
  BY DEF IInv, QueueInv, SettledInOrder
<1>3. ASSUME NEW k \in 0 .. Len(finished), SplitsAt(k)
      PROVE  InTurn(k)
  BY <1>1, <1>3 DEF SplitsAt
<1>4. SettledInTurn \in 0 .. Len(finished) /\ InTurn(SettledInTurn)
  BY <1>2, <1>3 DEF SettledInTurn
<1>5. ASSUME NEW k \in 0 .. Len(finished), SplitsAt(k)
      PROVE  k = SettledInTurn
  <2>1. ~(k < SettledInTurn)
    <3>1. SUFFICES ASSUME k < SettledInTurn
                   PROVE  FALSE
      OBVIOUS
    <3>2. k + 1 \in 1 .. SettledInTurn /\ k + 1 \in DOMAIN finished
      BY <1>1, <1>4, <3>1
    <3> QED BY <1>1, <1>4, <1>5, <3>2 DEF SplitsAt
  <2>2. ~(SettledInTurn < k)
    <3>1. SUFFICES ASSUME SettledInTurn < k
                   PROVE  FALSE
      OBVIOUS
    <3>2. SettledInTurn + 1 \in DOMAIN finished /\ SettledInTurn + 1 <= k /\ SettledInTurn < Len(finished)
      BY <1>1, <1>4, <3>1
    <3> QED BY <1>4, <1>5, <3>2 DEF SplitsAt
  <2> QED BY <1>1, <1>4, <2>1, <2>2
<1> QED BY <1>2, <1>5 DEF SplitInTurn, SplitsAt

(* The pending runs, place by place.                                        *)
PendingIsTheRest ==
  /\ Pending \in Seq(Runs)
  /\ Len(Pending) = Len(finished) - SettledInTurn
  /\ DOMAIN Pending = 1 .. Len(finished) - SettledInTurn
  /\ \A i \in DOMAIN Pending : Pending[i] = finished[SettledInTurn + i]
  /\ DOMAIN finished = 1 .. Len(finished)
  /\ Len(finished) \in Nat
  /\ SplitInTurn

LEMMA PendingPlaces == IInv => PendingIsTheRest
<1> SUFFICES ASSUME IInv
             PROVE  PendingIsTheRest
  OBVIOUS
<1> DEFINE n == SettledInTurn
<1>1. n \in 0 .. Len(finished)
  BY SplitIsInTurn DEF SplitInTurn
<1>2. finished \in Seq(Runs) /\ Len(finished) \in Nat
  BY LenProperties DEF IInv, TypeOK
<1>3. n + 1 \in Nat \ {0} /\ n + 1 <= Len(finished) + 1
  BY <1>1, <1>2
<1> HIDE DEF n
<1>4. /\ Pending \in Seq(Runs) /\ Len(Pending) = Len(finished) - (n + 1) + 1
      /\ DOMAIN Pending = 1 .. Len(finished) - (n + 1) + 1
      /\ \A i \in 1 .. Len(finished) - (n + 1) + 1 : Pending[i] = finished[(n + 1) + i - 1]
      /\ DOMAIN finished = 1 .. Len(finished)
  BY <1>2, <1>3, SuffixPlaces DEF Pending, n
<1>5. Len(finished) - (n + 1) + 1 = Len(finished) - n
  BY <1>1, <1>2
<1>6. \A i \in 1 .. Len(finished) - n : (n + 1) + i - 1 = n + i
  BY <1>1, <1>2
<1> QED BY <1>1, <1>2, <1>4, <1>5, <1>6, SplitIsInTurn DEF n, PendingIsTheRest

LEMMA PendingPlacesNext == IInv' => PendingIsTheRest'
BY PendingPlaces, PTL

(* Nothing is accepted or settled by a step that leaves both lists alone.   *)
LEMMA PromiseStutters ==
  ASSUME UNCHANGED <<finished, delivered, rejected>>
  PROVE  UNCHANGED <<Pending, Settled>>
BY DEF Pending, Settled, SettledInTurn

(* Enqueue of a run not finished before accepts it.                         *)
LEMMA EnqueueAccepts ==
  ASSUME IInv, IInv', UNCHANGED <<delivered, rejected>>, session \in Runs,
         session \notin ToSet(finished), finished' = Append(finished, session)
  PROVE  Promise!Accept(session)
<1> DEFINE n == SettledInTurn
<1>s. Settled' = Settled
  BY DEF Settled
<1>1. finished \in Seq(Runs)
  BY DEF IInv, TypeOK
<1>2. /\ Len(finished') = Len(finished) + 1
      /\ \A i \in DOMAIN finished : finished'[i] = finished[i]
      /\ finished'[Len(finished) + 1] = session
  BY <1>1, AppendPlaces
<1>p. PendingIsTheRest /\ PendingIsTheRest'
  BY PendingPlaces, PendingPlacesNext
<1>3. /\ n \in 0 .. Len(finished) /\ Len(finished) \in Nat
      /\ \A i \in DOMAIN finished : finished[i] \in Settled <=> i <= n
      /\ DOMAIN finished = 1 .. Len(finished) /\ DOMAIN finished' = 1 .. Len(finished) + 1
  BY <1>p, <1>2 DEF PendingIsTheRest, SplitInTurn
<1>4. session \notin Settled
  BY DEF IInv, QueueInv, SettledWasFinished, ToSet
<1>5. SettledInTurn' = n
  <2>1. \A i \in DOMAIN finished' : finished'[i] \in Settled <=> i <= n
    BY <1>2, <1>3, <1>4
  <2>2. SettledInTurn' \in 0 .. Len(finished')
        /\ \A i \in DOMAIN finished' : finished'[i] \in Settled <=> i <= SettledInTurn'
    BY <1>p, <1>s DEF PendingIsTheRest, SplitInTurn
  <2> HIDE DEF n
  <2>3. \A i \in DOMAIN finished' : i <= n <=> i <= SettledInTurn'
    BY <2>1, <2>2
  <2>4. n \in 0 .. Len(finished) + 1 /\ SettledInTurn' \in 0 .. Len(finished) + 1
    BY <1>2, <1>3, <2>2 DEF n
  <2> QED BY <2>3, <2>4, <1>3
<1>6. Pending' = Append(Pending, session)
  <2>1. Pending \in Seq(Runs) /\ Pending' \in Seq(Runs)
    BY <1>p DEF PendingIsTheRest
  <2>2. /\ Append(Pending, session) \in Seq(Runs)
        /\ Len(Append(Pending, session)) = Len(Pending) + 1
        /\ \A i \in DOMAIN Pending : Append(Pending, session)[i] = Pending[i]
        /\ Append(Pending, session)[Len(Pending) + 1] = session
    BY <2>1, AppendPlaces
  <2>3. /\ Len(Pending) = Len(finished) - n /\ DOMAIN Pending = 1 .. Len(finished) - n
        /\ \A i \in DOMAIN Pending : Pending[i] = finished[n + i]
        /\ Len(Pending') = Len(finished') - n /\ DOMAIN Pending' = 1 .. Len(finished') - n
        /\ \A i \in DOMAIN Pending' : Pending'[i] = finished'[n + i]
    BY <1>p, <1>5 DEF PendingIsTheRest
  <2> HIDE DEF n
  <2>4. Len(Pending') = Len(Append(Pending, session))
    BY <1>2, <1>3, <2>2, <2>3 DEF n
  <2>5. ASSUME NEW i \in 1 .. Len(Pending')
        PROVE  Pending'[i] = Append(Pending, session)[i]
    <3>0. n \in Nat /\ n <= Len(finished)
      BY <1>3 DEF n
    <3>1. i \in DOMAIN Pending' /\ Pending'[i] = finished'[n + i]
      BY <2>3
    <3>2. CASE i \in DOMAIN Pending
      <4>1. n + i \in DOMAIN finished
        BY <1>3, <2>3, <3>0, <3>2
      <4> QED BY <4>1, <1>2, <2>2, <2>3, <3>1, <3>2
    <3>3. CASE i \notin DOMAIN Pending
      <4>1. i = Len(Pending) + 1 /\ n + i = Len(finished) + 1
        BY <1>2, <1>3, <2>3, <3>0, <3>3
      <4> QED BY <4>1, <1>2, <2>2, <3>1
    <3> QED BY <3>2, <3>3
  <2> QED BY <2>1, <2>2, <2>4, <2>5, SeqEqual
<1>7. session \notin ToSet(Pending)
  <2>1. \A i \in DOMAIN Pending : n + i \in DOMAIN finished
    BY <1>p, <1>3 DEF PendingIsTheRest
  <2> QED BY <2>1, <1>p DEF PendingIsTheRest, ToSet
<1> QED BY <1>s, <1>4, <1>6, <1>7 DEF Promise!Accept, Promise!ToSet, ToSet

(* A reply that settles a run settles the first that is pending.            *)
LEMMA ReplySettles ==
  ASSUME IInv, IInv', UNCHANGED finished, drain.pc = "waiting",
         Settled' = Settled \cup {Job}, Settled' # Settled
  PROVE  Promise!Settle
<1> DEFINE n == SettledInTurn
<1>p. PendingIsTheRest /\ PendingIsTheRest'
  BY PendingPlaces, PendingPlacesNext
<1>1. /\ n \in 0 .. Len(finished) /\ Len(finished) \in Nat
      /\ \A i \in DOMAIN finished : finished[i] \in Settled <=> i <= n
      /\ DOMAIN finished = 1 .. Len(finished)
  BY <1>p DEF PendingIsTheRest, SplitInTurn
<1>2. /\ n + 1 \in DOMAIN finished /\ finished[n + 1] = Job
      /\ \A i \in DOMAIN finished : finished[i] \in Settled' <=> i <= n + 1
  <2>1. PICK k \in 0 .. Len(finished) : k = n
    BY <1>1
  <2>2. SplitsAt(k)
    BY <1>1, <2>1 DEF SplitsAt
  <2>3. k + 1 \in DOMAIN finished /\ finished[k + 1] = Job /\ SplitsAt(k + 1)'
    BY <2>2, NextIsSplit
  <2> QED BY <2>1, <2>3 DEF SplitsAt
<1>3. SettledInTurn' = n + 1
  <2>1. SettledInTurn' \in 0 .. Len(finished)
        /\ \A i \in DOMAIN finished : finished[i] \in Settled' <=> i <= SettledInTurn'
    BY <1>p DEF PendingIsTheRest, SplitInTurn
  <2> HIDE DEF n
  <2>2. \A i \in DOMAIN finished : i <= n + 1 <=> i <= SettledInTurn'
    BY <1>2, <2>1
  <2>3. n + 1 \in 1 .. Len(finished)
    BY <1>1, <1>2 DEF n
  <2>4. SettledInTurn' >= n + 1
    BY <1>1, <2>2, <2>3
  <2>5. ~(SettledInTurn' > n + 1)
    BY <1>1, <2>1, <2>2, <2>3
  <2> QED BY <2>1, <2>3, <2>4, <2>5
<1>4. /\ Pending \in Seq(Runs) /\ Pending' \in Seq(Runs)
      /\ Len(Pending) = Len(finished) - n /\ DOMAIN Pending = 1 .. Len(finished) - n
      /\ \A i \in DOMAIN Pending : Pending[i] = finished[n + i]
      /\ Len(Pending') = Len(finished) - (n + 1)
      /\ DOMAIN Pending' = 1 .. Len(finished) - (n + 1)
      /\ \A i \in DOMAIN Pending' : Pending'[i] = finished[(n + 1) + i]
  BY <1>p, <1>3 DEF PendingIsTheRest
<1> HIDE DEF n
<1>5. n \in Nat /\ n + 1 <= Len(finished)
  BY <1>1, <1>2 DEF n
<1>6. Pending # <<>>
  BY <1>1, <1>4, <1>5 DEF n
<1>7. Head(Pending) = Job
  <2>1. 1 \in DOMAIN Pending /\ Pending[1] = finished[n + 1]
    BY <1>1, <1>4, <1>5 DEF n
  <2> QED BY <2>1, <1>2, <1>4, <1>6, HeadTailProperties DEF n
<1>8. Pending' = Tail(Pending)
  <2>1. /\ Tail(Pending) \in Seq(Runs) /\ Len(Tail(Pending)) = Len(Pending) - 1
        /\ \A i \in 1 .. Len(Tail(Pending)) : Tail(Pending)[i] = Pending[i + 1]
    BY <1>4, <1>6, HeadTailProperties
  <2>2. Len(Pending') = Len(Tail(Pending))
    <3>1. Len(finished) - (n + 1) = (Len(finished) - n) - 1
      BY <1>1, <1>5
    <3> QED BY <1>4, <2>1, <3>1
  <2>3. ASSUME NEW i \in 1 .. Len(Pending')
        PROVE  Pending'[i] = Tail(Pending)[i]
    <3>1. Tail(Pending)[i] = Pending[i + 1]
      BY <2>1, <2>2
    <3>2. i \in DOMAIN Pending' /\ i + 1 \in DOMAIN Pending /\ (n + 1) + i = n + (i + 1)
      BY <1>1, <1>4, <1>5
    <3> QED BY <3>1, <3>2, <1>4
  <2> QED BY <1>4, <2>1, <2>2, <2>3, SeqEqual
<1> QED BY <1>6, <1>7, <1>8 DEF Promise!Settle

LEMMA StepIsPromised ==
  ASSUME IInv, IInv', DrainBlocksPlay, [Next]_vars
  PROVE  [Promise!Next]_<<Pending, Settled>>
<1>1. CASE UNCHANGED <<finished, delivered, rejected>>
  BY <1>1, PromiseStutters
<1>2. CASE FinishSave
  <2>1. session \in Runs /\ UNCHANGED <<delivered, rejected>>
    BY <1>2 DEF FinishSave, IInv, TypeOK
  <2>2. CASE session \notin ToSet(finished) /\ finished' = Append(finished, session)
    BY <2>1, <2>2, EnqueueAccepts DEF Promise!Next
  <2>3. CASE UNCHANGED finished
    BY <2>1, <2>3, PromiseStutters
  <2> QED BY <1>2, <2>2, <2>3 DEF FinishSave
<1>3. ASSUME NEW result \in Results, Reply(result)
      PROVE  [Promise!Next]_<<Pending, Settled>>
  <2>1. /\ drain.pc = "waiting" /\ UNCHANGED finished
        /\ \/ Settled' = Settled /\ UNCHANGED <<delivered, rejected>>
           \/ Settled' = Settled \cup {Job}
    BY <1>3 DEF Reply, Settled, Results
  <2>2. CASE Settled' = Settled
    <3>1. UNCHANGED <<Pending, Settled>>
      BY <2>1, <2>2 DEF Pending, SettledInTurn
    <3> QED BY <3>1
  <2>3. CASE Settled' # Settled
    BY <2>1, <2>3, ReplySettles DEF Promise!Next
  <2> QED BY <2>2, <2>3
<1>4. CASE Play
  BY <1>4, <1>1 DEF Play, StartRun, ResumeRun, RecordAttempt, history
<1>5. CASE FinishLoad \/ FinishClear
  BY <1>5, <1>1 DEF FinishLoad, FinishClear, history
<1>6. CASE StartDrain \/ Send \/ SendUnmade \/ DrainSave
  BY <1>6, <1>1 DEF StartDrain, Send, SendUnmade, DrainSave, history
<1>7. CASE Kill \/ UNCHANGED vars
  BY <1>7, <1>1 DEF Kill, vars, history
<1> QED BY <1>2, <1>3, <1>4, <1>5, <1>6, <1>7 DEF Next, Queue, Drain

(* The outbox implements Courier: the runs a child finished are settled one *)
(* by one in the order they were finished, each of them once, with none     *)
(* skipped and none dropped, across closed tabs, lost replies and failed    *)
(* saves.                                                                   *)
THEOREM KeepsPromise ==
  ASSUME DrainBlocksPlay, ~TornWrites
  PROVE  Spec => ImplementsCourier
<1>1. Init => Promise!Init
  <2> SUFFICES ASSUME Init
               PROVE  Promise!Init
    OBVIOUS
  <2>1. finished = <<>> /\ Settled = {}
    BY DEF Init, Settled
  <2>2. Pending \in Seq(Runs) /\ Len(Pending) = 0
    <3>1. SettledInTurn = 0
      BY <2>1 DEF SettledInTurn
    <3>2. finished \in Seq(Runs) /\ Len(finished) = 0
      BY <2>1
    <3> QED BY <3>1, <3>2, SuffixPlaces DEF Pending
  <2> QED BY <2>1, <2>2 DEF Promise!Init
<1>2. IInv /\ IInv' /\ [Next]_vars => [Promise!Next]_<<Pending, Settled>>
  BY StepIsPromised
<1> QED BY <1>1, <1>2, Invariance, PTL DEF Spec, ImplementsCourier, Promise!Spec
=============================================================================
