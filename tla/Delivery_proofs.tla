--------------------------- MODULE Delivery_proofs ---------------------------
(***************************************************************************)
(* Theorems about Delivery, for any number of runs, of requests, of faults, *)
(* of kills and of losses: its client is the one of Outbox, its server the  *)
(* one of RunFinish, and what the client believes of a run is what the      *)
(* server did.                                                              *)
(***************************************************************************)
EXTENDS Delivery, TLAPS

O == INSTANCE Outbox_proofs
  WITH DrainBlocksPlay <- TRUE, TornWrites <- FALSE, MaxSaveFailures <- 0

LEMMA ClientActions ==
  /\ Client!Init <=> O!Init
  /\ Client!Play <=> O!Play
  /\ Client!Queue <=> O!Queue
  /\ Client!StartDrain <=> O!StartDrain
  /\ Client!Send <=> O!Send
  /\ \A result \in O!Results : Client!Reply(result) <=> O!Reply(result)
  /\ Client!DrainSave <=> O!DrainSave
  /\ Client!Kill <=> O!Kill
  /\ Client!Job = O!Job
  /\ \A status : Client!ResultOf(status) = O!ResultOf(status)
<1>1. Client!Init <=> O!Init
  BY DEF Client!Init, O!Init, Client!NotFinishing, O!NotFinishing,
         Client!NotDraining, O!NotDraining
<1>2. Client!Play <=> O!Play
  <2>1. \A r \in Runs : Client!StartRun(r) <=> O!StartRun(r)
    BY DEF Client!StartRun, O!StartRun, Client!store, O!store, Client!bounds, O!bounds
  <2>2. Client!ResumeRun <=> O!ResumeRun
    BY DEF Client!ResumeRun, O!ResumeRun, Client!store, O!store, Client!bounds, O!bounds,
           Client!history, O!history
  <2>3. Client!RecordAttempt <=> O!RecordAttempt
    BY DEF Client!RecordAttempt, O!RecordAttempt, Client!SaveFails, O!SaveFails,
           Client!memory, O!memory
  <2> QED BY <2>1, <2>2, <2>3 DEF Client!Play, O!Play
<1>3. Client!Queue <=> O!Queue
  <2>1. Client!FinishLoad <=> O!FinishLoad
    BY DEF Client!FinishLoad, O!FinishLoad, Client!MayFinish, O!MayFinish,
           Client!store, O!store, Client!bounds, O!bounds, Client!history, O!history
  <2>2. Client!FinishSave <=> O!FinishSave
    BY DEF Client!FinishSave, O!FinishSave, Client!MayFinish, O!MayFinish,
           Client!SaveFails, O!SaveFails, Client!NotFinishing, O!NotFinishing,
           Client!ToSet, O!ToSet
  <2>3. Client!FinishClear <=> O!FinishClear
    BY DEF Client!FinishClear, O!FinishClear, Client!MayFinish, O!MayFinish,
           Client!SaveFails, O!SaveFails, Client!NotFinishing, O!NotFinishing,
           Client!history, O!history
  <2> QED BY <2>1, <2>2, <2>3 DEF Client!Queue, O!Queue
<1>4. Client!StartDrain <=> O!StartDrain
  BY DEF Client!StartDrain, O!StartDrain, Client!MayDrain, O!MayDrain,
         Client!store, O!store, Client!bounds, O!bounds, Client!history, O!history
<1>5. Client!Send <=> O!Send
  BY DEF Client!Send, O!Send, Client!Sending, O!Sending,
         Client!store, O!store, Client!bounds, O!bounds, Client!history, O!history
<1>6. Client!Job = O!Job
  BY DEF Client!Job, O!Job
<1>7. \A result \in O!Results : Client!Reply(result) <=> O!Reply(result)
  BY <1>6 DEF Client!Reply, O!Reply, Client!store, O!store, Client!bounds, O!bounds
<1>8. Client!DrainSave <=> O!DrainSave
  BY DEF Client!DrainSave, O!DrainSave, Client!DrainEnds, O!DrainEnds,
         Client!Sending, O!Sending, Client!SaveFails, O!SaveFails,
         Client!NotDraining, O!NotDraining, Client!history, O!history
<1>9. Client!Kill <=> O!Kill
  BY DEF Client!Kill, O!Kill, Client!DrainEnds, O!DrainEnds,
         Client!Sending, O!Sending, Client!NotDraining, O!NotDraining,
         Client!NotFinishing, O!NotFinishing, Client!history, O!history,
         Client!store, O!store
<1>10. \A status : Client!ResultOf(status) = O!ResultOf(status)
  BY DEF Client!ResultOf, O!ResultOf
<1> QED BY <1>1, <1>2, <1>3, <1>4, <1>5, <1>6, <1>7, <1>8, <1>9, <1>10

(* What becomes of a step of the composition: the client takes a step of    *)
(* Outbox, or none.                                                         *)
LEMMA DeliverySteps ==
  ASSUME [Next]_vars
  PROVE  [O!Next]_O!vars
<1>1. O!Results = Client!Results /\ "unreachable" \in O!Results
      /\ \A status : O!ResultOf(status) \in O!Results
  BY DEF O!Results, Client!Results, O!ResultOf
<1>2. CASE UNCHANGED clientVars
  BY <1>2 DEF clientVars, O!vars, O!memory, O!store, O!history, O!bounds
<1>3. CASE Client!Play \/ Client!Queue
  BY <1>3, ClientActions DEF O!Next
<1>4. CASE Client!StartDrain \/ Client!Send \/ Client!DrainSave
  BY <1>4, ClientActions DEF O!Next, O!Drain
<1>5. ASSUME NEW result \in O!Results, Client!Reply(result)
      PROVE  O!Next
  BY <1>5, ClientActions DEF O!Next, O!Drain
<1>6. CASE Client!Kill
  BY <1>6, ClientActions DEF O!Next
<1>7. CASE Answer
  BY <1>1, <1>5, <1>7, ClientActions DEF Answer
<1>8. CASE TimeOut
  BY <1>1, <1>5, <1>8 DEF TimeOut
<1>9. CASE UNCHANGED vars
  BY <1>2, <1>9 DEF vars
<1> QED
  BY <1>2, <1>3, <1>4, <1>6, <1>7, <1>8, <1>9
     DEF Next, ClientDrains, Alone, Send, SendLost, Kill, Serve,
         AnswerUnheard, Restart

(* The client of the composition is the one Outbox describes, so that all   *)
(* that is proved of Outbox holds of it, whatever the server answers and    *)
(* whatever the network loses.                                              *)
THEOREM DeliveryRunsOutbox == Spec => O!Spec
<1>1. Init => O!Init
  BY ClientActions DEF Init
<1>2. [Next]_vars => [O!Next]_O!vars
  BY DeliverySteps
<1> QED BY <1>1, <1>2, PTL DEF Spec, O!Spec

----------------------------------------------------------------------------
(* What the server of a delivery keeps: who is past MarkApplied, or answers *)
(* that the run is spent, finishes a run that is.                           *)
RequestsOK ==
  /\ pc \in [Requests -> Server!Steps]
  /\ run \in [Requests -> Runs \cup {None}]
  /\ \A q \in Requests : pc[q] # "idle" => run[q] \in Runs
  /\ code \in [Requests -> Server!Codes]

AnswersTruly ==
  /\ \A q \in Requests : Server!Writing(q) => applied[run[q]]
  /\ \A q \in Requests : pc[q] = "answer" /\ code[q] \in {"200", "409"} => applied[run[q]]

ServerInv == applied \in [Runs -> BOOLEAN] /\ RequestsOK /\ AnswersTruly

(* What a step of the server leaves: a request finishes the run it arrived  *)
(* with, and a run that is granted stays granted.                           *)
RunsStay == \A q \in Requests : pc'[q] # "idle" => pc[q] # "idle" /\ run'[q] = run[q]

GrantsStay == \A r \in Runs : applied[r] => applied'[r]

LEMMA AnswerStep ==
  ASSUME ServerInv, NEW q \in Requests, pc[q] # "idle", UNCHANGED applied,
         NEW status \in Server!Codes, Server!Answers(q, status),
         status \in {"200", "409"} => applied[run[q]]
  PROVE  ServerInv' /\ RunsStay
<1>1. RequestsOK'
  <2>1. "answer" \in Server!Steps
    BY DEF Server!Steps
  <2> QED BY <2>1 DEF RequestsOK, Server!Answers, ServerInv
<1>2. pc' = [pc EXCEPT ![q] = "answer"] /\ code' = [code EXCEPT ![q] = status] /\ run' = run
  BY DEF Server!Answers
<1>3. AnswersTruly'
  BY <1>2 DEF AnswersTruly, Server!Writing, ServerInv, RequestsOK
<1>4. RunsStay
  BY <1>2 DEF RunsStay, ServerInv, RequestsOK
<1> QED BY <1>1, <1>3, <1>4 DEF ServerInv

LEMMA GoStep ==
  ASSUME ServerInv, NEW q \in Requests, pc[q] # "idle", UNCHANGED applied,
         NEW step \in Server!Steps \ {"idle", "answer"}, Server!GoesTo(q, step),
         step \in {"saveChild", "saveWords"} => applied[run[q]]
  PROVE  ServerInv' /\ RunsStay
<1>1. pc' = [pc EXCEPT ![q] = step] /\ code' = code /\ run' = run
  BY DEF Server!GoesTo
<1>2. RequestsOK'
  BY <1>1 DEF RequestsOK, ServerInv
<1>3. AnswersTruly'
  BY <1>1 DEF AnswersTruly, Server!Writing, ServerInv, RequestsOK
<1>4. RunsStay
  BY <1>1 DEF RunsStay, ServerInv, RequestsOK
<1> QED BY <1>2, <1>3, <1>4 DEF ServerInv

LEMMA ServerHandles ==
  ASSUME ServerInv, NEW q \in Requests,
         Server!Handle(q) \/ Server!Refuse(q) \/ Server!Fail(q)
  PROVE  /\ ServerInv' /\ RunsStay /\ GrantsStay
         /\ \A r \in Runs : applied'[r] /\ ~applied[r] => pc[q] # "idle" /\ run[q] = r
<1>s. Server!Steps \ {"idle", "answer"} = {"arrived", "readChild", "readWords", "mark", "saveChild", "saveWords"}
      /\ {"200", "400", "401", "409", "500", "dropped"} \subseteq Server!Codes
  BY DEF Server!Steps, Server!Codes
<1>u. ASSUME UNCHANGED applied
      PROVE  GrantsStay /\ \A r \in Runs : ~(applied'[r] /\ ~applied[r])
  BY <1>u DEF GrantsStay
<1>1. CASE Server!Admit(q)
  <2>1. UNCHANGED applied /\ pc[q] # "idle" /\ Server!GoesTo(q, "readChild")
    BY <1>1 DEF Server!Admit, Server!rows
  <2> QED BY <2>1, <1>u, <1>s, GoStep
<1>2. CASE Server!ReadChild(q)
  <2>1. UNCHANGED applied /\ pc[q] # "idle" /\ Server!GoesTo(q, "readWords")
    BY <1>2 DEF Server!ReadChild, Server!rows
  <2> QED BY <2>1, <1>u, <1>s, GoStep
<1>3. CASE Server!ReadWords(q)
  <2>1. UNCHANGED applied /\ pc[q] # "idle" /\ (Server!GoesTo(q, "mark") \/ Server!Answers(q, "400"))
    BY <1>3 DEF Server!ReadWords, Server!rows
  <2>2. CASE Server!GoesTo(q, "mark")
    BY <2>1, <2>2, <1>u, <1>s, GoStep
  <2>3. CASE Server!Answers(q, "400")
    BY <2>1, <2>3, <1>u, <1>s, AnswerStep
  <2> QED BY <2>1, <2>2, <2>3
<1>4. CASE Server!MarkApplied(q)
  <2>r. pc[q] # "idle" /\ run[q] \in Runs /\ applied \in [Runs -> BOOLEAN]
    BY <1>4 DEF Server!MarkApplied, ServerInv, RequestsOK
  <2>1. CASE applied[run[q]] /\ Server!Answers(q, "409") /\ UNCHANGED applied
    BY <2>1, <2>r, <1>u, <1>s, AnswerStep
  <2>2. CASE applied' = [applied EXCEPT ![run[q]] = TRUE] /\ Server!GoesTo(q, "saveChild")
    <3>1. pc' = [pc EXCEPT ![q] = "saveChild"] /\ code' = code /\ run' = run
      BY <2>2 DEF Server!GoesTo
    <3>2. applied' \in [Runs -> BOOLEAN] /\ applied'[run[q]]
          /\ \A r \in Runs : r # run[q] => applied'[r] = applied[r]
      BY <2>r, <2>2
    <3>3. RequestsOK'
      BY <3>1, <1>s, <2>r DEF RequestsOK, ServerInv
    <3>4. RunsStay /\ GrantsStay
      BY <3>1, <3>2, <2>r DEF RunsStay, GrantsStay, ServerInv, RequestsOK
    <3>5. AnswersTruly'
      BY <3>1, <3>2, <2>r DEF AnswersTruly, Server!Writing, ServerInv, RequestsOK
    <3> QED BY <2>r, <3>2, <3>3, <3>4, <3>5 DEF ServerInv
  <2> QED BY <1>4, <2>1, <2>2 DEF Server!MarkApplied
<1>5. CASE Server!SaveChild(q)
  <2>1. /\ UNCHANGED applied /\ pc[q] = "saveChild"
        /\ Server!Answers(q, "dropped") \/ Server!Answers(q, "500") \/ Server!GoesTo(q, "saveWords")
    BY <1>5 DEF Server!SaveChild
  <2>2. applied[run[q]]
    BY <2>1 DEF ServerInv, AnswersTruly, Server!Writing
  <2>3. CASE Server!Answers(q, "dropped")
    BY <2>1, <2>3, <1>u, <1>s, AnswerStep
  <2>4. CASE Server!Answers(q, "500")
    BY <2>1, <2>4, <1>u, <1>s, AnswerStep
  <2>5. CASE Server!GoesTo(q, "saveWords")
    BY <2>1, <2>2, <2>5, <1>u, <1>s, GoStep
  <2> QED BY <2>1, <2>3, <2>4, <2>5
<1>6. CASE Server!SaveWords(q)
  <2>1. UNCHANGED applied /\ pc[q] = "saveWords" /\ Server!Answers(q, "200")
    BY <1>6 DEF Server!SaveWords
  <2>2. applied[run[q]]
    BY <2>1 DEF ServerInv, AnswersTruly, Server!Writing
  <2> QED BY <2>1, <2>2, <1>u, <1>s, AnswerStep
<1>7. CASE Server!Refuse(q)
  <2>1. UNCHANGED applied /\ pc[q] # "idle" /\ Server!Answers(q, "401")
    BY <1>7 DEF Server!Refuse, Server!rows
  <2> QED BY <2>1, <1>u, <1>s, AnswerStep
<1>8. CASE Server!Fail(q)
  <2>1. UNCHANGED applied /\ pc[q] # "idle" /\ Server!Answers(q, "500")
    BY <1>8 DEF Server!Fail, Server!rows
  <2> QED BY <2>1, <1>u, <1>s, AnswerStep
<1> QED BY <1>1, <1>2, <1>3, <1>4, <1>5, <1>6, <1>7, <1>8 DEF Server!Handle

LEMMA ServerEnds ==
  ASSUME ServerInv, (\E q \in Requests : Server!Leave(q)) \/ Server!Restart
  PROVE  ServerInv' /\ RunsStay /\ UNCHANGED applied
<1>1. ASSUME NEW q \in Requests, Server!Leave(q)
      PROVE  ServerInv' /\ RunsStay /\ UNCHANGED applied
  <2>1. /\ UNCHANGED applied
        /\ pc' = [pc EXCEPT ![q] = "idle"]
        /\ run' = [run EXCEPT ![q] = None]
        /\ code' = [code EXCEPT ![q] = "none"]
    BY <1>1 DEF Server!Leave, Server!rows
  <2>2. RequestsOK'
    BY <2>1 DEF RequestsOK, ServerInv, Server!Steps, Server!Codes
  <2>3. AnswersTruly' /\ RunsStay
    BY <2>1 DEF AnswersTruly, RunsStay, Server!Writing, ServerInv, RequestsOK
  <2> QED BY <2>1, <2>2, <2>3 DEF ServerInv
<1>2. CASE Server!Restart
  <2>1. /\ UNCHANGED applied
        /\ pc' = [q \in Requests |-> "idle"]
        /\ run' = [q \in Requests |-> None]
        /\ code' = [q \in Requests |-> "none"]
    BY <1>2 DEF Server!Restart, Server!rows
  <2>2. RequestsOK'
    BY <2>1 DEF RequestsOK, ServerInv, Server!Steps, Server!Codes
  <2>3. AnswersTruly' /\ RunsStay
    BY <2>1 DEF AnswersTruly, RunsStay, Server!Writing
  <2> QED BY <2>1, <2>2, <2>3 DEF ServerInv
<1> QED BY <1>1, <1>2

----------------------------------------------------------------------------
(* The invariant of a delivery.  A request in progress finishes a run whose *)
(* elders, the runs finished before it, were granted or reported rejected:  *)
(* that is what the Drain had come to when it sent the run, and no grant    *)
(* and no report is ever taken back.                                        *)
AwaitedIsSent ==
  awaited # Nobody =>
    /\ awaited \in Requests
    /\ drain.pc = "waiting"
    /\ run[awaited] = Client!Job

EldersDone(r) ==
  \E n \in DOMAIN finished :
    /\ finished[n] = r
    /\ \A m \in DOMAIN finished : m < n => applied[finished[m]] \/ finished[m] \in rejected

SentInTurn == \A q \in Requests : pc[q] # "idle" => EldersDone(run[q])

DeliveryInv == ServerInv /\ AwaitedIsSent /\ DeliveredWasGranted /\ SentInTurn

(* What was finished stays finished, in its place, and before what is new.  *)
LEMMA FinishedGrows ==
  ASSUME O!TypeOK, O!TypeOK', [O!Next]_O!vars
  PROVE  /\ \A n \in DOMAIN finished : n \in DOMAIN finished' /\ finished'[n] = finished[n]
         /\ \A n \in DOMAIN finished, m \in DOMAIN finished' : m < n => m \in DOMAIN finished
         /\ rejected \subseteq rejected' /\ delivered \subseteq delivered'
<1>t. finished \in Seq(Runs)
  BY DEF O!TypeOK
<1>1. CASE UNCHANGED <<finished, rejected, delivered>>
  BY <1>1
<1>2. CASE O!FinishSave
  <2>1. session \in Runs /\ UNCHANGED <<rejected, delivered>>
    BY <1>2 DEF O!FinishSave, O!TypeOK
  <2>2. CASE UNCHANGED finished
    BY <2>1, <2>2, <1>1
  <2>3. CASE finished' = Append(finished, session)
    BY <2>1, <2>3, <1>t, O!AppendPlaces
  <2> QED BY <1>2, <2>2, <2>3 DEF O!FinishSave
<1>3. ASSUME NEW result \in O!Results, O!Reply(result)
      PROVE  UNCHANGED finished /\ rejected \subseteq rejected' /\ delivered \subseteq delivered'
  BY <1>3 DEF O!Reply
<1>4. CASE O!Play \/ O!FinishLoad \/ O!FinishClear
  BY <1>4, <1>1 DEF O!Play, O!StartRun, O!ResumeRun, O!RecordAttempt, O!FinishLoad,
                    O!FinishClear, O!history
<1>5. CASE O!StartDrain \/ O!Send \/ O!SendUnmade \/ O!DrainSave
  BY <1>5, <1>1 DEF O!StartDrain, O!Send, O!SendUnmade, O!DrainSave, O!history
<1>6. CASE O!Kill \/ UNCHANGED O!vars
  BY <1>6, <1>1 DEF O!Kill, O!vars, O!history
<1> QED BY <1>2, <1>3, <1>4, <1>5, <1>6 DEF O!Next, O!Queue, O!Drain

LEMMA EldersStay ==
  ASSUME ServerInv, O!TypeOK, O!TypeOK', [O!Next]_O!vars, GrantsStay,
         NEW r \in Runs, EldersDone(r)
  PROVE  EldersDone(r)'
<1>1. PICK n \in DOMAIN finished :
        /\ finished[n] = r
        /\ \A m \in DOMAIN finished : m < n => applied[finished[m]] \/ finished[m] \in rejected
  BY DEF EldersDone
<1>2. \A m \in DOMAIN finished : finished[m] \in Runs
  BY DEF O!TypeOK
<1> QED BY <1>1, <1>2, FinishedGrows DEF EldersDone, GrantsStay

(* The job a Drain sends has its elders done: what comes before it in the   *)
(* outbox is settled, and its elders come before it if they are there.      *)
LEMMA JobInTurn ==
  ASSUME O!IInv, DeliveryInv, O!Send
  PROVE  O!Job \in Runs /\ EldersDone(O!Job)
<1>1. /\ outbox \in Seq(Runs) /\ drain.jobs = outbox /\ drain.at \in Nat \ {0}
      /\ drain.at \in DOMAIN outbox /\ O!Job = outbox[drain.at]
      /\ \A i \in DOMAIN outbox : i < drain.at => outbox[i] \in O!Settled
  <2>1. /\ drain.pc = "sending" /\ drain.at <= Len(drain.jobs)
    BY DEF O!Send, O!Sending
  <2>2. /\ outbox \in Seq(Runs) /\ drain.jobs = outbox /\ drain.at \in Nat \ {0}
        /\ \A i \in DOMAIN outbox : i < drain.at => outbox[i] \in O!Settled
    BY <2>1 DEF O!IInv, O!TypeOK, O!DrainHolds
  <2>3. DOMAIN outbox = 1 .. Len(outbox) /\ Len(outbox) \in Nat
    BY <2>2
  <2> QED BY <2>1, <2>2, <2>3 DEF O!Job
<1>2. PICK n \in DOMAIN finished : finished[n] = O!Job
  BY <1>1 DEF O!IInv, O!QueueInv, O!QueuedWasFinished
<1>3. ASSUME NEW m \in DOMAIN finished, m < n
      PROVE  applied[finished[m]] \/ finished[m] \in rejected
  <2>1. finished[m] \in O!Settled
    BY <1>1, <1>2, <1>3 DEF O!IInv, O!QueueInv, O!QueuedInOrder
  <2> QED BY <2>1 DEF O!Settled, DeliveryInv, DeliveredWasGranted
<1> QED BY <1>1, <1>2, <1>3 DEF EldersDone

LEMMA DeliveryInit == Init => DeliveryInv
<1> SUFFICES ASSUME Init
             PROVE  DeliveryInv
  OBVIOUS
<1>1. /\ applied = [r \in Runs |-> FALSE]
      /\ pc = [q \in Requests |-> "idle"]
      /\ run = [q \in Requests |-> None]
      /\ code = [q \in Requests |-> "none"]
      /\ awaited = Nobody /\ delivered = {}
  BY DEF Init, Server!Init, Client!Init
<1>2. ServerInv
  BY <1>1 DEF ServerInv, RequestsOK, AnswersTruly, Server!Writing, Server!Steps, Server!Codes
<1> QED BY <1>1, <1>2 DEF DeliveryInv, AwaitedIsSent, DeliveredWasGranted, SentInTurn

(* What a step of either side alone keeps.                                  *)
LEMMA SentStaysInTurn ==
  ASSUME DeliveryInv, O!TypeOK, O!TypeOK', [O!Next]_O!vars, GrantsStay, RunsStay
  PROVE  SentInTurn'
<1> SUFFICES ASSUME NEW q \in Requests, pc'[q] # "idle"
             PROVE  EldersDone(run[q])'
  BY DEF SentInTurn
<1>1. pc[q] # "idle" /\ run'[q] = run[q]
  BY DEF RunsStay
<1>2. PICK r \in Runs : run[q] = r
  BY <1>1 DEF DeliveryInv, ServerInv, RequestsOK
<1>3. EldersDone(r)
  BY <1>1, <1>2 DEF DeliveryInv, SentInTurn
<1>4. EldersDone(r)'
  BY <1>3, EldersStay DEF DeliveryInv
<1> QED BY <1>1, <1>2, <1>4 DEF EldersDone

LEMMA ServerSteps ==
  ASSUME DeliveryInv, O!TypeOK, O!TypeOK', UNCHANGED clientVars,
         \/ \E q \in Requests :
              \/ Serve(Server!Handle(q)) \/ Serve(Server!Refuse(q) \/ Server!Fail(q))
              \/ AnswerUnheard(q)
         \/ Restart
  PROVE  DeliveryInv'
<1>1. UNCHANGED <<delivered, drain>> /\ Client!Job' = Client!Job
  BY DEF clientVars, Client!Job
<1>2. UNCHANGED O!vars
  BY DEF clientVars, O!vars, O!memory, O!store, O!history, O!bounds
<1>3. ASSUME NEW q \in Requests, Serve(Server!Handle(q)) \/ Serve(Server!Refuse(q) \/ Server!Fail(q))
      PROVE  DeliveryInv'
  <2>1. UNCHANGED awaited /\ ServerInv' /\ RunsStay /\ GrantsStay
    BY <1>3, ServerHandles DEF Serve, DeliveryInv
  <2>2. \A p \in Requests : run'[p] = run[p]
    BY <1>3
       DEF Serve, Server!Handle, Server!SaveChild, Server!Answers, Server!GoesTo, Server!Admit, Server!ReadChild,
           Server!ReadWords, Server!MarkApplied, Server!SaveWords, Server!Refuse, Server!Fail
  <2>3. AwaitedIsSent'
    BY <1>1, <2>1, <2>2 DEF AwaitedIsSent, DeliveryInv
  <2>4. DeliveredWasGranted'
    BY <1>1, <2>1 DEF DeliveredWasGranted, DeliveryInv, GrantsStay, O!TypeOK
  <2> QED BY <1>2, <2>1, <2>3, <2>4, SentStaysInTurn DEF DeliveryInv
<1>4. ASSUME NEW q \in Requests, AnswerUnheard(q)
      PROVE  DeliveryInv'
  <2>1. UNCHANGED awaited /\ ServerInv' /\ RunsStay /\ UNCHANGED applied
        /\ q # awaited /\ run' = [run EXCEPT ![q] = None]
    BY <1>4, ServerEnds DEF AnswerUnheard, DeliveryInv, Server!Leave
  <2>2. AwaitedIsSent'
    BY <1>1, <2>1 DEF AwaitedIsSent, DeliveryInv, ServerInv, RequestsOK
  <2>3. DeliveredWasGranted' /\ GrantsStay
    BY <1>1, <2>1 DEF DeliveredWasGranted, DeliveryInv, GrantsStay
  <2> QED BY <1>2, <2>1, <2>2, <2>3, SentStaysInTurn DEF DeliveryInv
<1>5. CASE Restart
  <2>1. awaited' = Nobody /\ ServerInv' /\ RunsStay /\ UNCHANGED applied
    BY <1>5, ServerEnds DEF Restart, DeliveryInv
  <2>2. AwaitedIsSent' /\ DeliveredWasGranted' /\ GrantsStay
    BY <1>1, <2>1 DEF AwaitedIsSent, DeliveredWasGranted, DeliveryInv, GrantsStay
  <2> QED BY <1>2, <2>1, <2>2, SentStaysInTurn DEF DeliveryInv
<1> QED BY <1>3, <1>4, <1>5

LEMMA ServerUntouched ==
  ASSUME ServerInv, UNCHANGED serverVars
  PROVE  ServerInv' /\ RunsStay /\ GrantsStay /\ UNCHANGED <<applied, run>>
BY DEF ServerInv, RunsStay, GrantsStay, RequestsOK, AnswersTruly, Server!Writing, serverVars

(* The client alone: playing, queueing, beginning and ending a Drain.       *)
LEMMA ClientAlone ==
  ASSUME DeliveryInv, O!IInv, O!TypeOK',
         \/ Alone(Client!Play) \/ Alone(Client!Queue)
         \/ Alone(Client!StartDrain) \/ Alone(Client!DrainSave) \/ Kill
  PROVE  DeliveryInv'
<1>1. /\ UNCHANGED serverVars
      /\ O!Play \/ O!Queue \/ O!StartDrain \/ O!DrainSave \/ O!Kill
  BY ClientActions DEF Alone, Kill
<1>2. ServerInv' /\ RunsStay /\ GrantsStay /\ UNCHANGED <<applied, run>>
  BY <1>1, ServerUntouched DEF DeliveryInv
<1>3. O!TypeOK /\ [O!Next]_O!vars
  BY <1>1 DEF O!Next, O!Drain, O!IInv
<1>4. UNCHANGED delivered
  BY <1>1 DEF O!Play, O!StartRun, O!ResumeRun, O!RecordAttempt, O!Queue, O!FinishLoad, O!FinishSave,
              O!FinishClear, O!StartDrain, O!DrainSave, O!Kill, O!history
<1>5. AwaitedIsSent'
  <2>1. CASE Kill
    BY <2>1 DEF Kill, AwaitedIsSent
  <2>2. CASE UNCHANGED <<awaited, drain>>
    BY <2>2, <1>2 DEF AwaitedIsSent, DeliveryInv, Client!Job
  <2>3. CASE UNCHANGED awaited /\ (O!StartDrain \/ O!DrainSave)
    BY <2>3 DEF AwaitedIsSent, DeliveryInv, O!StartDrain, O!DrainSave, O!DrainEnds
  <2>4. O!Play \/ O!Queue => UNCHANGED drain
    BY DEF O!Play, O!StartRun, O!ResumeRun, O!RecordAttempt, O!memory, O!Queue, O!FinishLoad,
           O!FinishSave, O!FinishClear
  <2> QED BY <2>1, <2>2, <2>3, <2>4, ClientActions DEF Alone
<1> QED BY <1>2, <1>3, <1>4, <1>5, SentStaysInTurn DEF DeliveryInv, DeliveredWasGranted

(* The client and the network: a job sent, or lost; an answer, or none.     *)
LEMMA SendInv ==
  ASSUME DeliveryInv, O!IInv, O!IInv', Send \/ SendLost
  PROVE  DeliveryInv'
<1>1. O!Send /\ [O!Next]_O!vars /\ O!TypeOK /\ O!TypeOK' /\ UNCHANGED <<delivered, finished, rejected>>
  BY ClientActions DEF Send, SendLost, O!Next, O!Drain, O!IInv, O!Send, O!history
<1>2. drain'.pc = "waiting" /\ Client!Job' = O!Job
  <2>1. drain'.jobs = drain.jobs /\ drain'.at = drain.at /\ drain'.pc = "waiting"
    BY <1>1 DEF O!Send, O!TypeOK
  <2> QED BY <2>1 DEF Client!Job, O!Job
<1>3. CASE SendLost
  <2>1. ServerInv' /\ RunsStay /\ GrantsStay /\ UNCHANGED <<applied, run>> /\ awaited' = Nobody
    BY <1>3, ServerUntouched DEF SendLost, DeliveryInv
  <2>2. AwaitedIsSent' /\ DeliveredWasGranted'
    BY <1>1, <2>1 DEF AwaitedIsSent, DeliveredWasGranted, DeliveryInv
  <2> QED BY <1>1, <2>1, <2>2, SentStaysInTurn DEF DeliveryInv
<1>4. CASE Send
  <2>j. O!Job \in Runs /\ EldersDone(O!Job)
    BY <1>1, JobInTurn
  <2>1. PICK q \in Requests : Server!Arrive(q, O!Job) /\ awaited' = q
    BY <1>4, <2>j, ClientActions DEF Send
  <2>2. /\ UNCHANGED <<applied, code>> /\ pc[q] = "idle"
        /\ pc' = [pc EXCEPT ![q] = "arrived"] /\ run' = [run EXCEPT ![q] = O!Job]
    BY <2>1 DEF Server!Arrive, Server!rows
  <2>3. RequestsOK'
    BY <2>2, <2>j DEF RequestsOK, DeliveryInv, ServerInv, Server!Steps
  <2>4. AnswersTruly'
    BY <2>2 DEF AnswersTruly, Server!Writing, DeliveryInv, ServerInv, RequestsOK
  <2>5. SentInTurn'
    <3> SUFFICES ASSUME NEW p \in Requests, pc'[p] # "idle"
                 PROVE  EldersDone(run[p])'
      BY DEF SentInTurn
    <3>1. EldersDone(run'[p])
      BY <2>2, <2>j DEF DeliveryInv, SentInTurn, ServerInv, RequestsOK
    <3> QED BY <3>1, <1>1, <2>2 DEF EldersDone
  <2>6. AwaitedIsSent'
    BY <1>2, <2>1, <2>2 DEF AwaitedIsSent, DeliveryInv, ServerInv, RequestsOK
  <2>7. DeliveredWasGranted'
    BY <1>1, <2>2 DEF DeliveredWasGranted, DeliveryInv
  <2> QED BY <2>2, <2>3, <2>4, <2>5, <2>6, <2>7 DEF DeliveryInv, ServerInv
<1> QED BY <1>3, <1>4

LEMMA ReplyInv ==
  ASSUME DeliveryInv, O!IInv, O!IInv', Answer \/ TimeOut
  PROVE  DeliveryInv'
<1>r. /\ "unreachable" \in O!Results
      /\ \A status : /\ O!ResultOf(status) \in O!Results
                     /\ O!ResultOf(status) \in {"applied", "alreadyApplied"} => status \in {"200", "409"}
  BY DEF O!Results, O!ResultOf
<1>t. O!TypeOK /\ O!TypeOK'
  BY DEF O!IInv
<1>1. CASE TimeOut
  <2>1. /\ O!Reply("unreachable") /\ awaited' = Nobody
        /\ ServerInv' /\ RunsStay /\ GrantsStay /\ UNCHANGED <<applied, run>>
    BY <1>1, <1>r, ClientActions, ServerUntouched DEF TimeOut, DeliveryInv
  <2>2. [O!Next]_O!vars
    BY <2>1, <1>r DEF O!Next, O!Drain
  <2>3. AwaitedIsSent' /\ DeliveredWasGranted'
    BY <2>1 DEF AwaitedIsSent, DeliveredWasGranted, DeliveryInv, O!Reply
  <2> QED BY <1>t, <2>1, <2>2, <2>3, SentStaysInTurn DEF DeliveryInv
<1>2. CASE Answer
  <2> DEFINE result == O!ResultOf(code[awaited])
  <2>1. awaited # Nobody /\ awaited' = Nobody /\ O!Reply(result) /\ Server!Leave(awaited)
    BY <1>2, <1>r, ClientActions DEF Answer
  <2>2. awaited \in Requests /\ run[awaited] = O!Job
    BY <2>1, ClientActions DEF DeliveryInv, AwaitedIsSent
  <2>3. ServerInv' /\ RunsStay /\ UNCHANGED applied /\ pc[awaited] = "answer"
    BY <2>1, <2>2, ServerEnds DEF DeliveryInv, Server!Leave
  <2>4. GrantsStay
    BY <2>3 DEF GrantsStay
  <2>5. [O!Next]_O!vars
    BY <2>1, <1>r DEF O!Next, O!Drain
  <2>6. result \in {"applied", "alreadyApplied"} => applied[O!Job]
    BY <1>r, <2>2, <2>3 DEF DeliveryInv, ServerInv, AnswersTruly
  <2>7. DeliveredWasGranted'
    BY <2>1, <2>3, <2>6 DEF DeliveredWasGranted, DeliveryInv, O!Reply
  <2>8. AwaitedIsSent'
    BY <2>1 DEF AwaitedIsSent
  <2> QED BY <1>t, <2>3, <2>4, <2>5, <2>7, <2>8, SentStaysInTurn DEF DeliveryInv
<1> QED BY <1>1, <1>2

LEMMA DeliveryStep ==
  ASSUME DeliveryInv, O!IInv, O!IInv', [Next]_vars
  PROVE  DeliveryInv'
<1>t. O!TypeOK /\ O!TypeOK'
  BY DEF O!IInv
<1>1. CASE UNCHANGED vars
  <2>1. ServerInv' /\ RunsStay /\ GrantsStay /\ UNCHANGED <<applied, run, awaited, drain, delivered>>
    BY <1>1, ServerUntouched DEF vars, clientVars, DeliveryInv
  <2>2. UNCHANGED O!vars
    BY <1>1 DEF vars, clientVars, O!vars, O!memory, O!store, O!history, O!bounds
  <2>3. AwaitedIsSent' /\ DeliveredWasGranted'
    BY <2>1 DEF AwaitedIsSent, DeliveredWasGranted, DeliveryInv, Client!Job
  <2> QED BY <1>t, <2>1, <2>2, <2>3, SentStaysInTurn DEF DeliveryInv
<1>2. CASE (\E q \in Requests :
              \/ Serve(Server!Handle(q)) \/ Serve(Server!Refuse(q) \/ Server!Fail(q))
              \/ AnswerUnheard(q)) \/ Restart
  <2>1. UNCHANGED clientVars
    BY <1>2 DEF Serve, AnswerUnheard, Restart
  <2> QED BY <1>2, <1>t, <2>1, ServerSteps
<1> QED BY <1>1, <1>2, <1>t, ClientAlone, SendInv, ReplyInv DEF Next, ClientDrains

(* The two invariants together hold of every reachable state of a delivery. *)
THEOREM DeliveryInvariance ==
  ASSUME Client!OutboxAssumption
  PROVE  Spec => [](O!IInv /\ DeliveryInv)
<1>1. MaxKills \in Nat /\ None \notin Runs
  BY DEF Client!OutboxAssumption
<1>2. O!Spec => []O!IInv
  BY <1>1, O!Invariance
<1>3. Init => DeliveryInv
  BY DeliveryInit
<1>4. DeliveryInv /\ O!IInv /\ O!IInv' /\ [Next]_vars => DeliveryInv'
  BY DeliveryStep
<1> QED BY <1>2, <1>3, <1>4, DeliveryRunsOutbox, PTL DEF Spec

(* Whatever is lost on the way, sent twice or answered late, a run the      *)
(* client drops from its outbox as delivered was granted by the server.     *)
THEOREM DeliveredWasAlwaysGranted ==
  ASSUME Client!OutboxAssumption
  PROVE  Spec => []DeliveredWasGranted
<1>1. DeliveryInv => DeliveredWasGranted
  BY DEF DeliveryInv
<1> QED BY <1>1, DeliveryInvariance, PTL

(* The server grants the runs of a child in the order they were finished,   *)
(* but for those it refused, however late a request it once gave up on      *)
(* comes to its turn.                                                       *)
GrantsInTurn ==
  \A i, j \in DOMAIN finished :
    i < j /\ applied'[finished[j]] /\ ~applied[finished[j]]
      => applied[finished[i]] \/ finished[i] \in rejected

THEOREM AlwaysGrantedInOrder ==
  ASSUME Client!OutboxAssumption
  PROVE  Spec => GrantedInOrder
<1>1. O!IInv /\ DeliveryInv /\ [Next]_vars => [GrantsInTurn]_vars
  <2> SUFFICES ASSUME O!IInv, DeliveryInv, Next,
                      NEW i \in DOMAIN finished, NEW j \in DOMAIN finished, i < j,
                      applied'[finished[j]], ~applied[finished[j]]
               PROVE  applied[finished[i]] \/ finished[i] \in rejected
    BY DEF GrantsInTurn
  <2>1. finished[j] \in Runs
    BY DEF O!IInv, O!TypeOK
  <2>2. PICK q \in Requests : pc[q] # "idle" /\ run[q] = finished[j]
    <3>1. ASSUME NEW q \in Requests,
                 Server!Handle(q) \/ Server!Refuse(q) \/ Server!Fail(q)
          PROVE  pc[q] # "idle" /\ run[q] = finished[j]
      BY <3>1, <2>1, ServerHandles DEF DeliveryInv
    <3>2. CASE UNCHANGED applied
      BY <3>2
    <3>3. ASSUME NEW q \in Requests, Server!Leave(q)
          PROVE  UNCHANGED applied
      BY <3>3 DEF Server!Leave, Server!rows
    <3>4. ASSUME NEW q \in Requests, NEW r, Server!Arrive(q, r)
          PROVE  UNCHANGED applied
      BY <3>4 DEF Server!Arrive, Server!rows
    <3>5. CASE Alone(Client!Play) \/ Alone(Client!Queue) \/ ClientDrains \/ SendLost \/ Kill
      <4>1. ASSUME UNCHANGED serverVars PROVE UNCHANGED applied
        BY <4>1 DEF serverVars
      <4>2. CASE Send
        BY <4>2, <3>4, <3>2 DEF Send
      <4>3. CASE Answer
        BY <4>3, <3>2, <3>3 DEF Answer, DeliveryInv, AwaitedIsSent
      <4> QED BY <3>2, <3>5, <4>1, <4>2, <4>3 DEF ClientDrains, Alone, TimeOut, SendLost, Kill
    <3>6. CASE Restart
      BY <3>6, <3>2 DEF Restart, Server!Restart, Server!rows
    <3> QED BY <3>1, <3>2, <3>3, <3>5, <3>6 DEF Next, Serve, AnswerUnheard
  <2>3. PICK n \in DOMAIN finished :
          /\ finished[n] = finished[j]
          /\ \A m \in DOMAIN finished : m < n => applied[finished[m]] \/ finished[m] \in rejected
    BY <2>2 DEF DeliveryInv, SentInTurn, EldersDone
  <2>4. n = j
    BY <2>3 DEF O!IInv, O!QueueInv, O!FinishedOnce
  <2> QED BY <2>3, <2>4
<1>2. GrantedInOrder <=> [][GrantsInTurn]_vars
  BY DEF GrantedInOrder, GrantsInTurn
<1> QED BY <1>1, <1>2, DeliveryInvariance, PTL DEF Spec

----------------------------------------------------------------------------
(* The server of the composition is the one of RunFinish.                   *)
S == INSTANCE RunFinish_proofs WITH MaxSettings <- 0, Unappliable <- {}

LEMMA ServerStatements ==
  ASSUME NEW q
  PROVE  /\ \A status : Server!Answers(q, status) <=> S!Answers(q, status)
         /\ \A step : Server!GoesTo(q, step) <=> S!GoesTo(q, step)
BY DEF Server!Answers, S!Answers, Server!GoesTo, S!GoesTo, Server!EmptyRow, S!EmptyRow,
       Server!NoWords, S!NoWords, Server!Never, S!Never

LEMMA ServerActions ==
  /\ Server!Init <=> S!Init
  /\ \A q, r : Server!Arrive(q, r) <=> S!Arrive(q, r)
  /\ \A q : /\ Server!Handle(q) <=> S!Handle(q)
            /\ Server!Refuse(q) <=> S!Refuse(q)
            /\ Server!Fail(q) <=> S!Fail(q)
            /\ Server!Leave(q) <=> S!Leave(q)
  /\ Server!Restart <=> S!Restart
<1>1. Server!Init <=> S!Init
  BY DEF Server!Init, S!Init, Server!EmptyRow, S!EmptyRow, Server!NoWords, S!NoWords,
         Server!Never, S!Never
<1>2. \A q, r : Server!Arrive(q, r) <=> S!Arrive(q, r)
  BY DEF Server!Arrive, S!Arrive, Server!rows, S!rows
<1>3. ASSUME NEW q PROVE Server!Handle(q) <=> S!Handle(q)
  <2>1. Server!Admit(q) <=> S!Admit(q)
    BY ServerStatements DEF Server!Admit, S!Admit, Server!rows, S!rows
  <2>2. Server!ReadChild(q) <=> S!ReadChild(q)
    BY ServerStatements DEF Server!ReadChild, S!ReadChild, Server!rows, S!rows
  <2>3. Server!ReadWords(q) <=> S!ReadWords(q)
    BY ServerStatements DEF Server!ReadWords, S!ReadWords, Server!rows, S!rows
  <2>4. Server!MarkApplied(q) <=> S!MarkApplied(q)
    BY ServerStatements DEF Server!MarkApplied, S!MarkApplied
  <2>5. Server!SaveChild(q) <=> S!SaveChild(q)
    BY ServerStatements DEF Server!SaveChild, S!SaveChild, Server!Panics, S!Panics,
       Server!Plus, S!Plus
  <2>6. Server!SaveWords(q) <=> S!SaveWords(q)
    BY ServerStatements DEF Server!SaveWords, S!SaveWords, Server!Upserted, S!Upserted,
       Server!Recorded, S!Recorded, Server!Plus, S!Plus, Server!Never, S!Never
  <2> QED BY <2>1, <2>2, <2>3, <2>4, <2>5, <2>6 DEF Server!Handle, S!Handle
<1>4. ASSUME NEW q
      PROVE  /\ Server!Refuse(q) <=> S!Refuse(q)
             /\ Server!Fail(q) <=> S!Fail(q)
             /\ Server!Leave(q) <=> S!Leave(q)
  BY ServerStatements DEF Server!Refuse, S!Refuse, Server!Fail, S!Fail, Server!Leave, S!Leave,
     Server!rows, S!rows
<1>5. Server!Restart <=> S!Restart
  BY DEF Server!Restart, S!Restart, Server!rows, S!rows, Server!EmptyRow, S!EmptyRow,
         Server!NoWords, S!NoWords, Server!Never, S!Never
<1> QED BY <1>1, <1>2, <1>3, <1>4, <1>5

(* A request that arrives is for a run, and an answer the client hears is   *)
(* that of a request.                                                       *)
LEMMA ServerTakesSteps ==
  ASSUME O!IInv, DeliveryInv, [Next]_vars
  PROVE  [S!Next]_S!vars
<1>1. ASSUME UNCHANGED serverVars PROVE UNCHANGED S!vars
  BY <1>1 DEF serverVars, S!vars, S!rows, S!requests
<1>2. CASE Send
  <2>1. O!Send
    BY <1>2, ClientActions DEF Send
  <2>2. O!Job \in Runs
    BY <2>1, JobInTurn
  <2>3. PICK q \in Requests : Server!Arrive(q, O!Job)
    BY <1>2, ClientActions DEF Send
  <2> QED BY <2>2, <2>3, ServerActions DEF S!Next
<1>3. CASE Answer
  <2>1. awaited \in Requests /\ Server!Leave(awaited)
    BY <1>3 DEF Answer, DeliveryInv, AwaitedIsSent
  <2> QED BY <2>1, ServerActions DEF S!Next
<1>4. ASSUME NEW q \in Requests,
             Serve(Server!Handle(q)) \/ Serve(Server!Refuse(q) \/ Server!Fail(q)) \/ AnswerUnheard(q)
      PROVE  S!Next
  BY <1>4, ServerActions DEF Serve, AnswerUnheard, S!Next
<1>5. CASE Restart
  BY <1>5, ServerActions DEF Restart, S!Next
<1>6. CASE \/ Alone(Client!Play) \/ Alone(Client!Queue) \/ Alone(Client!StartDrain)
           \/ Alone(Client!DrainSave) \/ TimeOut \/ SendLost \/ Kill \/ UNCHANGED vars
  <2>1. UNCHANGED serverVars
    BY <1>6 DEF Alone, TimeOut, SendLost, Kill, vars
  <2> QED BY <1>1, <2>1
<1> QED BY <1>2, <1>3, <1>4, <1>5, <1>6 DEF Next, ClientDrains

(* The server of a delivery is the one RunFinish describes, so that all     *)
(* that is proved of RunFinish holds of it, whatever the client sends again *)
(* and whatever the network loses.                                          *)
THEOREM DeliveryRunsServer ==
  ASSUME Client!OutboxAssumption
  PROVE  Spec => S!Spec
<1>1. Init => S!Init
  BY ServerActions DEF Init
<1>2. O!IInv /\ DeliveryInv /\ [Next]_vars => [S!Next]_S!vars
  BY ServerTakesSteps
<1> QED BY <1>1, <1>2, DeliveryInvariance, PTL DEF Spec, S!Spec

(* From the child's hand to the rows: however often the client sends a run  *)
(* again, and whatever is lost or answered late, no row holds a run twice,  *)
(* and none holds a run that was not granted or that Replay refuses.        *)
THEOREM DeliveredAtMostOnce ==
  ASSUME Client!OutboxAssumption, Server!RunFinishAssumption
  PROVE  Spec => [](Server!AppliedAtMostOnce /\ Server!WrittenWasGranted)
<1>1. S!Spec => []S!AppliedAtMostOnce /\ []S!WrittenWasGranted
  BY S!NeverAppliedTwice, S!AlwaysGranted DEF Server!RunFinishAssumption
<1>2. /\ S!AppliedAtMostOnce => Server!AppliedAtMostOnce
      /\ S!WrittenWasGranted => Server!WrittenWasGranted
  BY DEF S!AppliedAtMostOnce, Server!AppliedAtMostOnce, S!WrittenWasGranted, Server!WrittenWasGranted
<1> QED BY <1>1, <1>2, DeliveryRunsServer, PTL

LossesCounted == losses \in 0 .. MaxLosses

(* Client, server, the request awaited and the losses are well typed in     *)
(* every reachable state: the answer the client waits for is always that of *)
(* the job it has sent (Drain, handleRunFinish).                            *)
THEOREM DeliveryTypeCorrect ==
  ASSUME Client!OutboxAssumption, Server!RunFinishAssumption, DeliveryAssumption
  PROVE  Spec => []TypeOK
<1>1. S!Spec => []S!TypeOK
  BY S!TypeCorrect DEF Server!RunFinishAssumption
<1>2. O!TypeOK => Client!TypeOK
  BY DEF O!TypeOK, Client!TypeOK
<1>3. S!TypeOK => Server!TypeOK
  BY DEF S!TypeOK, Server!TypeOK, S!ChildRows, Server!ChildRows, S!Counts, Server!Counts,
         S!Steps, Server!Steps, S!Codes, Server!Codes
<1>4. Init => LossesCounted
  BY DEF Init, DeliveryAssumption, LossesCounted
<1>5. LossesCounted /\ [Next]_vars => LossesCounted'
  <2> SUFFICES ASSUME LossesCounted, [Next]_vars PROVE LossesCounted'
    OBVIOUS
  <2>1. losses' = losses \/ (losses < MaxLosses /\ losses' = losses + 1)
    BY DEF Next, ClientDrains, Alone, Send, SendLost, Answer, TimeOut, Kill, Serve,
           AnswerUnheard, Restart, vars
  <2> QED BY <2>1 DEF DeliveryAssumption, LossesCounted
<1>6. O!IInv /\ DeliveryInv /\ S!TypeOK /\ LossesCounted => TypeOK
  BY <1>2, <1>3 DEF O!IInv, DeliveryInv, AwaitedIsSent, TypeOK, LossesCounted
<1> QED BY <1>1, <1>4, <1>5, <1>6, DeliveryRunsServer, DeliveryInvariance, PTL DEF Spec
=============================================================================
