------------------------------ MODULE Delivery ------------------------------
(***************************************************************************)
(* A finished run from the child's outbox to the rows of the database: the *)
(* client of Outbox and the server of RunFinish, over a network that loses *)
(* requests and answers, and a client that stops waiting after sendTimeout *)
(* while the server goes on.                                               *)
(***************************************************************************)
EXTENDS Integers, FiniteSets, Sequences, SequencesExt

CONSTANTS
  Runs, None,
  Requests, Words, Touched, Invalid, Paying, LevelsKnown, MaxFaults,
  MaxKills,
  MaxLosses,  \* bound: requests lost on their way, and requests the client
              \* stops waiting for while they are still in progress
  Nobody      \* no request

ASSUME DeliveryAssumption ==
  /\ MaxLosses \in Nat
  /\ Nobody \notin Requests

VARIABLES
  session, saved, outbox, finish, drain, kills, saveFailures,
  started, kept, finished, delivered, rejected,
  applied, child, words, pc, run, childCopy, wordsCopy, code, settings, faults,
  awaited,   \* the request whose answer the client's Drain waits for
  losses

Client == INSTANCE Outbox
  WITH DrainBlocksPlay <- TRUE, TornWrites <- FALSE, MaxSaveFailures <- 0

Server == INSTANCE RunFinish WITH MaxSettings <- 0, Unappliable <- {}

clientVars == <<session, saved, outbox, finish, drain, kills, saveFailures,
                started, kept, finished, delivered, rejected>>
serverVars == <<applied, child, words, pc, run, childCopy, wordsCopy, code, settings, faults>>
vars       == <<clientVars, serverVars, awaited, losses>>

Init ==
  /\ Client!Init
  /\ Server!Init
  /\ awaited = Nobody
  /\ losses = 0

----------------------------------------------------------------------------
(* SendFinish: the request reaches the server, in a slot of its own, or is  *)
(* lost on the way.                                                         *)
Send ==
  /\ Client!Send
  /\ \E q \in Requests :
       /\ Server!Arrive(q, Client!Job)
       /\ awaited' = q
  /\ UNCHANGED losses

SendLost ==
  /\ Client!Send
  /\ losses < MaxLosses
  /\ losses' = losses + 1
  /\ awaited' = Nobody
  /\ UNCHANGED serverVars

(* The answer of the request the client waits for; any other goes nowhere.  *)
Answer ==
  /\ awaited # Nobody
  /\ Client!Reply(Client!ResultOf(code[awaited]))
  /\ Server!Leave(awaited)
  /\ awaited' = Nobody
  /\ UNCHANGED losses

AnswerUnheard(q) ==
  /\ q # awaited
  /\ Server!Leave(q)
  /\ UNCHANGED <<clientVars, awaited, losses>>

(* sendTimeout, or a connection that broke: an unreachable server, whatever *)
(* becomes of the request.                                                  *)
TimeOut ==
  /\ Client!Reply("unreachable")
  /\ IF awaited = Nobody
     THEN UNCHANGED losses
     ELSE /\ losses < MaxLosses
          /\ losses' = losses + 1
  /\ awaited' = Nobody
  /\ UNCHANGED serverVars

(* A restart drops every connection; what was awaited will time out. *)
Restart ==
  /\ Server!Restart
  /\ awaited' = Nobody
  /\ UNCHANGED <<clientVars, losses>>

Kill ==
  /\ Client!Kill
  /\ awaited' = Nobody
  /\ UNCHANGED <<serverVars, losses>>

Alone(clientStep) ==
  /\ clientStep
  /\ UNCHANGED <<serverVars, awaited, losses>>

Serve(serverStep) ==
  /\ serverStep
  /\ UNCHANGED <<clientVars, awaited, losses>>

ClientDrains == Alone(Client!StartDrain) \/ Send \/ Answer \/ TimeOut \/ Alone(Client!DrainSave)

Next ==
  \/ Alone(Client!Play) \/ Alone(Client!Queue)
  \/ ClientDrains \/ SendLost \/ Kill
  \/ \E q \in Requests : \/ Serve(Server!Handle(q))
                         \/ Serve(Server!Refuse(q) \/ Server!Fail(q))
                         \/ AnswerUnheard(q)
  \/ Restart

Spec == Init /\ [][Next]_vars

(* The handler always goes on, the client's timer always fires, a queued    *)
(* run is not left half queued, and somebody calls Drain again and again:   *)
(* the last is asked of the client's caller, for no code drains yet.        *)
FairSpec ==
  /\ Spec
  /\ WF_vars(ClientDrains)
  /\ WF_vars(Alone(Client!FinishSave \/ Client!FinishClear))
  /\ \A q \in Requests : WF_vars(Serve(Server!Handle(q))) /\ WF_vars(AnswerUnheard(q))

----------------------------------------------------------------------------
(* The type invariant. *)
TypeOK ==
  /\ Client!TypeOK
  /\ Server!TypeOK
  /\ awaited \in Requests \cup {Nobody}
  /\ awaited # Nobody => drain.pc = "waiting" /\ run[awaited] = Client!Job
  /\ losses \in 0 .. MaxLosses

(* What the client drops from its outbox as delivered was granted: the      *)
(* server has spent the run, in this send or an earlier one.                *)
DeliveredWasGranted == \A r \in delivered : applied[r]

(* The runs are granted in the order they were finished, whatever was lost  *)
(* or sent twice, but for those the client was told are refused.            *)
GrantedInOrder ==
  [][\A i, j \in DOMAIN finished :
       i < j /\ applied'[finished[j]] /\ ~applied[finished[j]]
         => applied[finished[i]] \/ finished[i] \in rejected]_vars

(* Once its faults are spent, the network settles every finished run.       *)
EventuallySettled ==
  \A r \in Runs : r \in ToSet(finished) ~> r \in delivered \cup rejected

(* "This is a success to the queue": a run reported delivered is in the     *)
(* child's standing once the server is at rest.                             *)
DeliveredIsRecorded ==
  Server!AtRest => \A r \in delivered : child.runs[r] = 1

(* "Will never succeed by retrying it unchanged": only a run Replay refuses *)
(* is ever rejected.                                                        *)
RejectedIsHopeless == rejected \subseteq Invalid
=============================================================================
