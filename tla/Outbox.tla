------------------------------- MODULE Outbox -------------------------------
(***************************************************************************)
(* The client's side of a finished run: RunSession of client/game, which   *)
(* saves the run after every word and queues its finish, and Queue of      *)
(* client/net, the durable outbox, which drains it through a Sender.       *)
(*                                                                         *)
(* The client dies at any step and starts again from what its store holds. *)
(* Every load and every save is a step of its own.                         *)
(***************************************************************************)
EXTENDS Integers, Sequences, SequencesExt

CONSTANTS
  Runs,             \* the runs the server hands out, one after the other
  None,             \* no run
  DrainBlocksPlay,  \* whether whoever calls Drain lets nothing else run
                    \* until it returns
  TornWrites,       \* whether a save that is cut short leaves an unreadable
                    \* slot: os.WriteFile truncates the file before it writes
  MaxKills,         \* bound: how often the client dies
  MaxSaveFailures   \* bound: how often a save, or the making of a request,
                    \* returns an error

ASSUME OutboxAssumption ==
  /\ None \notin Runs
  /\ DrainBlocksPlay \in BOOLEAN
  /\ TornWrites \in BOOLEAN
  /\ MaxKills \in Nat
  /\ MaxSaveFailures \in Nat

VARIABLES
  session,       \* the run being played, in memory
  saved,         \* the run slot of the store
  outbox,        \* the outbox slot of the store: the queued runs
  finish,        \* a call of Finish: its step, and the outbox it loaded
  drain,         \* a call of Drain: its step, its jobs and the next of them
  kills,
  saveFailures,
  \* History.
  started,       \* runs handed out
  kept,          \* runs a save has succeeded for
  finished,      \* runs whose finish was queued, in order
  delivered,     \* runs a Drain reported delivered
  rejected       \* runs a Drain reported rejected

memory  == <<session, finish, drain>>
store   == <<saved, outbox>>
history == <<started, kept, finished, delivered, rejected>>
bounds  == <<kills, saveFailures>>
vars    == <<memory, store, history, bounds>>

----------------------------------------------------------------------------
(* Result of client/net, and what SendFinish makes of a status.             *)
Results == {"applied", "alreadyApplied", "rejected", "unreachable"}

ResultOfLenient(status) ==
  IF status \in {"500", "dropped"} THEN "unreachable" ELSE "applied"

ResultOf(status) ==
  CASE status = "200"               -> "applied"
    [] status = "409"               -> "alreadyApplied"
    [] status \in {"500", "dropped"} -> "unreachable"
    [] OTHER                        -> "rejected"

Settled == delivered \cup rejected

NotFinishing == [pc |-> "none", jobs |-> <<>>]
NotDraining  == [pc |-> "none", jobs |-> <<>>, at |-> 1]

MayFinish == DrainBlocksPlay => drain.pc = "none"
MayDrain  == DrainBlocksPlay => finish.pc = "none"

SaveFails ==
  /\ saveFailures < MaxSaveFailures
  /\ saveFailures' = saveFailures + 1

Init ==
  /\ session = None
  /\ saved = None
  /\ outbox = <<>>
  /\ finish = NotFinishing
  /\ drain = NotDraining
  /\ kills = 0
  /\ saveFailures = 0
  /\ started = {}
  /\ kept = {}
  /\ finished = <<>>
  /\ delivered = {}
  /\ rejected = {}

----------------------------------------------------------------------------
(* NewRunSession, over a run the server just started: nothing is saved yet. *)
StartRun(r) ==
  /\ session = None
  /\ saved = None
  /\ r \notin started
  /\ session' = r
  /\ started' = started \cup {r}
  /\ UNCHANGED <<finish, drain, store, kept, finished, delivered, rejected, bounds>>

(* ResumeRunSession, when the store holds a run that can be read. *)
ResumeRun ==
  /\ session = None
  /\ saved # None
  /\ session' = saved
  /\ UNCHANGED <<finish, drain, store, history, bounds>>

(* RecordAttempt: the run slot after every word, or an error and a run that *)
(* is only in memory.                                                       *)
RecordAttempt ==
  /\ session # None
  /\ finish.pc = "none"
  /\ \/ /\ saved' = session
        /\ kept' = kept \cup {session}
        /\ UNCHANGED saveFailures
     \/ /\ SaveFails
        /\ UNCHANGED <<saved, kept>>
  /\ UNCHANGED <<memory, outbox, started, finished, delivered, rejected, kills>>

(* Finish is Enqueue, which loads the outbox and saves it one job longer,   *)
(* and then ClearRunState.                                                  *)
FinishLoadClearing ==
  /\ session # None
  /\ finish.pc = "none"
  /\ MayFinish
  /\ finish' = [pc |-> "loaded", jobs |-> outbox]
  /\ saved' = None
  /\ UNCHANGED <<session, drain, outbox, history, bounds>>

FinishLoad ==
  /\ session # None
  /\ finish.pc = "none"
  /\ MayFinish
  /\ finish' = [pc |-> "loaded", jobs |-> outbox]
  /\ UNCHANGED <<session, drain, store, history, bounds>>

FinishSave ==
  /\ finish.pc = "loaded"
  /\ MayFinish
  /\ \/ /\ outbox' = Append(finish.jobs, session)
        /\ finish' = [finish EXCEPT !.pc = "queued"]
        /\ kept' = kept \cup {session}
        /\ finished' = IF session \in ToSet(finished) THEN finished
                                                      ELSE Append(finished, session)
        /\ UNCHANGED saveFailures
     \/ /\ SaveFails
        /\ finish' = NotFinishing
        /\ UNCHANGED <<outbox, kept, finished>>
  /\ UNCHANGED <<session, drain, saved, started, delivered, rejected, kills>>

FinishClear ==
  /\ finish.pc = "queued"
  /\ MayFinish
  /\ \/ /\ saved' = None
        /\ session' = None
        /\ UNCHANGED saveFailures
     \/ /\ SaveFails
        /\ UNCHANGED <<saved, session>>
  /\ finish' = NotFinishing
  /\ UNCHANGED <<drain, outbox, history, kills>>

----------------------------------------------------------------------------
(* Drain loads the outbox once, sends its jobs one by one, and stops at the *)
(* first the server could not be reached for.                               *)
StartDrain ==
  /\ drain.pc = "none"
  /\ MayDrain
  /\ drain' = [pc |-> "sending", jobs |-> outbox, at |-> 1]
  /\ UNCHANGED <<session, finish, store, history, bounds>>

Sending == drain.pc = "sending" /\ drain.at <= Len(drain.jobs)
Job     == drain.jobs[drain.at]

Send ==
  /\ Sending
  /\ drain' = [drain EXCEPT !.pc = "waiting"]
  /\ UNCHANGED <<session, finish, store, history, bounds>>

(* The request cannot be made: Drain returns, and saves nothing. *)
SendUnmade ==
  /\ Sending
  /\ SaveFails
  /\ drain' = NotDraining
  /\ UNCHANGED <<session, finish, store, history, kills>>

(* The loop goes on whatever the reply, as if a failure ended only one job. *)
ReplyGoesOn(result) ==
  /\ drain.pc = "waiting"
  /\ drain' = [drain EXCEPT !.pc = "sending", !.at = @ + 1]
  /\ delivered' = IF result \in {"applied", "alreadyApplied"} THEN delivered \cup {Job} ELSE delivered
  /\ rejected' = IF result = "rejected" THEN rejected \cup {Job} ELSE rejected
  /\ UNCHANGED <<session, finish, store, started, kept, finished, bounds>>

Reply(result) ==
  /\ drain.pc = "waiting"
  /\ drain' = IF result = "unreachable"
              THEN [drain EXCEPT !.pc = "saving"]
              ELSE [drain EXCEPT !.pc = "sending", !.at = @ + 1]
  /\ delivered' = IF result \in {"applied", "alreadyApplied"} THEN delivered \cup {Job} ELSE delivered
  /\ rejected' = IF result = "rejected" THEN rejected \cup {Job} ELSE rejected
  /\ UNCHANGED <<session, finish, store, started, kept, finished, bounds>>

(* What is left is persisted over whatever the outbox holds by now. *)
DrainEnds == drain.pc = "saving" \/ (drain.pc = "sending" /\ ~Sending)

DrainSave ==
  /\ DrainEnds
  /\ \/ /\ outbox' = SubSeq(drain.jobs, drain.at, Len(drain.jobs))
        /\ UNCHANGED saveFailures
     \/ /\ SaveFails
        /\ UNCHANGED outbox
  /\ drain' = NotDraining
  /\ UNCHANGED <<session, finish, saved, history, kills>>

----------------------------------------------------------------------------
(* The tab is closed or the process killed.  A save that was under way may  *)
(* leave its slot unreadable, which reads back as empty.                    *)
Kill ==
  /\ kills < MaxKills
  /\ kills' = kills + 1
  /\ session' = None
  /\ finish' = NotFinishing
  /\ drain' = NotDraining
  /\ \/ UNCHANGED store
     \/ /\ TornWrites
        /\ finish.pc = "loaded" \/ DrainEnds
        /\ outbox' = <<>>
        /\ UNCHANGED saved
     \/ /\ TornWrites
        /\ session # None
        /\ finish.pc = "none"
        /\ saved' = None
        /\ UNCHANGED outbox
  /\ UNCHANGED <<history, saveFailures>>

Play  == (\E r \in Runs : StartRun(r)) \/ ResumeRun \/ RecordAttempt
Queue == FinishLoad \/ FinishSave \/ FinishClear
Drain == StartDrain \/ Send \/ SendUnmade \/ (\E result \in Results : Reply(result)) \/ DrainSave

Next == Play \/ Queue \/ Drain \/ Kill

Spec == Init /\ [][Next]_vars

----------------------------------------------------------------------------
(* The type invariant. *)
TypeOK ==
  /\ session \in Runs \cup {None}
  /\ saved \in Runs \cup {None}
  /\ outbox \in Seq(Runs)
  /\ finish \in [pc: {"none", "loaded", "queued"}, jobs: Seq(Runs)]
  /\ finish.pc # "none" => session \in Runs
  /\ drain \in [pc: {"none", "sending", "waiting", "saving"}, jobs: Seq(Runs), at: Nat \ {0}]
  /\ drain.at <= Len(drain.jobs) + 1
  /\ drain.pc = "waiting" => drain.at <= Len(drain.jobs)
  /\ kills \in 0 .. MaxKills
  /\ saveFailures \in 0 .. MaxSaveFailures
  /\ started \subseteq Runs /\ kept \subseteq Runs
  /\ finished \in Seq(Runs)
  /\ delivered \subseteq Runs /\ rejected \subseteq Runs

(* Closing the tab, losing the connection or a full disk loses nothing that *)
(* was once saved: until the server has taken or refused a run, the store   *)
(* holds it, in the run slot or in the outbox.                              *)
NothingLost ==
  \A r \in kept : r = saved \/ r \in ToSet(outbox) \/ r \in Settled

(* The outbox is durable: a run whose finish was queued stays queued until  *)
(* the server has taken or refused it.                                      *)
QueuedSurvives == ToSet(finished) \subseteq ToSet(outbox) \cup Settled

(* A later run's finish never overtakes an earlier one, and none is skipped:*)
(* what is pending is what was finished after the last run to be settled    *)
(* in its turn.                                                             *)
SettledInTurn ==
  CHOOSE n \in 0 .. Len(finished) :
    /\ \A i \in 1 .. n : finished[i] \in Settled
    /\ n < Len(finished) => finished[n + 1] \notin Settled

Pending == SubSeq(finished, SettledInTurn + 1, Len(finished))

Promise == INSTANCE Courier WITH pending <- Pending, settled <- Settled

ImplementsCourier == Promise!Spec
=============================================================================
