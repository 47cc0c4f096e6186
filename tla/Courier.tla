------------------------------ MODULE Courier ------------------------------
(***************************************************************************)
(* What the outbox promises: a finished run that was accepted is pending   *)
(* until the server has taken or refused it, and the pending runs are      *)
(* settled in the order they were accepted, none skipped and none dropped. *)
(***************************************************************************)
EXTENDS Sequences, SequencesExt

CONSTANT Runs  \* the runs a child may finish

VARIABLES
  pending,  \* the runs accepted and not settled, oldest first
  settled   \* the runs the server has taken or refused

Init == pending = <<>> /\ settled = {}

Accept(r) ==
  /\ r \notin ToSet(pending) \cup settled
  /\ pending' = Append(pending, r)
  /\ UNCHANGED settled

Settle ==
  /\ pending # <<>>
  /\ pending' = Tail(pending)
  /\ settled' = settled \cup {Head(pending)}

Next == Settle \/ \E r \in Runs : Accept(r)

Spec == Init /\ [][Next]_<<pending, settled>>
=============================================================================
