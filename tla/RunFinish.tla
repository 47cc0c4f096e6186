----------------------------- MODULE RunFinish -----------------------------
(***************************************************************************)
(* POST /run/{id}/finish on the server: handleRunFinish of                 *)
(* server/api/run.go over the rows of server/store, one child, several     *)
(* requests at once, and the parent's settings page saving the same row.   *)
(*                                                                         *)
(* Each statement the handler sends the database is a step of its own;     *)
(* what it computes between two statements belongs to the step before.     *)
(* What a run leaves in a row is counted, run by run: a row that holds a   *)
(* run twice has gilded the same word twice, and a row that no longer      *)
(* holds a run it once held has lost it.                                   *)
(***************************************************************************)
EXTENDS Integers, FiniteSets

CONSTANTS
  Runs,        \* the child's runs, started and persisted by handleRunStart
  Requests,    \* requests that may be in progress at once
  Words,       \* the words of the child's decks
  Touched,     \* Touched[r]: the words run r has attempts on
  Invalid,     \* the runs whose attempts Replay refuses
  Unappliable, \* the runs Replay accepts, for it stops at the manche they
               \* fail in, with a later attempt on a word outside the deck
  Paying,      \* the runs with an answer GainXP pays for
  LevelsKnown, \* whether the child's row carries a level map; the row that
               \* server/parent/children.go creates carries none
  None,        \* no run
  \* Bounds of the state space.
  MaxFaults,   \* failed statements, refused sessions and restarts
  MaxSettings  \* saves of the settings page

ASSUME RunFinishAssumption ==
  /\ Touched \in [Runs -> SUBSET Words]
  /\ Invalid \subseteq Runs
  /\ Unappliable \subseteq Runs
  /\ Paying \subseteq Runs
  /\ LevelsKnown \in BOOLEAN
  /\ None \notin Runs
  /\ MaxFaults \in Nat
  /\ MaxSettings \in Nat

VARIABLES
  applied,    \* runs.applied, per run
  child,      \* the children row: the runs in its standing, and its settings
  words,      \* the word_states rows: the runs recorded in each word
  pc,         \* where each request stands
  run,        \* the run each request finishes
  childCopy,  \* the row each request read
  wordsCopy,  \* the word states each request read
  code,       \* the status each request answers
  settings,   \* the settings page: its step, and the row it read
  faults

rows     == <<applied, child, words>>
requests == <<pc, run, childCopy, wordsCopy, code>>
vars     == <<rows, requests, settings, faults>>

----------------------------------------------------------------------------
Steps == {"idle", "arrived", "readChild", "readWords", "mark", "saveChild",
          "saveWords", "answer"}

Codes == {"none", "200", "400", "401", "409", "500", "dropped"}

Counts    == [Runs -> Nat]
Never     == [r \in Runs |-> 0]
ChildRows == [runs: Counts, settings: Nat]
EmptyRow  == [runs |-> Never, settings |-> 0]
NoWords   == [w \in Words |-> Never]

Plus(counts, r) == [counts EXCEPT ![r] = @ + 1]

(* Apply, on the word states the handler holds. *)
Recorded(states, r) ==
  [w \in Words |-> IF w \in Touched[r] THEN Plus(states[w], r) ELSE states[w]]

(* SaveWordStates upserts the states it is given, one per word the handler  *)
(* read or the run touched; a word that was unmet then keeps its row.       *)
Upserted(states, r) ==
  [w \in Words |->
     IF w \in Touched[r] \/ states[w] # Never THEN Recorded(states, r)[w] ELSE words[w]]

(* GainXP on a child whose row carries no level map writes to a nil map.    *)
Panics(r) == ~LevelsKnown /\ r \in Paying

----------------------------------------------------------------------------
Init ==
  /\ applied = [r \in Runs |-> FALSE]
  /\ child = EmptyRow
  /\ words = NoWords
  /\ pc = [q \in Requests |-> "idle"]
  /\ run = [q \in Requests |-> None]
  /\ childCopy = [q \in Requests |-> EmptyRow]
  /\ wordsCopy = [q \in Requests |-> NoWords]
  /\ code = [q \in Requests |-> "none"]
  /\ settings = [pc |-> "idle", row |-> EmptyRow]
  /\ faults = 0

(* The request ends with a status: nothing it held outlives it. *)
Answers(q, status) ==
  /\ pc' = [pc EXCEPT ![q] = "answer"]
  /\ code' = [code EXCEPT ![q] = status]
  /\ childCopy' = [childCopy EXCEPT ![q] = EmptyRow]
  /\ wordsCopy' = [wordsCopy EXCEPT ![q] = NoWords]
  /\ UNCHANGED run

GoesTo(q, step) ==
  /\ pc' = [pc EXCEPT ![q] = step]
  /\ UNCHANGED <<run, code>>

(* A finish for a run reaches the server. *)
Arrive(q, r) ==
  /\ pc[q] = "idle"
  /\ pc' = [pc EXCEPT ![q] = "arrived"]
  /\ run' = [run EXCEPT ![q] = r]
  /\ UNCHANGED <<rows, childCopy, wordsCopy, code, settings, faults>>

(* childSession, ownRun and the body's caps: the request may go on.  The    *)
(* client of Outbox finishes its own runs, with bodies within the caps.     *)
Admit(q) ==
  /\ pc[q] = "arrived"
  /\ GoesTo(q, "readChild")
  /\ UNCHANGED <<rows, childCopy, wordsCopy, settings, faults>>

(* childSession: any error of the session lookup, an expired session or a   *)
(* database that failed, is a 401.                                          *)
Refuse(q) ==
  /\ pc[q] = "arrived"
  /\ faults < MaxFaults
  /\ faults' = faults + 1
  /\ Answers(q, "401")
  /\ UNCHANGED <<rows, settings>>

(* ChildByID. *)
ReadChild(q) ==
  /\ pc[q] = "readChild"
  /\ childCopy' = [childCopy EXCEPT ![q] = child]
  /\ GoesTo(q, "readWords")
  /\ UNCHANGED <<rows, wordsCopy, settings, faults>>

(* WordStates, then Replay, which refuses a run that could not have been    *)
(* played before anything is spent on it.                                   *)
ReadWordsSkippingReplay(q) ==
  /\ pc[q] = "readWords"
  /\ wordsCopy' = [wordsCopy EXCEPT ![q] = words]
  /\ GoesTo(q, "mark")
  /\ UNCHANGED <<rows, childCopy, settings, faults>>

ReadWords(q) ==
  /\ pc[q] = "readWords"
  /\ \/ /\ run[q] \in Invalid
        /\ Answers(q, "400")
     \/ /\ run[q] \notin Invalid
        /\ wordsCopy' = [wordsCopy EXCEPT ![q] = words]
        /\ GoesTo(q, "mark")
        /\ UNCHANGED childCopy
  /\ UNCHANGED <<rows, settings, faults>>

(* MarkApplied: one UPDATE ... WHERE applied = 0 decides, for every request *)
(* that finishes this run, whether its effects are written at all.          *)
MarkAppliedAlways(q) ==
  /\ pc[q] = "mark"
  /\ applied' = [applied EXCEPT ![run[q]] = TRUE]
  /\ GoesTo(q, "saveChild")
  /\ UNCHANGED <<childCopy, wordsCopy, child, words, settings, faults>>

MarkAppliedOr500(q) ==
  /\ pc[q] = "mark"
  /\ \/ /\ applied[run[q]]
        /\ Answers(q, "500")
        /\ UNCHANGED applied
     \/ /\ ~applied[run[q]]
        /\ applied' = [applied EXCEPT ![run[q]] = TRUE]
        /\ GoesTo(q, "saveChild")
        /\ UNCHANGED <<childCopy, wordsCopy>>
  /\ UNCHANGED <<child, words, settings, faults>>

MarkApplied(q) ==
  /\ pc[q] = "mark"
  /\ \/ /\ applied[run[q]]
        /\ Answers(q, "409")
        /\ UNCHANGED applied
     \/ /\ ~applied[run[q]]
        /\ applied' = [applied EXCEPT ![run[q]] = TRUE]
        /\ GoesTo(q, "saveChild")
        /\ UNCHANGED <<childCopy, wordsCopy>>
  /\ UNCHANGED <<child, words, settings, faults>>

(* Apply on the copies, then SaveChild: every column of the row, from the   *)
(* copy.  An error of Apply ends the request with a 500, and a panic in it   *)
(* drops the connection; whichever attempt comes first decides.             *)
SaveChild(q) ==
  /\ pc[q] = "saveChild"
  /\ \/ /\ Panics(run[q])
        /\ Answers(q, "dropped")
        /\ UNCHANGED child
     \/ /\ run[q] \in Unappliable
        /\ Answers(q, "500")
        /\ UNCHANGED child
     \/ /\ ~Panics(run[q])
        /\ run[q] \notin Unappliable
        /\ child' = [childCopy[q] EXCEPT !.runs = Plus(@, run[q])]
        /\ GoesTo(q, "saveWords")
        /\ UNCHANGED <<childCopy, wordsCopy>>
  /\ UNCHANGED <<applied, words, settings, faults>>

(* SaveWordStates, one transaction; then the 200. *)
SaveWords(q) ==
  /\ pc[q] = "saveWords"
  /\ words' = Upserted(wordsCopy[q], run[q])
  /\ Answers(q, "200")
  /\ UNCHANGED <<applied, child, settings, faults>>

(* A statement fails: the database is busy, the disk is full, or the client *)
(* hung up and its request's context went with it.                          *)
Fail(q) ==
  /\ pc[q] \in {"arrived", "readChild", "readWords", "mark", "saveChild", "saveWords"}
  /\ faults < MaxFaults
  /\ faults' = faults + 1
  /\ Answers(q, "500")
  /\ UNCHANGED <<rows, settings>>

(* The answer leaves the server. *)
Leave(q) ==
  /\ pc[q] = "answer"
  /\ pc' = [pc EXCEPT ![q] = "idle"]
  /\ run' = [run EXCEPT ![q] = None]
  /\ code' = [code EXCEPT ![q] = "none"]
  /\ UNCHANGED <<rows, childCopy, wordsCopy, settings, faults>>

(* The server restarts: the rows are all that is left. *)
Restart ==
  /\ faults < MaxFaults
  /\ faults' = faults + 1
  /\ pc' = [q \in Requests |-> "idle"]
  /\ run' = [q \in Requests |-> None]
  /\ childCopy' = [q \in Requests |-> EmptyRow]
  /\ wordsCopy' = [q \in Requests |-> NoWords]
  /\ code' = [q \in Requests |-> "none"]
  /\ settings' = [pc |-> "idle", row |-> EmptyRow]
  /\ UNCHANGED rows

(* handleSettingsPost: the parent's page reads the row, changes the         *)
(* settings in it, and saves the whole of it.                               *)
OpenSettings ==
  /\ settings.pc = "idle"
  /\ settings' = [pc |-> "read", row |-> child]
  /\ UNCHANGED <<rows, requests, faults>>

SaveSettings ==
  /\ settings.pc = "read"
  /\ child.settings < MaxSettings
  /\ child' = [settings.row EXCEPT !.settings = @ + 1]
  /\ settings' = [pc |-> "idle", row |-> EmptyRow]
  /\ UNCHANGED <<applied, words, requests, faults>>

Handle(q) ==
  Admit(q) \/ ReadChild(q) \/ ReadWords(q) \/ MarkApplied(q) \/ SaveChild(q) \/ SaveWords(q)

Next ==
  \/ \E q \in Requests, r \in Runs : Arrive(q, r)
  \/ \E q \in Requests : Handle(q) \/ Refuse(q) \/ Fail(q) \/ Leave(q)
  \/ Restart
  \/ OpenSettings \/ SaveSettings

Spec == Init /\ [][Next]_vars

----------------------------------------------------------------------------
(* The type invariant. *)
TypeOK ==
  /\ applied \in [Runs -> BOOLEAN]
  /\ child \in ChildRows
  /\ words \in [Words -> Counts]
  /\ pc \in [Requests -> Steps]
  /\ run \in [Requests -> Runs \cup {None}]
  /\ \A q \in Requests : pc[q] # "idle" => run[q] \in Runs
  /\ childCopy \in [Requests -> ChildRows]
  /\ wordsCopy \in [Requests -> [Words -> Counts]]
  /\ code \in [Requests -> Codes]
  /\ settings \in [pc: {"idle", "read"}, row: ChildRows]
  /\ faults \in 0 .. MaxFaults

(* Idempotence, end to end: however often a finish is sent, and however the *)
(* requests interleave, no row ever holds a run twice.                      *)
AppliedAtMostOnce ==
  \A r \in Runs :
    /\ child.runs[r] <= 1
    /\ \A w \in Words : words[w][r] <= 1

(* What is in a row was paid for: MarkApplied granted the run its one       *)
(* chance, and Replay had accepted it.                                      *)
WrittenWasGranted ==
  \A r \in Runs :
    child.runs[r] > 0 \/ (\E w \in Words : words[w][r] > 0)
      => applied[r] /\ r \notin Invalid

(* Every request that is past MarkApplied finishes a run of its own.        *)
Writing(q) == pc[q] \in {"saveChild", "saveWords"}

OneWriterPerRun ==
  \A p, q \in Requests :
    Writing(p) /\ Writing(q) /\ run[p] = run[q] => p = q

(* "Exactly once per run": once the server is at rest, a run marked applied *)
(* is in the child's standing and in every word it touched.                 *)
AtRest == \A q \in Requests : ~Writing(q)

AppliedExactlyOnce ==
  AtRest =>
    \A r \in Runs :
      applied[r] =>
        /\ child.runs[r] = 1
        /\ \A w \in Touched[r] : words[w][r] = 1

(* A run that Replay refused has spent nothing: sent again, repaired, it    *)
(* would be applied.                                                        *)
InvalidSpendsNothing == \A r \in Invalid : ~applied[r]

(* What the settings page saved stays saved.                                *)
SettingsKept == [][child'.settings >= child.settings]_vars
=============================================================================
