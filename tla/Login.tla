------------------------------- MODULE Login -------------------------------
(***************************************************************************)
(* The children's login (handleChildLogin, LoginChildInFamily), the        *)
(* parents' up to their password (LoginParent; Access has the rest), and   *)
(* the children a parent adds, which all pay for one hash each out of the  *)
(* process's few.  Requests are in progress at once, each statement and    *)
(* each hash a step; the pepper's key is rotated and the server restarted  *)
(* under them.                                                             *)
(*                                                                         *)
(* A hash is the secret it was made from and the version of the key; two   *)
(* secrets never have one hash.                                            *)
(***************************************************************************)
EXTENDS Limiter

CONSTANTS
  Requests,  \* the requests in progress
  Families,  \* the parents, by family code and email
  Children,  \* ids a child has or may be given
  Slots,     \* argon2Sem's size: runtime.NumCPU
  Dummy,     \* the secret the dummy hashes are made from
  First,     \* the child there is to begin with ...
  FirstRow,  \* ... and its row
  \* Bounds of the state space.
  Scenarios, \* sets of what requests may ask; a behaviour keeps to one of them
  MaxVersion

ASSUME LoginAssumption ==
  /\ Slots \in Nat \ {0}
  /\ MaxVersion \in Nat \ {0}
  /\ Doors = {"parent", "child"}
  /\ First \in Children /\ FirstRow.family \in Families /\ FirstRow.hash.version = 1
  /\ "none" \notin Families
  /\ \A asks \in Scenarios : \A ask \in asks :
       /\ ask.door \in Doors \cup {"panel"} /\ ask.key \in Keys /\ ask.family # "none"
       /\ ask.door = "panel" => ask.key \in Children /\ ask.family \in Families

VARIABLES
  parents,   \* the parents' hashes, by family
  children,  \* the children's rows
  sessions,  \* the children's sessions: who got one, through which family, with what
  req,       \* the requests in progress
  slots,     \* argon2Sem: how many of its slots are taken
  dummy,     \* the two onceHash values
  key,       \* the version of the running process's key
  scenario   \* the one of this behaviour

rows == <<parents, children, sessions>>
vars == <<limits, rows, req, slots, dummy, key, scenario>>

----------------------------------------------------------------------------
NoChild == [family |-> "none", hash |-> [version |-> 0, secret |-> Dummy]]
NoHash  == [version |-> 0, secret |-> Dummy]
NoAsk   == [door |-> "none"]
Idle    == [pc |-> "idle", ask |-> NoAsk, right |-> FALSE, met |-> FALSE,
            hash |-> NoHash, answer |-> "none"]

Hashing == {"making", "dummyMaking", "verifying"}
Steps   == Hashing \cup {"idle", "account", "child", "dummy", "dummyMake",
                         "make", "save", "verify", "open", "answered"}

TypeOK ==
  /\ LimiterTypeOK
  /\ \A f \in Families : parents[f].version \in 1 .. MaxVersion
  /\ \A c \in Children :
       children[c] = NoChild \/ (/\ children[c].family \in Families
                                 /\ children[c].hash.version \in 1 .. MaxVersion)
  /\ \A r \in Requests : req[r].pc \in Steps
  /\ slots \in 0 .. Slots
  /\ dummy \in [Doors -> {"cold", "making", "made", "failed"}]
  /\ key \in 1 .. MaxVersion

(* LoadPepper: the current key, and the retired ones, which a rotation      *)
(* moves there.                                                             *)
KeysCurrentOnly(version) == {version}

LoadedKeys(version) == 1 .. version

Init ==
  /\ LimiterInit
  /\ parents = [f \in Families |-> [version |-> 1, secret |-> f]]
  /\ children = [c \in Children |-> IF c = First THEN FirstRow ELSE NoChild]
  /\ sessions = {}
  /\ req = [r \in Requests |-> Idle]
  /\ slots = 0
  /\ dummy = [d \in Doors |-> "cold"]
  /\ key = 1
  /\ scenario \in Scenarios

----------------------------------------------------------------------------
GoesTo(r, step)  == req' = [req EXCEPT ![r].pc = step]
Checks(r, hash)  == req' = [req EXCEPT ![r].pc = "verify", ![r].hash = hash]

Answered(r, what, met) ==
  [Idle EXCEPT !.pc = "answered", !.answer = what, !.right = req[r].right, !.met = met]

Answers(r, what) == req' = [req EXCEPT ![r] = Answered(r, what, FALSE)]

(* A refusal that has nothing to do with what was asked.                    *)
Meets(r, what) == req' = [req EXCEPT ![r] = Answered(r, what, TRUE)]

(* What a parent or a child that knows its secret asks.                     *)
Right(ask) ==
  CASE ask.door = "parent" -> ask.family \in Families /\ parents[ask.family].secret = ask.secret
    [] ask.door = "child"  -> /\ ask.key \in Children
                              /\ children[ask.key].family = ask.family
                              /\ children[ask.key].hash.secret = ask.secret
    [] OTHER               -> TRUE

(* handleLoginPost and handleChildLogin ask their limiter first.            *)
Arrive(r, ask) ==
  /\ req[r].pc = "idle"
  /\ ask.door \in Doors
  /\ Allow(ask.door, ask.key)
  /\ IF Grants(ask.door, ask.key)
     THEN req' = [req EXCEPT ![r] = [Idle EXCEPT !.pc = "account", !.ask = ask,
                                                 !.right = Right(ask)]]
     ELSE Meets(r, "limited")
  /\ UNCHANGED <<rows, slots, dummy, key, scenario>>

(* handleChildrenPost: the pseudo and the pattern are checked; the id is    *)
(* drawn later, and nobody else's.                                          *)
AddChild(r, ask) ==
  /\ req[r].pc = "idle"
  /\ ask.door = "panel"
  /\ children[ask.key] = NoChild
  /\ \A q \in Requests : req[q].ask.door = "panel" => req[q].ask.key # ask.key
  /\ req' = [req EXCEPT ![r] = [Idle EXCEPT !.pc = "make", !.ask = ask, !.right = TRUE]]
  /\ UNCHANGED <<limits, rows, slots, dummy, key, scenario>>

(* ParentByEmail, ParentByFamilyCode. *)
ReadParent(r) ==
  LET ask == req[r].ask
  IN /\ req[r].pc = "account"
     /\ \/ ask.family \notin Families /\ GoesTo(r, "dummy")
        \/ ask.family \in Families /\ ask.door = "child" /\ GoesTo(r, "child")
        \/ ask.family \in Families /\ ask.door # "child" /\ Checks(r, parents[ask.family])
     /\ UNCHANGED <<limits, rows, slots, dummy, key, scenario>>

(* The row of the child, whatever its family. *)
ReadChildAnyFamily(r) ==
  LET ask == req[r].ask
  IN /\ req[r].pc = "child"
     /\ IF ask.key \in Children /\ children[ask.key] # NoChild
        THEN Checks(r, children[ask.key].hash)
        ELSE GoesTo(r, "dummy")
     /\ UNCHANGED <<limits, rows, slots, dummy, key, scenario>>

(* ChildByID; another family's child is an unknown one.                     *)
ReadChild(r) ==
  LET ask == req[r].ask
  IN /\ req[r].pc = "child"
     /\ IF ask.key \in Children /\ children[ask.key].family = ask.family
        THEN Checks(r, children[ask.key].hash)
        ELSE GoesTo(r, "dummy")
     /\ UNCHANGED <<limits, rows, slots, dummy, key, scenario>>

----------------------------------------------------------------------------
(* acquireArgon2Slot: there is no queue. *)
AcquireSlot(r, step) ==
  IF slots < Slots
  THEN slots' = slots + 1 /\ GoesTo(r, step)
  ELSE UNCHANGED slots /\ Meets(r, "refused")

(* onceHash.get, as if an error left its waiters where they are. *)
DummyFailsUnsaid(d) == UNCHANGED dummy

(* The first call's error is kept like its value.                           *)
DummyFails(d) == dummy' = [dummy EXCEPT ![d] = "failed"]

(* The first that needs the dummy makes it; the others wait for it.         *)
GetDummy(r) ==
  LET d == req[r].ask.door
  IN /\ req[r].pc = "dummy"
     /\ dummy[d] # "making"
     /\ CASE dummy[d] = "cold"   -> /\ dummy' = [dummy EXCEPT ![d] = "making"]
                                    /\ GoesTo(r, "dummyMake")
          [] dummy[d] = "failed" -> Answers(r, "refused") /\ UNCHANGED dummy
          [] OTHER               -> Checks(r, NoHash) /\ UNCHANGED dummy
     /\ UNCHANGED <<limits, rows, slots, key, scenario>>

MakeDummy(r) ==
  /\ req[r].pc = "dummyMake"
  /\ AcquireSlot(r, "dummyMaking")
  /\ IF slots < Slots THEN UNCHANGED dummy ELSE DummyFails(req[r].ask.door)
  /\ UNCHANGED <<limits, rows, key, scenario>>

(* The hash, with its slot given back by whoever compares with it. *)
DummyMadeHolding(r) ==
  /\ req[r].pc = "dummyMaking"
  /\ dummy' = [dummy EXCEPT ![req[r].ask.door] = "made"]
  /\ Checks(r, NoHash)
  /\ UNCHANGED <<limits, rows, slots, key, scenario>>

DummyMade(r) ==
  /\ req[r].pc = "dummyMaking"
  /\ slots' = slots - 1
  /\ dummy' = [dummy EXCEPT ![req[r].ask.door] = "made"]
  /\ Checks(r, NoHash)
  /\ UNCHANGED <<limits, rows, key, scenario>>

(* VerifyPassword, VerifyPattern. *)
Verify(r) ==
  /\ req[r].pc = "verify"
  /\ AcquireSlot(r, "verifying")
  /\ UNCHANGED <<limits, rows, dummy, key, scenario>>

(* VerifyHash, the slot given back whatever comes out; the dummy's hash is  *)
(* the running key's, and its outcome is not looked at.                     *)
Verified(r) ==
  LET hash  == req[r].hash
      valid == /\ hash # NoHash
               /\ hash.version \in LoadedKeys(key)
               /\ hash.secret = req[r].ask.secret
  IN /\ req[r].pc = "verifying"
     /\ slots' = slots - 1
     /\ \/ ~ valid /\ Answers(r, "refused")
        \/ valid /\ req[r].ask.door = "parent" /\ Answers(r, "in")
        \/ valid /\ req[r].ask.door # "parent" /\ GoesTo(r, "open")
     /\ UNCHANGED <<limits, rows, dummy, key, scenario>>

(* CreateSession and the answer. *)
OpenSession(r) ==
  /\ req[r].pc = "open"
  /\ sessions' = sessions \cup {[child |-> req[r].ask.key, family |-> req[r].ask.family,
                                 secret |-> req[r].ask.secret]}
  /\ Answers(r, "in")
  /\ UNCHANGED <<limits, parents, children, slots, dummy, key, scenario>>

(* HashPattern for a new child. *)
MakeHash(r) ==
  /\ req[r].pc = "make"
  /\ AcquireSlot(r, "making")
  /\ UNCHANGED <<limits, rows, dummy, key, scenario>>

HashMade(r) ==
  /\ req[r].pc = "making"
  /\ slots' = slots - 1
  /\ req' = [req EXCEPT ![r].pc = "save",
                        ![r].hash = [version |-> key, secret |-> req[r].ask.secret]]
  /\ UNCHANGED <<limits, rows, dummy, key, scenario>>

CreateChild(r) ==
  /\ req[r].pc = "save"
  /\ children' = [children EXCEPT ![req[r].ask.key] =
                    [family |-> req[r].ask.family, hash |-> req[r].hash]]
  /\ Answers(r, "in")
  /\ UNCHANGED <<limits, parents, sessions, slots, dummy, key, scenario>>

(* A statement fails. *)
Fail(r) ==
  /\ req[r].pc \in {"account", "child", "open", "save"}
  /\ Meets(r, "error")
  /\ UNCHANGED <<limits, rows, slots, dummy, key, scenario>>

Leave(r) ==
  /\ req[r].pc = "answered"
  /\ req' = [req EXCEPT ![r] = Idle]
  /\ UNCHANGED <<limits, rows, slots, dummy, key, scenario>>

----------------------------------------------------------------------------
Passes ==
  /\ Elapse
  /\ UNCHANGED <<rows, req, slots, dummy, key, scenario>>

(* The next process reads its keys: those of this one, or a new one with    *)
(* the old among the retired (LoadPepper's rotation).                       *)
Restart ==
  /\ NewLimiter
  /\ req' = [r \in Requests |-> Idle]
  /\ slots' = 0
  /\ dummy' = [d \in Doors |-> "cold"]
  /\ key' \in {v \in {key, key + 1} : v <= MaxVersion}
  /\ UNCHANGED <<rows, scenario>>

Works(r) ==
  \/ ReadParent(r) \/ ReadChild(r) \/ GetDummy(r) \/ MakeDummy(r) \/ DummyMade(r)
  \/ Verify(r) \/ Verified(r) \/ OpenSession(r)
  \/ MakeHash(r) \/ HashMade(r) \/ CreateChild(r)

Next ==
  \/ \E r \in Requests :
       Works(r) \/ Fail(r) \/ Leave(r) \/ \E ask \in scenario : Arrive(r, ask) \/ AddChild(r, ask)
  \/ Passes \/ Restart

(* Every handler runs in a goroutine of its own, which is scheduled.        *)
Spec == Init /\ [][Next]_vars /\ \A r \in Requests : WF_vars(Works(r))

----------------------------------------------------------------------------
(* A child's session is opened for the pattern of that child, through its   *)
(* own family: not for the dummy's pattern, not through another family,     *)
(* whatever is saved between the reads (handleChildLogin's promise).        *)
SessionsAreEarned ==
  \A s \in sessions :
    /\ children[s.child].family = s.family
    /\ children[s.child].hash.secret = s.secret

(* Who knows the secret is not turned away unless the limiter, a saturated  *)
(* semaphore or a failed statement stood in the way: not by a hash written  *)
(* under a key rotated since, nor by what a dummy's making left behind.     *)
RefusedForAReason ==
  \A r \in Requests :
    req[r].pc = "answered" /\ req[r].right /\ req[r].answer # "in" => req[r].met

(* The slots taken are those of the hashes being computed, never more than  *)
(* there are: whatever way a hash ends, its slot comes back, once           *)
(* (acquireArgon2Slot's release).                                           *)
SlotsAreHeld ==
  /\ slots = Cardinality({r \in Requests : req[r].pc \in Hashing})
  /\ slots <= Slots

(* Every request is answered or dies with its process: nobody waits for     *)
(* ever for a dummy hash whose maker was turned away.                       *)
EveryRequestIsAnswered ==
  \A r \in Requests : (req[r].pc # "idle") ~> (req[r].pc \in {"answered", "idle"})

(* An unknown account costs a verification like a known one ("whether the   *)
(* email exists or not", login.go:30): not so once the one attempt to make  *)
(* the dummy met a saturated semaphore.                                     *)
DummyIsMadeInTheEnd == \A d \in Doors : dummy[d] # "failed"
=============================================================================
