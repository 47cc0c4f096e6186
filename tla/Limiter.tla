------------------------------ MODULE Limiter ------------------------------
(***************************************************************************)
(* auth.Limiter: a token bucket per key, for as many keys as it may track, *)
(* the least recently used one forgotten to make room for a new one.  The  *)
(* program has two, before the parents' and the children's login.          *)
(*                                                                         *)
(* Time counts the periods in which a bucket earns one token.              *)
(***************************************************************************)
EXTENDS Integers, FiniteSets, Sequences, SequencesExt

CONSTANTS
  Doors,    \* the limiters of the process
  Keys,     \* what a limiter may be asked about: an address, a child's id
  MaxKeys,  \* how many keys one limiter tracks
  Burst     \* the tokens of a full bucket: perMinute

ASSUME LimiterAssumption == MaxKeys \in Nat \ {0} /\ Burst \in Nat \ {0}

VARIABLES
  order,   \* the tracked keys of each limiter, the most recently used first
  tokens,  \* the tokens of every key; one that is not tracked would start full
  \* History, read by AllowanceIsKept alone.
  owed,    \* what a limiter that forgets nobody would hold against each key
  others   \* the keys that were asked about since each key was

limits == <<order, tokens, owed, others>>

LimiterTypeOK ==
  /\ \A d \in Doors :
       /\ ToSet(order[d]) \subseteq Keys
       /\ Len(order[d]) = Cardinality(ToSet(order[d]))
       /\ Len(order[d]) <= MaxKeys
  /\ tokens \in [Doors -> [Keys -> 0 .. Burst]]
  /\ owed \in [Doors -> [Keys -> Nat]]
  /\ others \in [Doors -> [Keys -> SUBSET Keys]]

NewLimiter ==
  /\ order' = [d \in Doors |-> << >>]
  /\ tokens' = [d \in Doors |-> [k \in Keys |-> Burst]]
  /\ owed' = [d \in Doors |-> [k \in Keys |-> 0]]
  /\ others' = [d \in Doors |-> [k \in Keys |-> {}]]

LimiterInit ==
  /\ order = [d \in Doors |-> << >>]
  /\ tokens = [d \in Doors |-> [k \in Keys |-> Burst]]
  /\ owed = [d \in Doors |-> [k \in Keys |-> 0]]
  /\ others = [d \in Doors |-> [k \in Keys |-> {}]]

----------------------------------------------------------------------------
Tracked(d, k) == k \in ToSet(order[d])

(* evictOldestLocked. *)
RoomForOne(d) == IF Len(order[d]) < MaxKeys THEN order[d] ELSE Front(order[d])

(* The order as a plain queue would keep it, a key's place being that of    *)
(* its first use.                                                           *)
UsedQueue(d, k) == IF Tracked(d, k) THEN order[d] ELSE <<k>> \o RoomForOne(d)

Used(d, k) ==
  <<k>> \o (IF Tracked(d, k)
            THEN RemoveAt(order[d], CHOOSE n \in DOMAIN order[d] : order[d][n] = k)
            ELSE RoomForOne(d))

Grants(d, k) == tokens[d][k] > 0

Taken(d, k) == IF Grants(d, k) THEN 1 ELSE 0

(* The history's limiter forgives a key only if MaxKeys others have been    *)
(* asked about since.                                                       *)
Remember(d, k) ==
  LET forgiven == Cardinality(others[d][k]) >= MaxKeys
  IN /\ owed' = [owed EXCEPT ![d][k] = (IF forgiven THEN 0 ELSE @) + Taken(d, k)]
     /\ others' = [others EXCEPT ![d] =
                     [j \in Keys |->
                        IF j = k \/ owed'[d][j] = 0 THEN {}
                        ELSE others[d][j] \cup {k}]]

(* Allow; what it answers is Grants. *)
Allow(d, k) ==
  LET kept == Used(d, k)
  IN /\ order' = [order EXCEPT ![d] = kept]
     /\ tokens' = [tokens EXCEPT ![d] =
                     [j \in Keys |-> IF j \notin ToSet(kept) THEN Burst
                                     ELSE IF j = k THEN tokens[d][k] - Taken(d, k)
                                     ELSE tokens[d][j]]]
     /\ Remember(d, k)

(* Every bucket earns a token, up to a full one; so would the history's.    *)
(* A key that owes nothing needs no history.                                *)
Elapse ==
  /\ tokens' = [d \in Doors |->
                  [k \in Keys |-> IF tokens[d][k] < Burst THEN tokens[d][k] + 1 ELSE Burst]]
  /\ owed' = [d \in Doors |-> [k \in Keys |-> IF owed[d][k] > 0 THEN owed[d][k] - 1 ELSE 0]]
  /\ others' = [d \in Doors |-> [k \in Keys |-> IF owed[d][k] > 1 THEN others[d][k] ELSE {}]]
  /\ UNCHANGED order

----------------------------------------------------------------------------
(* A key is let through at most Burst times, and once more for each period  *)
(* that passes, unless MaxKeys other keys came in between: whatever the     *)
(* order in which keys come, no smaller crowd makes the limiter forget what *)
(* a key has spent.                                                         *)
AllowanceIsKept == \A d \in Doors, k \in Keys : owed[d][k] <= Burst
=============================================================================
