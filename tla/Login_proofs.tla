---------------------------- MODULE Login_proofs ----------------------------
(***************************************************************************)
(* Proofs about Login and its limiters, for any number of requests, of     *)
(* children, of keys and of slots: an allowance is kept, a session is      *)
(* earned, nobody is refused without a reason.                             *)
(***************************************************************************)
EXTENDS Login, FiniteSetTheorems, TLAPS

(* What a limiter is made of. *)
LimiterTypes ==
  /\ order \in [Doors -> Seq(Keys)]
  /\ tokens \in [Doors -> [Keys -> 0 .. Burst]]
  /\ owed \in [Doors -> [Keys -> Nat]]
  /\ others \in [Doors -> [Keys -> SUBSET Keys]]

(* No limiter tracks a key twice, or more keys than it may. *)
TracksFew ==
  \A d \in Doors :
    /\ Len(order[d]) <= MaxKeys
    /\ \A i, j \in 1 .. Len(order[d]) : order[d][i] = order[d][j] => i = j

FewOthers == \A d \in Doors, k \in Keys : IsFiniteSet(others[d][k])

(* Every key before this one in the order was asked about since this one. *)
Followed(d, k, i) == \A h \in 1 .. i - 1 : order[d][h] \in others[d][k]

(* A key that owes something has spent what it owes, if it is tracked, and *)
(* those before it came since; if not, enough others came since. *)
DebtIsSpent ==
  \A d \in Doors, k \in Keys :
    owed[d][k] > 0 =>
      /\ \A i \in 1 .. Len(order[d]) :
           order[d][i] = k => owed[d][k] + tokens[d][k] <= Burst /\ Followed(d, k, i)
      /\ ~ Tracked(d, k) => Cardinality(others[d][k]) >= MaxKeys

LimiterInv ==
  /\ LimiterTypes
  /\ TracksFew
  /\ FewOthers
  /\ DebtIsSpent
  /\ AllowanceIsKept

(* A sequence with one place taken out: what was before stays, what was    *)
(* behind moves up.                                                        *)
LEMMA WithoutPlace ==
  ASSUME NEW S, NEW q \in Seq(S), NEW p \in 1 .. Len(q)
  PROVE  /\ RemoveAt(q, p) \in Seq(S)
         /\ Len(RemoveAt(q, p)) = Len(q) - 1
         /\ \A i \in 1 .. p - 1 : RemoveAt(q, p)[i] = q[i]
         /\ \A i \in p .. Len(q) - 1 : RemoveAt(q, p)[i] = q[i + 1]
<1> DEFINE left == SubSeq(q, 1, p - 1)
           right == SubSeq(q, p + 1, Len(q))
<1>1. left \in Seq(S) /\ Len(left) = p - 1 /\ \A i \in 1 .. p - 1 : left[i] = q[i]
  OBVIOUS
<1>2. /\ right \in Seq(S) /\ Len(right) = Len(q) - p
      /\ \A i \in 1 .. Len(q) - p : right[i] = q[p + i]
  OBVIOUS
<1> HIDE DEF left, right
<1>3. left \o right \in Seq(S) /\ Len(left \o right) = Len(q) - 1
  <2>1. \A s, t \in Seq(S) : s \o t \in Seq(S) /\ Len(s \o t) = Len(s) + Len(t)
    OBVIOUS
  <2>2. Len(q) \in Nat
    OBVIOUS
  <2>3. left \o right \in Seq(S) /\ Len(left \o right) = Len(left) + Len(right)
    BY <1>1, <1>2, <2>1
  <2> QED BY <1>1, <1>2, <2>2, <2>3
<1>4. ASSUME NEW i \in 1 .. p - 1 PROVE (left \o right)[i] = q[i]
  BY <1>1, <1>2
<1>5. ASSUME NEW i \in p .. Len(q) - 1 PROVE (left \o right)[i] = q[i + 1]
  <2>1. i - (p - 1) \in 1 .. Len(q) - p /\ p + (i - (p - 1)) = i + 1
    OBVIOUS
  <2>2. (left \o right)[i] = right[i - (p - 1)]
    BY <1>1, <1>2, <2>1
  <2> QED BY <1>2, <2>1, <2>2
<1>6. RemoveAt(q, p) = left \o right
  BY DEF RemoveAt, left, right
<1> QED BY <1>3, <1>4, <1>5, <1>6

(* A key put before a sequence. *)
LEMMA BeforeAll ==
  ASSUME NEW S, NEW k \in S, NEW q \in Seq(S)
  PROVE  /\ <<k>> \o q \in Seq(S)
         /\ Len(<<k>> \o q) = Len(q) + 1
         /\ (<<k>> \o q)[1] = k
         /\ \A i \in 1 .. Len(q) : (<<k>> \o q)[i + 1] = q[i]
OBVIOUS

(* Where the keys are after one was used: a tracked one leaves its place,  *)
(* and only those before it move ...                                       *)
LEMMA UsedTracked ==
  ASSUME LimiterTypes, TracksFew, NEW d \in Doors, NEW k \in Keys, Tracked(d, k)
  PROVE  \E p \in 1 .. Len(order[d]) :
           /\ order[d][p] = k
           /\ Used(d, k) \in Seq(Keys)
           /\ Len(Used(d, k)) = Len(order[d])
           /\ Used(d, k)[1] = k
           /\ \A i \in 1 .. p - 1 : Used(d, k)[i + 1] = order[d][i]
           /\ \A i \in p + 1 .. Len(order[d]) : Used(d, k)[i] = order[d][i]
<1> DEFINE q == order[d]
           p == CHOOSE n \in DOMAIN q : q[n] = k
           u == RemoveAt(q, p)
<1>1. q \in Seq(Keys)
  BY DEF LimiterTypes
<1>2. p \in 1 .. Len(q) /\ q[p] = k
  BY <1>1 DEF Tracked, ToSet
<1>3. Used(d, k) = <<k>> \o u
  BY DEF Used
<1> HIDE DEF q, p
<1>4. /\ u \in Seq(Keys) /\ Len(u) = Len(q) - 1
      /\ \A i \in 1 .. p - 1 : u[i] = q[i]
      /\ \A i \in p .. Len(q) - 1 : u[i] = q[i + 1]
  BY <1>1, <1>2, WithoutPlace
<1> HIDE DEF u
<1>5. /\ <<k>> \o u \in Seq(Keys)
      /\ Len(<<k>> \o u) = Len(u) + 1
      /\ (<<k>> \o u)[1] = k
      /\ \A i \in 1 .. Len(u) : (<<k>> \o u)[i + 1] = u[i]
  BY <1>4, BeforeAll
<1>6. Len(u) + 1 = Len(q)
  BY <1>1, <1>4
<1>7. ASSUME NEW i \in 1 .. p - 1 PROVE Used(d, k)[i + 1] = q[i]
  <2>1. i \in 1 .. Len(u)
    BY <1>1, <1>2, <1>4
  <2> QED BY <1>3, <1>4, <1>5, <2>1
<1>8. ASSUME NEW i \in p + 1 .. Len(q) PROVE Used(d, k)[i] = q[i]
  <2>1. i - 1 \in 1 .. Len(u) /\ i - 1 \in p .. Len(q) - 1 /\ (i - 1) + 1 = i
    BY <1>1, <1>2, <1>4
  <2> HIDE <1>7
  <2> QED BY <1>3, <1>4, <1>5, <2>1
<1>9. Used(d, k) \in Seq(Keys) /\ Len(Used(d, k)) = Len(q) /\ Used(d, k)[1] = k
  BY <1>3, <1>5, <1>6
<1> QED BY <1>2, <1>7, <1>8, <1>9 DEF q

(* ... and a new one pushes all of them, the last of them out if the table *)
(* is full.                                                                *)
LEMMA UsedNew ==
  ASSUME LimiterTypes, TracksFew, LimiterAssumption,
         NEW d \in Doors, NEW k \in Keys, ~ Tracked(d, k)
  PROVE  /\ Used(d, k) \in Seq(Keys)
         /\ Len(Used(d, k)) = IF Len(order[d]) < MaxKeys THEN Len(order[d]) + 1 ELSE MaxKeys
         /\ Used(d, k)[1] = k
         /\ \A i \in 1 .. Len(order[d]) : i < MaxKeys => Used(d, k)[i + 1] = order[d][i]
<1> DEFINE q == order[d]
           u == RoomForOne(d)
<1>1. q \in Seq(Keys) /\ Len(q) <= MaxKeys /\ MaxKeys \in Nat \ {0}
  BY DEF LimiterTypes, TracksFew, LimiterAssumption
<1>2. Used(d, k) = <<k>> \o u
  BY DEF Used
<1>3. /\ u \in Seq(Keys)
      /\ Len(u) = IF Len(q) < MaxKeys THEN Len(q) ELSE MaxKeys - 1
      /\ \A i \in 1 .. Len(u) : u[i] = q[i]
  <2>1. CASE Len(q) < MaxKeys
    BY <1>1, <2>1 DEF RoomForOne
  <2>2. CASE ~ (Len(q) < MaxKeys)
    <3>1. u = SubSeq(q, 1, Len(q) - 1) /\ Len(q) = MaxKeys
      BY <1>1, <2>2 DEF RoomForOne, Front
    <3> QED BY <1>1, <3>1
  <2> QED BY <2>1, <2>2
<1> HIDE DEF u
<1>4. /\ <<k>> \o u \in Seq(Keys)
      /\ Len(<<k>> \o u) = Len(u) + 1
      /\ (<<k>> \o u)[1] = k
      /\ \A i \in 1 .. Len(u) : (<<k>> \o u)[i + 1] = u[i]
  BY <1>3, BeforeAll
<1>5. ASSUME NEW i \in 1 .. Len(q), i < MaxKeys PROVE Used(d, k)[i + 1] = q[i]
  <2>1. i \in 1 .. Len(u)
    BY <1>1, <1>3, <1>5
  <2> QED BY <1>2, <1>3, <1>4, <2>1
<1> QED BY <1>1, <1>2, <1>3, <1>4, <1>5

(* Both at once: behind the key just used come the others in the order     *)
(* they had, and only the last of a full table is gone.                    *)
LEMMA UsedPlaces ==
  ASSUME LimiterTypes, TracksFew, LimiterAssumption, NEW d \in Doors, NEW k \in Keys
  PROVE  /\ Used(d, k) \in Seq(Keys)
         /\ Len(Used(d, k)) \in 1 .. MaxKeys
         /\ Used(d, k)[1] = k
         /\ \A i \in 2 .. Len(Used(d, k)) :
              /\ Used(d, k)[i] # k
              /\ \E h \in 1 .. Len(order[d]) :
                   /\ Used(d, k)[i] = order[d][h]
                   /\ \A g \in 1 .. i - 1 :
                        Used(d, k)[g] = k \/ \E f \in 1 .. h - 1 : Used(d, k)[g] = order[d][f]
         /\ \A h \in 1 .. Len(order[d]) :
              \/ order[d][h] = k
              \/ \E i \in 1 .. Len(Used(d, k)) : Used(d, k)[i] = order[d][h]
              \/ h = MaxKeys /\ Len(order[d]) = MaxKeys /\ ~ Tracked(d, k)
<1> DEFINE q == order[d]
           u == Used(d, k)
<1>1. /\ q \in Seq(Keys) /\ Len(q) \in Nat /\ Len(q) <= MaxKeys /\ MaxKeys \in Nat \ {0}
      /\ \A i, j \in 1 .. Len(q) : q[i] = q[j] => i = j
  BY DEF LimiterTypes, TracksFew, LimiterAssumption
<1>2. CASE Tracked(d, k)
  <2>1. PICK p \in 1 .. Len(q) :
          /\ q[p] = k
          /\ u \in Seq(Keys)
          /\ Len(u) = Len(q)
          /\ u[1] = k
          /\ \A i \in 1 .. p - 1 : u[i + 1] = q[i]
          /\ \A i \in p + 1 .. Len(q) : u[i] = q[i]
    BY <1>2, UsedTracked
  <2> HIDE DEF q, u
  <2>2. ASSUME NEW i \in 2 .. p PROVE u[i] = q[i - 1]
    <3>1. i - 1 \in 1 .. p - 1 /\ (i - 1) + 1 = i
      BY <1>1
    <3> QED BY <2>1, <3>1
  <2>3. ASSUME NEW i \in 2 .. Len(u)
        PROVE  /\ u[i] # k
               /\ \E h \in 1 .. Len(q) :
                    /\ u[i] = q[h]
                    /\ \A g \in 1 .. i - 1 :
                         u[g] = k \/ \E f \in 1 .. h - 1 : u[g] = q[f]
    <3>1. CASE i <= p
      <4>1. i - 1 \in 1 .. Len(q) /\ i - 1 # p /\ u[i] = q[i - 1]
        BY <1>1, <2>1, <2>2, <3>1
      <4>2. ASSUME NEW g \in 1 .. i - 1
            PROVE  u[g] = k \/ \E f \in 1 .. (i - 1) - 1 : u[g] = q[f]
        <5>1. CASE g = 1
          BY <2>1, <5>1
        <5>2. CASE g # 1
          <6>1. g \in 2 .. p /\ g - 1 \in 1 .. (i - 1) - 1
            BY <3>1, <5>2
          <6> QED BY <2>2, <6>1
        <5> QED BY <5>1, <5>2
      <4>3. u[i] # k
        BY <1>1, <2>1, <4>1
      <4> QED BY <4>1, <4>2, <4>3
    <3>2. CASE i > p
      <4>1. i \in 1 .. Len(q) /\ i # p /\ u[i] = q[i]
        BY <1>1, <2>1, <3>2
      <4>2. ASSUME NEW g \in 1 .. i - 1
            PROVE  u[g] = k \/ \E f \in 1 .. i - 1 : u[g] = q[f]
        <5>1. CASE g = 1
          BY <2>1, <5>1
        <5>2. CASE g # 1 /\ g <= p
          <6>1. g \in 2 .. p /\ g - 1 \in 1 .. i - 1
            BY <5>2
          <6> QED BY <2>2, <6>1
        <5>3. CASE g > p
          <6>1. g \in p + 1 .. Len(q)
            BY <1>1, <2>1, <5>3
          <6> QED BY <2>1, <6>1
        <5> QED BY <5>1, <5>2, <5>3
      <4>3. u[i] # k
        BY <1>1, <2>1, <4>1
      <4> QED BY <4>1, <4>2, <4>3
    <3> QED BY <3>1, <3>2
  <2>4. ASSUME NEW h \in 1 .. Len(q), q[h] # k
        PROVE  \E i \in 1 .. Len(u) : u[i] = q[h]
    <3>1. CASE h < p
      <4>1. h \in 1 .. p - 1 /\ h + 1 \in 1 .. Len(u)
        BY <1>1, <2>1, <3>1
      <4> QED BY <2>1, <4>1
    <3>2. CASE h > p
      <4>1. h \in p + 1 .. Len(q) /\ h \in 1 .. Len(u)
        BY <1>1, <2>1, <3>2
      <4> QED BY <2>1, <4>1
    <3>3. h # p
      BY <2>1, <2>4
    <3> QED BY <3>1, <3>2, <3>3
  <2>5. Len(u) \in 1 .. MaxKeys
    BY <1>1, <2>1
  <2>6. Len(u) \in 1 .. MaxKeys /\ u \in Seq(Keys) /\ u[1] = k
    BY <2>1, <2>5
  <2> QED BY <2>3, <2>4, <2>6 DEF q, u
<1>3. CASE ~ Tracked(d, k)
  <2>1. /\ u \in Seq(Keys)
        /\ Len(u) = IF Len(q) < MaxKeys THEN Len(q) + 1 ELSE MaxKeys
        /\ u[1] = k
        /\ \A i \in 1 .. Len(q) : i < MaxKeys => u[i + 1] = q[i]
    BY <1>3, UsedNew
  <2>2. \A h \in 1 .. Len(q) : q[h] # k
    BY <1>1, <1>3 DEF Tracked, ToSet
  <2> HIDE DEF q, u
  <2>3. ASSUME NEW i \in 2 .. Len(u) PROVE i - 1 \in 1 .. Len(q) /\ u[i] = q[i - 1]
    <3>1. i - 1 \in 1 .. Len(q) /\ i - 1 < MaxKeys /\ (i - 1) + 1 = i
      BY <1>1, <2>1
    <3> QED BY <2>1, <3>1
  <2>4. ASSUME NEW i \in 2 .. Len(u)
        PROVE  /\ u[i] # k
               /\ \E h \in 1 .. Len(q) :
                    /\ u[i] = q[h]
                    /\ \A g \in 1 .. i - 1 :
                         u[g] = k \/ \E f \in 1 .. h - 1 : u[g] = q[f]
    <3>1. i - 1 \in 1 .. Len(q) /\ u[i] = q[i - 1]
      BY <2>3
    <3>2. ASSUME NEW g \in 1 .. i - 1
          PROVE  u[g] = k \/ \E f \in 1 .. (i - 1) - 1 : u[g] = q[f]
      <4>1. CASE g = 1
        BY <2>1, <4>1
      <4>2. CASE g # 1
        <5>1. g \in 2 .. Len(u) /\ g - 1 \in 1 .. (i - 1) - 1
          BY <1>1, <2>1, <4>2
        <5> QED BY <2>3, <5>1
      <4> QED BY <4>1, <4>2
    <3>3. u[i] # k
      BY <2>2, <3>1
    <3> QED BY <3>1, <3>2, <3>3
  <2>5. ASSUME NEW h \in 1 .. Len(q)
        PROVE  \/ \E i \in 1 .. Len(u) : u[i] = q[h]
               \/ h = MaxKeys /\ Len(q) = MaxKeys /\ ~ Tracked(d, k)
    <3>1. CASE h < MaxKeys
      <4>1. h + 1 \in 1 .. Len(u)
        BY <1>1, <2>1, <3>1
      <4> QED BY <2>1, <3>1, <4>1
    <3>2. CASE ~ (h < MaxKeys)
      BY <1>1, <1>3, <3>2
    <3> QED BY <3>1, <3>2
  <2>6. Len(u) \in 1 .. MaxKeys /\ u \in Seq(Keys) /\ u[1] = k
    BY <1>1, <2>1
  <2> QED BY <2>4, <2>5, <2>6 DEF q, u
<1> QED BY <1>2, <1>3

(* So no key is tracked twice.                                             *)
LEMMA UsedOnce ==
  ASSUME LimiterTypes, TracksFew, LimiterAssumption, NEW d \in Doors, NEW k \in Keys
  PROVE  \A i, j \in 1 .. Len(Used(d, k)) : Used(d, k)[i] = Used(d, k)[j] => i = j
<1> DEFINE q == order[d]
           u == Used(d, k)
<1>1. /\ Len(u) \in 1 .. MaxKeys /\ u[1] = k
      /\ \A n \in 2 .. Len(u) :
           /\ u[n] # k
           /\ \E h \in 1 .. Len(q) :
                /\ u[n] = q[h]
                /\ \A g \in 1 .. n - 1 : u[g] = k \/ \E f \in 1 .. h - 1 : u[g] = q[f]
  <2>1. Len(u) \in 1 .. MaxKeys
    BY UsedPlaces
  <2>2. u[1] = k
    BY UsedPlaces
  <2>3. ASSUME NEW n \in 2 .. Len(u)
        PROVE  /\ u[n] # k
           /\ \E h \in 1 .. Len(q) :
                /\ u[n] = q[h]
                /\ \A g \in 1 .. n - 1 : u[g] = k \/ \E f \in 1 .. h - 1 : u[g] = q[f]
    <3>1. u[n] # k
      BY UsedPlaces
    <3>2. \E h \in 1 .. Len(q) :
            /\ u[n] = q[h]
            /\ \A g \in 1 .. n - 1 : u[g] = k \/ \E f \in 1 .. h - 1 : u[g] = q[f]
      BY UsedPlaces, SMTT(20)
    <3> QED BY <3>1, <3>2
  <2> QED BY <2>1, <2>2, <2>3
<1>2. Len(q) \in Nat /\ \A f, h \in 1 .. Len(q) : q[f] = q[h] => f = h
  BY DEF LimiterTypes, TracksFew
<1>3. Len(u) \in Nat
  BY <1>1 DEF LimiterAssumption
<1> HIDE DEF q, u
<1>4. ASSUME NEW i \in 1 .. Len(u), NEW j \in 1 .. Len(u), i < j PROVE u[i] # u[j]
  <2>1. j \in 2 .. Len(u) /\ i \in 1 .. j - 1
    BY <1>3, <1>4
  <2>2. PICK h \in 1 .. Len(q) :
          u[j] = q[h] /\ \A g \in 1 .. j - 1 : u[g] = k \/ \E f \in 1 .. h - 1 : u[g] = q[f]
    BY <1>1, <2>1
  <2>3. u[j] # k
    BY <1>1, <2>1
  <2>4. CASE u[i] = k
    BY <2>3, <2>4
  <2>5. CASE \E f \in 1 .. h - 1 : u[i] = q[f]
    <3>1. PICK f \in 1 .. h - 1 : u[i] = q[f]
      BY <2>5
    <3>2. f \in 1 .. Len(q) /\ f # h
      BY <1>2
    <3> QED BY <1>2, <2>2, <3>1, <3>2
  <2> QED BY <2>1, <2>2, <2>4, <2>5
<1>5. ASSUME NEW i \in 1 .. Len(u), NEW j \in 1 .. Len(u), u[i] = u[j] PROVE i = j
  <2>1. ~ (i < j) /\ ~ (j < i)
    BY <1>4, <1>5
  <2> QED BY <1>3, <2>1
<1> QED BY <1>5 DEF u

(* A key asked about once more leaves its set at least as large.           *)
LEMMA OneMoreOther ==
  ASSUME NEW S, IsFiniteSet(S), NEW x
  PROVE  IsFiniteSet(S \cup {x}) /\ Cardinality(S \cup {x}) >= Cardinality(S)
<1>1. Cardinality(S) \in Nat
  BY FS_CardinalityType
<1> QED BY <1>1, FS_AddElement

(* A full table without its last, and one key that was not in it, are as   *)
(* many keys as a limiter tracks.                                          *)
LEMMA FullTable ==
  ASSUME LimiterTypes, TracksFew, LimiterAssumption,
         NEW d \in Doors, NEW k \in Keys, Len(order[d]) = MaxKeys,
         \A h \in 1 .. MaxKeys : order[d][h] # k,
         NEW T, IsFiniteSet(T), k \in T, \A h \in 1 .. MaxKeys - 1 : order[d][h] \in T
  PROVE  Cardinality(T) >= MaxKeys
<1> DEFINE f == [n \in 1 .. MaxKeys |-> IF n < MaxKeys THEN order[d][n] ELSE k]
<1>1. MaxKeys \in Nat \ {0} /\ \A i, j \in 1 .. MaxKeys : order[d][i] = order[d][j] => i = j
  BY DEF TracksFew, LimiterAssumption
<1>2. f \in [1 .. MaxKeys -> T]
  <2>1. ASSUME NEW n \in 1 .. MaxKeys PROVE f[n] \in T
    BY <1>1
  <2> QED BY <2>1
<1>3. \A i, j \in 1 .. MaxKeys : f[i] = f[j] => i = j
  BY <1>1
<1>4. f \in Injection(1 .. MaxKeys, T)
  BY <1>2, <1>3 DEF Injection, IsInjective
<1>5. Cardinality(1 .. MaxKeys) <= Cardinality(T)
  BY <1>4, FS_Injection
<1>6. Cardinality(1 .. MaxKeys) = MaxKeys
  BY <1>1, FS_Interval
<1>7. Cardinality(T) \in Nat
  BY FS_CardinalityType
<1> QED BY <1>1, <1>5, <1>6, <1>7

LEMMA LimiterStarts == LimiterAssumption /\ LimiterInit => LimiterInv
<1> SUFFICES ASSUME LimiterAssumption, LimiterInit PROVE LimiterInv
  OBVIOUS
<1>1. LimiterTypes
  BY DEF LimiterTypes, LimiterInit, LimiterAssumption
<1>2. TracksFew
  BY DEF TracksFew, LimiterInit, LimiterAssumption
<1>3. FewOthers
  BY FS_EmptySet DEF FewOthers, LimiterInit
<1>4. DebtIsSpent /\ AllowanceIsKept
  BY DEF DebtIsSpent, AllowanceIsKept, LimiterInit, LimiterAssumption
<1> QED BY <1>1, <1>2, <1>3, <1>4 DEF LimiterInv

LEMMA LimiterRestarts == LimiterAssumption /\ NewLimiter => LimiterInv'
<1> SUFFICES ASSUME LimiterAssumption, NewLimiter PROVE LimiterInv'
  OBVIOUS
<1>1. LimiterTypes'
  BY DEF LimiterTypes, NewLimiter, LimiterAssumption
<1>2. TracksFew'
  BY DEF TracksFew, NewLimiter, LimiterAssumption
<1>3. FewOthers'
  BY FS_EmptySet DEF FewOthers, NewLimiter
<1>4. DebtIsSpent' /\ AllowanceIsKept'
  BY DEF DebtIsSpent, AllowanceIsKept, NewLimiter, LimiterAssumption
<1> QED BY <1>1, <1>2, <1>3, <1>4 DEF LimiterInv

(* A period gives back at most what it forgives.                           *)
LEMMA LimiterElapses == LimiterAssumption /\ LimiterInv /\ Elapse => LimiterInv'
<1> SUFFICES ASSUME LimiterAssumption, LimiterInv, Elapse PROVE LimiterInv'
  OBVIOUS
<1>1. LimiterTypes /\ TracksFew /\ FewOthers /\ DebtIsSpent /\ AllowanceIsKept
  BY DEF LimiterInv
<1>2. order' = order /\ Burst \in Nat \ {0}
  BY DEF Elapse, LimiterAssumption
<1>3. ASSUME NEW d \in Doors, NEW k \in Keys
      PROVE  /\ tokens[d][k] \in 0 .. Burst /\ owed[d][k] \in Nat
             /\ others[d][k] \in SUBSET Keys
             /\ tokens'[d][k] = IF tokens[d][k] < Burst THEN tokens[d][k] + 1 ELSE Burst
             /\ owed'[d][k] = IF owed[d][k] > 0 THEN owed[d][k] - 1 ELSE 0
             /\ others'[d][k] = IF owed[d][k] > 1 THEN others[d][k] ELSE {}
  BY <1>1 DEF Elapse, LimiterTypes
<1>4. LimiterTypes'
  <2>1. \A d \in Doors, k \in Keys :
          /\ tokens'[d][k] \in 0 .. Burst /\ owed'[d][k] \in Nat
          /\ others'[d][k] \in SUBSET Keys
    BY <1>2, <1>3
  <2>2. order' \in [Doors -> Seq(Keys)]
    BY <1>1, <1>2 DEF LimiterTypes
  <2>3. tokens' \in [Doors -> [Keys -> 0 .. Burst]]
    BY <1>1, <1>2 DEF Elapse, LimiterTypes
  <2>4. owed' \in [Doors -> [Keys -> Nat]]
    BY <1>1 DEF Elapse, LimiterTypes
  <2>5. others' \in [Doors -> [Keys -> SUBSET Keys]]
    BY <1>1 DEF Elapse, LimiterTypes
  <2> QED BY <2>2, <2>3, <2>4, <2>5 DEF LimiterTypes
<1>5. TracksFew'
  BY <1>1, <1>2 DEF TracksFew
<1>6. FewOthers'
  <2> SUFFICES ASSUME NEW d \in Doors, NEW k \in Keys PROVE IsFiniteSet(others'[d][k])
    BY DEF FewOthers
  <2> QED BY <1>1, <1>3, FS_EmptySet DEF FewOthers
<1>7. DebtIsSpent'
  <2> SUFFICES ASSUME NEW d \in Doors, NEW k \in Keys, owed'[d][k] > 0
               PROVE  /\ \A i \in 1 .. Len(order'[d]) :
                           order'[d][i] = k =>
                             owed'[d][k] + tokens'[d][k] <= Burst /\ Followed(d, k, i)'
                      /\ ~ Tracked(d, k)' => Cardinality(others'[d][k]) >= MaxKeys
    BY DEF DebtIsSpent
  <2>1. owed[d][k] > 1 /\ owed'[d][k] = owed[d][k] - 1 /\ others'[d][k] = others[d][k]
    BY <1>3
  <2>2. ASSUME NEW i \in 1 .. Len(order'[d]), order'[d][i] = k
        PROVE  owed'[d][k] + tokens'[d][k] <= Burst /\ Followed(d, k, i)'
    <3>1. owed[d][k] > 0
      BY <1>3, <2>1
    <3>2. owed[d][k] + tokens[d][k] <= Burst /\ Followed(d, k, i)
      BY <1>1, <1>2, <2>2, <3>1 DEF DebtIsSpent
    <3>3. Followed(d, k, i)'
      BY <1>2, <2>1, <3>2 DEF Followed
    <3>4. owed'[d][k] + tokens'[d][k] <= Burst
      BY <1>2, <1>3, <2>1, <3>2
    <3> QED BY <3>3, <3>4
  <2>3. ASSUME ~ Tracked(d, k)' PROVE Cardinality(others'[d][k]) >= MaxKeys
    <3>1. ~ Tracked(d, k) /\ owed[d][k] > 0
      BY <1>2, <1>3, <2>1, <2>3 DEF Tracked
    <3> QED BY <1>1, <2>1, <3>1 DEF DebtIsSpent
  <2> QED BY <2>2, <2>3
<1>8. AllowanceIsKept'
  <2> SUFFICES ASSUME NEW d \in Doors, NEW k \in Keys PROVE owed'[d][k] <= Burst
    BY DEF AllowanceIsKept
  <2>1. owed[d][k] <= Burst
    BY <1>1 DEF AllowanceIsKept
  <2> QED BY <1>2, <1>3, <2>1
<1> QED BY <1>4, <1>5, <1>6, <1>7, <1>8 DEF LimiterInv

(* A call takes a token, and the limiter that forgets nobody takes one     *)
(* with it: whoever is pushed out has been followed by a full table.       *)
LEMMA LimiterAllows ==
  ASSUME LimiterAssumption, LimiterInv, NEW d \in Doors, NEW k \in Keys, Allow(d, k)
  PROVE  LimiterInv'
<1>1. LimiterTypes /\ TracksFew /\ FewOthers /\ DebtIsSpent /\ AllowanceIsKept
  BY DEF LimiterInv
<1>2. Burst \in Nat \ {0} /\ MaxKeys \in Nat \ {0}
  BY DEF LimiterAssumption
<1> DEFINE q == order[d]
           u == Used(d, k)
           taken == Taken(d, k)
           forgiven == Cardinality(others[d][k]) >= MaxKeys
           rest == [j \in Keys |-> IF j \notin ToSet(u) THEN Burst
                                   ELSE IF j = k THEN tokens[d][k] - taken
                                   ELSE tokens[d][j]]
           debt == (IF forgiven THEN 0 ELSE owed[d][k]) + taken
           since == [j \in Keys |-> IF j = k \/ owed'[d][j] = 0 THEN {}
                                    ELSE others[d][j] \cup {k}]
<1>3. /\ order' = [order EXCEPT ![d] = u]
      /\ tokens' = [tokens EXCEPT ![d] = rest]
      /\ owed' = [owed EXCEPT ![d][k] = debt]
      /\ others' = [others EXCEPT ![d] = since]
  BY DEF Allow, Remember
<1>4. /\ u \in Seq(Keys)
      /\ Len(u) \in 1 .. MaxKeys
      /\ u[1] = k
      /\ \A i \in 2 .. Len(u) :
           /\ u[i] # k
           /\ \E h \in 1 .. Len(q) :
                /\ u[i] = q[h]
                /\ \A g \in 1 .. i - 1 :
                     u[g] = k \/ \E f \in 1 .. h - 1 : u[g] = q[f]
      /\ \A h \in 1 .. Len(q) :
           \/ q[h] = k
           \/ \E i \in 1 .. Len(u) : u[i] = q[h]
           \/ h = MaxKeys /\ Len(q) = MaxKeys /\ ~ Tracked(d, k)
  BY <1>1, UsedPlaces
<1>5. \A i, j \in 1 .. Len(u) : u[i] = u[j] => i = j
  BY <1>1, UsedOnce
<1>6. /\ tokens[d][k] \in 0 .. Burst /\ owed[d][k] \in Nat /\ owed[d][k] <= Burst
      /\ taken \in {0, 1} /\ (taken = 1 <=> tokens[d][k] > 0)
  BY <1>1 DEF LimiterTypes, AllowanceIsKept, Taken, Grants
<1>7. q \in Seq(Keys) /\ Len(q) \in Nat
  BY <1>1 DEF LimiterTypes
<1>8. k \in ToSet(u)
  <2>1. 1 \in DOMAIN u /\ u[1] = k
    BY <1>2, <1>4
  <2> QED BY <2>1 DEF ToSet
 (* What the key itself has spent. *)
<1>9. debt \in Nat /\ debt + (tokens[d][k] - taken) <= Burst /\ tokens[d][k] - taken \in 0 .. Burst
  <2>1. CASE owed[d][k] = 0 \/ forgiven
    <3>1. debt = taken
      BY <1>6, <2>1
    <3> QED BY <1>2, <1>6, <3>1
  <2>2. CASE owed[d][k] > 0 /\ ~ forgiven
    <3>1. Tracked(d, k)
      BY <1>1, <2>2 DEF DebtIsSpent
    <3>2. PICK i \in 1 .. Len(q) : q[i] = k
      BY <1>7, <3>1 DEF Tracked, ToSet
    <3>3. owed[d][k] + tokens[d][k] <= Burst
      BY <1>1, <2>2, <3>2 DEF DebtIsSpent
    <3>4. debt = owed[d][k] + taken
      BY <2>2
    <3>5. \A o, t, n \in Nat :
            n \in {0, 1} /\ (n = 1 => t > 0) /\ o + t <= Burst =>
              o + n \in Nat /\ (o + n) + (t - n) <= Burst /\ t - n \in 0 .. Burst
      BY <1>2
    <3>6. tokens[d][k] \in Nat /\ taken \in Nat
      BY <1>6
    <3> HIDE DEF debt, taken, forgiven
    <3> QED BY <1>6, <3>3, <3>4, <3>5, <3>6
  <2> QED BY <1>6, <2>1, <2>2
<1> HIDE DEF q, u, taken, forgiven, debt
<1>10. ASSUME NEW j \in Keys, j # k
       PROVE  /\ owed'[d][j] = owed[d][j]
              /\ owed'[d][j] > 0 => others'[d][j] = others[d][j] \cup {k}
              /\ j \in ToSet(u) => tokens'[d][j] = tokens[d][j]
  <2>1. owed'[d][j] = owed[d][j] /\ owed[d][j] \in Nat
    BY <1>1, <1>3, <1>10 DEF LimiterTypes
  <2>2. others'[d][j] = since[j] /\ tokens'[d][j] = rest[j]
    BY <1>1, <1>3 DEF LimiterTypes
  <2>3. owed'[d][j] > 0 => owed'[d][j] # 0
    BY <2>1
  <2> QED BY <1>10, <2>1, <2>2, <2>3
<1>11. /\ owed'[d][k] = debt
       /\ tokens'[d][k] = tokens[d][k] - taken
       /\ others'[d][k] = {}
  <2>1. others'[d][k] = since[k] /\ tokens'[d][k] = rest[k]
    BY <1>1, <1>3 DEF LimiterTypes
  <2> QED BY <1>1, <1>3, <1>8, <2>1 DEF LimiterTypes
<1>12. ASSUME NEW e \in Doors, e # d
       PROVE  /\ order'[e] = order[e] /\ tokens'[e] = tokens[e]
              /\ owed'[e] = owed[e] /\ others'[e] = others[e]
  BY <1>1, <1>3, <1>12 DEF LimiterTypes
<1>13. order'[d] = u
  BY <1>1, <1>3 DEF LimiterTypes
<1>14. LimiterTypes'
  <2>1. order' \in [Doors -> Seq(Keys)]
    BY <1>1, <1>3, <1>4 DEF LimiterTypes
  <2>2. rest \in [Keys -> 0 .. Burst]
    BY <1>1, <1>2, <1>9 DEF LimiterTypes
  <2>3. since \in [Keys -> SUBSET Keys]
    <3>1. \A j \in Keys : others[d][j] \in SUBSET Keys
      BY <1>1 DEF LimiterTypes
    <3> QED BY <3>1
  <2> HIDE DEF rest, since
  <2>4. tokens' \in [Doors -> [Keys -> 0 .. Burst]]
    BY <1>1, <1>3, <2>2 DEF LimiterTypes
  <2>5. others' \in [Doors -> [Keys -> SUBSET Keys]]
    BY <1>1, <1>3, <2>3 DEF LimiterTypes
  <2>6. owed' \in [Doors -> [Keys -> Nat]]
    BY <1>1, <1>3, <1>9 DEF LimiterTypes
  <2> QED BY <2>1, <2>4, <2>5, <2>6 DEF LimiterTypes
<1> HIDE DEF rest, since
<1>15. TracksFew'
  <2> SUFFICES ASSUME NEW e \in Doors
               PROVE  /\ Len(order'[e]) <= MaxKeys
                      /\ \A i, j \in 1 .. Len(order'[e]) : order'[e][i] = order'[e][j] => i = j
    BY DEF TracksFew
  <2>1. CASE e = d
    <3>1. Len(u) <= MaxKeys
      BY <1>2, <1>4
    <3> QED BY <1>5, <1>13, <2>1, <3>1
  <2>2. CASE e # d
    BY <1>1, <1>12, <2>2 DEF TracksFew
  <2> QED BY <2>1, <2>2
<1>16. FewOthers'
  <2> SUFFICES ASSUME NEW e \in Doors, NEW j \in Keys PROVE IsFiniteSet(others'[e][j])
    BY DEF FewOthers
  <2>1. CASE e # d
    BY <1>1, <1>12, <2>1 DEF FewOthers
  <2>2. CASE e = d
    <3>1. others'[d][j] = since[j]
      BY <1>1, <1>3 DEF LimiterTypes
    <3>2. since[j] = {} \/ since[j] = others[d][j] \cup {k}
      BY DEF since
    <3>3. IsFiniteSet(others[d][j])
      BY <1>1 DEF FewOthers
    <3>4. IsFiniteSet({}) /\ IsFiniteSet(others[d][j] \cup {k})
      BY <3>3, FS_EmptySet, OneMoreOther
    <3> QED BY <2>2, <3>1, <3>2, <3>4
  <2> QED BY <2>1, <2>2
<1>17. DebtIsSpent'
  <2> SUFFICES ASSUME NEW e \in Doors, NEW j \in Keys, owed'[e][j] > 0
               PROVE  /\ \A i \in 1 .. Len(order'[e]) :
                           order'[e][i] = j =>
                             owed'[e][j] + tokens'[e][j] <= Burst /\ Followed(e, j, i)'
                      /\ ~ Tracked(e, j)' => Cardinality(others'[e][j]) >= MaxKeys
    BY DEF DebtIsSpent
  <2>1. CASE e # d
    <3>1. /\ \A i \in 1 .. Len(order[e]) :
               order[e][i] = j => owed[e][j] + tokens[e][j] <= Burst /\ Followed(e, j, i)
          /\ ~ Tracked(e, j) => Cardinality(others[e][j]) >= MaxKeys
      BY <1>1, <1>12, <2>1 DEF DebtIsSpent
    <3>2. (Tracked(e, j)' <=> Tracked(e, j)) /\ \A i : Followed(e, j, i)' <=> Followed(e, j, i)
      BY <1>12, <2>1 DEF Tracked, Followed
    <3> QED BY <1>12, <2>1, <3>1, <3>2
  <2>2. CASE e = d /\ j = k
    <3>1. Tracked(d, k)'
      BY <1>8, <1>13 DEF Tracked
    <3>2. ASSUME NEW i \in 1 .. Len(u), u[i] = k PROVE Followed(d, k, i)'
      <4>1. i = 1
        BY <1>2, <1>4, <1>5, <3>2
      <4> QED BY <4>1 DEF Followed
    <3>3. owed'[d][k] + tokens'[d][k] <= Burst
      BY <1>9, <1>11
    <3> QED BY <1>13, <2>2, <3>1, <3>2, <3>3
  <2>3. CASE e = d /\ j # k
    <3>1. /\ owed'[d][j] = owed[d][j]
          /\ others'[d][j] = others[d][j] \cup {k}
          /\ j \in ToSet(u) => tokens'[d][j] = tokens[d][j]
      BY <1>10, <2>3
    <3>2. /\ \A h \in 1 .. Len(q) :
               q[h] = j => owed[d][j] + tokens[d][j] <= Burst /\ Followed(d, j, h)
          /\ ~ Tracked(d, j) => Cardinality(others[d][j]) >= MaxKeys
      BY <1>1, <2>3, <3>1 DEF DebtIsSpent, q
    <3>3. ASSUME NEW i \in 1 .. Len(u), u[i] = j
          PROVE  owed'[d][j] + tokens'[d][j] <= Burst /\ Followed(d, j, i)'
      <4>1. i \in 2 .. Len(u) /\ j \in ToSet(u)
        <5>1. i # 1
          BY <1>4, <2>3, <3>3
        <5> QED BY <1>2, <1>4, <3>3, <5>1 DEF ToSet
      <4>2. PICK h \in 1 .. Len(q) :
              /\ u[i] = q[h]
              /\ \A g \in 1 .. i - 1 : u[g] = k \/ \E f \in 1 .. h - 1 : u[g] = q[f]
        BY <1>4, <4>1
      <4>3. owed[d][j] + tokens[d][j] <= Burst /\ Followed(d, j, h)
        BY <3>2, <3>3, <4>2
      <4>4. \A f \in 1 .. h - 1 : q[f] \in others[d][j]
        BY <4>3 DEF Followed, q
      <4>5. \A g \in 1 .. i - 1 : u[g] \in others'[d][j]
        BY <3>1, <4>2, <4>4
      <4> QED BY <1>13, <3>1, <4>1, <4>3, <4>5 DEF Followed
    <3>4. ASSUME ~ Tracked(d, j)' PROVE Cardinality(others'[d][j]) >= MaxKeys
      <4>1. j \notin ToSet(u)
        BY <1>13, <3>4 DEF Tracked
      <4>2. IsFiniteSet(others[d][j])
        BY <1>1 DEF FewOthers
      <4>3. /\ IsFiniteSet(others'[d][j])
            /\ Cardinality(others'[d][j]) >= Cardinality(others[d][j])
            /\ Cardinality(others'[d][j]) \in Nat /\ Cardinality(others[d][j]) \in Nat
        <5>1. /\ IsFiniteSet(others[d][j] \cup {k})
              /\ Cardinality(others[d][j] \cup {k}) >= Cardinality(others[d][j])
          BY <4>2, OneMoreOther
        <5>2. \A S : IsFiniteSet(S) => Cardinality(S) \in Nat
          BY FS_CardinalityType
        <5>3. /\ Cardinality(others[d][j] \cup {k}) \in Nat
              /\ Cardinality(others[d][j]) \in Nat
          BY <4>2, <5>1, <5>2
        <5> QED BY <3>1, <5>1, <5>3
      <4>4. CASE ~ Tracked(d, j)
        BY <1>2, <3>2, <4>3, <4>4
      <4>5. CASE Tracked(d, j)
        <5>1. PICK h \in 1 .. Len(q) : q[h] = j
          BY <1>7, <4>5 DEF Tracked, ToSet, q
        <5>2. \A i \in 1 .. Len(u) : u[i] # j
          BY <1>4, <4>1 DEF ToSet
        <5>3. h = MaxKeys /\ Len(q) = MaxKeys /\ k \notin ToSet(q)
          BY <1>4, <2>3, <5>1, <5>2 DEF Tracked, q
        <5>4. \A f \in 1 .. MaxKeys - 1 : q[f] \in others'[d][j]
          BY <3>1, <3>2, <5>1, <5>3 DEF Followed, q
        <5>5. \A f \in 1 .. MaxKeys : q[f] # k
          BY <1>7, <5>3 DEF Tracked, ToSet
        <5>6. k \in others'[d][j]
          BY <3>1
        <5> QED BY <1>1, <4>3, <5>3, <5>4, <5>5, <5>6, FullTable DEF q
      <4> QED BY <4>4, <4>5
    <3> QED BY <1>13, <2>3, <3>3, <3>4
  <2> QED BY <2>1, <2>2, <2>3
<1>18. AllowanceIsKept'
  <2> SUFFICES ASSUME NEW e \in Doors, NEW j \in Keys PROVE owed'[e][j] <= Burst
    BY DEF AllowanceIsKept
  <2>1. owed[e][j] <= Burst /\ owed[e][j] \in Nat
    BY <1>1 DEF AllowanceIsKept, LimiterTypes
  <2>2. CASE e = d /\ j = k
    BY <1>2, <1>6, <1>9, <1>11, <2>2
  <2>3. CASE e = d /\ j # k
    BY <1>10, <2>1, <2>3
  <2>4. CASE e # d
    BY <1>12, <2>1, <2>4
  <2> QED BY <2>2, <2>3, <2>4
<1> QED BY <1>14, <1>15, <1>16, <1>17, <1>18 DEF LimiterInv

----------------------------------------------------------------------------
Adding == {"make", "making", "save"}

Asks    == {NoAsk} \cup UNION Scenarios
Secrets == {Dummy} \cup Families \cup {ask.secret : ask \in UNION Scenarios}
Hashes  == {NoHash, FirstRow.hash} \cup [version: Nat, secret: Secrets]

ChildRows == {NoChild, FirstRow} \cup [family: Families, hash: Hashes]

ReqStates ==
  [pc: Steps, ask: Asks, right: BOOLEAN, met: BOOLEAN, hash: Hashes,
   answer: {"none", "in", "refused", "limited", "error"}]

(* What the constants are. *)
Given == LimiterAssumption /\ LoginAssumption

LoginTypes ==
  /\ parents = [f \in Families |-> [version |-> 1, secret |-> f]]
  /\ children \in [Children -> ChildRows]
  /\ req \in [Requests -> ReqStates]
  /\ key \in 1 .. MaxVersion
  /\ scenario \in Scenarios

(* A child is nobody's, or a family's, with a hash this process can read.  *)
RowsAreReadable ==
  \A c \in Children :
    children[c] = NoChild \/ (children[c].family \in Families /\ children[c].hash.version \in 1 .. key)

(* The hash of who asks, as its row has it.                                *)
HashOf(ask, hash) ==
  IF ask.door = "parent"
  THEN ask.family \in Families /\ hash = parents[ask.family]
  ELSE ask.key \in Children /\ children[ask.key].family = ask.family /\ hash = children[ask.key].hash

(* What a request in progress knows is still so: no row changes once it is *)
(* there, and a row to be added is not there yet.                          *)
Sound(x) ==
  /\ x.pc \in {"idle", "answered"} => x.ask = NoAsk
  /\ x.pc \notin {"idle", "answered"} => x.ask \in UNION Scenarios
  /\ x.ask.door = "panel" <=> x.pc \in Adding
  /\ x.pc \in Adding => children[x.ask.key] = NoChild
  /\ x.pc = "save" => x.hash.version \in 1 .. key /\ x.hash.secret = x.ask.secret
  /\ x.pc \in {"child", "open"} => x.ask.door = "child"
  /\ x.pc \in {"verify", "verifying"} /\ x.hash # NoHash => HashOf(x.ask, x.hash)
  /\ x.pc = "open" => Right(x.ask)
  /\ x.right /\ x.ask.door \in Doors =>
       /\ Right(x.ask)
       /\ x.pc \notin {"dummy", "dummyMake", "dummyMaking"}
       /\ x.pc \in {"verify", "verifying"} => x.hash # NoHash
  /\ x.pc = "answered" /\ x.right /\ x.answer # "in" => x.met

RequestsAreSound == \A r \in Requests : Sound(req[r])

(* No two requests add one child. *)
AddedApart ==
  \A r, q \in Requests :
    r # q /\ req[r].pc \in Adding /\ req[q].pc \in Adding => req[r].ask.key # req[q].ask.key

SessionsHaveFamilies == \A s \in sessions : s.child \in Children /\ s.family \in Families

LoginInv ==
  /\ LoginTypes
  /\ RowsAreReadable
  /\ RequestsAreSound
  /\ AddedApart
  /\ SessionsHaveFamilies
  /\ SessionsAreEarned

LEMMA AskTypes ==
  ASSUME Given, NEW ask \in UNION Scenarios
  PROVE  /\ ask \in Asks /\ ask.secret \in Secrets /\ ask.family # "none"
         /\ ask.door \in {"parent", "child", "panel"} /\ ask.key \in Keys
         /\ ask.door = "panel" => ask.key \in Children /\ ask.family \in Families
BY DEF Given, LoginAssumption, Asks, Secrets

LEMMA IdleTyped == Idle \in ReqStates /\ NoAsk.door = "none" /\ NoAsk \in Asks
<1>1. NoAsk \in Asks /\ NoAsk.door = "none"
  BY DEF Asks, NoAsk
<1>2. NoHash \in Hashes
  BY DEF Hashes
<1> QED BY <1>1, <1>2 DEF Idle, ReqStates, Steps, Hashing

LEMMA IdleSound == Sound(Idle)
BY IdleTyped DEF Sound, Idle, Adding

LEMMA LoginStarts == Given /\ Init => LoginInv
<1> SUFFICES ASSUME Given, Init PROVE LoginInv
  OBVIOUS
<1>1. LoginTypes
  <2>1. req \in [Requests -> ReqStates]
    BY IdleTyped DEF Init
  <2>2. children \in [Children -> ChildRows]
    BY DEF Init, ChildRows
  <2> QED BY <2>1, <2>2 DEF LoginTypes, Init, Given, LoginAssumption
<1>2. RowsAreReadable
  BY DEF RowsAreReadable, Init, Given, LoginAssumption
<1>3. RequestsAreSound
  BY IdleTyped DEF RequestsAreSound, Init, Sound, Idle, Adding, Given, LoginAssumption
<1>4. AddedApart
  BY DEF AddedApart, Init, Idle, Adding
<1>5. SessionsHaveFamilies /\ SessionsAreEarned
  BY DEF SessionsHaveFamilies, SessionsAreEarned, Init
<1> QED BY <1>1, <1>2, <1>3, <1>4, <1>5 DEF LoginInv

(* One request moves on, and no row but perhaps a session changes.         *)
LEMMA OneMovesOn ==
  ASSUME LoginInv, UNCHANGED <<parents, children, key, scenario>>,
         NEW r \in Requests, NEW y \in ReqStates,
         req' = [req EXCEPT ![r] = y], Sound(y),
         \A q \in Requests :
           q # r /\ y.pc \in Adding /\ req[q].pc \in Adding => req[q].ask.key # y.ask.key
  PROVE  LoginTypes' /\ RowsAreReadable' /\ RequestsAreSound' /\ AddedApart'
<1>1. LoginTypes /\ RowsAreReadable /\ RequestsAreSound /\ AddedApart
  BY DEF LoginInv
<1>2. parents' = parents /\ children' = children /\ key' = key /\ scenario' = scenario
  OBVIOUS
<1>3. req'[r] = y /\ \A q \in Requests : q # r => req'[q] = req[q]
  BY <1>1 DEF LoginTypes
<1>4. LoginTypes'
  BY <1>1, <1>2 DEF LoginTypes
<1>5. RowsAreReadable'
  BY <1>1, <1>2 DEF RowsAreReadable
<1>6. RequestsAreSound'
  <2> SUFFICES ASSUME NEW q \in Requests PROVE Sound(req[q])'
    BY DEF RequestsAreSound
  <2>1. Sound(req[q])
    BY <1>1 DEF RequestsAreSound
  <2>2. CASE q = r
    BY <1>2, <1>3, <2>2, SMTT(30) DEF Sound, HashOf, Right
  <2>3. CASE q # r
    BY <1>2, <1>3, <2>1, <2>3, ZenonT(60) DEF Sound, HashOf, Right
  <2> QED BY <2>2, <2>3
<1>7. AddedApart'
  BY <1>1, <1>3 DEF AddedApart
<1> QED BY <1>4, <1>5, <1>6, <1>7

LEMMA OneMoves ==
  ASSUME LoginInv, UNCHANGED <<rows, key, scenario>>,
         NEW r \in Requests, NEW y \in ReqStates,
         req' = [req EXCEPT ![r] = y], Sound(y),
         \A q \in Requests :
           q # r /\ y.pc \in Adding /\ req[q].pc \in Adding => req[q].ask.key # y.ask.key
  PROVE  LoginInv'
<1>1. LoginTypes' /\ RowsAreReadable' /\ RequestsAreSound' /\ AddedApart'
  BY OneMovesOn DEF rows
<1>2. SessionsHaveFamilies' /\ SessionsAreEarned'
  BY DEF LoginInv, SessionsHaveFamilies, SessionsAreEarned, rows
<1> QED BY <1>1, <1>2 DEF LoginInv

(* An answer leaves nothing to remember.                                   *)
LEMMA AnswerIsSound ==
  ASSUME Given, LoginInv, NEW r \in Requests,
         NEW what \in {"in", "refused", "limited", "error"}, NEW met \in BOOLEAN,
         req[r].right /\ what # "in" => met
  PROVE  /\ Answered(r, what, met) \in ReqStates
         /\ Sound(Answered(r, what, met))
         /\ Answered(r, what, met).pc = "answered"
<1> DEFINE y == Answered(r, what, met)
<1>1. req[r].right \in BOOLEAN
  BY DEF LoginInv, LoginTypes, ReqStates
<1>2. y = [pc |-> "answered", ask |-> NoAsk, right |-> req[r].right, met |-> met,
           hash |-> NoHash, answer |-> what]
  <2>1. y = [Idle EXCEPT !.pc = "answered", !.answer = what, !.right = req[r].right, !.met = met]
    BY DEF Answered
  <2> QED BY <2>1 DEF Idle
<1>3. NoHash \in Hashes
  BY DEF Hashes
<1> HIDE DEF y
<1>4. y \in ReqStates
  BY <1>1, <1>2, <1>3, IdleTyped DEF ReqStates, Steps
<1>5. NoAsk.door \notin Doors
  BY IdleTyped DEF Given, LoginAssumption
<1>6. Sound(y)
  BY <1>2, <1>5, IdleTyped DEF Sound, Adding
<1> QED BY <1>2, <1>4, <1>6 DEF y

LEMMA AnsweringKeeps ==
  ASSUME Given, LoginInv, UNCHANGED <<rows, key, scenario>>, NEW r \in Requests,
         NEW what \in {"in", "refused", "limited", "error"}, NEW met \in BOOLEAN,
         req[r].right /\ what # "in" => met,
         req' = [req EXCEPT ![r] = Answered(r, what, met)]
  PROVE  LoginInv'
BY AnswerIsSound, OneMoves DEF Adding

(* A request goes on to another step with what it has.                     *)
LEMMA GoingKeeps ==
  ASSUME Given, LoginInv, UNCHANGED <<rows, key, scenario>>, NEW r \in Requests,
         NEW step \in Steps, req' = [req EXCEPT ![r].pc = step],
         NEW x, x = req[r],
         x.pc \notin {"idle", "answered"}, step \notin {"idle", "answered", "save"},
         step \in Adding <=> x.pc \in Adding,
         step \in {"child", "open"} => x.ask.door = "child",
         step \in {"verify", "verifying"} => x.pc \in {"verify", "verifying"},
         step = "open" => Right(x.ask),
         step \in {"dummy", "dummyMake", "dummyMaking"} => ~ (x.right /\ x.ask.door \in Doors)
  PROVE  LoginInv'
<1> DEFINE y == [x EXCEPT !.pc = step]
<1>1. x \in ReqStates /\ Sound(x)
  BY DEF LoginInv, LoginTypes, RequestsAreSound
<1>2. req' = [req EXCEPT ![r] = y]
  OBVIOUS
<1>3. /\ y \in ReqStates /\ y.pc = step /\ y.ask = x.ask /\ y.right = x.right /\ y.hash = x.hash
      /\ y.met = x.met /\ y.answer = x.answer
  BY <1>1 DEF ReqStates
<1> HIDE DEF y
<1>4. Sound(y)
  BY <1>1, <1>3 DEF Sound, Adding
<1>5. \A q \in Requests :
        q # r /\ y.pc \in Adding /\ req[q].pc \in Adding => req[q].ask.key # y.ask.key
  BY <1>3 DEF LoginInv, AddedApart
<1> QED BY <1>2, <1>3, <1>4, <1>5, OneMoves

(* A request goes to its verification with what it read.                   *)
LEMMA CheckingKeeps ==
  ASSUME Given, LoginInv, UNCHANGED <<rows, key, scenario>>, NEW r \in Requests,
         NEW h \in Hashes, Checks(r, h), NEW x, x = req[r],
         x.pc \notin {"idle", "answered"} \cup Adding,
         h # NoHash => HashOf(x.ask, h),
         x.right /\ x.ask.door \in Doors => h # NoHash
  PROVE  LoginInv'
<1> DEFINE y == [x EXCEPT !.pc = "verify", !.hash = h]
<1>1. x \in ReqStates /\ Sound(x)
  BY DEF LoginInv, LoginTypes, RequestsAreSound
<1>2. req' = [req EXCEPT ![r] = y]
  BY DEF Checks
<1>3. /\ y \in ReqStates /\ y.pc = "verify" /\ y.ask = x.ask /\ y.right = x.right /\ y.hash = h
  BY <1>1 DEF ReqStates, Steps
<1> HIDE DEF y
<1>4. Sound(y)
  BY <1>1, <1>3 DEF Sound, Adding
<1> QED BY <1>2, <1>3, <1>4, OneMoves DEF Adding

(* No slot: a refusal that says nothing of what was asked.                 *)
LEMMA SlotOrRefused ==
  ASSUME Given, LoginInv, UNCHANGED <<rows, key, scenario>>, NEW r \in Requests,
         NEW step \in Steps, AcquireSlot(r, step),
         NEW x, x = req[r],
         x.pc \notin {"idle", "answered"}, step \notin {"idle", "answered", "save", "child", "open"},
         step \in Adding <=> x.pc \in Adding,
         step \in {"verify", "verifying"} => x.pc \in {"verify", "verifying"},
         step \in {"dummy", "dummyMake", "dummyMaking"} => ~ (x.right /\ x.ask.door \in Doors)
  PROVE  LoginInv'
<1>1. CASE slots < Slots
  BY <1>1, GoingKeeps DEF AcquireSlot, GoesTo
<1>2. CASE ~ (slots < Slots)
  <2>1. req' = [req EXCEPT ![r] = Answered(r, "refused", TRUE)]
    BY <1>2 DEF AcquireSlot, Meets
  <2> QED BY <2>1, AnsweringKeeps
<1> QED BY <1>1, <1>2

LEMMA ArriveKeeps ==
  ASSUME Given, LoginInv, NEW r \in Requests, NEW ask \in scenario, Arrive(r, ask)
  PROVE  LoginInv'
<1>1. ask \in UNION Scenarios /\ ask \in Asks /\ ask.door # "panel" /\ ask.door # "none"
  <2>1. ask \in UNION Scenarios
    BY DEF LoginInv, LoginTypes
  <2> QED BY <2>1, AskTypes DEF Arrive, Given, LoginAssumption
<1>2. UNCHANGED <<rows, key, scenario>>
  BY DEF Arrive
<1>3. CASE Grants(ask.door, ask.key)
  <2> DEFINE y == [Idle EXCEPT !.pc = "account", !.ask = ask, !.right = Right(ask)]
  <2>1. req' = [req EXCEPT ![r] = y]
    BY <1>3 DEF Arrive
  <2>2. y = [pc |-> "account", ask |-> ask, right |-> Right(ask), met |-> FALSE,
             hash |-> NoHash, answer |-> "none"]
    <3>1. y = [Idle EXCEPT !.pc = "account", !.ask = ask, !.right = Right(ask)]
      OBVIOUS
    <3> HIDE DEF y
    <3> QED BY <3>1 DEF Idle
  <2> HIDE DEF y
  <2>3. Right(ask) \in BOOLEAN
    BY DEF Right
  <2>4. y \in ReqStates
    BY <1>1, <2>2, <2>3 DEF ReqStates, Steps, Hashes
  <2>5. Sound(y)
    BY <1>1, <2>2 DEF Sound, Adding
  <2> QED BY <1>2, <2>1, <2>2, <2>4, <2>5, OneMoves DEF Adding
<1>4. CASE ~ Grants(ask.door, ask.key)
  <2>1. req' = [req EXCEPT ![r] = Answered(r, "limited", TRUE)]
    BY <1>4 DEF Arrive, Meets
  <2> QED BY <1>2, <2>1, AnsweringKeeps
<1> QED BY <1>3, <1>4

LEMMA AddChildKeeps ==
  ASSUME Given, LoginInv, NEW r \in Requests, NEW ask \in scenario, AddChild(r, ask)
  PROVE  LoginInv'
<1>1. ask \in UNION Scenarios /\ ask \in Asks /\ ask.door = "panel"
  <2>1. ask \in UNION Scenarios
    BY DEF LoginInv, LoginTypes
  <2> QED BY <2>1, AskTypes DEF AddChild
<1>2. UNCHANGED <<rows, key, scenario>>
  BY DEF AddChild
<1> DEFINE y == [Idle EXCEPT !.pc = "make", !.ask = ask, !.right = TRUE]
<1>3. req' = [req EXCEPT ![r] = y] /\ children[ask.key] = NoChild
  BY DEF AddChild
<1>4. y = [pc |-> "make", ask |-> ask, right |-> TRUE, met |-> FALSE,
           hash |-> NoHash, answer |-> "none"]
  <2>1. y = [Idle EXCEPT !.pc = "make", !.ask = ask, !.right = TRUE]
    OBVIOUS
  <2> HIDE DEF y
  <2> QED BY <2>1 DEF Idle
<1> HIDE DEF y
<1>5. y \in ReqStates
  BY <1>1, <1>4 DEF ReqStates, Steps, Hashes
<1>6. ask.door \notin Doors
  BY <1>1 DEF Given, LoginAssumption
<1>7. Sound(y)
  BY <1>1, <1>3, <1>4, <1>6 DEF Sound, Adding
<1>8. \A q \in Requests : req[q].pc \in Adding => req[q].ask.key # y.ask.key
  <2> SUFFICES ASSUME NEW q \in Requests, req[q].pc \in Adding PROVE req[q].ask.key # ask.key
    BY <1>4
  <2>1. req[q].ask.door = "panel"
    BY DEF LoginInv, RequestsAreSound, Sound
  <2> QED BY <2>1 DEF AddChild
<1> QED BY <1>2, <1>3, <1>5, <1>7, <1>8, OneMoves

LEMMA ReadParentKeeps ==
  ASSUME Given, LoginInv, NEW r \in Requests, ReadParent(r)
  PROVE  LoginInv'
<1> DEFINE x == req[r]
<1>1. /\ UNCHANGED <<rows, key, scenario>> /\ x \in ReqStates /\ Sound(x) /\ x.pc = "account"
      /\ parents = [f \in Families |-> [version |-> 1, secret |-> f]]
  BY DEF LoginInv, LoginTypes, RequestsAreSound, ReadParent
<1>2. x.ask \in UNION Scenarios /\ x.ask.door \in {"parent", "child"} /\ x.ask.family # "none"
  BY <1>1, AskTypes DEF Sound, Adding
<1>3. Doors = {"parent", "child"}
  BY DEF Given, LoginAssumption
<1>4. CASE x.ask.family \notin Families
  <2>1. req' = [req EXCEPT ![r].pc = "dummy"]
    BY <1>4 DEF ReadParent, GoesTo
  <2>2. ~ (x.right /\ x.ask.door \in Doors)
    <3> SUFFICES ASSUME x.right, x.ask.door \in Doors PROVE FALSE
      OBVIOUS
    <3>1. Right(x.ask)
      BY <1>1 DEF Sound
    <3>2. x.ask.door = "child" /\ x.ask.key \in Children /\ children[x.ask.key].family = x.ask.family
      BY <1>2, <1>4, <3>1 DEF Right
    <3>3. children[x.ask.key] = NoChild
      BY <1>4, <3>2 DEF LoginInv, RowsAreReadable
    <3> QED BY <1>2, <3>2, <3>3 DEF NoChild
  <2>3. "dummy" \in Steps
    BY DEF Steps
  <2> QED BY <1>1, <2>1, <2>2, <2>3, GoingKeeps DEF Adding
<1>5. CASE x.ask.family \in Families /\ x.ask.door = "child"
  <2>1. req' = [req EXCEPT ![r].pc = "child"]
    BY <1>5 DEF ReadParent, GoesTo
  <2> QED BY <1>1, <1>5, <2>1, GoingKeeps DEF Steps, Adding
<1>6. CASE x.ask.family \in Families /\ x.ask.door # "child"
  <2> DEFINE h == parents[x.ask.family]
  <2>1. Checks(r, h)
    BY <1>6 DEF ReadParent
  <2>2. h = [version |-> 1, secret |-> x.ask.family]
    BY <1>1, <1>6
  <2>3. h \in Hashes /\ h # NoHash
    <3>1. x.ask.family \in Secrets
      BY <1>6 DEF Secrets
    <3>2. [version |-> 1, secret |-> x.ask.family].version = 1 /\ NoHash.version = 0
      BY DEF NoHash
    <3> QED BY <2>2, <3>1, <3>2 DEF Hashes
  <2>4. HashOf(x.ask, h)
    BY <1>2, <1>6 DEF HashOf
  <2> QED BY <1>1, <2>1, <2>3, <2>4, CheckingKeeps DEF Adding
<1> QED BY <1>4, <1>5, <1>6

LEMMA ReadChildKeeps ==
  ASSUME Given, LoginInv, NEW r \in Requests, ReadChild(r)
  PROVE  LoginInv'
<1> DEFINE x == req[r]
<1>1. /\ UNCHANGED <<rows, key, scenario>> /\ x \in ReqStates /\ Sound(x) /\ x.pc = "child"
      /\ children \in [Children -> ChildRows]
  BY DEF LoginInv, LoginTypes, RequestsAreSound, ReadChild
<1>2. x.ask \in UNION Scenarios /\ x.ask.door = "child" /\ x.ask.family # "none"
  BY <1>1, AskTypes DEF Sound
<1>3. CASE x.ask.key \in Children /\ children[x.ask.key].family = x.ask.family
  <2> DEFINE h == children[x.ask.key].hash
  <2>1. Checks(r, h)
    BY <1>3 DEF ReadChild
  <2>2. children[x.ask.key] # NoChild
    BY <1>2, <1>3 DEF NoChild
  <2>3. h \in Hashes
    BY <1>1, <1>3, <2>2 DEF ChildRows, Hashes
  <2>4. h.version \in 1 .. key
    BY <1>3, <2>2 DEF LoginInv, RowsAreReadable
  <2>5. h # NoHash
    <3>1. NoHash.version = 0 /\ key \in Nat
      BY DEF NoHash, LoginInv, LoginTypes, Given, LoginAssumption
    <3> QED BY <2>4, <3>1
  <2>6. HashOf(x.ask, h)
    BY <1>2, <1>3 DEF HashOf
  <2> QED BY <1>1, <2>1, <2>3, <2>5, <2>6, CheckingKeeps DEF Adding
<1>4. CASE ~ (x.ask.key \in Children /\ children[x.ask.key].family = x.ask.family)
  <2>1. req' = [req EXCEPT ![r].pc = "dummy"]
    BY <1>4 DEF ReadChild, GoesTo
  <2>2. ~ (x.right /\ x.ask.door \in Doors)
    BY <1>1, <1>2, <1>4 DEF Sound, Right
  <2>3. "dummy" \in Steps
    BY DEF Steps
  <2> QED BY <1>1, <2>1, <2>2, <2>3, GoingKeeps DEF Adding
<1> QED BY <1>3, <1>4

LEMMA GetDummyKeeps ==
  ASSUME Given, LoginInv, NEW r \in Requests, GetDummy(r)
  PROVE  LoginInv'
<1> DEFINE x == req[r]
<1>1. UNCHANGED <<rows, key, scenario>> /\ Sound(x) /\ x.pc = "dummy"
  BY DEF LoginInv, RequestsAreSound, GetDummy
<1>2. ~ (x.right /\ x.ask.door \in Doors) /\ x.ask.door \in Doors
  <2>1. x.ask \in UNION Scenarios /\ x.ask.door # "panel"
    BY <1>1 DEF Sound, Adding
  <2> QED BY <1>1, <2>1, AskTypes DEF Sound, Given, LoginAssumption
<1>3. \/ req' = [req EXCEPT ![r].pc = "dummyMake"]
      \/ req' = [req EXCEPT ![r] = Answered(r, "refused", FALSE)]
      \/ Checks(r, NoHash)
  BY DEF GetDummy, GoesTo, Answers
<1>4. CASE req' = [req EXCEPT ![r].pc = "dummyMake"]
  <2>1. "dummyMake" \in Steps
    BY DEF Steps
  <2> QED BY <1>1, <1>2, <1>4, <2>1, GoingKeeps DEF Adding
<1>5. CASE req' = [req EXCEPT ![r] = Answered(r, "refused", FALSE)]
  BY <1>1, <1>2, <1>5, AnsweringKeeps
<1>6. CASE Checks(r, NoHash)
  BY <1>1, <1>2, <1>6, CheckingKeeps DEF Adding, Hashes
<1> QED BY <1>3, <1>4, <1>5, <1>6

LEMMA MakeDummyKeeps ==
  ASSUME Given, LoginInv, NEW r \in Requests, MakeDummy(r) \/ DummyMade(r)
  PROVE  LoginInv'
<1> DEFINE x == req[r]
<1>1. UNCHANGED <<rows, key, scenario>> /\ Sound(x) /\ x.pc \in {"dummyMake", "dummyMaking"}
  BY DEF LoginInv, RequestsAreSound, MakeDummy, DummyMade
<1>2. ~ (x.right /\ x.ask.door \in Doors)
  BY <1>1 DEF Sound
<1>3. CASE MakeDummy(r)
  <2>1. "dummyMaking" \in Steps /\ AcquireSlot(r, "dummyMaking")
    BY <1>3 DEF Steps, Hashing, MakeDummy
  <2> QED BY <1>1, <1>2, <2>1, SlotOrRefused DEF Adding
<1>4. CASE DummyMade(r)
  <2>1. Checks(r, NoHash)
    BY <1>4 DEF DummyMade
  <2> QED BY <1>1, <1>2, <2>1, CheckingKeeps DEF Adding, Hashes
<1> QED BY <1>3, <1>4

LEMMA VerifyKeeps ==
  ASSUME Given, LoginInv, NEW r \in Requests, Verify(r)
  PROVE  LoginInv'
<1>1. /\ UNCHANGED <<rows, key, scenario>> /\ req[r].pc = "verify"
      /\ "verifying" \in Steps /\ AcquireSlot(r, "verifying")
  BY DEF Verify, Steps, Hashing
<1> QED BY <1>1, SlotOrRefused DEF Adding

(* Who knows its secret passes: its row can be read, and is what was read. *)
LEMMA VerifiedKeeps ==
  ASSUME Given, LoginInv, NEW r \in Requests, Verified(r)
  PROVE  LoginInv'
<1> DEFINE x == req[r]
           valid == /\ x.hash # NoHash
                    /\ x.hash.version \in LoadedKeys(key)
                    /\ x.hash.secret = x.ask.secret
<1>1. /\ UNCHANGED <<rows, key, scenario>> /\ Sound(x) /\ x.pc = "verifying"
      /\ parents = [f \in Families |-> [version |-> 1, secret |-> f]] /\ key \in 1 .. MaxVersion
      /\ RowsAreReadable
  BY DEF LoginInv, LoginTypes, RequestsAreSound, Verified
<1>2. x.ask \in UNION Scenarios /\ x.ask.door \in {"parent", "child"} /\ x.ask.family # "none"
  BY <1>1, AskTypes DEF Sound, Adding
<1>3. Doors = {"parent", "child"} /\ MaxVersion \in Nat
  BY DEF Given, LoginAssumption
<1>4. \/ ~ valid /\ req' = [req EXCEPT ![r] = Answered(r, "refused", FALSE)]
      \/ valid /\ x.ask.door = "parent" /\ req' = [req EXCEPT ![r] = Answered(r, "in", FALSE)]
      \/ valid /\ x.ask.door # "parent" /\ req' = [req EXCEPT ![r].pc = "open"]
  BY DEF Verified, Answers, GoesTo
<1>5. x.right => valid
  <2> SUFFICES ASSUME x.right PROVE valid
    OBVIOUS
  <2>1. Right(x.ask) /\ x.hash # NoHash /\ HashOf(x.ask, x.hash)
    BY <1>1, <1>2, <1>3 DEF Sound
  <2>2. CASE x.ask.door = "parent"
    <3>1. x.hash.version = 1 /\ x.hash.secret = x.ask.secret
      BY <1>1, <2>1, <2>2 DEF HashOf, Right
    <3> QED BY <1>1, <1>3, <2>1, <3>1 DEF LoadedKeys
  <2>3. CASE x.ask.door = "child"
    <3>1. /\ x.ask.key \in Children /\ children[x.ask.key].family = x.ask.family
          /\ x.hash = children[x.ask.key].hash /\ x.hash.secret = x.ask.secret
      BY <2>1, <2>3 DEF HashOf, Right
    <3>2. x.hash.version \in 1 .. key
      BY <1>1, <1>2, <3>1 DEF RowsAreReadable, NoChild
    <3> QED BY <2>1, <3>1, <3>2 DEF LoadedKeys
  <2> QED BY <1>2, <2>2, <2>3
<1>6. CASE ~ valid /\ req' = [req EXCEPT ![r] = Answered(r, "refused", FALSE)]
  BY <1>1, <1>5, <1>6, AnsweringKeeps
<1>7. CASE req' = [req EXCEPT ![r] = Answered(r, "in", FALSE)]
  BY <1>1, <1>7, AnsweringKeeps
<1>8. CASE valid /\ x.ask.door # "parent" /\ req' = [req EXCEPT ![r].pc = "open"]
  <2>1. x.ask.door = "child" /\ HashOf(x.ask, x.hash)
    BY <1>1, <1>2, <1>8 DEF Sound
  <2>2. Right(x.ask)
    BY <1>8, <2>1 DEF HashOf, Right
  <2>3. "open" \in Steps
    BY DEF Steps
  <2> QED BY <1>1, <1>8, <2>1, <2>2, <2>3, GoingKeeps DEF Adding
<1> QED BY <1>4, <1>6, <1>7, <1>8

LEMMA OpenKeeps ==
  ASSUME Given, LoginInv, NEW r \in Requests, OpenSession(r)
  PROVE  LoginInv'
<1> DEFINE x == req[r]
           new == [child |-> x.ask.key, family |-> x.ask.family, secret |-> x.ask.secret]
<1>1. /\ UNCHANGED <<parents, children, key, scenario>> /\ Sound(x) /\ x.pc = "open"
      /\ RowsAreReadable
      /\ req' = [req EXCEPT ![r] = Answered(r, "in", FALSE)]
      /\ sessions' = sessions \cup {new}
  BY DEF LoginInv, RequestsAreSound, OpenSession, Answers
<1>2. LoginTypes' /\ RowsAreReadable' /\ RequestsAreSound' /\ AddedApart'
  BY <1>1, AnswerIsSound, OneMovesOn DEF Adding
<1>3. x.ask.door = "child" /\ Right(x.ask) /\ x.ask.family # "none"
  BY <1>1, AskTypes DEF Sound
<1>4. /\ x.ask.key \in Children /\ children[x.ask.key].family = x.ask.family
      /\ children[x.ask.key].hash.secret = x.ask.secret
  BY <1>3 DEF Right
<1>5. x.ask.family \in Families
  BY <1>1, <1>3, <1>4 DEF RowsAreReadable, NoChild
<1>6. SessionsHaveFamilies' /\ SessionsAreEarned'
  BY <1>1, <1>4, <1>5 DEF LoginInv, SessionsHaveFamilies, SessionsAreEarned
<1> QED BY <1>2, <1>6 DEF LoginInv

LEMMA MakeHashKeeps ==
  ASSUME Given, LoginInv, NEW r \in Requests, MakeHash(r)
  PROVE  LoginInv'
<1>1. /\ UNCHANGED <<rows, key, scenario>> /\ req[r].pc = "make"
      /\ "making" \in Steps /\ AcquireSlot(r, "making")
  BY DEF MakeHash, Steps, Hashing
<1> QED BY <1>1, SlotOrRefused DEF Adding

LEMMA HashMadeKeeps ==
  ASSUME Given, LoginInv, NEW r \in Requests, HashMade(r)
  PROVE  LoginInv'
<1> DEFINE x == req[r]
           h == [version |-> key, secret |-> x.ask.secret]
           y == [x EXCEPT !.pc = "save", !.hash = h]
<1>1. /\ UNCHANGED <<rows, key, scenario>> /\ x \in ReqStates /\ Sound(x) /\ x.pc = "making"
      /\ key \in 1 .. MaxVersion
      /\ req' = [req EXCEPT ![r] = y]
  BY DEF LoginInv, LoginTypes, RequestsAreSound, HashMade
<1>2. MaxVersion \in Nat
  BY DEF Given, LoginAssumption
<1>3. x.ask.secret \in Secrets
  BY <1>1, AskTypes DEF Sound
<1>4. h \in Hashes
  BY <1>1, <1>2, <1>3 DEF Hashes
<1>5. h.version = key /\ h.secret = x.ask.secret
  OBVIOUS
<1> HIDE DEF h
<1>6. y \in ReqStates /\ y.pc = "save" /\ y.ask = x.ask /\ y.right = x.right /\ y.hash = h
  BY <1>1, <1>4 DEF ReqStates, Steps
<1> HIDE DEF y
<1>7. key \in 1 .. key
  BY <1>1, <1>2
<1>8. Sound(y)
  BY <1>1, <1>5, <1>6, <1>7 DEF Sound, Adding
<1>9. \A q \in Requests :
        q # r /\ y.pc \in Adding /\ req[q].pc \in Adding => req[q].ask.key # y.ask.key
  BY <1>1, <1>6 DEF LoginInv, AddedApart, Adding
<1> QED BY <1>1, <1>6, <1>8, <1>9, OneMoves

(* Rows that are only added leave sound what does not add the same.        *)
LEMMA RowsGrow ==
  ASSUME Given, UNCHANGED <<parents, key>>,
         \A k \in Children : children[k] # NoChild => children'[k] = children[k],
         NEW z, Sound(z), z.pc \in Adding => children'[z.ask.key] = NoChild
  PROVE  Sound(z)'
<1>1. parents' = parents /\ key' = key
  OBVIOUS
<1>2. NoChild.family = "none" /\ Doors = {"parent", "child"}
  BY DEF NoChild, Given, LoginAssumption
<1>3. z.pc \notin {"idle", "answered"} => z.ask.family # "none"
  BY AskTypes DEF Sound
<1>4. z.ask.family # "none" /\ Right(z.ask) => Right(z.ask)'
  BY <1>1, <1>2 DEF Right
<1>5. z.ask.family # "none" /\ HashOf(z.ask, z.hash) => HashOf(z.ask, z.hash)'
  BY <1>1, <1>2 DEF HashOf
<1>6. z.pc \in {"idle", "answered"} => z.ask.door \notin Doors
  BY <1>2, IdleTyped DEF Sound
<1> HIDE DEF Adding
<1> QED BY <1>1, <1>3, <1>4, <1>5, <1>6 DEF Sound

(* A row is written where there was none, so no row that was read moves.   *)
LEMMA CreateKeeps ==
  ASSUME Given, LoginInv, NEW r \in Requests, CreateChild(r)
  PROVE  LoginInv'
<1> DEFINE x == req[r]
           c == x.ask.key
           row == [family |-> x.ask.family, hash |-> x.hash]
           y == Answered(r, "in", FALSE)
<1>1. /\ UNCHANGED <<parents, sessions, key, scenario>>
      /\ x \in ReqStates /\ Sound(x) /\ x.pc = "save"
      /\ children' = [children EXCEPT ![c] = row]
      /\ req' = [req EXCEPT ![r] = y]
  BY DEF LoginInv, LoginTypes, RequestsAreSound, CreateChild, Answers
<1>2. /\ LoginTypes /\ RowsAreReadable /\ RequestsAreSound /\ AddedApart
      /\ SessionsHaveFamilies /\ SessionsAreEarned
  BY DEF LoginInv
<1>3. /\ x.ask \in UNION Scenarios /\ x.ask.door = "panel" /\ children[c] = NoChild
      /\ x.hash.version \in 1 .. key
  BY <1>1 DEF Sound, Adding
<1>4. c \in Children /\ x.ask.family \in Families
  BY <1>3, AskTypes
<1>5. row \in ChildRows /\ row.family = x.ask.family /\ row.hash = x.hash
  BY <1>1, <1>4 DEF ChildRows, ReqStates
<1>6. y \in ReqStates /\ y.pc = "answered" /\ y.ask = NoAsk /\ y.answer = "in" /\ Sound(y)
  <2>1. y \in ReqStates /\ y.pc = "answered" /\ Sound(y)
    BY AnswerIsSound
  <2>2. y = [Idle EXCEPT !.pc = "answered", !.answer = "in", !.right = req[r].right, !.met = FALSE]
    BY DEF Answered
  <2> HIDE DEF y
  <2>3. y.answer = "in"
    BY <2>2 DEF Idle
  <2>4. y.ask = NoAsk
    BY <2>1 DEF Sound
  <2> QED BY <2>1, <2>3, <2>4
<1> HIDE DEF y, row, c
<1>7. children'[c] = row /\ \A k \in Children : k # c => children'[k] = children[k]
  BY <1>1, <1>2, <1>4 DEF LoginTypes
<1>8. req'[r] = y /\ \A q \in Requests : q # r => req'[q] = req[q]
  BY <1>1, <1>2 DEF LoginTypes
<1>9. LoginTypes'
  BY <1>1, <1>2, <1>5, <1>6 DEF LoginTypes
<1>10. RowsAreReadable'
  BY <1>1, <1>2, <1>3, <1>4, <1>5, <1>7 DEF RowsAreReadable
<1>11. \A k \in Children : children[k] # NoChild => children'[k] = children[k]
  BY <1>3, <1>7 DEF c
<1>12. NoChild.family = "none" /\ "none" \notin Families
  BY DEF NoChild, Given, LoginAssumption
<1>13. RequestsAreSound'
  <2> SUFFICES ASSUME NEW q \in Requests PROVE Sound(req[q])'
    BY DEF RequestsAreSound
  <2>1. CASE q = r
    BY <1>1, <1>6, <1>8, <2>1, IdleTyped DEF Sound, Adding, Given, LoginAssumption
  <2>2. CASE q # r
    <3>1. PICK z : z = req[q]
      OBVIOUS
    <3>2. Sound(z) /\ req'[q] = z
      BY <1>2, <1>8, <2>2, <3>1 DEF RequestsAreSound
    <3>3. z.pc \in Adding => children'[z.ask.key] = NoChild
      <4> SUFFICES ASSUME z.pc \in Adding PROVE children'[z.ask.key] = NoChild
        OBVIOUS
      <4>1. z.ask.key # c
        BY <1>1, <1>2, <2>2, <3>1 DEF AddedApart, Adding, c
      <4>2. z.ask.key \in Children /\ children[z.ask.key] = NoChild
        BY <3>2, AskTypes DEF Sound, Adding
      <4> QED BY <1>7, <4>1, <4>2
    <3>4. Sound(z)'
      BY <1>1, <1>11, <3>2, <3>3, RowsGrow
    <3> QED BY <3>2, <3>4 DEF Sound, HashOf, Right
  <2> QED BY <2>1, <2>2
<1>14. AddedApart'
  BY <1>2, <1>6, <1>8 DEF AddedApart, Adding
<1>15. SessionsHaveFamilies' /\ SessionsAreEarned'
  <2>1. \A s \in sessions : s.child \in Children /\ children[s.child] # NoChild
    BY <1>2, <1>12 DEF SessionsHaveFamilies, SessionsAreEarned
  <2> QED BY <1>1, <1>2, <1>11, <2>1 DEF SessionsHaveFamilies, SessionsAreEarned
<1> QED BY <1>9, <1>10, <1>13, <1>14, <1>15 DEF LoginInv

LEMMA FailKeeps ==
  ASSUME Given, LoginInv, NEW r \in Requests, Fail(r)
  PROVE  LoginInv'
<1>1. UNCHANGED <<rows, key, scenario>> /\ req' = [req EXCEPT ![r] = Answered(r, "error", TRUE)]
  BY DEF Fail, Meets
<1> QED BY <1>1, AnsweringKeeps

LEMMA LeaveKeeps ==
  ASSUME Given, LoginInv, NEW r \in Requests, Leave(r)
  PROVE  LoginInv'
<1>1. UNCHANGED <<rows, key, scenario>> /\ req' = [req EXCEPT ![r] = Idle]
  BY DEF Leave
<1>2. Idle.pc = "idle"
  BY DEF Idle
<1> QED BY <1>1, <1>2, IdleTyped, IdleSound, OneMoves DEF Adding

(* A restart forgets every request; the new process reads the old hashes.  *)
LEMMA RestartKeeps ==
  ASSUME Given, LoginInv, Restart
  PROVE  LoginInv'
<1>1. /\ LoginTypes /\ RowsAreReadable /\ SessionsHaveFamilies /\ SessionsAreEarned
      /\ parents' = parents /\ children' = children /\ sessions' = sessions /\ scenario' = scenario
      /\ req' = [r \in Requests |-> Idle]
      /\ key' \in {key, key + 1} /\ key' <= MaxVersion
  BY DEF LoginInv, Restart, rows
<1>2. key \in 1 .. MaxVersion /\ MaxVersion \in Nat
  BY <1>1 DEF LoginTypes, Given, LoginAssumption
<1>3. key' \in 1 .. MaxVersion /\ \A v \in 1 .. key : v \in 1 .. key'
  BY <1>1, <1>2
<1>4. LoginTypes'
  BY <1>1, <1>3, IdleTyped DEF LoginTypes
<1>5. RowsAreReadable'
  BY <1>1, <1>3 DEF RowsAreReadable
<1>6. RequestsAreSound'
  <2> SUFFICES ASSUME NEW q \in Requests PROVE Sound(req[q])'
    BY DEF RequestsAreSound
  <2>1. req'[q] = Idle
    BY <1>1
  <2> QED BY <2>1, IdleTyped DEF Sound, Idle, Adding
<1>7. AddedApart'
  BY <1>1 DEF AddedApart, Adding, Idle
<1>8. SessionsHaveFamilies' /\ SessionsAreEarned'
  BY <1>1 DEF SessionsHaveFamilies, SessionsAreEarned
<1> QED BY <1>4, <1>5, <1>6, <1>7, <1>8 DEF LoginInv

LEMMA StillKeeps ==
  ASSUME LoginInv, UNCHANGED <<rows, req, key, scenario>>
  PROVE  LoginInv'
<1>1. /\ parents' = parents /\ children' = children /\ sessions' = sessions
      /\ req' = req /\ key' = key /\ scenario' = scenario
  BY DEF rows
<1>2. RequestsAreSound'
  <2> SUFFICES ASSUME NEW q \in Requests PROVE Sound(req[q])'
    BY DEF RequestsAreSound
  <2>1. Sound(req[q])
    BY DEF LoginInv, RequestsAreSound
  <2> QED BY <1>1, <2>1 DEF Sound, HashOf, Right
<1> QED BY <1>1, <1>2 DEF LoginInv, LoginTypes, RowsAreReadable, AddedApart,
                          SessionsHaveFamilies, SessionsAreEarned

LEMMA LoginSteps == Given /\ LoginInv /\ [Next]_vars => LoginInv'
<1> SUFFICES ASSUME Given, LoginInv, [Next]_vars PROVE LoginInv'
  OBVIOUS
<1>1. CASE \E r \in Requests : Works(r)
  BY <1>1, ReadParentKeeps, ReadChildKeeps, GetDummyKeeps, MakeDummyKeeps, VerifyKeeps,
     VerifiedKeeps, OpenKeeps, MakeHashKeeps, HashMadeKeeps, CreateKeeps DEF Works
<1>2. CASE \E r \in Requests : Fail(r) \/ Leave(r)
  BY <1>2, FailKeeps, LeaveKeeps
<1>3. CASE \E r \in Requests : \E ask \in scenario : Arrive(r, ask) \/ AddChild(r, ask)
  BY <1>3, ArriveKeeps, AddChildKeeps
<1>4. CASE Passes
  BY <1>4, StillKeeps DEF Passes
<1>5. CASE Restart
  BY <1>5, RestartKeeps
<1>6. CASE UNCHANGED vars
  BY <1>6, StillKeeps DEF vars
<1> QED BY <1>1, <1>2, <1>3, <1>4, <1>5, <1>6 DEF Next

(* The limiters see the doors and keys of what is asked, and nothing else. *)
LEMMA LimitersStep == Given /\ LoginInv /\ LimiterInv /\ [Next]_vars => LimiterInv'
<1> SUFFICES ASSUME Given, LoginInv, LimiterInv, [Next]_vars PROVE LimiterInv'
  OBVIOUS
<1>1. LimiterAssumption
  BY DEF Given
<1>2. ASSUME UNCHANGED limits PROVE LimiterInv'
  <2>1. order' = order /\ tokens' = tokens /\ owed' = owed /\ others' = others
    BY <1>2 DEF limits
  <2> QED BY <2>1 DEF LimiterInv, LimiterTypes, TracksFew, FewOthers, DebtIsSpent, Followed,
                     Tracked, AllowanceIsKept
<1>3. ASSUME NEW r \in Requests, NEW ask \in scenario, Arrive(r, ask) PROVE LimiterInv'
  <2>1. ask \in UNION Scenarios
    BY DEF LoginInv, LoginTypes
  <2>2. ask.door \in Doors /\ ask.key \in Keys /\ Allow(ask.door, ask.key)
    BY <1>3, <2>1, AskTypes DEF Arrive
  <2> QED BY <1>1, <2>2, LimiterAllows
<1>4. CASE Passes
  BY <1>1, <1>4, LimiterElapses DEF Passes
<1>5. CASE Restart
  BY <1>1, <1>5, LimiterRestarts DEF Restart
<1>6. CASE \E r \in Requests : Works(r) \/ Fail(r) \/ Leave(r) \/ \E ask \in scenario : AddChild(r, ask)
  <2>1. UNCHANGED limits
    BY <1>6 DEF Works, ReadParent, ReadChild, GetDummy, MakeDummy, DummyMade, Verify, Verified,
                OpenSession, MakeHash, HashMade, CreateChild, Fail, Leave, AddChild
  <2> QED BY <1>2, <2>1
<1>7. CASE UNCHANGED vars
  BY <1>2, <1>7 DEF vars
<1> QED BY <1>3, <1>4, <1>5, <1>6, <1>7 DEF Next

(* The children's rows, sessions and requests, and the limiters, keep      *)
(* their invariant.                                                        *)
THEOREM LoginInvariance ==
  ASSUME LimiterAssumption, LoginAssumption
  PROVE  Spec => [](LoginInv /\ LimiterInv)
<1>1. Given
  BY DEF Given
<1>2. Init => LoginInv /\ LimiterInv
  BY <1>1, LoginStarts, LimiterStarts DEF Init, Given
<1>3. LoginInv /\ LimiterInv /\ [Next]_vars => (LoginInv /\ LimiterInv)'
  BY <1>1, LoginSteps, LimitersStep
<1> QED BY <1>2, <1>3, PTL DEF Spec

(* A child's session is opened for that child's pattern, through its own    *)
(* family, for any number of requests, children and restarts                *)
(* (handleChildLogin).                                                      *)
THEOREM SessionsAreAlwaysEarned ==
  ASSUME LimiterAssumption, LoginAssumption
  PROVE  Spec => []SessionsAreEarned
<1>1. Spec => [](LoginInv /\ LimiterInv)
  BY LoginInvariance
<1>2. LoginInv /\ LimiterInv => SessionsAreEarned
  BY DEF LoginInv
<1> QED BY <1>1, <1>2, PTL

(* Who knows the secret is refused by a limiter, a semaphore or a failed    *)
(* statement only, whatever the number of versions the key has had          *)
(* (VerifyHash, onceHash.get).                                              *)
THEOREM RefusedAlwaysForAReason ==
  ASSUME LimiterAssumption, LoginAssumption
  PROVE  Spec => []RefusedForAReason
<1>1. Spec => [](LoginInv /\ LimiterInv)
  BY LoginInvariance
<1>2. LoginInv /\ LimiterInv => RefusedForAReason
  BY DEF LoginInv, RequestsAreSound, Sound, RefusedForAReason
<1> QED BY <1>1, <1>2, PTL

(* No crowd smaller than the table frees a key of what it has spent, for    *)
(* any table and any allowance (Limiter.Allow, evictOldestLocked).          *)
THEOREM AllowanceIsAlwaysKept ==
  ASSUME LimiterAssumption, LoginAssumption
  PROVE  Spec => []AllowanceIsKept
<1>1. Spec => [](LoginInv /\ LimiterInv)
  BY LoginInvariance
<1>2. LoginInv /\ LimiterInv => AllowanceIsKept
  BY DEF LimiterInv
<1> QED BY <1>1, <1>2, PTL

(* The hashes being computed. *)
Held == {r \in Requests : req[r].pc \in Hashing}

SlotsInv == IsFiniteSet(Held) /\ SlotsAreHeld

(* One request moves, and a slot with it if it begins or ends a hash.      *)
LEMMA SlotMoves ==
  ASSUME Given, SlotsInv, NEW r \in Requests,
         \A q \in Requests : q # r => req'[q] = req[q],
         \/ req[r].pc \notin Hashing /\ req'[r].pc \notin Hashing /\ slots' = slots
         \/ req[r].pc \notin Hashing /\ req'[r].pc \in Hashing /\ slots' = slots + 1 /\ slots < Slots
         \/ req[r].pc \in Hashing /\ req'[r].pc \notin Hashing /\ slots' = slots - 1
  PROVE  SlotsInv'
<1>1. IsFiniteSet(Held) /\ slots = Cardinality(Held) /\ slots <= Slots
  BY DEF SlotsInv, SlotsAreHeld, Held
<1>2. slots \in Nat /\ Slots \in Nat
  BY <1>1, FS_CardinalityType DEF Given, LoginAssumption
<1>3. CASE req[r].pc \notin Hashing /\ req'[r].pc \notin Hashing /\ slots' = slots
  <2>1. Held' = Held
    BY <1>3 DEF Held
  <2> QED BY <1>1, <1>3, <2>1 DEF SlotsInv, SlotsAreHeld, Held
<1>4. CASE /\ req[r].pc \notin Hashing /\ req'[r].pc \in Hashing
           /\ slots' = slots + 1 /\ slots < Slots
  <2>1. Held' = Held \cup {r} /\ r \notin Held
    BY <1>4 DEF Held
  <2>2. IsFiniteSet(Held') /\ Cardinality(Held') = Cardinality(Held) + 1
    BY <1>1, <2>1, FS_AddElement
  <2>3. slots' = Cardinality(Held') /\ slots' <= Slots
    BY <1>1, <1>2, <1>4, <2>2
  <2> QED BY <2>2, <2>3 DEF SlotsInv, SlotsAreHeld, Held
<1>5. CASE req[r].pc \in Hashing /\ req'[r].pc \notin Hashing /\ slots' = slots - 1
  <2>1. Held' = Held \ {r} /\ r \in Held
    BY <1>5 DEF Held
  <2>2. IsFiniteSet(Held') /\ Cardinality(Held') = Cardinality(Held) - 1
    BY <1>1, <2>1, FS_RemoveElement
  <2>3. slots' = Cardinality(Held') /\ slots' <= Slots
    BY <1>1, <1>2, <1>5, <2>2
  <2> QED BY <2>2, <2>3 DEF SlotsInv, SlotsAreHeld, Held
<1> QED BY <1>3, <1>4, <1>5

(* Where the requests are after one moved. *)
LEMMA StepOfOne ==
  ASSUME LoginTypes, NEW r \in Requests
  PROVE  /\ \A y : req' = [req EXCEPT ![r] = y] =>
              req'[r] = y /\ \A q \in Requests : q # r => req'[q] = req[q]
         /\ \A step : GoesTo(r, step) =>
              req'[r].pc = step /\ \A q \in Requests : q # r => req'[q] = req[q]
         /\ \A hash : Checks(r, hash) =>
              req'[r].pc = "verify" /\ \A q \in Requests : q # r => req'[q] = req[q]
         /\ \A what : Answers(r, what) =>
              req'[r].pc = "answered" /\ \A q \in Requests : q # r => req'[q] = req[q]
         /\ \A what : Meets(r, what) =>
              req'[r].pc = "answered" /\ \A q \in Requests : q # r => req'[q] = req[q]
<1>1. req \in [Requests -> ReqStates] /\ req[r] \in ReqStates
  BY DEF LoginTypes
<1>2. \A y : req' = [req EXCEPT ![r] = y] =>
        req'[r] = y /\ \A q \in Requests : q # r => req'[q] = req[q]
  BY <1>1
<1>3. \A what, met : Answered(r, what, met).pc = "answered"
  BY DEF Answered, Idle
<1>4. \A what : (Answers(r, what) => req' = [req EXCEPT ![r] = Answered(r, what, FALSE)])
             /\ (Meets(r, what) => req' = [req EXCEPT ![r] = Answered(r, what, TRUE)])
  BY DEF Answers, Meets
<1>5. ASSUME NEW step, GoesTo(r, step)
      PROVE  req'[r].pc = step /\ \A q \in Requests : q # r => req'[q] = req[q]
  BY <1>1, <1>5 DEF GoesTo, ReqStates
<1>6. ASSUME NEW hash, Checks(r, hash)
      PROVE  req'[r].pc = "verify" /\ \A q \in Requests : q # r => req'[q] = req[q]
  BY <1>1, <1>6 DEF Checks, ReqStates
<1>7. ASSUME NEW what, NEW met, req' = [req EXCEPT ![r] = Answered(r, what, met)]
      PROVE  req'[r].pc = "answered" /\ \A q \in Requests : q # r => req'[q] = req[q]
  <2>1. Answered(r, what, met).pc = "answered"
    BY <1>3
  <2>2. req'[r] = Answered(r, what, met) /\ \A q \in Requests : q # r => req'[q] = req[q]
    BY <1>2, <1>7
  <2> QED BY <2>1, <2>2
<1>8. ASSUME NEW what, Answers(r, what) \/ Meets(r, what)
      PROVE  req'[r].pc = "answered" /\ \A q \in Requests : q # r => req'[q] = req[q]
  BY <1>4, <1>7, <1>8
<1> QED BY <1>2, <1>5, <1>6, <1>8

LEMMA SlotsStep == Given /\ LoginInv /\ SlotsInv /\ [Next]_vars => SlotsInv'
<1> SUFFICES ASSUME Given, LoginInv, SlotsInv, [Next]_vars PROVE SlotsInv'
  OBVIOUS
<1>1. LoginTypes
  BY DEF LoginInv
<1>2. {"idle", "answered", "account", "child", "dummy", "dummyMake", "make", "save", "verify", "open"}
        \cap Hashing = {}
  BY DEF Hashing
<1>3. ASSUME NEW r \in Requests, NEW step \in Hashing, AcquireSlot(r, step), req[r].pc \notin Hashing
      PROVE  SlotsInv'
  <2>1. CASE slots < Slots
    <3>1. slots' = slots + 1 /\ GoesTo(r, step)
      BY <1>3, <2>1 DEF AcquireSlot
    <3> QED BY <1>1, <1>3, <2>1, <3>1, StepOfOne, SlotMoves
  <2>2. CASE ~ (slots < Slots)
    <3>1. slots' = slots /\ Meets(r, "refused")
      BY <1>3, <2>2 DEF AcquireSlot
    <3>2. req'[r].pc = "answered" /\ \A q \in Requests : q # r => req'[q] = req[q]
      BY <1>1, <3>1, StepOfOne
    <3> QED BY <1>2, <1>3, <3>1, <3>2, SlotMoves
  <2> QED BY <2>1, <2>2
<1>4. ASSUME NEW r \in Requests, MakeDummy(r) \/ Verify(r) \/ MakeHash(r) PROVE SlotsInv'
  <2>1. req[r].pc \in {"dummyMake", "verify", "make"} /\ \E step \in Hashing : AcquireSlot(r, step)
    BY <1>4 DEF MakeDummy, Verify, MakeHash, Hashing
  <2> QED BY <1>2, <1>3, <2>1
<1>5. ASSUME NEW r \in Requests, DummyMade(r) \/ Verified(r) \/ HashMade(r) PROVE SlotsInv'
  <2>1. req[r].pc \in Hashing /\ slots' = slots - 1
    BY <1>5 DEF DummyMade, Verified, HashMade, Hashing
  <2>2. /\ req'[r].pc \in {"verify", "answered", "open", "save"}
        /\ \A q \in Requests : q # r => req'[q] = req[q]
    <3>1. CASE DummyMade(r)
      BY <1>1, <3>1, StepOfOne DEF DummyMade
    <3>2. CASE Verified(r)
      <4>1. Answers(r, "refused") \/ Answers(r, "in") \/ GoesTo(r, "open")
        BY <3>2 DEF Verified
      <4> QED BY <1>1, <4>1, StepOfOne
    <3>3. CASE HashMade(r)
      BY <1>1, <3>3 DEF HashMade, LoginTypes, ReqStates
    <3> QED BY <1>5, <3>1, <3>2, <3>3
  <2> QED BY <1>2, <2>1, <2>2, SlotMoves
<1>6. ASSUME NEW r \in Requests,
             \/ ReadParent(r) \/ ReadChild(r) \/ GetDummy(r) \/ OpenSession(r) \/ CreateChild(r)
             \/ Fail(r) \/ Leave(r)
             \/ \E ask \in scenario : Arrive(r, ask) \/ AddChild(r, ask)
      PROVE  SlotsInv'
  <2>1. slots' = slots /\ req[r].pc \notin Hashing
    BY <1>6 DEF ReadParent, ReadChild, GetDummy, OpenSession, CreateChild, Fail, Leave, Arrive, AddChild,
                Hashing
  <2>2. /\ req'[r].pc \notin Hashing
        /\ \A q \in Requests : q # r => req'[q] = req[q]
    <3>1. \/ \E step \in {"dummy", "child", "dummyMake"} : GoesTo(r, step)
          \/ \E hash : Checks(r, hash)
          \/ \E what : Answers(r, what) \/ Meets(r, what)
          \/ req' = [req EXCEPT ![r] = Idle]
          \/ \E ask : req' = [req EXCEPT ![r] = [Idle EXCEPT !.pc = "account", !.ask = ask,
                                                             !.right = Right(ask)]]
          \/ \E ask : req' = [req EXCEPT ![r] = [Idle EXCEPT !.pc = "make", !.ask = ask,
                                                             !.right = TRUE]]
      <4>1. CASE ReadParent(r)
        BY <4>1 DEF ReadParent
      <4>2. CASE ReadChild(r)
        BY <4>2 DEF ReadChild
      <4>3. CASE GetDummy(r)
        BY <4>3 DEF GetDummy
      <4>4. CASE OpenSession(r) \/ CreateChild(r) \/ Fail(r) \/ Leave(r)
        BY <4>4 DEF OpenSession, CreateChild, Fail, Leave
      <4>5. CASE \E ask \in scenario : Arrive(r, ask)
        BY <4>5 DEF Arrive
      <4>6. CASE \E ask \in scenario : AddChild(r, ask)
        BY <4>6 DEF AddChild
      <4> QED BY <1>6, <4>1, <4>2, <4>3, <4>4, <4>5, <4>6
    <3>2. /\ Idle.pc = "idle"
          /\ \A ask, right : [Idle EXCEPT !.pc = "account", !.ask = ask, !.right = right].pc = "account"
          /\ \A ask, right : [Idle EXCEPT !.pc = "make", !.ask = ask, !.right = right].pc = "make"
      BY DEF Idle
    <3>3. CASE \E y : req' = [req EXCEPT ![r] = y] /\ y.pc \in {"idle", "account", "make"}
      <4>1. PICK y : req' = [req EXCEPT ![r] = y] /\ y.pc \in {"idle", "account", "make"}
        BY <3>3
      <4> QED BY <1>1, <1>2, <4>1, StepOfOne
    <3>4. CASE \E step \in {"dummy", "child", "dummyMake"} : GoesTo(r, step)
      BY <1>1, <1>2, <3>4, StepOfOne
    <3>5. CASE \E hash : Checks(r, hash)
      BY <1>1, <1>2, <3>5, StepOfOne
    <3>6. CASE \E what : Answers(r, what) \/ Meets(r, what)
      BY <1>1, <1>2, <3>6, StepOfOne
    <3>7. CASE req' = [req EXCEPT ![r] = Idle]
      BY <3>2, <3>3, <3>7
    <3>8. CASE \E ask : req' = [req EXCEPT ![r] = [Idle EXCEPT !.pc = "account", !.ask = ask,
                                                             !.right = Right(ask)]]
      <4>1. PICK ask : req' = [req EXCEPT ![r] = [Idle EXCEPT !.pc = "account", !.ask = ask,
                                                             !.right = Right(ask)]]
        BY <3>8
      <4>2. [Idle EXCEPT !.pc = "account", !.ask = ask, !.right = Right(ask)].pc = "account"
        BY <3>2
      <4> QED BY <3>3, <4>1, <4>2
    <3>9. CASE \E ask : req' = [req EXCEPT ![r] = [Idle EXCEPT !.pc = "make", !.ask = ask,
                                                             !.right = TRUE]]
      <4>1. PICK ask : req' = [req EXCEPT ![r] = [Idle EXCEPT !.pc = "make", !.ask = ask,
                                                             !.right = TRUE]]
        BY <3>9
      <4>2. [Idle EXCEPT !.pc = "make", !.ask = ask, !.right = TRUE].pc = "make"
        BY <3>2
      <4> QED BY <3>3, <4>1, <4>2
    <3> QED BY <3>1, <3>4, <3>5, <3>6, <3>7, <3>8, <3>9
  <2> QED BY <2>1, <2>2, SlotMoves
<1>7. CASE Restart
  <2>1. Held' = {} /\ slots' = 0
    BY <1>7 DEF Restart, Held, Idle, Hashing
  <2>2. IsFiniteSet(Held') /\ Cardinality(Held') = 0
    BY <2>1, FS_EmptySet
  <2>3. 0 <= Slots
    BY DEF Given, LoginAssumption
  <2> QED BY <2>1, <2>2, <2>3 DEF SlotsInv, SlotsAreHeld, Held
<1>8. CASE Passes \/ UNCHANGED vars
  <2>1. req' = req /\ slots' = slots
    BY <1>8 DEF Passes, vars
  <2> QED BY <2>1 DEF SlotsInv, SlotsAreHeld, Held
<1> QED BY <1>4, <1>5, <1>6, <1>7, <1>8 DEF Next, Works

LEMMA SlotsInvariance ==
  ASSUME LimiterAssumption, LoginAssumption
  PROVE  Spec => []SlotsInv
<1>1. Given
  BY DEF Given
<1>2. Init => LoginInv /\ SlotsInv
  <2>1. Init => Held = {} /\ slots = 0
    BY DEF Init, Held, Idle, Hashing
  <2>2. IsFiniteSet({}) /\ Cardinality({}) = 0 /\ 0 <= Slots
    BY FS_EmptySet DEF LoginAssumption
  <2> QED BY <1>1, <2>1, <2>2, LoginStarts DEF SlotsInv, SlotsAreHeld, Held
<1>3. LoginInv /\ SlotsInv /\ [Next]_vars => (LoginInv /\ SlotsInv)'
  BY <1>1, LoginSteps, SlotsStep
<1> QED BY <1>2, <1>3, PTL DEF Spec

(* The slots taken are those of the hashes being computed, for any number   *)
(* of slots and requests (acquireArgon2Slot and its release).               *)
THEOREM SlotsAreAlwaysHeld ==
  ASSUME LimiterAssumption, LoginAssumption
  PROVE  Spec => []SlotsAreHeld
<1>1. Spec => []SlotsInv
  BY SlotsInvariance
<1>2. SlotsInv => SlotsAreHeld
  BY DEF SlotsInv
<1> QED BY <1>1, <1>2, PTL

----------------------------------------------------------------------------
(* The types that no property above needs. *)
DummiesTyped == dummy \in [Doors -> {"cold", "making", "made", "failed"}]

(* As many keys are tracked as the order has places. *)
LEMMA TrackedCount ==
  ASSUME NEW s \in Seq(Keys),
         \A i, j \in 1 .. Len(s) : s[i] = s[j] => i = j
  PROVE  ToSet(s) \subseteq Keys /\ Len(s) = Cardinality(ToSet(s))
<1>1. Len(s) \in Nat /\ s \in [1 .. Len(s) -> Keys] /\ ToSet(s) = {s[i] : i \in 1 .. Len(s)}
  BY DEF ToSet
<1>2. s \in Injection(1 .. Len(s), ToSet(s)) /\ s \in Surjection(1 .. Len(s), ToSet(s))
  BY <1>1 DEF Injection, Surjection, IsInjective
<1>3. IsFiniteSet(1 .. Len(s)) /\ Cardinality(1 .. Len(s)) = Len(s)
  BY <1>1, FS_Interval
<1>4. Cardinality(ToSet(s)) = Cardinality(1 .. Len(s))
  BY <1>2, <1>3, FS_Surjection
<1> QED BY <1>1, <1>3, <1>4

LEMMA LimitersTyped == LimiterInv => LimiterTypeOK
<1> SUFFICES ASSUME LimiterInv PROVE LimiterTypeOK
  OBVIOUS
<1>1. ASSUME NEW d \in Doors
      PROVE  /\ ToSet(order[d]) \subseteq Keys
             /\ Len(order[d]) = Cardinality(ToSet(order[d]))
             /\ Len(order[d]) <= MaxKeys
  <2>1. order[d] \in Seq(Keys) /\ Len(order[d]) <= MaxKeys
    BY DEF LimiterInv, LimiterTypes, TracksFew
  <2>2. \A i, j \in 1 .. Len(order[d]) : order[d][i] = order[d][j] => i = j
    BY DEF LimiterInv, TracksFew
  <2> QED BY <2>1, <2>2, TrackedCount
<1> QED BY <1>1 DEF LimiterTypeOK, LimiterInv, LimiterTypes

LEMMA DummiesStayTyped == DummiesTyped /\ [Next]_vars => DummiesTyped'
<1> SUFFICES ASSUME DummiesTyped, [Next]_vars PROVE DummiesTyped'
  OBVIOUS
<1>1. CASE UNCHANGED dummy
  BY <1>1 DEF DummiesTyped
<1>2. ASSUME NEW r \in Requests, GetDummy(r) \/ MakeDummy(r) \/ DummyMade(r)
      PROVE  DummiesTyped'
  <2>1. \/ UNCHANGED dummy
        \/ \E d : \E what \in {"making", "made", "failed"} : dummy' = [dummy EXCEPT ![d] = what]
    BY <1>2 DEF GetDummy, MakeDummy, DummyMade, DummyFails
  <2> QED BY <1>1, <2>1 DEF DummiesTyped
<1>3. CASE Restart
  BY <1>3 DEF Restart, DummiesTyped
<1>4. CASE Passes \/ UNCHANGED vars
  BY <1>1, <1>4 DEF Passes, vars
<1>5. ASSUME NEW r \in Requests,
             \/ ReadParent(r) \/ ReadChild(r) \/ Verify(r) \/ Verified(r) \/ OpenSession(r)
             \/ MakeHash(r) \/ HashMade(r) \/ CreateChild(r) \/ Fail(r) \/ Leave(r)
             \/ \E ask \in scenario : Arrive(r, ask) \/ AddChild(r, ask)
      PROVE  UNCHANGED dummy
  BY <1>5 DEF ReadParent, ReadChild, Verify, Verified, OpenSession, MakeHash, HashMade,
     CreateChild, Fail, Leave, Arrive, AddChild
<1> QED BY <1>1, <1>2, <1>3, <1>4, <1>5 DEF Next, Works

(* The rows, the requests, the limiters' tables, the semaphore and the      *)
(* dummies are well typed in every reachable state: above all, a table      *)
(* never tracks a key twice nor more keys than it may (Limiter.Allow).      *)
THEOREM LoginTypeCorrect ==
  ASSUME LimiterAssumption, LoginAssumption
  PROVE  Spec => []TypeOK
<1>1. Init => DummiesTyped
  BY DEF Init, DummiesTyped
<1>2. Spec => [](LoginInv /\ LimiterInv)
  BY LoginInvariance
<1>3. Spec => []SlotsInv
  BY SlotsInvariance
<1>4. ASSUME LoginInv, LimiterInv, SlotsInv, DummiesTyped
      PROVE  TypeOK
  <2>1. LoginTypes /\ RowsAreReadable
    BY <1>4 DEF LoginInv
  <2>2. key \in 1 .. MaxVersion /\ MaxVersion \in Nat \ {0}
    BY <2>1 DEF LoginTypes, LoginAssumption
  <2>3. \A f \in Families : parents[f].version \in 1 .. MaxVersion
    BY <2>1, <2>2 DEF LoginTypes
  <2>4. ASSUME NEW c \in Children, children[c] # NoChild
        PROVE  children[c].family \in Families /\ children[c].hash.version \in 1 .. MaxVersion
    BY <2>1, <2>2, <2>4 DEF RowsAreReadable
  <2>5. \A r \in Requests : req[r].pc \in Steps
    BY <2>1 DEF LoginTypes, ReqStates
  <2>6. slots \in 0 .. Slots
    <3>1. slots \in Nat /\ slots <= Slots
      BY <1>4, FS_CardinalityType DEF SlotsInv, SlotsAreHeld, Held
    <3>2. Slots \in Nat
      BY DEF LoginAssumption
    <3> QED BY <3>1, <3>2
  <2> QED BY <1>4, <2>2, <2>3, <2>4, <2>5, <2>6, LimitersTyped DEF TypeOK, DummiesTyped
<1> QED BY <1>1, <1>2, <1>3, <1>4, DummiesStayTyped, PTL DEF Spec
=============================================================================
