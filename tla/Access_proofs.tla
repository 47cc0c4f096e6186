--------------------------- MODULE Access_proofs ---------------------------
(* What holds of Access for every number of logins and enrolments.          *)
EXTENDS Access, TLAPS

LEMMA ConstantTypes ==
  /\ Skew \in Nat /\ ReplayWindow \in Nat /\ PendingTTL \in Nat /\ FreshFor \in Nat
  /\ SessionTTL \in Nat /\ HandlerTime \in Nat /\ MaxSecret \in Nat
  /\ MaxTime \in Nat /\ MaxFaults \in Nat
  /\ ReplayWindow > 2 * Skew + HandlerTime
BY AccessAssumption

(* A code is one that can be shown. *)
LEMMA CodesType ==
  ASSUME drawn \in Secrets, NEW at \in Nat, NEW code \in Codes(at)
  PROVE  code \in [secret: Secrets, step: Nat]
BY ConstantTypes DEF Codes, Secrets, NoSecret

(* A login that goes on keeps its time and its code, and no other moves.    *)
LEMMA LoginGoesOn ==
  ASSUME login \in [Logins -> LoginStates],
         NEW l \in Logins, NEW step \in LoginSteps, LoginGoesTo(l, step)
  PROVE  /\ login' \in [Logins -> LoginStates]
         /\ login'[l].pc = step
         /\ step # "refused" => login'[l].at = login[l].at /\ login'[l].code = login[l].code
         /\ \A k \in Logins : k # l => login'[k] = login[k]
<1>1. /\ login[l] \in LoginStates
      /\ login' = [login EXCEPT ![l] = IF step = "refused" THEN [NoLogin EXCEPT !.pc = step]
                                       ELSE [login[l] EXCEPT !.pc = step]]
  BY DEF LoginGoesTo
<1>2. NoLogin \in LoginStates /\ [NoLogin EXCEPT !.pc = step] \in LoginStates
  BY ConstantTypes DEF NoLogin, LoginStates, LoginSteps, InHandler, Secrets, NoSecret
<1>3. [login[l] EXCEPT !.pc = step] \in LoginStates
  BY <1>1 DEF LoginStates
<1>4. [NoLogin EXCEPT !.pc = step].pc = step
  BY DEF NoLogin
<1>5. /\ [login[l] EXCEPT !.pc = step].pc = step
      /\ [login[l] EXCEPT !.pc = step].at = login[l].at
      /\ [login[l] EXCEPT !.pc = step].code = login[l].code
  BY <1>1 DEF LoginStates
<1> QED BY <1>1, <1>2, <1>3, <1>4, <1>5

LEMMA EnrolGoesOn ==
  ASSUME enrol \in [Enrolments -> EnrolStates],
         NEW e \in Enrolments, NEW step \in EnrolSteps, EnrolGoesTo(e, step)
  PROVE  /\ enrol' \in [Enrolments -> EnrolStates]
         /\ enrol'[e].pc = step
         /\ \A f \in Enrolments : f # e => enrol'[f] = enrol[f]
BY DEF EnrolGoesTo, EnrolStates

LEMMA NoSessionType == NoSession \in SessionRows
BY ConstantTypes DEF NoSession, SessionRows

LEMMA NoRowType == NoRow \in [secret: Secrets, expires: Nat]
BY ConstantTypes DEF NoRow, Secrets, NoSecret

----------------------------------------------------------------------------
LEMMA InitTyped == Init => TypeOK
<1> SUFFICES ASSUME Init PROVE TypeOK
  OBVIOUS
<1>1. drawn \in Secrets /\ MaxSecret \in Nat /\ MaxFaults \in Nat /\ MaxTime \in Nat
  BY ConstantTypes DEF Init
<1>2. parent \in [open: BOOLEAN, secret: Secrets]
  BY <1>1 DEF Init
<1>3. pending \in [secret: Secrets, expires: Nat]
  BY NoRowType DEF Init
<1>4. sessions \in [Logins -> SessionRows]
  BY NoSessionType DEF Init
<1>5. NoLogin \in LoginStates
  BY <1>1 DEF NoLogin, LoginStates, LoginSteps, InHandler, Secrets, NoSecret
<1>6. login \in [Logins -> LoginStates]
  BY <1>5 DEF Init
<1>7. [pc |-> "idle", secret |-> NoSecret] \in EnrolStates
  BY <1>1 DEF EnrolStates, EnrolSteps, Secrets, NoSecret
<1>8. enrol \in [Enrolments -> EnrolStates]
  BY <1>7 DEF Init
<1> QED BY <1>1, <1>2, <1>3, <1>4, <1>6, <1>8 DEF Init, TypeOK

(* What TypeOK says, for the steps that leave most of it alone.             *)
LEMMA LoginTyped ==
  ASSUME TypeOK, NEW l \in Logins, Login(l)
  PROVE  TypeOK'
<1> USE ConstantTypes DEF TypeOK, rows
<1>1. CASE LoginParent(l)
  <2>1. PICK code \in Codes(now) :
          login' = [login EXCEPT ![l] = [pc |-> "create", at |-> now, code |-> code]]
    BY <1>1 DEF LoginParent
  <2>2. code \in [secret: Secrets, step: Nat]
    BY CodesType
  <2>3. [pc |-> "create", at |-> now, code |-> code] \in LoginStates
    BY <2>2 DEF LoginStates, LoginSteps, InHandler
  <2>4. login' \in [Logins -> LoginStates]
    BY <2>1, <2>3
  <2> QED BY <1>1, <2>4 DEF LoginParent
<1>2. CASE RejectPassword(l)
  <2>1. login' \in [Logins -> LoginStates]
    BY <1>2, LoginGoesOn DEF RejectPassword, LoginSteps
  <2> QED BY <1>2, <2>1 DEF RejectPassword
<1>3. CASE CreateSession(l)
  <2>1. login' \in [Logins -> LoginStates]
    BY <1>3, LoginGoesOn DEF CreateSession, LoginSteps, InHandler
  <2>2. login[l].at \in 0 .. MaxTime
    BY DEF LoginStates
  <2>3. [live |-> TRUE, expires |-> login[l].at + SessionTTL, freshUntil |-> 0] \in SessionRows
    BY <2>2 DEF SessionRows
  <2>4. sessions' \in [Logins -> SessionRows]
    BY <1>3, <2>3 DEF CreateSession
  <2> QED BY <1>3, <2>1, <2>4 DEF CreateSession
<1>4. CASE LookupSession(l)
  <2>1. login' \in [Logins -> LoginStates]
    BY <1>4, LoginGoesOn DEF LookupSession, LoginSteps, InHandler
  <2> QED BY <1>4, <2>1 DEF LookupSession
<1>5. CASE VerifyCode(l)
  <2>1. login' \in [Logins -> LoginStates]
    BY <1>5, LoginGoesOn DEF VerifyCode, LoginSteps, InHandler
  <2> QED BY <1>5, <2>1 DEF VerifyCode
<1>6. CASE MarkStepUsed(l)
  <2>1. login' \in [Logins -> LoginStates]
    BY <1>6, LoginGoesOn DEF MarkStepUsed, LoginSteps, InHandler
  <2>2. [step |-> login[l].code.step, seen |-> login[l].at] \in [step: Nat, seen: 0 .. MaxTime]
    BY DEF LoginStates
  <2>3. used' \subseteq [step: Nat, seen: 0 .. MaxTime]
    BY <1>6, <2>2 DEF MarkStepUsed
  <2> QED BY <1>6, <2>1, <2>3 DEF MarkStepUsed
<1>7. CASE StampFresh(l)
  <2>1. login' \in [Logins -> LoginStates]
    BY <1>7, LoginGoesOn DEF StampFresh, LoginSteps
  <2>2. login[l].at \in 0 .. MaxTime
    BY DEF LoginStates
  <2>3. FreshUntil(l) \in 0 .. MaxTime + FreshFor
    BY <2>2 DEF FreshUntil
  <2>4. sessions' \in [Logins -> SessionRows]
    BY <1>7, <2>3 DEF StampFresh, SessionRows
  <2> QED BY <1>7, <2>1, <2>4 DEF StampFresh
<1>8. CASE DeleteSession(l)
  <2>1. login' \in [Logins -> LoginStates]
    BY <1>8, LoginGoesOn DEF DeleteSession, LoginSteps
  <2>2. sessions' \in [Logins -> SessionRows]
    BY <1>8, NoSessionType DEF DeleteSession
  <2> QED BY <1>8, <2>1, <2>2 DEF DeleteSession
<1>9. CASE LoginFails(l)
  <2>1. login' \in [Logins -> LoginStates]
    BY <1>9, LoginGoesOn DEF LoginFails, LoginSteps, InHandler
  <2> QED BY <1>9, <2>1 DEF LoginFails
<1>10. CASE Logout(l)
  <2>1. sessions' \in [Logins -> SessionRows]
    BY <1>10, NoSessionType DEF Logout
  <2> QED BY <1>10, <2>1 DEF Logout
<1> QED BY <1>1, <1>2, <1>3, <1>4, <1>5, <1>6, <1>7, <1>8, <1>9, <1>10 DEF Login

LEMMA EnrolTyped ==
  ASSUME TypeOK, NEW e \in Enrolments, Enrol(e)
  PROVE  TypeOK'
<1> USE ConstantTypes DEF TypeOK, rows
<1>1. CASE ReadPending(e)
  <2>1. [pc |-> "promote", secret |-> pending.secret] \in EnrolStates
    BY DEF EnrolStates, EnrolSteps
  <2>2. enrol' \in [Enrolments -> EnrolStates]
    BY <1>1, <2>1 DEF ReadPending
  <2> QED BY <1>1, <2>2 DEF ReadPending
<1>2. CASE PromoteSecret(e)
  <2>1. enrol' \in [Enrolments -> EnrolStates]
    BY <1>2, EnrolGoesOn DEF PromoteSecret, EnrolSteps
  <2>2. enrol[e].secret \in Secrets
    BY DEF EnrolStates
  <2>3. parent' \in [open: BOOLEAN, secret: Secrets]
    BY <1>2, <2>2 DEF PromoteSecret
  <2> QED BY <1>2, <2>1, <2>3 DEF PromoteSecret
<1>3. CASE ClearPending(e)
  <2>1. enrol' \in [Enrolments -> EnrolStates]
    BY <1>3, EnrolGoesOn DEF ClearPending, EnrolSteps
  <2> QED BY <1>3, <2>1, NoRowType DEF ClearPending
<1>4. CASE RevokeSessions(e)
  <2>1. enrol' \in [Enrolments -> EnrolStates]
    BY <1>4, EnrolGoesOn DEF RevokeSessions, EnrolSteps
  <2> QED BY <1>4, <2>1, NoSessionType DEF RevokeSessions
<1>5. CASE EnrolFails(e)
  <2>1. enrol' \in [Enrolments -> EnrolStates]
    BY <1>5, EnrolGoesOn DEF EnrolFails, EnrolSteps
  <2> QED BY <1>5, <2>1 DEF EnrolFails
<1> QED BY <1>1, <1>2, <1>3, <1>4, <1>5 DEF Enrol

LEMMA RestTyped ==
  ASSUME TypeOK, BeginTOTPEnrollment \/ Close \/ Purge \/ Restart \/ Tick
  PROVE  TypeOK'
<1> USE ConstantTypes DEF TypeOK, rows
<1>1. CASE BeginTOTPEnrollment
  <2>1. drawn' \in Secrets
    BY <1>1 DEF BeginTOTPEnrollment, Secrets
  <2>2. pending' \in [secret: Secrets, expires: Nat]
    BY <1>1, <2>1 DEF BeginTOTPEnrollment
  <2> QED BY <1>1, <2>1, <2>2 DEF BeginTOTPEnrollment
<1>2. CASE Close
  <2>1. CASE RevokeOnClose
    BY <2>1, NoSessionType DEF RevokeOnClose
  <2>2. CASE DeleteParent
    BY <2>2, NoRowType DEF DeleteParent
  <2>3. CASE CloseAccount
    BY <2>3 DEF CloseAccount
  <2>4. CASE CloseFails
    BY <2>4 DEF CloseFails
  <2> QED BY <1>2, <2>1, <2>2, <2>3, <2>4 DEF Close
<1>3. CASE Purge
  <2>1. CASE PurgeExpiredTOTPUses
    BY <2>1 DEF PurgeExpiredTOTPUses
  <2>2. CASE PurgeExpiredSessions
    BY <2>2, NoSessionType DEF PurgeExpiredSessions
  <2>3. CASE PurgeExpiredTOTPPending
    BY <2>3, NoRowType DEF PurgeExpiredTOTPPending
  <2> QED BY <1>3, <2>1, <2>2, <2>3 DEF Purge
<1>4. CASE Restart
  <2>1. [NoLogin EXCEPT !.pc = "refused"] \in LoginStates
    BY DEF NoLogin, LoginStates, LoginSteps, InHandler, Secrets, NoSecret
  <2>2. login' \in [Logins -> LoginStates]
    BY <1>4, <2>1 DEF Restart
  <2>3. \A e \in Enrolments : /\ [enrol[e] EXCEPT !.pc = "failed"] \in EnrolStates
                              /\ [enrol[e] EXCEPT !.pc = "half"] \in EnrolStates
    BY DEF EnrolStates, EnrolSteps
  <2>4. enrol' \in [Enrolments -> EnrolStates]
    BY <1>4, <2>3 DEF Restart
  <2> QED BY <1>4, <2>2, <2>4, SMTT(20) DEF Restart
<1>5. CASE Tick
  BY <1>5 DEF Tick
<1> QED BY <1>1, <1>2, <1>3, <1>4, <1>5

LEMMA NextTyped == TypeOK /\ [Next]_vars => TypeOK'
<1>1. ASSUME TypeOK, UNCHANGED vars PROVE TypeOK'
  BY <1>1 DEF TypeOK, vars, rows
<1> QED BY <1>1, LoginTyped, EnrolTyped, RestTyped DEF Next

(* TypeOK: every row and every request is well formed; no session is ever   *)
(* fresh beyond TOTPFreshDuration after a clock reading of the server's.    *)
THEOREM TypeCorrect == Spec => []TypeOK
BY InitTyped, NextTyped, PTL DEF Spec

----------------------------------------------------------------------------
(* Why a code is used once.  A login reads the clock before it marks its    *)
(* step, and is never further behind it than HandlerTime; the mark lasts    *)
(* longer than that and the skew on both sides together.                    *)
CodeInv ==
  /\ \A l \in Logins :
       login[l].pc \in InHandler => login[l].at <= now /\ now - login[l].at <= HandlerTime
  /\ \A l \in Logins :
       login[l].pc \in {"mark", "stamp", "in"} =>
         login[l].code.step \in (login[l].at - Skew) .. (login[l].at + Skew)
  /\ \A l \in Logins :
       Passed(l) /\ parent.open =>
         \/ \E u \in used : u.step = login[l].code.step /\ u.seen = login[l].at
         \/ now - login[l].at >= ReplayWindow
  /\ CodeUsedOnce

LEMMA InitCodeInv == Init => CodeInv
BY DEF Init, CodeInv, NoLogin, InHandler, Passed, CodeUsedOnce

(* A step that moves no login, brings no row back and leaves the marks that *)
(* are still needed.                                                        *)
LEMMA CodeInvKept ==
  ASSUME TypeOK, CodeInv, login' = login, now' = now,
         parent'.open => parent.open, parent'.open => used' = used
  PROVE  CodeInv'
<1>1. \A l \in Logins : Passed(l)' <=> Passed(l)
  BY DEF Passed
<1>2. CodeUsedOnce'
  BY <1>1 DEF CodeInv, CodeUsedOnce
<1>3. \A l \in Logins :
        Passed(l)' /\ parent'.open =>
          \/ \E u \in used' : u.step = login'[l].code.step /\ u.seen = login'[l].at
          \/ now' - login'[l].at >= ReplayWindow
  BY <1>1 DEF CodeInv
<1> QED BY <1>2, <1>3 DEF CodeInv

(* A login that steps without passing leaves every other one alone.         *)
LEMMA CodeInvLogin ==
  ASSUME TypeOK, CodeInv, NEW l \in Logins, NEW step \in LoginSteps, LoginGoesTo(l, step),
         now' = now, parent' = parent, used' = used,
         step \in {"lookup", "verify", "delete"} => login[l].pc \in InHandler,
         step \notin {"create", "idle", "stamp"},
         step = "in" => login[l].pc = "stamp",
         step = "mark" => /\ login[l].pc \in InHandler
                          /\ login[l].code.step \in (login[l].at - Skew) .. (login[l].at + Skew)
  PROVE  CodeInv'
<1> DEFINE Goes(k) == login'[k].at = login[k].at /\ login'[k].code = login[k].code
<1>1. /\ login'[l].pc = step
      /\ step # "refused" => Goes(l)
      /\ \A k \in Logins : k # l => login'[k] = login[k]
  BY LoginGoesOn DEF TypeOK
<1>2. \A k \in Logins : Passed(k)' => Passed(k) /\ Goes(k)
  BY <1>1 DEF Passed, LoginSteps, InHandler
<1>3. CodeUsedOnce'
  BY <1>2 DEF CodeInv, CodeUsedOnce
<1>4. ASSUME NEW k \in Logins, login'[k].pc \in InHandler
      PROVE  login[k].pc \in InHandler /\ Goes(k)
  <2>1. CASE k = l
    BY <1>1, <1>4, <2>1 DEF InHandler
  <2> QED BY <1>1, <1>4, <2>1
<1>5. ASSUME NEW k \in Logins, login'[k].pc \in {"mark", "stamp", "in"}
      PROVE  /\ Goes(k)
             /\ login[k].code.step \in (login[k].at - Skew) .. (login[k].at + Skew)
  <2>1. CASE k = l
    BY <1>1, <1>5, <2>1 DEF CodeInv
  <2> QED BY <1>1, <1>5, <2>1 DEF CodeInv
<1>6. \A k \in Logins : login'[k].pc \in InHandler =>
                          login'[k].at <= now' /\ now' - login'[k].at <= HandlerTime
  BY <1>4 DEF CodeInv
<1>7. \A k \in Logins : login'[k].pc \in {"mark", "stamp", "in"} =>
        login'[k].code.step \in (login'[k].at - Skew) .. (login'[k].at + Skew)
  BY <1>5
<1>8. \A k \in Logins :
        Passed(k)' /\ parent'.open =>
          \/ \E u \in used' : u.step = login'[k].code.step /\ u.seen = login'[k].at
          \/ now' - login'[k].at >= ReplayWindow
  BY <1>2 DEF CodeInv
<1> QED BY <1>3, <1>6, <1>7, <1>8 DEF CodeInv

(* The step that matters: whoever marks a step finds no earlier use of it,  *)
(* marked or forgotten.                                                     *)
LEMMA MarkedAlone ==
  ASSUME TypeOK, CodeInv, NEW k \in Logins, NEW l \in Logins, k # l, Passed(k),
         login[l].pc = "mark", parent.open,
         \A u \in used : u.step # login[l].code.step
  PROVE  login[k].code.step # login[l].code.step
<1> DEFINE s == login[l].code.step
           a == login[k].at
           b == login[l].at
<1> SUFFICES ASSUME login[k].code.step = s PROVE FALSE
  OBVIOUS
<1>1. now \in Nat /\ a \in Nat /\ b \in Nat /\ s \in Nat
  BY ConstantTypes DEF TypeOK, LoginStates
<1>2. now - a >= ReplayWindow
  BY DEF CodeInv
<1>3. now - b <= HandlerTime
  BY DEF CodeInv, InHandler
<1>4. s \in (b - Skew) .. (b + Skew)
  BY DEF CodeInv
<1>5. s \in (a - Skew) .. (a + Skew)
  BY DEF CodeInv, Passed
<1> HIDE DEF s, a, b
<1> QED BY <1>1, <1>2, <1>3, <1>4, <1>5, ConstantTypes

LEMMA MarkKeepsCodeInv ==
  ASSUME TypeOK, CodeInv, NEW l \in Logins, MarkStepUsed(l)
  PROVE  CodeInv'
<1>1. CASE parent.open /\ \A u \in used : u.step # login[l].code.step
  <2>1. /\ used' = used \cup {[step |-> login[l].code.step, seen |-> login[l].at]}
        /\ LoginGoesTo(l, "stamp") /\ now' = now /\ parent' = parent /\ login[l].pc = "mark"
    BY <1>1 DEF MarkStepUsed
  <2>2. /\ login'[l].pc = "stamp"
        /\ login'[l].at = login[l].at /\ login'[l].code = login[l].code
        /\ \A k \in Logins : k # l => login'[k] = login[k]
    BY <2>1, LoginGoesOn DEF TypeOK, LoginSteps, InHandler
  <2>3. \A k \in Logins : login'[k].at = login[k].at /\ login'[k].code = login[k].code
    BY <2>2
  <2>4. \A k \in Logins : k # l => (Passed(k)' <=> Passed(k))
    BY <2>2 DEF Passed
  <2>5. ASSUME NEW j \in Logins, NEW k \in Logins, j # k, Passed(j)', Passed(k)'
        PROVE  login'[j].code.step # login'[k].code.step
    <3>1. CASE j = l
      BY <1>1, <2>1, <2>3, <2>4, <2>5, <3>1, MarkedAlone
    <3>2. CASE k = l
      BY <1>1, <2>1, <2>3, <2>4, <2>5, <3>2, MarkedAlone
    <3>3. CASE j # l /\ k # l
      BY <2>3, <2>4, <2>5, <3>3 DEF CodeInv, CodeUsedOnce
    <3> QED BY <3>1, <3>2, <3>3
  <2>6. CodeUsedOnce'
    BY <2>5 DEF CodeUsedOnce
  <2>7. \A k \in Logins : login'[k].pc \in InHandler =>
          login'[k].at <= now' /\ now' - login'[k].at <= HandlerTime
    BY <2>1, <2>2 DEF CodeInv, InHandler
  <2>8. \A k \in Logins : login'[k].pc \in {"mark", "stamp", "in"} =>
          login'[k].code.step \in (login'[k].at - Skew) .. (login'[k].at + Skew)
    BY <2>1, <2>2 DEF CodeInv
  <2>9. ASSUME NEW k \in Logins, Passed(k)', parent'.open
        PROVE  \/ \E u \in used' : u.step = login'[k].code.step /\ u.seen = login'[k].at
               \/ now' - login'[k].at >= ReplayWindow
    <3>1. CASE k = l
      <4> DEFINE u == [step |-> login[l].code.step, seen |-> login[l].at]
      <4>1. u \in used'
        BY <2>1
      <4>2. u.step = login[l].code.step /\ u.seen = login[l].at
        OBVIOUS
      <4>3. u.step = login'[k].code.step /\ u.seen = login'[k].at
        BY <2>3, <3>1, <4>2
      <4> HIDE DEF u
      <4> QED BY <4>1, <4>3
    <3>2. CASE k # l
      BY <2>1, <2>3, <2>4, <2>9, <3>2 DEF CodeInv
    <3> QED BY <3>1, <3>2
  <2> QED BY <2>6, <2>7, <2>8, <2>9 DEF CodeInv
<1>2. CASE ~(parent.open /\ \A u \in used : u.step # login[l].code.step)
  <2>1. /\ LoginGoesTo(l, "delete") /\ now' = now /\ parent' = parent /\ used' = used
        /\ login[l].pc = "mark"
    BY <1>2 DEF MarkStepUsed
  <2> QED BY <2>1, CodeInvLogin DEF LoginSteps, InHandler
<1> QED BY <1>1, <1>2

LEMMA LoginParentKeepsCodeInv ==
  ASSUME TypeOK, CodeInv, NEW l \in Logins, LoginParent(l)
  PROVE  CodeInv'
<1>1. PICK code \in Codes(now) :
        login' = [login EXCEPT ![l] = [pc |-> "create", at |-> now, code |-> code]]
  BY DEF LoginParent
<1>2. login'[l] = [pc |-> "create", at |-> now, code |-> code]
  BY <1>1 DEF TypeOK
<1>3. \A k \in Logins : k # l => login'[k] = login[k]
  BY <1>1 DEF TypeOK
<1>4. now' = now /\ parent' = parent /\ used' = used /\ now \in Nat
  BY ConstantTypes DEF LoginParent, rows, TypeOK
<1>5. \A k \in Logins : Passed(k)' => k # l /\ Passed(k)
  BY <1>2, <1>3 DEF Passed
<1>6. CodeUsedOnce'
  BY <1>3, <1>5 DEF CodeInv, CodeUsedOnce
<1>7. \A k \in Logins : login'[k].pc \in InHandler =>
        login'[k].at <= now' /\ now' - login'[k].at <= HandlerTime
  BY <1>2, <1>3, <1>4, ConstantTypes DEF CodeInv
<1>8. \A k \in Logins : login'[k].pc \in {"mark", "stamp", "in"} =>
        login'[k].code.step \in (login'[k].at - Skew) .. (login'[k].at + Skew)
  BY <1>2, <1>3 DEF CodeInv
<1>9. \A k \in Logins :
        Passed(k)' /\ parent'.open =>
          \/ \E u \in used' : u.step = login'[k].code.step /\ u.seen = login'[k].at
          \/ now' - login'[k].at >= ReplayWindow
  BY <1>3, <1>4, <1>5 DEF CodeInv
<1> QED BY <1>6, <1>7, <1>8, <1>9 DEF CodeInv

LEMMA LoginKeepsCodeInv ==
  ASSUME TypeOK, CodeInv, NEW l \in Logins, Login(l)
  PROVE  CodeInv'
<1> USE DEF LoginSteps, InHandler, rows
<1>1. CASE LoginParent(l)
  BY <1>1, LoginParentKeepsCodeInv
<1>2. CASE RejectPassword(l)
  BY <1>2, CodeInvLogin DEF RejectPassword
<1>3. CASE CreateSession(l)
  BY <1>3, CodeInvLogin DEF CreateSession
<1>4. CASE LookupSession(l)
  BY <1>4, CodeInvLogin DEF LookupSession
<1>5. CASE VerifyCode(l)
  <2>1. /\ login[l].pc = "verify" /\ now' = now /\ parent' = parent /\ used' = used
        /\ \/ /\ LoginGoesTo(l, "mark")
              /\ login[l].code.step \in (login[l].at - Skew) .. (login[l].at + Skew)
           \/ LoginGoesTo(l, "delete")
    BY <1>5 DEF VerifyCode, Valid
  <2> QED BY <2>1, CodeInvLogin
<1>6. CASE MarkStepUsed(l)
  BY <1>6, MarkKeepsCodeInv
<1>7. CASE StampFresh(l)
  BY <1>7, CodeInvLogin DEF StampFresh
<1>8. CASE DeleteSession(l)
  BY <1>8, CodeInvLogin DEF DeleteSession
<1>9. CASE LoginFails(l)
  BY <1>9, CodeInvLogin DEF LoginFails
<1>10. CASE Logout(l)
  BY <1>10, CodeInvKept DEF Logout
<1> QED BY <1>1, <1>2, <1>3, <1>4, <1>5, <1>6, <1>7, <1>8, <1>9, <1>10 DEF Login

LEMMA RestKeepsCodeInv ==
  ASSUME TypeOK, CodeInv,
         BeginTOTPEnrollment \/ (\E e \in Enrolments : Enrol(e)) \/ Close \/ Purge \/ Restart \/ Tick
  PROVE  CodeInv'
<1> USE DEF rows
<1>1. CASE BeginTOTPEnrollment
  BY <1>1, CodeInvKept DEF BeginTOTPEnrollment
<1>2. ASSUME NEW e \in Enrolments, Enrol(e) PROVE CodeInv'
  <2>1. login' = login /\ now' = now /\ used' = used
    BY <1>2 DEF Enrol, ReadPending, PromoteSecret, ClearPending, RevokeSessions, EnrolFails
  <2>2. parent'.open = parent.open
    BY <1>2 DEF Enrol, ReadPending, PromoteSecret, ClearPending, RevokeSessions, EnrolFails, TypeOK
  <2> QED BY <2>1, <2>2, CodeInvKept
<1>3. CASE Close
  <2>1. CASE DeleteParent
    <3>1. ~parent'.open /\ login' = login /\ now' = now
      BY <2>1 DEF DeleteParent, TypeOK
    <3> QED BY <3>1, CodeInvKept
  <2>2. CASE CloseAccount \/ RevokeOnClose \/ CloseFails
    BY <2>2, CodeInvKept DEF CloseAccount, RevokeOnClose, CloseFails
  <2> QED BY <1>3, <2>1, <2>2 DEF Close
<1>4. CASE PurgeExpiredTOTPUses
  <2>1. /\ used' = {u \in used : Kept(u)}
        /\ login' = login /\ now' = now /\ parent' = parent
    BY <1>4 DEF PurgeExpiredTOTPUses
  <2>2. now \in Nat /\ \A l \in Logins : login[l].at \in Nat
    BY ConstantTypes DEF TypeOK, LoginStates
  <2>3. ASSUME NEW l \in Logins, Passed(l), parent.open
        PROVE  \/ \E u \in used' : u.step = login[l].code.step /\ u.seen = login[l].at
               \/ now - login[l].at >= ReplayWindow
    <3>1. CASE now - login[l].at >= ReplayWindow
      BY <3>1
    <3>2. CASE ~(now - login[l].at >= ReplayWindow)
      <4>1. PICK u \in used : u.step = login[l].code.step /\ u.seen = login[l].at
        BY <2>3, <3>2 DEF CodeInv
      <4>2. now - u.seen < ReplayWindow
        BY <2>2, <3>2, <4>1, ConstantTypes
      <4>3. u \in used'
        BY <2>1, <4>2 DEF Kept
      <4> QED BY <4>1, <4>3
    <3> QED BY <3>1, <3>2
  <2>4. \A l \in Logins : Passed(l)' <=> Passed(l)
    BY <2>1 DEF Passed
  <2>5. CodeUsedOnce'
    BY <2>1, <2>4 DEF CodeInv, CodeUsedOnce
  <2> QED BY <2>1, <2>3, <2>4, <2>5 DEF CodeInv
<1>5. CASE PurgeExpiredSessions \/ PurgeExpiredTOTPPending
  BY <1>5, CodeInvKept DEF PurgeExpiredSessions, PurgeExpiredTOTPPending
<1>6. CASE Restart
  <2>1. \A l \in Logins :
          login'[l] = IF login[l].pc \in InHandler THEN [NoLogin EXCEPT !.pc = "refused"]
                      ELSE login[l]
    BY <1>6 DEF Restart
  <2>2. now' = now /\ parent' = parent /\ used' = used
    BY <1>6 DEF Restart
  <2>3. [NoLogin EXCEPT !.pc = "refused"].pc = "refused"
    BY DEF NoLogin
  <2>4. \A l \in Logins : login'[l].pc = "refused" \/ (login'[l] = login[l] /\ login[l].pc \notin InHandler)
    BY <2>1, <2>3
  <2>5. \A l \in Logins : Passed(l)' => Passed(l) /\ login'[l] = login[l]
    BY <2>4 DEF Passed
  <2>6. CodeUsedOnce'
    BY <2>5 DEF CodeInv, CodeUsedOnce
  <2>7. \A l \in Logins : login'[l].pc \notin InHandler
    BY <2>4 DEF InHandler
  <2>8. \A l \in Logins : login'[l].pc \in {"mark", "stamp", "in"} => login'[l] = login[l]
    BY <2>4
  <2> QED BY <2>2, <2>5, <2>6, <2>7, <2>8 DEF CodeInv
<1>7. CASE Tick
  <2>1. /\ now' = now + 1 /\ login' = login /\ parent' = parent /\ used' = used
        /\ \A l \in Logins : login[l].pc \in InHandler => now - login[l].at < HandlerTime
    BY <1>7 DEF Tick
  <2>2. now \in Nat /\ \A l \in Logins : login[l].at \in Nat
    BY ConstantTypes DEF TypeOK, LoginStates
  <2>3. \A l \in Logins : Passed(l)' <=> Passed(l)
    BY <2>1 DEF Passed
  <2>4. CodeUsedOnce'
    BY <2>1, <2>3 DEF CodeInv, CodeUsedOnce
  <2>5. \A l \in Logins : login'[l].pc \in InHandler =>
          login'[l].at <= now' /\ now' - login'[l].at <= HandlerTime
    BY <2>1, <2>2, ConstantTypes DEF CodeInv
  <2>6. \A l \in Logins :
          now - login[l].at >= ReplayWindow => now' - login'[l].at >= ReplayWindow
    BY <2>1, <2>2, ConstantTypes
  <2>7. \A l \in Logins :
          Passed(l)' /\ parent'.open =>
            \/ \E u \in used' : u.step = login'[l].code.step /\ u.seen = login'[l].at
            \/ now' - login'[l].at >= ReplayWindow
    BY <2>1, <2>3, <2>6 DEF CodeInv
  <2>8. \A l \in Logins : login'[l].pc \in {"mark", "stamp", "in"} =>
          login'[l].code.step \in (login'[l].at - Skew) .. (login'[l].at + Skew)
    BY <2>1 DEF CodeInv
  <2> QED BY <2>4, <2>5, <2>7, <2>8 DEF CodeInv
<1> QED BY <1>1, <1>2, <1>3, <1>4, <1>5, <1>6, <1>7 DEF Purge

(* CodeUsedOnce: no code of a parent's authenticator lets two logins in,    *)
(* whatever the number of logins and however the purge falls, as long as a  *)
(* login is over within what totpReplayWindow leaves beyond the skew.       *)
THEOREM CodeAlwaysUsedOnce == Spec => []CodeUsedOnce
<1>1. TypeOK /\ CodeInv /\ [Next]_vars => CodeInv'
  <2>1. ASSUME TypeOK, CodeInv, UNCHANGED vars PROVE CodeInv'
    BY <2>1, CodeInvKept DEF vars, rows
  <2> QED BY <2>1, LoginKeepsCodeInv, RestKeepsCodeInv DEF Next
<1>2. CodeInv => CodeUsedOnce
  BY DEF CodeInv
<1> QED BY InitCodeInv, TypeCorrect, <1>1, <1>2, PTL DEF Spec

----------------------------------------------------------------------------
(* Why a session follows the secret: it is stamped fresh only by a login    *)
(* that saw its code match, and whoever changes the secret since then has   *)
(* not yet revoked, or has taken the session away.                          *)
FollowInv ==
  /\ \A l \in Logins : sessions[l].live /\ sessions[l].freshUntil # 0 => login[l].pc = "in"
  /\ (\A e \in Enrolments : ~Unrevoked(e)) =>
       \A l \in Logins :
         sessions[l].live /\ login[l].pc \in {"mark", "stamp", "in"} =>
           login[l].code.secret = parent.secret

LEMMA LoginKeepsFollowInv ==
  ASSUME TypeOK, FollowInv, NEW l \in Logins, Login(l)
  PROVE  FollowInv'
<1> DEFINE Matches(k) == login[k].code.secret = parent.secret
           Sees(k) == login[k].pc \in {"mark", "stamp", "in"}
<1>1. enrol' = enrol /\ parent' = parent
  BY DEF Login, LoginParent, RejectPassword, CreateSession, LookupSession, VerifyCode,
         MarkStepUsed, StampFresh, DeleteSession, LoginFails, Logout, rows
<1>2. ASSUME NEW k \in Logins, k # l PROVE login'[k] = login[k] /\ sessions'[k] = sessions[k]
  BY <1>2 DEF Login, LoginParent, RejectPassword, CreateSession, LookupSession, VerifyCode,
     MarkStepUsed, StampFresh, DeleteSession, LoginFails, Logout, rows, LoginGoesTo, TypeOK
<1>3. ASSUME sessions'[l].live, sessions'[l].freshUntil # 0 PROVE login'[l].pc = "in"
  <2> USE <1>3, LoginGoesOn DEF FollowInv, TypeOK, LoginSteps, InHandler, rows
  <2>1. CASE LoginParent(l)
    BY <2>1 DEF LoginParent
  <2>2. CASE RejectPassword(l)
    BY <2>2 DEF RejectPassword
  <2>3. CASE CreateSession(l)
    BY <2>3 DEF CreateSession
  <2>4. CASE LookupSession(l)
    BY <2>4 DEF LookupSession
  <2>5. CASE VerifyCode(l)
    BY <2>5 DEF VerifyCode
  <2>6. CASE MarkStepUsed(l)
    BY <2>6 DEF MarkStepUsed
  <2>7. CASE StampFresh(l)
    BY <2>7 DEF StampFresh
  <2>8. CASE DeleteSession(l)
    BY <2>8 DEF DeleteSession, NoSession
  <2>9. CASE LoginFails(l)
    BY <2>9 DEF LoginFails
  <2>10. CASE Logout(l)
    BY <2>10 DEF Logout, NoSession
  <2> QED BY <2>1, <2>2, <2>3, <2>4, <2>5, <2>6, <2>7, <2>8, <2>9, <2>10 DEF Login
<1>4. ASSUME \A e \in Enrolments : ~Unrevoked(e), sessions'[l].live, Sees(l)'
      PROVE  login'[l].code.secret = parent.secret
  <2>1. CASE VerifyCode(l)
    BY <1>4, <2>1, LoginGoesOn DEF VerifyCode, Valid, TypeOK, LoginSteps, InHandler
  <2>2. CASE MarkStepUsed(l)
    BY <1>4, <2>2, LoginGoesOn DEF MarkStepUsed, FollowInv, TypeOK, LoginSteps, InHandler
  <2>3. CASE StampFresh(l)
    <3>1. sessions[l].live
      BY <1>4, <2>3 DEF StampFresh, TypeOK, SessionRows
    <3> QED BY <1>4, <2>3, <3>1, LoginGoesOn DEF StampFresh, FollowInv, TypeOK, LoginSteps
  <2>4. CASE Logout(l)
    BY <1>4, <2>4 DEF Logout, NoSession, TypeOK
  <2>5. CASE LoginParent(l)
    BY <1>4, <2>5 DEF LoginParent, TypeOK
  <2>6. CASE RejectPassword(l)
    BY <1>4, <2>6, LoginGoesOn DEF RejectPassword, TypeOK, LoginSteps
  <2>7. CASE CreateSession(l) \/ LookupSession(l)
    BY <1>4, <2>7, LoginGoesOn DEF CreateSession, LookupSession, TypeOK, LoginSteps, InHandler
  <2>8. CASE DeleteSession(l) \/ LoginFails(l)
    BY <1>4, <2>8, LoginGoesOn DEF DeleteSession, LoginFails, TypeOK, LoginSteps, InHandler
  <2> QED BY <2>1, <2>2, <2>3, <2>4, <2>5, <2>6, <2>7, <2>8 DEF Login
<1>5. \A k \in Logins : sessions'[k].live /\ sessions'[k].freshUntil # 0 => login'[k].pc = "in"
  BY <1>2, <1>3 DEF FollowInv
<1>6. ASSUME \A e \in Enrolments : ~Unrevoked(e), NEW k \in Logins, sessions'[k].live, Sees(k)'
      PROVE  login'[k].code.secret = parent.secret
  BY <1>2, <1>4, <1>6 DEF FollowInv
<1>7. (\A e \in Enrolments : ~Unrevoked(e)') => \A e \in Enrolments : ~Unrevoked(e)
  BY <1>1 DEF Unrevoked
<1> QED BY <1>1, <1>5, <1>6, <1>7 DEF FollowInv

(* A step that moves no login, and either leaves the secret, the enrolments *)
(* and some sessions alone, or leaves no session at all.                    *)
LEMMA FollowInvKept ==
  ASSUME TypeOK, FollowInv, login' = login,
         \A l \in Logins : sessions'[l] = sessions[l] \/ ~sessions'[l].live,
         \/ /\ parent'.secret = parent.secret
            /\ \A e \in Enrolments : Unrevoked(e) => Unrevoked(e)'
         \/ \A l \in Logins : ~sessions'[l].live
         \/ \E e \in Enrolments : Unrevoked(e)'
  PROVE  FollowInv'
BY DEF FollowInv

LEMMA EnrolKeepsFollowInv ==
  ASSUME TypeOK, FollowInv, NEW e \in Enrolments, Enrol(e)
  PROVE  FollowInv'
<1> USE DEF rows
<1>1. CASE ReadPending(e)
  <2>1. \A f \in Enrolments : Unrevoked(f) => Unrevoked(f)'
    BY <1>1 DEF ReadPending, Unrevoked, TypeOK
  <2> QED BY <1>1, <2>1, FollowInvKept DEF ReadPending
<1>2. CASE PromoteSecret(e)
  <2>1. CASE parent.open
    <3>1. enrol'[e].pc = "clear"
      BY <1>2, <2>1, EnrolGoesOn DEF PromoteSecret, EnrolSteps, TypeOK
    <3> QED BY <1>2, <3>1, FollowInvKept DEF PromoteSecret, Unrevoked
  <2>2. CASE ~parent.open
    <3>1. enrol'[e].pc = "failed" /\ \A f \in Enrolments : f # e => enrol'[f] = enrol[f]
      BY <1>2, <2>2, EnrolGoesOn DEF PromoteSecret, EnrolSteps, TypeOK
    <3>2. \A f \in Enrolments : Unrevoked(f) => Unrevoked(f)'
      BY <1>2, <3>1 DEF PromoteSecret, Unrevoked
    <3> QED BY <1>2, <2>2, <3>2, FollowInvKept DEF PromoteSecret
  <2> QED BY <2>1, <2>2
<1>3. CASE ClearPending(e)
  <2>1. enrol'[e].pc = "revoke"
    BY <1>3, EnrolGoesOn DEF ClearPending, EnrolSteps, TypeOK
  <2> QED BY <1>3, <2>1, FollowInvKept DEF ClearPending, Unrevoked
<1>4. CASE RevokeSessions(e)
  <2>1. \A l \in Logins : ~sessions'[l].live
    BY <1>4 DEF RevokeSessions, NoSession
  <2> QED BY <1>4, <2>1, FollowInvKept DEF RevokeSessions
<1>5. CASE EnrolFails(e)
  <2>1. /\ enrol'[e].pc = IF enrol[e].pc = "promote" THEN "failed" ELSE "half"
        /\ \A f \in Enrolments : f # e => enrol'[f] = enrol[f]
    BY <1>5, EnrolGoesOn DEF EnrolFails, EnrolSteps, TypeOK
  <2>2. \A f \in Enrolments : Unrevoked(f) => Unrevoked(f)'
    BY <1>5, <2>1 DEF Unrevoked
  <2> QED BY <1>5, <2>2, FollowInvKept DEF EnrolFails
<1> QED BY <1>1, <1>2, <1>3, <1>4, <1>5 DEF Enrol

LEMMA RestKeepsFollowInv ==
  ASSUME TypeOK, FollowInv, BeginTOTPEnrollment \/ Close \/ Purge \/ Restart \/ Tick
  PROVE  FollowInv'
<1> USE DEF rows, Unrevoked
<1>1. CASE BeginTOTPEnrollment
  BY <1>1, FollowInvKept DEF BeginTOTPEnrollment
<1>2. CASE CloseAccount \/ CloseFails
  BY <1>2, FollowInvKept DEF CloseAccount, CloseFails
<1>3. CASE RevokeOnClose
  BY <1>3, FollowInvKept DEF RevokeOnClose, NoSession
<1>4. CASE DeleteParent
  <2>1. parent'.secret = parent.secret
    BY <1>4 DEF DeleteParent, TypeOK
  <2> QED BY <1>4, <2>1, FollowInvKept DEF DeleteParent
<1>5. CASE Purge
  BY <1>5, FollowInvKept DEF Purge, PurgeExpiredTOTPUses, PurgeExpiredSessions,
                             PurgeExpiredTOTPPending, NoSession
<1>6. CASE Restart
  <2>1. ASSUME NEW l \in Logins
        PROVE  login'[l] = login[l] \/ (login'[l].pc = "refused" /\ login[l].pc # "in")
    <3>1. login'[l] = IF login[l].pc \in InHandler THEN [NoLogin EXCEPT !.pc = "refused"]
                      ELSE login[l]
      BY <1>6 DEF Restart
    <3>2. [NoLogin EXCEPT !.pc = "refused"].pc = "refused"
      BY DEF NoLogin
    <3> QED BY <3>1, <3>2 DEF InHandler
  <2>2. sessions' = sessions /\ parent' = parent
    BY <1>6 DEF Restart
  <2>3. \A e \in Enrolments : Unrevoked(e) => Unrevoked(e)'
    BY <1>6 DEF Restart, TypeOK, EnrolStates
  <2>4. \A l \in Logins :
          sessions'[l].live /\ sessions'[l].freshUntil # 0 => login'[l].pc = "in"
    BY <2>1, <2>2 DEF FollowInv
  <2>5. ASSUME NEW l \in Logins, login'[l].pc \in {"mark", "stamp", "in"}
        PROVE  login'[l] = login[l]
    BY <2>1, <2>5
  <2>6. ASSUME \A e \in Enrolments : ~Unrevoked(e)', NEW l \in Logins, sessions'[l].live,
               login'[l].pc \in {"mark", "stamp", "in"}
        PROVE  login'[l].code.secret = parent'.secret
    <3>1. \A e \in Enrolments : ~Unrevoked(e)
      BY <2>3, <2>6
    <3> QED BY <2>2, <2>5, <2>6, <3>1 DEF FollowInv
  <2> HIDE DEF Unrevoked
  <2> QED BY <2>4, <2>6 DEF FollowInv
<1>7. CASE Tick
  BY <1>7, FollowInvKept DEF Tick
<1> QED BY <1>1, <1>2, <1>3, <1>4, <1>5, <1>6, <1>7 DEF Close

(* SessionsFollowSecret: once an enrolment is through, no session is fresh  *)
(* that an older secret opened, not even one whose login was in its handler *)
(* when the secret changed.                                                 *)
THEOREM SessionsAlwaysFollow == Spec => []SessionsFollowSecret
<1>1. Init => FollowInv
  BY DEF Init, FollowInv, NoSession
<1>2. TypeOK /\ FollowInv /\ [Next]_vars => FollowInv'
  <2>1. ASSUME TypeOK, FollowInv, UNCHANGED vars PROVE FollowInv'
    BY <2>1, FollowInvKept DEF vars, rows, Unrevoked
  <2> QED BY <2>1, LoginKeepsFollowInv, EnrolKeepsFollowInv, RestKeepsFollowInv DEF Next
<1>3. FollowInv => SessionsFollowSecret
  BY DEF FollowInv, SessionsFollowSecret
<1> QED BY TypeCorrect, <1>1, <1>2, <1>3, PTL DEF Spec
=============================================================================
