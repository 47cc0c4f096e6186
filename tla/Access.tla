------------------------------- MODULE Access -------------------------------
(***************************************************************************)
(* One parent's way into the panel: server/auth's sessions and TOTP codes, *)
(* handleLoginPost, handleLogout and handleAccountDeletePost of            *)
(* server/parent, over the rows of server/store.  Several logins and       *)
(* enrolments are in progress at once; each statement sent to the database *)
(* is a step.                                                              *)
(*                                                                         *)
(* Time counts TOTP periods (30 s).  A code is the secret and the step it  *)
(* was computed from; two secrets are never taken to show the same digits. *)
(* Nothing in src/ calls the enrolment functions or the purges yet: they   *)
(* are taken as the operations their comments offer to such callers.       *)
(***************************************************************************)
EXTENDS Integers

CONSTANTS
  Logins,       \* login requests; each names the session it creates
  Enrolments,   \* calls of CompleteTOTPEnrollment
  MaxSecret,    \* how many secrets BeginTOTPEnrollment may draw
  Skew,         \* periods a code may be early or late by: 1
  ReplayWindow, \* totpReplayWindow, 4 periods
  PendingTTL,   \* totpPendingTTL, 20 periods
  FreshFor,     \* TOTPFreshDuration, 120 periods
  SessionTTL,   \* ParentSessionTTL, 20 160 periods
  HandlerTime,  \* how long after reading the clock a login may still be at work
  \* Bounds of the state space.
  MaxTime, MaxFaults

(* HandlerTime is no constant of the code: a login that takes longer than   *)
(* what ReplayWindow leaves beyond the skew could outlive the mark of an    *)
(* earlier use of its code.                                                 *)
ASSUME AccessAssumption ==
  /\ {Skew, ReplayWindow, PendingTTL, FreshFor, SessionTTL, HandlerTime,
      MaxSecret, MaxTime, MaxFaults} \subseteq Nat
  /\ ReplayWindow > 2 * Skew + HandlerTime

VARIABLES
  now,       \* the server's clock
  parent,    \* the parents row: whether it is there, and its TOTP secret
  drawn,     \* the secrets drawn so far
  pending,   \* the totp_pending row
  used,      \* the totp_used rows
  sessions,  \* the sessions rows, by the login that created them
  login,     \* the login requests
  enrol,     \* the enrolments being completed
  closing,   \* where the account's deletion stands
  faults

rows     == <<parent, drawn, pending, used, sessions>>
vars     == <<now, rows, login, enrol, closing, faults>>

----------------------------------------------------------------------------
NoSecret == 0
Secrets  == 0 .. MaxSecret

NoRow     == [secret |-> NoSecret, expires |-> 0]
NoSession == [live |-> FALSE, expires |-> 0, freshUntil |-> 0]

(* The codes a parent may type.  A mistyped code and one beyond the skew    *)
(* are refused alike: they stand here as the code of no secret.             *)
Codes(at) ==
  {code \in [secret: 1 .. drawn, step: (at - Skew) .. (at + Skew)] :
     code.step >= 0} \cup {[secret |-> NoSecret, step |-> 0]}

InHandler  == {"create", "lookup", "verify", "mark", "stamp", "delete"}
LoginSteps == InHandler \cup {"idle", "in", "refused"}
EnrolSteps == {"idle", "promote", "clear", "revoke", "done", "failed", "half"}

(* ValidateTOTP. *)
Valid(code, secret, at) ==
  /\ secret # NoSecret
  /\ code.secret = secret
  /\ code.step \in (at - Skew) .. (at + Skew)

(* LookupSession and RequireParent, the gate of every page of the panel.    *)
Known(l)  == sessions[l].live /\ now <= sessions[l].expires
Admits(l) == Known(l) /\ sessions[l].freshUntil > now

NoLogin == [pc |-> "idle", at |-> 0, code |-> [secret |-> NoSecret, step |-> 0]]

(* A login that is refused leaves nothing behind in its handler. *)
LoginGoesTo(l, step) ==
  login' = [login EXCEPT ![l] = IF step = "refused" THEN [NoLogin EXCEPT !.pc = step]
                                ELSE [@ EXCEPT !.pc = step]]

(* The parent may have enrolled a secret in earlier days. *)
Init ==
  /\ now = 0
  /\ drawn \in {0, 1} \cap Secrets
  /\ parent = [open |-> TRUE, secret |-> drawn]
  /\ pending = NoRow
  /\ used = {}
  /\ sessions = [l \in Logins |-> NoSession]
  /\ login = [l \in Logins |-> NoLogin]
  /\ enrol = [e \in Enrolments |-> [pc |-> "idle", secret |-> NoSecret]]
  /\ closing = "idle"
  /\ faults = 0

----------------------------------------------------------------------------
(* handleLoginPost: the clock is read once, then LoginParent takes the      *)
(* password for right ...                                                   *)
LoginParent(l) ==
  /\ login[l].pc = "idle"
  /\ parent.open
  /\ \E code \in Codes(now) :
       login' = [login EXCEPT ![l] = [pc |-> "create", at |-> now, code |-> code]]
  /\ UNCHANGED <<now, rows, enrol, closing, faults>>

(* ... or for wrong, or does not know the parent.                           *)
RejectPassword(l) ==
  /\ login[l].pc = "idle"
  /\ LoginGoesTo(l, "refused")
  /\ UNCHANGED <<now, rows, enrol, closing, faults>>

CreateSession(l) ==
  /\ login[l].pc = "create"
  /\ sessions' = [sessions EXCEPT
                    ![l] = [live |-> TRUE, expires |-> login[l].at + SessionTTL,
                            freshUntil |-> 0]]
  /\ LoginGoesTo(l, "lookup")
  /\ UNCHANGED <<now, parent, drawn, pending, used, enrol, closing, faults>>

(* The session may be gone again, by an enrolment or the account's end.     *)
LookupSession(l) ==
  /\ login[l].pc = "lookup"
  /\ LoginGoesTo(l, IF sessions[l].live THEN "verify" ELSE "refused")
  /\ UNCHANGED <<now, rows, enrol, closing, faults>>

(* VerifyParentTOTP up to the mark: the secret is read and the code tried.  *)
VerifyCode(l) ==
  /\ login[l].pc = "verify"
  /\ LoginGoesTo(l, IF parent.open /\ Valid(login[l].code, parent.secret, login[l].at)
                    THEN "mark" ELSE "delete")
  /\ UNCHANGED <<now, rows, enrol, closing, faults>>

(* markTOTPStepUsed: the first to insert the step goes on.  The row needs   *)
(* its parent.                                                              *)
MarkStepUsed(l) ==
  /\ login[l].pc = "mark"
  /\ IF parent.open /\ \A u \in used : u.step # login[l].code.step
     THEN /\ used' = used \cup {[step |-> login[l].code.step, seen |-> login[l].at]}
          /\ LoginGoesTo(l, "stamp")
     ELSE /\ LoginGoesTo(l, "delete")
          /\ UNCHANGED used
  /\ UNCHANGED <<now, parent, drawn, pending, sessions, enrol, closing, faults>>

FreshUntil(l) == login[l].at + FreshFor

(* VerifyParentTOTPForSession's update: of no row, when the session is      *)
(* gone.                                                                    *)
StampReviving(l) ==
  /\ login[l].pc = "stamp"
  /\ sessions' = [sessions EXCEPT ![l].live = TRUE, ![l].freshUntil = FreshUntil(l)]
  /\ LoginGoesTo(l, "in")
  /\ UNCHANGED <<now, parent, drawn, pending, used, enrol, closing, faults>>

StampFresh(l) ==
  /\ login[l].pc = "stamp"
  /\ sessions' = IF sessions[l].live
                 THEN [sessions EXCEPT ![l].freshUntil = FreshUntil(l)]
                 ELSE sessions
  /\ LoginGoesTo(l, "in")
  /\ UNCHANGED <<now, parent, drawn, pending, used, enrol, closing, faults>>

(* A refused code takes its session with it. *)
DeleteSession(l) ==
  /\ login[l].pc = "delete"
  /\ sessions' = [sessions EXCEPT ![l] = NoSession]
  /\ LoginGoesTo(l, "refused")
  /\ UNCHANGED <<now, parent, drawn, pending, used, enrol, closing, faults>>

(* A statement of the login fails, and changes nothing: while the code is   *)
(* being verified that counts as a wrong one, elsewhere the login is over.  *)
LoginFails(l) ==
  /\ login[l].pc \in InHandler
  /\ faults < MaxFaults
  /\ faults' = faults + 1
  /\ LoginGoesTo(l, IF login[l].pc \in {"verify", "mark", "stamp"} THEN "delete" ELSE "refused")
  /\ UNCHANGED <<now, rows, enrol, closing>>

(* handleLogout. *)
Logout(l) ==
  /\ Admits(l)
  /\ sessions' = [sessions EXCEPT ![l] = NoSession]
  /\ UNCHANGED <<now, parent, drawn, pending, used, login, enrol, closing, faults>>

----------------------------------------------------------------------------
(* BeginTOTPEnrollment: a new secret replaces what was pending. *)
BeginTOTPEnrollment ==
  /\ drawn < MaxSecret
  /\ parent.open
  /\ drawn' = drawn + 1
  /\ pending' = [secret |-> drawn', expires |-> now + PendingTTL]
  /\ UNCHANGED <<now, parent, used, sessions, login, enrol, closing, faults>>

(* CompleteTOTPEnrollment, with a code of the pending secret; refused, it   *)
(* changes nothing.                                                         *)
ReadPending(e) ==
  /\ enrol[e].pc = "idle"
  /\ pending.secret # NoSecret
  /\ now <= pending.expires
  /\ enrol' = [enrol EXCEPT ![e] = [pc |-> "promote", secret |-> pending.secret]]
  /\ UNCHANGED <<now, rows, login, closing, faults>>

EnrolGoesTo(e, step) == enrol' = [enrol EXCEPT ![e].pc = step]

PromoteSecret(e) ==
  /\ enrol[e].pc = "promote"
  /\ IF parent.open
     THEN parent' = [parent EXCEPT !.secret = enrol[e].secret] /\ EnrolGoesTo(e, "clear")
     ELSE EnrolGoesTo(e, "failed") /\ UNCHANGED parent
  /\ UNCHANGED <<now, drawn, pending, used, sessions, login, closing, faults>>

ClearPending(e) ==
  /\ enrol[e].pc = "clear"
  /\ pending' = NoRow
  /\ EnrolGoesTo(e, "revoke")
  /\ UNCHANGED <<now, parent, drawn, used, sessions, login, closing, faults>>

RevokeSessions(e) ==
  /\ enrol[e].pc = "revoke"
  /\ sessions' = [l \in Logins |-> NoSession]
  /\ EnrolGoesTo(e, "done")
  /\ UNCHANGED <<now, parent, drawn, pending, used, login, closing, faults>>

(* A statement of the enrolment fails.  Once the secret is promoted, the    *)
(* enrolment has half happened.                                             *)
EnrolFails(e) ==
  /\ enrol[e].pc \in {"promote", "clear", "revoke"}
  /\ faults < MaxFaults
  /\ faults' = faults + 1
  /\ EnrolGoesTo(e, IF enrol[e].pc = "promote" THEN "failed" ELSE "half")
  /\ UNCHANGED <<now, rows, login, closing>>

----------------------------------------------------------------------------
(* handleAccountDeletePost: every session of the parent, then the parent,   *)
(* whose pending enrolment and used steps go with it.                       *)
CloseAccount ==
  /\ closing = "idle"
  /\ \E l \in Logins : Admits(l)
  /\ closing' = "revoke"
  /\ UNCHANGED <<now, rows, login, enrol, faults>>

RevokeOnClose ==
  /\ closing = "revoke"
  /\ sessions' = [l \in Logins |-> NoSession]
  /\ closing' = "delete"
  /\ UNCHANGED <<now, parent, drawn, pending, used, login, enrol, faults>>

DeleteParent ==
  /\ closing = "delete"
  /\ parent' = [parent EXCEPT !.open = FALSE]
  /\ pending' = NoRow
  /\ used' = {}
  /\ closing' = "done"
  /\ UNCHANGED <<now, drawn, sessions, login, enrol, faults>>

CloseFails ==
  /\ closing \in {"revoke", "delete"}
  /\ faults < MaxFaults
  /\ faults' = faults + 1
  /\ closing' = "idle"
  /\ UNCHANGED <<now, rows, login, enrol>>

----------------------------------------------------------------------------
(* A mark goes once it is older than the window.  Of two instants four      *)
(* periods apart by the count, one may be 120 s after the other already.    *)
KeptForSkew(u) == now - u.seen < 2 * Skew

Kept(u) == now - u.seen < ReplayWindow

PurgeExpiredTOTPUses ==
  /\ \E u \in used : ~Kept(u)
  /\ used' = {u \in used : Kept(u)}
  /\ UNCHANGED <<now, parent, drawn, pending, sessions, login, enrol, closing, faults>>

PurgeExpiredSessions ==
  /\ \E l \in Logins : sessions[l].live /\ sessions[l].expires < now
  /\ sessions' = [l \in Logins |->
                    IF sessions[l].expires < now THEN NoSession ELSE sessions[l]]
  /\ UNCHANGED <<now, parent, drawn, pending, used, login, enrol, closing, faults>>

PurgeExpiredTOTPPending ==
  /\ pending.secret # NoSecret
  /\ pending.expires < now
  /\ pending' = NoRow
  /\ UNCHANGED <<now, parent, drawn, used, sessions, login, enrol, closing, faults>>

(* The process dies and comes back: what was in a handler is gone. *)
Restart ==
  /\ faults < MaxFaults
  /\ faults' = faults + 1
  /\ login' = [l \in Logins |->
                 IF login[l].pc \in InHandler THEN [NoLogin EXCEPT !.pc = "refused"]
                 ELSE login[l]]
  /\ enrol' = [e \in Enrolments |->
                 IF enrol[e].pc = "promote" THEN [enrol[e] EXCEPT !.pc = "failed"]
                 ELSE IF enrol[e].pc \in {"clear", "revoke"} THEN [enrol[e] EXCEPT !.pc = "half"]
                 ELSE enrol[e]]
  /\ closing' = IF closing = "done" THEN "done" ELSE "idle"
  /\ UNCHANGED <<now, rows>>

(* The clock goes on, and waits for no login longer than HandlerTime.       *)
Tick ==
  /\ now < MaxTime
  /\ \A l \in Logins : login[l].pc \in InHandler => now - login[l].at < HandlerTime
  /\ now' = now + 1
  /\ UNCHANGED <<rows, login, enrol, closing, faults>>

Login(l) ==
  \/ LoginParent(l) \/ RejectPassword(l) \/ CreateSession(l) \/ LookupSession(l)
  \/ VerifyCode(l) \/ MarkStepUsed(l) \/ StampFresh(l) \/ DeleteSession(l)
  \/ LoginFails(l) \/ Logout(l)

Enrol(e) ==
  ReadPending(e) \/ PromoteSecret(e) \/ ClearPending(e) \/ RevokeSessions(e) \/ EnrolFails(e)

Close == CloseAccount \/ RevokeOnClose \/ DeleteParent \/ CloseFails

Purge == PurgeExpiredTOTPUses \/ PurgeExpiredSessions \/ PurgeExpiredTOTPPending

Next ==
  \/ \E l \in Logins : Login(l)
  \/ BeginTOTPEnrollment
  \/ \E e \in Enrolments : Enrol(e)
  \/ Close
  \/ Purge
  \/ Restart
  \/ Tick

Spec == Init /\ [][Next]_vars

----------------------------------------------------------------------------
SessionRows == [live: BOOLEAN, expires: Nat, freshUntil: 0 .. MaxTime + FreshFor]
LoginStates == [pc: LoginSteps, at: 0 .. MaxTime, code: [secret: Secrets, step: Nat]]
EnrolStates == [pc: EnrolSteps, secret: Secrets]

(* The type invariant. *)
TypeOK ==
  /\ now \in 0 .. MaxTime
  /\ parent \in [open: BOOLEAN, secret: Secrets]
  /\ drawn \in Secrets
  /\ pending \in [secret: Secrets, expires: Nat]
  /\ used \subseteq [step: Nat, seen: 0 .. MaxTime]
  /\ sessions \in [Logins -> SessionRows]
  /\ login \in [Logins -> LoginStates]
  /\ enrol \in [Enrolments -> EnrolStates]
  /\ closing \in {"idle", "revoke", "delete", "done"}
  /\ faults \in 0 .. MaxFaults

(* A code lets one login through, whatever other logins it reaches in the   *)
(* meantime and however the purge of the marks falls between them.          *)
Passed(l) == login[l].pc \in {"stamp", "in"}

CodeUsedOnce ==
  \A k, l \in Logins :
    k # l /\ Passed(k) /\ Passed(l) => login[k].code.step # login[l].code.step

(* Whoever is in the panel proved the secret now enrolled: an enrolment     *)
(* ends what an older secret, or a password alone, had opened, logins still *)
(* in their handler included.  An enrolment on its way, or one cut short    *)
(* after it promoted its secret, has not revoked anything yet.              *)
Unrevoked(e) == enrol[e].pc \in {"clear", "revoke", "half"}

SessionsFollowSecret ==
  (\A e \in Enrolments : ~Unrevoked(e)) =>
    \A l \in Logins :
      sessions[l].live /\ sessions[l].freshUntil # 0 => login[l].code.secret = parent.secret

----------------------------------------------------------------------------
(* What the documents say and the code does not do. *)

(* "A freshly enrolled second factor must not leave a session that was only *)
(* ever protected by a password still valid": nor when it is cut short.     *)
EnrolmentRevokes ==
  \A e \in Enrolments : enrol[e].pc \in {"half", "done"} =>
    \A l \in Logins :
      sessions[l].live /\ sessions[l].freshUntil # 0 =>
        \E f \in Enrolments : login[l].code.secret = enrol[f].secret

(* Deleting a parent leaves no session of theirs behind. *)
NoSessionWithoutParent == ~parent.open => \A l \in Logins : ~Admits(l)
=============================================================================
