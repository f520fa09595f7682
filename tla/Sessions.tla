------------------------------ MODULE Sessions ------------------------------
(***************************************************************************)
(* Accounts, their one-time codes and reset links, and their sessions:     *)
(* registration, sign-in by code or password, password change and reset,   *)
(* rotation of refresh tokens (src/src/accounts/auth.service.ts), codes    *)
(* and links (otp.service.ts), sessions (sessions.service.ts), suspension  *)
(* and de-provisioning (users.service.ts and admin-ops.service.ts).        *)
(*                                                                         *)
(* A call in progress is a task, one action per database statement or      *)
(* transaction.  Codes and refresh tokens are rows in order of creation.   *)
(* Abstracted: what a code, a password or a token looks like (a code       *)
(* entered is right or wrong, a link or a token names its row); the clock  *)
(* (a code or a link may be found expired whenever it is looked up).       *)
(***************************************************************************)
EXTENDS Naturals, Sequences, FiniteSets, FiniteSetsExt

CONSTANTS
    Users,
    None,
    Tasks,          \* slots for calls in progress (a bound on concurrency)
    MaxAttempts,    \* OTP_MAX_ATTEMPTS
    MaxCodes,       \* bound on the codes and links issued
    MaxSessions     \* bound on the sessions opened

\* What the constants are taken to be (the models that use this module assume it).
SessionsAssumption ==
    /\ None \notin Users
    /\ IsFiniteSet(Tasks)
    /\ MaxAttempts \in Nat \ {0}
    /\ MaxCodes \in Nat
    /\ MaxSessions \in Nat

VARIABLES
    status,     \* User.status; "NONE" before registration
    hasPassword, \* User.passwordHash is set
    codes,      \* the OtpCode rows, in order of creation
    sessions,   \* the RefreshToken rows, in order of creation
    task        \* the calls in progress

vars == <<status, hasPassword, codes, sessions, task>>

Idle == [pc |-> "idle", u |-> None, purpose |-> "none", row |-> 0, seen |-> "NONE"]

Call(t, pc, u, purpose, row) ==
    /\ task[t] = Idle
    /\ task' = [task EXCEPT ![t] = [pc |-> pc, u |-> u, purpose |-> purpose, row |-> row,
                                    seen |-> IF u = None THEN "NONE" ELSE status[u]]]
At(t, pc) == task[t].pc = pc
Goto(t, pc) == task' = [task EXCEPT ![t].pc = pc]
Return(t) == task' = [task EXCEPT ![t] = Idle]
OnlyTask == UNCHANGED <<status, hasPassword, codes, sessions>>

Codes == DOMAIN codes
Links == {c \in Codes : codes[c].purpose = "PASSWORD_RESET"}

\* The live sessions of a user, less one that is kept, are revoked.
Revoked(u, kept) ==
    [s \in DOMAIN sessions |-> IF sessions[s].u = u /\ s # kept
                               THEN [sessions[s] EXCEPT !.live = FALSE] ELSE sessions[s]]

Init ==
    /\ status = [u \in Users |-> "NONE"]
    /\ hasPassword = [u \in Users |-> FALSE]
    /\ codes = <<>>
    /\ sessions = <<>>
    /\ task = [t \in Tasks |-> Idle]

-----------------------------------------------------------------------------
(* Codes: registration, sendOtp, forgotPassword and verifyOtp.             *)

\* registerRider and registerDriver; the phone number is unique.
Register(t, u) ==
    /\ status[u] = "NONE"
    /\ status' = [status EXCEPT ![u] = "PENDING_VERIFICATION"]
    /\ \E p \in BOOLEAN : hasPassword' = [hasPassword EXCEPT ![u] = p]
    /\ Call(t, "issue", u, "REGISTRATION", 0)
    /\ UNCHANGED <<codes, sessions>>

SendOtp(t, u, purpose) ==
    /\ status[u] # "NONE"
    /\ purpose = "LOGIN" => status[u] = "ACTIVE"
    /\ Call(t, "issue", u, purpose, 0)
    /\ OnlyTask

ForgotPassword(t, u) ==
    /\ hasPassword[u]
    /\ Call(t, "issue", u, "PASSWORD_RESET", 0)
    /\ OnlyTask

\* generateAndStore, generateAndStoreToken.
Issue(t) ==
    /\ At(t, "issue")
    /\ Len(codes) < MaxCodes
    /\ codes' = Append(codes, [u |-> task[t].u, purpose |-> task[t].purpose,
                               attempts |-> 0, consumed |-> FALSE, uses |-> 0])
    /\ Return(t)
    /\ UNCHANGED <<status, hasPassword, sessions>>

Verify(t, u, purpose) ==
    /\ status[u] # "NONE"
    /\ Call(t, "verify", u, purpose, 0)
    /\ OnlyTask

\* The codes a verification looks among; it takes the last.
Pending(u, purpose) ==
    {c \in Codes : codes[c].u = u /\ codes[c].purpose = purpose /\ ~ codes[c].consumed}

\* Mutant of Exhausted: the attempts are not looked at.
ExhaustedNever(c) == FALSE

Exhausted(c) == codes[c].attempts >= MaxAttempts

\* otp.verify throws: no code, too many attempts, or it has expired.
VerifyRefused(t) ==
    /\ At(t, "verify")
    /\ Return(t)
    /\ OnlyTask

VerifyFind(t) ==
    LET P == Pending(task[t].u, task[t].purpose)
    IN  /\ At(t, "verify")
        /\ P # {}
        /\ ~ Exhausted(Max(P))
        /\ \E pc \in {"right", "wrong"} :
              task' = [task EXCEPT ![t].pc = pc, ![t].row = Max(P)]
        /\ OnlyTask

VerifyWrong(t) ==
    /\ At(t, "wrong")
    /\ codes' = [codes EXCEPT ![task[t].row].attempts = @ + 1]
    /\ Return(t)
    /\ UNCHANGED <<status, hasPassword, sessions>>

\* The code is consumed whatever became of it; a registration by a user read
\* as PENDING_VERIFICATION is then activated.
VerifyRight(t) ==
    /\ At(t, "right")
    /\ codes' = [codes EXCEPT ![task[t].row].consumed = TRUE]
    /\ Goto(t, IF task[t].purpose = "REGISTRATION" /\ task[t].seen = "PENDING_VERIFICATION"
               THEN "activate" ELSE "open")
    /\ UNCHANGED <<status, hasPassword, sessions>>

Activate(t) ==
    /\ At(t, "activate")
    /\ status' = [status EXCEPT ![task[t].u] = "ACTIVE"]
    /\ Goto(t, "open")
    /\ UNCHANGED <<hasPassword, codes, sessions>>

-----------------------------------------------------------------------------
(* Passwords.                                                              *)

\* login: the password is compared in between.
Login(t, u) ==
    /\ status[u] = "ACTIVE"
    /\ hasPassword[u]
    /\ Call(t, "open", u, "none", 0)
    /\ OnlyTask

\* changePassword: the current one is compared, then one transaction sets the
\* new one and revokes the user's other sessions.
ChangePassword(t, u, s) ==
    /\ hasPassword[u]
    /\ Call(t, "change", u, "none", s)
    /\ OnlyTask

ChangeWrite(t) ==
    LET u == task[t].u
    IN  /\ At(t, "change")
        /\ hasPassword' = [hasPassword EXCEPT ![u] = TRUE]
        /\ sessions' = Revoked(u, task[t].row)
        /\ Return(t)
        /\ UNCHANGED <<status, codes>>

\* resetPassword: findLiveToken and the account's password are read first.
ResetFind(t, c) ==
    /\ ~ codes[c].consumed
    /\ hasPassword[codes[c].u]
    /\ Call(t, "reset", codes[c].u, "PASSWORD_RESET", c)
    /\ OnlyTask

\* Mutant of Claimed: the link was looked at when it was found.
ClaimedEarlier(c) == TRUE

\* claim: UPDATE ... WHERE consumedAt IS NULL.
Claimed(c) == ~ codes[c].consumed

\* One transaction: the link is claimed, the password set, every session
\* revoked and every other link of the user consumed.
ResetApply(t) ==
    LET u == task[t].u
        k == task[t].row
    IN  /\ At(t, "reset")
        /\ Claimed(k)
        /\ hasPassword' = [hasPassword EXCEPT ![u] = TRUE]
        /\ sessions' = Revoked(u, 0)
        /\ codes' = [c \in Codes |->
                        [codes[c] EXCEPT
                            !.consumed = @ \/ (c \in Links /\ codes[c].u = u),
                            !.uses = IF c = k THEN @ + 1 ELSE @]]
        /\ Return(t)
        /\ UNCHANGED status

\* Mutant of ResetRefused: the claim stands when the rest fails.
ResetRefusedBurnt(t) ==
    /\ At(t, "reset")
    /\ codes' = [codes EXCEPT ![task[t].row].consumed = TRUE]
    /\ Return(t)
    /\ UNCHANGED <<status, hasPassword, sessions>>

\* The claim fails, or the transaction does and is rolled back.
ResetRefused(t) ==
    /\ At(t, "reset")
    /\ Return(t)
    /\ OnlyTask

-----------------------------------------------------------------------------
(* Sessions.                                                               *)

\* issueTokenPair.
Open(t) ==
    /\ At(t, "open")
    /\ Len(sessions) < MaxSessions
    /\ sessions' = Append(sessions, [u |-> task[t].u, live |-> TRUE])
    /\ Return(t)
    /\ UNCHANGED <<status, hasPassword, codes>>

\* refresh: a token revoked already ends every session of its user, a live
\* one is revoked and replaced.
Refresh(t, s) ==
    /\ Call(t, IF sessions[s].live THEN "rotate" ELSE "burn", sessions[s].u, "none", s)
    /\ OnlyTask

Rotate(t) ==
    /\ At(t, "rotate")
    /\ sessions' = [sessions EXCEPT ![task[t].row].live = FALSE]
    /\ Goto(t, "open")
    /\ UNCHANGED <<status, hasPassword, codes>>

Burn(t) ==
    /\ At(t, "burn")
    /\ sessions' = Revoked(task[t].u, 0)
    /\ Return(t)
    /\ UNCHANGED <<status, hasPassword, codes>>

\* logout and revoke: one statement that matters.
Revoke(s) ==
    /\ sessions[s].live
    /\ sessions' = [sessions EXCEPT ![s].live = FALSE]
    /\ UNCHANGED <<status, hasPassword, codes, task>>

RevokeAllOthers(s) ==
    /\ Revoked(sessions[s].u, s) # sessions
    /\ sessions' = Revoked(sessions[s].u, s)
    /\ UNCHANGED <<status, hasPassword, codes, task>>

-----------------------------------------------------------------------------
(* Administrators.                                                         *)

\* suspendUser, activateUser: riders and drivers.
SetUserStatus(u, s) ==
    /\ status[u] \notin {"NONE", s}
    /\ status' = [status EXCEPT ![u] = s]
    /\ UNCHANGED <<hasPassword, codes, sessions, task>>

\* updateStaff revokes the sessions and then writes the status.
SuspendStaff(t, u) ==
    /\ status[u] # "NONE"
    /\ Call(t, "suspend", u, "none", 0)
    /\ sessions' = Revoked(u, 0)
    /\ UNCHANGED <<status, hasPassword, codes>>

SuspendWrite(t) ==
    /\ At(t, "suspend")
    /\ status' = [status EXCEPT ![task[t].u] = "SUSPENDED"]
    /\ Return(t)
    /\ UNCHANGED <<hasPassword, codes, sessions>>

\* deprovisionStaff: one transaction.
Deprovision(u) ==
    /\ status[u] # "NONE"
    /\ status' = [status EXCEPT ![u] = "SUSPENDED"]
    /\ sessions' = Revoked(u, 0)
    /\ UNCHANGED <<hasPassword, codes, task>>

-----------------------------------------------------------------------------
(* A statement fails: the call throws, and a transaction is rolled back.   *)
Throw(t) ==
    /\ task[t] # Idle
    /\ Return(t)
    /\ OnlyTask

Next ==
    \/ \E t \in Tasks :
          \/ Throw(t)
          \/ \E u \in Users :
                \/ Register(t, u) \/ ForgotPassword(t, u) \/ Login(t, u) \/ SuspendStaff(t, u)
                \/ \E p \in {"REGISTRATION", "LOGIN"} : SendOtp(t, u, p) \/ Verify(t, u, p)
                \/ \E s \in DOMAIN sessions : sessions[s].u = u /\ ChangePassword(t, u, s)
          \/ \E c \in Links : ResetFind(t, c)
          \/ \E s \in DOMAIN sessions : Refresh(t, s)
          \/ Issue(t) \/ VerifyRefused(t) \/ VerifyFind(t) \/ VerifyWrong(t) \/ VerifyRight(t)
          \/ Activate(t) \/ ChangeWrite(t) \/ ResetApply(t) \/ ResetRefused(t)
          \/ Open(t) \/ Rotate(t) \/ Burn(t) \/ SuspendWrite(t)
    \/ \E s \in DOMAIN sessions : Revoke(s) \/ RevokeAllOthers(s)
    \/ \E u \in Users : Deprovision(u) \/ \E s \in {"ACTIVE", "SUSPENDED"} : SetUserStatus(u, s)

Spec == Init /\ [][Next]_vars

-----------------------------------------------------------------------------
(* Properties.                                                             *)

Purposes == {"REGISTRATION", "LOGIN", "PASSWORD_RESET"}

\* Every account, code, session and call in progress has its type.
SessionsTypeOK ==
    /\ status \in [Users -> {"NONE", "PENDING_VERIFICATION", "ACTIVE", "SUSPENDED"}]
    /\ hasPassword \in [Users -> BOOLEAN]
    /\ codes \in Seq([u : Users, purpose : Purposes, attempts : Nat,
                      consumed : BOOLEAN, uses : Nat])
    /\ Len(codes) <= MaxCodes
    /\ sessions \in Seq([u : Users, live : BOOLEAN])
    /\ Len(sessions) <= MaxSessions
    /\ \A t \in Tasks : task[t].u \in Users \cup {None}

\* A reset link changes the password once: "a link used twice at once works
\* exactly once, and if saving fails the claim rolls back — the user's link
\* survives for a retry" (auth.service.ts:297-299).  A consumed link means
\* that some link of the user did change the password, and none of the user's
\* works after another did.
ResetIsOnce ==
    /\ \A c \in Links : codes[c].uses <= 1
    /\ \A c, k \in Links :
          codes[c].uses = 1 /\ codes[k].u = codes[c].u /\ k <= c => codes[k].consumed
    /\ \A c \in Links : codes[c].consumed =>
          \E k \in Links : codes[k].uses = 1 /\ codes[k].u = codes[c].u

\* The attempts on a code are checked and counted in two statements, so calls
\* at once may pass the limit, by as many as were under way and no more.
AttemptsAreBounded ==
    \A c \in Codes :
        codes[c].attempts + Cardinality({t \in Tasks : At(t, "wrong") /\ task[t].row = c})
            <= MaxAttempts + Cardinality(Tasks) - 1
=============================================================================
