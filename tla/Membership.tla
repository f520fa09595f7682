----------------------------- MODULE Membership -----------------------------
(***************************************************************************)
(* How accounts come to be and to belong: staff invitations                *)
(* (src/src/accounts/invites.service.ts), companies and their team         *)
(* (src/src/business/business.service.ts), sign-up with Google or Apple    *)
(* (social-auth.service.ts) and the confirmation of an email address       *)
(* (email-verification.service.ts).                                        *)
(*                                                                         *)
(* A call in progress is a task, one action per database statement or      *)
(* transaction.  Abstracted: the secret of a link (an invite is `sent`     *)
(* when its present link has reached the address), codes (see Sessions),   *)
(* companies' names, permissions, and the clock (an invite may expire at   *)
(* any moment).  Account u is the one with phone number u.                 *)
(***************************************************************************)
EXTENDS Naturals, Sequences

CONSTANTS
    Users, Emails,
    None,
    Tasks,          \* slots for calls in progress (a bound on concurrency)
    MaxInvites,     \* bound on the invitations written
    MaxBusinesses   \* bound on the companies created

\* What the constants are taken to be (the models that use this module assume it).
MembershipAssumption ==
    /\ None \notin Users \cup Emails
    /\ MaxInvites \in Nat
    /\ MaxBusinesses \in Nat

VARIABLES
    account,        \* the User rows
    identity,       \* the users with a SocialIdentity row
    invites,        \* the StaffInvite and BusinessTeamInvite rows, in order
    businesses,     \* the number of Business rows
    task            \* the calls in progress

vars == <<account, identity, invites, businesses, task>>

Roles == {"NONE", "RIDER", "ADMIN", "BUSINESS_ADMIN", "BUSINESS_STAFF"}
TeamRoles == {"BUSINESS_ADMIN", "BUSINESS_STAFF"}

NoAccount == [role |-> "NONE", business |-> 0, email |-> None, pending |-> None]

Idle == [pc |-> "idle", u |-> None, email |-> None, business |-> 0, role |-> "NONE", i |-> 0]

Call(t, pc, u, e, b, r, i) ==
    /\ task[t] = Idle
    /\ task' = [task EXCEPT ![t] = [pc |-> pc, u |-> u, email |-> e, business |-> b,
                                    role |-> r, i |-> i]]
At(t, pc) == task[t].pc = pc
Goto(t, pc) == task' = [task EXCEPT ![t].pc = pc]
Return(t) == task' = [task EXCEPT ![t] = Idle]
OnlyTask == UNCHANGED <<account, identity, invites, businesses>>
OnlyInvites == UNCHANGED <<account, identity, businesses>>

Registered(u) == account[u].role # "NONE"
Holders(e) == {u \in Users : Registered(u) /\ account[u].email = e}
Invites == DOMAIN invites

Init ==
    /\ account = [u \in Users |-> NoAccount]
    /\ identity = {}
    /\ invites = <<>>
    /\ businesses = 0
    /\ task = [t \in Tasks |-> Idle]

-----------------------------------------------------------------------------
(* Invitations: createInvite for staff (business 0), inviteTeamMember.     *)

Pending(b, e) ==
    {i \in Invites : /\ invites[i].business = b /\ invites[i].email = e
                     /\ invites[i].status = "PENDING" /\ invites[i].live}

CreateInvite(t, e) ==
    /\ Holders(e) = {} /\ Pending(0, e) = {}
    /\ Call(t, "invite", None, e, 0, "ADMIN", 0)
    /\ OnlyTask

InviteTeamMember(t, a, e, r) ==
    /\ account[a].role = "BUSINESS_ADMIN"
    /\ Holders(e) = {} /\ Pending(account[a].business, e) = {}
    /\ Call(t, "invite", a, e, account[a].business, r, 0)
    /\ OnlyTask

InviteWrite(t) ==
    /\ At(t, "invite")
    /\ Len(invites) < MaxInvites
    /\ invites' = Append(invites, [email |-> task[t].email, business |-> task[t].business,
                                   role |-> task[t].role, status |-> "PENDING",
                                   live |-> TRUE, sent |-> FALSE, user |-> None])
    /\ task' = [task EXCEPT ![t].pc = "mail", ![t].i = Len(invites) + 1]
    /\ OnlyInvites

\* resendInvite, of staff: a new link replaces the one sent before.
Resend(t, i) ==
    /\ invites[i].status = "PENDING" /\ invites[i].business = 0
    /\ Call(t, "renew", None, invites[i].email, 0, "ADMIN", i)
    /\ OnlyTask

Renew(t) ==
    /\ At(t, "renew")
    /\ invites[task[t].i].status # "DELETED"
    /\ invites' = [invites EXCEPT ![task[t].i].live = TRUE, ![task[t].i].sent = FALSE]
    /\ Goto(t, "remail")
    /\ OnlyInvites

Mail(t) ==
    /\ At(t, "mail") \/ At(t, "remail")
    /\ invites' = [invites EXCEPT ![task[t].i].sent = TRUE]
    /\ Return(t)
    /\ OnlyInvites

\* Only createInvite takes its row back when the email fails.
MailFails(t) ==
    /\ At(t, "mail") \/ At(t, "remail")
    /\ IF At(t, "mail") /\ task[t].business = 0 THEN Goto(t, "rollback") ELSE Return(t)
    /\ OnlyTask

Rollback(t) ==
    /\ At(t, "rollback")
    /\ invites' = [invites EXCEPT ![task[t].i].status = "DELETED"]
    /\ Return(t)
    /\ OnlyInvites

Revoke(t, i) ==
    /\ invites[i].status = "PENDING" /\ invites[i].business = 0
    /\ Call(t, "revoke", None, None, 0, "NONE", i)
    /\ OnlyTask

RevokeWrite(t) ==
    /\ At(t, "revoke")
    /\ invites[task[t].i].status # "DELETED"
    /\ invites' = [invites EXCEPT ![task[t].i].status = "REVOKED"]
    /\ Return(t)
    /\ OnlyInvites

Expire(i) ==
    /\ invites[i].status = "PENDING" /\ invites[i].live
    /\ invites' = [invites EXCEPT ![i].live = FALSE]
    /\ UNCHANGED <<account, identity, businesses, task>>

-----------------------------------------------------------------------------
(* acceptInvite: the account of a company's member and its invite are one  *)
(* transaction; those of staff are two statements.                         *)

Accept(t, i, u) ==
    /\ invites[i].status = "PENDING" /\ invites[i].live /\ invites[i].sent
    /\ ~ Registered(u)
    /\ Call(t, "join", u, invites[i].email, invites[i].business, invites[i].role, i)
    /\ OnlyTask

\* Phone and email are unique.
CanJoin(t) ==
    /\ At(t, "join")
    /\ ~ Registered(task[t].u)
    /\ Holders(task[t].email) = {}

Joined(t) ==
    [NoAccount EXCEPT !.role = task[t].role, !.business = task[t].business,
                      !.email = task[t].email]

Accepted(t) ==
    invites' = [invites EXCEPT ![task[t].i].status = "ACCEPTED", ![task[t].i].user = task[t].u]

JoinTeam(t) ==
    /\ CanJoin(t) /\ task[t].business # 0
    /\ account' = [account EXCEPT ![task[t].u] = Joined(t)]
    /\ Accepted(t)
    /\ Return(t)
    /\ UNCHANGED <<identity, businesses>>

JoinStaff(t) ==
    /\ CanJoin(t) /\ task[t].business = 0
    /\ account' = [account EXCEPT ![task[t].u] = Joined(t)]
    /\ Goto(t, "accepted")
    /\ UNCHANGED <<identity, invites, businesses>>

JoinedStaff(t) ==
    /\ At(t, "accepted")
    /\ invites[task[t].i].status # "DELETED"
    /\ Accepted(t)
    /\ Return(t)
    /\ OnlyInvites

-----------------------------------------------------------------------------
(* Companies.                                                              *)

CreateBusiness(t, u) ==
    /\ account[u].role = "RIDER" /\ account[u].business = 0
    /\ Call(t, "found", u, None, 0, "NONE", 0)
    /\ OnlyTask

Found(t) ==
    /\ At(t, "found")
    /\ businesses < MaxBusinesses
    /\ businesses' = businesses + 1
    /\ account' = [account EXCEPT ![task[t].u].role = "BUSINESS_ADMIN",
                                  ![task[t].u].business = businesses + 1]
    /\ Return(t)
    /\ UNCHANGED <<identity, invites>>

RemoveTeamMember(t, a, u) ==
    /\ account[a].role = "BUSINESS_ADMIN"
    /\ account[u].business = account[a].business
    /\ Call(t, "remove", u, None, 0, "NONE", 0)
    /\ OnlyTask

\* Mutant of Removed: only the link to the company is cleared.
RemovedUnlinked(u) == [account EXCEPT ![u].business = 0]

Removed(u) == [account EXCEPT ![u].business = 0, ![u].role = "RIDER"]

RemoveWrite(t) ==
    /\ At(t, "remove")
    /\ account' = Removed(task[t].u)
    /\ Return(t)
    /\ UNCHANGED <<identity, invites, businesses>>

-----------------------------------------------------------------------------
(* Riders: registration, or a Google or Apple identity.                    *)

\* register, as far as the row (its code is in Sessions).
Register(t, u, e) ==
    /\ task[t] = Idle
    /\ ~ Registered(u) /\ (e # None => Holders(e) = {})
    /\ account' = [account EXCEPT ![u] = [NoAccount EXCEPT !.role = "RIDER", !.email = e]]
    /\ UNCHANGED <<identity, invites, businesses, task>>

\* completeSignup: the user, then the identity.
SocialSignup(t, u, e) ==
    /\ ~ Registered(u) /\ Holders(e) = {}
    /\ Call(t, "signup", u, e, 0, "RIDER", 0)
    /\ OnlyTask

SignupUser(t) ==
    /\ At(t, "signup")
    /\ ~ Registered(task[t].u) /\ Holders(task[t].email) = {}
    /\ account' = [account EXCEPT ![task[t].u] = Joined(t)]
    /\ Goto(t, "identity")
    /\ UNCHANGED <<identity, invites, businesses>>

\* authenticate: an address the provider vouches for leads to the account.
SocialLink(t, u) ==
    /\ account[u].role = "RIDER" /\ account[u].email # None /\ u \notin identity
    /\ Call(t, "identity", u, account[u].email, 0, "RIDER", 0)
    /\ OnlyTask

Identify(t) ==
    /\ At(t, "identity")
    /\ identity' = identity \cup {task[t].u}
    /\ Return(t)
    /\ UNCHANGED <<account, invites, businesses>>

-----------------------------------------------------------------------------
(* Email addresses.                                                        *)

RequestChange(t, u, e) ==
    /\ Registered(u) /\ Holders(e) \subseteq {u} /\ account[u].pending # e
    /\ Call(t, "change", u, e, 0, "NONE", 0)
    /\ OnlyTask

ChangeWrite(t) ==
    /\ At(t, "change")
    /\ account' = [account EXCEPT ![task[t].u].pending = task[t].email]
    /\ Return(t)
    /\ UNCHANGED <<identity, invites, businesses>>

\* confirm: the address is the one pending when it began; the code is
\* verified in between.
Confirm(t, u) ==
    /\ Registered(u) /\ account[u].pending # None
    /\ Call(t, "confirm", u, account[u].pending, 0, "NONE", 0)
    /\ OnlyTask

\* The address is unique.
ConfirmWrite(t) ==
    /\ At(t, "confirm")
    /\ Holders(task[t].email) \subseteq {task[t].u}
    /\ account' = [account EXCEPT ![task[t].u].email = task[t].email,
                                  ![task[t].u].pending = None]
    /\ Return(t)
    /\ UNCHANGED <<identity, invites, businesses>>

-----------------------------------------------------------------------------
\* A statement fails, a check made again (phone, email) refuses, or the
\* process stops: the call ends.
Throw(t) ==
    /\ task[t] # Idle
    /\ Return(t)
    /\ OnlyTask

InviteSteps(t) ==
    \/ InviteWrite(t) \/ Renew(t) \/ Mail(t) \/ MailFails(t) \/ Rollback(t) \/ RevokeWrite(t)
    \/ JoinTeam(t) \/ JoinStaff(t) \/ JoinedStaff(t)
AccountSteps(t) ==
    Found(t) \/ RemoveWrite(t) \/ SignupUser(t) \/ Identify(t) \/ ChangeWrite(t) \/ ConfirmWrite(t)

Next ==
    \/ \E t \in Tasks :
          \/ InviteSteps(t) \/ AccountSteps(t) \/ Throw(t)
          \/ \E e \in Emails : CreateInvite(t, e)
          \/ \E a \in Users, e \in Emails, r \in TeamRoles : InviteTeamMember(t, a, e, r)
          \/ \E i \in Invites : Resend(t, i) \/ Revoke(t, i) \/ \E u \in Users : Accept(t, i, u)
          \/ \E u \in Users : CreateBusiness(t, u) \/ SocialLink(t, u) \/ Confirm(t, u)
          \/ \E a, u \in Users : RemoveTeamMember(t, a, u)
          \/ \E u \in Users, e \in Emails \cup {None} : Register(t, u, e)
          \/ \E u \in Users, e \in Emails : SocialSignup(t, u, e) \/ RequestChange(t, u, e)
    \/ \E i \in Invites : Expire(i)

Spec == Init /\ [][Next]_vars

-----------------------------------------------------------------------------
(* Properties.                                                             *)

InviteStatuses == {"PENDING", "ACCEPTED", "REVOKED", "DELETED"}

\* Every account, invitation and call in progress has its type.
MembershipTypeOK ==
    /\ account \in [Users -> [role : Roles, business : 0 .. MaxBusinesses,
                              email : Emails \cup {None}, pending : Emails \cup {None}]]
    /\ identity \subseteq Users
    /\ invites \in Seq([email : Emails, business : 0 .. MaxBusinesses, role : Roles,
                        status : InviteStatuses, live : BOOLEAN, sent : BOOLEAN,
                        user : Users \cup {None}])
    /\ Len(invites) <= MaxInvites
    /\ businesses \in 0 .. MaxBusinesses
    /\ \A t \in Tasks : task[t].u \in Users \cup {None}

\* Whatever overlaps or fails, an account has a company exactly when it has a
\* role in one, and the account that an accepted invitation names exists
\* (business.service.ts:47-49, 153-158, 184-203; invites.service.ts:191-216).
MembersHaveRoles ==
    /\ \A u \in Users : account[u].business # 0 <=> account[u].role \in TeamRoles
    /\ \A i \in Invites : invites[i].status = "ACCEPTED" =>
          invites[i].user # None /\ Registered(invites[i].user)
=============================================================================
