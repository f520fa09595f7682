--------------------------- MODULE AccountsProofs ---------------------------
(***************************************************************************)
(* Theorems about Accounts: for any users, addresses, documents, codes,    *)
(* sessions, invitations and companies, and any number of calls at once.   *)
(***************************************************************************)
EXTENDS Accounts, Sums, Sequences, TLAPS

-----------------------------------------------------------------------------
(* Memberships.  A user is a member once registered, and stays one.  What  *)
(* a call knows is about the members and the number of invitations, which  *)
(* only grow; the operators take them as arguments, so that a lemma can    *)
(* speak of those of the next state.                                       *)

InvitePcs == {"mail", "remail", "renew", "rollback", "revoke", "join", "accepted"}
UserPcs == {"join", "accepted", "found", "remove", "signup", "identity", "change", "confirm"}
GrantPcs == {"invite", "join", "signup"}
Pcs == InvitePcs \cup UserPcs \cup {"idle", "invite"}

AccountRecords == [role : M!Roles, business : Nat, email : Emails \cup {None},
                   pending : Emails \cup {None}]
InviteRecords == [email : Emails, business : Nat, role : M!Roles, status : M!InviteStatuses,
                  live : BOOLEAN, sent : BOOLEAN, user : Members \cup {None}]
TaskRecords == [pc : Pcs, u : Members \cup {None}, email : Emails \cup {None},
                business : Nat, role : M!Roles, i : Nat]

\* A role in a company and a company, of an account, an invitation or a call.
Agree(x) == x.business # 0 <=> x.role \in M!TeamRoles
Grants(x) == Agree(x) /\ x.role # "NONE"

MembersOf(acc) == {u \in Members : acc[u].role # "NONE"}

AccountsOK(acc) ==
    /\ acc \in [Members -> AccountRecords]
    /\ \A u \in Members : Agree(acc[u])

InviteOK(x, members) ==
    /\ Grants(x)
    /\ x.status = "ACCEPTED" => x.user \in members

InvitesOK(inv, members) ==
    /\ inv \in Seq(InviteRecords)
    /\ \A i \in 1 .. Len(inv) : InviteOK(inv[i], members)

\* What a call knows at its next step: its user, its invitation, the role it
\* is about to grant, and of staff who joined that the account is there.
Knows(k, members, n) ==
    /\ k.pc \in UserPcs => k.u \in Members
    /\ k.pc \in InvitePcs => k.i \in 1 .. n
    /\ k.pc \in GrantPcs => Grants(k) /\ k.email \in Emails
    /\ k.pc = "accepted" => k.u \in members

TasksOK(calls, members, n) ==
    /\ calls \in [Tasks -> TaskRecords]
    /\ \A t \in Tasks : Knows(calls[t], members, n)

MembershipInv ==
    /\ AccountsOK(account)
    /\ InvitesOK(invites, MembersOf(account))
    /\ businesses \in Nat
    /\ TasksOK(memberTask, MembersOf(account), Len(invites))

-----------------------------------------------------------------------------
(* What a write of one row keeps.                                          *)

LEMMA AccountWritten ==
    ASSUME NEW acc, AccountsOK(acc), NEW u \in Members, NEW x \in AccountRecords,
           Agree(x), x.role = "NONE" => acc[u].role = "NONE"
    PROVE  LET new == [acc EXCEPT ![u] = x]
           IN  /\ AccountsOK(new)
               /\ MembersOf(acc) \subseteq MembersOf(new)
               /\ x.role # "NONE" => u \in MembersOf(new)
  BY DEF AccountsOK, MembersOf

LEMMA InviteWritten ==
    ASSUME NEW inv, NEW members, InvitesOK(inv, members),
           NEW i \in 1 .. Len(inv), NEW x \in InviteRecords, InviteOK(x, members)
    PROVE  LET new == [inv EXCEPT ![i] = x]
           IN  InvitesOK(new, members) /\ Len(new) = Len(inv)
  <1> DEFINE new == [inv EXCEPT ![i] = x]
  <1>1. inv \in Seq(InviteRecords)
    BY DEF InvitesOK
  <1>2. new \in Seq(InviteRecords) /\ Len(new) = Len(inv)
    BY <1>1
  <1>3. \A j \in 1 .. Len(inv) : new[j] = IF j = i THEN x ELSE inv[j]
    BY <1>1
  <1> HIDE DEF new
  <1>4. \A j \in 1 .. Len(new) : InviteOK(new[j], members)
    BY <1>2, <1>3 DEF InvitesOK
  <1> QED
    BY <1>2, <1>4 DEF InvitesOK, new

LEMMA InviteAdded ==
    ASSUME NEW inv, NEW members, InvitesOK(inv, members),
           NEW x \in InviteRecords, InviteOK(x, members)
    PROVE  LET new == Append(inv, x)
           IN  InvitesOK(new, members) /\ Len(new) = Len(inv) + 1
  <1> DEFINE new == Append(inv, x)
  <1>1. inv \in Seq(InviteRecords) /\ Len(inv) \in Nat
    BY DEF InvitesOK
  <1>2. new \in Seq(InviteRecords) /\ Len(new) = Len(inv) + 1
    BY <1>1
  <1>3. /\ \A j \in 1 .. Len(inv) : new[j] = inv[j]
        /\ new[Len(inv) + 1] = x
    BY <1>1
  <1> HIDE DEF new
  <1>4. ASSUME NEW j \in 1 .. Len(new) PROVE InviteOK(new[j], members)
    <2>1. CASE j \in 1 .. Len(inv)
      BY <1>3, <2>1 DEF InvitesOK
    <2>2. CASE j = Len(inv) + 1
      BY <1>3, <2>2
    <2> QED
      BY <1>1, <1>2, <2>1, <2>2
  <1> QED
    BY <1>2, <1>4 DEF InvitesOK, new

LEMMA MoreMembers ==
    ASSUME NEW inv, NEW members, NEW more, InvitesOK(inv, members), members \subseteq more
    PROVE  InvitesOK(inv, more)
  BY DEF InvitesOK, InviteOK

LEMMA CallWritten ==
    ASSUME NEW calls, NEW members, NEW n \in Nat, TasksOK(calls, members, n),
           NEW more, members \subseteq more, NEW m \in Nat, n <= m,
           NEW t \in Tasks, NEW k \in TaskRecords, Knows(k, more, m)
    PROVE  TasksOK([calls EXCEPT ![t] = k], more, m)
  <1> DEFINE new == [calls EXCEPT ![t] = k]
  <1>1. new \in [Tasks -> TaskRecords]
    BY DEF TasksOK
  <1>2. ASSUME NEW s \in Tasks PROVE Knows(new[s], more, m)
    <2>1. CASE s = t
      BY <2>1 DEF TasksOK
    <2>2. CASE s # t
      <3>1. new[s] = calls[s] /\ Knows(calls[s], members, n)
        BY <2>2 DEF TasksOK
      <3> HIDE DEF new
      <3> QED
        BY <3>1 DEF Knows
    <2> QED
      BY <2>1, <2>2
  <1> QED
    BY <1>1, <1>2 DEF TasksOK

\* The three ways in which an action writes its call.
Moved(t, k) == memberTask' = [memberTask EXCEPT ![t] = k]

LEMMA Called ==
    ASSUME NEW t \in Tasks, NEW pc \in Pcs, NEW u \in Members \cup {None},
           NEW e \in Emails \cup {None}, NEW b \in Nat, NEW r \in M!Roles, NEW i \in Nat,
           M!Call(t, pc, u, e, b, r, i)
    PROVE  \E k \in TaskRecords :
               /\ k.pc = pc /\ k.u = u /\ k.email = e /\ k.business = b /\ k.role = r /\ k.i = i
               /\ Moved(t, k)
  <1> DEFINE k == [pc |-> pc, u |-> u, email |-> e, business |-> b, role |-> r, i |-> i]
  <1>1. k \in TaskRecords
    BY DEF TaskRecords
  <1>2. /\ k.pc = pc /\ k.u = u /\ k.email = e /\ k.business = b /\ k.role = r /\ k.i = i
        /\ Moved(t, k)
    BY DEF M!Call, Moved
  <1> QED
    BY <1>1, <1>2

LEMMA Onward ==
    ASSUME MembershipInv, NEW t \in Tasks, NEW pc \in Pcs, M!Goto(t, pc)
    PROVE  \E k \in TaskRecords :
               /\ k.pc = pc /\ k.u = memberTask[t].u /\ k.email = memberTask[t].email
               /\ k.business = memberTask[t].business /\ k.role = memberTask[t].role
               /\ k.i = memberTask[t].i
               /\ Moved(t, k)
  <1> DEFINE k == [memberTask[t] EXCEPT !.pc = pc]
  <1>1. memberTask[t] \in TaskRecords
    BY DEF MembershipInv, TasksOK
  <1>2. /\ k \in TaskRecords
        /\ k.pc = pc /\ k.u = memberTask[t].u /\ k.email = memberTask[t].email
        /\ k.business = memberTask[t].business /\ k.role = memberTask[t].role
        /\ k.i = memberTask[t].i
    BY <1>1 DEF TaskRecords
  <1>3. Moved(t, k)
    BY DEF M!Goto, Moved
  <1> QED
    BY <1>2, <1>3

LEMMA IdleKnows ==
    /\ M!Idle \in TaskRecords
    /\ \A members, n : Knows(M!Idle, members, n)
  <1>1. M!Idle \in TaskRecords /\ M!Idle.pc = "idle"
    BY DEF M!Idle, TaskRecords, Pcs, M!Roles
  <1> QED
    BY <1>1 DEF Knows, UserPcs, InvitePcs, GrantPcs

LEMMA Returned ==
    ASSUME NEW t \in Tasks, M!Return(t)
    PROVE  \E k \in TaskRecords : Moved(t, k) /\ \A members, n : Knows(k, members, n)
  BY IdleKnows DEF M!Return, Moved

\* What the call of an action is.
LEMMA CallIs ==
    ASSUME MembershipInv, NEW t \in Tasks
    PROVE  /\ memberTask[t] \in TaskRecords
           /\ Knows(memberTask[t], MembersOf(account), Len(invites))
           /\ Len(invites) \in Nat
  BY DEF MembershipInv, TasksOK, InvitesOK

\* A step of one call writes an account, an invitation, or neither.  In each
\* case it is enough that the call knows what it must afterwards.
LEMMA TasksMove ==
    ASSUME MembershipInv, NEW t \in Tasks, NEW k \in TaskRecords, Moved(t, k),
           NEW more, MembersOf(account) \subseteq more, NEW m \in Nat, Len(invites) <= m,
           Knows(k, more, m)
    PROVE  TasksOK(memberTask', more, m)
  <1>1. TasksOK(memberTask, MembersOf(account), Len(invites)) /\ Len(invites) \in Nat
    BY CallIs DEF MembershipInv
  <1>2. TasksOK([memberTask EXCEPT ![t] = k], more, m)
    BY <1>1, CallWritten
  <1> QED
    BY <1>2 DEF Moved

LEMMA InvNext ==
    ASSUME AccountsOK(account'), InvitesOK(invites', MembersOf(account')), businesses' \in Nat,
           TasksOK(memberTask', MembersOf(account'), Len(invites'))
    PROVE  MembershipInv'
  BY DEF MembershipInv, AccountsOK, InvitesOK, TasksOK, MembersOf, Agree, Grants, InviteOK, Knows

LEMMA OnlyCallMoves ==
    ASSUME MembershipInv, NEW t \in Tasks, M!OnlyTask, NEW k \in TaskRecords, Moved(t, k),
           Knows(k, MembersOf(account), Len(invites))
    PROVE  MembershipInv'
  <1>1. account' = account /\ invites' = invites /\ businesses' = businesses
    BY DEF M!OnlyTask
  <1>2. Len(invites) \in Nat /\ Len(invites) <= Len(invites)
    BY CallIs
  <1>3. TasksOK(memberTask', MembersOf(account), Len(invites))
    BY <1>2, TasksMove
  <1> QED
    BY <1>1, <1>3, InvNext DEF MembershipInv

LEMMA AccountMoves ==
    ASSUME MembershipInv, NEW u \in Members, NEW x \in AccountRecords,
           account' = [account EXCEPT ![u] = x],
           Agree(x), x.role = "NONE" => account[u].role = "NONE"
    PROVE  /\ AccountsOK(account')
           /\ MembersOf(account) \subseteq MembersOf(account')
           /\ x.role # "NONE" => u \in MembersOf(account')
           /\ InvitesOK(invites, MembersOf(account'))
  <1>1. AccountsOK(account) /\ InvitesOK(invites, MembersOf(account))
    BY DEF MembershipInv
  <1>2. /\ AccountsOK(account')
        /\ MembersOf(account) \subseteq MembersOf(account')
        /\ x.role # "NONE" => u \in MembersOf(account')
    BY <1>1, AccountWritten
  <1>3. InvitesOK(invites, MembersOf(account'))
    BY <1>1, <1>2, MoreMembers
  <1> QED
    BY <1>2, <1>3

LEMMA InviteMoves ==
    ASSUME MembershipInv, M!OnlyInvites, NEW i \in 1 .. Len(invites), NEW x \in InviteRecords,
           invites' = [invites EXCEPT ![i] = x], InviteOK(x, MembersOf(account)),
           NEW t \in Tasks, NEW k \in TaskRecords, Moved(t, k),
           Knows(k, MembersOf(account), Len(invites))
    PROVE  MembershipInv'
  <1>1. InvitesOK(invites', MembersOf(account)) /\ Len(invites') = Len(invites)
    BY ZenonT(60), InviteWritten DEF MembershipInv
  <1>2. Len(invites) \in Nat /\ Len(invites) <= Len(invites)
    BY CallIs
  <1>3. TasksOK(memberTask', MembersOf(account), Len(invites))
    BY <1>2, TasksMove
  <1>4. account' = account /\ businesses' = businesses
    BY DEF M!OnlyInvites
  <1> QED
    BY <1>1, <1>3, <1>4, InvNext DEF MembershipInv

LEMMA RowIs ==
    ASSUME MembershipInv, NEW i \in 1 .. Len(invites)
    PROVE  invites[i] \in InviteRecords /\ InviteOK(invites[i], MembersOf(account))
  BY DEF MembershipInv, InvitesOK

-----------------------------------------------------------------------------
(* Actions that only begin or end a call.                                  *)

LEMMA ReturnKeeps ==
    ASSUME MembershipInv, NEW t \in Tasks, M!OnlyTask, M!Return(t)
    PROVE  MembershipInv'
  BY Returned, OnlyCallMoves

LEMMA CallKeeps ==
    ASSUME MembershipInv, NEW t \in Tasks, M!OnlyTask,
           NEW pc \in Pcs, NEW u \in Members \cup {None}, NEW e \in Emails \cup {None},
           NEW b \in Nat, NEW r \in M!Roles, NEW i \in Nat,
           M!Call(t, pc, u, e, b, r, i),
           pc \in UserPcs => u \in Members,
           pc \in InvitePcs => i \in 1 .. Len(invites),
           pc \in GrantPcs => (b # 0 <=> r \in M!TeamRoles) /\ r # "NONE" /\ e \in Emails,
           pc # "accepted"
    PROVE  MembershipInv'
  <1>1. PICK k \in TaskRecords :
            /\ k.pc = pc /\ k.u = u /\ k.email = e /\ k.business = b /\ k.role = r /\ k.i = i
            /\ Moved(t, k)
    BY Called
  <1>2. Knows(k, MembersOf(account), Len(invites))
    BY <1>1 DEF Knows, Grants, Agree
  <1> QED
    BY <1>1, <1>2, OnlyCallMoves

LEMMA InviteCallsKeep ==
    ASSUME MembershipInv, NEW t \in Tasks,
           \/ \E e \in Emails : M!CreateInvite(t, e)
           \/ \E a \in Members, e \in Emails, r \in M!TeamRoles : M!InviteTeamMember(t, a, e, r)
           \/ \E i \in M!Invites :
                 \/ M!Resend(t, i) \/ M!Revoke(t, i)
                 \/ \E u \in Members : M!Accept(t, i, u)
    PROVE  MembershipInv'
  <1>0. M!Invites = 1 .. Len(invites) /\ Len(invites) \in Nat
    BY DEF M!Invites, MembershipInv, InvitesOK
  <1> USE DEF Pcs, UserPcs, InvitePcs, GrantPcs, M!Roles, M!TeamRoles
  <1>1. ASSUME NEW e \in Emails, M!CreateInvite(t, e) PROVE MembershipInv'
    BY <1>1, CallKeeps DEF M!CreateInvite
  <1>2. ASSUME NEW a \in Members, NEW e \in Emails, NEW r \in M!TeamRoles,
               M!InviteTeamMember(t, a, e, r)
        PROVE  MembershipInv'
    <2>1. account[a].role = "BUSINESS_ADMIN" /\ Agree(account[a]) /\ account[a].business \in Nat
      BY <1>2 DEF M!InviteTeamMember, MembershipInv, AccountsOK, AccountRecords
    <2>2. PICK b \in Nat : b = account[a].business /\ b # 0
      BY <2>1 DEF Agree
    <2> QED
      BY <1>2, <2>2, CallKeeps DEF M!InviteTeamMember
  <1>3. ASSUME NEW i \in M!Invites, M!Resend(t, i) PROVE MembershipInv'
    <2>1. invites[i].email \in Emails
      BY <1>0, RowIs DEF InviteRecords
    <2>2. PICK e \in Emails : e = invites[i].email
      BY <2>1
    <2>3. M!Call(t, "renew", None, e, 0, "ADMIN", i) /\ M!OnlyTask
      BY <1>3, <2>2 DEF M!Resend
    <2>4. i \in 1 .. Len(invites) /\ i \in Nat /\ 0 \in Nat /\ None \in Members \cup {None}
      BY <1>0
    <2> QED
      BY <2>3, <2>4, CallKeeps
  <1>4. ASSUME NEW i \in M!Invites, M!Revoke(t, i) PROVE MembershipInv'
    <2>1. M!Call(t, "revoke", None, None, 0, "NONE", i) /\ M!OnlyTask
      BY <1>4 DEF M!Revoke
    <2>2. i \in 1 .. Len(invites) /\ i \in Nat /\ 0 \in Nat /\ None \in Members \cup {None}
      BY <1>0
    <2> QED
      BY <2>1, <2>2, CallKeeps
  <1>5. ASSUME NEW i \in M!Invites, NEW u \in Members, M!Accept(t, i, u) PROVE MembershipInv'
    <2>1. invites[i] \in InviteRecords /\ InviteOK(invites[i], MembersOf(account))
      BY <1>0, RowIs
    <2>2. PICK e \in Emails, b \in Nat, r \in M!Roles :
              /\ e = invites[i].email /\ b = invites[i].business /\ r = invites[i].role
              /\ (b # 0 <=> r \in M!TeamRoles) /\ r # "NONE"
      BY <2>1 DEF InviteRecords, InviteOK, Grants, Agree
    <2> QED
      BY <1>0, <1>5, <2>2, CallKeeps DEF M!Accept
  <1> QED
    BY <1>1, <1>2, <1>3, <1>4, <1>5

LEMMA AccountCallsKeep ==
    ASSUME MembershipInv, NEW t \in Tasks,
           \/ \E u \in Members : M!CreateBusiness(t, u) \/ M!SocialLink(t, u) \/ M!Confirm(t, u)
           \/ \E a, u \in Members : M!RemoveTeamMember(t, a, u)
           \/ \E u \in Members, e \in Emails : M!SocialSignup(t, u, e) \/ M!RequestChange(t, u, e)
    PROVE  MembershipInv'
  <1>0. \A u \in Members : account[u].email \in Emails \cup {None}
                              /\ account[u].pending \in Emails \cup {None}
    BY DEF MembershipInv, AccountsOK, AccountRecords
  <1> USE DEF Pcs, UserPcs, InvitePcs, GrantPcs, M!Roles, M!TeamRoles
  <1>1. ASSUME NEW u \in Members, M!CreateBusiness(t, u) PROVE MembershipInv'
    <2>1. M!OnlyTask /\ M!Call(t, "found", u, None, 0, "NONE", 0)
      BY <1>1 DEF M!CreateBusiness
    <2> QED
      BY <2>1, CallKeeps
  <1>2. ASSUME NEW u \in Members, M!SocialLink(t, u) PROVE MembershipInv'
    <2>1. PICK e \in Emails \cup {None} : e = account[u].email
      BY <1>0
    <2> QED
      BY <1>2, <2>1, CallKeeps DEF M!SocialLink
  <1>3. ASSUME NEW u \in Members, M!Confirm(t, u) PROVE MembershipInv'
    <2>1. PICK e \in Emails \cup {None} : e = account[u].pending
      BY <1>0
    <2> QED
      BY <1>3, <2>1, CallKeeps DEF M!Confirm
  <1>4. ASSUME NEW a \in Members, NEW u \in Members, M!RemoveTeamMember(t, a, u)
        PROVE  MembershipInv'
    BY <1>4, CallKeeps DEF M!RemoveTeamMember
  <1>5. ASSUME NEW u \in Members, NEW e \in Emails, M!SocialSignup(t, u, e) PROVE MembershipInv'
    BY <1>5, CallKeeps DEF M!SocialSignup
  <1>6. ASSUME NEW u \in Members, NEW e \in Emails, M!RequestChange(t, u, e) PROVE MembershipInv'
    BY <1>6, CallKeeps DEF M!RequestChange
  <1> QED
    BY <1>1, <1>2, <1>3, <1>4, <1>5, <1>6

-----------------------------------------------------------------------------
(* Actions that write an invitation.                                       *)

LEMMA InviteWriteKeeps ==
    ASSUME MembershipInv, NEW t \in Tasks, M!InviteWrite(t)
    PROVE  MembershipInv'
  <1> DEFINE n == Len(invites)
             x == [email |-> memberTask[t].email, business |-> memberTask[t].business,
                   role |-> memberTask[t].role, status |-> "PENDING",
                   live |-> TRUE, sent |-> FALSE, user |-> None]
             k == [memberTask[t] EXCEPT !.pc = "mail", !.i = n + 1]
  <1>1. /\ memberTask[t] \in TaskRecords /\ memberTask[t].pc = "invite" /\ n \in Nat
        /\ Grants(memberTask[t]) /\ memberTask[t].email \in Emails
    BY CallIs DEF M!InviteWrite, M!At, Knows, GrantPcs
  <1>2. x \in InviteRecords /\ InviteOK(x, MembersOf(account))
    BY <1>1 DEF TaskRecords, InviteRecords, M!InviteStatuses, InviteOK, Grants, Agree
  <1>3. k \in TaskRecords /\ k.pc = "mail" /\ k.i = n + 1
    <2>1. PICK m \in Nat : m = n + 1
      BY <1>1
    <2> QED
      BY <1>1, <2>1 DEF TaskRecords, Pcs, InvitePcs
  <1>4. invites' = Append(invites, x) /\ Moved(t, k) /\ M!OnlyInvites
    BY DEF M!InviteWrite, Moved
  <1> HIDE DEF x, k
  <1>5. InvitesOK(invites', MembersOf(account)) /\ Len(invites') = n + 1
    BY <1>2, <1>4, InviteAdded DEF MembershipInv
  <1>6. Knows(k, MembersOf(account), n + 1)
    BY <1>1, <1>3 DEF Knows, UserPcs, GrantPcs
  <1>7. TasksOK(memberTask', MembersOf(account), n + 1)
    BY <1>1, <1>3, <1>4, <1>6, TasksMove
  <1> QED
    BY <1>4, <1>5, <1>7, InvNext DEF MembershipInv, M!OnlyInvites

\* An invitation's link is renewed or sent, or its status changes to one that
\* no account answers to.
LEMMA InviteEditKeeps ==
    ASSUME MembershipInv, NEW t \in Tasks,
           M!Renew(t) \/ M!Mail(t) \/ M!Rollback(t) \/ M!RevokeWrite(t)
    PROVE  MembershipInv'
  <1>1. memberTask[t].pc \in {"renew", "mail", "remail", "rollback", "revoke"}
    BY DEF M!Renew, M!Mail, M!Rollback, M!RevokeWrite, M!At
  <1>2. PICK i \in 1 .. Len(invites) : i = memberTask[t].i
    BY <1>1, CallIs DEF Knows, InvitePcs
  <1>3. invites[i] \in InviteRecords /\ InviteOK(invites[i], MembersOf(account))
    BY RowIs
  <1>4. PICK x \in InviteRecords :
            InviteOK(x, MembersOf(account)) /\ invites' = [invites EXCEPT ![i] = x]
    <2>1. CASE M!Renew(t)
      <3> DEFINE x == [invites[i] EXCEPT !.live = TRUE, !.sent = FALSE]
      <3>1. x \in InviteRecords /\ InviteOK(x, MembersOf(account))
        BY <1>3 DEF InviteRecords, InviteOK, Grants, Agree
      <3>2. invites' = [invites EXCEPT ![i] = x]
        BY <1>2, <1>3, <2>1 DEF M!Renew, MembershipInv, InvitesOK
      <3> QED
        BY <3>1, <3>2
    <2>2. CASE M!Mail(t)
      <3> DEFINE x == [invites[i] EXCEPT !.sent = TRUE]
      <3>1. x \in InviteRecords /\ InviteOK(x, MembersOf(account))
        BY <1>3 DEF InviteRecords, InviteOK, Grants, Agree
      <3>2. invites' = [invites EXCEPT ![i] = x]
        BY <1>2, <2>2 DEF M!Mail
      <3> QED
        BY <3>1, <3>2
    <2>3. CASE M!Rollback(t) \/ M!RevokeWrite(t)
      <3>1. PICK s \in {"DELETED", "REVOKED"} :
                invites' = [invites EXCEPT ![i].status = s]
        BY <1>2, <2>3 DEF M!Rollback, M!RevokeWrite
      <3> DEFINE x == [invites[i] EXCEPT !.status = s]
      <3>2. x \in InviteRecords /\ InviteOK(x, MembersOf(account))
        BY <1>3 DEF InviteRecords, M!InviteStatuses, InviteOK, Grants, Agree
      <3>3. invites' = [invites EXCEPT ![i] = x]
        BY <3>1
      <3> QED
        BY <3>2, <3>3
    <2> QED
      BY <2>1, <2>2, <2>3
  <1>5. PICK k \in TaskRecords : Moved(t, k) /\ Knows(k, MembersOf(account), Len(invites))
    <2>1. CASE M!Renew(t)
      <3>1. PICK k \in TaskRecords : k.pc = "remail" /\ k.i = i /\ Moved(t, k)
        BY <1>2, <2>1, Onward DEF M!Renew, Pcs, InvitePcs
      <3> QED
        BY <3>1 DEF Knows, UserPcs, GrantPcs
    <2>2. CASE M!Return(t)
      BY <2>2, Returned
    <2> QED
      BY <2>1, <2>2 DEF M!Mail, M!Rollback, M!RevokeWrite
  <1>6. M!OnlyInvites
    BY DEF M!Renew, M!Mail, M!Rollback, M!RevokeWrite
  <1> QED
    BY <1>4, <1>5, <1>6, InviteMoves

LEMMA MailFailsKeeps ==
    ASSUME MembershipInv, NEW t \in Tasks, M!MailFails(t)
    PROVE  MembershipInv'
  <1>1. CASE M!Goto(t, "rollback")
    <2>1. memberTask[t].i \in 1 .. Len(invites)
      BY CallIs DEF M!MailFails, M!At, Knows, InvitePcs
    <2>2. PICK k \in TaskRecords : k.pc = "rollback" /\ k.i = memberTask[t].i /\ Moved(t, k)
      BY <1>1, Onward DEF Pcs, InvitePcs
    <2>3. Knows(k, MembersOf(account), Len(invites))
      BY <2>1, <2>2 DEF Knows, UserPcs, GrantPcs
    <2> QED
      BY <2>2, <2>3, OnlyCallMoves DEF M!MailFails
  <1>2. CASE M!Return(t)
    BY <1>2, ReturnKeeps DEF M!MailFails
  <1> QED
    BY <1>1, <1>2 DEF M!MailFails

\* The row as its invitation is accepted by a member.
LEMMA AcceptedRow ==
    ASSUME MembershipInv, NEW i \in 1 .. Len(invites), NEW u \in Members,
           NEW members, InvitesOK(invites, members), u \in members
    PROVE  LET x == [invites[i] EXCEPT !.status = "ACCEPTED", !.user = u]
           IN  x \in InviteRecords /\ InviteOK(x, members)
  <1>1. invites[i] \in InviteRecords /\ InviteOK(invites[i], members)
    BY DEF InvitesOK
  <1> QED
    BY <1>1 DEF InviteRecords, M!InviteStatuses, InviteOK, Grants, Agree

LEMMA JoinedStaffKeeps ==
    ASSUME MembershipInv, NEW t \in Tasks, M!JoinedStaff(t)
    PROVE  MembershipInv'
  <1>1. memberTask[t].pc = "accepted" /\ M!Accepted(t) /\ M!Return(t) /\ M!OnlyInvites
    BY DEF M!JoinedStaff, M!At
  <1>2. PICK i \in 1 .. Len(invites) : i = memberTask[t].i
    BY <1>1, CallIs DEF Knows, InvitePcs
  <1>3. PICK u \in Members : u = memberTask[t].u /\ u \in MembersOf(account)
    BY <1>1, CallIs DEF Knows, UserPcs
  <1>4. InvitesOK(invites, MembersOf(account)) /\ invites \in Seq(InviteRecords)
    BY DEF MembershipInv, InvitesOK
  <1> DEFINE x == [invites[i] EXCEPT !.status = "ACCEPTED", !.user = u]
  <1>5. x \in InviteRecords /\ InviteOK(x, MembersOf(account))
    BY <1>3, <1>4, AcceptedRow
  <1>6. invites' = [invites EXCEPT ![i] = x]
    BY <1>1, <1>2, <1>3, <1>4 DEF M!Accepted
  <1>7. PICK k \in TaskRecords : Moved(t, k) /\ Knows(k, MembersOf(account), Len(invites))
    BY <1>1, Returned
  <1> HIDE DEF x
  <1> QED
    BY <1>1, <1>5, <1>6, <1>7, InviteMoves

-----------------------------------------------------------------------------
(* Actions that write an account.                                          *)

\* The account is written and no invitation, and the call goes on or ends.
LEMMA AccountStepKeeps ==
    ASSUME MembershipInv, NEW t \in Tasks, NEW u \in Members, NEW x \in AccountRecords,
           account' = [account EXCEPT ![u] = x], invites' = invites, businesses' \in Nat,
           Agree(x), x.role = "NONE" => account[u].role = "NONE",
           NEW k \in TaskRecords, Moved(t, k), Knows(k, MembersOf(account'), Len(invites))
    PROVE  MembershipInv'
  <1>1. /\ AccountsOK(account') /\ MembersOf(account) \subseteq MembersOf(account')
        /\ InvitesOK(invites, MembersOf(account'))
    BY AccountMoves
  <1>2. Len(invites) \in Nat /\ Len(invites) <= Len(invites)
    BY CallIs
  <1>3. TasksOK(memberTask', MembersOf(account'), Len(invites))
    BY <1>1, <1>2, TasksMove
  <1> QED
    BY <1>1, <1>3, InvNext

\* The account that a call makes for its user.
LEMMA JoinedIs ==
    ASSUME MembershipInv, NEW t \in Tasks, memberTask[t].pc \in {"join", "signup"}
    PROVE  /\ M!Joined(t) \in AccountRecords /\ Agree(M!Joined(t))
           /\ M!Joined(t).role # "NONE" /\ memberTask[t].u \in Members
  <1>1. /\ memberTask[t] \in TaskRecords /\ Grants(memberTask[t]) /\ memberTask[t].email \in Emails
        /\ memberTask[t].u \in Members
    BY CallIs DEF Knows, GrantPcs, UserPcs
  <1>2. PICK r \in M!Roles, b \in Nat, e \in Emails :
            r = memberTask[t].role /\ b = memberTask[t].business /\ e = memberTask[t].email
    BY <1>1 DEF TaskRecords
  <1>3. M!Joined(t) = [M!NoAccount EXCEPT !.role = r, !.business = b, !.email = e]
    BY <1>2 DEF M!Joined
  <1>4. /\ M!Joined(t) \in AccountRecords
        /\ M!Joined(t).role = r /\ M!Joined(t).business = b
    BY <1>3 DEF M!NoAccount, AccountRecords
  <1> QED
    BY <1>1, <1>2, <1>4 DEF Grants, Agree

LEMMA JoinTeamKeeps ==
    ASSUME MembershipInv, NEW t \in Tasks, M!JoinTeam(t)
    PROVE  MembershipInv'
  <1>1. memberTask[t].pc = "join" /\ M!Accepted(t) /\ M!Return(t) /\ businesses' = businesses
    BY DEF M!JoinTeam, M!CanJoin, M!At
  <1>2. PICK i \in 1 .. Len(invites) : i = memberTask[t].i
    BY <1>1, CallIs DEF Knows, InvitePcs
  <1>3. PICK u \in Members, x \in AccountRecords :
            u = memberTask[t].u /\ x = M!Joined(t) /\ Agree(x) /\ x.role # "NONE"
    BY <1>1, JoinedIs
  <1>4. account' = [account EXCEPT ![u] = x]
    BY <1>3 DEF M!JoinTeam
  <1>5. /\ AccountsOK(account') /\ MembersOf(account) \subseteq MembersOf(account')
        /\ u \in MembersOf(account') /\ InvitesOK(invites, MembersOf(account'))
    BY <1>3, <1>4, AccountMoves
  <1> DEFINE y == [invites[i] EXCEPT !.status = "ACCEPTED", !.user = u]
  <1>6. y \in InviteRecords /\ InviteOK(y, MembersOf(account'))
    BY <1>5, AcceptedRow
  <1>7. invites' = [invites EXCEPT ![i] = y]
    BY <1>1, <1>2, <1>3, <1>5 DEF M!Accepted, InvitesOK
  <1> HIDE DEF y
  <1>8. InvitesOK(invites', MembersOf(account')) /\ Len(invites') = Len(invites)
    BY ZenonT(60), <1>5, <1>6, <1>7, InviteWritten
  <1>9. PICK k \in TaskRecords : Moved(t, k) /\ Knows(k, MembersOf(account'), Len(invites))
    BY <1>1, Returned
  <1>10. Len(invites) \in Nat /\ Len(invites) <= Len(invites)
    BY CallIs
  <1>11. TasksOK(memberTask', MembersOf(account'), Len(invites))
    BY <1>5, <1>9, <1>10, TasksMove
  <1> QED
    BY <1>1, <1>5, <1>8, <1>11, InvNext DEF MembershipInv

LEMMA JoinStaffKeeps ==
    ASSUME MembershipInv, NEW t \in Tasks, M!JoinStaff(t)
    PROVE  MembershipInv'
  <1>1. /\ memberTask[t].pc = "join" /\ M!Goto(t, "accepted")
        /\ invites' = invites /\ businesses' = businesses
    BY DEF M!JoinStaff, M!CanJoin, M!At
  <1>2. PICK u \in Members, x \in AccountRecords :
            u = memberTask[t].u /\ x = M!Joined(t) /\ Agree(x) /\ x.role # "NONE"
    BY <1>1, JoinedIs
  <1>3. account' = [account EXCEPT ![u] = x]
    BY <1>2 DEF M!JoinStaff
  <1>4. u \in MembersOf(account')
    BY <1>2, <1>3, AccountMoves
  <1>5. PICK k \in TaskRecords :
            k.pc = "accepted" /\ k.u = u /\ k.i = memberTask[t].i /\ Moved(t, k)
    BY <1>1, <1>2, Onward DEF Pcs, InvitePcs
  <1>6. Knows(k, MembersOf(account'), Len(invites))
    BY <1>1, <1>2, <1>4, <1>5, CallIs DEF Knows, InvitePcs, GrantPcs
  <1> QED
    BY <1>1, <1>2, <1>3, <1>5, <1>6, AccountStepKeeps DEF MembershipInv

LEMMA SignupUserKeeps ==
    ASSUME MembershipInv, NEW t \in Tasks, M!SignupUser(t)
    PROVE  MembershipInv'
  <1>1. /\ memberTask[t].pc = "signup" /\ M!Goto(t, "identity")
        /\ invites' = invites /\ businesses' = businesses
    BY DEF M!SignupUser, M!At
  <1>2. PICK u \in Members, x \in AccountRecords :
            u = memberTask[t].u /\ x = M!Joined(t) /\ Agree(x) /\ x.role # "NONE"
    BY <1>1, JoinedIs
  <1>3. account' = [account EXCEPT ![u] = x]
    BY <1>2 DEF M!SignupUser
  <1>4. PICK k \in TaskRecords : k.pc = "identity" /\ k.u = u /\ Moved(t, k)
    BY <1>1, <1>2, Onward DEF Pcs, UserPcs
  <1>5. Knows(k, MembersOf(account'), Len(invites))
    BY <1>4 DEF Knows, InvitePcs, GrantPcs
  <1> QED
    BY <1>1, <1>2, <1>3, <1>4, <1>5, AccountStepKeeps DEF MembershipInv

\* Founding a company, leaving one, and the two writes of an address.
LEMMA AccountEditKeeps ==
    ASSUME MembershipInv, NEW t \in Tasks,
           M!Found(t) \/ M!RemoveWrite(t) \/ M!ChangeWrite(t) \/ M!ConfirmWrite(t)
    PROVE  MembershipInv'
  <1>1. memberTask[t].pc \in {"found", "remove", "change", "confirm"}
    BY DEF M!Found, M!RemoveWrite, M!ChangeWrite, M!ConfirmWrite, M!At
  <1>2. PICK u \in Members : u = memberTask[t].u
    BY <1>1, CallIs DEF Knows, UserPcs
  <1>3. account[u] \in AccountRecords /\ Agree(account[u]) /\ businesses \in Nat
    BY DEF MembershipInv, AccountsOK
  <1>4. PICK e \in Emails \cup {None} : e = memberTask[t].email
    BY CallIs DEF TaskRecords
  <1>5. PICK x \in AccountRecords :
            /\ Agree(x) /\ (x.role = "NONE" => account[u].role = "NONE")
            /\ account' = [account EXCEPT ![u] = x]
    <2>1. CASE M!Found(t)
      <3>0. PICK b \in Nat : b = businesses + 1 /\ b # 0
        BY <1>3
      <3> DEFINE x == [account[u] EXCEPT !.role = "BUSINESS_ADMIN", !.business = b]
      <3>1. x \in AccountRecords /\ Agree(x) /\ x.role # "NONE"
        BY <1>3, <3>0 DEF AccountRecords, Agree, M!Roles, M!TeamRoles
      <3>2. account' = [account EXCEPT ![u] = x]
        BY <1>2, <1>3, <2>1, <3>0 DEF M!Found, MembershipInv, AccountsOK
      <3> QED
        BY <3>1, <3>2
    <2>2. CASE M!RemoveWrite(t)
      <3> DEFINE x == [account[u] EXCEPT !.business = 0, !.role = "RIDER"]
      <3>1. x \in AccountRecords /\ Agree(x) /\ x.role # "NONE"
        BY <1>3 DEF AccountRecords, Agree, M!Roles, M!TeamRoles
      <3>2. account' = [account EXCEPT ![u] = x]
        BY <1>2, <2>2 DEF M!RemoveWrite, M!Removed, MembershipInv, AccountsOK
      <3> QED
        BY <3>1, <3>2
    <2>3. CASE M!ChangeWrite(t)
      <3> DEFINE x == [account[u] EXCEPT !.pending = e]
      <3>1. x \in AccountRecords /\ Agree(x) /\ x.role = account[u].role
        BY <1>3 DEF AccountRecords, Agree
      <3>2. account' = [account EXCEPT ![u] = x]
        BY <1>2, <1>4, <2>3 DEF M!ChangeWrite
      <3> QED
        BY <3>1, <3>2
    <2>4. CASE M!ConfirmWrite(t)
      <3> DEFINE x == [account[u] EXCEPT !.email = e, !.pending = None]
      <3>1. x \in AccountRecords /\ Agree(x) /\ x.role = account[u].role
        BY <1>3 DEF AccountRecords, Agree
      <3>2. account' = [account EXCEPT ![u] = x]
        BY <1>2, <1>4, <2>4 DEF M!ConfirmWrite, MembershipInv, AccountsOK
      <3> QED
        BY <3>1, <3>2
    <2> QED
      BY <2>1, <2>2, <2>3, <2>4
  <1>6. PICK k \in TaskRecords : Moved(t, k) /\ Knows(k, MembersOf(account'), Len(invites))
    BY Returned DEF M!Found, M!RemoveWrite, M!ChangeWrite, M!ConfirmWrite
  <1>7. invites' = invites /\ businesses' \in Nat
    BY <1>3 DEF M!Found, M!RemoveWrite, M!ChangeWrite, M!ConfirmWrite
  <1> QED
    BY <1>5, <1>6, <1>7, AccountStepKeeps

LEMMA RegisterKeeps ==
    ASSUME MembershipInv, NEW t \in Tasks, NEW u \in Members, NEW e \in Emails \cup {None},
           M!Register(t, u, e)
    PROVE  MembershipInv'
  <1> DEFINE x == [M!NoAccount EXCEPT !.role = "RIDER", !.email = e]
  <1>1. x \in AccountRecords /\ Agree(x) /\ x.role # "NONE"
    BY DEF M!NoAccount, AccountRecords, Agree, M!Roles, M!TeamRoles
  <1>2. /\ account' = [account EXCEPT ![u] = x]
        /\ invites' = invites /\ businesses' = businesses /\ memberTask' = memberTask
    BY DEF M!Register
  <1> HIDE DEF x
  <1>3. /\ AccountsOK(account') /\ MembersOf(account) \subseteq MembersOf(account')
        /\ InvitesOK(invites, MembersOf(account'))
    BY <1>1, <1>2, AccountMoves
  <1>4. TasksOK(memberTask, MembersOf(account'), Len(invites))
    BY <1>3 DEF MembershipInv, TasksOK, Knows
  <1> QED
    BY <1>2, <1>3, <1>4, InvNext DEF MembershipInv

\* The provider's identity of an account is another table.
LEMMA IdentifyKeeps ==
    ASSUME MembershipInv, NEW t \in Tasks, M!Identify(t)
    PROVE  MembershipInv'
  <1>1. PICK k \in TaskRecords : Moved(t, k) /\ Knows(k, MembersOf(account), Len(invites))
    BY Returned DEF M!Identify
  <1>2. account' = account /\ invites' = invites /\ businesses' = businesses
    BY DEF M!Identify
  <1>3. Len(invites) \in Nat /\ Len(invites) <= Len(invites)
    BY CallIs
  <1>4. TasksOK(memberTask', MembersOf(account), Len(invites))
    BY <1>1, <1>3, TasksMove
  <1> QED
    BY <1>2, <1>4, InvNext DEF MembershipInv

LEMMA ExpireKeeps ==
    ASSUME MembershipInv, NEW i \in M!Invites, M!Expire(i)
    PROVE  MembershipInv'
  <1>0. i \in 1 .. Len(invites)
    BY DEF M!Invites, MembershipInv, InvitesOK
  <1>1. invites[i] \in InviteRecords /\ InviteOK(invites[i], MembersOf(account))
    BY <1>0, RowIs
  <1> DEFINE x == [invites[i] EXCEPT !.live = FALSE]
  <1>2. x \in InviteRecords /\ InviteOK(x, MembersOf(account))
    BY <1>1 DEF InviteRecords, InviteOK, Grants, Agree
  <1>3. /\ invites' = [invites EXCEPT ![i] = x]
        /\ account' = account /\ businesses' = businesses /\ memberTask' = memberTask
    BY DEF M!Expire
  <1> HIDE DEF x
  <1>4. InvitesOK(invites', MembersOf(account)) /\ Len(invites') = Len(invites)
    BY ZenonT(60), <1>0, <1>2, <1>3, InviteWritten DEF MembershipInv
  <1> QED
    BY <1>3, <1>4, InvNext DEF MembershipInv

-----------------------------------------------------------------------------
LEMMA MembershipInit == Init => MembershipInv
  <1> SUFFICES ASSUME M!Init PROVE MembershipInv
    BY DEF Init
  <1>1. AccountsOK(account)
    <2>1. M!NoAccount \in AccountRecords /\ Agree(M!NoAccount)
      BY DEF M!NoAccount, AccountRecords, Agree, M!Roles, M!TeamRoles
    <2> QED
      BY <2>1 DEF M!Init, AccountsOK
  <1>2. InvitesOK(invites, MembersOf(account)) /\ businesses \in Nat
    BY DEF M!Init, InvitesOK
  <1>3. TasksOK(memberTask, MembersOf(account), Len(invites))
    BY IdleKnows DEF M!Init, TasksOK
  <1> QED
    BY <1>1, <1>2, <1>3 DEF MembershipInv

LEMMA MembershipNext ==
    ASSUME MembershipInv, [Next]_vars
    PROVE  MembershipInv'
  <1>1. ASSUME NEW t \in Tasks, M!InviteSteps(t) PROVE MembershipInv'
    BY <1>1, InviteWriteKeeps, InviteEditKeeps, MailFailsKeeps, JoinTeamKeeps, JoinStaffKeeps,
       JoinedStaffKeeps DEF M!InviteSteps
  <1>2. ASSUME NEW t \in Tasks, M!AccountSteps(t) PROVE MembershipInv'
    BY <1>2, AccountEditKeeps, SignupUserKeeps, IdentifyKeeps DEF M!AccountSteps
  <1>3. ASSUME NEW t \in Tasks, M!Throw(t) PROVE MembershipInv'
    BY <1>3, ReturnKeeps DEF M!Throw
  <1>4. ASSUME NEW t \in Tasks,
               \/ \E e \in Emails : M!CreateInvite(t, e)
               \/ \E a \in Members, e \in Emails, r \in M!TeamRoles : M!InviteTeamMember(t, a, e, r)
               \/ \E i \in M!Invites :
                     \/ M!Resend(t, i) \/ M!Revoke(t, i)
                     \/ \E u \in Members : M!Accept(t, i, u)
        PROVE  MembershipInv'
    BY <1>4, InviteCallsKeep
  <1>5. ASSUME NEW t \in Tasks,
               \/ \E u \in Members : M!CreateBusiness(t, u) \/ M!SocialLink(t, u) \/ M!Confirm(t, u)
               \/ \E a, u \in Members : M!RemoveTeamMember(t, a, u)
               \/ \E u \in Members, e \in Emails :
                     M!SocialSignup(t, u, e) \/ M!RequestChange(t, u, e)
        PROVE  MembershipInv'
    BY <1>5, AccountCallsKeep
  <1>6. ASSUME NEW t \in Tasks, NEW u \in Members, NEW e \in Emails \cup {None}, M!Register(t, u, e)
        PROVE  MembershipInv'
    BY <1>6, RegisterKeeps
  <1>7. ASSUME NEW i \in M!Invites, M!Expire(i) PROVE MembershipInv'
    BY <1>7, ExpireKeeps
  <1>8. CASE UNCHANGED memberVars
    BY <1>8, InvNext DEF memberVars, MembershipInv
  <1>9. CASE M!Next
    BY <1>1, <1>2, <1>3, <1>4, <1>5, <1>6, <1>7, <1>9 DEF M!Next
  <1> QED
    BY <1>8, <1>9 DEF Next, SessionsStep, MembershipStep, OnboardingStep, vars

LEMMA MembershipAlways == Spec => []MembershipInv
  BY MembershipInit, MembershipNext, PTL DEF Spec

\* Whatever calls overlap or fail midway, an account has a company exactly when
\* it has a role in one, and the account that an accepted invitation names
\* exists (createBusiness, removeTeamMember, acceptInvite).
THEOREM RolesAndCompanies == Spec => []MembersHaveRoles
  <1>1. MembershipInv => MembersHaveRoles
    BY AccountsAssumption
       DEF M!MembershipAssumption, MembershipInv, AccountsOK, InvitesOK, InviteOK, MembersOf,
           Agree, M!Invites, M!Registered, M!MembersHaveRoles, MembersHaveRoles
  <1> QED
    BY <1>1, MembershipAlways, PTL
-----------------------------------------------------------------------------
(* What a driver submits.                                                  *)

Verdicts == {"APPROVED", "REJECTED"}
DocumentRows == [type : DocumentTypes \cup O!Verifications, status : {"PENDING"} \cup Verdicts]

DocumentsOK == documents \in Seq(DocumentRows)

LEMMA SubmitKeeps ==
    ASSUME DocumentsOK, NEW type \in DocumentTypes \cup O!Verifications, O!Submit(type)
    PROVE  DocumentsOK'
  <1> DEFINE row == [type |-> type, status |-> "PENDING"]
  <1>1. row \in DocumentRows
    BY DEF DocumentRows
  <1>2. documents' = Append(documents, row)
    BY DEF O!Submit
  <1> HIDE DEF row
  <1>3. documents' \in Seq(DocumentRows)
    BY <1>1, <1>2 DEF DocumentsOK
  <1> QED
    BY <1>3 DEF DocumentsOK

LEMMA ReviewKeeps ==
    ASSUME DocumentsOK, NEW verdict \in Verdicts, O!Review(verdict)
    PROVE  DocumentsOK'
  <1>1. DOMAIN documents = 1 .. Len(documents) /\ Len(documents) \in Nat
    BY DEF DocumentsOK
  <1>2. documents' = [i \in DOMAIN documents |->
                        IF O!UnderReview(i) THEN [documents[i] EXCEPT !.status = verdict]
                                          ELSE documents[i]]
    BY DEF O!Review
  <1>3. ASSUME NEW i \in DOMAIN documents
        PROVE  documents'[i] \in DocumentRows
    <2>1. documents[i] \in DocumentRows
      BY <1>1 DEF DocumentsOK
    <2>2. [documents[i] EXCEPT !.status = verdict] \in DocumentRows
      BY <2>1 DEF DocumentRows
    <2> QED
      BY <1>2, <2>1, <2>2
  <1>4. documents' \in Seq(DocumentRows)
    BY <1>1, <1>2, <1>3
  <1> QED
    BY <1>4 DEF DocumentsOK

LEMMA OthersKeep ==
    ASSUME DocumentsOK, UNCHANGED documents
    PROVE  DocumentsOK'
  BY DEF DocumentsOK

LEMMA NextKeeps ==
    ASSUME DocumentsOK, [Next]_vars
    PROVE  DocumentsOK'
  <1>1. CASE \E type \in DocumentTypes \cup O!Verifications : O!Submit(type)
    BY <1>1, SubmitKeeps
  <1>2. CASE \E verdict \in {"APPROVED", "REJECTED"} : O!Review(verdict)
    BY <1>2, ReviewKeeps DEF Verdicts
  <1>3. ASSUME NEW t \in Tasks,
               \/ O!Invite(t) \/ O!InviteNew(t) \/ O!InviteAgain(t)
               \/ O!GuarantorWrite(t) \/ O!Throw(t)
               \/ \E g \in DOMAIN guarantors :
                     \/ O!SubmitForm(t, g)
                     \/ \E verdict \in {"VERIFIED", "REJECTED"} : O!ReviewGuarantor(t, g, verdict)
        PROVE  UNCHANGED documents
    BY <1>3 DEF O!Invite, O!InviteNew, O!InviteAgain, O!GuarantorWrite, O!Throw,
           O!SubmitForm, O!ReviewGuarantor
  <1>4. ASSUME NEW g \in DOMAIN guarantors, O!LinkExpires(g)
        PROVE  UNCHANGED documents
    BY <1>4 DEF O!LinkExpires
  <1>5. CASE UNCHANGED onboardingVars
    BY <1>5, OthersKeep DEF onboardingVars
  <1>6. CASE O!Next
    BY <1>1, <1>2, <1>3, <1>4, <1>6, OthersKeep DEF O!Next
  <1> QED
    BY <1>5, <1>6 DEF Next, SessionsStep, MembershipStep, OnboardingStep, vars

\* The driver's documents are rows of a known type, whatever is submitted and
\* reviewed at once.
LEMMA DocumentsTyped == Spec => []DocumentsOK
  <1>1. Init => DocumentsOK
    BY DEF Init, O!Init, DocumentsOK
  <1>2. DocumentsOK /\ [Next]_vars => DocumentsOK'
    BY NextKeeps
  <1> QED
    BY <1>1, <1>2, PTL DEF Spec
-----------------------------------------------------------------------------
(* Codes and sessions.  A row keeps its user and its purpose, so what a    *)
(* call found out about one stays true; the operators take the rows and    *)
(* the calls as arguments, so that a lemma can speak of those of the next  *)
(* state.                                                                  *)

SessionPcs == {"idle", "issue", "verify", "right", "wrong", "activate", "open", "change", "reset",
               "rotate", "burn", "suspend"}
UserStatuses == {"NONE", "PENDING_VERIFICATION", "ACTIVE", "SUSPENDED"}
CodeRecords == [u : Users, purpose : S!Purposes, attempts : Nat, consumed : BOOLEAN, uses : Nat]
SessionRecords == [u : Users, live : BOOLEAN]
SessionTasks == [pc : SessionPcs, u : Users \cup {None}, purpose : S!Purposes \cup {"none"},
                 row : Nat, seen : UserStatuses]

IsLink(x) == x.purpose = "PASSWORD_RESET"

\* A link is used once; it and the user's links before it are consumed then,
\* and a consumed link means that one of the user's was used.
LinksOnce(cs) ==
    /\ \A i \in 1 .. Len(cs) : cs[i].uses <= 1
    /\ \A i, j \in 1 .. Len(cs) :
          /\ IsLink(cs[i]) /\ IsLink(cs[j])
          /\ cs[i].uses = 1 /\ cs[j].u = cs[i].u /\ j <= i
          => cs[j].consumed
    /\ \A i \in 1 .. Len(cs) : IsLink(cs[i]) /\ cs[i].consumed =>
          \E j \in 1 .. Len(cs) : IsLink(cs[j]) /\ cs[j].uses = 1 /\ cs[j].u = cs[i].u

CodesOK(cs) == cs \in Seq(CodeRecords) /\ LinksOnce(cs)

\* What a call knows at its next step.
Holds(k, cs) ==
    /\ k.pc # "idle" => k.u \in Users
    /\ k.pc = "issue" => k.purpose \in S!Purposes
    /\ k.pc = "verify" => ~ IsLink(k)
    /\ k.pc \in {"right", "wrong"} => k.row \in 1 .. Len(cs) /\ ~ IsLink(cs[k.row])
    /\ k.pc = "reset" => k.row \in 1 .. Len(cs) /\ IsLink(cs[k.row]) /\ cs[k.row].u = k.u

Guesses(k, c) == k.pc = "wrong" /\ k.row = c
Wrong(calls, c) == {t \in Tasks : Guesses(calls[t], c)}

Bounded(cs, calls) ==
    \A c \in 1 .. Len(cs) :
        cs[c].attempts + Cardinality(Wrong(calls, c)) <= MaxAttempts + Cardinality(Tasks) - 1

CallsOK(cs, calls) ==
    /\ calls \in [Tasks -> SessionTasks]
    /\ \A t \in Tasks : Holds(calls[t], cs)

SessionsInv ==
    /\ status \in [Users -> UserStatuses]
    /\ sessions \in Seq(SessionRecords)
    /\ CodesOK(codes)
    /\ CallsOK(codes, sessionTask)
    /\ Bounded(codes, sessionTask)

-----------------------------------------------------------------------------
(* What a step of one call does to the rows and to the calls.              *)

SameRows(cs, cs2) ==
    /\ Len(cs) <= Len(cs2)
    /\ \A i \in 1 .. Len(cs) : cs2[i].u = cs[i].u /\ cs2[i].purpose = cs[i].purpose

\* The attempts on code c, where the call k0 becomes k.
CountsOn(cs, cs2, k0, k, c) ==
    \/ /\ c \in 1 .. Len(cs) /\ cs2[c].attempts = cs[c].attempts
       /\ Guesses(k, c) => cs[c].attempts < MaxAttempts
    \/ /\ c \in 1 .. Len(cs) /\ cs2[c].attempts = cs[c].attempts + 1
       /\ Guesses(k0, c) /\ ~ Guesses(k, c)
    \/ cs2[c].attempts = 0

LEMMA HoldsOn ==
    ASSUME NEW k, NEW cs \in Seq(CodeRecords), NEW cs2 \in Seq(CodeRecords),
           SameRows(cs, cs2), Holds(k, cs)
    PROVE  Holds(k, cs2)
  <1>1. Len(cs) \in Nat /\ Len(cs2) \in Nat
    OBVIOUS
  <1>2. \A i \in 1 .. Len(cs) : i \in 1 .. Len(cs2)
    BY <1>1 DEF SameRows
  <1> QED
    BY <1>2 DEF Holds, SameRows, IsLink

\* Sessions has its own copy of the operators of FiniteSets.
LEMMA SameSizes ==
    /\ \A X : S!IsFiniteSet(X) <=> IsFiniteSet(X)
    /\ \A X : S!Cardinality(X) = Cardinality(X)
  <1>1. ASSUME NEW X PROVE S!IsFiniteSet(X) <=> IsFiniteSet(X)
    BY DEF S!IsFiniteSet, IsFiniteSet
  <1>2. ASSUME NEW X PROVE S!Cardinality(X) = Cardinality(X)
    BY DEF S!Cardinality, Cardinality
  <1> QED
    BY <1>1, <1>2

LEMMA TasksFinite ==
    /\ IsFiniteSet(Tasks)
    /\ Cardinality(Tasks) \in Nat
    /\ MaxAttempts \in Nat /\ MaxAttempts >= 1
    /\ \A U : U \subseteq Tasks =>
          /\ IsFiniteSet(U)
          /\ Cardinality(U) \in Nat
          /\ Cardinality(U) <= Cardinality(Tasks)
  <1>1. IsFiniteSet(Tasks) /\ MaxAttempts \in Nat \ {0}
    BY AccountsAssumption, SameSizes DEF S!SessionsAssumption
  <1>2. Cardinality(Tasks) \in Nat
    BY <1>1, FS_CardinalityType
  <1>3. ASSUME NEW U, U \subseteq Tasks
        PROVE  /\ IsFiniteSet(U)
               /\ Cardinality(U) \in Nat
               /\ Cardinality(U) <= Cardinality(Tasks)
    <2>1. IsFiniteSet(U) /\ Cardinality(U) <= Cardinality(Tasks)
      BY <1>1, <1>3, FS_Subset
    <2> QED
      BY <2>1, FS_CardinalityType
  <1> QED
    BY <1>1, <1>2, <1>3

LEMMA BoundedOn ==
    ASSUME NEW cs \in Seq(CodeRecords), NEW cs2 \in Seq(CodeRecords),
           NEW calls \in [Tasks -> SessionTasks], Bounded(cs, calls),
           NEW t \in Tasks, NEW k \in SessionTasks,
           \A c \in 1 .. Len(cs2) : CountsOn(cs, cs2, calls[t], k, c)
    PROVE  Bounded(cs2, [calls EXCEPT ![t] = k])
  <1> DEFINE calls2 == [calls EXCEPT ![t] = k]
  <1> SUFFICES ASSUME NEW c \in 1 .. Len(cs2)
               PROVE  cs2[c].attempts + Cardinality(Wrong(calls2, c))
                          <= MaxAttempts + Cardinality(Tasks) - 1
    BY DEF Bounded
  <1>1. CountsOn(cs, cs2, calls[t], k, c)
    OBVIOUS
  <1>2. \A s \in Tasks : calls2[s] = IF s = t THEN k ELSE calls[s]
    OBVIOUS
  <1> HIDE DEF calls2
  <1>3. PICK old \in SUBSET Tasks : old = Wrong(calls, c)
    BY DEF Wrong
  <1>4. PICK new \in SUBSET Tasks : new = Wrong(calls2, c)
    BY DEF Wrong
  <1>5. PICK n \in Nat : n = Cardinality(Tasks)
    BY TasksFinite
  <1>6. PICK o \in Nat : o = Cardinality(old) /\ o <= n /\ IsFiniteSet(old)
    BY <1>5, TasksFinite
  <1>7. PICK w \in Nat : w = Cardinality(new) /\ w <= n /\ IsFiniteSet(new)
    BY <1>5, TasksFinite
  <1>8. MaxAttempts \in Nat /\ MaxAttempts >= 1
    BY TasksFinite
  <1>9. ~ Guesses(k, c) => new = old \ {t}
    BY <1>2, <1>3, <1>4 DEF Wrong
  <1>10. Cardinality(old \ {t}) = IF t \in old THEN o - 1 ELSE o
    BY <1>6, FS_RemoveElement
  <1>11. t \in old <=> Guesses(calls[t], c)
    BY <1>3 DEF Wrong
  <1>12. ASSUME c \in 1 .. Len(cs)
         PROVE  cs[c].attempts \in Nat /\ cs[c].attempts + o <= MaxAttempts + n - 1
    <2>1. cs[c] \in CodeRecords
      BY <1>12
    <2>2. cs[c].attempts \in Nat
      BY <2>1 DEF CodeRecords
    <2>3. cs[c].attempts + Cardinality(Wrong(calls, c)) <= MaxAttempts + Cardinality(Tasks) - 1
      BY <1>12 DEF Bounded
    <2> QED
      BY <1>3, <1>5, <1>6, <2>2, <2>3
  <1>13. cs2[c].attempts + w <= MaxAttempts + n - 1
    <2>1. CASE /\ c \in 1 .. Len(cs) /\ cs2[c].attempts = cs[c].attempts
               /\ Guesses(k, c) /\ cs[c].attempts < MaxAttempts
      BY <1>7, <1>8, <1>12, <2>1
    <2>2. CASE /\ c \in 1 .. Len(cs) /\ cs2[c].attempts = cs[c].attempts
               /\ ~ Guesses(k, c)
      <3>1. Cardinality(old \ {t}) <= o
        BY <1>6, <1>10
      <3>2. w <= o
        BY <1>7, <1>9, <2>2, <3>1
      <3> QED
        BY SMTT(40), <1>5, <1>6, <1>7, <1>8, <1>12, <2>2, <3>2
    <2>3. CASE /\ c \in 1 .. Len(cs) /\ cs2[c].attempts = cs[c].attempts + 1
               /\ Guesses(calls[t], c) /\ ~ Guesses(k, c)
      <3>1. w = o - 1
        BY <1>6, <1>7, <1>9, <1>10, <1>11, <2>3
      <3> QED
        BY <1>8, <1>12, <2>3, <3>1
    <2>4. CASE cs2[c].attempts = 0
      BY <1>7, <1>8, <2>4
    <2> QED
      BY <1>1, <2>1, <2>2, <2>3, <2>4 DEF CountsOn
  <1> QED
    BY <1>4, <1>5, <1>7, <1>13

LEMMA CallsOn ==
    ASSUME NEW cs \in Seq(CodeRecords), NEW cs2 \in Seq(CodeRecords), SameRows(cs, cs2),
           NEW calls, CallsOK(cs, calls),
           NEW t \in Tasks, NEW k \in SessionTasks, Holds(k, cs2)
    PROVE  CallsOK(cs2, [calls EXCEPT ![t] = k])
  <1> DEFINE calls2 == [calls EXCEPT ![t] = k]
  <1>1. calls2 \in [Tasks -> SessionTasks]
    BY DEF CallsOK
  <1>2. ASSUME NEW s \in Tasks PROVE Holds(calls2[s], cs2)
    <2>1. CASE s = t
      BY <2>1 DEF CallsOK
    <2>2. CASE s # t
      <3>1. calls2[s] = calls[s] /\ Holds(calls[s], cs)
        BY <2>2 DEF CallsOK
      <3> HIDE DEF calls2
      <3> QED
        BY <3>1, HoldsOn
    <2> QED
      BY <2>1, <2>2
  <1> QED
    BY <1>1, <1>2 DEF CallsOK

Becomes(t, k) == sessionTask' = [sessionTask EXCEPT ![t] = k]

\* The rows as an action leaves them, and what its call becomes.
LEMMA StepKeeps ==
    ASSUME SessionsInv, NEW cs, codes' = cs, CodesOK(cs), SameRows(codes, cs),
           status' \in [Users -> UserStatuses], sessions' \in Seq(SessionRecords),
           NEW t \in Tasks, NEW k \in SessionTasks, Becomes(t, k), Holds(k, cs),
           \A c \in 1 .. Len(cs) : CountsOn(codes, cs, sessionTask[t], k, c)
    PROVE  SessionsInv'
  <1>1. codes \in Seq(CodeRecords) /\ cs \in Seq(CodeRecords)
    BY DEF SessionsInv, CodesOK
  <1>2. CallsOK(cs, sessionTask')
    BY <1>1, CallsOn DEF SessionsInv, Becomes
  <1>3. Bounded(cs, sessionTask')
    BY <1>1, BoundedOn DEF SessionsInv, Becomes, CallsOK
  <1> QED
    BY <1>2, <1>3 DEF SessionsInv, CodesOK, LinksOnce, IsLink, CallsOK, Holds, Bounded,
                      Wrong, Guesses

LEMMA SameCodesKeep ==
    ASSUME SessionsInv, codes' = codes,
           status' \in [Users -> UserStatuses], sessions' \in Seq(SessionRecords),
           NEW t \in Tasks, NEW k \in SessionTasks, Becomes(t, k), Holds(k, codes),
           k.pc # "wrong"
    PROVE  SessionsInv'
  <1>1. CodesOK(codes) /\ SameRows(codes, codes)
    BY DEF SessionsInv, CodesOK, SameRows
  <1>2. \A c \in 1 .. Len(codes) : CountsOn(codes, codes, sessionTask[t], k, c)
    BY DEF CountsOn, Guesses
  <1> QED
    BY <1>1, <1>2, StepKeeps

LEMMA SameTasksKeep ==
    ASSUME SessionsInv, codes' = codes, sessionTask' = sessionTask,
           status' \in [Users -> UserStatuses], sessions' \in Seq(SessionRecords)
    PROVE  SessionsInv'
  BY DEF SessionsInv, CodesOK, LinksOnce, IsLink, CallsOK, Holds, Bounded, Wrong, Guesses

\* What the call of an action is.
LEMMA SessionCallIs ==
    ASSUME SessionsInv, NEW t \in Tasks
    PROVE  sessionTask[t] \in SessionTasks /\ Holds(sessionTask[t], codes)
  BY DEF SessionsInv, CallsOK

LEMMA SessionIdle == S!Idle \in SessionTasks /\ S!Idle.pc = "idle"
  BY DEF S!Idle, SessionTasks, SessionPcs, UserStatuses

LEMMA SessionEnds ==
    ASSUME SessionsInv, codes' = codes, NEW t \in Tasks, S!Return(t),
           status' \in [Users -> UserStatuses], sessions' \in Seq(SessionRecords)
    PROVE  SessionsInv'
  <1>1. Becomes(t, S!Idle)
    BY DEF S!Return, Becomes
  <1>2. Holds(S!Idle, codes)
    BY SessionIdle DEF Holds
  <1> QED
    BY <1>1, <1>2, SessionIdle, SameCodesKeep

LEMMA SessionBegins ==
    ASSUME SessionsInv, codes' = codes,
           status' \in [Users -> UserStatuses], sessions' \in Seq(SessionRecords),
           NEW t \in Tasks, NEW u \in Users, NEW purpose \in S!Purposes \cup {"none"},
           NEW row \in Nat,
           NEW pc \in SessionPcs \ {"idle", "right", "wrong"},
           S!Call(t, pc, u, purpose, row),
           pc = "issue" => purpose \in S!Purposes,
           pc = "verify" => purpose # "PASSWORD_RESET",
           pc = "reset" => row \in 1 .. Len(codes) /\ IsLink(codes[row]) /\ codes[row].u = u
    PROVE  SessionsInv'
  <1>1. None \notin Users /\ status[u] \in UserStatuses
    BY AccountsAssumption DEF S!SessionsAssumption, SessionsInv
  <1>2. PICK k \in SessionTasks :
            k.pc = pc /\ k.u = u /\ k.purpose = purpose /\ k.row = row /\ Becomes(t, k)
    <2> DEFINE k == [pc |-> pc, u |-> u, purpose |-> purpose, row |-> row, seen |-> status[u]]
    <2>1. k \in SessionTasks
      BY <1>1 DEF SessionTasks
    <2>2. /\ k.pc = pc /\ k.u = u /\ k.purpose = purpose /\ k.row = row
          /\ Becomes(t, k)
      BY <1>1 DEF S!Call, Becomes
    <2> QED
      BY <2>1, <2>2
  <1>3. Holds(k, codes)
    BY <1>2 DEF Holds, IsLink
  <1> QED
    BY <1>2, <1>3, SameCodesKeep

LEMMA SessionGoes ==
    ASSUME SessionsInv, NEW t \in Tasks, NEW pc \in SessionPcs, S!Goto(t, pc)
    PROVE  \E k \in SessionTasks :
               /\ k.pc = pc /\ k.u = sessionTask[t].u /\ k.purpose = sessionTask[t].purpose
               /\ k.row = sessionTask[t].row /\ Becomes(t, k)
  <1> DEFINE k == [sessionTask[t] EXCEPT !.pc = pc]
  <1>1. /\ k \in SessionTasks
        /\ k.pc = pc /\ k.u = sessionTask[t].u /\ k.purpose = sessionTask[t].purpose
        /\ k.row = sessionTask[t].row
    BY SessionCallIs DEF SessionTasks
  <1>2. Becomes(t, k)
    BY DEF S!Goto, Becomes
  <1> QED
    BY <1>1, <1>2

LEMMA RevokedTyped ==
    ASSUME SessionsInv, NEW u, NEW kept
    PROVE  S!Revoked(u, kept) \in Seq(SessionRecords)
  <1>1. /\ sessions \in Seq(SessionRecords)
        /\ DOMAIN sessions = 1 .. Len(sessions) /\ Len(sessions) \in Nat
    BY DEF SessionsInv
  <1>2. \A x \in SessionRecords : [x EXCEPT !.live = FALSE] \in SessionRecords
    BY DEF SessionRecords
  <1>3. \A s \in 1 .. Len(sessions) : sessions[s] \in SessionRecords
    BY <1>1
  <1>4. S!Revoked(u, kept) \in [1 .. Len(sessions) -> SessionRecords]
    BY <1>1, <1>2, <1>3 DEF S!Revoked
  <1> QED
    BY <1>1, <1>4

-----------------------------------------------------------------------------
(* Actions that leave the codes alone.                                     *)

LEMMA CodesAre ==
    ASSUME SessionsInv
    PROVE  /\ codes \in Seq(CodeRecords) /\ Len(codes) \in Nat
           /\ S!Codes = 1 .. Len(codes)
           /\ S!Links = {c \in 1 .. Len(codes) : IsLink(codes[c])}
           /\ \A c \in 1 .. Len(codes) : codes[c] \in CodeRecords
           /\ DOMAIN sessions = 1 .. Len(sessions) /\ Len(sessions) \in Nat
           /\ \A s \in 1 .. Len(sessions) : sessions[s] \in SessionRecords
           /\ status \in [Users -> UserStatuses] /\ sessions \in Seq(SessionRecords)
  BY DEF SessionsInv, CodesOK, S!Codes, S!Links, IsLink

LEMMA CallsBegin ==
    ASSUME SessionsInv, NEW t \in Tasks, NEW u \in Users,
           \/ S!Register(t, u) \/ S!ForgotPassword(t, u) \/ S!Login(t, u) \/ S!SuspendStaff(t, u)
           \/ \E p \in {"REGISTRATION", "LOGIN"} : S!SendOtp(t, u, p) \/ S!Verify(t, u, p)
           \/ \E s \in DOMAIN sessions : sessions[s].u = u /\ S!ChangePassword(t, u, s)
    PROVE  SessionsInv'
  <1>1. status \in [Users -> UserStatuses] /\ sessions \in Seq(SessionRecords)
    BY CodesAre
  <1> USE DEF SessionPcs, S!Purposes
  <1>2. CASE S!Register(t, u)
    <2>1. status' = [status EXCEPT ![u] = "PENDING_VERIFICATION"]
      BY <1>2 DEF S!Register
    <2>2. status' \in [Users -> UserStatuses]
      BY <1>1, <2>1 DEF UserStatuses
    <2>3. S!Call(t, "issue", u, "REGISTRATION", 0) /\ codes' = codes /\ sessions' = sessions
      BY <1>2 DEF S!Register
    <2> QED
      BY <1>1, <2>2, <2>3, SessionBegins
  <1>3. CASE S!ForgotPassword(t, u)
    <2>1. S!Call(t, "issue", u, "PASSWORD_RESET", 0) /\ S!OnlyTask
      BY <1>3 DEF S!ForgotPassword
    <2> QED
      BY <1>1, <2>1, SessionBegins DEF S!OnlyTask
  <1>4. CASE S!Login(t, u)
    <2>1. S!Call(t, "open", u, "none", 0) /\ S!OnlyTask
      BY <1>4 DEF S!Login
    <2> QED
      BY <1>1, <2>1, SessionBegins DEF S!OnlyTask
  <1>5. CASE S!SuspendStaff(t, u)
    <2>1. /\ S!Call(t, "suspend", u, "none", 0)
          /\ sessions' = S!Revoked(u, 0) /\ status' = status /\ codes' = codes
      BY <1>5 DEF S!SuspendStaff
    <2>2. sessions' \in Seq(SessionRecords)
      BY <2>1, RevokedTyped
    <2> QED
      BY <1>1, <2>1, <2>2, SessionBegins
  <1>6. ASSUME NEW p \in {"REGISTRATION", "LOGIN"}, S!SendOtp(t, u, p) PROVE SessionsInv'
    <2>1. S!Call(t, "issue", u, p, 0) /\ S!OnlyTask
      BY <1>6 DEF S!SendOtp
    <2> QED
      BY <1>1, <2>1, SessionBegins DEF S!OnlyTask
  <1>7. ASSUME NEW p \in {"REGISTRATION", "LOGIN"}, S!Verify(t, u, p) PROVE SessionsInv'
    <2>1. S!Call(t, "verify", u, p, 0) /\ S!OnlyTask
      BY <1>7 DEF S!Verify
    <2> QED
      BY <1>1, <2>1, SessionBegins DEF S!OnlyTask
  <1>8. ASSUME NEW s \in DOMAIN sessions, S!ChangePassword(t, u, s) PROVE SessionsInv'
    <2>1. S!Call(t, "change", u, "none", s) /\ S!OnlyTask /\ s \in Nat
      BY <1>8, CodesAre DEF S!ChangePassword
    <2> QED
      BY <1>1, <2>1, SessionBegins DEF S!OnlyTask
  <1> QED
    BY <1>2, <1>3, <1>4, <1>5, <1>6, <1>7, <1>8

LEMMA ResetFindKeeps ==
    ASSUME SessionsInv, NEW t \in Tasks, NEW c \in S!Links, S!ResetFind(t, c)
    PROVE  SessionsInv'
  <1>1. c \in 1 .. Len(codes) /\ c \in Nat /\ IsLink(codes[c]) /\ codes[c].u \in Users
    BY CodesAre DEF CodeRecords
  <1>2. S!Call(t, "reset", codes[c].u, "PASSWORD_RESET", c) /\ S!OnlyTask
    BY DEF S!ResetFind
  <1>3. PICK u \in Users : u = codes[c].u
    BY <1>1
  <1>4. status \in [Users -> UserStatuses] /\ sessions \in Seq(SessionRecords)
    BY CodesAre
  <1> QED
    BY <1>1, <1>2, <1>3, <1>4, SessionBegins DEF S!OnlyTask, SessionPcs, S!Purposes

LEMMA RefreshKeeps ==
    ASSUME SessionsInv, NEW t \in Tasks, NEW s \in DOMAIN sessions, S!Refresh(t, s)
    PROVE  SessionsInv'
  <1>1. s \in Nat /\ sessions[s].u \in Users
    BY CodesAre DEF SessionRecords
  <1>2. PICK u \in Users : u = sessions[s].u
    BY <1>1
  <1>3. PICK pc \in {"rotate", "burn"} : S!Call(t, pc, u, "none", s) /\ S!OnlyTask
    BY <1>2 DEF S!Refresh
  <1>4. status \in [Users -> UserStatuses] /\ sessions \in Seq(SessionRecords)
    BY CodesAre
  <1> QED
    BY <1>1, <1>3, <1>4, SessionBegins DEF S!OnlyTask, SessionPcs

LEMMA CallsEnd ==
    ASSUME SessionsInv, NEW t \in Tasks,
           \/ S!Throw(t) \/ S!VerifyRefused(t) \/ S!ResetRefused(t)
           \/ S!ChangeWrite(t) \/ S!Open(t) \/ S!Burn(t) \/ S!SuspendWrite(t)
    PROVE  SessionsInv'
  <1>1. codes' = codes /\ S!Return(t)
    BY DEF S!Throw, S!VerifyRefused, S!ResetRefused, S!ChangeWrite, S!Open, S!Burn,
           S!SuspendWrite, S!OnlyTask
  <1>2. status \in [Users -> UserStatuses] /\ sessions \in Seq(SessionRecords)
    BY CodesAre
  <1>3. status' \in [Users -> UserStatuses]
    BY <1>2 DEF S!Throw, S!VerifyRefused, S!ResetRefused, S!ChangeWrite, S!Open, S!Burn,
           S!SuspendWrite, S!OnlyTask, UserStatuses
  <1>4. sessions' \in Seq(SessionRecords)
    <2>1. CASE S!Throw(t) \/ S!VerifyRefused(t) \/ S!ResetRefused(t) \/ S!SuspendWrite(t)
      BY <1>2, <2>1 DEF S!Throw, S!VerifyRefused, S!ResetRefused, S!SuspendWrite, S!OnlyTask
    <2>2. CASE S!ChangeWrite(t) \/ S!Burn(t)
      BY <2>2, RevokedTyped DEF S!ChangeWrite, S!Burn
    <2>3. CASE S!Open(t)
      <3>1. sessionTask[t].u \in Users
        BY <2>3, SessionCallIs DEF S!Open, S!At, Holds
      <3>2. [u |-> sessionTask[t].u, live |-> TRUE] \in SessionRecords
        BY <3>1 DEF SessionRecords
      <3>3. sessions' = Append(sessions, [u |-> sessionTask[t].u, live |-> TRUE])
        BY <2>3 DEF S!Open
      <3> QED
        BY <1>2, <3>2, <3>3
    <2> QED
      BY <2>1, <2>2, <2>3
  <1> QED
    BY <1>1, <1>3, <1>4, SessionEnds

LEMMA CallsGoOn ==
    ASSUME SessionsInv, NEW t \in Tasks, S!Activate(t) \/ S!Rotate(t)
    PROVE  SessionsInv'
  <1>1. status \in [Users -> UserStatuses] /\ sessions \in Seq(SessionRecords)
    BY CodesAre
  <1>2. codes' = codes /\ S!Goto(t, "open") /\ sessionTask[t].pc \in {"activate", "rotate"}
    BY DEF S!Activate, S!Rotate, S!At
  <1>3. PICK k \in SessionTasks : k.pc = "open" /\ k.u = sessionTask[t].u /\ Becomes(t, k)
    BY <1>2, SessionGoes DEF SessionPcs
  <1>4. k.u \in Users
    BY <1>2, <1>3, SessionCallIs DEF Holds
  <1>5. Holds(k, codes)
    BY <1>3, <1>4 DEF Holds
  <1>6. status' \in [Users -> UserStatuses]
    BY <1>1 DEF S!Activate, S!Rotate, UserStatuses
  <1>7. sessions' \in Seq(SessionRecords)
    <2>1. CASE S!Activate(t)
      BY <1>1, <2>1 DEF S!Activate
    <2>2. CASE S!Rotate(t)
      <3>1. PICK n : sessions' = [sessions EXCEPT ![n].live = FALSE]
        BY <2>2 DEF S!Rotate
      <3>2. \A x \in SessionRecords : [x EXCEPT !.live = FALSE] \in SessionRecords
        BY DEF SessionRecords
      <3>3. /\ DOMAIN sessions = 1 .. Len(sessions) /\ Len(sessions) \in Nat
            /\ \A i \in 1 .. Len(sessions) : sessions[i] \in SessionRecords
        BY CodesAre
      <3>4. sessions' = [i \in 1 .. Len(sessions) |->
                            IF i = n THEN [sessions[i] EXCEPT !.live = FALSE] ELSE sessions[i]]
        BY <3>1, <3>3
      <3>5. sessions' \in [1 .. Len(sessions) -> SessionRecords]
        BY <3>2, <3>3, <3>4
      <3> QED
        BY <3>3, <3>5
    <2> QED
      BY <2>1, <2>2
  <1> QED
    BY <1>2, <1>3, <1>5, <1>6, <1>7, SameCodesKeep

\* Statements of their own: logout, revocations, an administrator's.
LEMMA OthersAlone ==
    ASSUME SessionsInv,
           \/ \E s \in DOMAIN sessions : S!Revoke(s) \/ S!RevokeAllOthers(s)
           \/ \E u \in Users : S!Deprovision(u)
                               \/ \E s \in {"ACTIVE", "SUSPENDED"} : S!SetUserStatus(u, s)
    PROVE  SessionsInv'
  <1>1. status \in [Users -> UserStatuses] /\ sessions \in Seq(SessionRecords)
    BY CodesAre
  <1>2. codes' = codes /\ sessionTask' = sessionTask
    BY DEF S!Revoke, S!RevokeAllOthers, S!Deprovision, S!SetUserStatus
  <1>3. status' \in [Users -> UserStatuses]
    BY <1>1 DEF S!Revoke, S!RevokeAllOthers, S!Deprovision, S!SetUserStatus, UserStatuses
  <1>4. sessions' \in Seq(SessionRecords)
    <2>1. ASSUME NEW s \in DOMAIN sessions, S!Revoke(s) PROVE sessions' \in Seq(SessionRecords)
      <3>1. sessions' = [sessions EXCEPT ![s].live = FALSE]
        BY <2>1 DEF S!Revoke
      <3>2. \A x \in SessionRecords : [x EXCEPT !.live = FALSE] \in SessionRecords
        BY DEF SessionRecords
      <3> QED
        BY <1>1, <3>1, <3>2
    <2>2. ASSUME NEW s \in DOMAIN sessions, S!RevokeAllOthers(s)
          PROVE  sessions' \in Seq(SessionRecords)
      BY <2>2, RevokedTyped DEF S!RevokeAllOthers
    <2>3. ASSUME NEW u \in Users, S!Deprovision(u) PROVE sessions' \in Seq(SessionRecords)
      BY <2>3, RevokedTyped DEF S!Deprovision
    <2>4. ASSUME NEW u \in Users, NEW s \in {"ACTIVE", "SUSPENDED"}, S!SetUserStatus(u, s)
          PROVE  sessions' \in Seq(SessionRecords)
      BY <1>1, <2>4 DEF S!SetUserStatus
    <2> QED
      BY <2>1, <2>2, <2>3, <2>4
  <1> QED
    BY <1>2, <1>3, <1>4, SameTasksKeep

-----------------------------------------------------------------------------
(* Actions that write a code or a link, or look for one.                   *)

LEMMA IssueKeeps ==
    ASSUME SessionsInv, NEW t \in Tasks, S!Issue(t)
    PROVE  SessionsInv'
  <1> DEFINE x == [u |-> sessionTask[t].u, purpose |-> sessionTask[t].purpose,
                   attempts |-> 0, consumed |-> FALSE, uses |-> 0]
  <1>1. /\ status \in [Users -> UserStatuses] /\ sessions \in Seq(SessionRecords)
        /\ codes \in Seq(CodeRecords) /\ Len(codes) \in Nat
    BY CodesAre
  <1>2. sessionTask[t].u \in Users /\ sessionTask[t].purpose \in S!Purposes
    BY SessionCallIs DEF S!Issue, S!At, Holds
  <1>3. x \in CodeRecords /\ x.uses = 0 /\ x.consumed = FALSE /\ x.attempts = 0
    BY <1>2 DEF CodeRecords
  <1>4. codes' = Append(codes, x) /\ S!Return(t) /\ status' = status /\ sessions' = sessions
    BY DEF S!Issue
  <1> HIDE DEF x
  <1>5. PICK cs \in Seq(CodeRecords) :
            /\ cs = codes' /\ Len(cs) = Len(codes) + 1
            /\ cs[Len(codes) + 1] = x
            /\ \A i \in 1 .. Len(codes) : cs[i] = codes[i]
    BY SMTT(40), <1>1, <1>3, <1>4
  <1>6. \A i \in 1 .. Len(cs) : i \in 1 .. Len(codes) \/ (i = Len(codes) + 1 /\ cs[i] = x)
    BY <1>1, <1>5
  <1>7. LinksOnce(cs)
    <2>1. LinksOnce(codes)
      BY DEF SessionsInv, CodesOK
    <2>2. \A i \in 1 .. Len(cs) : cs[i].uses <= 1
      BY <1>3, <1>5, <1>6, <2>1 DEF LinksOnce
    <2>3. ASSUME NEW i \in 1 .. Len(cs), NEW j \in 1 .. Len(cs), IsLink(cs[i]), IsLink(cs[j]),
                 cs[i].uses = 1, cs[j].u = cs[i].u, j <= i
          PROVE  cs[j].consumed
      <3>1. i \in 1 .. Len(codes) /\ cs[i] = codes[i]
        BY <1>3, <1>5, <1>6, <2>3
      <3>2. j \in 1 .. Len(codes) /\ cs[j] = codes[j]
        BY <1>1, <1>5, <2>3, <3>1
      <3> QED
        BY <2>1, <2>3, <3>1, <3>2 DEF LinksOnce
    <2>4. ASSUME NEW i \in 1 .. Len(cs), IsLink(cs[i]), cs[i].consumed
          PROVE  \E j \in 1 .. Len(cs) : IsLink(cs[j]) /\ cs[j].uses = 1 /\ cs[j].u = cs[i].u
      <3>1. i \in 1 .. Len(codes) /\ cs[i] = codes[i]
        BY <1>3, <1>5, <1>6, <2>4
      <3>2. PICK j \in 1 .. Len(codes) :
                IsLink(codes[j]) /\ codes[j].uses = 1 /\ codes[j].u = codes[i].u
        BY <2>1, <2>4, <3>1 DEF LinksOnce
      <3>3. j \in 1 .. Len(cs) /\ cs[j] = codes[j]
        BY <1>1, <1>5, <3>2
      <3> QED
        BY <3>1, <3>2, <3>3
    <2> QED
      BY <2>2, <2>3, <2>4 DEF LinksOnce
  <1>8. SameRows(codes, cs)
    BY <1>1, <1>5 DEF SameRows
  <1>9. Becomes(t, S!Idle) /\ Holds(S!Idle, cs)
    BY <1>4, SessionIdle DEF S!Return, Becomes, Holds
  <1>10. \A c \in 1 .. Len(cs) : CountsOn(codes, cs, sessionTask[t], S!Idle, c)
    BY <1>3, <1>5, <1>6, SessionIdle DEF CountsOn, Guesses
  <1> QED
    BY <1>1, <1>4, <1>5, <1>7, <1>8, <1>9, <1>10, SessionIdle, StepKeeps DEF CodesOK

LEMMA VerifyFindKeeps ==
    ASSUME SessionsInv, NEW t \in Tasks, S!VerifyFind(t)
    PROVE  SessionsInv'
  <1> DEFINE P == S!Pending(sessionTask[t].u, sessionTask[t].purpose)
             c == S!Max(P)
  <1>1. /\ sessionTask[t].pc = "verify" /\ P # {} /\ ~ S!Exhausted(c)
        /\ S!OnlyTask
        /\ \E pc \in {"right", "wrong"} :
              sessionTask' = [sessionTask EXCEPT ![t].pc = pc, ![t].row = c]
    BY DEF S!VerifyFind, S!At
  <1>2. /\ P \subseteq 1 .. Len(codes)
        /\ \A i \in P : codes[i].purpose = sessionTask[t].purpose
    BY CodesAre DEF S!Pending
  <1>3. c \in P
    <2> HIDE DEF P
    <2>0. Len(codes) \in Nat /\ P \subseteq 1 .. Len(codes)
      BY <1>2, CodesAre
    <2>1. IsFiniteSet(P) /\ P \subseteq Int
      <3>1. IsFiniteSet(1 .. Len(codes))
        BY <2>0, FS_Interval
      <3>2. IsFiniteSet(P)
        BY <2>0, <3>1, FS_Subset
      <3> QED
        BY <2>0, <3>2
    <2>2. PICK m \in P : \A x \in P : x <= m
      BY <1>1, <2>1, HasLargest
    <2>3. \A x \in P : m >= x
      BY <2>1, <2>2
    <2> QED
      BY <2>3 DEF S!Max
  <1> HIDE DEF P, c
  <1>4. PICK d \in 1 .. Len(codes) : d = c
    BY <1>2, <1>3
  <1>5. PICK pc \in {"right", "wrong"} :
            sessionTask' = [sessionTask EXCEPT ![t].pc = pc, ![t].row = d]
    BY <1>1, <1>4
  <1> DEFINE k == [sessionTask[t] EXCEPT !.pc = pc, !.row = d]
  <1>6. sessionTask[t] \in SessionTasks /\ Holds(sessionTask[t], codes)
    BY SessionCallIs
  <1>7. d \in Nat
    BY CodesAre
  <1>8. k \in SessionTasks /\ k.pc = pc /\ k.row = d /\ k.u = sessionTask[t].u
    BY <1>6, <1>7 DEF SessionTasks, SessionPcs
  <1>9. Becomes(t, k)
    BY <1>5 DEF Becomes
  <1> HIDE DEF k
  <1>10. ~ IsLink(codes[d])
    BY <1>1, <1>2, <1>3, <1>4, <1>6 DEF Holds, IsLink
  <1>11. k.u \in Users
    BY <1>1, <1>6, <1>8 DEF Holds
  <1>12. Holds(k, codes)
    BY <1>8, <1>10, <1>11 DEF Holds
  <1>13. codes[d].attempts \in Nat /\ codes[d].attempts < MaxAttempts
    BY <1>1, <1>4, CodesAre, TasksFinite DEF S!Exhausted, CodeRecords
  <1>14. \A e \in 1 .. Len(codes) : CountsOn(codes, codes, sessionTask[t], k, e)
    BY <1>8, <1>13 DEF CountsOn, Guesses
  <1>15. /\ CodesOK(codes) /\ SameRows(codes, codes)
         /\ status \in [Users -> UserStatuses] /\ sessions \in Seq(SessionRecords)
    BY CodesAre DEF SessionsInv, SameRows
  <1>16. codes' = codes /\ status' = status /\ sessions' = sessions
    BY <1>1 DEF S!OnlyTask
  <1> QED
    BY <1>8, <1>9, <1>12, <1>14, <1>15, <1>16, StepKeeps

\* One code that is not a link is written; its user and purpose stay.
LEMMA OneCodeWritten ==
    ASSUME SessionsInv, NEW r \in 1 .. Len(codes), NEW x \in CodeRecords,
           ~ IsLink(codes[r]), x.u = codes[r].u, x.purpose = codes[r].purpose,
           x.uses = codes[r].uses
    PROVE  LET cs == [codes EXCEPT ![r] = x]
           IN  CodesOK(cs) /\ SameRows(codes, cs) /\ Len(cs) = Len(codes)
  <1> DEFINE cs == [codes EXCEPT ![r] = x]
  <1>1. codes \in Seq(CodeRecords) /\ Len(codes) \in Nat
    BY CodesAre
  <1>2. cs \in Seq(CodeRecords) /\ Len(cs) = Len(codes)
    BY <1>1
  <1>3. \A i \in 1 .. Len(codes) : cs[i] = IF i = r THEN x ELSE codes[i]
    BY <1>1
  <1> HIDE DEF cs
  <1>4. \A i \in 1 .. Len(cs) :
            /\ i \in 1 .. Len(codes)
            /\ cs[i].u = codes[i].u /\ cs[i].purpose = codes[i].purpose
            /\ cs[i].uses = codes[i].uses
            /\ IsLink(cs[i]) => cs[i] = codes[i]
            /\ IsLink(cs[i]) <=> IsLink(codes[i])
    BY <1>2, <1>3 DEF IsLink
  <1>5. LinksOnce(codes)
    BY DEF SessionsInv, CodesOK
  <1>6. LinksOnce(cs)
    <2>1. \A i \in 1 .. Len(cs) : cs[i].uses <= 1
      BY <1>4, <1>5 DEF LinksOnce
    <2>2. ASSUME NEW i \in 1 .. Len(cs), NEW j \in 1 .. Len(cs), IsLink(cs[i]), IsLink(cs[j]),
                 cs[i].uses = 1, cs[j].u = cs[i].u, j <= i
          PROVE  cs[j].consumed
      BY SMTT(40), <1>4, <1>5, <2>2 DEF LinksOnce
    <2>3. ASSUME NEW i \in 1 .. Len(cs), IsLink(cs[i]), cs[i].consumed
          PROVE  \E j \in 1 .. Len(cs) : IsLink(cs[j]) /\ cs[j].uses = 1 /\ cs[j].u = cs[i].u
      <3>1. PICK j \in 1 .. Len(codes) :
                IsLink(codes[j]) /\ codes[j].uses = 1 /\ codes[j].u = codes[i].u
        BY <1>4, <1>5, <2>3 DEF LinksOnce
      <3> QED
        BY <1>2, <1>4, <3>1
    <2> QED
      BY <2>1, <2>2, <2>3 DEF LinksOnce
  <1>7. SameRows(codes, cs)
    BY <1>1, <1>2, <1>4 DEF SameRows
  <1> QED
    BY <1>2, <1>6, <1>7 DEF CodesOK, cs

LEMMA VerifyWrongKeeps ==
    ASSUME SessionsInv, NEW t \in Tasks, S!VerifyWrong(t)
    PROVE  SessionsInv'
  <1>1. sessionTask[t].pc = "wrong" /\ S!Return(t) /\ status' = status /\ sessions' = sessions
    BY DEF S!VerifyWrong, S!At
  <1>2. PICK r \in 1 .. Len(codes) : r = sessionTask[t].row /\ ~ IsLink(codes[r])
    BY <1>1, SessionCallIs DEF Holds
  <1>3. codes[r] \in CodeRecords /\ codes \in Seq(CodeRecords) /\ Len(codes) \in Nat
    BY CodesAre
  <1> DEFINE x == [codes[r] EXCEPT !.attempts = codes[r].attempts + 1]
  <1>4. /\ x \in CodeRecords /\ x.u = codes[r].u /\ x.purpose = codes[r].purpose
        /\ x.uses = codes[r].uses /\ x.attempts = codes[r].attempts + 1
    <2>1. PICK n \in Nat : n = codes[r].attempts + 1
      BY <1>3 DEF CodeRecords
    <2>2. \A y \in CodeRecords :
              /\ [y EXCEPT !.attempts = n] \in CodeRecords
              /\ [y EXCEPT !.attempts = n].u = y.u
              /\ [y EXCEPT !.attempts = n].purpose = y.purpose
              /\ [y EXCEPT !.attempts = n].uses = y.uses
              /\ [y EXCEPT !.attempts = n].attempts = n
      BY DEF CodeRecords
    <2> QED
      BY <1>3, <2>1, <2>2
  <1>5. codes' = [codes EXCEPT ![r] = x]
    BY <1>2 DEF S!VerifyWrong
  <1> HIDE DEF x
  <1> DEFINE cs == [codes EXCEPT ![r] = x]
  <1>6. CodesOK(cs) /\ SameRows(codes, cs) /\ Len(cs) = Len(codes)
    BY <1>2, <1>4, OneCodeWritten
  <1>7. \A i \in 1 .. Len(codes) : cs[i] = IF i = r THEN x ELSE codes[i]
    BY <1>3
  <1> HIDE DEF cs
  <1>8. \A c \in 1 .. Len(cs) : CountsOn(codes, cs, sessionTask[t], S!Idle, c)
    BY <1>1, <1>2, <1>4, <1>6, <1>7, SessionIdle DEF CountsOn, Guesses
  <1>9. Becomes(t, S!Idle) /\ Holds(S!Idle, cs)
    BY <1>1, SessionIdle DEF S!Return, Becomes, Holds
  <1>10. status \in [Users -> UserStatuses] /\ sessions \in Seq(SessionRecords)
    BY CodesAre
  <1>11. codes' = cs
    BY <1>5 DEF cs
  <1> QED
    BY <1>1, <1>6, <1>8, <1>9, <1>10, <1>11, SessionIdle, StepKeeps

LEMMA VerifyRightKeeps ==
    ASSUME SessionsInv, NEW t \in Tasks, S!VerifyRight(t)
    PROVE  SessionsInv'
  <1>1. sessionTask[t].pc = "right" /\ status' = status /\ sessions' = sessions
    BY DEF S!VerifyRight, S!At
  <1>2. PICK r \in 1 .. Len(codes) : r = sessionTask[t].row /\ ~ IsLink(codes[r])
    BY <1>1, SessionCallIs DEF Holds
  <1>3. codes[r] \in CodeRecords /\ codes \in Seq(CodeRecords) /\ Len(codes) \in Nat
    BY CodesAre
  <1> DEFINE x == [codes[r] EXCEPT !.consumed = TRUE]
  <1>4. /\ x \in CodeRecords /\ x.u = codes[r].u /\ x.purpose = codes[r].purpose
        /\ x.uses = codes[r].uses /\ x.attempts = codes[r].attempts
    <2>1. \A y \in CodeRecords :
              /\ [y EXCEPT !.consumed = TRUE] \in CodeRecords
              /\ [y EXCEPT !.consumed = TRUE].u = y.u
              /\ [y EXCEPT !.consumed = TRUE].purpose = y.purpose
              /\ [y EXCEPT !.consumed = TRUE].uses = y.uses
              /\ [y EXCEPT !.consumed = TRUE].attempts = y.attempts
      BY DEF CodeRecords
    <2> QED
      BY <1>3, <2>1
  <1>5. codes' = [codes EXCEPT ![r] = x]
    BY <1>2 DEF S!VerifyRight
  <1> HIDE DEF x
  <1> DEFINE cs == [codes EXCEPT ![r] = x]
  <1>6. CodesOK(cs) /\ SameRows(codes, cs) /\ Len(cs) = Len(codes)
    BY <1>2, <1>4, OneCodeWritten
  <1>7. \A i \in 1 .. Len(codes) : cs[i] = IF i = r THEN x ELSE codes[i]
    BY <1>3
  <1> HIDE DEF cs
  <1>8. PICK pc \in {"activate", "open"} : S!Goto(t, pc)
    BY DEF S!VerifyRight
  <1>9. PICK k \in SessionTasks : k.pc = pc /\ k.u = sessionTask[t].u /\ Becomes(t, k)
    BY <1>8, SessionGoes DEF SessionPcs
  <1>10. k.u \in Users
    BY <1>1, <1>9, SessionCallIs DEF Holds
  <1>11. Holds(k, cs)
    BY <1>8, <1>9, <1>10 DEF Holds
  <1>12. \A c \in 1 .. Len(cs) : CountsOn(codes, cs, sessionTask[t], k, c)
    BY <1>4, <1>6, <1>7, <1>8, <1>9 DEF CountsOn, Guesses
  <1>13. status \in [Users -> UserStatuses] /\ sessions \in Seq(SessionRecords)
    BY CodesAre
  <1>14. codes' = cs
    BY <1>5 DEF cs
  <1> QED
    BY <1>1, <1>6, <1>9, <1>11, <1>12, <1>13, <1>14, StepKeeps

\* The claim finds the link unconsumed, so it was never used; afterwards it is,
\* and every link that the user then has is consumed.
LEMMA ResetApplyKeeps ==
    ASSUME SessionsInv, NEW t \in Tasks, S!ResetApply(t)
    PROVE  SessionsInv'
  <1>1. /\ sessionTask[t].pc = "reset" /\ S!Return(t) /\ status' = status
        /\ sessions' = S!Revoked(sessionTask[t].u, 0)
        /\ ~ codes[sessionTask[t].row].consumed
    BY DEF S!ResetApply, S!At, S!Claimed
  <1>2. PICK r \in 1 .. Len(codes) :
            r = sessionTask[t].row /\ IsLink(codes[r]) /\ codes[r].u = sessionTask[t].u
    BY <1>1, SessionCallIs DEF Holds
  <1>3. /\ codes \in Seq(CodeRecords) /\ Len(codes) \in Nat
        /\ S!Codes = 1 .. Len(codes)
        /\ S!Links = {c \in 1 .. Len(codes) : IsLink(codes[c])}
        /\ \A c \in 1 .. Len(codes) : codes[c] \in CodeRecords
    BY CodesAre
  <1>4. PICK u \in Users : u = sessionTask[t].u /\ u = codes[r].u
    BY <1>2, <1>3 DEF CodeRecords
  <1>5. codes' = [c \in 1 .. Len(codes) |->
                    [codes[c] EXCEPT
                        !.consumed = @ \/ (c \in S!Links /\ codes[c].u = u),
                        !.uses = IF c = r THEN @ + 1 ELSE @]]
    BY <1>2, <1>3, <1>4 DEF S!ResetApply
  <1>6. ASSUME NEW c \in 1 .. Len(codes)
        PROVE  /\ codes'[c] \in CodeRecords
               /\ codes'[c].u = codes[c].u /\ codes'[c].purpose = codes[c].purpose
               /\ codes'[c].attempts = codes[c].attempts
               /\ codes'[c].consumed <=> codes[c].consumed \/ (IsLink(codes[c]) /\ codes[c].u = u)
               /\ codes'[c].uses = IF c = r THEN codes[c].uses + 1 ELSE codes[c].uses
    <2>1. PICK b \in BOOLEAN : b = (codes[c].consumed \/ (c \in S!Links /\ codes[c].u = u))
      BY <1>3, <1>6 DEF CodeRecords
    <2>2. PICK n \in Nat : n = IF c = r THEN codes[c].uses + 1 ELSE codes[c].uses
      BY SMTT(40), <1>3, <1>6 DEF CodeRecords
    <2>3. codes'[c] = [codes[c] EXCEPT !.consumed = b, !.uses = n]
      BY <1>5, <2>1, <2>2
    <2>4. codes[c] \in CodeRecords
      BY <1>3
    <2>5. /\ codes'[c] \in CodeRecords
          /\ codes'[c].u = codes[c].u /\ codes'[c].purpose = codes[c].purpose
          /\ codes'[c].attempts = codes[c].attempts
          /\ codes'[c].consumed = b /\ codes'[c].uses = n
      BY <2>3, <2>4 DEF CodeRecords
    <2> QED
      BY <1>3, <2>1, <2>2, <2>5
  <1>7. PICK cs \in Seq(CodeRecords) : cs = codes' /\ Len(cs) = Len(codes)
    <2>1. codes' \in [1 .. Len(codes) -> CodeRecords]
      BY <1>5, <1>6
    <2> QED
      BY <1>3, <2>1
  <1>8. \A c \in 1 .. Len(cs) :
            /\ c \in 1 .. Len(codes)
            /\ codes[c] \in CodeRecords
            /\ cs[c].u = codes[c].u /\ cs[c].purpose = codes[c].purpose
            /\ cs[c].attempts = codes[c].attempts
            /\ cs[c].consumed <=> codes[c].consumed \/ (IsLink(codes[c]) /\ codes[c].u = u)
            /\ cs[c].uses = IF c = r THEN codes[c].uses + 1 ELSE codes[c].uses
            /\ IsLink(cs[c]) <=> IsLink(codes[c])
    BY <1>3, <1>6, <1>7 DEF IsLink
  <1>9. LinksOnce(codes)
    BY DEF SessionsInv, CodesOK
  <1>10. codes[r].uses = 0
    <2>1. codes[r].uses \in Nat /\ codes[r].uses <= 1 /\ r <= r
      BY <1>3, <1>9 DEF LinksOnce, CodeRecords
    <2>2. codes[r].uses # 1
      BY <1>1, <1>2, <1>9, <2>1 DEF LinksOnce
    <2> QED
      BY <2>1, <2>2
  <1>11. r \in 1 .. Len(cs) /\ cs[r].uses = 1 /\ IsLink(cs[r]) /\ cs[r].u = u
    BY <1>2, <1>4, <1>7, <1>8, <1>10
  <1>12. LinksOnce(cs)
    <2>1. \A i \in 1 .. Len(cs) : cs[i].uses <= 1
      BY <1>8, <1>9, <1>11 DEF LinksOnce
    <2>2. ASSUME NEW i \in 1 .. Len(cs), NEW j \in 1 .. Len(cs), IsLink(cs[i]), IsLink(cs[j]),
                 cs[i].uses = 1, cs[j].u = cs[i].u, j <= i
          PROVE  cs[j].consumed
      <3>1. CASE i = r
        BY <1>8, <1>11, <2>2, <3>1
      <3>2. CASE i # r
        BY <1>8, <1>9, <2>2, <3>2 DEF LinksOnce
      <3> QED
        BY <3>1, <3>2
    <2>3. ASSUME NEW i \in 1 .. Len(cs), IsLink(cs[i]), cs[i].consumed
          PROVE  \E j \in 1 .. Len(cs) : IsLink(cs[j]) /\ cs[j].uses = 1 /\ cs[j].u = cs[i].u
      <3>1. CASE codes[i].u = u
        BY <1>8, <1>11, <3>1
      <3>2. CASE codes[i].u # u
        <4>1. PICK j \in 1 .. Len(codes) :
                  IsLink(codes[j]) /\ codes[j].uses = 1 /\ codes[j].u = codes[i].u
          BY <1>8, <1>9, <2>3, <3>2 DEF LinksOnce
        <4>2. j # r
          BY <1>10, <4>1
        <4> QED
          BY <1>7, <1>8, <4>1, <4>2
      <3> QED
        BY <3>1, <3>2
    <2> QED
      BY <2>1, <2>2, <2>3 DEF LinksOnce
  <1>13. SameRows(codes, cs)
    BY <1>3, <1>7, <1>8 DEF SameRows
  <1>14. \A c \in 1 .. Len(cs) : CountsOn(codes, cs, sessionTask[t], S!Idle, c)
    BY <1>8, SessionIdle DEF CountsOn, Guesses
  <1>15. Becomes(t, S!Idle) /\ Holds(S!Idle, cs)
    BY <1>1, SessionIdle DEF S!Return, Becomes, Holds
  <1>16. status \in [Users -> UserStatuses] /\ sessions' \in Seq(SessionRecords)
    BY <1>1, CodesAre, RevokedTyped
  <1> QED
    BY <1>1, <1>7, <1>12, <1>13, <1>14, <1>15, <1>16, SessionIdle, StepKeeps DEF CodesOK

-----------------------------------------------------------------------------
LEMMA SessionsInit == Init => SessionsInv
  <1> SUFFICES ASSUME S!Init PROVE SessionsInv
    BY DEF Init
  <1>1. status \in [Users -> UserStatuses] /\ sessions \in Seq(SessionRecords)
    BY DEF S!Init, UserStatuses
  <1>2. codes = <<>> /\ codes \in Seq(CodeRecords) /\ Len(codes) = 0
    BY DEF S!Init
  <1>3. CodesOK(codes)
    BY <1>2 DEF CodesOK, LinksOnce
  <1>4. CallsOK(codes, sessionTask)
    BY SessionIdle DEF S!Init, CallsOK, Holds
  <1>5. Bounded(codes, sessionTask)
    BY <1>2 DEF Bounded
  <1> QED
    BY <1>1, <1>3, <1>4, <1>5 DEF SessionsInv

LEMMA SessionsNext ==
    ASSUME SessionsInv, [Next]_vars
    PROVE  SessionsInv'
  <1>1. CASE UNCHANGED sessionVars
    <2>1. status \in [Users -> UserStatuses] /\ sessions \in Seq(SessionRecords)
      BY CodesAre
    <2> QED
      BY <1>1, <2>1, SameTasksKeep DEF sessionVars
  <1>2. ASSUME NEW t \in Tasks,
               \/ S!Throw(t)
               \/ \E u \in Users :
                     \/ S!Register(t, u) \/ S!ForgotPassword(t, u)
                     \/ S!Login(t, u) \/ S!SuspendStaff(t, u)
                     \/ \E p \in {"REGISTRATION", "LOGIN"} : S!SendOtp(t, u, p) \/ S!Verify(t, u, p)
                     \/ \E s \in DOMAIN sessions : sessions[s].u = u /\ S!ChangePassword(t, u, s)
               \/ \E c \in S!Links : S!ResetFind(t, c)
               \/ \E s \in DOMAIN sessions : S!Refresh(t, s)
               \/ S!Issue(t) \/ S!VerifyRefused(t) \/ S!VerifyFind(t)
               \/ S!VerifyWrong(t) \/ S!VerifyRight(t)
               \/ S!Activate(t) \/ S!ChangeWrite(t) \/ S!ResetApply(t) \/ S!ResetRefused(t)
               \/ S!Open(t) \/ S!Rotate(t) \/ S!Burn(t) \/ S!SuspendWrite(t)
        PROVE  SessionsInv'
    BY <1>2, CallsBegin, CallsEnd, CallsGoOn, ResetFindKeeps, RefreshKeeps, IssueKeeps,
       VerifyFindKeeps, VerifyWrongKeeps, VerifyRightKeeps, ResetApplyKeeps
  <1>3. CASE S!Next
    BY <1>2, <1>3, OthersAlone DEF S!Next
  <1> QED
    BY <1>1, <1>3 DEF Next, SessionsStep, MembershipStep, OnboardingStep, vars

LEMMA SessionsAlways == Spec => []SessionsInv
  BY SessionsInit, SessionsNext, PTL DEF Spec

\* However many calls use links at once, for any users: a link changes the
\* password once, none of the user's earlier ones works after it, and a link
\* is consumed only by one that did (resetPassword's transaction claims the
\* link and consumes the user's others).
THEOREM LinksWorkOnce == Spec => []ResetIsOnce
  <1>1. SessionsInv => ResetIsOnce
    <2> SUFFICES ASSUME SessionsInv PROVE S!ResetIsOnce
      BY DEF ResetIsOnce
    <2>1. LinksOnce(codes)
      BY DEF SessionsInv, CodesOK
    <2>2. S!Links = {c \in 1 .. Len(codes) : IsLink(codes[c])}
      BY CodesAre
    <2> QED
      BY <2>1, <2>2 DEF S!ResetIsOnce, LinksOnce
  <1> QED
    BY <1>1, SessionsAlways, PTL

\* However many guesses overlap, the attempts on a code pass its limit by no
\* more than the other calls there may be at once (verify reads the count and
\* increments it in another statement).
THEOREM GuessesAreBounded == Spec => []AttemptsAreBounded
  <1>1. SessionsInv => AttemptsAreBounded
    <2> SUFFICES ASSUME SessionsInv PROVE S!AttemptsAreBounded
      BY DEF AttemptsAreBounded
    <2>1. Bounded(codes, sessionTask) /\ S!Codes = 1 .. Len(codes)
      BY CodesAre DEF SessionsInv
    <2>2. \A c : {t \in Tasks : S!At(t, "wrong") /\ sessionTask[t].row = c} = Wrong(sessionTask, c)
      BY DEF Wrong, Guesses, S!At
    <2> QED
      BY <2>1, <2>2, SameSizes DEF S!AttemptsAreBounded, Bounded
  <1> QED
    BY <1>1, SessionsAlways, PTL

-----------------------------------------------------------------------------
(* Types: what the invariants above leave open, how much there may be.     *)

SessionSizes ==
    /\ hasPassword \in [Users -> BOOLEAN]
    /\ Len(codes) <= MaxCodes /\ Len(sessions) <= MaxSessions

\* A revocation keeps the number of sessions.
LEMMA RevokedKeepsLen ==
    ASSUME SessionsInv, NEW u, NEW kept
    PROVE  Len(S!Revoked(u, kept)) = Len(sessions)
  <1>1. S!Revoked(u, kept) \in Seq(SessionRecords)
    BY RevokedTyped
  <1>2. DOMAIN S!Revoked(u, kept) = DOMAIN sessions
    BY DEF S!Revoked
  <1>3. sessions \in Seq(SessionRecords)
    BY CodesAre
  <1> QED
    BY <1>1, <1>2, <1>3

LEMMA SessionSizesNext ==
    ASSUME SessionsInv, SessionSizes, [Next]_vars
    PROVE  SessionSizes'
  <1>0. /\ codes \in Seq(CodeRecords) /\ sessions \in Seq(SessionRecords)
        /\ \A t \in Tasks : sessionTask[t].pc # "idle" => sessionTask[t].u \in Users
    BY CodesAre, SessionCallIs DEF Holds
  <1>1. ASSUME NEW t \in Tasks, NEW u \in Users,
               \/ S!Register(t, u) \/ S!ForgotPassword(t, u) \/ S!Login(t, u)
               \/ \E p \in {"REGISTRATION", "LOGIN"} : S!SendOtp(t, u, p) \/ S!Verify(t, u, p)
               \/ \E s \in DOMAIN sessions : S!ChangePassword(t, u, s)
        PROVE  SessionSizes'
    BY <1>1 DEF SessionSizes, S!Register, S!ForgotPassword, S!Login, S!SendOtp, S!Verify,
                S!ChangePassword, S!OnlyTask
  <1>2. ASSUME NEW t \in Tasks, NEW u \in Users, S!SuspendStaff(t, u)
        PROVE  SessionSizes'
    BY <1>2, RevokedKeepsLen DEF SessionSizes, S!SuspendStaff
  <1>3. ASSUME NEW t \in Tasks,
               \/ S!Throw(t) \/ S!VerifyRefused(t) \/ S!VerifyFind(t) \/ S!ResetRefused(t)
               \/ S!Activate(t) \/ S!SuspendWrite(t)
               \/ \E c \in S!Links : S!ResetFind(t, c)
               \/ \E s \in DOMAIN sessions : S!Refresh(t, s)
        PROVE  SessionSizes'
    BY <1>3 DEF SessionSizes, S!Throw, S!VerifyRefused, S!VerifyFind, S!ResetRefused, S!Activate,
                S!SuspendWrite, S!ResetFind, S!Refresh, S!OnlyTask
  <1>4. ASSUME NEW t \in Tasks, S!Issue(t)
        PROVE  SessionSizes'
    <2>1. /\ Len(codes) < MaxCodes /\ Len(codes') = Len(codes) + 1
          /\ UNCHANGED <<hasPassword, sessions>>
      BY <1>0, <1>4 DEF S!Issue
    <2> QED
      BY <1>0, <2>1, AccountsAssumption DEF SessionSizes, S!SessionsAssumption
  <1>5. ASSUME NEW t \in Tasks, S!VerifyWrong(t) \/ S!VerifyRight(t)
        PROVE  SessionSizes'
    <2>1. Len(codes') = Len(codes) /\ UNCHANGED <<hasPassword, sessions>>
      BY <1>0, <1>5 DEF S!VerifyWrong, S!VerifyRight
    <2> QED
      BY <2>1 DEF SessionSizes
  <1>6. ASSUME NEW t \in Tasks, S!ResetApply(t)
        PROVE  SessionSizes'
    <2>1. /\ DOMAIN codes' = DOMAIN codes /\ sessionTask[t].u \in Users
          /\ hasPassword' = [hasPassword EXCEPT ![sessionTask[t].u] = TRUE]
          /\ sessions' = S!Revoked(sessionTask[t].u, 0)
      BY <1>0, <1>6 DEF S!ResetApply, S!At, S!Codes
    <2>2. codes' \in Seq(CodeRecords)
      BY SessionsNext DEF SessionsInv, CodesOK
    <2>3. Len(codes') = Len(codes)
      BY <1>0, <2>1, <2>2
    <2> QED
      BY <2>1, <2>3, RevokedKeepsLen DEF SessionSizes
  <1>7. ASSUME NEW t \in Tasks, S!ChangeWrite(t)
        PROVE  SessionSizes'
    <2>1. /\ UNCHANGED codes /\ sessionTask[t].u \in Users
          /\ hasPassword' = [hasPassword EXCEPT ![sessionTask[t].u] = TRUE]
          /\ sessions' = S!Revoked(sessionTask[t].u, sessionTask[t].row)
      BY <1>0, <1>7 DEF S!ChangeWrite, S!At
    <2> QED
      BY <2>1, RevokedKeepsLen DEF SessionSizes
  <1>8. ASSUME NEW t \in Tasks, S!Open(t)
        PROVE  SessionSizes'
    <2>1. /\ Len(sessions) < MaxSessions /\ Len(sessions') = Len(sessions) + 1
          /\ UNCHANGED <<hasPassword, codes>>
      BY <1>0, <1>8 DEF S!Open
    <2> QED
      BY <1>0, <2>1, AccountsAssumption DEF SessionSizes, S!SessionsAssumption
  <1>9. ASSUME NEW t \in Tasks, S!Rotate(t) \/ S!Burn(t)
        PROVE  SessionSizes'
    <2>1. Len(sessions') = Len(sessions) /\ UNCHANGED <<hasPassword, codes>>
      BY <1>0, <1>9, RevokedKeepsLen DEF S!Rotate, S!Burn
    <2> QED
      BY <2>1 DEF SessionSizes
  <1>10. ASSUME NEW s \in DOMAIN sessions, S!Revoke(s) \/ S!RevokeAllOthers(s)
         PROVE  SessionSizes'
    <2>1. Len(sessions') = Len(sessions) /\ UNCHANGED <<hasPassword, codes>>
      BY <1>0, <1>10, RevokedKeepsLen DEF S!Revoke, S!RevokeAllOthers
    <2> QED
      BY <2>1 DEF SessionSizes
  <1>11. ASSUME NEW u \in Users,
                S!Deprovision(u) \/ \E s \in {"ACTIVE", "SUSPENDED"} : S!SetUserStatus(u, s)
         PROVE  SessionSizes'
    <2>1. Len(sessions') = Len(sessions) /\ UNCHANGED <<hasPassword, codes>>
      BY <1>0, <1>11, RevokedKeepsLen DEF S!Deprovision, S!SetUserStatus
    <2> QED
      BY <2>1 DEF SessionSizes
  <1>12. CASE S!Next
    BY <1>1, <1>2, <1>3, <1>4, <1>5, <1>6, <1>7, <1>8, <1>9, <1>10, <1>11, <1>12 DEF S!Next
  <1>13. CASE UNCHANGED sessionVars
    BY <1>13 DEF sessionVars, SessionSizes
  <1> QED
    BY <1>12, <1>13 DEF Next, SessionsStep, MembershipStep, OnboardingStep, vars

\* Every company that a row or a call names has been created.
MembershipSizes ==
    /\ identity \subseteq Members
    /\ Len(invites) <= MaxInvites /\ businesses <= MaxBusinesses
    /\ \A u \in Members : account[u].business <= businesses
    /\ \A i \in 1 .. Len(invites) : invites[i].business <= businesses
    /\ \A t \in Tasks : memberTask[t].business <= businesses

\* What a call may leave behind it.
SizedCall(t) ==
    \E k : k.business <= businesses /\ memberTask' = [memberTask EXCEPT ![t] = k]

LEMMA MembersAre ==
    ASSUME MembershipInv
    PROVE  /\ invites \in Seq(InviteRecords) /\ Len(invites) \in Nat /\ businesses \in Nat
           /\ account \in [Members -> AccountRecords] /\ memberTask \in [Tasks -> TaskRecords]
           /\ \A u \in Members : account[u].business \in Nat
           /\ \A i \in 1 .. Len(invites) : invites[i].business \in Nat
           /\ \A t \in Tasks : memberTask[t].business \in Nat
           /\ MaxInvites \in Nat /\ MaxBusinesses \in Nat /\ M!Idle.business = 0
           /\ \A t \in Tasks : memberTask[t].pc \in UserPcs => memberTask[t].u \in Members
           /\ \A t \in Tasks : memberTask[t].pc \in InvitePcs => memberTask[t].i \in 1 .. Len(invites)
  <1>1. /\ invites \in Seq(InviteRecords) /\ businesses \in Nat
        /\ account \in [Members -> AccountRecords] /\ memberTask \in [Tasks -> TaskRecords]
    BY DEF MembershipInv, InvitesOK, AccountsOK, TasksOK
  <1>2. \A i \in 1 .. Len(invites) : invites[i] \in InviteRecords
    BY <1>1
  <1>3. /\ \A u \in Members : account[u].business \in Nat
        /\ \A i \in 1 .. Len(invites) : invites[i].business \in Nat
        /\ \A t \in Tasks : memberTask[t].business \in Nat
    BY <1>1, <1>2 DEF AccountRecords, InviteRecords, TaskRecords
  <1>4. /\ \A t \in Tasks : memberTask[t].pc \in UserPcs => memberTask[t].u \in Members
        /\ \A t \in Tasks : memberTask[t].pc \in InvitePcs => memberTask[t].i \in 1 .. Len(invites)
    BY CallIs DEF Knows
  <1>5. MaxInvites \in Nat /\ MaxBusinesses \in Nat /\ M!Idle.business = 0
    BY AccountsAssumption DEF M!MembershipAssumption, M!Idle
  <1> QED
    BY <1>1, <1>3, <1>4, <1>5

LEMMA SizedCallKeeps ==
    ASSUME MembershipInv, MembershipSizes, NEW t \in Tasks, SizedCall(t), UNCHANGED businesses
    PROVE  \A s \in Tasks : memberTask'[s].business <= businesses'
  BY MembersAre DEF MembershipSizes, SizedCall

\* Calls that begin, end or go on.
LEMMA CallsAreSized ==
    ASSUME MembershipInv, MembershipSizes, NEW t \in Tasks,
           \/ M!Return(t)
           \/ \E pc : M!Goto(t, pc)
           \/ \E pc, u, e, b, r, i : M!Call(t, pc, u, e, b, r, i) /\ b <= businesses
    PROVE  SizedCall(t)
  <1>1. memberTask[t] \in TaskRecords /\ memberTask[t].business <= businesses /\ 0 <= businesses
        /\ M!Idle.business = 0
    BY MembersAre DEF MembershipSizes
  <1>2. CASE M!Return(t)
    BY <1>1, <1>2 DEF M!Return, SizedCall
  <1>3. ASSUME NEW pc, M!Goto(t, pc) PROVE SizedCall(t)
    <2> DEFINE k == [memberTask[t] EXCEPT !.pc = pc]
    <2>1. k.business <= businesses
      BY <1>1 DEF TaskRecords
    <2>2. memberTask' = [memberTask EXCEPT ![t] = k]
      BY <1>3 DEF M!Goto
    <2> HIDE DEF k
    <2> QED
      BY <2>1, <2>2 DEF SizedCall
  <1>4. ASSUME NEW pc, NEW u, NEW e, NEW b, NEW r, NEW i, M!Call(t, pc, u, e, b, r, i), b <= businesses
        PROVE  SizedCall(t)
    <2> DEFINE k == [pc |-> pc, u |-> u, email |-> e, business |-> b, role |-> r, i |-> i]
    <2>1. k.business <= businesses
      BY <1>4
    <2>2. memberTask' = [memberTask EXCEPT ![t] = k]
      BY <1>4 DEF M!Call
    <2> HIDE DEF k
    <2> QED
      BY <2>1, <2>2 DEF SizedCall
  <1> QED
    BY <1>2, <1>3, <1>4

LEMMA MembershipSizesNext ==
    ASSUME MembershipInv, MembershipSizes, [Next]_vars
    PROVE  MembershipSizes'
  <1>0. MembershipInv' /\ 0 <= businesses
    BY MembershipNext, MembersAre
  <1>1. ASSUME NEW t \in Tasks, SizedCall(t), M!OnlyTask PROVE MembershipSizes'
    BY <1>1, SizedCallKeeps DEF M!OnlyTask, MembershipSizes
  <1>2. ASSUME NEW t \in Tasks, M!Throw(t) \/ M!MailFails(t) PROVE MembershipSizes'
    <2>1. M!OnlyTask /\ (M!Return(t) \/ M!Goto(t, "rollback"))
      BY <1>2 DEF M!Throw, M!MailFails
    <2> QED
      BY <1>1, <2>1, CallsAreSized
  <1>3. ASSUME NEW t \in Tasks,
               \/ \E e \in Emails : M!CreateInvite(t, e)
               \/ \E a \in Members, e \in Emails, r \in M!TeamRoles : M!InviteTeamMember(t, a, e, r)
               \/ \E i \in M!Invites :
                     \/ M!Resend(t, i) \/ M!Revoke(t, i)
                     \/ \E u \in Members : M!Accept(t, i, u)
               \/ \E u \in Members : M!CreateBusiness(t, u) \/ M!SocialLink(t, u) \/ M!Confirm(t, u)
               \/ \E a, u \in Members : M!RemoveTeamMember(t, a, u)
               \/ \E u \in Members, e \in Emails :
                     M!SocialSignup(t, u, e) \/ M!RequestChange(t, u, e)
        PROVE  MembershipSizes'
    <2>1. \A i \in M!Invites : invites[i].business <= businesses
      BY MembersAre DEF M!Invites, MembershipSizes
    <2>2. \A u \in Members : account[u].business <= businesses
      BY DEF MembershipSizes
    <2>3. M!OnlyTask /\ \E pc, u, e, b, r, i : M!Call(t, pc, u, e, b, r, i) /\ b <= businesses
      BY <1>0, <1>3, <2>1, <2>2
         DEF M!CreateInvite, M!InviteTeamMember, M!Resend, M!Revoke, M!Accept, M!CreateBusiness,
             M!SocialLink, M!Confirm, M!RemoveTeamMember, M!SocialSignup, M!RequestChange
    <2> QED
      BY <1>1, <2>3, CallsAreSized
  <1>4. ASSUME NEW t \in Tasks, M!InviteWrite(t) PROVE MembershipSizes'
    <2> DEFINE row == [email |-> memberTask[t].email, business |-> memberTask[t].business,
                       role |-> memberTask[t].role, status |-> "PENDING",
                       live |-> TRUE, sent |-> FALSE, user |-> None]
               k == [memberTask[t] EXCEPT !.pc = "mail", !.i = Len(invites) + 1]
    <2>1. /\ Len(invites) < MaxInvites /\ invites' = Append(invites, row) /\ M!OnlyInvites
          /\ memberTask' = [memberTask EXCEPT ![t] = k]
      BY <1>4 DEF M!InviteWrite
    <2>2. row.business <= businesses /\ k.business <= businesses
      BY MembersAre DEF MembershipSizes, TaskRecords
    <2> HIDE DEF row, k
    <2>3. SizedCall(t)
      BY <2>1, <2>2 DEF SizedCall
    <2>4. /\ Len(invites') = Len(invites) + 1 /\ invites'[Len(invites) + 1] = row
          /\ \A i \in 1 .. Len(invites) : invites'[i] = invites[i]
      BY <2>1, MembersAre
    <2>5. \A i \in 1 .. Len(invites') : invites'[i].business <= businesses
      <3> TAKE i \in 1 .. Len(invites')
      <3>1. i \in 1 .. Len(invites) \/ i = Len(invites) + 1
        BY <2>4, MembersAre
      <3> QED
        BY <2>2, <2>4, <3>1 DEF MembershipSizes
    <2>6. Len(invites') <= MaxInvites
      BY <2>1, <2>4, MembersAre
    <2> QED
      BY <2>1, <2>3, <2>5, <2>6, SizedCallKeeps DEF M!OnlyInvites, MembershipSizes
  <1>5. ASSUME NEW t \in Tasks,
               M!Renew(t) \/ M!Mail(t) \/ M!Rollback(t) \/ M!RevokeWrite(t) \/ M!JoinedStaff(t)
        PROVE  MembershipSizes'
    <2>1. memberTask[t].i \in 1 .. Len(invites)
      BY <1>5, MembersAre DEF M!Renew, M!Mail, M!Rollback, M!RevokeWrite, M!JoinedStaff, M!At,
            InvitePcs
    <2>2. \A i \in 1 .. Len(invites) : invites[i] \in InviteRecords
      BY MembersAre
    <2>3. M!OnlyInvites /\ (M!Return(t) \/ M!Goto(t, "remail"))
      BY <1>5 DEF M!Renew, M!Mail, M!Rollback, M!RevokeWrite, M!JoinedStaff
    <2> DEFINE i == memberTask[t].i
    <2>4. PICK x : x.business = invites[i].business /\ invites' = [invites EXCEPT ![i] = x]
      <3>0. invites[i] \in InviteRecords /\ invites \in Seq(InviteRecords)
        BY <2>1, <2>2, MembersAre
      <3>1. CASE M!Renew(t)
        <4> DEFINE x == [invites[i] EXCEPT !.live = TRUE, !.sent = FALSE]
        <4>1. x.business = invites[i].business /\ invites' = [invites EXCEPT ![i] = x]
          BY <2>1, <3>0, <3>1 DEF M!Renew, InviteRecords
        <4> QED
          BY <4>1
      <3>2. CASE M!Mail(t)
        <4> DEFINE x == [invites[i] EXCEPT !.sent = TRUE]
        <4>1. x.business = invites[i].business /\ invites' = [invites EXCEPT ![i] = x]
          BY <2>1, <3>0, <3>2 DEF M!Mail, InviteRecords
        <4> QED
          BY <4>1
      <3>3. CASE M!Rollback(t) \/ M!RevokeWrite(t)
        <4>1. PICK s : invites' = [invites EXCEPT ![i].status = s]
          BY <3>3 DEF M!Rollback, M!RevokeWrite
        <4> DEFINE x == [invites[i] EXCEPT !.status = s]
        <4>2. x.business = invites[i].business /\ invites' = [invites EXCEPT ![i] = x]
          BY <2>1, <3>0, <4>1 DEF InviteRecords
        <4> QED
          BY <4>2
      <3>4. CASE M!JoinedStaff(t)
        <4> DEFINE x == [invites[i] EXCEPT !.status = "ACCEPTED", !.user = memberTask[t].u]
        <4>1. x.business = invites[i].business /\ invites' = [invites EXCEPT ![i] = x]
          BY <2>1, <3>0, <3>4 DEF M!JoinedStaff, M!Accepted, InviteRecords
        <4> QED
          BY <4>1
      <3> QED
        BY <1>5, <3>1, <3>2, <3>3, <3>4
    <2>6. /\ Len(invites') = Len(invites)
          /\ \A j \in 1 .. Len(invites) : invites'[j].business = invites[j].business
      BY <2>1, <2>4, MembersAre
    <2>5. SizedCall(t)
      BY <2>3, CallsAreSized
    <2> QED
      BY <2>3, <2>5, <2>6, SizedCallKeeps DEF M!OnlyInvites, MembershipSizes
  <1>6. ASSUME NEW t \in Tasks, M!JoinTeam(t) \/ M!JoinStaff(t) \/ M!SignupUser(t)
        PROVE  MembershipSizes'
    <2>1. /\ memberTask[t].u \in Members /\ memberTask[t].business <= businesses
          /\ M!JoinTeam(t) => memberTask[t].i \in 1 .. Len(invites)
      BY <1>6, MembersAre
         DEF M!JoinTeam, M!JoinStaff, M!SignupUser, M!CanJoin, M!At, UserPcs, InvitePcs,
            MembershipSizes
    <2>2. /\ account' = [account EXCEPT ![memberTask[t].u] = M!Joined(t)]
          /\ UNCHANGED <<identity, businesses>>
      BY <1>6 DEF M!JoinTeam, M!JoinStaff, M!SignupUser
    <2>3. M!Joined(t).business = memberTask[t].business
      BY DEF M!Joined, M!NoAccount
    <2>4. \A u \in Members : account'[u].business <= businesses
      BY <2>1, <2>2, <2>3, MembersAre DEF MembershipSizes
    <2>5. \A i \in 1 .. Len(invites) : invites[i] \in InviteRecords
      BY MembersAre
    <2>6. /\ Len(invites') = Len(invites)
          /\ \A i \in 1 .. Len(invites) : invites'[i].business = invites[i].business
      BY SMTT(40), <1>6, <2>1, <2>5, MembersAre
         DEF M!JoinTeam, M!JoinStaff, M!SignupUser, M!Accepted, InviteRecords
    <2>7. SizedCall(t)
      BY <1>6, CallsAreSized DEF M!JoinTeam, M!JoinStaff, M!SignupUser
    <2> QED
      BY <2>2, <2>4, <2>6, <2>7, SizedCallKeeps DEF MembershipSizes
  <1>7. ASSUME NEW t \in Tasks, M!Found(t) PROVE MembershipSizes'
    <2>1. memberTask[t].u \in Members
      BY <1>7, MembersAre DEF M!Found, M!At, UserPcs
    <2>2. /\ businesses < MaxBusinesses /\ businesses' = businesses + 1
          /\ UNCHANGED <<identity, invites>>
          /\ memberTask' = [memberTask EXCEPT ![t] = M!Idle]
      BY <1>7 DEF M!Found, M!Return
    <2>3. \A u \in Members : account'[u].business = IF u = memberTask[t].u THEN businesses + 1
                                                   ELSE account[u].business
      BY <1>7, <2>1, MembersAre DEF M!Found, AccountRecords
    <2>4. \A u \in Members : account'[u].business <= businesses'
      BY <2>2, <2>3, MembersAre DEF MembershipSizes
    <2>5. \A s \in Tasks : memberTask'[s].business <= businesses'
      BY <2>2, MembersAre DEF MembershipSizes
    <2>6. \A i \in 1 .. Len(invites) : invites[i].business <= businesses'
      BY <2>2, MembersAre DEF MembershipSizes
    <2>7. businesses' <= MaxBusinesses
      BY <2>2, MembersAre
    <2> QED
      BY <2>2, <2>4, <2>5, <2>6, <2>7 DEF MembershipSizes
  <1>8. ASSUME NEW t \in Tasks, M!RemoveWrite(t) \/ M!ChangeWrite(t) \/ M!ConfirmWrite(t)
        PROVE  MembershipSizes'
    <2>1. memberTask[t].u \in Members
      BY <1>8, MembersAre DEF M!RemoveWrite, M!ChangeWrite, M!ConfirmWrite, M!At, UserPcs
    <2>2. UNCHANGED <<identity, invites, businesses>> /\ M!Return(t)
      BY <1>8 DEF M!RemoveWrite, M!ChangeWrite, M!ConfirmWrite
    <2> DEFINE w == memberTask[t].u
    <2>3. PICK x : /\ x.business = account[w].business \/ x.business = 0
                   /\ account' = [account EXCEPT ![w] = x]
      <3>0. account[w] \in AccountRecords /\ account \in [Members -> AccountRecords]
        BY <2>1, MembersAre
      <3>1. CASE M!RemoveWrite(t)
        <4> DEFINE x == [account[w] EXCEPT !.business = 0, !.role = "RIDER"]
        <4>1. x.business = 0 /\ account' = [account EXCEPT ![w] = x]
          BY <2>1, <3>0, <3>1 DEF M!RemoveWrite, M!Removed, AccountRecords
        <4> QED
          BY <4>1
      <3>2. CASE M!ChangeWrite(t)
        <4> DEFINE x == [account[w] EXCEPT !.pending = memberTask[t].email]
        <4>1. x.business = account[w].business /\ account' = [account EXCEPT ![w] = x]
          BY <2>1, <3>0, <3>2 DEF M!ChangeWrite, AccountRecords
        <4> QED
          BY <4>1
      <3>3. CASE M!ConfirmWrite(t)
        <4> DEFINE x == [account[w] EXCEPT !.email = memberTask[t].email, !.pending = None]
        <4>1. x.business = account[w].business /\ account' = [account EXCEPT ![w] = x]
          BY <2>1, <3>0, <3>3 DEF M!ConfirmWrite, AccountRecords
        <4> QED
          BY <4>1
      <3> QED
        BY <1>8, <3>1, <3>2, <3>3
    <2>6. \A u \in Members : account'[u].business = account[u].business \/ account'[u].business = 0
      BY <2>1, <2>3, MembersAre
    <2>4. \A u \in Members : account'[u].business <= businesses
      BY <1>0, <2>6 DEF MembershipSizes
    <2>5. SizedCall(t)
      BY <2>2, CallsAreSized
    <2> QED
      BY <2>2, <2>4, <2>5, SizedCallKeeps DEF MembershipSizes
  <1>9. ASSUME NEW t \in Tasks, M!Identify(t) PROVE MembershipSizes'
    <2>1. memberTask[t].u \in Members
      BY <1>9, MembersAre DEF M!Identify, M!At, UserPcs
    <2>2. SizedCall(t)
      BY <1>9, CallsAreSized DEF M!Identify
    <2> QED
      BY <1>9, <2>1, <2>2, SizedCallKeeps DEF M!Identify, MembershipSizes
  <1>10. ASSUME NEW t \in Tasks, NEW u \in Members, NEW e \in Emails \cup {None}, M!Register(t, u, e)
         PROVE  MembershipSizes'
    <2>1. \A v \in Members : account'[v].business = account[v].business \/ account'[v].business = 0
      BY <1>10, MembersAre DEF M!Register, M!NoAccount
    <2>2. \A v \in Members : account'[v].business <= businesses
      BY <1>0, <2>1 DEF MembershipSizes
    <2> QED
      BY <1>10, <2>2 DEF M!Register, MembershipSizes
  <1>11. ASSUME NEW i \in M!Invites, M!Expire(i) PROVE MembershipSizes'
    <2>1. \A j \in 1 .. Len(invites) : invites[j] \in InviteRecords
      BY MembersAre
    <2>2. /\ Len(invites') = Len(invites)
          /\ \A j \in 1 .. Len(invites) : invites'[j].business = invites[j].business
      BY <1>11, <2>1, MembersAre DEF M!Expire, M!Invites, InviteRecords
    <2> QED
      BY <1>11, <2>2 DEF M!Expire, MembershipSizes
  <1>12. CASE M!Next
    BY <1>2, <1>3, <1>4, <1>5, <1>6, <1>7, <1>8, <1>9, <1>10, <1>11, <1>12
       DEF M!Next, M!InviteSteps, M!AccountSteps
  <1>13. CASE UNCHANGED memberVars
    BY <1>13 DEF memberVars, MembershipSizes
  <1> QED
    BY <1>12, <1>13 DEF Next, SessionsStep, MembershipStep, OnboardingStep, vars
-----------------------------------------------------------------------------
(* Guarantors.  What a call knows is about the rows, which only grow and   *)
(* keep the form that was sent; the operators take the rows as arguments,  *)
(* so that a lemma can speak of those of the next state.                   *)

RowStatuses == {"INVITED", "SUBMITTED", "VERIFIED", "REJECTED"}
GuarantorRows == [status : RowStatuses, live : BOOLEAN, submitted : BOOLEAN]
Renewals == {"renew", "SUBMITTED"}
Decisions == {"VERIFIED", "REJECTED"}
OnboardingTasks == [pc : {"idle", "create"} \cup Renewals \cup Decisions, row : Nat,
                    seen : {"NONE"} \cup RowStatuses]

\* A call that decides read a form that was sent, one that renews or submits an
\* open invitation, and one that makes a row that the newest is rejected.
Read(k, gs) ==
    /\ k.row <= Len(gs)
    /\ k.pc \in Renewals => k.row \in 1 .. Len(gs) /\ k.seen = "INVITED"
    /\ k.pc \in Decisions =>
          k.row \in 1 .. Len(gs) /\ k.seen = "SUBMITTED" /\ gs[k.row].submitted
    /\ k.pc = "create" =>
          k.row = 0 \/ (k.row \in 1 .. Len(gs) /\ k.seen = "REJECTED")

Honest(gs) == \A g \in 1 .. Len(gs) : gs[g].status # "INVITED" => gs[g].submitted
Excused(gs, st) ==
    \A g \in 1 .. Len(gs) : g < Len(gs) => gs[g].status = "REJECTED" \/ {g, g + 1} \cap st # {}

GuarantorsOK ==
    /\ guarantors \in Seq(GuarantorRows) /\ onboardingTask \in [Tasks -> OnboardingTasks]
    /\ \A t \in Tasks : Read(onboardingTask[t], guarantors)
    /\ Honest(guarantors)
    /\ Excused(guarantors, stale)
    /\ Len(guarantors) <= MaxGuarantors
    /\ Len(documents) <= MaxDocuments

OnboardingMoves(t, k) == onboardingTask' = [onboardingTask EXCEPT ![t] = k]

\* The rows grow, and keep the forms that were sent.
Grown(gs, more) ==
    /\ more \in Seq(GuarantorRows) /\ Len(gs) <= Len(more)
    /\ \A g \in 1 .. Len(gs) : gs[g].submitted => more[g].submitted

LEMMA GuarantorCallIs ==
    ASSUME GuarantorsOK, NEW t \in Tasks
    PROVE  /\ onboardingTask[t] \in OnboardingTasks /\ onboardingTask[t].row \in Nat
           /\ Read(onboardingTask[t], guarantors)
           /\ guarantors \in Seq(GuarantorRows) /\ Len(guarantors) \in Nat
           /\ DOMAIN guarantors = 1 .. Len(guarantors)
  BY DEF GuarantorsOK, OnboardingTasks

\* A step of one call, or of none, keeps what the calls know.
LEMMA GuarantorStep ==
    ASSUME GuarantorsOK, NEW t \in Tasks, UNCHANGED documents,
           Grown(guarantors, guarantors'), Len(guarantors') <= MaxGuarantors,
           Honest(guarantors'), Excused(guarantors', stale'),
           NEW k \in OnboardingTasks, OnboardingMoves(t, k), Read(k, guarantors')
    PROVE  GuarantorsOK'
  <1>1. onboardingTask' \in [Tasks -> OnboardingTasks]
    BY DEF GuarantorsOK, OnboardingMoves
  <1>2. ASSUME NEW s \in Tasks PROVE Read(onboardingTask'[s], guarantors')
    <2>1. CASE s = t
      BY <2>1 DEF GuarantorsOK, OnboardingMoves
    <2>2. CASE s # t
      <3>1. onboardingTask'[s] = onboardingTask[s]
        BY <2>2 DEF GuarantorsOK, OnboardingMoves
      <3>2. Len(guarantors') \in Nat
        BY DEF Grown
      <3> QED
        BY <3>1, <3>2, GuarantorCallIs DEF Read, Grown
    <2> QED
      BY <2>1, <2>2
  <1> QED
    BY <1>1, <1>2 DEF GuarantorsOK, Grown, Read, Honest, Excused

LEMMA GuarantorReturns ==
    ASSUME GuarantorsOK, NEW t \in Tasks, O!Return(t), UNCHANGED documents,
           Grown(guarantors, guarantors'), Len(guarantors') <= MaxGuarantors,
           Honest(guarantors'), Excused(guarantors', stale')
    PROVE  GuarantorsOK'
  <1>1. O!Idle \in OnboardingTasks /\ O!Idle.pc = "idle" /\ O!Idle.row = 0
    BY DEF O!Idle, OnboardingTasks
  <1>2. OnboardingMoves(t, O!Idle)
    BY DEF O!Return, OnboardingMoves
  <1>3. Len(guarantors') \in Nat
    BY DEF Grown
  <1>4. Read(O!Idle, guarantors')
    BY <1>1, <1>3 DEF Read, Renewals, Decisions
  <1> QED
    BY <1>1, <1>2, <1>4, GuarantorStep

\* The rows stay what they are.
LEMMA GuarantorsStay ==
    ASSUME GuarantorsOK
    PROVE  /\ Grown(guarantors, guarantors) /\ Len(guarantors) <= MaxGuarantors
           /\ Honest(guarantors) /\ Excused(guarantors, stale)
           /\ Len(guarantors) \in Nat /\ DOMAIN guarantors = 1 .. Len(guarantors)
           /\ \A g \in 1 .. Len(guarantors) : guarantors[g] \in GuarantorRows
  BY DEF GuarantorsOK, Grown

\* A row is written: with a status that needs a form only if one was sent, and
\* by a call that read the row as open or as sent, or else it is marked.
LEMMA RowWritten ==
    ASSUME GuarantorsOK, NEW g \in 1 .. Len(guarantors), NEW x \in GuarantorRows,
           guarantors' = [guarantors EXCEPT ![g] = x],
           guarantors[g].submitted => x.submitted,
           x.status # "INVITED" => x.submitted,
           stale \subseteq stale',
           guarantors[g].status # "REJECTED" \/ x.status = "REJECTED" \/ g \in stale'
    PROVE  /\ Grown(guarantors, guarantors') /\ Len(guarantors') <= MaxGuarantors
           /\ Honest(guarantors') /\ Excused(guarantors', stale')
  <1>1. guarantors \in Seq(GuarantorRows) /\ Honest(guarantors) /\ Excused(guarantors, stale)
    BY DEF GuarantorsOK
  <1>2. /\ guarantors' \in Seq(GuarantorRows) /\ Len(guarantors') = Len(guarantors)
        /\ Len(guarantors) \in Nat
    BY <1>1
  <1>3. \A h \in 1 .. Len(guarantors) : guarantors'[h] = IF h = g THEN x ELSE guarantors[h]
    BY <1>1
  <1>4. Grown(guarantors, guarantors') /\ Len(guarantors') <= MaxGuarantors
    BY <1>2, <1>3 DEF Grown, GuarantorsOK
  <1>5. Honest(guarantors')
    BY <1>1, <1>2, <1>3 DEF Honest
  <1>6. ASSUME NEW h \in 1 .. Len(guarantors), h < Len(guarantors)
        PROVE  guarantors'[h].status = "REJECTED" \/ {h, h + 1} \cap stale' # {}
    <2>1. guarantors[h].status = "REJECTED" \/ {h, h + 1} \cap stale # {}
      BY <1>1, <1>6 DEF Excused
    <2>2. CASE h = g
      BY <1>3, <2>1, <2>2
    <2>3. CASE h # g
      BY <1>3, <2>1, <2>3
    <2> QED
      BY <2>2, <2>3
  <1>7. Excused(guarantors', stale')
    BY <1>2, <1>6 DEF Excused
  <1> QED
    BY <1>4, <1>5, <1>7

LEMMA InviteKeeps ==
    ASSUME GuarantorsOK, NEW t \in Tasks, O!Invite(t)
    PROVE  GuarantorsOK'
  <1> DEFINE n == Len(guarantors)
             k == [pc |-> IF O!Status(n) = "INVITED" THEN "renew" ELSE "create",
                   row |-> n, seen |-> O!Status(n)]
  <1>1. n \in Nat /\ O!Status(n) \in {"NONE", "INVITED", "REJECTED"}
    BY GuarantorsStay DEF O!Invite, O!Newest
  <1>2. /\ OnboardingMoves(t, k) /\ UNCHANGED <<documents, guarantors, stale>>
    BY DEF O!Invite, O!Call, O!Newest, OnboardingMoves
  <1>3. k \in OnboardingTasks
    BY <1>1 DEF OnboardingTasks, Renewals, RowStatuses
  <1>4. Read(k, guarantors)
    <2>1. CASE n = 0
      <3>1. O!Status(n) = "NONE"
        BY <2>1 DEF O!Status
      <3>2. k.pc = "create" /\ k.row = 0
        BY <2>1, <3>1
      <3> HIDE DEF k
      <3> QED
        BY <2>1, <3>2 DEF Read, Renewals, Decisions
    <2>2. CASE n # 0
      <3>1. n \in 1 .. n /\ O!Status(n) = guarantors[n].status /\ guarantors[n] \in GuarantorRows
        BY <1>1, <2>2, GuarantorsStay DEF O!Status
      <3>2. O!Status(n) # "NONE"
        BY <3>1 DEF GuarantorRows, RowStatuses
      <3> QED
        BY <1>1, <3>1, <3>2 DEF Read, Renewals, Decisions
    <2> QED
      BY <2>1, <2>2
  <1> HIDE DEF k
  <1> QED
    BY <1>2, <1>3, <1>4, GuarantorsStay, GuarantorStep

LEMMA InviteNewKeeps ==
    ASSUME GuarantorsOK, NEW t \in Tasks, O!InviteNew(t)
    PROVE  GuarantorsOK'
  <1> DEFINE n == Len(guarantors)
             r == onboardingTask[t].row
  <1>1. O!Invitation \in GuarantorRows /\ O!Invitation.status = "INVITED"
    BY DEF O!Invitation, GuarantorRows, RowStatuses
  <1>2. /\ guarantors \in Seq(GuarantorRows) /\ n \in Nat /\ n < MaxGuarantors
        /\ guarantors' = Append(guarantors, O!Invitation)
        /\ O!Return(t) /\ UNCHANGED documents
        /\ onboardingTask[t].pc = "create"
        /\ stale' = stale \cup {i \in {n + 1} : O!Outdated(t) \/ r # n}
        /\ MaxGuarantors \in Nat
    BY GuarantorsStay, AccountsAssumption
       DEF O!InviteNew, O!At, O!Marks, O!Newest, GuarantorsOK, O!OnboardingAssumption
  <1>3. /\ guarantors' \in Seq(GuarantorRows) /\ Len(guarantors') = n + 1
        /\ \A g \in 1 .. n : guarantors'[g] = guarantors[g]
        /\ guarantors'[n + 1] = O!Invitation
    BY <1>1, <1>2
  <1>4. Grown(guarantors, guarantors') /\ Len(guarantors') <= MaxGuarantors
    BY <1>2, <1>3 DEF Grown
  <1>5. ASSUME NEW g \in 1 .. Len(guarantors'), guarantors'[g].status # "INVITED"
        PROVE  guarantors'[g].submitted
    <2>1. g \in 1 .. n
      BY <1>1, <1>2, <1>3, <1>5
    <2> QED
      BY <1>3, <1>5, <2>1, GuarantorsStay DEF Honest
  <1>6. ASSUME NEW g \in 1 .. Len(guarantors'), g < Len(guarantors')
        PROVE  guarantors'[g].status = "REJECTED" \/ {g, g + 1} \cap stale' # {}
    <2>1. g \in 1 .. n
      BY <1>2, <1>3, <1>6
    <2>2. CASE g < n
      BY <1>2, <1>3, <2>1, <2>2, GuarantorsStay DEF Excused
    <2>3. CASE g = n
      <3>1. CASE O!Outdated(t) \/ r # n
        BY <1>2, <2>3, <3>1
      <3>2. CASE ~ O!Outdated(t) /\ r = n
        <4>1. onboardingTask[t].seen = "REJECTED"
          BY <1>2, <2>1, <2>3, <3>2, GuarantorCallIs DEF Read
        <4>2. guarantors[n].status = "REJECTED"
          BY <2>1, <2>3, <3>2, <4>1 DEF O!Outdated, O!Status
        <4> QED
          BY <1>3, <2>1, <2>3, <4>2
      <3> QED
        BY <3>1, <3>2
    <2> QED
      BY <1>2, <2>1, <2>2, <2>3
  <1>7. Honest(guarantors') /\ Excused(guarantors', stale')
    BY <1>5, <1>6 DEF Honest, Excused
  <1> QED
    BY <1>2, <1>4, <1>7, GuarantorReturns

\* A call that read its row as open or sent, or writes a rejection.
LEMMA CallWritesRow ==
    ASSUME GuarantorsOK, NEW t \in Tasks, O!InviteAgain(t) \/ O!GuarantorWrite(t)
    PROVE  GuarantorsOK'
  <1> DEFINE g == onboardingTask[t].row
             k == onboardingTask[t]
  <1>1. /\ k.pc \in Renewals \cup Decisions
        /\ stale' = stale \cup {i \in {g} : O!Outdated(t)}
        /\ O!Return(t) /\ UNCHANGED documents
    BY DEF O!InviteAgain, O!GuarantorWrite, O!At, O!Marks, Renewals, Decisions
  <1>2. /\ g \in 1 .. Len(guarantors) /\ k.seen \in {"INVITED", "SUBMITTED"}
        /\ k.pc \in Decisions => guarantors[g].submitted
    BY <1>1, GuarantorCallIs DEF Read
  <1>3. guarantors[g] \in GuarantorRows
    BY <1>2, GuarantorsStay
  <1>4. guarantors[g].status # "REJECTED" \/ g \in stale'
    BY <1>1, <1>2 DEF O!Outdated, O!Status
  <1>5. PICK x \in GuarantorRows :
            /\ guarantors' = [guarantors EXCEPT ![g] = x]
            /\ guarantors[g].submitted => x.submitted
            /\ x.status # "INVITED" => x.submitted
    <2>1. CASE O!InviteAgain(t)
      <3> DEFINE x == [guarantors[g] EXCEPT !.status = "INVITED", !.live = TRUE]
      <3>1. x \in GuarantorRows /\ x.status = "INVITED" /\ x.submitted = guarantors[g].submitted
        BY <1>3 DEF GuarantorRows, RowStatuses
      <3>2. guarantors' = [guarantors EXCEPT ![g] = x]
        BY <1>2, <1>3, <2>1, GuarantorsStay DEF O!InviteAgain, GuarantorRows
      <3> QED
        BY <3>1, <3>2
    <2>2. CASE O!GuarantorWrite(t)
      <3> DEFINE sent == guarantors[g].submitted \/ k.pc = "SUBMITTED"
                 x == [guarantors[g] EXCEPT !.status = k.pc, !.submitted = sent]
      <3>1. k.pc \in {"SUBMITTED", "VERIFIED", "REJECTED"} /\ sent \in BOOLEAN
        BY <1>3, <2>2 DEF O!GuarantorWrite, GuarantorRows
      <3>2. sent
        BY <1>2, <3>1 DEF Decisions
      <3>3. x \in GuarantorRows /\ x.submitted
        BY <1>3, <3>1, <3>2 DEF GuarantorRows, RowStatuses
      <3>4. guarantors' = [guarantors EXCEPT ![g] = x]
        BY <1>2, <1>3, <2>2, GuarantorsStay DEF O!GuarantorWrite, GuarantorRows
      <3> QED
        BY <3>3, <3>4
    <2> QED
      BY <2>1, <2>2
  <1>6. stale \subseteq stale'
    BY <1>1
  <1>7. /\ Grown(guarantors, guarantors') /\ Len(guarantors') <= MaxGuarantors
        /\ Honest(guarantors') /\ Excused(guarantors', stale')
    BY <1>2, <1>4, <1>5, <1>6, RowWritten
  <1> QED
    BY <1>1, <1>7, GuarantorReturns

LEMMA GuarantorCalls ==
    ASSUME GuarantorsOK, NEW t \in Tasks, NEW g \in DOMAIN guarantors,
           O!SubmitForm(t, g) \/ \E v \in Decisions : O!ReviewGuarantor(t, g, v)
    PROVE  GuarantorsOK'
  <1>1. PICK pc \in {"SUBMITTED"} \cup Decisions :
            /\ O!Call(t, pc, g) /\ UNCHANGED <<documents, guarantors, stale>>
            /\ pc = "SUBMITTED" => guarantors[g].status = "INVITED"
            /\ pc \in Decisions => guarantors[g].status = "SUBMITTED"
    BY DEF O!SubmitForm, O!ReviewGuarantor, O!Reviewable, Decisions
  <1>2. /\ g \in 1 .. Len(guarantors) /\ Len(guarantors) \in Nat
        /\ guarantors[g] \in GuarantorRows /\ g \in Nat /\ g # 0 /\ g <= Len(guarantors)
    BY GuarantorsStay
  <1> DEFINE k == [pc |-> pc, row |-> g, seen |-> guarantors[g].status]
  <1>3. k \in OnboardingTasks
    BY <1>1, <1>2 DEF OnboardingTasks, Renewals, GuarantorRows
  <1>4. OnboardingMoves(t, k)
    BY <1>1, <1>2 DEF O!Call, O!Status, OnboardingMoves
  <1>5. Read(k, guarantors)
    BY <1>1, <1>2, GuarantorsStay DEF Read, Honest, Renewals, Decisions
  <1> HIDE DEF k
  <1> QED
    BY <1>1, <1>3, <1>4, <1>5, GuarantorsStay, GuarantorStep

LEMMA LinkExpiresKeeps ==
    ASSUME GuarantorsOK, NEW g \in DOMAIN guarantors, O!LinkExpires(g)
    PROVE  GuarantorsOK'
  <1> DEFINE x == [guarantors[g] EXCEPT !.live = FALSE]
  <1>1. g \in 1 .. Len(guarantors) /\ guarantors[g] \in GuarantorRows
    BY GuarantorsStay
  <1>2. /\ x \in GuarantorRows /\ x.status = guarantors[g].status
        /\ x.submitted = guarantors[g].submitted
    BY <1>1 DEF GuarantorRows
  <1>3. /\ guarantors' = [guarantors EXCEPT ![g] = x]
        /\ UNCHANGED <<documents, onboardingTask, stale>>
    BY <1>1, GuarantorsStay DEF O!LinkExpires, GuarantorRows
  <1> HIDE DEF x
  <1>4. guarantors[g].status # "INVITED" => guarantors[g].submitted
    BY <1>1, GuarantorsStay DEF Honest
  <1>5. /\ Grown(guarantors, guarantors') /\ Len(guarantors') <= MaxGuarantors
        /\ Honest(guarantors') /\ Excused(guarantors', stale')
    BY <1>1, <1>2, <1>3, <1>4, RowWritten
  <1>6. \A t \in Tasks : Read(onboardingTask[t], guarantors')
    <2> TAKE t \in Tasks
    <2>1. Len(guarantors') \in Nat
      BY <1>5 DEF Grown
    <2> QED
      BY <1>5, <2>1, GuarantorCallIs DEF Read, Grown
  <1> QED
    BY <1>3, <1>5, <1>6 DEF GuarantorsOK, Grown, Read, Honest, Excused

LEMMA GuarantorsNext ==
    ASSUME DocumentsOK, GuarantorsOK, [Next]_vars
    PROVE  GuarantorsOK'
  <1>0. MaxDocuments \in Nat /\ Len(documents) \in Nat
    BY AccountsAssumption DEF O!OnboardingAssumption, DocumentsOK
  <1>1. ASSUME UNCHANGED <<guarantors, onboardingTask, stale>>, Len(documents') <= MaxDocuments
        PROVE  GuarantorsOK'
    BY <1>1 DEF GuarantorsOK, Read, Honest, Excused
  <1>2. ASSUME NEW type \in DocumentTypes \cup O!Verifications, O!Submit(type)
        PROVE  GuarantorsOK'
    <2>1. Len(documents') = Len(documents) + 1 /\ Len(documents) < MaxDocuments
      BY <1>2 DEF O!Submit, DocumentsOK
    <2> QED
      BY <1>0, <1>1, <1>2, <2>1 DEF O!Submit
  <1>3. ASSUME NEW v \in {"APPROVED", "REJECTED"}, O!Review(v)
        PROVE  GuarantorsOK'
    <2>1. DOMAIN documents = 1 .. Len(documents)
      BY DEF DocumentsOK
    <2>2. documents' = [i \in 1 .. Len(documents) |->
                            IF O!UnderReview(i) THEN [documents[i] EXCEPT !.status = v]
                                                ELSE documents[i]]
      BY <1>3, <2>1 DEF O!Review
    <2>3. Len(documents') = Len(documents)
      BY <1>0, <2>2
    <2> QED
      BY <1>1, <1>3, <2>3 DEF O!Review, GuarantorsOK
  <1>4. ASSUME NEW t \in Tasks, O!Throw(t) PROVE GuarantorsOK'
    BY <1>4, GuarantorsStay, GuarantorReturns DEF O!Throw
  <1>5. CASE UNCHANGED onboardingVars
    BY <1>1, <1>5 DEF onboardingVars, GuarantorsOK
  <1>6. CASE O!Next
    BY <1>2, <1>3, <1>4, <1>6, InviteKeeps, InviteNewKeeps, CallWritesRow, GuarantorCalls,
       LinkExpiresKeeps DEF O!Next, Decisions
  <1> QED
    BY <1>5, <1>6 DEF Next, SessionsStep, MembershipStep, OnboardingStep, vars

LEMMA GuarantorsInit == Init => GuarantorsOK
  BY AccountsAssumption
     DEF Init, O!Init, O!Idle, O!OnboardingAssumption, OnboardingTasks, GuarantorsOK,
         Read, Honest, Excused, Renewals, Decisions

LEMMA GuarantorsAlways == Spec => []GuarantorsOK
  BY GuarantorsInit, GuarantorsNext, DocumentsTyped, PTL DEF Spec

\* Whatever invitations, forms and reviews overlap or fail, a guarantor is
\* verified or rejected only if the form was sent; and one besides the newest
\* is not rejected only if a call wrote on it, or made the next one, by what it
\* had read and was no longer so (invite, submit, approve and reject of
\* guarantor.service.ts).
THEOREM OneGuarantorHolds == Spec => []OneGuarantor
  <1>1. GuarantorsOK => OneGuarantor
    <2> SUFFICES ASSUME GuarantorsOK PROVE OneGuarantor
      OBVIOUS
    <2> QED
      BY GuarantorsStay DEF Honest, Excused, OneGuarantor, O!OneGuarantor, O!Before, O!Newest
  <1> QED
    BY <1>1, GuarantorsAlways, PTL

\* Whatever calls overlap or fail, every variable of the three components has
\* its type: each column a value of its own, no more rows than were created,
\* and every company that an account or an invitation names has been created
\* (auth.service.ts, invites.service.ts, business.service.ts, kyc.service.ts).
THEOREM AccountsTyped == Spec => []AccountsTypeOK
  <1>1. Init => SessionSizes /\ MembershipSizes /\ GuarantorsOK
    <2>1. Init => SessionSizes
      BY AccountsAssumption DEF Init, S!Init, S!SessionsAssumption, SessionSizes
    <2>2. Init => MembershipSizes
      BY AccountsAssumption
         DEF Init, M!Init, M!NoAccount, M!Idle, M!MembershipAssumption, MembershipSizes
    <2>3. Init => GuarantorsOK
      BY GuarantorsInit
    <2> QED
      BY <2>1, <2>2, <2>3
  <1>2. /\ SessionsInv /\ MembershipInv /\ DocumentsOK
        /\ SessionSizes /\ MembershipSizes /\ GuarantorsOK /\ [Next]_vars
        => SessionSizes' /\ MembershipSizes' /\ GuarantorsOK'
    BY SessionSizesNext, MembershipSizesNext, GuarantorsNext
  <1>3. SessionsInv /\ SessionSizes => S!SessionsTypeOK
    <2> SUFFICES ASSUME SessionsInv, SessionSizes PROVE S!SessionsTypeOK
      OBVIOUS
    <2>1. codes \in Seq(CodeRecords) /\ sessions \in Seq(SessionRecords)
      BY CodesAre
    <2>2. \A t \in Tasks : sessionTask[t].u \in Users \cup {None}
      BY SessionCallIs DEF SessionTasks
    <2>3. status \in [Users -> UserStatuses]
      BY DEF SessionsInv
    <2> QED
      BY <2>1, <2>2, <2>3
         DEF S!SessionsTypeOK, SessionSizes, CodeRecords, SessionRecords, UserStatuses
  <1>4. MembershipInv /\ MembershipSizes => M!MembershipTypeOK
    <2> SUFFICES ASSUME MembershipInv, MembershipSizes PROVE M!MembershipTypeOK
      OBVIOUS
    <2> DEFINE Accts == [role : M!Roles, business : 0 .. MaxBusinesses,
                         email : Emails \cup {None}, pending : Emails \cup {None}]
               Invs == [email : Emails, business : 0 .. MaxBusinesses, role : M!Roles,
                        status : M!InviteStatuses, live : BOOLEAN, sent : BOOLEAN,
                        user : Members \cup {None}]
    <2>1. \A u \in Members : account[u] \in Accts
      <3> TAKE u \in Members
      <3>1. account[u] \in AccountRecords /\ account[u].business \in 0 .. MaxBusinesses
        BY MembersAre DEF MembershipSizes
      <3> QED
        BY <3>1 DEF AccountRecords
    <2>2. \A i \in 1 .. Len(invites) : invites[i] \in Invs
      <3> TAKE i \in 1 .. Len(invites)
      <3>1. invites[i] \in InviteRecords /\ invites[i].business \in 0 .. MaxBusinesses
        BY MembersAre DEF MembershipSizes
      <3> QED
        BY <3>1 DEF InviteRecords
    <2>3. account \in [Members -> Accts]
      BY <2>1, MembersAre
    <2> HIDE DEF Accts, Invs
    <2>4. invites \in Seq(Invs)
      BY <2>2, MembersAre
    <2>5. businesses \in 0 .. MaxBusinesses /\ \A t \in Tasks : memberTask[t].u \in Members \cup {None}
      BY MembersAre DEF MembershipSizes, TaskRecords
    <2> QED
      BY <2>3, <2>4, <2>5 DEF M!MembershipTypeOK, MembershipSizes, Accts, Invs
  <1>5. DocumentsOK /\ GuarantorsOK => O!OnboardingTypeOK
    <2> SUFFICES ASSUME DocumentsOK, GuarantorsOK PROVE O!OnboardingTypeOK
      OBVIOUS
    <2>1. O!Overall \in {"PENDING", "APPROVED", "REJECTED"}
      BY DEF O!Overall
    <2>2. \A t \in Tasks : onboardingTask[t].row \in 0 .. MaxGuarantors
      <3> TAKE t \in Tasks
      <3>1. /\ Len(guarantors) \in Nat /\ MaxGuarantors \in Nat /\ Len(guarantors) <= MaxGuarantors
            /\ onboardingTask[t] \in OnboardingTasks /\ onboardingTask[t].row <= Len(guarantors)
        BY AccountsAssumption, GuarantorsStay, GuarantorCallIs DEF O!OnboardingAssumption, Read
      <3>2. onboardingTask[t].row \in Nat
        BY <3>1 DEF OnboardingTasks
      <3> QED
        BY <3>1, <3>2
    <2> QED
      BY <2>1, <2>2
         DEF O!OnboardingTypeOK, DocumentsOK, GuarantorsOK, DocumentRows, Verdicts,
             GuarantorRows, RowStatuses
  <1>6. /\ SessionsInv /\ SessionSizes /\ MembershipInv /\ MembershipSizes
        /\ DocumentsOK /\ GuarantorsOK
        => AccountsTypeOK
    BY <1>3, <1>4, <1>5 DEF AccountsTypeOK
  <1> QED
    BY <1>1, <1>2, <1>6, SessionsAlways, MembershipAlways, DocumentsTyped, PTL DEF Spec
=============================================================================
