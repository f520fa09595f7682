------------------------------ MODULE Accounts ------------------------------
(* The accounts (src/src/accounts, src/src/business, src/src/kyc): codes   *)
(* and sessions, memberships and invitations, and what drivers submit.     *)
(* They share no row, so each runs on its own: the initial state says      *)
(* which of them a behaviour is about.                                     *)
EXTENDS Naturals

CONSTANTS
    Tasks, None,
    Users, MaxAttempts, MaxCodes, MaxSessions,          \* of Sessions
    Members, Emails, MaxInvites, MaxBusinesses,         \* of Membership
    DocumentTypes, MaxDocuments, MaxGuarantors          \* of Onboarding

VARIABLES
    part,
    status, hasPassword, codes, sessions, sessionTask,
    account, identity, invites, businesses, memberTask,
    documents, guarantors, onboardingTask, stale

sessionVars == <<status, hasPassword, codes, sessions, sessionTask>>
memberVars == <<account, identity, invites, businesses, memberTask>>
onboardingVars == <<documents, guarantors, onboardingTask, stale>>
vars == <<part, sessionVars, memberVars, onboardingVars>>

S == INSTANCE Sessions WITH task <- sessionTask
M == INSTANCE Membership WITH Users <- Members, task <- memberTask
O == INSTANCE Onboarding WITH task <- onboardingTask

ASSUME AccountsAssumption ==
    S!SessionsAssumption /\ M!MembershipAssumption /\ O!OnboardingAssumption

Init == part \in {"sessions", "membership", "onboarding"} /\ S!Init /\ M!Init /\ O!Init

SessionsStep == part = "sessions" /\ S!Next /\ UNCHANGED <<part, memberVars, onboardingVars>>
MembershipStep == part = "membership" /\ M!Next /\ UNCHANGED <<part, sessionVars, onboardingVars>>
OnboardingStep == part = "onboarding" /\ O!Next /\ UNCHANGED <<part, sessionVars, memberVars>>
Next == SessionsStep \/ MembershipStep \/ OnboardingStep

Spec == Init /\ [][Next]_vars

\* Every variable of the three components has its type.
AccountsTypeOK == S!SessionsTypeOK /\ M!MembershipTypeOK /\ O!OnboardingTypeOK

\* A reset link works once and a consumed one did (auth.service.ts:296-316).
ResetIsOnce == S!ResetIsOnce

\* Overlapping guesses pass a code's limit by no more than themselves
\* (otp.service.ts:46-56).
AttemptsAreBounded == S!AttemptsAreBounded

\* A role in a company and a company go together, and an accepted invitation
\* has its account (business.service.ts:153-203, invites.service.ts:191-216).
MembersHaveRoles == M!MembersHaveRoles

\* Verdicts are on guarantors who sent their form, and a driver has one
\* guarantor at a time but for outdated writes (guarantor.service.ts:58-274).
OneGuarantor == O!OneGuarantor

\* The comment that the code does not keep: see the module.
OnlySubmittedIsVerified == O!OnlySubmittedIsVerified
=============================================================================
