----------------------------- MODULE Onboarding -----------------------------
(***************************************************************************)
(* What a driver submits before driving: identity documents and automated  *)
(* verifications (src/src/kyc/kyc.service.ts) and a guarantor              *)
(* (src/src/kyc/guarantor.service.ts).  One driver: nothing here relates   *)
(* two.                                                                    *)
(*                                                                         *)
(* A call that reads before it writes is a task.  Documents and guarantors *)
(* are rows in order of creation.  Abstracted: files, the personal data,   *)
(* the secret of a guarantor's link (each renewal makes another link; the  *)
(* last one works), notifications and the audit log.                       *)
(***************************************************************************)
EXTENDS Naturals, Sequences, FiniteSetsExt

CONSTANTS
    DocumentTypes,      \* the required types of document
    Tasks,              \* slots for calls in progress (a bound on concurrency)
    MaxDocuments,       \* bound on the documents and verifications submitted
    MaxGuarantors       \* bound on the guarantor rows

\* What the constants are taken to be (the models that use this module assume it).
OnboardingAssumption ==
    /\ DocumentTypes \cap {"FACIAL", "GOVERNMENT_ID"} = {}
    /\ MaxDocuments \in Nat
    /\ MaxGuarantors \in Nat

VARIABLES
    documents,      \* the KycDocument and KycVerification rows
    guarantors,     \* the Guarantor rows
    task,           \* the calls in progress, with what they read
    stale           \* guarantors written by a call whose reading no longer held

vars == <<documents, guarantors, task, stale>>

Verifications == {"FACIAL", "GOVERNMENT_ID"}
Idle == [pc |-> "idle", row |-> 0, seen |-> "NONE"]

Status(g) == IF g = 0 THEN "NONE" ELSE guarantors[g].status
Call(t, pc, row) ==
    /\ task[t] = Idle
    /\ task' = [task EXCEPT ![t] = [pc |-> pc, row |-> row, seen |-> Status(row)]]
At(t, pc) == task[t].pc = pc
Return(t) == task' = [task EXCEPT ![t] = Idle]

Init ==
    /\ documents = <<>>
    /\ guarantors = <<>>
    /\ task = [t \in Tasks |-> Idle]
    /\ stale = {}

-----------------------------------------------------------------------------
(* Documents and verifications.                                            *)

\* uploadDocument, submitFacialVerification, submitGovernmentId.
Submit(type) ==
    /\ Len(documents) < MaxDocuments
    /\ documents' = Append(documents, [type |-> type, status |-> "PENDING"])
    /\ UNCHANGED <<guarantors, task, stale>>

\* What a review covers; a verification's status comes from the provider.
UnderReview(i) == documents[i].type \in DocumentTypes /\ documents[i].status = "PENDING"

\* approve and reject: one UPDATE over the driver's documents.
Review(verdict) ==
    /\ \E i \in DOMAIN documents : UnderReview(i)
    /\ documents' = [i \in DOMAIN documents |->
                        IF UnderReview(i) THEN [documents[i] EXCEPT !.status = verdict]
                                          ELSE documents[i]]
    /\ UNCHANGED <<guarantors, task, stale>>

\* getStatus: the latest submission of each type is what counts.
Submissions(type) == {i \in DOMAIN documents : documents[i].type = type}
Latest(type) ==
    IF Submissions(type) = {} THEN "NONE" ELSE documents[Max(Submissions(type))].status

Overall ==
    LET required == {Latest(type) : type \in DocumentTypes \cup Verifications}
    IN  IF "REJECTED" \in required THEN "REJECTED"
        ELSE IF required = {"APPROVED"} THEN "APPROVED"
        ELSE "PENDING"

-----------------------------------------------------------------------------
(* Guarantors.                                                             *)

Newest == Len(guarantors)

\* invite: decided by the newest row as it was read.
Invite(t) ==
    /\ Status(Newest) \in {"NONE", "INVITED", "REJECTED"}
    /\ Call(t, IF Status(Newest) = "INVITED" THEN "renew" ELSE "create", Newest)
    /\ UNCHANGED <<documents, guarantors, stale>>

\* What the call read of its row is no longer so.
Outdated(t) == Status(task[t].row) # task[t].seen
Marks(g, outdated) == stale' = stale \cup {i \in {g} : outdated}

Invitation == [status |-> "INVITED", live |-> TRUE, submitted |-> FALSE]

InviteNew(t) ==
    /\ At(t, "create")
    /\ Newest < MaxGuarantors
    /\ guarantors' = Append(guarantors, Invitation)
    /\ Marks(Newest + 1, Outdated(t) \/ task[t].row # Newest)
    /\ Return(t)
    /\ UNCHANGED documents

\* The row's submittedAt stays what it is.
InviteAgain(t) ==
    /\ At(t, "renew")
    /\ guarantors' = [guarantors EXCEPT ![task[t].row].status = "INVITED",
                                        ![task[t].row].live = TRUE]
    /\ Marks(task[t].row, Outdated(t))
    /\ Return(t)
    /\ UNCHANGED documents

LinkExpires(g) ==
    /\ guarantors[g].status = "INVITED" /\ guarantors[g].live
    /\ guarantors' = [guarantors EXCEPT ![g].live = FALSE]
    /\ UNCHANGED <<documents, task, stale>>

\* submit: the files are uploaded in between.
SubmitForm(t, g) ==
    /\ guarantors[g].status = "INVITED" /\ guarantors[g].live
    /\ Call(t, "SUBMITTED", g)
    /\ UNCHANGED <<documents, guarantors, stale>>

\* Mutant of Reviewable: a form that was sent may be decided on, whatever came of it.
ReviewableSent(g) == guarantors[g].submitted

Reviewable(g) == guarantors[g].status = "SUBMITTED"

\* approve, reject.
ReviewGuarantor(t, g, verdict) ==
    /\ Reviewable(g)
    /\ Call(t, verdict, g)
    /\ UNCHANGED <<documents, guarantors, stale>>

\* The row is updated by its id to the status the call decided on.
GuarantorWrite(t) ==
    /\ task[t].pc \in {"SUBMITTED", "VERIFIED", "REJECTED"}
    /\ guarantors' = [guarantors EXCEPT
                         ![task[t].row].status = task[t].pc,
                         ![task[t].row].submitted = @ \/ task[t].pc = "SUBMITTED"]
    /\ Marks(task[t].row, Outdated(t))
    /\ Return(t)
    /\ UNCHANGED documents

\* A statement or an upload fails: the call throws.
Throw(t) ==
    /\ task[t] # Idle
    /\ Return(t)
    /\ UNCHANGED <<documents, guarantors, stale>>

Next ==
    \/ \E type \in DocumentTypes \cup Verifications : Submit(type)
    \/ \E verdict \in {"APPROVED", "REJECTED"} : Review(verdict)
    \/ \E t \in Tasks :
          \/ Invite(t) \/ InviteNew(t) \/ InviteAgain(t) \/ GuarantorWrite(t) \/ Throw(t)
          \/ \E g \in DOMAIN guarantors :
                \/ SubmitForm(t, g)
                \/ \E verdict \in {"VERIFIED", "REJECTED"} : ReviewGuarantor(t, g, verdict)
    \/ \E g \in DOMAIN guarantors : LinkExpires(g)

\* The reviewers act: a driver's pending documents get a verdict.
Spec == Init /\ [][Next]_vars
FairSpec == Spec /\ WF_vars(\E verdict \in {"APPROVED", "REJECTED"} : Review(verdict))

-----------------------------------------------------------------------------
(* Properties.                                                             *)

\* Every document, guarantor and call in progress has its type, and the
\* verdict on the driver is one of the three.
OnboardingTypeOK ==
    /\ documents \in Seq([type : DocumentTypes \cup Verifications,
                          status : {"PENDING", "APPROVED", "REJECTED"}])
    /\ Len(documents) <= MaxDocuments
    /\ guarantors \in Seq([status : {"INVITED", "SUBMITTED", "VERIFIED", "REJECTED"},
                           live : BOOLEAN, submitted : BOOLEAN])
    /\ Len(guarantors) <= MaxGuarantors
    /\ \A t \in Tasks : task[t].row \in 0 .. MaxGuarantors
    /\ Overall \in {"PENDING", "APPROVED", "REJECTED"}

Before(g) == {h \in DOMAIN guarantors : h < g}

\* Invitations, forms and reviews that overlap or fail at any statement verify
\* and reject only guarantors who sent their form; and a driver has a guarantor
\* besides the newest who is not rejected only if a call wrote on that row, or
\* made the next one, by a reading that no longer held: "A SUBMITTED or VERIFIED
\* guarantor blocks a new invite outright; a REJECTED one is left alone and a
\* brand new row is created" (guarantor.service.ts:58-62, 237-274).
OneGuarantor ==
    /\ \A g \in DOMAIN guarantors : guarantors[g].status # "INVITED" => guarantors[g].submitted
    /\ \A g \in Before(Newest) :
          guarantors[g].status = "REJECTED" \/ {g, g + 1} \cap stale # {}

\* Doc: guarantor.service.ts:240: "Only a submitted guarantor can be verified":
\* of two reviews that overlap, the later writes over the verdict of the other.
OnlySubmittedIsVerified ==
    [][\A g \in DOMAIN guarantors :
          guarantors'[g].status = "VERIFIED"
              => guarantors[g].status \in {"SUBMITTED", "VERIFIED"}]_vars

\* A driver who has submitted everything, and whose documents are approved, is
\* given a verdict: "Automated verifications (facial/government-id) aren't
\* touched here -- their status comes from the provider" (kyc.service.ts:110-111).
ProviderDecides ==
    (/\ \A type \in DocumentTypes : Latest(type) = "APPROVED"
     /\ \A type \in Verifications : Latest(type) # "NONE")
    ~> (Overall # "PENDING" \/ \E type \in DocumentTypes : Latest(type) # "APPROVED")
=============================================================================
