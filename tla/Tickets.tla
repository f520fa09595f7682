------------------------------ MODULE Tickets ------------------------------
(***************************************************************************)
(* A support ticket: the requester's and the staff's replies, and what an  *)
(* administrator does with it (src/src/support/support.service.ts).  One   *)
(* ticket: nothing here relates two.                                       *)
(*                                                                         *)
(* A reply reads the ticket and then writes it: it is a task.  The other   *)
(* calls look only whether the ticket exists before their one statement or *)
(* transaction.  Abstracted: texts, people, and the notifications of the   *)
(* requester (see Notices).                                                *)
(***************************************************************************)
EXTENDS Naturals

CONSTANTS
    Tasks,          \* slots for replies in progress (a bound on concurrency)
    MaxReplies      \* bound on the replies

\* What the constants are taken to be (the models that use this module assume it).
TicketsAssumption == MaxReplies \in Nat

VARIABLES
    ticket,         \* the SupportTicket row
    thread,         \* its messages, by who wrote them
    reply           \* the replies in progress: the status each read

vars == <<ticket, thread, reply>>

Unresolved == {"OPEN", "IN_PROGRESS", "ESCALATED"}
Statuses == Unresolved \cup {"NONE", "RESOLVED", "CLOSED"}

Init ==
    /\ ticket = [status |-> "NONE", urgent |-> FALSE, assigned |-> FALSE,
                 escalated |-> FALSE, resolved |-> FALSE]
    /\ thread = [requester |-> 0, staff |-> 0]
    /\ reply = [t \in Tasks |-> "NONE"]

Exists == ticket.status # "NONE"
Only == UNCHANGED <<thread, reply>>

\* createTicket: with its first message.
CreateTicket(urgent) ==
    /\ ~ Exists
    /\ ticket' = [ticket EXCEPT !.status = "OPEN", !.urgent = urgent]
    /\ thread' = [thread EXCEPT !.requester = 1]
    /\ UNCHANGED reply

-----------------------------------------------------------------------------
(* reply: the status is looked at, then written back with the message.     *)

ReplyRead(t) ==
    /\ reply[t] = "NONE"
    /\ ticket.status \in Unresolved
    /\ reply' = [reply EXCEPT ![t] = ticket.status]
    /\ UNCHANGED <<ticket, thread>>

\* The requester's leaves the status it read, the staff's starts the work.
ReplyWrite(t, author) ==
    /\ reply[t] # "NONE"
    /\ thread.requester + thread.staff <= MaxReplies
    /\ ticket' = [ticket EXCEPT !.status = IF author = "staff" THEN "IN_PROGRESS"
                                                               ELSE reply[t]]
    /\ thread' = [thread EXCEPT ![author] = @ + 1]
    /\ reply' = [reply EXCEPT ![t] = "NONE"]

Throw(t) ==
    /\ reply[t] # "NONE"
    /\ reply' = [reply EXCEPT ![t] = "NONE"]
    /\ UNCHANGED <<ticket, thread>>

-----------------------------------------------------------------------------
(* Administrators.                                                         *)

Assign ==
    /\ Exists
    /\ ticket' = [ticket EXCEPT !.assigned = TRUE, !.status = "IN_PROGRESS"]
    /\ Only

Escalate ==
    /\ Exists
    /\ ticket' = [ticket EXCEPT !.status = "ESCALATED", !.urgent = TRUE, !.escalated = TRUE]
    /\ Only

Resolve ==
    /\ Exists
    /\ ticket' = [ticket EXCEPT !.status = "RESOLVED", !.resolved = TRUE]
    /\ Only

\* Mutant of PlainStatuses: the terminal ones are written like the others.
PlainStatusesAll == Statuses \ {"NONE"}

\* The statuses that adminUpdate writes itself; it leaves RESOLVED and CLOSED
\* to resolve, and ESCALATED to escalate.
PlainStatuses == {"OPEN", "IN_PROGRESS"}

\* The assignee, the priority, the status: one statement each.
AdminUpdate ==
    /\ Exists
    /\ \/ ticket' = [ticket EXCEPT !.assigned = TRUE]
       \/ \E urgent \in BOOLEAN : ticket' = [ticket EXCEPT !.urgent = urgent]
       \/ \E s \in PlainStatuses : ticket' = [ticket EXCEPT !.status = s]
    /\ Only

Next ==
    \/ \E urgent \in BOOLEAN : CreateTicket(urgent)
    \/ \E t \in Tasks : ReplyRead(t) \/ Throw(t)
                        \/ \E author \in {"requester", "staff"} : ReplyWrite(t, author)
    \/ Assign \/ Escalate \/ Resolve \/ AdminUpdate

Spec == Init /\ [][Next]_vars

-----------------------------------------------------------------------------
(* What a ticket counts for in the queue and in the reports.               *)

\* ticketSummary, the cards of listAllTickets.
TicketSummary ==
    [in |-> ticket.status,
     urgentOpen |-> ticket.urgent /\ ticket.status \in Unresolved,
     unassigned |-> ~ ticket.assigned /\ ticket.status \in Unresolved]

\* exportTickets: the mean time is over the rows that have a resolvedAt.
ExportTickets ==
    [finished |-> ticket.status \in {"RESOLVED", "CLOSED"},
     urgent |-> ticket.urgent /\ ticket.status \in Unresolved,
     averaged |-> ticket.resolved]

\* supportReport: over the tickets that are RESOLVED and have one.
SupportReport ==
    [resolved |-> ticket.status = "RESOLVED",
     averaged |-> ticket.status = "RESOLVED" /\ ticket.resolved]

-----------------------------------------------------------------------------
(* Properties.                                                             *)

\* The ticket, its thread and the replies in progress have their types.
TicketsTypeOK ==
    /\ ticket \in [status : Statuses, urgent : BOOLEAN, assigned : BOOLEAN,
                   escalated : BOOLEAN, resolved : BOOLEAN]
    /\ thread \in [requester : 0 .. MaxReplies + 1, staff : 0 .. MaxReplies + 1]
    /\ reply \in [Tasks -> Unresolved \cup {"NONE"}]

\* A ticket that ends RESOLVED has its resolver and an ESCALATED one its
\* escalation, whichever replies wrote back the status they had read before,
\* and the reports count it so (reports.service.ts:306-339):
\* "Terminal transitions route through the dedicated methods so their side
\* effects ... still fire" (support.service.ts:281-284).
TicketStamped ==
    /\ ticket.status = "RESOLVED" => ticket.resolved
    /\ ticket.status = "ESCALATED" => ticket.escalated
    /\ ticket.status # "CLOSED"
    /\ \A t \in Tasks : reply[t] = "ESCALATED" => ticket.escalated
    /\ SupportReport.resolved => SupportReport.averaged /\ ExportTickets.averaged
    /\ ExportTickets.finished = SupportReport.resolved
    /\ ExportTickets.urgent = TicketSummary.urgentOpen

\* Doc: support.service.ts:248: the export's mean is "over resolved tickets in
\* this export", which a reopened ticket is not.
MeanIsOfResolved == ExportTickets.averaged => ExportTickets.finished

\* "both terminal statuses block further replies here"
\* (support.service.ts:103-105): no reply reopens a resolved ticket.
ResolvedStaysResolved ==
    [][ticket.status = "RESOLVED" /\ thread' # thread => ticket' = ticket]_vars
=============================================================================
