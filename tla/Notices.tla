------------------------------ MODULE Notices ------------------------------
(***************************************************************************)
(* What the platform tells its users: notifications, their push to         *)
(* devices, and campaigns fanned out by a job                              *)
(* (src/src/notifications/notifications.service.ts and .processor.ts).     *)
(* One campaign: nothing here relates two.                                 *)
(*                                                                         *)
(* A call in progress is a task, one action per database statement or      *)
(* transaction; the queue's worker is a task of its own.  Abstracted:      *)
(* texts, segments (a campaign is for everyone), categories, and what      *)
(* Firebase does (any of the tokens may come back invalid, and the call    *)
(* may fail).                                                              *)
(***************************************************************************)
EXTENDS Naturals, FiniteSets

CONSTANTS
    Users,
    Tokens,         \* device tokens
    None,
    Tasks,          \* slots for calls in progress (a bound on concurrency)
    Worker,         \* the worker of the notifications queue
    MaxNotes        \* bound on the notifications of a user

\* What the constants are taken to be (the models that use this module assume it).
NoticesAssumption ==
    /\ None \notin Users
    /\ Worker \notin Tasks
    /\ MaxNotes \in Nat \ {0}

VARIABLES
    users,          \* the registered users
    device,         \* DeviceToken: the user a token is registered to, or None
    muted,          \* the users who have switched push off
    inbox,          \* the Notification rows of each user: of the campaign, others
    campaign,       \* the NotificationCampaign row and its job
    task            \* the calls in progress

vars == <<users, device, muted, inbox, campaign, task>>
deviceVars == <<device, muted>>

Idle == [pc |-> "idle", u |-> None, tokens |-> {}, todo |-> {}]
Callers == Tasks \cup {Worker}
At(t, pc) == task[t].pc = pc
Return(t) == task' = [task EXCEPT ![t] = Idle]
Start(t, call) == task[t] = Idle /\ task' = [task EXCEPT ![t] = call]

Init ==
    /\ users = {}
    /\ device = [k \in Tokens |-> None]
    /\ muted = {}
    /\ inbox = [u \in Users |-> [campaign |-> 0, other |-> 0]]
    /\ campaign = [row |-> "NONE", job |-> "none", runs |-> 0, audience |-> {}]
    /\ task = [t \in Callers |-> Idle]

-----------------------------------------------------------------------------
(* Users, their devices and their notifications.                           *)

Register(u) ==
    /\ u \notin users
    /\ users' = users \cup {u}
    /\ UNCHANGED <<deviceVars, inbox, campaign, task>>

\* A device registered by another user changes hands.
RegisterDevice(u, k) ==
    /\ u \in users /\ device[k] # u
    /\ device' = [device EXCEPT ![k] = u]
    /\ UNCHANGED <<users, muted, inbox, campaign, task>>

UnregisterDevice(u, k) ==
    /\ device[k] = u
    /\ device' = [device EXCEPT ![k] = None]
    /\ UNCHANGED <<users, muted, inbox, campaign, task>>

UpdatePreferences(u) ==
    /\ u \in users
    /\ muted' = IF u \in muted THEN muted \ {u} ELSE muted \cup {u}
    /\ UNCHANGED <<users, device, inbox, campaign, task>>

-----------------------------------------------------------------------------
(* send: the row, then the push if there is a device for it.               *)

\* notify: another service tells a user something.
Notify(t, u) ==
    /\ u \in users
    /\ Start(t, [Idle EXCEPT !.pc = "send", !.u = u])
    /\ UNCHANGED <<users, deviceVars, inbox, campaign>>

Send(t) ==
    LET u == task[t].u
        kind == IF t = Worker THEN "campaign" ELSE "other"
    IN  /\ At(t, "send")
        /\ inbox[u][kind] < MaxNotes
        /\ inbox' = [inbox EXCEPT ![u][kind] = @ + 1]
        /\ task' = [task EXCEPT ![t].pc = "devices"]
        /\ UNCHANGED <<users, deviceVars, campaign>>

\* The caller of send goes on: the worker with its next recipient.
Sent(t) == IF t = Worker THEN task' = [task EXCEPT ![t] = [Idle EXCEPT !.pc = "fan",
                                                                      !.todo = task[t].todo]]
                         ELSE Return(t)

FindDevices(t) ==
    LET u == task[t].u
        tokens == {k \in Tokens : device[k] = u}
    IN  /\ At(t, "devices")
        /\ IF u \in muted \/ tokens = {}
           THEN Sent(t)
           ELSE task' = [task EXCEPT ![t].pc = "push", ![t].tokens = tokens]
        /\ UNCHANGED <<users, deviceVars, inbox, campaign>>

\* The tokens that Firebase calls invalid are deleted, whoever has them now.
Push(t, invalid) ==
    /\ At(t, "push") /\ invalid \subseteq task[t].tokens
    /\ device' = [k \in Tokens |-> IF k \in invalid THEN None ELSE device[k]]
    /\ Sent(t)
    /\ UNCHANGED <<users, muted, inbox, campaign>>

-----------------------------------------------------------------------------
(* Campaigns.                                                              *)

\* createCampaign: the row, then the job; a schedule delays it.
CreateCampaign(t) ==
    /\ campaign.row = "NONE"
    /\ campaign' = [campaign EXCEPT !.row = "CREATED", !.audience = users]
    /\ Start(t, [Idle EXCEPT !.pc = "enqueue"])
    /\ UNCHANGED <<users, deviceVars, inbox>>

Enqueue(t, delay) ==
    /\ At(t, "enqueue")
    /\ campaign' = [campaign EXCEPT !.job = IF delay THEN "delayed" ELSE "waiting"]
    /\ Return(t)
    /\ UNCHANGED <<users, deviceVars, inbox>>

JobDue ==
    /\ campaign.job = "delayed"
    /\ campaign' = [campaign EXCEPT !.job = "waiting"]
    /\ UNCHANGED <<users, deviceVars, inbox, task>>

\* process: the recipients as they are now, one after another.
Process ==
    /\ campaign.job = "waiting"
    /\ campaign' = [campaign EXCEPT !.job = "active", !.runs = @ + 1]
    /\ Start(Worker, [Idle EXCEPT !.pc = "fan", !.todo = users])
    /\ UNCHANGED <<users, deviceVars, inbox>>

FanOut(u) ==
    /\ At(Worker, "fan") /\ u \in task[Worker].todo
    /\ task' = [task EXCEPT ![Worker].pc = "send", ![Worker].u = u, ![Worker].todo = @ \ {u}]
    /\ UNCHANGED <<users, deviceVars, inbox, campaign>>

\* Mutant of AllServed: the row is written before the last recipients.
AllServedEarly == At(Worker, "fan")

AllServed == At(Worker, "fan") /\ task[Worker].todo = {}

MarkSent ==
    /\ AllServed
    /\ campaign' = [campaign EXCEPT !.row = "SENT", !.job = "done"]
    /\ Return(Worker)
    /\ UNCHANGED <<users, deviceVars, inbox>>

\* An exception, of the push as well, fails the job: it has one attempt.
JobFails ==
    /\ task[Worker] # Idle
    /\ campaign' = [campaign EXCEPT !.job = "failed"]
    /\ Return(Worker)
    /\ UNCHANGED <<users, deviceVars, inbox>>

\* The process stops: the queue hands a stalled job out once more.
WorkerStops ==
    /\ task[Worker] # Idle
    /\ campaign' = [campaign EXCEPT !.job = IF campaign.runs < 2 THEN "waiting" ELSE "failed"]
    /\ Return(Worker)
    /\ UNCHANGED <<users, deviceVars, inbox>>

-----------------------------------------------------------------------------
\* A statement or the push fails: the call throws (notify only logs it).
Throw(t) ==
    /\ task[t] # Idle
    /\ Return(t)
    /\ UNCHANGED <<users, deviceVars, inbox, campaign>>

UserNext ==
    \E u \in Users :
        \/ Register(u) \/ UpdatePreferences(u)
        \/ \E k \in Tokens : RegisterDevice(u, k) \/ UnregisterDevice(u, k)
SendNext(t) ==
    Send(t) \/ FindDevices(t) \/ \E invalid \in SUBSET Tokens : Push(t, invalid)
CampaignNext ==
    \/ JobDue \/ Process \/ (\E u \in Users : FanOut(u)) \/ MarkSent \/ JobFails \/ WorkerStops
Next ==
    \/ UserNext
    \/ \E t \in Callers : SendNext(t)
    \/ \E t \in Tasks : CreateCampaign(t) \/ (\E delay \in BOOLEAN : Enqueue(t, delay))
                        \/ (\E u \in Users : Notify(t, u)) \/ Throw(t)
    \/ CampaignNext

Spec == Init /\ [][Next]_vars

-----------------------------------------------------------------------------
(* Properties.                                                             *)

\* Every row and every call in progress has its type.
NoticesTypeOK ==
    /\ users \subseteq Users /\ muted \subseteq users
    /\ device \in [Tokens -> users \cup {None}]
    /\ inbox \in [Users -> [campaign : 0 .. MaxNotes, other : 0 .. MaxNotes]]
    /\ campaign.row \in {"NONE", "CREATED", "SENT"}
    /\ campaign.job \in {"none", "delayed", "waiting", "active", "done", "failed"}
    /\ \A t \in Callers : task[t].u \in users \cup {None}

\* A campaign is marked as sent only when everyone who was a user when it was
\* created has its notification, although the job may have been stopped and
\* run again; and nobody has it more often than the job ran
\* (notifications.processor.ts:32-56).
SentToAll ==
    /\ campaign.row = "SENT" => \A u \in campaign.audience : inbox[u].campaign > 0
    /\ \A u \in Users : inbox[u].campaign <= campaign.runs

\* "Push failure never blocks or fails this call"
\* (notifications.service.ts:31): a job that ended has served everyone, unless
\* the process was stopped.
PushNeverFails ==
    campaign.job = "failed" /\ campaign.runs = 1
        => \A u \in campaign.audience : inbox[u].campaign > 0
=============================================================================
