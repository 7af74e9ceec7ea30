------------------------------- MODULE Delivery -------------------------------
(***************************************************************************)
(* How a notification reaches ONE user: the notify job fans out over its    *)
(* channels (notify.worker.ts), the webhook channel becomes a job of its    *)
(* own (webhook.worker.ts), the WebSocket channel is published to every API *)
(* replica (ws-fanout.service.ts), and a replica forwards it to the sockets *)
(* its registry holds for the user (notifications.gateway.ts).              *)
(*                                                                         *)
(* BullMQ and Redis pub/sub are external: a job that throws is retried, one *)
(* whose worker died is handed out again; a published message arrives at    *)
(* every subscribed replica, in the order of publication.                   *)
(*                                                                         *)
(* Registries are per user and users do not meet, so one user is enough.    *)
(* Time is counted in heartbeats of a replica (30 s).                       *)
(***************************************************************************)
EXTENDS Naturals, FiniteSets, Sequences

CONSTANTS
    Events,         \* notify jobs; each is enqueued at most once (no job id)
    Channels,       \* the channels not dropped: of inApp, ws, email, webhook
    Replicas,       \* API processes
    Sockets,        \* connections the user ever opens
    Home,           \* the replica each connects to
    HasUrl,         \* N8N_WEBHOOK_URL is set
    MaxAttempts,    \* jobs.producer.ts: attempts (5 in production)
    MaxStalls,      \* BullMQ maxStalledCount (default 1)
    MaxCrashes      \* bound: attempts cut off by the end of a worker process

ASSUME DeliveryAssumption ==
    /\ IsFiniteSet(Sockets)
    /\ Channels \subseteq {"inApp", "ws", "email", "webhook"}
    /\ Home \in [Sockets -> Replicas]
    /\ HasUrl \in BOOLEAN
    /\ MaxAttempts \in Nat \ {0} /\ MaxStalls \in Nat /\ MaxCrashes \in Nat

IdleBeats == 3      \* IDLE_TIMEOUT_MS in heartbeats

\* A webhook job is named by its event and by its place among that event's.
Hooks == Events \X (1 .. MaxStalls + 1)

VARIABLES
    job, tries, stalls,     \* the notify job of each event
    leg,        \* the channels of the attempt: to do, or how the call ended
    rowless,    \* history: events whose last attempt had no row to leave
    inbox,      \* Notification rows of each event
    hook, hookTries, hookStalls,    \* the webhook jobs
    at,         \* where the webhook worker is
    answered,   \* the endpoint took the POST of this attempt
    taken,      \* webhook jobs the endpoint took a POST of
    logged,     \* WebhookDelivery documents of a job with status "success"
    wire,       \* published messages each replica has yet to receive
    link,       \* each connection: "none", "open", "closed"
    login,      \* handleConnection: "none", "pending", "accepted", "refused"
    registered, \* sockets in the registry of their replica
    alive,      \* registered sockets with AuthedSocket.isAlive
    age,        \* heartbeats since AuthedSocket.lastSeenAt
    crashes     \* how much of MaxCrashes is used

notifyVars == <<job, tries, stalls, leg, rowless>>
hookVars == <<hook, hookTries, hookStalls, at, answered, taken, logged>>
linkVars == <<link, login, registered, alive, age>>
vars == <<notifyVars, inbox, hookVars, wire, linkVars, crashes>>

JobStates == {"absent", "waiting", "active", "completed", "failed"}
Fresh == [c \in Channels |-> "todo"]

Init ==
    /\ job = [e \in Events |-> "absent"]
    /\ tries = [e \in Events |-> 0] /\ stalls = [e \in Events |-> 0]
    /\ leg = [e \in Events |-> Fresh]
    /\ rowless = {}
    /\ inbox = [e \in Events |-> 0]
    /\ hook = [h \in Hooks |-> "absent"]
    /\ hookTries = [h \in Hooks |-> 0] /\ hookStalls = [h \in Hooks |-> 0]
    /\ at = [h \in Hooks |-> "idle"]
    /\ answered = [h \in Hooks |-> FALSE]
    /\ taken = {} /\ logged = [h \in Hooks |-> 0]
    /\ wire = [r \in Replicas |-> <<>>]
    /\ link = [s \in Sockets |-> "none"] /\ login = [s \in Sockets |-> "none"]
    /\ registered = {}
    /\ alive = {} /\ age = [s \in Sockets |-> 0]
    /\ crashes = 0

AfterThrow(n) == IF n + 1 < MaxAttempts THEN "waiting" ELSE "failed"
AfterStall(n) == IF n < MaxStalls THEN "waiting" ELSE "failed"

-----------------------------------------------------------------------------
(* The notify job.                                                         *)

EnqueueNotify(e) ==
    /\ job[e] = "absent"
    /\ job' = [job EXCEPT ![e] = "waiting"]
    /\ UNCHANGED <<tries, stalls, leg, rowless, inbox, hookVars, wire,
                   linkVars, crashes>>

\* The attempt begins with the user's row, and ends there if it is missing
\* or marked deleted.
FindRecipient(e, found) ==
    /\ job[e] = "waiting"
    /\ job' = [job EXCEPT ![e] = IF found THEN "active" ELSE "completed"]
    /\ rowless' = IF found THEN rowless \ {e} ELSE rowless \cup {e}
    /\ UNCHANGED <<tries, stalls, leg, inbox, hookVars, wire, linkVars, crashes>>

FindRecipientFails(e) ==
    /\ job[e] = "waiting"
    /\ job' = [job EXCEPT ![e] = AfterThrow(tries[e])]
    /\ tries' = [tries EXCEPT ![e] = @ + 1]
    /\ UNCHANGED <<stalls, leg, rowless, inbox, hookVars, wire, linkVars, crashes>>

\* The channels run side by side: any of them may be the next to end.
Ready(e, c) == job[e] = "active" /\ c \in Channels /\ leg[e][c] = "todo"
EndLeg(e, c, how) ==
    /\ leg' = [leg EXCEPT ![e][c] = how]
    /\ rowless' = IF c = "inApp" /\ how = "failed" THEN rowless \cup {e} ELSE rowless
    /\ UNCHANGED <<job, tries, stalls, linkVars, crashes>>

InsertInApp(e) ==
    /\ Ready(e, "inApp")
    /\ inbox' = [inbox EXCEPT ![e] = @ + 1]
    /\ EndLeg(e, "inApp", "ok")
    /\ UNCHANGED <<hookVars, wire>>

PublishWs(e) ==
    /\ Ready(e, "ws")
    /\ wire' = [r \in Replicas |-> Append(wire[r], e)]
    /\ EndLeg(e, "ws", "ok")
    /\ UNCHANGED <<inbox, hookVars>>

\* What the mail relay does with the message is its own affair.
SendEmail(e) ==
    /\ Ready(e, "email")
    /\ EndLeg(e, "email", "ok")
    /\ UNCHANGED <<inbox, hookVars, wire>>

EnqueueWebhook(e) ==
    /\ Ready(e, "webhook")
    /\ \E n \in 1 .. MaxStalls + 1 :
          /\ hook[<<e, n>>] = "absent"
          /\ \A m \in 1 .. n - 1 : hook[<<e, m>>] # "absent"
          /\ hook' = [hook EXCEPT ![<<e, n>>] = "waiting"]
    /\ EndLeg(e, "webhook", "ok")
    /\ UNCHANGED <<inbox, hookTries, hookStalls, at, answered, taken, logged, wire>>

\* Each channel has a catch of its own.
LegFails(e, c) ==
    /\ Ready(e, c)
    /\ EndLeg(e, c, "failed")
    /\ UNCHANGED <<inbox, hookVars, wire>>

\* Mutant of Rejects: a rejected channel rejects Promise.all, hence the job.
RejectsWithChannel(e) == \E c \in Channels : leg[e][c] = "failed"

\* Does the job throw once its channels ended?
Rejects(e) == FALSE

EndNotify(e) ==
    /\ job[e] = "active"
    /\ \A c \in Channels : leg[e][c] # "todo"
    /\ IF Rejects(e)
       THEN /\ job' = [job EXCEPT ![e] = AfterThrow(tries[e])]
            /\ tries' = [tries EXCEPT ![e] = @ + 1]
       ELSE job' = [job EXCEPT ![e] = "completed"] /\ UNCHANGED tries
    /\ leg' = [leg EXCEPT ![e] = Fresh]
    /\ UNCHANGED <<stalls, rowless, inbox, hookVars, wire, linkVars, crashes>>

\* The worker process dies during an attempt.
StallNotify(e) ==
    /\ job[e] = "active" /\ crashes < MaxCrashes
    /\ crashes' = crashes + 1
    /\ job' = [job EXCEPT ![e] = AfterStall(stalls[e])]
    /\ stalls' = [stalls EXCEPT ![e] = @ + 1]
    /\ leg' = [leg EXCEPT ![e] = Fresh]
    /\ UNCHANGED <<tries, rowless, inbox, hookVars, wire, linkVars>>

-----------------------------------------------------------------------------
(* The webhook job: POST, write the delivery log, throw unless it was taken. *)

PickupHook(h) ==
    /\ hook[h] = "waiting"
    /\ IF HasUrl
       THEN /\ hook' = [hook EXCEPT ![h] = "active"]
            /\ at' = [at EXCEPT ![h] = "post"]
       ELSE hook' = [hook EXCEPT ![h] = "completed"] /\ UNCHANGED at
    /\ UNCHANGED <<notifyVars, inbox, hookTries, hookStalls, answered, taken,
                   logged, wire, linkVars, crashes>>

\* fetch: the endpoint took it (res.ok), and the worker hears so or not
\* (the answer is lost: fetch or res.text throws), or it did not take it.
Post(h, took, heard) ==
    /\ at[h] = "post"
    /\ heard => took
    /\ answered' = [answered EXCEPT ![h] = heard]
    /\ taken' = IF took THEN taken \cup {h} ELSE taken
    /\ at' = [at EXCEPT ![h] = "log"]
    /\ UNCHANGED <<notifyVars, inbox, hook, hookTries, hookStalls, logged, wire,
                   linkVars, crashes>>

\* Mutant of Verdict: a failure is logged and forgotten.
VerdictLoggedOnly(ok, written) == ~written

\* Does process throw, given the answer and whether the log was written?
Verdict(ok, written) == ~ok \/ ~written

LogDelivery(h, written) ==
    /\ at[h] = "log"
    /\ logged' = [logged EXCEPT ![h] = IF written /\ answered[h] THEN @ + 1 ELSE @]
    /\ answered' = [answered EXCEPT ![h] = FALSE]
    /\ IF Verdict(answered[h], written)
       THEN /\ hook' = [hook EXCEPT ![h] = AfterThrow(hookTries[h])]
            /\ hookTries' = [hookTries EXCEPT ![h] = @ + 1]
            /\ at' = [at EXCEPT ![h] = "idle"]
       ELSE at' = [at EXCEPT ![h] = "return"] /\ UNCHANGED <<hook, hookTries>>
    /\ UNCHANGED <<notifyVars, inbox, hookStalls, taken, wire, linkVars, crashes>>

\* The queue learns of the success after the log was written.
EndHook(h) ==
    /\ at[h] = "return"
    /\ at' = [at EXCEPT ![h] = "idle"]
    /\ hook' = [hook EXCEPT ![h] = "completed"]
    /\ UNCHANGED <<notifyVars, inbox, hookTries, hookStalls, answered, taken,
                   logged, wire, linkVars, crashes>>

StallHook(h) ==
    /\ hook[h] = "active" /\ crashes < MaxCrashes
    /\ crashes' = crashes + 1
    /\ hook' = [hook EXCEPT ![h] = AfterStall(hookStalls[h])]
    /\ hookStalls' = [hookStalls EXCEPT ![h] = @ + 1]
    /\ at' = [at EXCEPT ![h] = "idle"]
    /\ answered' = [answered EXCEPT ![h] = FALSE]
    /\ UNCHANGED <<notifyVars, inbox, hookTries, taken, logged, wire,
                   linkVars>>

-----------------------------------------------------------------------------
(* The WebSocket gateway of each replica.                                  *)

\* The connection is open before handleConnection awaits authenticate.
Connect(s) ==
    /\ link[s] = "none"
    /\ link' = [link EXCEPT ![s] = "open"]
    /\ login' = [login EXCEPT ![s] = "pending"]
    /\ UNCHANGED <<notifyVars, inbox, hookVars, crashes, wire, registered, alive, age>>

\* The socket may have closed while authenticate was awaited.
Accept(s) ==
    /\ login[s] = "pending"
    /\ login' = [login EXCEPT ![s] = "accepted"]
    /\ alive' = alive \cup {s}
    /\ age' = [age EXCEPT ![s] = 0]
    /\ registered' = registered \cup {s}
    /\ UNCHANGED <<notifyVars, inbox, hookVars, crashes, wire, link>>

Refuse(s) ==
    /\ login[s] = "pending"
    /\ login' = [login EXCEPT ![s] = "refused"]
    /\ link' = [link EXCEPT ![s] = "closed"]
    /\ UNCHANGED <<notifyVars, inbox, hookVars, crashes, wire, registered, alive, age>>

\* What an AuthedSocket holds is of no more use once it left the registry.
Unregister(gone) ==
    /\ registered' = registered \ gone
    /\ alive' = alive \ gone
    /\ age' = [s \in Sockets |-> IF s \in gone THEN 0 ELSE age[s]]

\* handleDisconnect knows the socket's user only once it was accepted.
Disconnect(s) ==
    /\ link[s] = "open"
    /\ link' = [link EXCEPT ![s] = "closed"]
    /\ IF login[s] = "accepted" THEN Unregister({s})
                                ELSE UNCHANGED <<registered, alive, age>>
    /\ UNCHANGED <<notifyVars, inbox, hookVars, crashes, wire, login>>

Listening(s) == link[s] = "open" /\ login[s] = "accepted"

Pong(s) ==
    /\ Listening(s)
    /\ alive' = alive \cup {s}
    /\ age' = [age EXCEPT ![s] = 0]
    /\ UNCHANGED <<notifyVars, inbox, hookVars, crashes, wire, link, login, registered>>

Message(s) ==
    /\ Listening(s)
    /\ age' = [age EXCEPT ![s] = 0]
    /\ UNCHANGED <<notifyVars, inbox, hookVars, crashes, wire, link, login,
                   registered, alive>>

\* Mutant of Overdue: a socket is overdue only when it is also still open.
OverdueOpen(s) == link[s] = "open" /\ (s \notin alive \/ age[s] >= IdleBeats)

\* At this heartbeat another 30 s have passed since lastSeenAt.
Overdue(s) == s \notin alive \/ age[s] >= IdleBeats

\* One heartbeat of replica r: drop the overdue sockets, ping the others.
Tick(r) ==
    LET mine == {s \in registered : Home[s] = r}
        gone == {s \in mine : Overdue(s)}
    IN  /\ mine # {}
        /\ registered' = registered \ gone
        /\ link' = [s \in Sockets |-> IF s \in gone THEN "closed" ELSE link[s]]
        /\ alive' = alive \ mine
        /\ age' = [s \in Sockets |-> CASE s \in gone        -> 0
                                       [] s \in mine \ gone -> age[s] + 1
                                       [] OTHER             -> age[s]]
    /\ UNCHANGED <<notifyVars, inbox, hookVars, crashes, wire, login>>

\* The sockets a replica sends a message to.
Reached(r) == {s \in registered : Home[s] = r /\ link[s] = "open"}

\* A replica takes the next message and sends it to them.
Forward(r) ==
    /\ wire[r] # <<>>
    /\ wire' = [wire EXCEPT ![r] = Tail(@)]
    /\ UNCHANGED <<notifyVars, inbox, hookVars, crashes, linkVars>>

-----------------------------------------------------------------------------
NotifySteps(e) ==
    \/ EnqueueNotify(e) \/ FindRecipientFails(e)
    \/ \E found \in BOOLEAN : FindRecipient(e, found)
    \/ InsertInApp(e) \/ PublishWs(e) \/ SendEmail(e) \/ EnqueueWebhook(e)
    \/ \E c \in Channels : LegFails(e, c)
    \/ EndNotify(e) \/ StallNotify(e)

HookSteps(h) ==
    \/ PickupHook(h)
    \/ \E took, heard \in BOOLEAN : Post(h, took, heard)
    \/ \E written \in BOOLEAN : LogDelivery(h, written)
    \/ EndHook(h) \/ StallHook(h)

SocketSteps(s) ==
    \/ Connect(s) \/ Accept(s) \/ Refuse(s) \/ Disconnect(s)
    \/ Pong(s) \/ Message(s)

Next ==
    \/ \E e \in Events : NotifySteps(e)
    \/ \E h \in Hooks : HookSteps(h)
    \/ \E s \in Sockets : SocketSteps(s)
    \/ \E r \in Replicas : Tick(r) \/ Forward(r)

Spec == Init /\ [][Next]_vars

-----------------------------------------------------------------------------
(* Types of the variables; a webhook job is active exactly while its worker  *)
(* is at one of its steps.                                                   *)
TypeOK ==
    /\ job \in [Events -> JobStates] /\ hook \in [Hooks -> JobStates]
    /\ tries \in [Events -> 0 .. MaxAttempts]
    /\ hookTries \in [Hooks -> 0 .. MaxAttempts]
    /\ stalls \in [Events -> 0 .. MaxStalls + 1]
    /\ hookStalls \in [Hooks -> 0 .. MaxStalls + 1]
    /\ leg \in [Events -> [Channels -> {"todo", "ok", "failed"}]]
    /\ rowless \subseteq Events
    /\ inbox \in [Events -> 0 .. MaxStalls + 1]
    /\ at \in [Hooks -> {"idle", "post", "log", "return"}]
    /\ answered \in [Hooks -> BOOLEAN]
    /\ taken \subseteq Hooks /\ logged \in [Hooks -> Nat]
    /\ wire \in [Replicas -> Seq(Events)]
    /\ link \in [Sockets -> {"none", "open", "closed"}]
    /\ login \in [Sockets -> {"none", "pending", "accepted", "refused"}]
    /\ registered \subseteq Sockets
    /\ alive \subseteq registered /\ age \in [Sockets -> 0 .. IdleBeats]
    /\ \A h \in Hooks : hook[h] = "active" <=> at[h] # "idle"

(* "Each channel runs in parallel with independent error handling": whatever *)
(* the other channels do, a finished job has left its inbox row unless the   *)
(* insert itself failed, and a second row takes a worker that died.          *)
InboxExplained ==
    \A e \in Events :
        /\ inbox[e] <= 1 + stalls[e]
        /\ job[e] = "completed" /\ "inApp" \in Channels =>
               inbox[e] > 0 \/ e \in rowless

(* The delivery log is what an admin acts on: a success in it was taken by   *)
(* the endpoint, a job is finished only with one, exhausted only without,    *)
(* and a retry never follows one unless the worker died before it returned.  *)
LogTellsTruth ==
    \A h \in Hooks :
        /\ logged[h] > 0 => h \in taken
        /\ logged[h] <= 1 + hookStalls[h]
        /\ HasUrl /\ hook[h] = "completed" => logged[h] > 0
        /\ hook[h] = "failed" => logged[h] <= hookStalls[h]

(* A connection that ended is out of the registry by the second heartbeat at *)
(* the latest, even if it ended while its handshake was still being checked  *)
(* and was registered after its disconnect had been handled.                 *)
GoneSoon ==
    \A s \in registered : link[s] = "closed" => age[s] <= 1
=============================================================================
