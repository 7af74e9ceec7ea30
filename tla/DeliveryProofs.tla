---------------------------- MODULE DeliveryProofs ----------------------------
(***************************************************************************)
(* What holds for any number of events, channels, replicas, sockets, attempts *)
(* and worker deaths (Delivery): types, that the delivery log tells the truth, *)
(* that a notify job leaves its inbox row, and that ended connections leave *)
(* the registry.  The first rests on the webhook jobs alone, the second on the *)
(* notify jobs, the third on the gateways.  And for any number of comments, *)
(* requests, reports and admins (Community): that threads are complete, and *)
(* that notices tell how things stand.  And for any number of rows (Listing): *)
(* that a walk through a list, page by page, shows what stayed in it, once. *)
(***************************************************************************)
EXTENDS Delivery, Community, Listing, FiniteSetTheorems, WellFoundedInduction, TLAPS

-----------------------------------------------------------------------------
(* The delivery log.                                                       *)

\* The types of what webhook jobs change.
HookTypes ==
    /\ hook \in [Hooks -> JobStates]
    /\ hookStalls \in [Hooks -> Nat]
    /\ at \in [Hooks -> {"idle", "post", "log", "return"}]
    /\ answered \in [Hooks -> BOOLEAN]
    /\ logged \in [Hooks -> Nat]

\* A logged success that the queue does not know of yet is either still being
\* returned, or was lost with its worker and is paid for by a stall.
HookFacts(h) ==
    /\ answered[h] \/ logged[h] > 0 => h \in taken
    /\ at[h] # "idle" => hook[h] = "active"
    /\ at[h] = "return" => logged[h] > 0
    /\ logged[h] <= 1 + hookStalls[h]
    /\ hook[h] # "completed" /\ at[h] # "return" => logged[h] <= hookStalls[h]
    /\ HasUrl /\ hook[h] = "completed" => logged[h] > 0

\* The inductive invariant of the webhook jobs.
HookInv == HookTypes /\ \A h \in Hooks : HookFacts(h)

\* Before any job nothing is logged.
LEMMA HookInit == Init => HookInv
BY DEF Init, HookInv, HookTypes, HookFacts, JobStates

\* The invariant gives the property.
LEMMA HookImplies == HookInv => LogTellsTruth
<1> SUFFICES ASSUME HookInv, NEW h \in Hooks
             PROVE  /\ logged[h] > 0 => h \in taken
                    /\ logged[h] <= 1 + hookStalls[h]
                    /\ HasUrl /\ hook[h] = "completed" => logged[h] > 0
                    /\ hook[h] = "failed" => logged[h] <= hookStalls[h]
  BY DEF LogTellsTruth
<1> QED BY DEF HookInv, HookFacts

\* A webhook job changes by its own steps, each of which keeps its facts.
LEMMA HookKept ==
    ASSUME HookInv, NEW h \in Hooks, HookSteps(h)
    PROVE  HookInv'
<1> USE DEF HookInv, HookTypes, HookFacts, JobStates
<1>1. CASE PickupHook(h)
  BY <1>1 DEF PickupHook
<1>2. ASSUME NEW took \in BOOLEAN, NEW heard \in BOOLEAN, Post(h, took, heard)
      PROVE  HookInv'
  BY <1>2 DEF Post
<1>3. ASSUME NEW written \in BOOLEAN, LogDelivery(h, written)
      PROVE  HookInv'
  BY <1>3 DEF LogDelivery, Verdict, AfterThrow
<1>4. CASE EndHook(h)
  BY <1>4 DEF EndHook
<1>5. CASE StallHook(h)
  BY <1>5 DEF StallHook, AfterStall
<1> QED BY <1>1, <1>2, <1>3, <1>4, <1>5 DEF HookSteps

\* Enqueueing is all that a notify job does to webhook jobs.
LEMMA HookEnqueued ==
    ASSUME HookInv, NEW e \in Events, EnqueueWebhook(e)
    PROVE  HookInv'
<1>1. PICK n \in 1 .. MaxStalls + 1 :
          /\ hook[<<e, n>>] = "absent"
          /\ hook' = [hook EXCEPT ![<<e, n>>] = "waiting"]
  BY DEF EnqueueWebhook
<1>2. <<e, n>> \in Hooks
  BY DEF Hooks
<1>3. UNCHANGED <<hookStalls, at, answered, taken, logged>>
  BY DEF EnqueueWebhook
<1> QED BY <1>1, <1>2, <1>3 DEF HookInv, HookTypes, HookFacts, JobStates

\* Every step keeps the invariant.
LEMMA HookStep == HookInv /\ [Next]_vars => HookInv'
<1> SUFFICES ASSUME HookInv, [Next]_vars
             PROVE  HookInv'
  OBVIOUS
<1>0. ASSUME UNCHANGED hookVars PROVE HookInv'
  BY <1>0 DEF HookInv, HookTypes, HookFacts, hookVars
<1>1. ASSUME NEW e \in Events, NotifySteps(e)
      PROVE  HookInv'
  <2>1. CASE EnqueueWebhook(e)
    BY <2>1, HookEnqueued
  <2>2. CASE \/ EnqueueNotify(e) \/ FindRecipientFails(e)
             \/ \E found \in BOOLEAN : FindRecipient(e, found)
             \/ EndNotify(e) \/ StallNotify(e)
    BY <2>2, <1>0 DEF EnqueueNotify, FindRecipientFails, FindRecipient,
                      EndNotify, StallNotify
  <2>3. CASE \/ InsertInApp(e) \/ PublishWs(e) \/ SendEmail(e)
             \/ \E c \in Channels : LegFails(e, c)
    BY <2>3, <1>0 DEF InsertInApp, PublishWs, SendEmail, LegFails
  <2> QED BY <1>1, <2>1, <2>2, <2>3 DEF NotifySteps
<1>2. ASSUME NEW s \in Sockets, SocketSteps(s)
      PROVE  HookInv'
  BY <1>2, <1>0 DEF SocketSteps, Connect, Accept, Refuse, Disconnect, Pong, Message
<1>3. ASSUME NEW r \in Replicas, Tick(r) \/ Forward(r)
      PROVE  HookInv'
  BY <1>3, <1>0 DEF Tick, Forward
<1>4. CASE UNCHANGED vars
  BY <1>4, <1>0 DEF vars
<1> QED BY <1>1, <1>2, <1>3, <1>4, HookKept DEF Next

(* webhook.worker.ts: whatever fails, is lost or is retried, a success in    *)
(* the delivery log was a delivery, and the queue agrees with the log.       *)
THEOREM LogIsTrue == Spec => []LogTellsTruth
<1>1. Init => HookInv
  BY HookInit
<1>2. HookInv /\ [Next]_vars => HookInv'
  BY HookStep
<1>3. HookInv => LogTellsTruth
  BY HookImplies
<1> QED BY <1>1, <1>2, <1>3, PTL DEF Spec

-----------------------------------------------------------------------------
(* The inbox.                                                              *)

\* The types of what notify jobs change.
InboxTypes ==
    /\ job \in [Events -> JobStates]
    /\ stalls \in [Events -> Nat] /\ inbox \in [Events -> Nat]
    /\ leg \in [Events -> [Channels -> {"todo", "ok", "failed"}]]

\* A row was inserted by the attempt under way, by the one that ended the job,
\* or by one that a stall cut off.
InboxFacts(e) ==
    /\ inbox[e] <= 1 + stalls[e]
    /\ job[e] \in {"absent", "waiting"} => leg[e] = Fresh /\ inbox[e] <= stalls[e]
    /\ job[e] = "active" /\ "inApp" \in Channels =>
           /\ leg[e]["inApp"] # "ok" => inbox[e] <= stalls[e]
           /\ leg[e]["inApp"] = "ok" => inbox[e] > 0
           /\ leg[e]["inApp"] = "failed" => e \in rowless
    /\ job[e] = "completed" /\ "inApp" \in Channels => inbox[e] > 0 \/ e \in rowless

\* The inductive invariant of the notify jobs.
InboxInv == InboxTypes /\ \A e \in Events : InboxFacts(e)

\* What the invariant speaks of.
inboxVars == <<job, stalls, leg, rowless, inbox>>

\* Before any job the inbox is empty.
LEMMA InboxInit == Init => InboxInv
BY DEF Init, InboxInv, InboxTypes, InboxFacts, JobStates, Fresh

\* The first thing an attempt does is to look for the recipient.
LEMMA InboxBegins ==
    ASSUME InboxInv, NEW e \in Events,
           \/ EnqueueNotify(e) \/ FindRecipientFails(e)
           \/ \E found \in BOOLEAN : FindRecipient(e, found)
    PROVE  InboxInv'
<1> USE DEF InboxInv, InboxTypes, InboxFacts, JobStates
<1>1. CASE EnqueueNotify(e)
  BY <1>1 DEF EnqueueNotify
<1>2. CASE FindRecipientFails(e)
  BY <1>2 DEF FindRecipientFails, AfterThrow
<1>3. ASSUME NEW found \in BOOLEAN, FindRecipient(e, found)
      PROVE  InboxInv'
  BY <1>3 DEF FindRecipient, Fresh
<1> QED BY <1>1, <1>2, <1>3

\* The channels other than inApp leave the inbox alone.
LEMMA InboxFansOut ==
    ASSUME InboxInv, NEW e \in Events,
           \/ InsertInApp(e) \/ PublishWs(e) \/ SendEmail(e) \/ EnqueueWebhook(e)
           \/ \E c \in Channels : LegFails(e, c)
    PROVE  InboxInv'
<1> USE DEF InboxInv, InboxTypes, InboxFacts, JobStates, Ready, EndLeg
<1>1. CASE InsertInApp(e)
  BY <1>1 DEF InsertInApp
<1>2. CASE PublishWs(e)
  BY <1>2 DEF PublishWs
<1>3. CASE SendEmail(e)
  BY <1>3 DEF SendEmail
<1>4. CASE EnqueueWebhook(e)
  BY <1>4 DEF EnqueueWebhook
<1>5. ASSUME NEW c \in Channels, LegFails(e, c)
      PROVE  InboxInv'
  BY <1>5 DEF LegFails
<1> QED BY <1>1, <1>2, <1>3, <1>4, <1>5

\* An attempt ends when its channels have, or with its worker.
LEMMA InboxEnds ==
    ASSUME InboxInv, NEW e \in Events, EndNotify(e) \/ StallNotify(e)
    PROVE  InboxInv'
<1> USE DEF InboxInv, InboxTypes, InboxFacts, JobStates, Fresh
<1>1. CASE EndNotify(e)
  BY <1>1 DEF EndNotify, Rejects
<1>2. CASE StallNotify(e)
  BY <1>2 DEF StallNotify, AfterStall
<1> QED BY <1>1, <1>2

\* Every step keeps the invariant.
LEMMA InboxStep == InboxInv /\ [Next]_vars => InboxInv'
<1> SUFFICES ASSUME InboxInv, [Next]_vars
             PROVE  InboxInv'
  OBVIOUS
<1>0. ASSUME UNCHANGED inboxVars PROVE InboxInv'
  BY <1>0 DEF InboxInv, InboxTypes, InboxFacts, inboxVars
<1>1. ASSUME NEW e \in Events, NotifySteps(e)
      PROVE  InboxInv'
  BY <1>1, InboxBegins, InboxFansOut, InboxEnds DEF NotifySteps
<1>2. ASSUME NEW h \in Hooks, HookSteps(h)
      PROVE  InboxInv'
  BY <1>2, <1>0 DEF HookSteps, PickupHook, Post, LogDelivery, EndHook, StallHook,
                    notifyVars, inboxVars
<1>3. ASSUME NEW s \in Sockets, SocketSteps(s)
      PROVE  InboxInv'
  BY <1>3, <1>0 DEF SocketSteps, Connect, Accept, Refuse, Disconnect, Pong,
                    Message, notifyVars, inboxVars
<1>4. ASSUME NEW r \in Replicas, Tick(r) \/ Forward(r)
      PROVE  InboxInv'
  BY <1>4, <1>0 DEF Tick, Forward, notifyVars, inboxVars
<1>5. CASE UNCHANGED vars
  BY <1>5, <1>0 DEF vars, notifyVars, inboxVars
<1> QED BY <1>1, <1>2, <1>3, <1>4, <1>5 DEF Next

(* notify.worker.ts: "the in-app row is the source of truth".  A job that    *)
(* completed left one unless its insert failed, and left two only if a       *)
(* worker died in between.                                                  *)
THEOREM InboxIsExplained == Spec => []InboxExplained
<1>1. Init => InboxInv
  BY InboxInit
<1>2. InboxInv /\ [Next]_vars => InboxInv'
  BY InboxStep
<1>3. InboxInv => InboxExplained
  BY DEF InboxInv, InboxFacts, InboxExplained
<1> QED BY <1>1, <1>2, <1>3, PTL DEF Spec

-----------------------------------------------------------------------------
(* The registry.                                                           *)

\* A connection that ended before it was registered had isAlive set then, and
\* nothing sets it again.
GoneInv ==
    /\ link \in [Sockets -> {"none", "open", "closed"}]
    /\ age \in [Sockets -> Nat]
    /\ registered \subseteq Sockets
    /\ \A s \in registered :
           link[s] = "closed" => age[s] <= 1 /\ (s \in alive => age[s] = 0)
    /\ \A s \in registered : login[s] = "accepted"
    /\ login \in [Sockets -> {"none", "pending", "accepted", "refused"}]
    /\ \A s \in Sockets : link[s] = "none" => login[s] = "none"

\* Initially nobody is connected.
LEMMA GoneInit == Init => GoneInv
BY DEF Init, GoneInv

\* A connection's own steps.
LEMMA GoneBySocket ==
    ASSUME GoneInv, NEW s \in Sockets, SocketSteps(s)
    PROVE  GoneInv'
<1> USE DEF GoneInv
<1>1. CASE Connect(s)
  BY <1>1 DEF Connect
<1>2. CASE Accept(s)
  BY <1>2 DEF Accept
<1>3. CASE Refuse(s)
  BY <1>3 DEF Refuse
<1>4. CASE Disconnect(s)
  BY <1>4 DEF Disconnect, Unregister
<1>5. CASE Pong(s) \/ Message(s)
  BY <1>5 DEF Pong, Message, Listening
<1> QED BY <1>1, <1>2, <1>3, <1>4, <1>5 DEF SocketSteps

\* A heartbeat drops who had not answered the one before.
LEMMA GoneByTick ==
    ASSUME GoneInv, NEW r \in Replicas, Tick(r)
    PROVE  GoneInv'
<1> DEFINE mine == {s \in registered : Home[s] = r}
           gone == {s \in mine : Overdue(s)}
<1>1. /\ registered' = registered \ gone
      /\ link' = [s \in Sockets |-> IF s \in gone THEN "closed" ELSE link[s]]
      /\ alive' = alive \ mine
      /\ age' = [s \in Sockets |-> CASE s \in gone        -> 0
                                     [] s \in mine \ gone -> age[s] + 1
                                     [] OTHER             -> age[s]]
      /\ login' = login
  BY DEF Tick
<1>2. age' \in [Sockets -> Nat]
  BY <1>1 DEF GoneInv
<1>3. ASSUME NEW s \in registered', link'[s] = "closed"
      PROVE  age'[s] <= 1 /\ (s \in alive' => age'[s] = 0)
  <2>1. s \in registered /\ s \notin gone /\ link[s] = "closed" /\ s \in Sockets
    BY <1>1, <1>3 DEF GoneInv
  <2>2. CASE s \in mine
    <3>1. s \in alive /\ age[s] = 0
      BY <2>1, <2>2 DEF Overdue, GoneInv
    <3>2. age'[s] = age[s] + 1
      BY <1>1, <2>1, <2>2
    <3>3. s \notin alive'
      BY <1>1, <2>2
    <3> QED BY <3>1, <3>2, <3>3
  <2>3. CASE s \notin mine
    BY <1>1, <2>1, <2>3 DEF GoneInv
  <2> QED BY <2>2, <2>3
<1>4. \A s \in Sockets : link'[s] = "none" => link[s] = "none"
  BY <1>1 DEF GoneInv
<1>5. link' \in [Sockets -> {"none", "open", "closed"}]
  BY <1>1 DEF GoneInv
<1> QED BY <1>1, <1>2, <1>3, <1>4, <1>5 DEF GoneInv

\* Every step keeps the invariant.
LEMMA GoneStep == GoneInv /\ [Next]_vars => GoneInv'
<1> SUFFICES ASSUME GoneInv, [Next]_vars
             PROVE  GoneInv'
  OBVIOUS
<1>0. ASSUME UNCHANGED linkVars PROVE GoneInv'
  BY <1>0 DEF GoneInv, linkVars
<1>1. ASSUME NEW e \in Events, NotifySteps(e)
      PROVE  GoneInv'
  <2>1. UNCHANGED linkVars
    BY <1>1 DEF NotifySteps, EnqueueNotify, FindRecipientFails, FindRecipient,
                InsertInApp, PublishWs, SendEmail, EnqueueWebhook, LegFails, EndLeg,
                EndNotify, StallNotify
  <2> QED BY <2>1, <1>0
<1>2. ASSUME NEW h \in Hooks, HookSteps(h)
      PROVE  GoneInv'
  <2>1. UNCHANGED linkVars
    BY <1>2 DEF HookSteps, PickupHook, Post, LogDelivery, EndHook, StallHook
  <2> QED BY <2>1, <1>0
<1>3. ASSUME NEW r \in Replicas, Forward(r)
      PROVE  GoneInv'
  BY <1>3, <1>0 DEF Forward
<1>4. CASE UNCHANGED vars
  BY <1>4, <1>0 DEF vars
<1> QED BY <1>1, <1>2, <1>3, <1>4, GoneBySocket, GoneByTick DEF Next

(* notifications.gateway.ts: handleDisconnect cannot unregister a socket      *)
(* whose handshake is still being checked, but the heartbeat does.            *)
THEOREM GoneIsSoon == Spec => []GoneSoon
<1>1. Init => GoneInv
  BY GoneInit
<1>2. GoneInv /\ [Next]_vars => GoneInv'
  BY GoneStep
<1>3. GoneInv => GoneSoon
  BY DEF GoneInv, GoneSoon
<1> QED BY <1>1, <1>2, <1>3, PTL DEF Spec

-----------------------------------------------------------------------------
(* Types.                                                                  *)

\* The notify jobs: one that is not used up has an attempt and a stall left.
NotifyTyped ==
    /\ job \in [Events -> JobStates] /\ rowless \subseteq Events
    /\ tries \in [Events -> 0 .. MaxAttempts] /\ stalls \in [Events -> 0 .. MaxStalls + 1]
    /\ leg \in [Events -> [Channels -> {"todo", "ok", "failed"}]]
    /\ inbox \in [Events -> 0 .. MaxStalls + 1]
    /\ \A e \in Events : job[e] # "failed" => tries[e] < MaxAttempts /\ stalls[e] <= MaxStalls

\* The webhook jobs, which are active while their worker is at a step.
HookTyped ==
    /\ hook \in [Hooks -> JobStates] /\ taken \subseteq Hooks
    /\ hookTries \in [Hooks -> 0 .. MaxAttempts] /\ hookStalls \in [Hooks -> 0 .. MaxStalls + 1]
    /\ at \in [Hooks -> {"idle", "post", "log", "return"}]
    /\ answered \in [Hooks -> BOOLEAN] /\ logged \in [Hooks -> Nat]
    /\ \A h \in Hooks :
           /\ hook[h] = "active" <=> at[h] # "idle"
           /\ hook[h] # "failed" => hookTries[h] < MaxAttempts /\ hookStalls[h] <= MaxStalls

\* The gateways: a socket they listen to is registered.
LinkTyped ==
    /\ link \in [Sockets -> {"none", "open", "closed"}]
    /\ login \in [Sockets -> {"none", "pending", "accepted", "refused"}]
    /\ registered \subseteq Sockets /\ alive \subseteq registered
    /\ age \in [Sockets -> 0 .. IdleBeats]
    /\ \A s \in Sockets : Listening(s) => s \in registered
    /\ \A s \in Sockets : link[s] = "none" => login[s] = "none"

\* What the replicas have yet to receive.
WireTyped == wire \in [Replicas -> Seq(Events)]

\* Together they type the state.
LEMMA DeliveryTyped == NotifyTyped /\ HookTyped /\ LinkTyped /\ WireTyped => TypeOK
BY DEF NotifyTyped, HookTyped, LinkTyped, WireTyped, TypeOK

\* They hold at first.
LEMMA DeliveryInit == Init => NotifyTyped /\ HookTyped /\ LinkTyped /\ WireTyped
<1> SUFFICES ASSUME Init PROVE NotifyTyped /\ HookTyped /\ LinkTyped /\ WireTyped
  OBVIOUS
<1>1. NotifyTyped
  BY DeliveryAssumption DEF Init, NotifyTyped, JobStates, Fresh
<1>2. HookTyped
  BY DeliveryAssumption DEF Init, HookTyped, JobStates
<1>3. LinkTyped
  BY DEF Init, LinkTyped, Listening, IdleBeats
<1>4. WireTyped
  BY DEF Init, WireTyped
<1> QED BY <1>1, <1>2, <1>3, <1>4

\* A notify job's own steps; its inbox rows are bounded by what InboxInv says
\* of the attempt under way.
LEMMA NotifyTypesKept ==
    ASSUME NotifyTyped, InboxInv, NEW e \in Events, NotifySteps(e)
    PROVE  NotifyTyped'
<1> USE DeliveryAssumption DEF NotifyTyped, JobStates, Ready, EndLeg, Fresh
<1>1. CASE EnqueueNotify(e)
  BY <1>1 DEF EnqueueNotify
<1>2. CASE FindRecipientFails(e)
  BY <1>2 DEF FindRecipientFails, AfterThrow
<1>3. ASSUME NEW found \in BOOLEAN, FindRecipient(e, found)
      PROVE  NotifyTyped'
  BY <1>3 DEF FindRecipient
<1>4. CASE InsertInApp(e)
  <2>1. inbox[e] <= stalls[e]
    BY <1>4 DEF InsertInApp, InboxInv, InboxTypes, InboxFacts
  <2> QED BY <1>4, <2>1 DEF InsertInApp
<1>5. CASE PublishWs(e) \/ SendEmail(e) \/ EnqueueWebhook(e)
  <2>1. CASE PublishWs(e)
    BY <2>1 DEF PublishWs
  <2>2. CASE SendEmail(e)
    BY <2>2 DEF SendEmail
  <2>3. CASE EnqueueWebhook(e)
    BY <2>3 DEF EnqueueWebhook
  <2> QED BY <1>5, <2>1, <2>2, <2>3
<1>6. ASSUME NEW c \in Channels, LegFails(e, c)
      PROVE  NotifyTyped'
  BY <1>6 DEF LegFails
<1>7. CASE EndNotify(e)
  BY <1>7 DEF EndNotify, Rejects
<1>8. CASE StallNotify(e)
  BY <1>8 DEF StallNotify, AfterStall
<1> QED BY <1>1, <1>2, <1>3, <1>4, <1>5, <1>6, <1>7, <1>8 DEF NotifySteps

\* A webhook job's own steps.
LEMMA HookTypesKept ==
    ASSUME HookTyped, NEW h \in Hooks, HookSteps(h)
    PROVE  HookTyped'
<1> USE DeliveryAssumption DEF HookTyped, JobStates
<1>1. CASE PickupHook(h)
  BY <1>1 DEF PickupHook
<1>2. ASSUME NEW took \in BOOLEAN, NEW heard \in BOOLEAN, Post(h, took, heard)
      PROVE  HookTyped'
  BY <1>2 DEF Post
<1>3. ASSUME NEW written \in BOOLEAN, LogDelivery(h, written)
      PROVE  HookTyped'
  BY <1>3 DEF LogDelivery, AfterThrow
<1>4. CASE EndHook(h)
  BY <1>4 DEF EndHook
<1>5. CASE StallHook(h)
  BY <1>5 DEF StallHook, AfterStall
<1> QED BY <1>1, <1>2, <1>3, <1>4, <1>5 DEF HookSteps

\* A notify job enqueues a webhook job under a name of Hooks.
LEMMA HookTypesEnqueued ==
    ASSUME HookTyped, NEW e \in Events, EnqueueWebhook(e)
    PROVE  HookTyped'
<1>1. PICK n \in 1 .. MaxStalls + 1 :
          /\ hook[<<e, n>>] = "absent"
          /\ hook' = [hook EXCEPT ![<<e, n>>] = "waiting"]
  BY DEF EnqueueWebhook
<1>2. <<e, n>> \in Hooks
  BY DEF Hooks
<1>3. UNCHANGED <<hookTries, hookStalls, at, answered, taken, logged>>
  BY DEF EnqueueWebhook
<1> QED BY <1>1, <1>2, <1>3 DEF HookTyped, JobStates

\* A connection's own steps.
LEMMA LinkTypesKept ==
    ASSUME LinkTyped, NEW s \in Sockets, SocketSteps(s)
    PROVE  LinkTyped'
<1> USE DEF LinkTyped, Listening, IdleBeats
<1>1. CASE Connect(s)
  BY <1>1 DEF Connect
<1>2. CASE Accept(s)
  BY <1>2 DEF Accept
<1>3. CASE Refuse(s)
  BY <1>3 DEF Refuse
<1>4. CASE Disconnect(s)
  BY <1>4 DEF Disconnect, Unregister
<1>5. CASE Pong(s) \/ Message(s)
  BY <1>5 DEF Pong, Message
<1> QED BY <1>1, <1>2, <1>3, <1>4, <1>5 DEF SocketSteps

\* A heartbeat closes whom it drops.
LEMMA LinkTypesTicked ==
    ASSUME LinkTyped, NEW r \in Replicas, Tick(r)
    PROVE  LinkTyped'
<1> DEFINE mine == {s \in registered : Home[s] = r}
           gone == {s \in mine : Overdue(s)}
<1>1. /\ registered' = registered \ gone
      /\ link' = [s \in Sockets |-> IF s \in gone THEN "closed" ELSE link[s]]
      /\ alive' = alive \ mine
      /\ age' = [s \in Sockets |-> CASE s \in gone        -> 0
                                     [] s \in mine \ gone -> age[s] + 1
                                     [] OTHER             -> age[s]]
      /\ login' = login
  BY DEF Tick
<1>2. ASSUME NEW s \in Sockets PROVE age'[s] \in 0 .. IdleBeats
  <2>1. s \in mine \ gone => age[s] < IdleBeats
    BY DEF Overdue, LinkTyped, IdleBeats
  <2> QED BY <1>1, <2>1 DEF LinkTyped, IdleBeats
<1>3. age' \in [Sockets -> 0 .. IdleBeats]
  BY <1>1, <1>2
<1>4. ASSUME NEW s \in Sockets
      PROVE  /\ Listening(s)' => s \in registered'
             /\ link'[s] = "none" => login'[s] = "none"
  BY <1>1 DEF LinkTyped, Listening
<1>5. link' \in [Sockets -> {"none", "open", "closed"}]
  BY <1>1 DEF LinkTyped
<1> QED BY <1>1, <1>3, <1>4, <1>5 DEF LinkTyped

\* Messages are appended by a notify job and taken by a replica.
LEMMA WireKept ==
    ASSUME WireTyped,
           \/ \E e \in Events : PublishWs(e)
           \/ \E r \in Replicas : Forward(r)
           \/ wire' = wire
    PROVE  WireTyped'
<1>1. CASE \E e \in Events : PublishWs(e)
  BY <1>1 DEF WireTyped, PublishWs
<1>2. CASE \E r \in Replicas : Forward(r)
  BY <1>2 DEF WireTyped, Forward
<1> QED BY <1>1, <1>2 DEF WireTyped

\* Every step keeps the types, given the inbox invariant.
LEMMA DeliveryStep ==
    ASSUME NotifyTyped, HookTyped, LinkTyped, WireTyped, InboxInv, [Next]_vars
    PROVE  NotifyTyped' /\ HookTyped' /\ LinkTyped' /\ WireTyped'
<1>1. ASSUME UNCHANGED <<notifyVars, inbox>> PROVE NotifyTyped'
  BY <1>1 DEF NotifyTyped, notifyVars
<1>2. ASSUME UNCHANGED hookVars PROVE HookTyped'
  BY <1>2 DEF HookTyped, hookVars
<1>3. ASSUME UNCHANGED linkVars PROVE LinkTyped'
  BY <1>3 DEF LinkTyped, Listening, linkVars
<1>4. ASSUME NEW e \in Events, NotifySteps(e)
      PROVE  NotifyTyped' /\ HookTyped' /\ LinkTyped' /\ WireTyped'
  <2>1. UNCHANGED linkVars
    BY <1>4 DEF NotifySteps, EnqueueNotify, FindRecipientFails, FindRecipient,
                InsertInApp, PublishWs, SendEmail, EnqueueWebhook, LegFails, EndLeg,
                EndNotify, StallNotify
  <2>2. UNCHANGED hookVars \/ EnqueueWebhook(e)
    BY <1>4 DEF NotifySteps, EnqueueNotify, FindRecipientFails, FindRecipient,
                InsertInApp, PublishWs, SendEmail, LegFails, EndNotify, StallNotify
  <2>3. wire' = wire \/ PublishWs(e)
    BY <1>4 DEF NotifySteps, EnqueueNotify, FindRecipientFails, FindRecipient,
                InsertInApp, SendEmail, EnqueueWebhook, LegFails, EndNotify, StallNotify
  <2> QED BY <1>2, <1>3, <1>4, <2>1, <2>2, <2>3, NotifyTypesKept, HookTypesEnqueued, WireKept
<1>5. ASSUME NEW h \in Hooks, HookSteps(h)
      PROVE  NotifyTyped' /\ HookTyped' /\ LinkTyped' /\ WireTyped'
  <2>1. UNCHANGED <<notifyVars, inbox, linkVars, wire>>
    BY <1>5 DEF HookSteps, PickupHook, Post, LogDelivery, EndHook, StallHook
  <2> QED BY <1>1, <1>3, <1>5, <2>1, HookTypesKept, WireKept
<1>6. ASSUME NEW s \in Sockets, SocketSteps(s)
      PROVE  NotifyTyped' /\ HookTyped' /\ LinkTyped' /\ WireTyped'
  <2>1. UNCHANGED <<notifyVars, inbox, hookVars, wire>>
    BY <1>6 DEF SocketSteps, Connect, Accept, Refuse, Disconnect, Pong, Message
  <2> QED BY <1>1, <1>2, <1>6, <2>1, LinkTypesKept, WireKept
<1>7. ASSUME NEW r \in Replicas, Tick(r) \/ Forward(r)
      PROVE  NotifyTyped' /\ HookTyped' /\ LinkTyped' /\ WireTyped'
  <2>1. UNCHANGED <<notifyVars, inbox, hookVars>>
    BY <1>7 DEF Tick, Forward
  <2>2. CASE Tick(r)
    <3>1. wire' = wire
      BY <2>2 DEF Tick
    <3> QED BY <1>1, <1>2, <2>1, <2>2, <3>1, LinkTypesTicked, WireKept
  <2>3. CASE Forward(r)
    <3>1. UNCHANGED linkVars
      BY <2>3 DEF Forward
    <3> QED BY <1>1, <1>2, <1>3, <2>1, <2>3, <3>1, WireKept
  <2> QED BY <1>7, <2>2, <2>3
<1>8. CASE UNCHANGED vars
  <2>1. UNCHANGED <<notifyVars, inbox, hookVars, linkVars, wire>>
    BY <1>8 DEF vars
  <2> QED BY <1>1, <1>2, <1>3, <2>1, WireKept
<1> QED BY <1>4, <1>5, <1>6, <1>7, <1>8 DEF Next

\* Attempts, stalls and inbox rows stay within their bounds, a webhook job is
\* active exactly while its worker is at a step, only registered sockets are
\* pinged, and none is kept past the idle timeout; for any number of events,
\* replicas, sockets and deaths, and any limit on attempts and stalls.
THEOREM TypeCorrect == Spec => []TypeOK
<1> DEFINE Typed == NotifyTyped /\ HookTyped /\ LinkTyped /\ WireTyped
<1>1. Init => InboxInv /\ Typed
  BY InboxInit, DeliveryInit
<1>2. InboxInv /\ Typed /\ [Next]_vars => (InboxInv /\ Typed)'
  BY InboxStep, DeliveryStep
<1>3. Typed => TypeOK
  BY DeliveryTyped
<1> QED BY <1>1, <1>2, <1>3, PTL DEF Spec

-----------------------------------------------------------------------------
(* Community: the threads of comments.                                     *)

\* Descent over the natural numbers, as a set of pairs.
LessRel == {ss \in Nat \X Nat : ss[1] < ss[2]}

\* A set of natural numbers has a least one.
LEMMA LeastNumber ==
    ASSUME NEW S \in SUBSET Nat, S # {}
    PROVE  \E n \in S : \A m \in S : n <= m
<1>1. IsWellFoundedOn(LessRel, Nat)
  BY NatLessThanWellFounded DEF OpToRel, LessRel
<1>2. PICK x \in S : \A y \in S : ~(<<y, x>> \in LessRel)
  BY <1>1, WFMin
<1>3. ASSUME NEW m \in S
      PROVE  x <= m
  <2>1. <<m, x>> \in Nat \X Nat
    OBVIOUS
  <2>2. ~(m < x)
    BY <1>2, <2>1 DEF LessRel
  <2> QED BY <2>2
<1> QED BY <1>3

\* The recursion of Thread, and a function that obeys it up to n hops.
Deeper(found) == [a \in Grounds |-> found[a] \cup Children(found[a])]

\* Each asset's top comments.
Roots == [a \in Grounds |-> TopRows(a)]

\* g is the walk down the threads, for the first n hops.
Walks(g, n) == g = [hop \in 0 .. n |-> IF hop = 0 THEN Roots ELSE Deeper(g[hop - 1])]

\* There is one for every n: the least number without one could be reached from below.
LEMMA WalkExists == \A n \in Nat : \E g : Walks(g, n)
<1> DEFINE Bad == {n \in Nat : ~\E g : Walks(g, n)}
<1>1. SUFFICES ASSUME Bad # {} PROVE FALSE
  OBVIOUS
<1>2. PICK n \in Bad : \A m \in Bad : n <= m
  <2> HIDE DEF Bad
  <2>1. Bad \in SUBSET Nat BY DEF Bad
  <2> QED BY <1>1, <2>1, LeastNumber
<1>3. n \in Nat /\ ~\E g : Walks(g, n)
  OBVIOUS
<1>5. CASE n = 0
  <2> DEFINE g == [hop \in 0 .. 0 |-> Roots]
  <2>1. Walks(g, 0)
    BY DEF Walks
  <2> QED BY <2>1, <1>3, <1>5
<1>6. CASE n # 0
  <2>1. n - 1 \in Nat /\ n - 1 \notin Bad
    BY <1>2, <1>3, <1>6
  <2>2. PICK f : Walks(f, n - 1)
    BY <2>1
  <2> DEFINE g == [hop \in 0 .. n |-> IF hop = 0 THEN Roots ELSE Deeper(f[hop - 1])]
  <2>3. ASSUME NEW hop \in 0 .. n - 1
        PROVE  g[hop] = f[hop]
    <3>1. f[hop] = IF hop = 0 THEN Roots ELSE Deeper(f[hop - 1])
      BY <2>2, <2>1, <1>3 DEF Walks
    <3>2. hop \in 0 .. n
      BY <1>3
    <3> QED BY <3>1, <3>2
  <2>4. g = [hop \in 0 .. n |-> IF hop = 0 THEN Roots ELSE Deeper(g[hop - 1])]
    <3> HIDE DEF g
    <3>1. \A hop \in 0 .. n : hop # 0 => g[hop - 1] = f[hop - 1]
      BY <2>3, <1>3
    <3> QED BY <3>1 DEF g
  <2>5. Walks(g, n)
    <3> HIDE DEF g
    <3> QED BY <2>4 DEF Walks
  <2> QED BY <2>5, <1>3
<1> QED BY <1>5, <1>6

\* So Thread, which is defined as such a function, is one.
LEMMA ThreadUnfolds ==
    ASSUME NEW hop \in 0 .. MaxDepth
    PROVE  Thread[hop] = IF hop = 0 THEN Roots ELSE Deeper(Thread[hop - 1])
<1>1. \E g : Walks(g, MaxDepth)
  BY WalkExists, CommunityAssumption DEF CommunityAssumption
<1>2. Thread = [h \in 0 .. MaxDepth |-> IF h = 0 THEN Roots ELSE Deeper(Thread[h - 1])]
  BY <1>1 DEF Thread, Walks, Roots, Deeper
<1> QED BY <1>2

\* A comment replies to a comment, or to none.
ParentsAreRows == \A c \in posted : comment[c].parent \in Rows \cup {NoOne}

\* Sets of live rows that have the parent of each of theirs.
Chain(S) == \A c \in S : /\ c \in posted /\ ~comment[c].deleted
                         /\ comment[c].parent # NoOne => comment[c].parent \in S

\* The comment is in a chain of replies that hangs from a top comment that is shown.
Chained(c) == \E S : c \in S /\ Chain(S)

\* A row is shown by its own state and by what a function says of its parent.
LiveUnder(f, c) == /\ c \in posted /\ ~comment[c].deleted
                   /\ comment[c].parent # NoOne => f[comment[c].parent]

\* Shown obeys its recursion: a row is shown if it lies in a set of live rows that
\* has the parent of each of its rows.
LEMMA ShownUnfolds ==
    ASSUME ParentsAreRows
    PROVE  Shown = [c \in Rows |-> LiveUnder(Shown, c)]
<1> DEFINE g == [c \in Rows |-> Chained(c)]
<1>1. ASSUME NEW c \in Rows, Chained(c)
      PROVE  LiveUnder(g, c)
  <2>1. PICK S : c \in S /\ Chain(S)
    BY <1>1 DEF Chained
  <2>2. c \in posted /\ ~comment[c].deleted
    BY <2>1 DEF Chain
  <2>3. ASSUME comment[c].parent # NoOne
        PROVE  g[comment[c].parent]
    <3>1. comment[c].parent \in S /\ comment[c].parent \in Rows
      BY <2>1, <2>2, <2>3 DEF Chain, ParentsAreRows
    <3>2. Chained(comment[c].parent)
      BY <2>1, <3>1 DEF Chained
    <3> QED BY <3>1, <3>2
  <2> QED BY <2>2, <2>3 DEF LiveUnder
<1>2. ASSUME NEW c \in Rows, LiveUnder(g, c)
      PROVE  Chained(c)
  <2>1. CASE comment[c].parent = NoOne
    <3>1. Chain({c})
      BY <1>2, <2>1 DEF Chain, LiveUnder
    <3> QED BY <3>1 DEF Chained
  <2>2. CASE comment[c].parent # NoOne
    <3>1. comment[c].parent \in Rows
      BY <1>2, <2>2 DEF LiveUnder, ParentsAreRows
    <3>2. Chained(comment[c].parent)
      BY <1>2, <2>2, <3>1 DEF LiveUnder
    <3>3. PICK S : comment[c].parent \in S /\ Chain(S)
      BY <3>2 DEF Chained
    <3>4. Chain(S \cup {c})
      BY <1>2, <3>3 DEF Chain, LiveUnder
    <3> QED BY <3>4 DEF Chained
  <2> QED BY <2>1, <2>2
<1>3. \A c \in Rows : Chained(c) <=> LiveUnder(g, c)
  BY <1>1, <1>2
<1>4. \A c \in Rows : Chained(c) = LiveUnder(g, c)
  <2>1. ASSUME NEW c \in Rows
        PROVE  Chained(c) \in BOOLEAN /\ LiveUnder(g, c) \in BOOLEAN
    BY DEF Chained, LiveUnder
  <2> QED BY <1>3, <2>1
<1>5. g = [c \in Rows |-> LiveUnder(g, c)]
  <2> HIDE DEF g
  <2>1. g = [c \in Rows |-> Chained(c)]
    BY DEF g
  <2> QED BY <1>4, <2>1
<1>6. \E f : f = [c \in Rows |-> LiveUnder(f, c)]
  <2> HIDE DEF g
  <2> QED BY <1>5
<1> QED BY <1>6, Zenon DEF Shown, LiveUnder

\* What the tree of replies is like, beyond RepliesFormTree.
DepthsFit ==
    \A c \in posted : /\ comment[c].depth \in 0 .. MaxDepth
                      /\ comment[c].parent = NoOne => comment[c].depth = 0

\* The rows of an asset that are shown, down to a depth.
ShownTo(a, depth) == {c \in posted : comment[c].asset = a /\ Shown[c] /\ comment[c].depth <= depth}

\* One hop finds the shown rows one level deeper.
LEMMA HopFinds ==
    ASSUME ParentsAreRows, RepliesFormTree, DepthsFit, NEW a \in Grounds, NEW n \in Nat
    PROVE  /\ TopRows(a) = ShownTo(a, 0)
           /\ ShownTo(a, n + 1) = ShownTo(a, n) \cup Children(ShownTo(a, n))
<1> USE DEF posted
<1>1. \A c \in posted : Shown[c] <=> /\ ~comment[c].deleted
                                     /\ comment[c].parent # NoOne => Shown[comment[c].parent]
  BY ShownUnfolds DEF LiveUnder
<1>2. \A c \in posted : comment[c].depth \in Nat
  BY CommunityAssumption DEF DepthsFit, CommunityAssumption
<1>3. \A c \in posted : comment[c].parent # NoOne =>
          /\ comment[c].parent \in posted /\ comment[comment[c].parent].asset = comment[c].asset
          /\ comment[c].depth = comment[comment[c].parent].depth + 1
  BY DEF RepliesFormTree
<1>4. \A c \in posted : comment[c].depth = 0 <=> comment[c].parent = NoOne
  BY <1>2, <1>3 DEF DepthsFit
<1>5. TopRows(a) = ShownTo(a, 0)
  <2>1. ASSUME NEW c \in TopRows(a)
        PROVE  c \in ShownTo(a, 0)
    BY <1>1, <1>4, <2>1 DEF TopRows, ShownTo
  <2>2. ASSUME NEW c \in ShownTo(a, 0)
        PROVE  c \in TopRows(a)
    BY <1>1, <1>2, <1>4, <2>2 DEF TopRows, ShownTo
  <2> QED BY <2>1, <2>2
<1>6. ASSUME NEW c \in ShownTo(a, n + 1), c \notin ShownTo(a, n)
      PROVE  c \in Children(ShownTo(a, n))
  <2>1. c \in posted /\ comment[c].asset = a /\ Shown[c] /\ comment[c].depth = n + 1
    BY <1>2, <1>6 DEF ShownTo
  <2>2. comment[c].parent # NoOne
    BY <1>4, <2>1
  <2>3. comment[c].parent \in posted /\ comment[comment[c].parent].asset = a
        /\ comment[comment[c].parent].depth = n /\ Shown[comment[c].parent] /\ ~comment[c].deleted
    BY <1>1, <1>2, <1>3, <2>1, <2>2
  <2> QED BY <2>1, <2>3 DEF Children, ShownTo
<1>7. ASSUME NEW c \in Children(ShownTo(a, n))
      PROVE  c \in ShownTo(a, n + 1)
  <2>1. c \in posted /\ ~comment[c].deleted /\ comment[c].parent \in ShownTo(a, n)
    BY <1>7 DEF Children
  <2>2. comment[c].parent # NoOne
    BY <2>1, CommunityAssumption DEF ShownTo, CommunityAssumption
  <2>3. comment[c].asset = a /\ Shown[c] /\ comment[c].depth <= n + 1
    BY <1>1, <1>2, <1>3, <2>1, <2>2 DEF ShownTo
  <2> QED BY <2>1, <2>3 DEF ShownTo
<1>8. ASSUME NEW c \in ShownTo(a, n)
      PROVE  c \in ShownTo(a, n + 1)
  BY <1>2, <1>8 DEF ShownTo
<1>9. ShownTo(a, n + 1) = ShownTo(a, n) \cup Children(ShownTo(a, n))
  BY <1>6, <1>7, <1>8
<1> QED BY <1>5, <1>9

\* So the walk finds the shown rows down to its number of hops, by induction on it.
LEMMA ThreadShows ==
    ASSUME ParentsAreRows, RepliesFormTree, DepthsFit
    PROVE  \A hop \in 0 .. MaxDepth : \A a \in Grounds : Thread[hop][a] = ShownTo(a, hop)
<1> DEFINE Bad == {hop \in 0 .. MaxDepth : ~\A a \in Grounds : Thread[hop][a] = ShownTo(a, hop)}
<1>1. SUFFICES ASSUME Bad # {} PROVE FALSE
  OBVIOUS
<1>2. PICK hop \in Bad : \A m \in Bad : hop <= m
  <2> HIDE DEF Bad
  <2>1. Bad \in SUBSET Nat
    BY CommunityAssumption DEF Bad, CommunityAssumption
  <2> QED BY <1>1, <2>1, LeastNumber
<1>3. hop \in 0 .. MaxDepth /\ hop \in Nat /\ MaxDepth \in Nat
  BY CommunityAssumption DEF CommunityAssumption
<1>4. CASE hop = 0
  <2>1. \A a \in Grounds : Thread[0][a] = TopRows(a)
    BY <1>3, <1>4, ThreadUnfolds DEF Roots
  <2>2. \A a \in Grounds : Thread[hop][a] = ShownTo(a, hop)
    BY <1>4, <2>1, HopFinds
  <2> QED BY <2>2
<1>5. CASE hop # 0
  <2>1. hop - 1 \in 0 .. MaxDepth /\ hop - 1 \in Nat /\ (hop - 1) + 1 = hop
    BY <1>3, <1>5
  <2>2. hop - 1 \notin Bad
    <3> HIDE DEF Bad
    <3> QED BY <1>2, <1>3
  <2>3. \A a \in Grounds : Thread[hop - 1][a] = ShownTo(a, hop - 1)
    BY <2>1, <2>2
  <2>4. Thread[hop] = Deeper(Thread[hop - 1])
    BY <1>3, <1>5, ThreadUnfolds
  <2>5. ASSUME NEW a \in Grounds
        PROVE  Thread[hop][a] = ShownTo(a, hop)
    <3>1. Thread[hop][a] = ShownTo(a, hop - 1) \cup Children(ShownTo(a, hop - 1))
      BY <2>3, <2>4 DEF Deeper
    <3>2. ShownTo(a, (hop - 1) + 1) = ShownTo(a, hop - 1) \cup Children(ShownTo(a, hop - 1))
      BY <2>1, HopFinds
    <3> QED BY <2>1, <3>1, <3>2
  <2> QED BY <2>5
<1> QED BY <1>4, <1>5

\* The page of an asset has what is shown of it.
LEMMA PageShows ==
    ASSUME ParentsAreRows, RepliesFormTree, DepthsFit
    PROVE  ThreadsComplete
<1>1. ASSUME NEW a \in Grounds
      PROVE  Listed(a) = {c \in posted : comment[c].asset = a /\ Shown[c]}
  <2>1. Thread[MaxDepth][a] = ShownTo(a, MaxDepth)
    BY ThreadShows, CommunityAssumption DEF CommunityAssumption
  <2>2. \A c \in posted : comment[c].depth <= MaxDepth
    BY DEF DepthsFit
  <2> QED BY <2>1, <2>2 DEF Listed, ShownTo
<1> QED BY <1>1 DEF ThreadsComplete

-----------------------------------------------------------------------------
(* The invariant of the requests in flight.                                *)

\* The records of requests in flight.
Errands ==
    [op : {"none", "post", "issue", "wish", "review", "complain"},
     step : {"idle", "parent", "insert", "tell", "write", "report"},
     asset : Grounds \cup {NoOne}, on : Rows \cup {NoOne, Wish, Complaint},
     by : People \cup {NoOne}, status : Statuses \cup Reviews \cup {NoOne},
     reason : Reasons, depth : 0 .. MaxDepth]

\* The types of the variables of Community.
CommunityTypes ==
    /\ standing \subseteq Grounds
    /\ comment \in [Rows -> Comments \cup {NoOne}]
    /\ wish \in Wishes \cup {NoOne}
    /\ complaint \in Complaints \cup {NoOne}
    /\ errand \in [Threads -> Errands]
    /\ notices \subseteq (Subjects \cup {Complaint}) \X People
    /\ told \in [Subjects -> Statuses \cup Wishes \cup {NoOne}]

\* What a request that posts a comment carries at each step.
PostFits(e) ==
    e.op = "post" =>
        /\ e.step \in {"parent", "insert", "tell"}
        /\ e.asset \in Grounds /\ e.by \in People /\ e.status \in {"OPEN", NoOne}
        /\ e.step = "parent" => e.on \in Rows
        /\ e.step = "insert" =>
              IF e.on = NoOne THEN e.depth = 0
              ELSE e.on \in posted /\ comment[e.on].asset = e.asset /\ e.depth = comment[e.on].depth + 1
        /\ e.step = "tell" => e.on \in posted /\ e.by = comment[e.on].author

\* What one that sets an issue's status carries.
IssueFits(e) ==
    e.op = "issue" =>
        e.step \in {"write", "report"} /\ e.on \in posted /\ e.by \in People /\ e.status \in Statuses

\* One that has submitted a wish.
WishFits(e) == e.op = "wish" => e.step = "tell" /\ e.on = Wish /\ wish # NoOne

\* One that reviews it.
ReviewFits(e) ==
    e.op = "review" =>
        e.step \in {"write", "report"} /\ e.on = Wish /\ wish # NoOne /\ e.by \in People /\ e.status \in Reviews

\* One that files a report.
ComplainFits(e) ==
    e.op = "complain" =>
        /\ e.step \in {"insert", "tell"} /\ e.on = Complaint /\ e.asset \in Grounds /\ e.by \in People
        /\ IF e.step = "insert" THEN complaint = NoOne ELSE complaint # NoOne /\ complaint.by = e.by

\* A request that is about nothing is at rest.
NoneFits(e) == e.op = "none" => e.step = "idle"

\* A request in flight carries what its step needs.
Fits(e) == PostFits(e) /\ IssueFits(e) /\ WishFits(e) /\ ReviewFits(e) /\ ComplainFits(e) /\ NoneFits(e)

\* All requests do.
ErrandsFit ==
    /\ \A t \in Threads : Fits(errand[t])
    /\ \A t, q \in Threads : errand[t].op = "complain" /\ errand[q].op = "complain" => t = q

\* Replies form a tree, and each is one deeper than its parent.
TreeFits == RepliesFormTree /\ DepthsFit

\* What the arguments about threads and about notices share.
CommunityBase == CommunityTypes /\ ErrandsFit /\ TreeFits

\* Beginning, going on and ending keep the requests well typed.
LEMMA ErrandsTyped ==
    ASSUME CommunityTypes, NEW t \in Threads
    PROVE  /\ Done(t) => errand' \in [Threads -> Errands]
           /\ \A step \in {"insert", "tell", "report"} : Step(t, step) => errand' \in [Threads -> Errands]
<1>1. Free \in Errands
  BY CommunityAssumption DEF Free, Errands, CommunityAssumption, Reasons
<1>2. ASSUME NEW step \in {"insert", "tell", "report"}
      PROVE  [errand[t] EXCEPT !.step = step] \in Errands
  BY DEF CommunityTypes, Errands
<1> QED BY <1>1, <1>2 DEF Done, Step, CommunityTypes

\* The rows, the requests and the notices are what they may be.
LEMMA CommunityTypesKept ==
    ASSUME CommunityBase, CommunityNext
    PROVE  CommunityTypes'
<1>0. CommunityTypes /\ ErrandsFit
  BY DEF CommunityBase
<1> USE CommunityAssumption DEF CommunityAssumption, CommunityTypes
<1>1. ASSUME NEW t \in Threads, NEW a \in Grounds, NEW on \in Rows \cup {NoOne}, NEW by \in People, NEW s \in {"OPEN", NoOne}, PostComment(t, a, on, by, s)
      PROVE  CommunityTypes'
  BY <1>0, <1>1 DEF PostComment, Errands, Free, Begun, Done, Step, Is, tellingVars, posted, Comments, Statuses, Reviews, Reasons, Wish, Complaint, Subjects
<1>2. ASSUME NEW t \in Threads, FindParent(t)
      PROVE  CommunityTypes'
  BY <1>0, <1>2 DEF FindParent, Errands, Free, Begun, Done, Step, Is, tellingVars, posted, Comments, Statuses, Reviews, Reasons, Wish, Complaint, Subjects
<1>3. ASSUME NEW t \in Threads, Insert(t)
      PROVE  CommunityTypes'
  BY <1>0, <1>3 DEF Insert, Errands, Free, Begun, Done, Step, Is, tellingVars, posted, Comments, Statuses, Reviews, Reasons, Wish, Complaint, Subjects
<1>4. ASSUME NEW t \in Threads, Announce(t)
      PROVE  CommunityTypes'
  <2>1. errand' \in [Threads -> Errands]
    BY <1>0, <1>4, ErrandsTyped DEF Announce
  <2>2. ASSUME errand[t].on \in posted
        PROVE  <<errand[t].on, Addressee(errand[t].on)>> \in Subjects \X People
    <3>1. errand[t].on \in Rows /\ comment[errand[t].on] \in Comments
      BY <1>0, <2>2 DEF posted
    <3>2. comment[errand[t].on].parent # NoOne => comment[errand[t].on].parent \in posted
      BY <1>0, <2>2 DEF CommunityBase, TreeFits, RepliesFormTree
    <3>3. comment[errand[t].on].parent # NoOne => comment[comment[errand[t].on].parent] \in Comments
      BY <1>0, <3>2 DEF posted
    <3> QED BY <3>1, <3>3 DEF Comments, Addressee, Subjects
  <2> QED BY <1>0, <1>4, <2>1, <2>2 DEF Announce
<1>5. ASSUME NEW t \in Threads, NEW c \in Rows, NEW by \in People, NEW s \in Statuses, FindIssue(t, c, by, s)
      PROVE  CommunityTypes'
  BY <1>0, <1>5 DEF FindIssue, Errands, Free, Begun, Done, Step, Is, tellingVars, posted, Comments, Statuses, Reviews, Reasons, Wish, Complaint, Subjects
<1>6. ASSUME NEW t \in Threads, SetIssueStatus(t)
      PROVE  CommunityTypes'
  <2>1. errand' \in [Threads -> Errands]
    BY <1>0, <1>6, ErrandsTyped DEF SetIssueStatus
  <2>2. errand[t].on \in posted /\ errand[t].status \in Statuses
    BY <1>0, <1>6 DEF SetIssueStatus, Is, ErrandsFit, Fits, IssueFits
  <2>3. errand[t].on \in Rows /\ comment[errand[t].on] \in Comments
    BY <1>0, <2>2 DEF posted
  <2>4. [comment[errand[t].on] EXCEPT !.status = errand[t].status] \in Comments
    BY <2>2, <2>3 DEF Comments
  <2>5. comment' = [comment EXCEPT ![errand[t].on] = [comment[errand[t].on] EXCEPT !.status = errand[t].status]]
    BY <1>6 DEF SetIssueStatus
  <2>6. comment' \in [Rows -> Comments \cup {NoOne}]
    BY <1>0, <2>3, <2>4, <2>5
  <2>7. told' \in [Subjects -> Statuses \cup Wishes \cup {NoOne}]
    BY <1>0, <1>6, <2>2, <2>3 DEF SetIssueStatus, Subjects
  <2> QED BY <1>0, <1>6, <2>1, <2>6, <2>7 DEF SetIssueStatus
<1>7. ASSUME NEW t \in Threads, Report(t)
      PROVE  CommunityTypes'
  <2>1. errand' \in [Threads -> Errands]
    BY <1>0, <1>7, ErrandsTyped DEF Report
  <2>2. errand[t] \in Errands /\ Fits(errand[t])
    BY <1>0 DEF ErrandsFit
  <2>3. \/ errand[t].op = "issue" /\ errand[t].on \in Rows /\ errand[t].status \in Statuses
        \/ errand[t].op = "review" /\ errand[t].on = Wish /\ errand[t].status \in Reviews
    BY <1>7, <2>2 DEF Report, Fits, PostFits, IssueFits, WishFits, ReviewFits, ComplainFits, NoneFits, Errands, posted
  <2>4. errand[t].reason \in Reasons
    BY <2>2 DEF Errands
  <2>5. [status |-> errand[t].status, comment |-> errand[t].reason] \in Wishes \/ errand[t].op = "issue"
    BY <2>3, <2>4 DEF Wishes
  <2>6. told' \in [Subjects -> Statuses \cup Wishes \cup {NoOne}]
    BY <1>0, <1>7, <2>3, <2>5 DEF Report, Subjects
  <2> QED BY <1>0, <1>7, <2>1, <2>6 DEF Report
<1>8. ASSUME NEW t \in Threads, Die(t)
      PROVE  CommunityTypes'
  BY <1>0, <1>8 DEF Die, Errands, Free, Begun, Done, Step, Is, tellingVars, posted, Comments, Statuses, Reviews, Reasons, Wish, Complaint, Subjects
<1>9. ASSUME NEW c \in Rows, DeleteComment(c)
      PROVE  CommunityTypes'
  <2>1. comment[c] \in Comments
    BY <1>0, <1>9 DEF DeleteComment, posted
  <2>2. [comment[c] EXCEPT !.deleted = TRUE] \in Comments
    BY <2>1 DEF Comments
  <2>3. comment' = [comment EXCEPT ![c] = [comment[c] EXCEPT !.deleted = TRUE]]
    BY <1>9 DEF DeleteComment
  <2>4. comment' \in [Rows -> Comments \cup {NoOne}]
    BY <1>0, <2>2, <2>3
  <2> QED BY <1>0, <1>9, <2>4 DEF DeleteComment, tellingVars
<1>10. ASSUME NEW a \in Grounds, RemoveAsset(a)
      PROVE  CommunityTypes'
  BY <1>0, <1>10 DEF RemoveAsset, Errands, Free, Begun, Done, Step, Is, tellingVars, posted, Comments, Statuses, Reviews, Reasons, Wish, Complaint, Subjects
<1>11. ASSUME NEW t \in Threads, SubmitWish(t)
      PROVE  CommunityTypes'
  BY <1>0, <1>11 DEF SubmitWish, Errands, Free, Begun, Done, Step, Is, tellingVars, posted, Comments, Statuses, Reviews, Reasons, Wish, Complaint, Subjects, Wishes
<1>12. ASSUME NEW t \in Threads, AnnounceWish(t)
      PROVE  CommunityTypes'
  BY <1>0, <1>12 DEF AnnounceWish, Errands, Free, Begun, Done, Step, Is, tellingVars, posted, Comments, Statuses, Reviews, Reasons, Wish, Complaint, Subjects
<1>13. ASSUME NEW t \in Threads, NEW s \in Reviews, NEW reason \in Reasons, FindWish(t, s, reason)
      PROVE  CommunityTypes'
  <2> DEFINE why == IF reason # NoOne THEN reason ELSE wish.comment
             e == [Free EXCEPT !.op = "review", !.step = "write", !.on = Wish, !.by = Admin,
                   !.status = s, !.reason = why]
  <2>1. wish \in Wishes /\ errand' = [errand EXCEPT ![t] = e] /\ UNCHANGED <<standing, comment, wish, complaint, notices, told>>
    BY <1>0, <1>13 DEF FindWish, Begun, tellingVars
  <2>2. why \in Reasons
    BY <2>1 DEF Wishes
  <2> HIDE DEF why
  <2>3. [Free EXCEPT !.op = "review", !.step = "write", !.on = Wish] \in Errands
    <3>1. Free \in Errands
      BY CommunityAssumption DEF Free, Errands, CommunityAssumption, Reasons
    <3> QED BY <3>1 DEF Errands
  <2>4. e \in Errands
    <3> DEFINE f == [Free EXCEPT !.op = "review", !.step = "write", !.on = Wish]
    <3>1. e = [f EXCEPT !.by = Admin, !.status = s, !.reason = why]
      OBVIOUS
    <3> HIDE DEF f
    <3> QED BY <2>2, <2>3, <3>1 DEF Errands, f
  <2> HIDE DEF e
  <2>5. errand' \in [Threads -> Errands]
    BY <1>0, <2>1, <2>4
  <2> QED BY <1>0, <2>1, <2>5
<1>14. ASSUME NEW t \in Threads, ReviewWish(t)
      PROVE  CommunityTypes'
  <2>1. errand' \in [Threads -> Errands]
    BY <1>0, <1>14, ErrandsTyped DEF ReviewWish
  <2>2. errand[t].status \in Reviews /\ errand[t].reason \in Reasons
    BY <1>0, <1>14 DEF ReviewWish, Is, ErrandsFit, Fits, ReviewFits, Errands
  <2>3. wish' \in Wishes
    BY <1>14, <2>2 DEF ReviewWish, Wishes
  <2> QED BY <1>0, <1>14, <2>1, <2>3 DEF ReviewWish
<1>15. ASSUME NEW t \in Threads, NEW a \in Grounds, NEW by \in People, CreateReport(t, a, by)
      PROVE  CommunityTypes'
  BY <1>0, <1>15 DEF CreateReport, Errands, Free, Begun, Done, Step, Is, tellingVars, posted, Comments, Statuses, Reviews, Reasons, Wish, Complaint, Subjects
<1>16. ASSUME NEW t \in Threads, InsertReport(t)
      PROVE  CommunityTypes'
  <2>1. errand' \in [Threads -> Errands]
    BY <1>0, <1>16, ErrandsTyped DEF InsertReport
  <2>2. errand[t].asset \in Grounds /\ errand[t].by \in People
    BY <1>0, <1>16 DEF InsertReport, Is, ErrandsFit, Fits, ComplainFits
  <2>3. complaint' \in Complaints \cup {NoOne}
    BY <1>0, <1>16, <2>2 DEF InsertReport, Complaints
  <2> QED BY <1>0, <1>16, <2>1, <2>3 DEF InsertReport, tellingVars
<1>17. ASSUME NEW t \in Threads, AnnounceReport(t)
      PROVE  CommunityTypes'
  <2>1. errand' \in [Threads -> Errands]
    BY <1>0, <1>17, ErrandsTyped DEF AnnounceReport
  <2>2. Concerned(errand[t].by) \subseteq People
    BY DEF Concerned
  <2>3. notices' \subseteq (Subjects \cup {Complaint}) \X People
    BY <1>0, <1>17, <2>2 DEF AnnounceReport
  <2> QED BY <1>0, <1>17, <2>1, <2>3 DEF AnnounceReport
<1> QED
  BY <1>1, <1>2, <1>3, <1>4, <1>5, <1>6, <1>7, <1>8, <1>9, <1>10, <1>11, <1>12, <1>13, <1>14, <1>15, <1>16, <1>17 DEF CommunityNext, CommentNext, WishNext, ReportNext

\* A change of status, or a deletion, leaves a row what it was otherwise.
LEMMA ChangedShape ==
    ASSUME CommunityTypes, NEW c \in posted, NEW status \in Statuses,
           \/ comment' = [comment EXCEPT ![c].status = status]
           \/ comment' = [comment EXCEPT ![c].deleted = TRUE]
    PROVE  \A x \in Rows : /\ comment'[x] # NoOne <=> comment[x] # NoOne
                           /\ comment'[x].asset = comment[x].asset /\ comment'[x].parent = comment[x].parent
                           /\ comment'[x].depth = comment[x].depth /\ comment'[x].author = comment[x].author
<1>1. c \in Rows /\ comment[c] \in Comments
  BY DEF posted, CommunityTypes
<1>2. /\ [comment[c] EXCEPT !.status = status] \in Comments
      /\ [comment[c] EXCEPT !.deleted = TRUE] \in Comments
  BY <1>1 DEF Comments
<1>3. comment'[c] = [comment[c] EXCEPT !.status = status] \/ comment'[c] = [comment[c] EXCEPT !.deleted = TRUE]
  BY <1>1 DEF CommunityTypes
<1>4. comment'[c] # NoOne /\ comment[c] # NoOne
  BY <1>1, <1>2, <1>3, CommunityAssumption DEF CommunityAssumption
<1>5. \A x \in Rows : x # c => comment'[x] = comment[x]
  BY DEF CommunityTypes
<1>6. /\ comment'[c].asset = comment[c].asset /\ comment'[c].parent = comment[c].parent
      /\ comment'[c].depth = comment[c].depth /\ comment'[c].author = comment[c].author
  BY <1>1, <1>3 DEF Comments
<1> QED BY <1>4, <1>5, <1>6

\* What a request carries fits as long as the row, the wish and the report it is about stay.
LEMMA FitsStays ==
    ASSUME NEW q \in Threads, Fits(errand[q]), errand'[q] = errand[q],
           wish # NoOne => wish' # NoOne, complaint' = complaint,
           LET c == errand[q].on
           IN c \in posted => c \in posted' /\ comment'[c].asset = comment[c].asset
                              /\ comment'[c].depth = comment[c].depth
                              /\ comment'[c].author = comment[c].author
    PROVE  Fits(errand[q])'
<1>1. PostFits(errand[q])'
  BY DEF Fits, PostFits
<1>2. IssueFits(errand[q])' /\ NoneFits(errand[q])'
  BY DEF Fits, IssueFits, NoneFits
<1>3. WishFits(errand[q])' /\ ReviewFits(errand[q])'
  BY DEF Fits, WishFits, ReviewFits
<1>4. ComplainFits(errand[q])'
  BY DEF Fits, ComplainFits
<1> QED BY <1>1, <1>2, <1>3, <1>4 DEF Fits

\* A request at rest carries nothing.
LEMMA FreeFits ==
    ASSUME NEW q \in Threads, errand'[q] = Free
    PROVE  Fits(errand[q])' /\ errand'[q].op = "none"
BY DEF Free, Fits, PostFits, IssueFits, WishFits, ReviewFits, ComplainFits, NoneFits

\* When one request moved, and files no report, it is enough that each still fits.
LEMMA OneMoved ==
    ASSUME ErrandsFit, NEW t \in Threads, \A q \in Threads \ {t} : errand'[q] = errand[q],
           errand'[t].op # "complain", \A q \in Threads : Fits(errand[q])'
    PROVE  ErrandsFit'
<1>1. ASSUME NEW u \in Threads, NEW q \in Threads, errand'[u].op = "complain", errand'[q].op = "complain"
      PROVE  u = q
  BY <1>1 DEF ErrandsFit
<1> QED BY <1>1 DEF ErrandsFit

\* A request in flight is of its row, which stays as long as it runs; one report at a time.
LEMMA ErrandsFitKept ==
    ASSUME CommunityBase, CommunityNext
    PROVE  ErrandsFit'
<1>0. CommunityTypes /\ ErrandsFit
  BY DEF CommunityBase
<1> USE CommunityAssumption DEF CommunityAssumption, CommunityTypes
<1>1. ASSUME NEW t \in Threads, NEW a \in Grounds, NEW on \in Rows \cup {NoOne}, NEW by \in People, NEW s \in {"OPEN", NoOne}, PostComment(t, a, on, by, s)
      PROVE  ErrandsFit'
  BY <1>0, <1>1 DEF PostComment, ErrandsFit, Fits, PostFits, IssueFits, WishFits, ReviewFits, ComplainFits, NoneFits, Errands, Free, Begun, Done, Step, Is, tellingVars, posted, Wish, Complaint
<1>2. ASSUME NEW t \in Threads, FindParent(t)
      PROVE  ErrandsFit'
  <2>1. UNCHANGED <<comment, wish, complaint>> /\ Is(t, "post", "parent")
    BY <1>2 DEF FindParent
  <2>2. \/ Done(t)
        \/ /\ errand[t].on \in posted /\ comment[errand[t].on].asset = errand[t].asset
           /\ comment[errand[t].on].depth + 1 < MaxDepth
           /\ errand' = [errand EXCEPT ![t].step = "insert", ![t].depth = comment[errand[t].on].depth + 1]
    BY <1>2 DEF FindParent
  <2>3. \A q \in Threads : Fits(errand[q])
    BY <1>0 DEF ErrandsFit
  <2>4. \A q \in Threads \ {t} : errand'[q] = errand[q]
    BY <1>0, <2>2 DEF Done
  <2>5. ASSUME NEW q \in Threads \ {t} PROVE Fits(errand[q])'
    BY <2>1, <2>3, <2>4, FitsStays DEF posted
  <2>6. CASE Done(t)
    <3>1. errand'[t] = Free
      BY <1>0, <2>6 DEF Done
    <3>2. Fits(errand[t])' /\ errand'[t].op = "none"
      BY <3>1, FreeFits
    <3> QED BY <1>0, <2>4, <2>5, <3>2 DEF ErrandsFit
  <2>7. CASE ~Done(t)
    <3>1. errand[t] \in Errands /\ errand[t].op = "post" /\ errand[t].on # NoOne /\ PostFits(errand[t])
      BY <1>0, <2>1, <2>2, <2>3, <2>7 DEF Is, Fits, posted
    <3>2. errand'[t] = [errand[t] EXCEPT !.step = "insert", !.depth = comment[errand[t].on].depth + 1]
      BY <1>0, <2>2, <2>7
    <3>3. /\ errand'[t].op = "post" /\ errand'[t].step = "insert" /\ errand'[t].on = errand[t].on
          /\ errand'[t].by = errand[t].by /\ errand'[t].status = errand[t].status
          /\ errand'[t].asset = errand[t].asset /\ errand'[t].depth = comment[errand[t].on].depth + 1
      BY <3>1, <3>2 DEF Errands
    <3>4. PostFits(errand[t])'
      BY <2>1, <2>2, <2>7, <3>1, <3>3 DEF PostFits, posted
    <3>5. Fits(errand[t])'
      BY <3>3, <3>4 DEF Fits, IssueFits, WishFits, ReviewFits, ComplainFits, NoneFits
    <3> QED BY <1>0, <2>4, <2>5, <3>3, <3>5 DEF ErrandsFit
  <2> QED BY <2>6, <2>7
<1>3. ASSUME NEW t \in Threads, Insert(t)
      PROVE  ErrandsFit'
  BY <1>0, <1>3 DEF Insert, ErrandsFit, Fits, PostFits, IssueFits, WishFits, ReviewFits, ComplainFits, NoneFits, Errands, Free, Begun, Done, Step, Is, tellingVars, posted, Wish, Complaint
<1>4. ASSUME NEW t \in Threads, Announce(t)
      PROVE  ErrandsFit'
  <2>1. UNCHANGED <<comment, wish, complaint>> /\ Done(t)
    BY <1>4 DEF Announce
  <2>2. errand'[t] = Free /\ \A q \in Threads \ {t} : errand'[q] = errand[q]
    BY <1>0, <2>1 DEF Done
  <2>3. Fits(errand[t])' /\ errand'[t].op = "none"
    BY <2>2, FreeFits
  <2>4. \A q \in Threads : Fits(errand[q])
    BY <1>0 DEF ErrandsFit
  <2>5. ASSUME NEW q \in Threads \ {t} PROVE Fits(errand[q])'
    BY <2>1, <2>2, <2>4, FitsStays DEF posted
  <2> QED BY <1>0, <2>2, <2>3, <2>5 DEF ErrandsFit
<1>5. ASSUME NEW t \in Threads, NEW c \in Rows, NEW by \in People, NEW s \in Statuses, FindIssue(t, c, by, s)
      PROVE  ErrandsFit'
  BY <1>0, <1>5 DEF FindIssue, ErrandsFit, Fits, PostFits, IssueFits, WishFits, ReviewFits, ComplainFits, NoneFits, Errands, Free, Begun, Done, Step, Is, tellingVars, posted, Wish, Complaint
<1>6. ASSUME NEW t \in Threads, SetIssueStatus(t)
      PROVE  ErrandsFit'
  <2>0. "OPEN" \in Statuses
    BY DEF Statuses
  <2>1. \A x \in Rows : (comment'[x] # NoOne <=> comment[x] # NoOne) /\ comment'[x].asset = comment[x].asset
                      /\ comment'[x].depth = comment[x].depth /\ comment'[x].author = comment[x].author
    BY <1>0, <1>6, <2>0, ChangedShape DEF SetIssueStatus, Is, ErrandsFit, Fits, IssueFits
  <2>2. wish' = wish /\ complaint' = complaint /\ (Done(t) \/ Step(t, "report")) /\ Is(t, "issue", "write")
    BY <1>6 DEF SetIssueStatus
  <2>3. \A q \in Threads : Fits(errand[q])
    BY <1>0 DEF ErrandsFit
  <2>4. ASSUME NEW q \in Threads, errand'[q] = errand[q] PROVE Fits(errand[q])'
    BY <2>1, <2>2, <2>3, <2>4, FitsStays DEF posted
  <2>5. ASSUME NEW q \in Threads, q # t PROVE errand'[q] = errand[q]
    BY <1>0, <2>2, <2>5 DEF Done, Step
  <2>6. errand[t] \in Errands /\ errand[t].op = "issue" /\ IssueFits(errand[t])
    BY <1>0, <2>2, <2>3 DEF Is, Fits
  <2>7. errand'[t] = Free \/ errand'[t] = [errand[t] EXCEPT !.step = "report"]
    BY <1>0, <2>2 DEF Done, Step
  <2>8. CASE errand'[t] = Free
    <3>1. Fits(errand[t])' /\ errand'[t].op = "none"
      BY <2>8, FreeFits
    <3> QED BY <1>0, <2>4, <2>5, <3>1 DEF ErrandsFit
  <2>9. CASE errand'[t] = [errand[t] EXCEPT !.step = "report"]
    <3>1. /\ errand'[t].op = "issue" /\ errand'[t].step = "report" /\ errand'[t].on = errand[t].on
          /\ errand'[t].by = errand[t].by /\ errand'[t].status = errand[t].status
      BY <2>6, <2>9 DEF Errands
    <3>2. errand[t].on \in posted'
      BY <2>1, <2>6 DEF IssueFits, posted
    <3>3. Fits(errand[t])'
      BY <2>6, <3>1, <3>2 DEF Fits, PostFits, IssueFits, WishFits, ReviewFits, ComplainFits, NoneFits
    <3> QED BY <1>0, <2>4, <2>5, <3>1, <3>3 DEF ErrandsFit
  <2> QED BY <2>7, <2>8, <2>9
<1>7. ASSUME NEW t \in Threads, Report(t)
      PROVE  ErrandsFit'
  BY <1>0, <1>7 DEF Report, ErrandsFit, Fits, PostFits, IssueFits, WishFits, ReviewFits, ComplainFits, NoneFits, Errands, Free, Begun, Done, Step, Is, tellingVars, posted, Wish, Complaint
<1>8. ASSUME NEW t \in Threads, Die(t)
      PROVE  ErrandsFit'
  BY <1>0, <1>8 DEF Die, ErrandsFit, Fits, PostFits, IssueFits, WishFits, ReviewFits, ComplainFits, NoneFits, Errands, Free, Begun, Done, Step, Is, tellingVars, posted, Wish, Complaint
<1>9. ASSUME NEW c \in Rows, DeleteComment(c)
      PROVE  ErrandsFit'
  <2>0. "OPEN" \in Statuses
    BY DEF Statuses
  <2>1. \A x \in Rows : (comment'[x] # NoOne <=> comment[x] # NoOne) /\ comment'[x].asset = comment[x].asset
                      /\ comment'[x].depth = comment[x].depth /\ comment'[x].author = comment[x].author
    BY <1>0, <1>9, <2>0, ChangedShape DEF DeleteComment
  <2> QED BY <1>0, <1>9, <2>1 DEF DeleteComment, ErrandsFit, Fits, PostFits, IssueFits, WishFits, ReviewFits, ComplainFits, NoneFits, Errands, Free, Begun, Done, Step, Is, tellingVars, posted, Wish, Complaint
<1>10. ASSUME NEW a \in Grounds, RemoveAsset(a)
      PROVE  ErrandsFit'
  <2> DEFINE gone == {c \in posted : comment[c].asset = a}
  <2>1. /\ comment' = [c \in Rows |-> IF c \in gone THEN NoOne ELSE comment[c]]
        /\ errand' = [t \in Threads |-> IF errand[t].on \in gone THEN Free ELSE errand[t]]
        /\ UNCHANGED <<wish, complaint>>
    BY <1>10 DEF RemoveAsset
  <2>2. ASSUME NEW q \in Threads
        PROVE  Fits(errand[q])' /\ errand'[q].op \in {errand[q].op, "none"}
    <3>1. CASE errand[q].on \in gone
      <4>1. errand'[q] = Free
        BY <2>1, <3>1
      <4> QED BY <4>1, FreeFits
    <3>2. CASE errand[q].on \notin gone
      <4>1. errand'[q] = errand[q]
        BY <2>1, <3>2
      <4>2. errand[q].on \in posted => errand[q].on \in posted' /\ comment'[errand[q].on] = comment[errand[q].on]
        BY <2>1, <3>2 DEF posted
      <4>3. Fits(errand[q])
        BY <1>0 DEF ErrandsFit
      <4> HIDE DEF gone
      <4> QED BY <2>1, <4>1, <4>2, <4>3, FitsStays
    <3> QED BY <3>1, <3>2
  <2> HIDE DEF gone
  <2> QED BY <1>0, <2>2 DEF ErrandsFit
<1>11. ASSUME NEW t \in Threads, SubmitWish(t)
      PROVE  ErrandsFit'
  <2>1. [status |-> "SENT", comment |-> NoOne] \in Wishes
    BY DEF Wishes, Reasons
  <2>2. wish' # NoOne
    BY <1>11, <2>1 DEF SubmitWish
  <2>3. UNCHANGED <<comment, complaint>> /\ wish' = [status |-> "SENT", comment |-> NoOne]
    BY <1>11 DEF SubmitWish
  <2>4. /\ errand[t] = Free /\ \A q \in Threads \ {t} : errand'[q] = errand[q]
        /\ errand'[t] = [Free EXCEPT !.op = "wish", !.step = "tell", !.on = Wish]
    BY <1>0, <1>11 DEF SubmitWish, Begun
  <2>5. \A q \in Threads : Fits(errand[q])
    BY <1>0 DEF ErrandsFit
  <2>6. ASSUME NEW q \in Threads \ {t} PROVE Fits(errand[q])'
    BY <2>3, <2>4, <2>5, FitsStays, <2>2 DEF posted
  <2>7. errand'[t].op = "wish" /\ errand'[t].step = "tell" /\ errand'[t].on = Wish
    BY <2>4 DEF Free
  <2>8. Fits(errand[t])'
    BY <2>2, <2>7 DEF Fits, PostFits, IssueFits, WishFits, ReviewFits, ComplainFits, NoneFits
  <2>9. \A q \in Threads : Fits(errand[q])'
    BY <2>6, <2>8
  <2> QED BY <1>0, <2>4, <2>7, <2>9, OneMoved
<1>12. ASSUME NEW t \in Threads, AnnounceWish(t)
      PROVE  ErrandsFit'
  <2>1. UNCHANGED <<comment, wish, complaint>> /\ Done(t)
    BY <1>12 DEF AnnounceWish
  <2>2. errand'[t] = Free /\ \A q \in Threads \ {t} : errand'[q] = errand[q]
    BY <1>0, <2>1 DEF Done
  <2>3. Fits(errand[t])' /\ errand'[t].op = "none"
    BY <2>2, FreeFits
  <2>4. \A q \in Threads : Fits(errand[q])
    BY <1>0 DEF ErrandsFit
  <2>5. ASSUME NEW q \in Threads \ {t} PROVE Fits(errand[q])'
    BY <2>1, <2>2, <2>4, FitsStays DEF posted
  <2> QED BY <1>0, <2>2, <2>3, <2>5 DEF ErrandsFit
<1>13. ASSUME NEW t \in Threads, NEW s \in Reviews, NEW reason \in Reasons, FindWish(t, s, reason)
      PROVE  ErrandsFit'
  <2>1. UNCHANGED <<comment, complaint>> /\ wish' = wish /\ wish # NoOne
    BY <1>13 DEF FindWish
  <2>2. /\ errand[t] = Free /\ \A q \in Threads \ {t} : errand'[q] = errand[q]
        /\ errand'[t] = [Free EXCEPT !.op = "review", !.step = "write", !.on = Wish, !.by = Admin, !.status = s,
                       !.reason = IF reason # NoOne THEN reason ELSE wish.comment]
    BY <1>0, <1>13 DEF FindWish, Begun
  <2>3. \A q \in Threads : Fits(errand[q])
    BY <1>0 DEF ErrandsFit
  <2>4. ASSUME NEW q \in Threads \ {t} PROVE Fits(errand[q])'
    BY <2>1, <2>2, <2>3, FitsStays DEF posted
  <2>5. /\ errand'[t].op = "review" /\ errand'[t].step = "write" /\ errand'[t].on = Wish
        /\ errand'[t].by = Admin /\ errand'[t].status = s
    BY <2>2 DEF Free
  <2>6. Fits(errand[t])'
    BY <2>1, <2>5 DEF Fits, PostFits, IssueFits, WishFits, ReviewFits, ComplainFits, NoneFits
  <2>9. \A q \in Threads : Fits(errand[q])'
    BY <2>4, <2>6
  <2> QED BY <1>0, <2>2, <2>5, <2>9, OneMoved
<1>14. ASSUME NEW t \in Threads, ReviewWish(t)
      PROVE  ErrandsFit'
  <2>1. errand[t].status \in Reviews /\ errand[t].reason \in Reasons
    BY <1>0, <1>14 DEF ReviewWish, Is, ErrandsFit, Fits, ReviewFits, Errands
  <2>2. wish' # NoOne
    BY <1>14, <2>1 DEF ReviewWish, Wishes
  <2>3. UNCHANGED <<comment, complaint>> /\ errand[t].op = "review" /\ Step(t, "report")
    BY <1>14 DEF ReviewWish, Is
  <2>4. \A q \in Threads : Fits(errand[q])
    BY <1>0 DEF ErrandsFit
  <2>5. ASSUME NEW q \in Threads, q # t PROVE errand'[q] = errand[q] /\ Fits(errand[q])'
    <3>1. errand'[q] = errand[q]
      BY <1>0, <2>3, <2>5 DEF Step
    <3> QED BY <2>2, <2>3, <2>4, <3>1, FitsStays DEF posted
  <2>6. errand[t] \in Errands /\ ReviewFits(errand[t]) /\ errand'[t] = [errand[t] EXCEPT !.step = "report"]
    BY <1>0, <2>3, <2>4 DEF Fits, Step
  <2>7. /\ errand'[t].op = "review" /\ errand'[t].step = "report" /\ errand'[t].on = errand[t].on
        /\ errand'[t].by = errand[t].by /\ errand'[t].status = errand[t].status
    BY <2>3, <2>6 DEF Errands
  <2>8. Fits(errand[t])'
    BY <2>2, <2>3, <2>6, <2>7 DEF Fits, PostFits, IssueFits, WishFits, ReviewFits, ComplainFits, NoneFits
  <2> QED BY <1>0, <2>3, <2>5, <2>7, <2>8 DEF ErrandsFit
<1>15. ASSUME NEW t \in Threads, NEW a \in Grounds, NEW by \in People, CreateReport(t, a, by)
      PROVE  ErrandsFit'
  <2>1. UNCHANGED <<comment, complaint>> /\ wish' = wish
    BY <1>15 DEF CreateReport
  <2>2. /\ errand[t] = Free /\ \A q \in Threads \ {t} : errand'[q] = errand[q]
        /\ errand'[t] = [Free EXCEPT !.op = "complain", !.step = "insert", !.asset = a, !.on = Complaint, !.by = by]
    BY <1>0, <1>15 DEF CreateReport, Begun
  <2>3. \A q \in Threads : Fits(errand[q])
    BY <1>0 DEF ErrandsFit
  <2>4. ASSUME NEW q \in Threads \ {t} PROVE Fits(errand[q])'
    BY <2>1, <2>2, <2>3, FitsStays DEF posted
  <2>5. /\ errand'[t].op = "complain" /\ errand'[t].step = "insert" /\ errand'[t].on = Complaint
        /\ errand'[t].asset = a /\ errand'[t].by = by
    BY <2>2 DEF Free
  <2>6. complaint = NoOne /\ \A q \in Threads \ {t} : errand'[q].op # "complain"
    BY <1>15, <2>2 DEF CreateReport
  <2>7. Fits(errand[t])'
    BY <2>1, <2>5, <2>6 DEF Fits, PostFits, IssueFits, WishFits, ReviewFits, ComplainFits, NoneFits
  <2> QED BY <2>4, <2>6, <2>7 DEF ErrandsFit
<1>16. ASSUME NEW t \in Threads, InsertReport(t)
      PROVE  ErrandsFit'
  <2>1. errand[t].asset \in Grounds /\ errand[t].by \in People
    BY <1>0, <1>16 DEF InsertReport, Is, ErrandsFit, Fits, ComplainFits
  <2>2. [asset |-> errand[t].asset, by |-> errand[t].by] # NoOne
    BY <2>1 DEF Complaints
  <2>3. ASSUME NEW q \in Threads, q # t
        PROVE  errand'[q] = errand[q] /\ errand[q].op # "complain"
    BY <1>0, <1>16, <2>3 DEF InsertReport, Is, ErrandsFit, Done, Step
  <2> QED BY <1>0, <1>16, <2>1, <2>2, <2>3 DEF InsertReport, ErrandsFit, Fits, PostFits, IssueFits, WishFits, ReviewFits, ComplainFits, NoneFits, Errands, Free, Begun, Done, Step, Is, tellingVars, posted, Wish, Complaint
<1>17. ASSUME NEW t \in Threads, AnnounceReport(t)
      PROVE  ErrandsFit'
  BY <1>0, <1>17 DEF AnnounceReport, ErrandsFit, Fits, PostFits, IssueFits, WishFits, ReviewFits, ComplainFits, NoneFits, Errands, Free, Begun, Done, Step, Is, tellingVars, posted, Wish, Complaint
<1> QED
  BY <1>1, <1>2, <1>3, <1>4, <1>5, <1>6, <1>7, <1>8, <1>9, <1>10, <1>11, <1>12, <1>13, <1>14, <1>15, <1>16, <1>17 DEF CommunityNext, CommentNext, WishNext, ReportNext

\* A reply is inserted under a parent that was looked at and has not gone; an asset goes with all its rows.
LEMMA TreeKept ==
    ASSUME CommunityBase, CommunityNext
    PROVE  TreeFits'
<1>0. CommunityTypes /\ ErrandsFit /\ TreeFits
  BY DEF CommunityBase
<1> USE CommunityAssumption DEF CommunityAssumption, CommunityTypes
<1>1. ASSUME NEW t \in Threads, NEW a \in Grounds, NEW on \in Rows \cup {NoOne}, NEW by \in People, NEW s \in {"OPEN", NoOne}, PostComment(t, a, on, by, s)
      PROVE  TreeFits'
  BY <1>0, <1>1 DEF PostComment, TreeFits, RepliesFormTree, DepthsFit, tellingVars, posted
<1>2. ASSUME NEW t \in Threads, FindParent(t)
      PROVE  TreeFits'
  BY <1>0, <1>2 DEF FindParent, TreeFits, RepliesFormTree, DepthsFit, tellingVars, posted
<1>3. ASSUME NEW t \in Threads, Insert(t)
      PROVE  TreeFits'
  <2>1. CASE errand[t].asset \in standing /\ errand[t].on \in posted \cup {NoOne}
    <3>1. PICK c \in Rows \ posted : comment' = [comment EXCEPT ![c] =
                   [asset |-> errand[t].asset, parent |-> errand[t].on, depth |-> errand[t].depth,
                    author |-> errand[t].by, status |-> errand[t].status, deleted |-> FALSE]]
      BY <1>3, <2>1 DEF Insert
    <3>2. PostFits(errand[t]) /\ errand[t] \in Errands /\ errand[t].op = "post" /\ errand[t].step = "insert"
      BY <1>0, <1>3 DEF Insert, Is, ErrandsFit, Fits
    <3>3. /\ comment'[c] = [asset |-> errand[t].asset, parent |-> errand[t].on, depth |-> errand[t].depth,
                    author |-> errand[t].by, status |-> errand[t].status, deleted |-> FALSE]
          /\ \A x \in Rows : x # c => comment'[x] = comment[x]
      BY <1>0, <3>1
    <3>4. /\ comment'[c].asset = errand[t].asset /\ comment'[c].parent = errand[t].on
          /\ comment'[c].depth = errand[t].depth /\ errand[t].depth \in 0 .. MaxDepth
      BY <3>2, <3>3 DEF Errands
    <3>5. posted' \subseteq posted \cup {c} /\ posted \subseteq posted' /\ c \notin posted
      BY <3>1, <3>3 DEF posted
    <3>6. \A x \in posted : x # c /\ comment'[x] = comment[x]
      BY <3>3, <3>5 DEF posted
    <3>7. standing' = standing
      BY <1>3 DEF Insert
    <3>8. IF errand[t].on = NoOne THEN errand[t].depth = 0
          ELSE /\ errand[t].on \in posted /\ comment[errand[t].on].asset = errand[t].asset
               /\ errand[t].depth = comment[errand[t].on].depth + 1
      BY <3>2 DEF PostFits
    <3>9. RepliesFormTree'
      BY <1>0, <2>1, <3>4, <3>5, <3>6, <3>7, <3>8 DEF TreeFits, RepliesFormTree
    <3>10. DepthsFit'
      BY <1>0, <2>1, <3>4, <3>5, <3>6, <3>8 DEF TreeFits, DepthsFit
    <3> QED BY <3>9, <3>10 DEF TreeFits
  <2>2. CASE ~(errand[t].asset \in standing /\ errand[t].on \in posted \cup {NoOne})
    BY <1>0, <1>3, <2>2 DEF Insert, TreeFits, RepliesFormTree, DepthsFit, tellingVars, posted
  <2> QED BY <2>1, <2>2
<1>4. ASSUME NEW t \in Threads, Announce(t)
      PROVE  TreeFits'
  BY <1>0, <1>4 DEF Announce, TreeFits, RepliesFormTree, DepthsFit, tellingVars, posted
<1>5. ASSUME NEW t \in Threads, NEW c \in Rows, NEW by \in People, NEW s \in Statuses, FindIssue(t, c, by, s)
      PROVE  TreeFits'
  BY <1>0, <1>5 DEF FindIssue, TreeFits, RepliesFormTree, DepthsFit, tellingVars, posted
<1>6. ASSUME NEW t \in Threads, SetIssueStatus(t)
      PROVE  TreeFits'
  <2>0. "OPEN" \in Statuses
    BY DEF Statuses
  <2>1. \A x \in Rows : /\ comment'[x] # NoOne <=> comment[x] # NoOne
                       /\ comment'[x].asset = comment[x].asset /\ comment'[x].parent = comment[x].parent
                       /\ comment'[x].depth = comment[x].depth
    BY <1>0, <1>6, <2>0, ChangedShape DEF SetIssueStatus, Is, ErrandsFit, Fits, IssueFits
  <2>2. posted' = posted /\ standing' = standing
    BY <1>6, <2>1 DEF SetIssueStatus, posted
  <2>3. posted \subseteq Rows
    BY DEF posted
  <2>4. RepliesFormTree'
    BY <1>0, <2>1, <2>2, <2>3 DEF TreeFits, RepliesFormTree
  <2>5. DepthsFit'
    BY <1>0, <2>1, <2>2, <2>3 DEF TreeFits, DepthsFit
  <2> QED BY <2>4, <2>5 DEF TreeFits
<1>7. ASSUME NEW t \in Threads, Report(t)
      PROVE  TreeFits'
  BY <1>0, <1>7 DEF Report, TreeFits, RepliesFormTree, DepthsFit, tellingVars, posted
<1>8. ASSUME NEW t \in Threads, Die(t)
      PROVE  TreeFits'
  BY <1>0, <1>8 DEF Die, TreeFits, RepliesFormTree, DepthsFit, tellingVars, posted
<1>9. ASSUME NEW c \in Rows, DeleteComment(c)
      PROVE  TreeFits'
  <2>0. "OPEN" \in Statuses
    BY DEF Statuses
  <2>1. \A x \in Rows : /\ comment'[x] # NoOne <=> comment[x] # NoOne
                       /\ comment'[x].asset = comment[x].asset /\ comment'[x].parent = comment[x].parent
                       /\ comment'[x].depth = comment[x].depth
    BY <1>0, <1>9, <2>0, ChangedShape DEF DeleteComment
  <2> QED BY <1>0, <1>9, <2>1 DEF DeleteComment, Comments, TreeFits, RepliesFormTree, DepthsFit, tellingVars, posted
<1>10. ASSUME NEW a \in Grounds, RemoveAsset(a)
      PROVE  TreeFits'
  BY <1>0, <1>10 DEF RemoveAsset, TreeFits, RepliesFormTree, DepthsFit, tellingVars, posted
<1>11. ASSUME NEW t \in Threads, SubmitWish(t)
      PROVE  TreeFits'
  BY <1>0, <1>11 DEF SubmitWish, TreeFits, RepliesFormTree, DepthsFit, tellingVars, posted
<1>12. ASSUME NEW t \in Threads, AnnounceWish(t)
      PROVE  TreeFits'
  BY <1>0, <1>12 DEF AnnounceWish, TreeFits, RepliesFormTree, DepthsFit, tellingVars, posted
<1>13. ASSUME NEW t \in Threads, NEW s \in Reviews, NEW reason \in Reasons, FindWish(t, s, reason)
      PROVE  TreeFits'
  BY <1>0, <1>13 DEF FindWish, TreeFits, RepliesFormTree, DepthsFit, tellingVars, posted
<1>14. ASSUME NEW t \in Threads, ReviewWish(t)
      PROVE  TreeFits'
  BY <1>0, <1>14 DEF ReviewWish, TreeFits, RepliesFormTree, DepthsFit, tellingVars, posted
<1>15. ASSUME NEW t \in Threads, NEW a \in Grounds, NEW by \in People, CreateReport(t, a, by)
      PROVE  TreeFits'
  BY <1>0, <1>15 DEF CreateReport, TreeFits, RepliesFormTree, DepthsFit, tellingVars, posted
<1>16. ASSUME NEW t \in Threads, InsertReport(t)
      PROVE  TreeFits'
  BY <1>0, <1>16 DEF InsertReport, TreeFits, RepliesFormTree, DepthsFit, tellingVars, posted
<1>17. ASSUME NEW t \in Threads, AnnounceReport(t)
      PROVE  TreeFits'
  BY <1>0, <1>17 DEF AnnounceReport, TreeFits, RepliesFormTree, DepthsFit, tellingVars, posted
<1> QED
  BY <1>1, <1>2, <1>3, <1>4, <1>5, <1>6, <1>7, <1>8, <1>9, <1>10, <1>11, <1>12, <1>13, <1>14, <1>15, <1>16, <1>17 DEF CommunityNext, CommentNext, WishNext, ReportNext

-----------------------------------------------------------------------------
(* The notices of comments.                                                *)

\* A request has submitted the wish and is going to tell of it.
Untold(s) == \E t \in Threads : errand[t].step = "tell" /\ errand[t].on = s

\* Whom a notice tells of a comment, and that it was told unless it still is to be.
NoticesRight ==
    /\ \A n \in notices : n[1] \in Rows =>
           n[1] \in posted /\ n[2] = Addressee(n[1]) /\ n[2] # comment[n[1]].author
    /\ \A c \in posted : c \notin unheard /\ Addressee(c) # comment[c].author /\ ~Untold(c) =>
           <<c, Addressee(c)>> \in notices

\* As long as the rows are what they were, whom they concern is too.
LEMMA AddresseeStays ==
    ASSUME CommunityTypes, TreeFits,
           \A x \in posted : /\ comment'[x] # NoOne
                             /\ comment'[x].parent = comment[x].parent /\ comment'[x].author = comment[x].author
    PROVE  \A x \in posted : Addressee(x)' = Addressee(x)
<1>1. ASSUME NEW x \in posted
      PROVE  Addressee(x)' = Addressee(x)
  <2>1. comment[x].parent # NoOne => comment[x].parent \in posted
    BY DEF TreeFits, RepliesFormTree
  <2>2. comment'[x].parent = comment[x].parent
    OBVIOUS
  <2>3. comment[x].parent # NoOne => comment'[comment[x].parent].author = comment[comment[x].parent].author
    BY <2>1
  <2> QED BY <2>2, <2>3 DEF Addressee
<1> QED BY <1>1

\* A notice is of a comment that stands, and a comment that nobody is about to tell of was told.
LEMMA NoticesKept ==
    ASSUME CommunityBase, NoticesRight, CommunityNext
    PROVE  NoticesRight'
<1>0. CommunityTypes /\ ErrandsFit /\ TreeFits
  BY DEF CommunityBase
<1> USE CommunityAssumption DEF CommunityAssumption, CommunityTypes
<1>1. ASSUME NEW t \in Threads, NEW a \in Grounds, NEW on \in Rows \cup {NoOne}, NEW by \in People, NEW s \in {"OPEN", NoOne}, PostComment(t, a, on, by, s)
      PROVE  NoticesRight'
  BY <1>0, <1>1 DEF PostComment, NoticesRight, Untold, Free, Begun, Done, Step, Is, tellingVars, posted, Addressee
<1>2. ASSUME NEW t \in Threads, FindParent(t)
      PROVE  NoticesRight'
  BY <1>0, <1>2 DEF FindParent, NoticesRight, Untold, Free, Begun, Done, Step, Is, tellingVars, posted, Addressee
<1>3. ASSUME NEW t \in Threads, Insert(t)
      PROVE  NoticesRight'
  <2>1. CASE errand[t].asset \in standing /\ errand[t].on \in posted \cup {NoOne}
    <3>1. PICK c \in Rows \ posted :
              /\ comment' = [comment EXCEPT ![c] =
                   [asset |-> errand[t].asset, parent |-> errand[t].on, depth |-> errand[t].depth,
                    author |-> errand[t].by, status |-> errand[t].status, deleted |-> FALSE]]
              /\ errand' = [errand EXCEPT ![t].step = "tell", ![t].on = c]
      BY <1>3, <2>1 DEF Insert
    <3>2. \A x \in posted : x \in Rows /\ x # c /\ comment'[x] = comment[x] /\ comment'[x] # NoOne
      BY <1>0, <3>1 DEF posted
    <3>3. \A x \in posted : Addressee(x)' = Addressee(x)
      BY <1>0, <3>2, AddresseeStays
    <3>4. posted' \subseteq posted \cup {c} /\ posted \subseteq posted'
      BY <1>0, <3>1, <3>2 DEF posted
    <3>5. errand'[t].step = "tell" /\ errand'[t].on = c
      BY <1>0, <3>1 DEF Errands
    <3>6. Untold(c)'
      BY <3>5 DEF Untold
    <3>7. \A x \in posted : Untold(x) => Untold(x)'
      BY <1>0, <1>3, <3>1 DEF Insert, Is, Untold
    <3>8. notices' = notices /\ unheard' = unheard
      BY <1>3 DEF Insert
    <3> QED BY <3>2, <3>3, <3>4, <3>6, <3>7, <3>8 DEF NoticesRight
  <2>2. CASE ~(errand[t].asset \in standing /\ errand[t].on \in posted \cup {NoOne})
    BY <1>0, <1>3, <2>2 DEF Insert, NoticesRight, Untold, Free, Begun, Done, Step, Is, tellingVars, posted, Addressee
  <2> QED BY <2>1, <2>2
<1>4. ASSUME NEW t \in Threads, Announce(t)
      PROVE  NoticesRight'
  <2>1. errand[t].on \in posted /\ errand[t].by = comment[errand[t].on].author
    BY <1>0, <1>4 DEF Announce, Is, ErrandsFit, Fits, PostFits
  <2> DEFINE new == <<errand[t].on, Addressee(errand[t].on)>>
  <2>2. /\ \A n \in notices' : n \in notices \/ (n = new /\ Addressee(errand[t].on) # errand[t].by)
        /\ notices \subseteq notices' /\ unheard' = unheard
        /\ Addressee(errand[t].on) # errand[t].by => new \in notices'
    <3>1. notices' = IF Addressee(errand[t].on) # errand[t].by THEN notices \cup {new} ELSE notices
      BY <1>4, <2>1 DEF Announce
    <3>2. unheard' = unheard
      BY <1>4 DEF Announce
    <3> HIDE DEF new
    <3> QED BY <3>1, <3>2
  <2>3. \A c \in Rows : c # errand[t].on => (Untold(c) => Untold(c)')
    BY <1>0, <1>4, <2>1 DEF Announce, Done, Untold
  <2>4. comment' = comment /\ posted' = posted /\ \A c \in Rows : Addressee(c)' = Addressee(c)
    BY <1>4 DEF Announce, posted, Addressee
  <2>5. ASSUME NEW n \in notices', n[1] \in Rows
        PROVE  n[1] \in posted /\ n[2] = Addressee(n[1]) /\ n[2] # comment[n[1]].author
    BY <2>1, <2>2, <2>5 DEF NoticesRight
  <2>6. ASSUME NEW c \in posted, c \notin unheard', Addressee(c) # comment[c].author, ~Untold(c)'
        PROVE  <<c, Addressee(c)>> \in notices'
    BY <2>1, <2>2, <2>3, <2>6 DEF NoticesRight, posted
  <2>7. \A n \in notices' : n[1] \in Rows =>
            (n[1] \in posted /\ n[2] = Addressee(n[1]) /\ n[2] # comment[n[1]].author)'
    BY <2>4, <2>5
  <2>8. \A c \in posted' : (c \notin unheard /\ Addressee(c) # comment[c].author /\ ~Untold(c) =>
            <<c, Addressee(c)>> \in notices)'
    BY <2>4, <2>6 DEF posted
  <2> QED BY <2>7, <2>8 DEF NoticesRight
<1>5. ASSUME NEW t \in Threads, NEW c \in Rows, NEW by \in People, NEW s \in Statuses, FindIssue(t, c, by, s)
      PROVE  NoticesRight'
  BY <1>0, <1>5 DEF FindIssue, NoticesRight, Untold, Free, Begun, Done, Step, Is, tellingVars, posted, Addressee
<1>6. ASSUME NEW t \in Threads, SetIssueStatus(t)
      PROVE  NoticesRight'
  <2>0. "OPEN" \in Statuses
    BY DEF Statuses
  <2>1. \A x \in Rows : /\ comment'[x] # NoOne <=> comment[x] # NoOne
                       /\ comment'[x].parent = comment[x].parent /\ comment'[x].author = comment[x].author
    BY <1>0, <1>6, <2>0, ChangedShape DEF SetIssueStatus, Is, ErrandsFit, Fits, IssueFits
  <2>2. posted' = posted
    BY <2>1 DEF posted
  <2>3. \A x \in posted : Addressee(x)' = Addressee(x)
    BY <1>0, <2>1, AddresseeStays DEF posted
  <2>4. \A x \in Rows : Untold(x) => Untold(x)'
    BY <1>0, <1>6 DEF SetIssueStatus, Is, Done, Step, Untold, tellingVars
  <2>5. notices' = notices /\ unheard' = unheard
    BY <1>6 DEF SetIssueStatus, tellingVars
  <2>6. \A x \in posted : x \in Rows /\ comment'[x].author = comment[x].author
    BY <2>1 DEF posted
  <2> QED BY <2>2, <2>3, <2>4, <2>5, <2>6 DEF NoticesRight
<1>7. ASSUME NEW t \in Threads, Report(t)
      PROVE  NoticesRight'
  BY <1>0, <1>7 DEF Report, NoticesRight, Untold, Free, Begun, Done, Step, Is, tellingVars, posted, Addressee
<1>8. ASSUME NEW t \in Threads, Die(t)
      PROVE  NoticesRight'
  BY <1>0, <1>8 DEF Die, NoticesRight, Untold, Free, Begun, Done, Step, Is, tellingVars, posted, Addressee
<1>9. ASSUME NEW c \in Rows, DeleteComment(c)
      PROVE  NoticesRight'
  <2>0. "OPEN" \in Statuses
    BY DEF Statuses
  <2>1. \A x \in Rows : /\ comment'[x] # NoOne <=> comment[x] # NoOne
                       /\ comment'[x].parent = comment[x].parent /\ comment'[x].author = comment[x].author
    BY <1>0, <1>9, <2>0, ChangedShape DEF DeleteComment
  <2>2. posted' = posted
    BY <2>1 DEF posted
  <2>3. \A x \in posted : Addressee(x)' = Addressee(x)
    BY <1>0, <2>1, AddresseeStays DEF posted
  <2>4. \A x \in Rows : Untold(x) => Untold(x)'
    BY <1>0, <1>9 DEF DeleteComment, Is, Done, Step, Untold, tellingVars
  <2>5. notices' = notices /\ unheard' = unheard
    BY <1>9 DEF DeleteComment, tellingVars
  <2>6. \A x \in posted : x \in Rows /\ comment'[x].author = comment[x].author
    BY <2>1 DEF posted
  <2> QED BY <2>2, <2>3, <2>4, <2>5, <2>6 DEF NoticesRight
<1>10. ASSUME NEW a \in Grounds, RemoveAsset(a)
      PROVE  NoticesRight'
  <2> DEFINE gone == {c \in posted : comment[c].asset = a}
  <2>1. /\ comment' = [c \in Rows |-> IF c \in gone THEN NoOne ELSE comment[c]]
        /\ notices' = {n \in notices : n[1] \notin gone} /\ unheard' = unheard \ gone
        /\ errand' = [t \in Threads |-> IF errand[t].on \in gone THEN Free ELSE errand[t]]
    BY <1>10 DEF RemoveAsset
  <2>2. posted' = posted \ gone /\ \A c \in posted \ gone : comment'[c] = comment[c]
    BY <2>1 DEF posted
  <2>3. \A c \in posted : comment[c].parent # NoOne =>
            comment[c].parent \in posted /\ comment[comment[c].parent].asset = comment[c].asset
    BY <1>0 DEF TreeFits, RepliesFormTree
  <2>4. \A c \in posted \ gone : comment[c].parent # NoOne => comment[c].parent \in posted \ gone
    BY <2>3
  <2>5. \A c \in posted \ gone : Addressee(c)' = Addressee(c)
    <3> HIDE DEF gone
    <3> QED BY <2>2, <2>4 DEF Addressee
  <2>6. \A c \in posted \ gone : Untold(c) => Untold(c)'
    <3> HIDE DEF gone
    <3> QED BY <2>1 DEF Untold
  <2> HIDE DEF gone
  <2>7. ASSUME NEW n \in notices', n[1] \in Rows
        PROVE  n[1] \in posted \ gone /\ n[2] = Addressee(n[1]) /\ n[2] # comment[n[1]].author
    BY <2>1, <2>7 DEF NoticesRight
  <2>8. ASSUME NEW c \in posted \ gone, c \notin unheard', Addressee(c) # comment[c].author, ~Untold(c)'
        PROVE  <<c, Addressee(c)>> \in notices'
    BY <2>1, <2>6, <2>8 DEF NoticesRight
  <2>9. \A n \in notices' : n[1] \in Rows =>
            (n[1] \in posted /\ n[2] = Addressee(n[1]) /\ n[2] # comment[n[1]].author)'
    BY <2>2, <2>5, <2>7
  <2>10. \A c \in posted' : (c \notin unheard /\ Addressee(c) # comment[c].author /\ ~Untold(c) =>
            <<c, Addressee(c)>> \in notices)'
    BY <2>2, <2>5, <2>8
  <2> QED BY <2>9, <2>10 DEF NoticesRight
<1>11. ASSUME NEW t \in Threads, SubmitWish(t)
      PROVE  NoticesRight'
  BY <1>0, <1>11 DEF SubmitWish, NoticesRight, Untold, Free, Begun, Done, Step, Is, tellingVars, posted, Addressee
<1>12. ASSUME NEW t \in Threads, AnnounceWish(t)
      PROVE  NoticesRight'
  <2>1. errand[t].on = Wish /\ errand[t].on \notin Rows
    BY <1>0, <1>12 DEF AnnounceWish, Is, ErrandsFit, Fits, WishFits
  <2>2. (\A n \in notices' : n \in notices \/ n[1] = Wish) /\ notices \subseteq notices' /\ unheard' = unheard
    BY <1>12 DEF AnnounceWish
  <2>3. \A c \in Rows : Untold(c) => Untold(c)'
    BY <1>0, <1>12, <2>1 DEF AnnounceWish, Done, Untold
  <2>4. comment' = comment /\ posted' = posted /\ \A c \in Rows : Addressee(c)' = Addressee(c)
    BY <1>12 DEF AnnounceWish, posted, Addressee
  <2> QED BY <2>2, <2>3, <2>4 DEF NoticesRight, posted
<1>13. ASSUME NEW t \in Threads, NEW s \in Reviews, NEW reason \in Reasons, FindWish(t, s, reason)
      PROVE  NoticesRight'
  BY <1>0, <1>13 DEF FindWish, NoticesRight, Untold, Free, Begun, Done, Step, Is, tellingVars, posted, Addressee
<1>14. ASSUME NEW t \in Threads, ReviewWish(t)
      PROVE  NoticesRight'
  BY <1>0, <1>14 DEF ReviewWish, NoticesRight, Untold, Free, Begun, Done, Step, Is, tellingVars, posted, Addressee
<1>15. ASSUME NEW t \in Threads, NEW a \in Grounds, NEW by \in People, CreateReport(t, a, by)
      PROVE  NoticesRight'
  BY <1>0, <1>15 DEF CreateReport, NoticesRight, Untold, Free, Begun, Done, Step, Is, tellingVars, posted, Addressee
<1>16. ASSUME NEW t \in Threads, InsertReport(t)
      PROVE  NoticesRight'
  BY <1>0, <1>16 DEF InsertReport, NoticesRight, Untold, Free, Begun, Done, Step, Is, tellingVars, posted, Addressee
<1>17. ASSUME NEW t \in Threads, AnnounceReport(t)
      PROVE  NoticesRight'
  <2>1. errand[t].on = Complaint /\ errand[t].on \notin Rows
    BY <1>0, <1>17 DEF AnnounceReport, Is, ErrandsFit, Fits, ComplainFits
  <2>2. /\ \A n \in notices' : n \in notices \/ n[1] = Complaint
        /\ notices \subseteq notices' /\ unheard \subseteq unheard'
    BY <1>17 DEF AnnounceReport
  <2>3. \A c \in Rows : Untold(c) => Untold(c)'
    BY <1>0, <1>17, <2>1 DEF AnnounceReport, Done, Untold
  <2>4. comment' = comment /\ posted' = posted /\ \A c \in Rows : Addressee(c)' = Addressee(c)
    BY <1>17 DEF AnnounceReport, posted, Addressee
  <2> QED BY <2>2, <2>3, <2>4 DEF NoticesRight, posted
<1> QED
  BY <1>1, <1>2, <1>3, <1>4, <1>5, <1>6, <1>7, <1>8, <1>9, <1>10, <1>11, <1>12, <1>13, <1>14, <1>15, <1>16, <1>17 DEF CommunityNext, CommentNext, WishNext, ReportNext

-----------------------------------------------------------------------------
(* The notices of the report, and what the authors of issues and of the     *)
(* request were told.                                                      *)

\* Nobody heard of the report before it was there and announced; then all concerned did.
ComplaintTold ==
    /\ complaint = NoOne \/ Untold(Complaint) => \A n \in notices : n[1] # Complaint
    /\ complaint # NoOne /\ ~Untold(Complaint) /\ Complaint \notin unheard =>
           \A n \in (Subjects \cup {Complaint}) \X People :
               n[1] = Complaint => (n \in notices <=> n[2] \in Concerned(complaint.by))

\* Requests that have written a status and are going to tell of it.
ReportsOn(s) == {w \in Threads : errand[w].step = "report" /\ errand[w].on = s}

\* What a request that has changed a subject is about to tell.
Telling(e) == IF e.op = "review" THEN [status |-> e.status, comment |-> e.reason] ELSE e.status

\* Of a subject that is not muddled there is at most one change to tell, and that is how
\* it stands; without one, how it stands was told.
ToldRight ==
    \A s \in Subjects \ muddled :
        /\ \A w, x \in ReportsOn(s) : w = x
        /\ \A w \in ReportsOn(s) : Telling(errand[w]) = Current(s)
        /\ ReportsOn(s) = {} => told[s] = Current(s)

\* The report is announced once, to all concerned, or a job of it is lost.
LEMMA ComplaintToldKept ==
    ASSUME CommunityBase, ComplaintTold, CommunityNext
    PROVE  ComplaintTold'
<1>0. CommunityTypes /\ ErrandsFit
  BY DEF CommunityBase
<1> USE CommunityAssumption DEF CommunityAssumption, CommunityTypes, posted
<1>1. ASSUME NEW t \in Threads, NEW a \in Grounds, NEW on \in Rows \cup {NoOne}, NEW by \in People, NEW s \in {"OPEN", NoOne}, PostComment(t, a, on, by, s)
      PROVE  ComplaintTold'
  BY <1>0, <1>1 DEF PostComment, ComplaintTold, Untold, Free, Begun, Done, Step, Is, tellingVars, Concerned, Wish, Complaint, ErrandsFit, Fits, PostFits, IssueFits, WishFits, ReviewFits, ComplainFits, NoneFits
<1>2. ASSUME NEW t \in Threads, FindParent(t)
      PROVE  ComplaintTold'
  <2>1. \A q \in Threads : (errand'[q].step = "tell" /\ errand'[q].on = Complaint) <=>
                            (errand[q].step = "tell" /\ errand[q].on = Complaint)
    BY <1>0, <1>2 DEF FindParent, Is, Done, Step, Free, Errands
  <2>2. complaint' = complaint /\ notices' = notices /\ unheard' = unheard
    BY <1>2 DEF FindParent, tellingVars
  <2> QED BY <2>1, <2>2 DEF ComplaintTold, Untold
<1>3. ASSUME NEW t \in Threads, Insert(t)
      PROVE  ComplaintTold'
  <2>1. \A q \in Threads : (errand'[q].step = "tell" /\ errand'[q].on = Complaint) <=>
                            (errand[q].step = "tell" /\ errand[q].on = Complaint)
    BY <1>0, <1>3 DEF Insert, Is, Done, Step, Free, Errands
  <2>2. complaint' = complaint /\ notices' = notices /\ unheard' = unheard
    BY <1>3 DEF Insert, tellingVars
  <2> QED BY <2>1, <2>2 DEF ComplaintTold, Untold
<1>4. ASSUME NEW t \in Threads, Announce(t)
      PROVE  ComplaintTold'
  BY <1>0, <1>4 DEF Announce, ComplaintTold, Untold, Free, Begun, Done, Step, Is, tellingVars, Concerned, Wish, Complaint, ErrandsFit, Fits, PostFits, IssueFits, WishFits, ReviewFits, ComplainFits, NoneFits
<1>5. ASSUME NEW t \in Threads, NEW c \in Rows, NEW by \in People, NEW s \in Statuses, FindIssue(t, c, by, s)
      PROVE  ComplaintTold'
  BY <1>0, <1>5 DEF FindIssue, ComplaintTold, Untold, Free, Begun, Done, Step, Is, tellingVars, Concerned, Wish, Complaint, ErrandsFit, Fits, PostFits, IssueFits, WishFits, ReviewFits, ComplainFits, NoneFits
<1>6. ASSUME NEW t \in Threads, SetIssueStatus(t)
      PROVE  ComplaintTold'
  <2>1. \A q \in Threads : (errand'[q].step = "tell" /\ errand'[q].on = Complaint) <=>
                            (errand[q].step = "tell" /\ errand[q].on = Complaint)
    BY <1>0, <1>6 DEF SetIssueStatus, Is, Done, Step, Free, Errands
  <2>2. complaint' = complaint /\ notices' = notices /\ unheard' = unheard
    BY <1>6 DEF SetIssueStatus, tellingVars
  <2> QED BY <2>1, <2>2 DEF ComplaintTold, Untold
<1>7. ASSUME NEW t \in Threads, Report(t)
      PROVE  ComplaintTold'
  BY <1>0, <1>7 DEF Report, ComplaintTold, Untold, Free, Begun, Done, Step, Is, tellingVars, Concerned, Wish, Complaint, ErrandsFit, Fits, PostFits, IssueFits, WishFits, ReviewFits, ComplainFits, NoneFits
<1>8. ASSUME NEW t \in Threads, Die(t)
      PROVE  ComplaintTold'
  BY <1>0, <1>8 DEF Die, ComplaintTold, Untold, Free, Begun, Done, Step, Is, tellingVars, Concerned, Wish, Complaint, ErrandsFit, Fits, PostFits, IssueFits, WishFits, ReviewFits, ComplainFits, NoneFits
<1>9. ASSUME NEW c \in Rows, DeleteComment(c)
      PROVE  ComplaintTold'
  BY <1>0, <1>9 DEF DeleteComment, ComplaintTold, Untold, Free, Begun, Done, Step, Is, tellingVars, Concerned, Wish, Complaint, ErrandsFit, Fits, PostFits, IssueFits, WishFits, ReviewFits, ComplainFits, NoneFits
<1>10. ASSUME NEW a \in Grounds, RemoveAsset(a)
      PROVE  ComplaintTold'
  BY <1>0, <1>10 DEF RemoveAsset, ComplaintTold, Untold, Free, Begun, Done, Step, Is, tellingVars, Concerned, Wish, Complaint, ErrandsFit, Fits, PostFits, IssueFits, WishFits, ReviewFits, ComplainFits, NoneFits
<1>11. ASSUME NEW t \in Threads, SubmitWish(t)
      PROVE  ComplaintTold'
  BY <1>0, <1>11 DEF SubmitWish, ComplaintTold, Untold, Free, Begun, Done, Step, Is, tellingVars, Concerned, Wish, Complaint, ErrandsFit, Fits, PostFits, IssueFits, WishFits, ReviewFits, ComplainFits, NoneFits
<1>12. ASSUME NEW t \in Threads, AnnounceWish(t)
      PROVE  ComplaintTold'
  BY <1>0, <1>12 DEF AnnounceWish, ComplaintTold, Untold, Free, Begun, Done, Step, Is, tellingVars, Concerned, Wish, Complaint, ErrandsFit, Fits, PostFits, IssueFits, WishFits, ReviewFits, ComplainFits, NoneFits
<1>13. ASSUME NEW t \in Threads, NEW s \in Reviews, NEW reason \in Reasons, FindWish(t, s, reason)
      PROVE  ComplaintTold'
  BY <1>0, <1>13 DEF FindWish, ComplaintTold, Untold, Free, Begun, Done, Step, Is, tellingVars, Concerned, Wish, Complaint, ErrandsFit, Fits, PostFits, IssueFits, WishFits, ReviewFits, ComplainFits, NoneFits
<1>14. ASSUME NEW t \in Threads, ReviewWish(t)
      PROVE  ComplaintTold'
  BY <1>0, <1>14 DEF ReviewWish, ComplaintTold, Untold, Free, Begun, Done, Step, Is, tellingVars, Concerned, Wish, Complaint, ErrandsFit, Fits, PostFits, IssueFits, WishFits, ReviewFits, ComplainFits, NoneFits
<1>15. ASSUME NEW t \in Threads, NEW a \in Grounds, NEW by \in People, CreateReport(t, a, by)
      PROVE  ComplaintTold'
  BY <1>0, <1>15 DEF CreateReport, ComplaintTold, Untold, Free, Begun, Done, Step, Is, tellingVars, Concerned, Wish, Complaint, ErrandsFit, Fits, PostFits, IssueFits, WishFits, ReviewFits, ComplainFits, NoneFits
<1>16. ASSUME NEW t \in Threads, InsertReport(t)
      PROVE  ComplaintTold'
  <2>1. CASE errand[t].asset \in standing
    <3>1. complaint = NoOne /\ errand[t].on = Complaint
      BY <1>0, <1>16 DEF InsertReport, Is, ErrandsFit, Fits, ComplainFits
    <3>2. errand' = [errand EXCEPT ![t].step = "tell"]
      BY <1>16, <2>1 DEF InsertReport, Step
    <3>3. Untold(Complaint)'
      BY <1>0, <3>1, <3>2 DEF Untold, Errands
    <3>4. notices' = notices
      BY <1>16 DEF InsertReport, tellingVars
    <3> QED BY <3>1, <3>3, <3>4 DEF ComplaintTold
  <2>2. CASE errand[t].asset \notin standing
    <3>1. \A q \in Threads : (errand'[q].step = "tell" /\ errand'[q].on = Complaint) <=>
                            (errand[q].step = "tell" /\ errand[q].on = Complaint)
      BY <1>0, <1>16, <2>2 DEF InsertReport, Is, Done, Free
    <3>2. complaint' = complaint /\ notices' = notices /\ unheard' = unheard
      BY <1>16, <2>2 DEF InsertReport, tellingVars
    <3> QED BY <3>1, <3>2 DEF ComplaintTold, Untold
  <2> QED BY <2>1, <2>2
<1>17. ASSUME NEW t \in Threads, AnnounceReport(t)
      PROVE  ComplaintTold'
  <2>1. /\ errand[t].op = "complain" /\ errand[t].step = "tell" /\ errand[t].on = Complaint
        /\ complaint # NoOne /\ complaint.by = errand[t].by
    BY <1>0, <1>17 DEF AnnounceReport, Is, ErrandsFit, Fits, ComplainFits
  <2>2. Untold(Complaint)
    BY <2>1 DEF Untold
  <2>3. \A n \in notices : n[1] # Complaint
    BY <2>2 DEF ComplaintTold
  <2>4. PICK S \in SUBSET Concerned(errand[t].by) :
            /\ notices' = notices \cup {<<Complaint, p>> : p \in S}
            /\ unheard' = IF S = Concerned(errand[t].by) THEN unheard ELSE unheard \cup {Complaint}
    BY <1>17 DEF AnnounceReport
  <2>5. \A q \in Threads : ~(errand'[q].step = "tell" /\ errand'[q].on = Complaint)
    <3>1. ASSUME NEW q \in Threads, errand[q].step = "tell", errand[q].on = Complaint
          PROVE  errand[q].op = "complain"
      BY <1>0, <3>1 DEF ErrandsFit, Fits, PostFits, IssueFits, WishFits, ReviewFits, NoneFits, Errands, Wish, Complaint
    <3>2. \A q \in Threads : q # t => errand[q].op # "complain"
      BY <1>0, <2>1 DEF ErrandsFit
    <3> QED BY <1>0, <1>17, <3>1, <3>2 DEF AnnounceReport, Done, Free
  <2>6. complaint' = complaint
    BY <1>17 DEF AnnounceReport
  <2>7. ASSUME Complaint \notin unheard', NEW n \in (Subjects \cup {Complaint}) \X People, n[1] = Complaint
        PROVE  n \in notices' <=> n[2] \in Concerned(complaint.by)
    <3>1. S = Concerned(complaint.by)
      BY <2>1, <2>4, <2>7
    <3>2. n = <<Complaint, n[2]>>
      BY <2>7
    <3>3. n \notin notices
      BY <2>3, <2>7
    <3> QED BY <2>4, <3>1, <3>2, <3>3
  <2> QED BY <2>1, <2>5, <2>6, <2>7 DEF ComplaintTold, Untold
<1> QED
  BY <1>1, <1>2, <1>3, <1>4, <1>5, <1>6, <1>7, <1>8, <1>9, <1>10, <1>11, <1>12, <1>13, <1>14, <1>15, <1>16, <1>17 DEF CommunityNext, CommentNext, WishNext, ReportNext

\* A change of a subject that others are about to tell muddles it; the others tell what they wrote.
LEMMA ToldKept ==
    ASSUME CommunityBase, ToldRight, CommunityNext
    PROVE  ToldRight'
<1>0. CommunityTypes /\ ErrandsFit
  BY DEF CommunityBase
<1> USE CommunityAssumption DEF CommunityAssumption, CommunityTypes, posted
<1>1. ASSUME NEW t \in Threads, NEW a \in Grounds, NEW on \in Rows \cup {NoOne}, NEW by \in People, NEW s \in {"OPEN", NoOne}, PostComment(t, a, on, by, s)
      PROVE  ToldRight'
  BY <1>0, <1>1 DEF PostComment, ToldRight, ReportsOn, Telling, Current, Changed, Pending, Subjects, Free, Begun, Done, Step, Is, tellingVars, Wish, Complaint, ErrandsFit, Fits, PostFits, IssueFits, WishFits, ReviewFits, ComplainFits, NoneFits
<1>2. ASSUME NEW t \in Threads, FindParent(t)
      PROVE  ToldRight'
  <2>1. \A q \in Threads : /\ errand'[q].step = "report" <=> errand[q].step = "report"
                           /\ errand[q].step = "report" => errand'[q] = errand[q]
    BY <1>0, <1>2 DEF FindParent, Is, Begun, Done, Step, Free, Errands
  <2>2. told' = told /\ muddled' = muddled /\ wish' = wish /\ comment' = comment
    BY <1>2 DEF FindParent, tellingVars
  <2> QED BY <2>1, <2>2 DEF ToldRight, ReportsOn, Telling, Current
<1>3. ASSUME NEW t \in Threads, Insert(t)
      PROVE  ToldRight'
  <2>1. CASE errand[t].asset \in standing /\ errand[t].on \in posted \cup {NoOne}
    <3>1. PICK c \in Rows \ posted :
              /\ comment' = [comment EXCEPT ![c] =
                   [asset |-> errand[t].asset, parent |-> errand[t].on, depth |-> errand[t].depth,
                    author |-> errand[t].by, status |-> errand[t].status, deleted |-> FALSE]]
              /\ told' = [told EXCEPT ![c] = errand[t].status]
              /\ errand' = [errand EXCEPT ![t].step = "tell", ![t].on = c]
      BY <1>3, <2>1 DEF Insert
    <3>2. \A q \in Threads : /\ errand'[q].step = "report" <=> errand[q].step = "report"
                             /\ errand[q].step = "report" => errand'[q] = errand[q]
      <4>1. errand[t].step = "insert" /\ errand \in [Threads -> Errands]
        BY <1>0, <1>3 DEF Insert, Is
      <4>2. errand'[t].step = "tell"
        BY <3>1, <4>1 DEF Errands
      <4>3. \A q \in Threads : q # t => errand'[q] = errand[q]
        BY <3>1, <4>1
      <4> QED BY <4>1, <4>2, <4>3
    <3>3. \A q \in Threads : errand[q].step = "report" => errand[q].on # c
      BY <1>0, <3>1 DEF ErrandsFit, Fits, PostFits, IssueFits, WishFits, ReviewFits, ComplainFits, NoneFits, Errands, Wish
    <3>4. muddled' = muddled /\ wish' = wish /\ c # Wish
      BY <1>3, <3>1 DEF Insert
    <3>5. \A s \in Subjects : s # c => told'[s] = told[s] /\ Current(s)' = Current(s)
      BY <1>0, <3>1, <3>4 DEF Current, Subjects
    <3>6. comment'[c] = [asset |-> errand[t].asset, parent |-> errand[t].on, depth |-> errand[t].depth,
                    author |-> errand[t].by, status |-> errand[t].status, deleted |-> FALSE]
          /\ comment'[c] # NoOne
      <4>1. errand[t] \in Errands /\ PostFits(errand[t]) /\ errand[t].op = "post"
        BY <1>0, <1>3 DEF Insert, Is, ErrandsFit, Fits
      <4>2. [asset |-> errand[t].asset, parent |-> errand[t].on, depth |-> errand[t].depth,
                    author |-> errand[t].by, status |-> errand[t].status, deleted |-> FALSE] \in Comments
        BY <2>1, <4>1 DEF Comments, PostFits, Errands, Statuses
      <4> QED BY <1>0, <3>1, <4>2
    <3>7. told'[c] = Current(c)'
      BY <1>0, <3>1, <3>4, <3>6 DEF Current, Subjects
    <3> QED BY <3>2, <3>3, <3>4, <3>5, <3>7 DEF ToldRight, ReportsOn, Telling
  <2>2. CASE ~(errand[t].asset \in standing /\ errand[t].on \in posted \cup {NoOne})
    <3>1. \A q \in Threads : /\ errand'[q].step = "report" <=> errand[q].step = "report"
                             /\ errand[q].step = "report" => errand'[q] = errand[q]
      BY <1>0, <1>3, <2>2 DEF Insert, Is, Done, Free
    <3>2. told' = told /\ muddled' = muddled /\ wish' = wish /\ comment' = comment
      BY <1>3, <2>2 DEF Insert
    <3> QED BY <3>1, <3>2 DEF ToldRight, ReportsOn, Telling, Current
  <2> QED BY <2>1, <2>2
<1>4. ASSUME NEW t \in Threads, Announce(t)
      PROVE  ToldRight'
  BY <1>0, <1>4 DEF Announce, ToldRight, ReportsOn, Telling, Current, Changed, Pending, Subjects, Free, Begun, Done, Step, Is, tellingVars, Wish, Complaint, ErrandsFit, Fits, PostFits, IssueFits, WishFits, ReviewFits, ComplainFits, NoneFits
<1>5. ASSUME NEW t \in Threads, NEW c \in Rows, NEW by \in People, NEW s \in Statuses, FindIssue(t, c, by, s)
      PROVE  ToldRight'
  BY <1>0, <1>5 DEF FindIssue, ToldRight, ReportsOn, Telling, Current, Changed, Pending, Subjects, Free, Begun, Done, Step, Is, tellingVars, Wish, Complaint, ErrandsFit, Fits, PostFits, IssueFits, WishFits, ReviewFits, ComplainFits, NoneFits
<1>6. ASSUME NEW t \in Threads, SetIssueStatus(t)
      PROVE  ToldRight'
  <2>0. PICK c \in posted : c = errand[t].on
    BY <1>0, <1>6 DEF SetIssueStatus, Is, ErrandsFit, Fits, IssueFits
  <2>1. /\ c \in posted /\ c \in Rows /\ comment[c] \in Comments /\ c # Wish
        /\ errand[t].status \in Statuses /\ errand[t].by # NoOne
        /\ errand[t] \in Errands /\ errand[t].op = "issue" /\ errand[t].step = "write"
    BY <1>0, <1>6, <2>0 DEF SetIssueStatus, Is, ErrandsFit, Fits, IssueFits
  <2>2. /\ comment' = [comment EXCEPT ![c] = [comment[c] EXCEPT !.status = errand[t].status]]
        /\ wish' = wish /\ Changed(t, c)
        /\ IF comment[c].author = errand[t].by
           THEN told' = [told EXCEPT ![c] = errand[t].status] /\ Done(t)
           ELSE Step(t, "report") /\ told' = told
    BY <1>6, <2>0 DEF SetIssueStatus
  <2>3. [comment[c] EXCEPT !.status = errand[t].status] \in Comments
    BY <2>1 DEF Comments
  <2>4. comment'[c] = [comment[c] EXCEPT !.status = errand[t].status] /\ \A x \in Rows : x # c => comment'[x] = comment[x]
    BY <1>0, <2>1, <2>2
  <2>5. comment'[c].status = errand[t].status /\ comment'[c] # NoOne
    BY <2>1, <2>3, <2>4 DEF Comments
  <2>6. Current(c)' = errand[t].status /\ \A s \in Subjects : s # c => Current(s)' = Current(s)
    BY <2>1, <2>2, <2>4, <2>5 DEF Current, Subjects
  <2>7. /\ \A q \in Threads : q # t => errand'[q] = errand[q]
        /\ errand'[t].step = "report" => errand'[t].on = c /\ errand'[t].status = errand[t].status /\ errand'[t].op = "issue"
    BY <1>0, <2>0, <2>1, <2>2 DEF Done, Step, Free, Errands
  <2>8. ASSUME NEW s \in Subjects \ muddled', s # c
        PROVE  /\ s \notin muddled /\ told'[s] = told[s] /\ Current(s)' = Current(s) /\ ReportsOn(s)' = ReportsOn(s)
               /\ \A q \in ReportsOn(s) : errand'[q] = errand[q]
    <3>1. s \notin muddled
      BY <2>2, <2>8 DEF Changed
    <3>2. told'[s] = told[s]
      BY <1>0, <2>2, <2>8
    <3>3. ReportsOn(s)' = ReportsOn(s) /\ t \notin ReportsOn(s)
      BY <2>1, <2>7, <2>8 DEF ReportsOn
    <3> QED BY <2>6, <2>7, <2>8, <3>1, <3>2, <3>3 DEF ReportsOn
  <2>9. ASSUME c \notin muddled'
        PROVE  /\ \A q \in ReportsOn(c)' : q = t
               /\ \A q \in ReportsOn(c)' : Telling(errand[q])' = Current(c)'
               /\ ReportsOn(c)' = {} => told'[c] = Current(c)'
    <3>1. ~Pending(c, t)
      BY <2>2, <2>9 DEF Changed
    <3>2. \A q \in ReportsOn(c)' : q = t
      BY <2>7, <3>1 DEF ReportsOn, Pending
    <3>3. t \in ReportsOn(c)' => Telling(errand[t])' = Current(c)'
      BY <2>6, <2>7 DEF ReportsOn, Telling
    <3>4. CASE comment[c].author = errand[t].by
      BY <1>0, <2>1, <2>2, <2>6, <3>2, <3>3, <3>4 DEF Subjects
    <3>5. CASE comment[c].author # errand[t].by
      <4>1. errand'[t].step = "report"
        BY <1>0, <2>1, <2>2, <3>5 DEF Step, Errands
      <4>2. t \in ReportsOn(c)'
        BY <2>7, <4>1 DEF ReportsOn
      <4> QED BY <3>2, <3>3, <4>2
    <3> QED BY <3>4, <3>5
  <2>10. \A s \in Subjects \ muddled' : s # c =>
            /\ \A q, r \in ReportsOn(s)' : q = r
            /\ \A q \in ReportsOn(s)' : Telling(errand[q])' = Current(s)'
            /\ ReportsOn(s)' = {} => told'[s] = Current(s)'
    BY <2>8 DEF ToldRight, Telling
  <2> QED BY <2>9, <2>10 DEF ToldRight
<1>7. ASSUME NEW t \in Threads, Report(t)
      PROVE  ToldRight'
  BY <1>0, <1>7 DEF Report, ToldRight, ReportsOn, Telling, Current, Changed, Pending, Subjects, Free, Begun, Done, Step, Is, tellingVars, Wish, Complaint, ErrandsFit, Fits, PostFits, IssueFits, WishFits, ReviewFits, ComplainFits, NoneFits
<1>8. ASSUME NEW t \in Threads, Die(t)
      PROVE  ToldRight'
  BY <1>0, <1>8 DEF Die, ToldRight, ReportsOn, Telling, Current, Changed, Pending, Subjects, Free, Begun, Done, Step, Is, tellingVars, Wish, Complaint, ErrandsFit, Fits, PostFits, IssueFits, WishFits, ReviewFits, ComplainFits, NoneFits
<1>9. ASSUME NEW c \in Rows, DeleteComment(c)
      PROVE  ToldRight'
  <2>1. c \in posted /\ comment[c] \in Comments
    BY <1>0, <1>9 DEF DeleteComment
  <2>2. comment'[c] = [comment[c] EXCEPT !.deleted = TRUE] /\ \A x \in Rows : x # c => comment'[x] = comment[x]
    BY <1>0, <1>9 DEF DeleteComment
  <2>3. [comment[c] EXCEPT !.deleted = TRUE] \in Comments
    BY <2>1 DEF Comments
  <2>4. comment'[c].status = comment[c].status /\ comment'[c] # NoOne /\ comment[c] # NoOne
    BY <2>1, <2>2, <2>3 DEF Comments
  <2>5. told' = told /\ muddled' = muddled /\ wish' = wish /\ errand' = errand
    BY <1>9 DEF DeleteComment, tellingVars
  <2>6. \A s \in Subjects : Current(s)' = Current(s)
    BY <2>1, <2>2, <2>4, <2>5 DEF Current, Subjects
  <2> QED BY <2>5, <2>6 DEF ToldRight, ReportsOn
<1>10. ASSUME NEW a \in Grounds, RemoveAsset(a)
      PROVE  ToldRight'
  <2> DEFINE gone == {c \in posted : comment[c].asset = a}
  <2>1. /\ comment' = [c \in Rows |-> IF c \in gone THEN NoOne ELSE comment[c]]
        /\ told' = [s \in Subjects |-> IF s \in gone THEN NoOne ELSE told[s]]
        /\ muddled' = muddled \ gone /\ wish' = wish
        /\ errand' = [t \in Threads |-> IF errand[t].on \in gone THEN Free ELSE errand[t]]
    BY <1>10 DEF RemoveAsset
  <2>2. gone \subseteq Rows /\ Wish \notin gone
    OBVIOUS
  <2> HIDE DEF gone
  <2>3. ASSUME NEW s \in Subjects \ muddled', s \notin gone
        PROVE  /\ s \notin muddled /\ told'[s] = told[s] /\ Current(s)' = Current(s) /\ ReportsOn(s)' = ReportsOn(s)
               /\ \A q \in ReportsOn(s) : errand'[q] = errand[q]
    <3>1. Current(s)' = Current(s)
      BY <1>0, <2>1, <2>3 DEF Current, Subjects
    <3>2. ReportsOn(s)' = ReportsOn(s)
      BY <2>1, <2>3 DEF ReportsOn, Free
    <3> QED BY <2>1, <2>3, <3>1, <3>2 DEF ReportsOn
  <2>4. ASSUME NEW s \in Subjects \ muddled', s \in gone
        PROVE  ReportsOn(s)' = {} /\ told'[s] = Current(s)'
    BY <2>1, <2>2, <2>4 DEF ReportsOn, Current, Free
  <2>5. \A s \in Subjects \ muddled' : s \notin gone =>
            /\ \A q, r \in ReportsOn(s)' : q = r
            /\ \A q \in ReportsOn(s)' : Telling(errand[q])' = Current(s)'
            /\ ReportsOn(s)' = {} => told'[s] = Current(s)'
    BY <2>3 DEF ToldRight, Telling
  <2> QED BY <2>4, <2>5 DEF ToldRight
<1>11. ASSUME NEW t \in Threads, SubmitWish(t)
      PROVE  ToldRight'
  <2>1. wish = NoOne /\ errand[t] = Free
    BY <1>11 DEF SubmitWish, Begun
  <2>2. \A q \in Threads : errand[q].step = "report" => errand[q].on # Wish
    BY <1>0, <2>1 DEF ErrandsFit, Fits, PostFits, IssueFits, WishFits, ReviewFits, ComplainFits, NoneFits, Errands
  <2>3. \A q \in Threads : /\ errand'[q].step = "report" <=> errand[q].step = "report"
                           /\ errand[q].step = "report" => errand'[q] = errand[q]
    BY <1>0, <1>11 DEF SubmitWish, Begun, Free
  <2>4. told' = [told EXCEPT ![Wish] = wish'] /\ muddled' = muddled /\ comment' = comment
    BY <1>11 DEF SubmitWish
  <2>5. told'[Wish] = Current(Wish)' /\ \A s \in Subjects : s # Wish => told'[s] = told[s] /\ Current(s)' = Current(s)
    BY <1>0, <2>4 DEF Current, Subjects
  <2>6. ReportsOn(Wish)' = {}
    BY <2>2, <2>3 DEF ReportsOn
  <2>7. \A s \in Subjects : s # Wish => ReportsOn(s)' = ReportsOn(s) /\ \A q \in ReportsOn(s) : errand'[q] = errand[q]
    BY <2>3 DEF ReportsOn
  <2> QED BY <2>4, <2>5, <2>6, <2>7 DEF ToldRight, Telling
<1>12. ASSUME NEW t \in Threads, AnnounceWish(t)
      PROVE  ToldRight'
  BY <1>0, <1>12 DEF AnnounceWish, ToldRight, ReportsOn, Telling, Current, Changed, Pending, Subjects, Free, Begun, Done, Step, Is, tellingVars, Wish, Complaint, ErrandsFit, Fits, PostFits, IssueFits, WishFits, ReviewFits, ComplainFits, NoneFits
<1>13. ASSUME NEW t \in Threads, NEW s \in Reviews, NEW reason \in Reasons, FindWish(t, s, reason)
      PROVE  ToldRight'
  BY <1>0, <1>13 DEF FindWish, ToldRight, ReportsOn, Telling, Current, Changed, Pending, Subjects, Free, Begun, Done, Step, Is, tellingVars, Wish, Complaint, ErrandsFit, Fits, PostFits, IssueFits, WishFits, ReviewFits, ComplainFits, NoneFits
<1>14. ASSUME NEW t \in Threads, ReviewWish(t)
      PROVE  ToldRight'
  BY <1>0, <1>14 DEF ReviewWish, ToldRight, ReportsOn, Telling, Current, Changed, Pending, Subjects, Free, Begun, Done, Step, Is, tellingVars, Wish, Complaint, ErrandsFit, Fits, PostFits, IssueFits, WishFits, ReviewFits, ComplainFits, NoneFits
<1>15. ASSUME NEW t \in Threads, NEW a \in Grounds, NEW by \in People, CreateReport(t, a, by)
      PROVE  ToldRight'
  BY <1>0, <1>15 DEF CreateReport, ToldRight, ReportsOn, Telling, Current, Changed, Pending, Subjects, Free, Begun, Done, Step, Is, tellingVars, Wish, Complaint, ErrandsFit, Fits, PostFits, IssueFits, WishFits, ReviewFits, ComplainFits, NoneFits
<1>16. ASSUME NEW t \in Threads, InsertReport(t)
      PROVE  ToldRight'
  <2>1. \A q \in Threads : /\ errand'[q].step = "report" <=> errand[q].step = "report"
                           /\ errand[q].step = "report" => errand'[q] = errand[q]
    BY <1>0, <1>16 DEF InsertReport, Is, Begun, Done, Step, Free, Errands
  <2>2. told' = told /\ muddled' = muddled /\ wish' = wish /\ comment' = comment
    BY <1>16 DEF InsertReport, tellingVars
  <2> QED BY <2>1, <2>2 DEF ToldRight, ReportsOn, Telling, Current
<1>17. ASSUME NEW t \in Threads, AnnounceReport(t)
      PROVE  ToldRight'
  BY <1>0, <1>17 DEF AnnounceReport, ToldRight, ReportsOn, Telling, Current, Changed, Pending, Subjects, Free, Begun, Done, Step, Is, tellingVars, Wish, Complaint, ErrandsFit, Fits, PostFits, IssueFits, WishFits, ReviewFits, ComplainFits, NoneFits
<1> QED
  BY <1>1, <1>2, <1>3, <1>4, <1>5, <1>6, <1>7, <1>8, <1>9, <1>10, <1>11, <1>12, <1>13, <1>14, <1>15, <1>16, <1>17 DEF CommunityNext, CommentNext, WishNext, ReportNext

-----------------------------------------------------------------------------

\* The inductive invariant of Community.
CommunityInv == CommunityBase /\ NoticesRight /\ ComplaintTold /\ ToldRight

\* Before any request there is nothing to tell of.
LEMMA CommunityStarts == CommunityInit => CommunityInv
<1> SUFFICES ASSUME CommunityInit PROVE CommunityInv
  OBVIOUS
<1> USE CommunityAssumption DEF CommunityAssumption, CommunityInit, posted
<1>1. CommunityTypes
  BY DEF CommunityTypes, Errands, Free, Reasons, Subjects
<1>2. ErrandsFit /\ TreeFits
  BY DEF ErrandsFit, Fits, PostFits, IssueFits, WishFits, ReviewFits, ComplainFits, NoneFits, Free,
         TreeFits, RepliesFormTree, DepthsFit
<1>3. NoticesRight /\ ComplaintTold
  BY DEF NoticesRight, ComplaintTold
<1>4. ToldRight
  BY DEF ToldRight, ReportsOn, Current, Free
<1> QED BY <1>1, <1>2, <1>3, <1>4 DEF CommunityInv, CommunityBase

\* Every step of a comment, a request or a report keeps all of it.
LEMMA CommunityKept == CommunityInv /\ [CommunityNext]_communityVars => CommunityInv'
<1> SUFFICES ASSUME CommunityInv, [CommunityNext]_communityVars PROVE CommunityInv'
  OBVIOUS
<1>1. CASE CommunityNext
  BY <1>1, CommunityTypesKept, ErrandsFitKept, TreeKept, NoticesKept, ComplaintToldKept, ToldKept
     DEF CommunityInv, CommunityBase
<1>2. CASE UNCHANGED communityVars
  <2> USE DEF posted
  <2>1. CommunityTypes' /\ ErrandsFit' /\ TreeFits'
    BY <1>2 DEF CommunityInv, communityVars, CommunityBase, CommunityTypes, ErrandsFit, Fits, PostFits,
                IssueFits, WishFits, ReviewFits, ComplainFits, NoneFits, TreeFits, RepliesFormTree, DepthsFit
  <2>2. NoticesRight' /\ ComplaintTold'
    BY <1>2 DEF CommunityInv, communityVars, NoticesRight, ComplaintTold, Untold, Addressee
  <2>3. ToldRight'
    BY <1>2 DEF CommunityInv, communityVars, ToldRight, ReportsOn, Telling, Current
  <2> QED BY <2>1, <2>2, <2>3 DEF CommunityInv, CommunityBase
<1> QED BY <1>1, <1>2

\* The tree of replies gives the pages; what waits to be told is what is busy.
LEMMA CommunityImplies == CommunityInv => ThreadsComplete /\ NoticesExplained
<1> SUFFICES ASSUME CommunityInv PROVE ThreadsComplete /\ NoticesExplained
  OBVIOUS
<1>1. CommunityTypes /\ ErrandsFit /\ RepliesFormTree /\ DepthsFit /\ NoticesRight /\ ComplaintTold /\ ToldRight
  BY DEF CommunityInv, CommunityBase, TreeFits
<1>2. ParentsAreRows
  BY <1>1 DEF ParentsAreRows, CommunityTypes, Comments, posted
<1>3. ThreadsComplete
  BY <1>1, <1>2, PageShows
<1>4. \A s : ~Busy(s) => ~Untold(s)
  BY DEF Busy, Untold
<1>5. \A s : ~Busy(s) => ReportsOn(s) = {}
  BY DEF Busy, ReportsOn
<1>6. \A n \in notices : n[1] \in Rows => n[2] = Addressee(n[1]) /\ n[2] # comment[n[1]].author
  BY <1>1 DEF NoticesRight
<1>7. \A c \in posted : ~Busy(c) /\ c \notin unheard /\ Addressee(c) # comment[c].author =>
          <<c, Addressee(c)>> \in notices
  BY <1>1, <1>4 DEF NoticesRight
<1>8. ASSUME complaint # NoOne, ~Busy(Complaint), Complaint \notin unheard
      PROVE  {n[2] : n \in {m \in notices : m[1] = Complaint}} = Concerned(complaint.by)
  <2>1. \A n \in (Subjects \cup {Complaint}) \X People :
            n[1] = Complaint => (n \in notices <=> n[2] \in Concerned(complaint.by))
    BY <1>1, <1>4, <1>8 DEF ComplaintTold
  <2>2. Concerned(complaint.by) \subseteq People
    BY CommunityAssumption DEF Concerned, CommunityAssumption
  <2>3. notices \subseteq (Subjects \cup {Complaint}) \X People
    BY <1>1 DEF CommunityTypes
  <2>4. ASSUME NEW p \in Concerned(complaint.by)
        PROVE  \E n \in notices : n[1] = Complaint /\ n[2] = p
    <3>1. <<Complaint, p>> \in (Subjects \cup {Complaint}) \X People
      BY <2>2
    <3>2. <<Complaint, p>> \in notices
      BY <2>1, <3>1
    <3> QED BY <3>2
  <2>5. ASSUME NEW n \in notices, n[1] = Complaint
        PROVE  n[2] \in Concerned(complaint.by)
    BY <2>1, <2>3, <2>5
  <2> QED BY <2>4, <2>5
<1>9. \A s \in Subjects : ~Busy(s) /\ s \notin muddled => told[s] = Current(s)
  BY <1>1, <1>5 DEF ToldRight
<1>10. NoticesExplained
  BY <1>6, <1>7, <1>8, <1>9 DEF NoticesExplained
<1> QED BY <1>3, <1>10

\* The page of an asset has every live comment whose ancestors are all live, and nothing
\* else, however deep replies may go and however many comments there are
\* (CommentsService.create, fetchSubtree).
THEOREM ThreadsAreComplete == CommunitySpec => []ThreadsComplete
<1>1. CommunityInv => ThreadsComplete
  BY CommunityImplies
<1> QED BY CommunityStarts, CommunityKept, <1>1, PTL DEF CommunitySpec

\* Who is concerned by a comment, a request or a report was told, and told how it stands,
\* but for the deaths and overlaps named (CommentsService, RequestsService, ReportsService).
THEOREM NoticesAreExplained == CommunitySpec => []NoticesExplained
<1>1. CommunityInv => NoticesExplained
  BY CommunityImplies
<1> QED BY CommunityStarts, CommunityKept, <1>1, PTL DEF CommunitySpec

-----------------------------------------------------------------------------

-----------------------------------------------------------------------------
(* Listing: a walk through a list, page by page.                           *)

\* The types; a cursor is a row, or of the webhook attempts a time.
ListingTypes ==
    /\ list \in Lists
    /\ entry \in [Entries -> {"absent", "in", "out"}] /\ place \in [Entries -> Nat]
    /\ reading \in BOOLEAN /\ slipped \in BOOLEAN
    /\ cursor \in (IF ByTime THEN Nat ELSE Entries) \cup {NoEntry}
    /\ seen \in [Entries -> 0 .. 2] /\ stayed \subseteq Entries

\* Rows that are there have places of their own, but for attempts of one millisecond.
Apart == ByTime \/ \A e, x \in Entries : Present(e) /\ Present(x) /\ place[e] = place[x] => e = x

\* How far the walk has come.
CursorAt == IF ByTime THEN cursor ELSE place[cursor]

\* Between two pages the rows shown are those from the cursor on up: what is below was
\* not shown, and what stayed and is not below was.
Halfway ==
    /\ ByTime \/ entry[cursor] = "in"
    /\ \A e \in Entries : seen[e] <= 1 /\ (seen[e] = 1 => CursorAt <= place[e])
    /\ \A e \in stayed : entry[e] = "in" /\ (CursorAt <= place[e] => seen[e] = 1)

\* Before the first page nothing was shown, and after the last one all that stayed.
Walked ==
    ~slipped =>
        /\ reading /\ cursor = NoEntry => \A e \in Entries : seen[e] = 0
        /\ reading /\ cursor # NoEntry => Halfway
        /\ ~reading => /\ \A e \in Entries : seen[e] <= 1
                       /\ \A e \in stayed : seen[e] = 1

\* The inductive invariant of a walk.
WalkInv == ListingTypes /\ Apart /\ Walked

\* It holds at first.
LEMMA WalkStart == ListingInit => WalkInv
<1> SUFFICES ASSUME ListingInit PROVE WalkInv
  OBVIOUS
<1>1. /\ list \in Lists /\ entry \in [Entries -> {"absent", "in", "out"}] /\ place \in [Entries -> Nat]
      /\ reading = TRUE /\ slipped = FALSE /\ cursor = NoEntry
      /\ seen \in [Entries -> 0 .. 2] /\ stayed = Entries
      /\ \A e \in Entries : seen[e] = 0 /\ ~Present(e)
  BY DEF ListingInit, Present
<1>2. ListingTypes
  BY <1>1 DEF ListingTypes
<1> QED BY <1>1, <1>2 DEF WalkInv, Apart, Walked

\* A finite set of numbers that is not empty has a highest one.
LEMMA HighestNumber ==
    ASSUME NEW S \in SUBSET Nat, IsFiniteSet(S), S # {}
    PROVE  \E n \in S : \A m \in S : m <= n
<1> DEFINE Has(T) == \E n \in T : \A m \in T : m <= n
           Bad == {T \in FiniteSubsetsOf(S) : T # {} /\ ~Has(T)}
<1>1. S \in FiniteSubsetsOf(S)
  BY DEF FiniteSubsetsOf
<1>2. SUFFICES ASSUME Bad # {} PROVE FALSE
  BY <1>1
<1>3. PICK T \in Bad : \A U \in Bad : ~(<<U, T>> \in StrictSubsetOrdering(S))
  <2> HIDE DEF Bad
  <2>1. Bad \subseteq FiniteSubsetsOf(S) BY DEF Bad
  <2> QED BY <1>2, <2>1, FS_StrictSubsetOrderingWellFounded, WFMin
<1>4. T \subseteq S /\ IsFiniteSet(T) /\ T # {} /\ ~Has(T)
  BY DEF FiniteSubsetsOf
<1>5. PICK x \in T : TRUE
  BY <1>4
<1>6. T \ {x} \in FiniteSubsetsOf(S) /\ <<T \ {x}, T>> \in StrictSubsetOrdering(S)
  <2>1. IsFiniteSet(T \ {x})
    BY <1>4, FS_RemoveElement
  <2> QED BY <1>4, <1>5, <2>1 DEF FiniteSubsetsOf, StrictSubsetOrdering
<1>7. CASE T \ {x} = {}
  BY <1>4, <1>5, <1>7
<1>8. CASE T \ {x} # {}
  <2>1. Has(T \ {x})
    <3> HIDE DEF Has
    <3> QED BY <1>3, <1>6, <1>8
  <2>2. PICK n \in T \ {x} : \A m \in T \ {x} : m <= n
    BY <2>1
  <2>3. (IF x <= n THEN n ELSE x) \in T /\ \A m \in T : m <= IF x <= n THEN n ELSE x
    BY <1>4, <2>2
  <2> QED BY <1>4, <2>3
<1> QED BY <1>7, <1>8

\* The place above all others.
LEMMA TopIsAbove ==
    ASSUME ListingTypes
    PROVE  top \in Nat /\ top > 0 /\ \A q \in drawn : q < top
<1> DEFINE P == drawn \cup {0}
<1>1. drawn \in SUBSET Nat /\ IsFiniteSet(drawn)
  <2> DEFINE X == {x \in Entries : Present(x)}
  <2>1. X \in SUBSET Entries /\ IsFiniteSet(X)
    <3>1. X \in SUBSET Entries
      OBVIOUS
    <3> QED BY <3>1, ListingAssumption, FS_Subset DEF ListingAssumption
  <2>2. [x \in X |-> place[x]] \in Surjection(X, drawn)
    BY DEF Surjection, drawn
  <2>3. drawn \in SUBSET Nat
    BY DEF drawn, ListingTypes
  <2> HIDE DEF X
  <2> QED BY <2>1, <2>2, <2>3, FS_Surjection
<1>2. P \in SUBSET Nat /\ IsFiniteSet(P) /\ P # {}
  BY <1>1, FS_AddElement
<1>3. \E p \in P : \A q \in P : q <= p
  <2> HIDE DEF P
  <2> QED BY <1>2, HighestNumber
<1>4. \E p \in P : \A q \in drawn : q <= p
  BY <1>3
<1> DEFINE h == CHOOSE p \in P : \A q \in drawn : q <= p
<1>5. h \in P /\ \A q \in drawn : q <= h
  <2> HIDE DEF P
  <2> QED BY <1>4
<1>6. top = 1 + h
  BY DEF top
<1> HIDE DEF h
<1> QED BY <1>1, <1>2, <1>5, <1>6

\* A step that leaves the walk where it is: rows that moved count as not shown, and
\* those that did not have kept their places.
LEMMA WalkWaits ==
    ASSUME WalkInv, NEW moved \in SUBSET Entries, Kept(moved),
           entry' \in [Entries -> {"absent", "in", "out"}], place' \in [Entries -> Nat], Apart',
           \A e \in Entries \ moved : place'[e] = place[e]
    PROVE  WalkInv'
<1> USE DEF WalkInv
<1>1. ListingTypes'
  BY DEF Kept, ListingTypes, ByTime
<1>2. Walked'
  <2> SUFFICES ASSUME ~slipped' PROVE Walked'
    BY DEF Walked
  <2>1. ~slipped /\ reading /\ reading' /\ cursor' = cursor /\ ByTime' = ByTime
    BY DEF Kept, ByTime
  <2>2. CASE cursor = NoEntry
    <3>1. \A e \in Entries : seen'[e] = 0
      BY <2>1, <2>2 DEF Kept, Walked
    <3> QED BY <2>1, <2>2, <3>1 DEF Walked
  <2>3. CASE cursor # NoEntry
    <3>1. Halfway
      BY <2>1, <2>3 DEF Walked
    <3>2. ByTime \/ (cursor \in Entries \ moved /\ entry'[cursor] = "in")
      BY <2>3 DEF Kept, ListingTypes
    <3>3. CursorAt' = CursorAt
      BY <2>1, <3>2 DEF CursorAt
    <3>4. \A e \in Entries : seen'[e] <= 1 /\ (seen'[e] = 1 => CursorAt' <= place'[e])
      BY <3>1, <3>3 DEF Halfway, Kept
    <3>5. \A e \in stayed' : entry'[e] = "in" /\ (CursorAt' <= place'[e] => seen'[e] = 1)
      BY <2>3, <3>1, <3>3 DEF Halfway, Kept, ListingTypes
    <3> QED BY <2>1, <2>3, <3>2, <3>4, <3>5 DEF Walked, Halfway
  <2> QED BY <2>2, <2>3
<1> QED BY <1>1, <1>2

\* Whatever happens to the rows of a list leaves it a walk.
LEMMA RowsChange ==
    ASSUME WalkInv, NEW e \in Entries,
           \/ Enter(e) \/ EnterAtOnce(e) \/ Hide(e) \/ Unhide(e) \/ Drop(e)
           \/ (\E p \in 1 .. MaxPlace : Move(e, p))
           \/ HideAll
    PROVE  WalkInv'
<1> USE DEF WalkInv
<1>0. list' = list /\ ByTime' = ByTime
  BY DEF Enter, EnterAtOnce, Hide, Unhide, Turn, Drop, Move, HideAll, Kept, ByTime
<1>1. CASE Enter(e)
  <2>1. top \in Nat /\ \A q \in drawn : q < top
    BY TopIsAbove
  <2>2. /\ entry' = [entry EXCEPT ![e] = "in"] /\ place' = [place EXCEPT ![e] = top]
        /\ ~Present(e) /\ Kept({e})
    BY <1>1 DEF Enter
  <2>3. Apart'
    <3> SUFFICES ASSUME ~ByTime, NEW x \in Entries, NEW y \in Entries,
                        Present(x)', Present(y)', place'[x] = place'[y]
                 PROVE  x = y
      BY <1>0 DEF Apart
    <3>1. \A z \in Entries \ {e} : Present(z)' => Present(z) /\ place'[z] = place[z] /\ place[z] < top
      BY <2>1, <2>2 DEF Present, drawn, ListingTypes
    <3>2. place'[e] = top
      BY <2>2 DEF ListingTypes
    <3>3. \A z \in Entries \ {e} : Present(z) => place[z] \in Nat
      BY DEF ListingTypes
    <3> QED BY <2>1, <3>1, <3>2, <3>3 DEF Apart
  <2>4. /\ entry' \in [Entries -> {"absent", "in", "out"}] /\ place' \in [Entries -> Nat]
        /\ \A x \in Entries \ {e} : place'[x] = place[x]
    BY <2>1, <2>2 DEF ListingTypes
  <2> QED BY <2>2, <2>3, <2>4, WalkWaits
<1>2. CASE EnterAtOnce(e)
  <2>1. top \in Nat /\ top > 0
    BY TopIsAbove
  <2>2. ByTime
    BY <1>2 DEF EnterAtOnce, ListingTypes, Lists, ByTime, Library, Inbox, TopComments, Requests,
                Reports, AdminUsers, Audit, TagNames, Attempts, AssetPage
  <2>3. /\ entry' \in [Entries -> {"absent", "in", "out"}] /\ place' \in [Entries -> Nat]
        /\ \A x \in Entries \ {e} : place'[x] = place[x]
    BY <1>2, <2>1 DEF EnterAtOnce, ListingTypes
  <2>4. Apart' /\ Kept({e})
    BY <1>0, <1>2, <2>2 DEF EnterAtOnce, Apart
  <2> QED BY <2>3, <2>4, WalkWaits
<1>3. CASE Hide(e) \/ Unhide(e) \/ HideAll
  <2>1. /\ entry' \in [Entries -> {"absent", "in", "out"}] /\ place' = place /\ Kept({})
        /\ \A x \in Entries : Present(x)' => Present(x)
    BY <1>3 DEF Hide, Unhide, HideAll, Turn, ListingTypes, Present
  <2>2. Apart'
    BY <1>0, <2>1 DEF Apart
  <2> QED BY <2>1, <2>2, WalkWaits DEF ListingTypes
<1>4. CASE Drop(e)
  <2>1. /\ entry' \in [Entries -> {"absent", "in", "out"}] /\ place' \in [Entries -> Nat] /\ Kept({e})
        /\ \A x \in Entries : Present(x)' => Present(x) /\ x # e
        /\ \A x \in Entries \ {e} : place'[x] = place[x]
    BY <1>4 DEF Drop, ListingTypes, Present
  <2>2. Apart'
    BY <1>0, <2>1 DEF Apart
  <2> QED BY <2>1, <2>2, WalkWaits
<1>5. ASSUME NEW p \in 1 .. MaxPlace, Move(e, p) PROVE WalkInv'
  <2>1. /\ entry' = entry /\ place' = [place EXCEPT ![e] = p] /\ place' \in [Entries -> Nat] /\ Kept({e})
        /\ p \notin drawn
    BY <1>5, ListingAssumption DEF Move, ListingTypes, ListingAssumption
  <2>2. Apart'
    <3> SUFFICES ASSUME ~ByTime, NEW x \in Entries, NEW y \in Entries,
                        Present(x)', Present(y)', place'[x] = place'[y]
                 PROVE  x = y
      BY <1>0 DEF Apart
    <3>1. \A z \in Entries \ {e} : Present(z)' => Present(z) /\ place'[z] = place[z] /\ place[z] # p
      BY <2>1 DEF Present, drawn, ListingTypes
    <3>2. place'[e] = p
      BY <2>1 DEF ListingTypes
    <3> QED BY <3>1, <3>2 DEF Apart
  <2>3. \A x \in Entries \ {e} : place'[x] = place[x]
    BY <2>1 DEF ListingTypes
  <2> QED BY <2>1, <2>2, <2>3, WalkWaits DEF ListingTypes
<1> QED BY <1>1, <1>2, <1>3, <1>4, <1>5

\* The rows below the cursor are those the next page is taken from.
LEMMA RowsBelow ==
    ASSUME WalkInv, reading, ~slipped, cursor # NoEntry
    PROVE  From(cursor) \ Skipped(cursor) = {e \in Entries : entry[e] = "in" /\ place[e] < CursorAt}
<1> USE DEF WalkInv
<1>1. CASE ByTime
  BY <1>1 DEF From, Skipped, CursorAt
<1>2. CASE ~ByTime
  <2> DEFINE S == From(cursor)
  <2>1. cursor \in Entries /\ entry[cursor] = "in" /\ CursorAt = place[cursor]
    BY <1>2 DEF ListingTypes, Walked, Halfway, CursorAt
  <2>2. S = {e \in Entries : entry[e] = "in" /\ place[e] <= place[cursor]}
    BY <1>2, <2>1 DEF From, Present
  <2>3. cursor \in S /\ \A x \in S : place[x] \in Nat /\ place[x] <= place[cursor]
    <3>1. \A x \in Entries : place[x] \in Nat
      BY DEF ListingTypes
    <3> HIDE DEF S
    <3> QED BY <2>1, <2>2, <3>1
  <2>4. \A x \in S : place[x] = place[cursor] => x = cursor
    BY <1>2, <2>1, <2>2 DEF Apart, Present
  <2>5. IsFiniteSet(S) /\ Cardinality(S) \in Nat /\ Cardinality(S) # 0
    <3>1. S \in SUBSET Entries
      BY <2>2
    <3>2. IsFiniteSet(S)
      BY <3>1, ListingAssumption, FS_Subset DEF ListingAssumption
    <3> HIDE DEF S
    <3> QED BY <2>3, <3>2, FS_CardinalityType, FS_EmptySet
  <2> HIDE DEF S
  <2>6. First(S, 1) = {{cursor}}
    <3>1. {cursor} \in First(S, 1)
      <4>1. Cardinality({cursor}) = 1
        BY FS_Singleton
      <4> QED BY <2>3, <2>5, <4>1 DEF First
    <3>2. ASSUME NEW F \in First(S, 1) PROVE F = {cursor}
      <4>1. F \in SUBSET S /\ Cardinality(F) = 1 /\ \A e \in F, x \in S \ F : place[x] <= place[e]
        BY <2>5 DEF First
      <4>2. IsFiniteSet(F)
        BY <2>5, <4>1, FS_Subset
      <4>3. PICK x : F = {x}
        BY <4>1, <4>2, FS_Singleton
      <4>4. x = cursor
        BY <2>3, <2>4, <4>1, <4>3
      <4> QED BY <4>3, <4>4
    <3> QED BY <3>1, <3>2
  <2>7. Skipped(cursor) = {cursor}
    BY <1>2, <2>6, ListingAssumption DEF Skipped, ListingAssumption, S
  <2>8. \A e \in Entries : place[e] \in Nat
    BY DEF ListingTypes
  <2> QED BY <2>1, <2>2, <2>3, <2>4, <2>7, <2>8 DEF S
<1> QED BY <1>1, <1>2

\* A page takes the walk on.
LEMMA PageRead == ASSUME WalkInv, ReadPage PROVE WalkInv'
<1> USE DEF WalkInv
<1> DEFINE found == From(cursor) \ Skipped(cursor)
<1>1. PICK items \in First(found, PageSize) :
          LET hasMore == items # found
              last == CHOOSE e \in items : \A x \in items : place[e] <= place[x]
          IN /\ seen' = [e \in Entries |-> IF e \in items /\ seen[e] < 2 THEN seen[e] + 1 ELSE seen[e]]
             /\ reading' = hasMore
             /\ cursor' = IF ~hasMore THEN NoEntry ELSE IF ByTime THEN place[last] ELSE last
             /\ stayed' = IF cursor = NoEntry THEN found ELSE stayed
             /\ slipped' = (slipped \/ \E e \in items, x \in found \ items : place[e] = place[x])
  BY DEF ReadPage
<1>2. reading /\ list' = list /\ entry' = entry /\ place' = place /\ ByTime' = ByTime
  BY DEF ReadPage, ByTime
<1>3. found \subseteq {e \in Entries : entry[e] = "in"} /\ IsFiniteSet(found)
  <2>1. found \in SUBSET Entries /\ found \subseteq {e \in Entries : entry[e] = "in"}
    BY DEF From
  <2> QED BY <2>1, ListingAssumption, FS_Subset DEF ListingAssumption
<1> DEFINE last == CHOOSE e \in items : \A x \in items : place[e] <= place[x]
<1> HIDE DEF found
<1>4. items \subseteq found /\ \A e \in items, x \in found \ items : place[x] <= place[e]
  BY DEF First
<1>5. items # found => last \in items /\ \A x \in items : place[last] <= place[x]
  <2> SUFFICES ASSUME items # found PROVE \E e \in items : \A x \in items : place[e] <= place[x]
    OBVIOUS
  <2>1. items # {}
    <3>1. Cardinality(found) \in Nat
      BY <1>3, FS_CardinalityType
    <3>2. Cardinality(found) # 0
      BY <1>3, <1>4, FS_EmptySet
    <3>3. Cardinality(items) # 0
      BY <3>1, <3>2, ListingAssumption DEF First, ListingAssumption
    <3> QED BY <3>3, FS_EmptySet
  <2> DEFINE P == {place[x] : x \in items}
  <2>2. P \in SUBSET Nat /\ P # {}
    BY <1>3, <1>4, <2>1 DEF ListingTypes
  <2>3. \E n \in P : \A m \in P : n <= m
    <3> HIDE DEF P
    <3> QED BY <2>2, LeastNumber
  <2> QED BY <2>3
<1> HIDE DEF last
<1>6. /\ seen' = [e \in Entries |-> IF e \in items /\ seen[e] < 2 THEN seen[e] + 1 ELSE seen[e]]
      /\ reading' = (items # found)
      /\ cursor' = IF items = found THEN NoEntry ELSE IF ByTime THEN place[last] ELSE last
      /\ stayed' = IF cursor = NoEntry THEN found ELSE stayed
      /\ slipped' = (slipped \/ \E e \in items, x \in found \ items : place[e] = place[x])
  BY <1>1 DEF last
<1>7. ListingTypes'
  <2>1. cursor' \in (IF ByTime THEN Nat ELSE Entries) \cup {NoEntry}
    BY <1>3, <1>4, <1>5, <1>6 DEF ListingTypes
  <2>2. seen' \in [Entries -> 0 .. 2]
    BY <1>6 DEF ListingTypes
  <2>3. reading' \in BOOLEAN /\ slipped' \in BOOLEAN
    BY <1>6
  <2>4. stayed' \subseteq Entries
    BY <1>3, <1>6 DEF ListingTypes
  <2> QED BY <1>2, <2>1, <2>2, <2>3, <2>4 DEF ListingTypes
<1>8. Apart'
  BY <1>2 DEF Apart, Present
<1>9. Walked'
  <2> SUFFICES ASSUME ~slipped' PROVE Walked'
    BY DEF Walked
  <2>1. ~slipped /\ \A e \in items, x \in found \ items : place[x] < place[e]
    <3>1. ~slipped /\ ~\E e \in items, x \in found \ items : place[e] = place[x]
      BY <1>6
    <3>2. \A e \in found : place[e] \in Nat
      BY <1>3 DEF ListingTypes
    <3> QED BY <1>4, <3>1, <3>2
  \* What is shown now was not shown before; what stays and was not found, was.
  <2>2. /\ \A e \in found : seen[e] = 0
        /\ \A e \in Entries : seen[e] <= 1
        /\ \A e \in stayed' : entry[e] = "in" /\ (e \notin found => seen[e] = 1)
        /\ \A e \in Entries, x \in found : seen[e] = 1 => place[x] <= place[e]
    <3>1. CASE cursor = NoEntry
      BY <1>2, <1>3, <1>6, <2>1, <3>1 DEF Walked
    <3>2. CASE cursor # NoEntry
      <4>1. Halfway /\ found = {e \in Entries : entry[e] = "in" /\ place[e] < CursorAt}
        BY <1>2, <2>1, <3>2, RowsBelow DEF Walked, found
      <4>2. CursorAt \in Nat /\ \A e \in Entries : place[e] \in Nat /\ seen[e] \in Nat
        BY <3>2 DEF ListingTypes, CursorAt
      <4> QED BY <1>6, <3>2, <4>1, <4>2 DEF Halfway, ListingTypes
    <3> QED BY <3>1, <3>2
  <2>3. \A e \in Entries : seen'[e] = IF e \in items THEN 1 ELSE seen[e]
    BY <1>4, <1>6, <2>2 DEF ListingTypes
  <2>4. CASE items = found
    <3>1. \A e \in stayed' : seen'[e] = 1
      BY <1>7, <2>2, <2>3, <2>4 DEF ListingTypes
    <3>2. \A e \in Entries : seen'[e] <= 1
      BY <2>2, <2>3
    <3>3. reading' = FALSE
      BY <1>6, <2>4
    <3> QED BY <3>1, <3>2, <3>3 DEF Walked
  <2>5. CASE items # found
    <3>1. /\ last \in items /\ last \in Entries /\ entry[last] = "in" /\ place[last] \in Nat
          /\ \A x \in items : place[last] <= place[x]
      BY <1>3, <1>4, <1>5, <2>5 DEF ListingTypes
    <3>2. reading' = TRUE /\ cursor' = (IF ByTime THEN place[last] ELSE last) /\ cursor' # NoEntry
      BY <1>6, <2>5, <3>1, ListingAssumption DEF ListingAssumption
    <3>3. CursorAt' = place[last]
      BY <1>2, <3>2 DEF CursorAt
    <3>4. \A e \in Entries : seen'[e] <= 1 /\ (seen'[e] = 1 => place[last] <= place[e])
      BY <1>4, <2>2, <2>3, <3>1
    <3>5. \A e \in stayed' : entry[e] = "in" /\ (place[last] <= place[e] => seen'[e] = 1)
      <4> SUFFICES ASSUME NEW e \in stayed', place[last] <= place[e], e \in found \ items
                   PROVE  FALSE
        BY <1>7, <2>2, <2>3 DEF ListingTypes
      <4>1. place[e] < place[last] /\ place[e] \in Nat
        BY <1>3, <2>1, <3>1 DEF ListingTypes
      <4> QED BY <3>1, <4>1
    <3>6. Halfway'
      BY <1>2, <3>1, <3>2, <3>3, <3>4, <3>5 DEF Halfway
    <3> QED BY <3>2, <3>6 DEF Walked
  <2> QED BY <2>4, <2>5
<1> QED BY <1>7, <1>8, <1>9

\* Whatever enters, leaves, hides, moves or is paged through: as long as the row of a
\* cursor stays in its place, a walk shows every row that stayed exactly once.
THEOREM WalkIsExplained == ListingSpec => []WalkExplained
<1>1. WalkInv /\ [ListingNext]_listingVars => WalkInv'
  <2> SUFFICES ASSUME WalkInv, [ListingNext]_listingVars PROVE WalkInv'
    OBVIOUS
  <2>1. CASE ReadPage
    BY <2>1, PageRead
  <2>2. ASSUME NEW e \in Entries,
               \/ Enter(e) \/ EnterAtOnce(e) \/ Hide(e) \/ Unhide(e) \/ Drop(e)
               \/ (\E p \in 1 .. MaxPlace : Move(e, p))
        PROVE  WalkInv'
    BY <2>2, RowsChange
  <2>3. CASE HideAll
    <3>1. PICK e \in Entries : TRUE
      BY <2>3 DEF HideAll
    <3> QED BY <2>3, <3>1, RowsChange
  <2>4. CASE UNCHANGED listingVars
    <3>1. UNCHANGED <<list, entry, place, reading, cursor, seen, stayed, slipped>>
      BY <2>4 DEF listingVars, walkVars
    <3> QED BY <3>1 DEF WalkInv, ListingTypes, Apart, Present, ByTime, Walked, Halfway, CursorAt
  <2> QED BY <2>1, <2>2, <2>3, <2>4 DEF ListingNext
<1>2. WalkInv => WalkExplained
  BY DEF WalkInv, ListingTypes, Walked, Halfway, WalkExplained
<1> QED BY <1>1, <1>2, WalkStart, PTL DEF ListingSpec

=============================================================================
