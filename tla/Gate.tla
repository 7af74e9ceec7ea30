---------------------------------- MODULE Gate ----------------------------------
(***************************************************************************)
(* What a request passes before its handler's effect: the rate limit         *)
(* (rate-limit.guard.ts), the plugin's device token (plugin-token.service.ts *)
(* and its guard) and the idempotency record of POST /assets                 *)
(* (idempotency.service.ts, assets.controller.ts).                           *)
(*                                                                         *)
(* Exchanges of a Keycloak token for a device token are rate limited; the    *)
(* other operations modelled are not.  One user, one client address and one  *)
(* Idempotency-Key: keys, users and addresses do not share anything.         *)
(***************************************************************************)
EXTENDS Naturals, FiniteSets

CONSTANTS
    Callers,        \* requests in flight at a time
    Tokens,         \* device tokens that can be issued
    Bodies,         \* bodies sent with the idempotency key
    Nil,
    Limit,          \* RateLimitConfig.max
    MaxWindow,      \* bound: windows of the rate limit
    MaxCount,       \* bound: requests counted in a window
    MaxMade,        \* bound: assets created
    MaxGateFaults   \* bound: failing Redis calls and processes that die

ASSUME GateAssumption ==
    /\ Limit \in Nat \ {0} /\ MaxWindow \in Nat \ {0}
    /\ MaxMade \in Nat /\ MaxCount \in Nat /\ MaxGateFaults \in Nat
    /\ \A b \in Bodies : Nil # [hash |-> b, response |-> b]
    /\ Nil \notin Tokens \cup Bodies

VARIABLES
    req,         \* each request: what it asks for, its next step, of what
    window, used, ttl,  \* the current window; counter per window; keys with a TTL
    admitted,    \* history: requests let through, per window
    life,        \* PluginDeviceToken rows: "none", "live" or "expired"
    revoked,     \* those with revokedAt
    revived,     \* history: tokens that a refresh found alive and extended when expired
    record,      \* the idempotency record: the body hashed, the response's body
    made,        \* assets created under the key
    excused,     \* history: a second one has an explanation
    replies,     \* history: bodies asked for, with those of the assets answered
    gateFaults

rateVars == <<window, used, ttl, admitted>>
tokenVars == <<life, revoked, revived>>
idemVars == <<record, made, excused, replies>>
gateVars == <<req, rateVars, tokenVars, idemVars, gateFaults>>

Idle == [op |-> "none", step |-> "idle", arg |-> Nil, dead |-> "no"]

GateInit ==
    /\ req = [r \in Callers |-> Idle]
    /\ window = 1 /\ used = [w \in 1 .. MaxWindow |-> 0] /\ ttl = {}
    /\ admitted = [w \in 1 .. MaxWindow |-> 0]
    /\ life = [t \in Tokens |-> "none"] /\ revoked = {} /\ revived = {}
    /\ record = Nil /\ made = 0 /\ excused = FALSE /\ replies = {}
    /\ gateFaults = 0

AtStep(r, op, step) == req[r].op = op /\ req[r].step = step
Proceed(r, step) == req' = [req EXCEPT ![r].step = step]
Leave(r) == req' = [req EXCEPT ![r] = Idle]
GateFault == gateFaults < MaxGateFaults /\ gateFaults' = gateFaults + 1

-----------------------------------------------------------------------------
(* The rate limit.                                                         *)

Passed(w) == admitted' = [admitted EXCEPT ![w] = @ + 1]

\* The key names the window; its counter is incremented and looked at.
Count(r) ==
    /\ req[r] = Idle /\ used[window] < MaxCount
    /\ used' = [used EXCEPT ![window] = @ + 1]
    /\ IF used'[window] = 1
       THEN /\ req' = [req EXCEPT ![r] = [Idle EXCEPT !.op = "exchange", !.step = "expire", !.arg = window]]
            /\ UNCHANGED admitted
       ELSE IF used'[window] > Limit THEN UNCHANGED <<req, admitted>>
       ELSE /\ req' = [req EXCEPT ![r] = [Idle EXCEPT !.op = "exchange", !.step = "issue"]]
            /\ Passed(window)
    /\ UNCHANGED <<window, ttl, tokenVars, idemVars, gateFaults>>

\* EXPIRE after the first request of a window.
SetTtl(r) ==
    /\ AtStep(r, "exchange", "expire")
    /\ ttl' = ttl \cup {req[r].arg}
    /\ Passed(req[r].arg)
    /\ req' = [req EXCEPT ![r].step = "issue", ![r].arg = Nil]
    /\ UNCHANGED <<window, used, tokenVars, idemVars, gateFaults>>

NextWindow ==
    /\ window < MaxWindow
    /\ window' = window + 1
    /\ UNCHANGED <<req, used, ttl, admitted, tokenVars, idemVars, gateFaults>>

\* A key lives for windowSec from its first use, past its window's end.
WindowKeyExpires(w) ==
    /\ w \in ttl /\ w < window
    /\ used' = [used EXCEPT ![w] = 0] /\ ttl' = ttl \ {w}
    /\ UNCHANGED <<req, window, admitted, tokenVars, idemVars, gateFaults>>

-----------------------------------------------------------------------------
(* Device tokens.                                                          *)

Active(t) == life[t] = "live" /\ t \notin revoked

Issue(r) ==
    /\ AtStep(r, "exchange", "issue")
    /\ \E t \in Tokens :
           life[t] = "none" /\ life' = [life EXCEPT ![t] = "live"]
    /\ Leave(r)
    /\ UNCHANGED <<rateVars, revoked, revived, idemVars, gateFaults>>

\* A request with a device token: to use the API ("use") or to extend it ("refresh").
Present(r, op, t) ==
    /\ req[r] = Idle
    /\ life[t] # "none"
    /\ req' = [req EXCEPT ![r] = [op |-> op, step |-> "find", arg |-> t, dead |->
               IF t \in revoked THEN "revoked" ELSE IF life[t] = "expired" THEN "expired" ELSE "no"]]
    /\ UNCHANGED <<rateVars, tokenVars, idemVars, gateFaults>>

\* verifyAndTouch and refreshExpiry read the row first.
FindToken(r) ==
    /\ req[r].step = "find"
    /\ IF Active(req[r].arg) THEN Proceed(r, "found") ELSE Leave(r)
    /\ UNCHANGED <<rateVars, tokenVars, idemVars, gateFaults>>

\* lastUsedAt is written at most once a minute and its failure is swallowed;
\* then the role is read and the handler runs.
AdmitToken(r) ==
    /\ AtStep(r, "use", "found")
    /\ Leave(r)
    /\ UNCHANGED <<rateVars, tokenVars, idemVars, gateFaults>>

\* Mutant of ExtendToken: the refresh also takes back a revocation.
ExtendTokenAfresh(r) ==
    /\ AtStep(r, "refresh", "found")
    /\ LET t == req[r].arg
       IN /\ life' = [life EXCEPT ![t] = "live"] /\ revoked' = revoked \ {t}
          /\ revived' = IF life[t] = "expired" THEN revived \cup {t} ELSE revived
    /\ Leave(r)
    /\ UNCHANGED <<rateVars, idemVars, gateFaults>>

\* By hash alone: what happened to the row since it was read does not matter.
ExtendToken(r) ==
    /\ AtStep(r, "refresh", "found")
    /\ LET t == req[r].arg
       IN /\ life' = [life EXCEPT ![t] = "live"]
          /\ revived' = IF life[t] = "expired" THEN revived \cup {t} ELSE revived
    /\ Leave(r)
    /\ UNCHANGED <<rateVars, revoked, idemVars, gateFaults>>

RevokeDevice(t) ==
    /\ life[t] # "none" /\ t \notin revoked
    /\ revoked' = revoked \cup {t}
    /\ UNCHANGED <<req, rateVars, life, revived, idemVars, gateFaults>>

TokenExpires(t) ==
    /\ life[t] = "live"
    /\ life' = [life EXCEPT ![t] = "expired"]
    /\ UNCHANGED <<req, rateVars, revoked, revived, idemVars, gateFaults>>

-----------------------------------------------------------------------------
(* POST /assets with an Idempotency-Key.                                   *)

\* Mutant of Lookup: the body is not compared.
LookupByKey(r, b) ==
    /\ req[r] = Idle
    /\ IF record # Nil
       THEN /\ replies' = replies \cup {<<b, record.response>>}
            /\ UNCHANGED <<req, excused>>
       ELSE /\ req' = [req EXCEPT ![r] = [Idle EXCEPT !.op = "create", !.step = "create", !.arg = b]]
            /\ excused' = (excused \/ \E q \in Callers : req[q].op = "create")
            /\ UNCHANGED replies
    /\ UNCHANGED <<rateVars, tokenVars, record, made, gateFaults>>

\* A request whose key was used: replayed, or a conflict if its body differs.
Lookup(r, b) ==
    /\ req[r] = Idle
    /\ IF record # Nil
       THEN /\ replies' = IF record.hash = b THEN replies \cup {<<b, record.response>>} ELSE replies
            /\ UNCHANGED <<req, excused>>
       ELSE /\ req' = [req EXCEPT ![r] = [Idle EXCEPT !.op = "create", !.step = "create", !.arg = b]]
            /\ excused' = (excused \/ \E q \in Callers : req[q].op = "create")
            /\ UNCHANGED replies
    /\ UNCHANGED <<rateVars, tokenVars, record, made, gateFaults>>

\* AssetsService.create succeeds, or throws before it commits; an error is not stored.
Create(r) ==
    /\ AtStep(r, "create", "create")
    /\ \/ made < MaxMade /\ made' = made + 1 /\ Proceed(r, "store")
       \/ UNCHANGED made /\ Leave(r)
    /\ UNCHANGED <<rateVars, tokenVars, record, excused, replies, gateFaults>>

Store(r) ==
    /\ AtStep(r, "create", "store")
    /\ record' = [hash |-> req[r].arg, response |-> req[r].arg]
    /\ Leave(r)
    /\ UNCHANGED <<rateVars, tokenVars, made, excused, replies, gateFaults>>

\* TTL_SECONDS: 24 h.
RecordExpires ==
    /\ record # Nil
    /\ record' = Nil /\ excused' = TRUE
    /\ UNCHANGED <<req, rateVars, tokenVars, made, replies, gateFaults>>

\* A Redis call fails, or the process dies: the request ends where it is.
CallerFails(r) ==
    /\ req[r] # Idle
    /\ GateFault
    /\ excused' = (excused \/ req[r].step = "store")
    /\ Leave(r)
    /\ UNCHANGED <<rateVars, tokenVars, record, made, replies>>

GateNext ==
    \/ \E r \in Callers :
           \/ Count(r) \/ SetTtl(r) \/ Issue(r)
           \/ \E t \in Tokens, op \in {"use", "refresh"} : Present(r, op, t)
           \/ FindToken(r) \/ AdmitToken(r) \/ ExtendToken(r)
           \/ \E b \in Bodies : Lookup(r, b)
           \/ Create(r) \/ Store(r) \/ CallerFails(r)
    \/ \E w \in 1 .. MaxWindow : WindowKeyExpires(w)
    \/ \E t \in Tokens : RevokeDevice(t) \/ TokenExpires(t)
    \/ NextWindow \/ RecordExpires

GateSpec == GateInit /\ [][GateNext]_gateVars

-----------------------------------------------------------------------------
(* Properties.                                                             *)

\* Who may not enter stays out.  Within one window no more than the limit are
\* let through (RateLimitGuard), whoever dies between INCR and EXPIRE.  A device
\* token that was revoked before a request came lets that request in no more and
\* is not refreshed by it; one that had expired does so only if a refresh that
\* had found it alive extended it afterwards (PluginTokenService).
EntryHolds ==
    /\ \A w \in 1 .. MaxWindow : admitted[w] <= Limit
    /\ \A r \in Callers :
           req[r].step = "found" =>
               /\ req[r].dead # "revoked"
               /\ req[r].dead = "expired" => req[r].arg \in revived

\* One key, one asset (IdempotencyService): a second asset under the key needs
\* two requests that overlapped, a response that was never stored, or a record
\* that expired; and no request is answered with an asset made for another body.
OneEffectPerKey ==
    /\ made > 1 => excused
    /\ \A a \in replies : a[1] = a[2]
=============================================================================
