--------------------------------- MODULE Access ---------------------------------
(***************************************************************************)
(* Who is an admin, and who is taken for one (principal-resolver.service.ts, *)
(* admin.guard.ts, admin-users.service.ts).                                  *)
(*                                                                         *)
(* A request brings a verified Keycloak token.  Its principal comes from a   *)
(* cache in Redis or, on a miss, from an upsert of the user's row, and is    *)
(* then cached for 30 s.  Admin requests promote and demote users; each      *)
(* checks, then writes, then drops the target's cached principal.            *)
(*                                                                         *)
(* A user is identified with an email and a Keycloak subject.  The bootstrap *)
(* admin is whoever ADMIN_BOOTSTRAP_EMAIL names, in this deployment; the     *)
(* seed script gives that email a row with a placeholder for its subject.    *)
(* Notices and audit rows follow the last step and change nothing modelled.  *)
(***************************************************************************)
EXTENDS Naturals, FiniteSets

CONSTANTS
    Users,
    Requests,   \* requests in flight at a time
    None,
    MaxFaults   \* bound: failing Redis calls and processes that die

ASSUME AccessAssumption ==
    /\ None \notin Users
    /\ MaxFaults \in Nat

VARIABLES
    boot,       \* the user of ADMIN_BOOTSTRAP_EMAIL, or None
    account,    \* User row: "none", "seeded" (placeholder subject) or "own"
    admins,     \* the rows with isAdmin
    cache,      \* authz:principal:<sub>: isAdmin of the cached principal, or None
    pc, me,     \* each request: next step, its caller
    op, target, \* what it asks for, and of whom
    isAdmin,    \* its principal's isAdmin
    overtaken,  \* history: demotions another one was written into
    torn,       \* history: users whose cached principal nobody will mend
    faults

userVars == <<boot, account, admins>>
reqVars == <<pc, me, op, target, isAdmin>>
vars == <<userVars, cache, reqVars, overtaken, torn, faults>>

known == {u \in Users : account[u] # "none"}

\* A deployment starts with the rows and admins that earlier ones left.
Init ==
    /\ boot \in Users \cup {None}
    /\ account \in [Users -> {"none", "seeded", "own"}]
    /\ admins \in SUBSET known
    /\ cache = [u \in Users |-> None]
    /\ pc = [r \in Requests |-> "idle"] /\ me = [r \in Requests |-> None]
    /\ op = [r \in Requests |-> "none"] /\ target = [r \in Requests |-> None]
    /\ isAdmin = [r \in Requests |-> FALSE]
    /\ overtaken = {} /\ torn = {}
    /\ faults = 0

Fault == faults < MaxFaults /\ faults' = faults + 1

-----------------------------------------------------------------------------
(* The guard.                                                              *)

Goto(r, step) == pc' = [pc EXCEPT ![r] = step]

Finish(r) ==
    /\ Goto(r, "idle")
    /\ me' = [me EXCEPT ![r] = None] /\ op' = [op EXCEPT ![r] = "none"]
    /\ target' = [target EXCEPT ![r] = None] /\ isAdmin' = [isAdmin EXCEPT ![r] = FALSE]

\* A request of user u: any ("use"), or one about user t that needs an admin.
Begin(r, u, o, t) ==
    /\ pc[r] = "idle"
    /\ Goto(r, "get")
    /\ me' = [me EXCEPT ![r] = u] /\ op' = [op EXCEPT ![r] = o]
    /\ target' = [target EXCEPT ![r] = t]
    /\ UNCHANGED <<userVars, cache, isAdmin, overtaken, torn, faults>>

\* The guard is through with the principal it found.
Admit(r, admin) ==
    IF op[r] = "use" \/ ~admin THEN Finish(r)
    ELSE Goto(r, "find") /\ UNCHANGED <<me, op, target, isAdmin>>

GetPrincipal(r) ==
    /\ pc[r] = "get" /\ cache[me[r]] # None
    /\ Admit(r, cache[me[r]])
    /\ UNCHANGED <<userVars, cache, overtaken, torn, faults>>

\* Nothing is cached, or Redis fails.
MissPrincipal(r) ==
    /\ pc[r] = "get"
    /\ IF cache[me[r]] = None THEN UNCHANGED faults ELSE Fault
    /\ Goto(r, "upsert")
    /\ UNCHANGED <<userVars, cache, me, op, target, isAdmin, overtaken, torn>>

\* The upsert by subject: a row with another subject has the email already,
\* and the insert fails.  The bootstrap admin is made one, whatever is cached.
Upserted(u) ==
    /\ account[u] # "seeded"
    /\ account' = [account EXCEPT ![u] = "own"]
    /\ admins' = IF u = boot THEN admins \cup {u} ELSE admins
    /\ torn' = IF admins' # admins /\ cache[u] # None THEN torn \cup {u} ELSE torn
    /\ UNCHANGED boot

Upsert(r) ==
    /\ pc[r] = "upsert"
    /\ \/ /\ Upserted(me[r])
          /\ isAdmin' = [isAdmin EXCEPT ![r] = me[r] \in admins']
          /\ Goto(r, "fill")
          /\ UNCHANGED <<me, op, target>>
       \/ /\ account[me[r]] = "seeded"
          /\ Finish(r)
          /\ UNCHANGED <<userVars, torn>>
    /\ UNCHANGED <<cache, overtaken, faults>>

Dropping(u) == \E r \in Requests : pc[r] = "drop" /\ target[r] = u

Fill(r) ==
    /\ pc[r] = "fill"
    /\ cache' = [cache EXCEPT ![me[r]] = isAdmin[r]]
    /\ torn' = IF isAdmin[r] = (me[r] \in admins) \/ Dropping(me[r])
               THEN torn \ {me[r]} ELSE torn \cup {me[r]}
    /\ Admit(r, isAdmin[r])
    /\ UNCHANGED <<userVars, overtaken, faults>>

FillFails(r) ==
    /\ pc[r] = "fill"
    /\ Fault
    /\ Admit(r, isAdmin[r])
    /\ UNCHANGED <<userVars, cache, overtaken, torn>>

-----------------------------------------------------------------------------
(* Promote and demote.                                                     *)

\* Mutant of FindTarget: no check that the user exists.
FindTargetUnchecked(r) ==
    /\ pc[r] = "find"
    /\ IF \/ (op[r] = "promote") = (target[r] \in admins)
          \/ op[r] = "demote" /\ target[r] = boot
       THEN Finish(r)
       ELSE /\ Goto(r, IF op[r] = "demote" THEN "count" ELSE "set")
            /\ UNCHANGED <<me, op, target, isAdmin>>
    /\ UNCHANGED <<userVars, cache, overtaken, torn, faults>>

\* The user does not exist, there is nothing to change, or it is the
\* bootstrap admin that is to be demoted.
FindTarget(r) ==
    /\ pc[r] = "find"
    /\ IF \/ target[r] \notin known
          \/ (op[r] = "promote") = (target[r] \in admins)
          \/ op[r] = "demote" /\ target[r] = boot
       THEN Finish(r)
       ELSE /\ Goto(r, IF op[r] = "demote" THEN "count" ELSE "set")
            /\ UNCHANGED <<me, op, target, isAdmin>>
    /\ UNCHANGED <<userVars, cache, overtaken, torn, faults>>

\* Mutant of CountAdmins: the target counts too.
CountAdminsAll(r) ==
    /\ pc[r] = "count"
    /\ IF admins = {} THEN Finish(r)
       ELSE Goto(r, "set") /\ UNCHANGED <<me, op, target, isAdmin>>
    /\ UNCHANGED <<userVars, cache, overtaken, torn, faults>>

CountAdmins(r) ==
    /\ pc[r] = "count"
    /\ IF admins \ {target[r]} = {} THEN Finish(r)
       ELSE Goto(r, "set") /\ UNCHANGED <<me, op, target, isAdmin>>
    /\ UNCHANGED <<userVars, cache, overtaken, torn, faults>>

Demoting == {r \in Requests : pc[r] = "set" /\ op[r] = "demote"}

Written(r) ==
    /\ admins' = IF op[r] = "demote" THEN admins \ {target[r]} ELSE admins \cup {target[r]}
    /\ overtaken' = IF op[r] = "demote" THEN Demoting \ {r} ELSE overtaken

\* Mutant of SetAdmin: no invalidation.
SetAdminOnly(r) ==
    /\ pc[r] = "set"
    /\ Written(r)
    /\ Finish(r)
    /\ UNCHANGED <<boot, account, cache, torn, faults>>

SetAdmin(r) ==
    /\ pc[r] = "set"
    /\ Written(r)
    /\ Goto(r, "drop")
    /\ UNCHANGED <<boot, account, cache, me, op, target, isAdmin, torn, faults>>

DropPrincipal(r) ==
    /\ pc[r] = "drop"
    /\ cache' = [cache EXCEPT ![target[r]] = None]
    /\ torn' = torn \ {target[r]}
    /\ Finish(r)
    /\ UNCHANGED <<userVars, overtaken, faults>>

\* What a request that stops here leaves behind.
Left(r) ==
    IF pc[r] = "drop" /\ cache[target[r]] # None THEN torn \cup {target[r]} ELSE torn

DropFails(r) ==
    /\ pc[r] = "drop"
    /\ Fault
    /\ torn' = Left(r)
    /\ Finish(r)
    /\ UNCHANGED <<userVars, cache, overtaken>>

Crash(r) ==
    /\ pc[r] # "idle"
    /\ Fault
    /\ torn' = Left(r) /\ overtaken' = overtaken \ {r}
    /\ Finish(r)
    /\ UNCHANGED <<userVars, cache>>

-----------------------------------------------------------------------------
(* Besides.                                                                *)

\* PRINCIPAL_CACHE_TTL_SEC: 30 s.
Expire(u) ==
    /\ cache[u] # None
    /\ cache' = [cache EXCEPT ![u] = None]
    /\ torn' = torn \ {u}
    /\ UNCHANGED <<userVars, reqVars, overtaken, faults>>

\* The plugin's token exchange and the queue dashboard upsert without the cache.
SignIn(u) ==
    /\ Upserted(u)
    /\ UNCHANGED <<cache, reqVars, overtaken, faults>>

\* The seed script, before any sign-in or once more.
Seed ==
    /\ boot # None
    /\ account' = [account EXCEPT ![boot] = IF @ = "none" THEN "seeded" ELSE @]
    /\ admins' = admins \cup {boot}
    /\ torn' = IF boot \notin admins /\ cache[boot] # None THEN torn \cup {boot} ELSE torn
    /\ UNCHANGED <<boot, cache, reqVars, overtaken, faults>>

Next ==
    \/ \E r \in Requests, u \in Users :
           \/ Begin(r, u, "use", None)
           \/ \E o \in {"promote", "demote"}, t \in Users : Begin(r, u, o, t)
    \/ \E r \in Requests :
           \/ GetPrincipal(r) \/ MissPrincipal(r) \/ Upsert(r) \/ Fill(r) \/ FillFails(r)
           \/ FindTarget(r) \/ CountAdmins(r) \/ SetAdmin(r)
           \/ DropPrincipal(r) \/ DropFails(r) \/ Crash(r)
    \/ \E u \in Users : Expire(u) \/ SignIn(u)
    \/ Seed

Spec == Init /\ [][Next]_vars

-----------------------------------------------------------------------------
(* Properties.                                                             *)

Steps == {"idle", "get", "upsert", "fill", "find", "count", "set", "drop"}

\* Types of the variables; only an existing user is promoted or demoted.
TypeOK ==
    /\ boot \in Users \cup {None}
    /\ account \in [Users -> {"none", "seeded", "own"}] /\ admins \subseteq known
    /\ cache \in [Users -> BOOLEAN \cup {None}]
    /\ pc \in [Requests -> Steps] /\ isAdmin \in [Requests -> BOOLEAN]
    /\ me \in [Requests -> Users \cup {None}] /\ target \in [Requests -> Users \cup {None}]
    /\ op \in [Requests -> {"none", "use", "promote", "demote"}]
    /\ \A r \in Requests : pc[r] \in {"count", "set", "drop"} => target[r] \in known
    /\ overtaken \subseteq Demoting /\ torn \subseteq Users /\ faults \in 0 .. MaxFaults

\* The last admin goes only when two demotions overlap: one is written between
\* the count and the write of the other.  The bootstrap admin never goes, so
\* that a deployment that has one always has an admin.
AdminsRemain ==
    [][/\ boot \in admins => boot \in admins'
       /\ admins # {} /\ admins' = {} => \E r \in overtaken : pc'[r] = "drop"]_vars

\* "so a role change applies at once" (admin-users.service.ts): a cached
\* principal that disagrees with the user's row is being dropped, unless it was
\* stored late, its drop failed, or the bootstrap admin got the role by signing
\* in or being seeded; then it lasts for the TTL.
PrincipalExplained ==
    \A u \in Users :
        cache[u] # None /\ cache[u] # (u \in admins) => Dropping(u) \/ u \in torn

\* "the auth guard overwrites it on the admin's first real login" (README.md of
\* the repository, of the placeholder subject): the seeded admin gets in.
SeededAdminEnters ==
    [][\A r \in Requests : Upsert(r) /\ account[me[r]] = "seeded" => pc'[r] = "fill"]_vars
=============================================================================
