------------------------------ MODULE AccessProofs ------------------------------
(***************************************************************************)
(* Who is an admin, who is taken for one, and the guards in front of them:  *)
(* types, the last admin, and the cached principals (Access); tokens, the   *)
(* rate limit and idempotency records (Gate).  For any number of users,     *)
(* requests, keys, tokens and faults, and any bootstrap admin or none.      *)
(***************************************************************************)
EXTENDS Access, Gate, TLAPS

\* What the argument needs of the types.
RosterTypes ==
    /\ pc \in [Requests -> Steps]
    /\ op \in [Requests -> {"none", "use", "promote", "demote"}]
    /\ target \in [Requests -> Users \cup {None}]

\* A demotion that has been checked and not overtaken leaves an admin behind.
Safe(r) == admins \ {target[r]} # {}

\* A demotion past its first check is not about the bootstrap admin, and past
\* its count it stays safe: promotions, sign-ins and the seed only add admins,
\* and another demotion marks it overtaken.
RosterInv ==
    /\ RosterTypes
    /\ \A r \in Requests : pc[r] \in {"count", "set"} /\ op[r] = "demote" => target[r] # boot
    /\ \A r \in Demoting \ overtaken : Safe(r)

\* No request is under way at first.
LEMMA RosterInit == Init => RosterInv
BY DEF Init, RosterInv, RosterTypes, Demoting, Steps

\* What a step of the guard, or one besides, does: it adds admins at most, and
\* brings no request nearer to a demotion than the lookup of its target.
Harmless ==
    /\ admins \subseteq admins' /\ boot' = boot
    /\ overtaken \cap Demoting' \subseteq overtaken'
    /\ \A r \in Requests :
           pc'[r] \in {"count", "set"} =>
               pc'[r] = pc[r] /\ op'[r] = op[r] /\ target'[r] = target[r]

\* Such a step keeps the invariant.
LEMMA RosterKept == ASSUME RosterInv, RosterTypes', Harmless PROVE RosterInv'
<1>1. ASSUME NEW r \in Requests, pc'[r] \in {"count", "set"}, op'[r] = "demote"
      PROVE  target'[r] # boot'
  BY <1>1 DEF RosterInv, Harmless
<1>2. ASSUME NEW r \in Demoting' \ overtaken' PROVE Safe(r)'
  <2>1. r \in Demoting \ overtaken /\ target'[r] = target[r]
    BY <1>2 DEF Demoting, Harmless
  <2> QED BY <2>1 DEF RosterInv, Safe, Harmless
<1> QED BY <1>1, <1>2 DEF RosterInv

\* The guard, the drop of the principal, and a request that dies.
LEMMA RequestHarmless ==
    ASSUME RosterInv, NEW r \in Requests,
           \/ GetPrincipal(r) \/ MissPrincipal(r) \/ Upsert(r) \/ Fill(r) \/ FillFails(r)
           \/ DropPrincipal(r) \/ DropFails(r) \/ Crash(r)
    PROVE  RosterTypes' /\ Harmless
<1> USE DEF RosterInv, userVars
<1>1. ASSUME \/ Finish(r)
             \/ \E step \in {"upsert", "fill", "find"} : Goto(r, step) /\ UNCHANGED <<op, target>>,
             admins \subseteq admins', boot' = boot,
             overtaken' = overtaken \/ overtaken' = overtaken \ {r}
      PROVE  RosterTypes' /\ Harmless
  <2>1. CASE Finish(r)
    BY <1>1, <2>1 DEF RosterTypes, Harmless, Steps, Goto, Finish, Demoting
  <2>2. ASSUME NEW step \in {"upsert", "fill", "find"}, Goto(r, step), UNCHANGED <<op, target>>
        PROVE  RosterTypes' /\ Harmless
    BY <1>1, <2>2 DEF RosterTypes, Harmless, Steps, Goto, Demoting
  <2> QED BY <1>1, <2>1, <2>2
<1>2. CASE GetPrincipal(r)
  BY <1>1, <1>2 DEF GetPrincipal, Admit
<1>3. CASE MissPrincipal(r)
  BY <1>1, <1>3 DEF MissPrincipal
<1>4. CASE Upsert(r)
  BY <1>1, <1>4 DEF Upsert, Upserted
<1>5. CASE Fill(r) \/ FillFails(r)
  BY <1>1, <1>5 DEF Fill, FillFails, Admit
<1>6. CASE DropPrincipal(r) \/ DropFails(r) \/ Crash(r)
  BY <1>1, <1>6 DEF DropPrincipal, DropFails, Crash
<1> QED BY <1>2, <1>3, <1>4, <1>5, <1>6

\* The two checks.
LEMMA RosterChecked ==
    ASSUME RosterInv, NEW r \in Requests, FindTarget(r) \/ CountAdmins(r)
    PROVE  RosterInv'
<1> USE DEF RosterInv, RosterTypes, Steps, Goto, Finish, Demoting, Safe, userVars
<1>1. CASE FindTarget(r)
  BY <1>1 DEF FindTarget
<1>2. CASE CountAdmins(r)
  BY <1>2 DEF CountAdmins
<1> QED BY <1>1, <1>2

\* The write.
LEMMA RosterWritten ==
    ASSUME RosterInv, NEW r \in Requests, SetAdmin(r)
    PROVE  RosterInv'
<1> USE DEF RosterInv, RosterTypes, Steps, Goto, Demoting, Safe, SetAdmin, Written
<1>1. CASE op[r] = "demote"
  BY <1>1
<1>2. CASE op[r] # "demote"
  BY <1>2
<1> QED BY <1>1, <1>2

\* The last admin goes only when two demotions overlap, and the bootstrap
\* admin never.
THEOREM LastAdminStays == Spec => AdminsRemain
<1>1. ASSUME RosterInv, [Next]_vars PROVE RosterInv'
  <2> USE <1>1
  <2>1. ASSUME NEW r \in Requests, NEW u \in Users, NEW t \in Users \cup {None},
               NEW o \in {"use", "promote", "demote"}, Begin(r, u, o, t)
        PROVE  RosterInv'
    <3>1. RosterTypes' /\ Harmless
      BY <2>1 DEF Begin, RosterInv, RosterTypes, Harmless, Steps, Goto, Demoting, userVars
    <3> QED BY <3>1, RosterKept
  <2>2. ASSUME NEW r \in Requests,
               \/ GetPrincipal(r) \/ MissPrincipal(r) \/ Upsert(r) \/ Fill(r) \/ FillFails(r)
               \/ DropPrincipal(r) \/ DropFails(r) \/ Crash(r)
        PROVE  RosterInv'
    BY <2>2, RequestHarmless, RosterKept
  <2>3. ASSUME NEW r \in Requests, FindTarget(r) \/ CountAdmins(r) \/ SetAdmin(r)
        PROVE  RosterInv'
    BY <2>3, RosterChecked, RosterWritten
  <2>4. CASE (\E u \in Users : Expire(u) \/ SignIn(u)) \/ Seed \/ UNCHANGED vars
    <3>1. RosterTypes' /\ Harmless
      BY <2>4 DEF Expire, SignIn, Upserted, Seed, RosterInv, RosterTypes, Harmless,
                  Demoting, reqVars, userVars, vars
    <3> QED BY <3>1, RosterKept
  <2> QED BY <2>1, <2>2, <2>3, <2>4 DEF Next
<1>2. ASSUME RosterInv, Next
      PROVE  /\ boot \in admins => boot \in admins'
             /\ admins # {} /\ admins' = {} => \E r \in overtaken : pc'[r] = "drop"
  <2> USE <1>2
  <2>1. CASE \E r \in Requests : SetAdmin(r)
    <3>1. PICK r \in Requests : SetAdmin(r)
      BY <2>1
    <3>2. CASE op[r] = "demote"
      <4>1. target[r] # boot /\ admins' = admins \ {target[r]} /\ pc'[r] = "drop"
        BY <3>1, <3>2 DEF RosterInv, RosterTypes, SetAdmin, Written, Goto
      <4>2. admins' = {} => r \in overtaken
        BY <3>1, <3>2, <4>1 DEF RosterInv, Safe, Demoting, SetAdmin
      <4> QED BY <4>1, <4>2
    <3>3. CASE op[r] # "demote"
      BY <3>1, <3>3 DEF SetAdmin, Written
    <3> QED BY <3>2, <3>3
  <2>2. CASE ~ \E r \in Requests : SetAdmin(r)
    <3>1. admins \subseteq admins' /\ boot' = boot
      BY <2>2 DEF Next, Begin, GetPrincipal, MissPrincipal, Upsert, Upserted, Fill, FillFails,
                  FindTarget, CountAdmins, DropPrincipal, DropFails, Crash, Expire, SignIn,
                  Seed, userVars
    <3> QED BY <3>1
  <2> QED BY <2>1, <2>2
<1>3. ASSUME RosterInv, [Next]_vars
      PROVE  [/\ boot \in admins => boot \in admins'
              /\ admins # {} /\ admins' = {} => \E r \in overtaken : pc'[r] = "drop"]_vars
  BY <1>2, <1>3
<1> QED BY <1>1, <1>3, RosterInit, PTL DEF Spec, AdminsRemain

-----------------------------------------------------------------------------
(* Types, and the cached principals.                                       *)

\* The types, with the caller that every request has.
AccessInv == TypeOK /\ \A r \in Requests : pc[r] # "idle" => me[r] \in Users

\* The columns and the cache.
Stored ==
    /\ boot \in Users \cup {None}
    /\ account \in [Users -> {"none", "seeded", "own"}] /\ admins \subseteq known
    /\ cache \in [Users -> BOOLEAN \cup {None}]
    /\ torn \subseteq Users /\ faults \in 0 .. MaxFaults

\* The requests.
InFlight ==
    /\ pc \in [Requests -> Steps] /\ isAdmin \in [Requests -> BOOLEAN]
    /\ me \in [Requests -> Users \cup {None}] /\ target \in [Requests -> Users \cup {None}]
    /\ op \in [Requests -> {"none", "use", "promote", "demote"}]
    /\ \A r \in Requests : pc[r] \in {"count", "set", "drop"} => target[r] \in known
    /\ \A r \in Requests : pc[r] # "idle" => me[r] \in Users

\* Together they are the invariant, before a step and after it.
LEMMA AccessParts == AccessInv <=> Stored /\ InFlight /\ overtaken \subseteq Demoting
BY DEF AccessInv, TypeOK, Stored, InFlight

\* The parts of AccessInv, in this state and in the next.
LEMMA AccessPartsNext == (AccessInv <=> Stored /\ InFlight /\ overtaken \subseteq Demoting)'
BY AccessParts, PTL

\* No account is ever closed.
AccountsStay == known \subseteq known'

\* A request ends, or goes on to its next step.
LEMMA FlightMoves ==
    ASSUME InFlight, AccountsStay, NEW r \in Requests, overtaken \subseteq Demoting,
           overtaken' = overtaken \/ overtaken' = overtaken \ {r},
           \/ Finish(r) /\ (pc[r] # "set" \/ overtaken' = overtaken \ {r})
           \/ \E step \in {"upsert", "fill", "find"} :
                  Goto(r, step) /\ UNCHANGED <<me, op, target>> /\ pc[r] \notin {"idle", "set"}
                  /\ isAdmin' \in [Requests -> BOOLEAN]
    PROVE  InFlight' /\ overtaken' \subseteq Demoting'
<1>1. CASE Finish(r) /\ (pc[r] # "set" \/ overtaken' = overtaken \ {r})
  BY <1>1 DEF InFlight, AccountsStay, Finish, Goto, Steps, Demoting
<1>2. ASSUME NEW step \in {"upsert", "fill", "find"},
             Goto(r, step) /\ UNCHANGED <<me, op, target>> /\ pc[r] \notin {"idle", "set"},
             isAdmin' \in [Requests -> BOOLEAN]
      PROVE  InFlight' /\ overtaken' \subseteq Demoting'
  BY <1>2 DEF InFlight, AccountsStay, Goto, Steps, Demoting
<1> QED BY <1>1, <1>2

\* An upsert: the account is the user's own from then on.
LEMMA UpsertStored ==
    ASSUME Stored, NEW u \in Users, Upserted(u), UNCHANGED <<cache, faults>>
    PROVE  Stored' /\ AccountsStay
BY DEF Stored, Upserted, AccountsStay, known

\* Every step keeps the types.
LEMMA AccessStep == AccessInv /\ [Next]_vars => AccessInv'
<1> SUFFICES ASSUME Stored, InFlight, overtaken \subseteq Demoting, [Next]_vars
             PROVE  Stored' /\ InFlight' /\ overtaken' \subseteq Demoting'
  BY AccessParts, AccessPartsNext
<1> USE DEF userVars
<1>1. ASSUME UNCHANGED userVars PROVE AccountsStay
  BY <1>1 DEF AccountsStay, known
<1>2. ASSUME NEW r \in Requests, NEW u \in Users, NEW o \in {"use", "promote", "demote"},
             NEW t \in Users \cup {None}, Begin(r, u, o, t)
      PROVE  Stored' /\ InFlight' /\ overtaken' \subseteq Demoting'
  <2>1. Stored'
    BY <1>2 DEF Begin, Stored, known
  <2>2. InFlight' /\ overtaken' \subseteq Demoting'
    BY <1>2 DEF Begin, InFlight, Goto, Steps, Demoting, known
  <2> QED BY <2>1, <2>2
<1>3. ASSUME Fault \/ faults' = faults PROVE faults' \in 0 .. MaxFaults
  BY <1>3, AccessAssumption DEF Fault, Stored
<1>4. ASSUME NEW r \in Requests, GetPrincipal(r) \/ MissPrincipal(r) \/ FillFails(r)
      PROVE  Stored' /\ InFlight' /\ overtaken' \subseteq Demoting'
  <2>1. Stored'
    BY <1>3, <1>4 DEF GetPrincipal, MissPrincipal, FillFails, Stored, known
  <2>2. \/ Finish(r) /\ pc[r] # "set"
        \/ \E step \in {"upsert", "fill", "find"} :
               Goto(r, step) /\ UNCHANGED <<me, op, target, isAdmin>> /\ pc[r] \notin {"idle", "set"}
    BY <1>4 DEF GetPrincipal, MissPrincipal, FillFails, Admit
  <2>3. overtaken' = overtaken /\ UNCHANGED userVars
    BY <1>4 DEF GetPrincipal, MissPrincipal, FillFails
  <2>4. isAdmin \in [Requests -> BOOLEAN]
    BY DEF InFlight
  <2> QED BY <1>1, <2>1, <2>2, <2>3, <2>4, FlightMoves
<1>5. ASSUME NEW r \in Requests, Upsert(r)
      PROVE  Stored' /\ InFlight' /\ overtaken' \subseteq Demoting'
  <2>1. me[r] \in Users
    BY <1>5 DEF Upsert, InFlight
  <2>2. CASE Upserted(me[r])
    <3>1. Stored' /\ AccountsStay
      BY <1>5, <2>1, <2>2, UpsertStored DEF Upsert
    <3>2. /\ isAdmin' = [isAdmin EXCEPT ![r] = me[r] \in admins']
          /\ Goto(r, "fill") /\ UNCHANGED <<me, op, target>>
      BY <1>5, <2>2 DEF Upsert, Upserted
    <3>3. isAdmin \in [Requests -> BOOLEAN]
      BY DEF InFlight
    <3>4. isAdmin' \in [Requests -> BOOLEAN]
      BY <3>2, <3>3
    <3>5. pc[r] \notin {"idle", "set"} /\ overtaken' = overtaken
      BY <1>5 DEF Upsert
    <3> QED BY <3>1, <3>2, <3>4, <3>5, FlightMoves
  <2>3. CASE Finish(r) /\ UNCHANGED <<userVars, torn>>
    <3>1. Stored'
      BY <1>5, <2>3 DEF Upsert, Stored, known
    <3> QED BY <1>1, <1>5, <2>3, <3>1, FlightMoves DEF Upsert
  <2> QED BY <1>5, <2>2, <2>3 DEF Upsert
<1>6. ASSUME NEW r \in Requests, Fill(r)
      PROVE  Stored' /\ InFlight' /\ overtaken' \subseteq Demoting'
  <2>1. me[r] \in Users /\ isAdmin \in [Requests -> BOOLEAN]
    BY <1>6 DEF Fill, InFlight
  <2>2. Stored'
    BY <1>6, <2>1 DEF Fill, Stored, known
  <2>3. Admit(r, isAdmin[r]) /\ pc[r] = "fill" /\ UNCHANGED <<userVars, overtaken>>
    BY <1>6 DEF Fill
  <2>4. Finish(r) \/ (Goto(r, "find") /\ UNCHANGED <<me, op, target, isAdmin>>)
    BY <2>3, Zenon DEF Admit
  <2>5. CASE Finish(r)
    BY <1>1, <2>2, <2>3, <2>5, FlightMoves
  <2>6. CASE Goto(r, "find") /\ UNCHANGED <<me, op, target, isAdmin>>
    <3>1. /\ Goto(r, "find") /\ UNCHANGED <<me, op, target>>
          /\ pc[r] \notin {"idle", "set"} /\ isAdmin' \in [Requests -> BOOLEAN]
      BY <2>1, <2>3, <2>6
    <3> QED BY <1>1, <2>2, <2>3, <3>1, FlightMoves
  <2> QED BY <2>4, <2>5, <2>6
<1>7. ASSUME NEW r \in Requests, FindTarget(r) \/ CountAdmins(r)
      PROVE  Stored' /\ InFlight' /\ overtaken' \subseteq Demoting'
  <2>1. Stored'
    BY <1>7 DEF FindTarget, CountAdmins, Stored, known
  <2>2. pc[r] \in {"find", "count"} /\ UNCHANGED <<userVars, overtaken>>
    BY <1>7 DEF FindTarget, CountAdmins
  <2>3. \/ Finish(r)
        \/ /\ target[r] \in known /\ UNCHANGED <<me, op, target, isAdmin>>
           /\ Goto(r, "count") \/ Goto(r, "set")
    <3>1. CASE FindTarget(r)
      BY <3>1 DEF FindTarget
    <3>2. CASE CountAdmins(r)
      BY <3>2 DEF CountAdmins, InFlight
    <3> QED BY <1>7, <3>1, <3>2
  <2>4. CASE Finish(r)
    BY <1>1, <2>1, <2>2, <2>4, FlightMoves
  <2>5. CASE /\ target[r] \in known /\ UNCHANGED <<me, op, target, isAdmin>>
             /\ Goto(r, "count") \/ Goto(r, "set")
    <3>1. InFlight'
      BY <1>1, <2>2, <2>5 DEF InFlight, Goto, Steps, AccountsStay
    <3>2. overtaken' \subseteq Demoting'
      BY <2>2, <2>5 DEF InFlight, Goto, Demoting
    <3> QED BY <2>1, <3>1, <3>2
  <2> QED BY <2>3, <2>4, <2>5
<1>8. ASSUME NEW r \in Requests, SetAdmin(r)
      PROVE  Stored' /\ InFlight' /\ overtaken' \subseteq Demoting'
  <2>1. target[r] \in known
    BY <1>8 DEF SetAdmin, InFlight
  <2>2. Stored'
    BY <1>8, <2>1 DEF SetAdmin, Written, Stored, known
  <2>3. InFlight' /\ overtaken' \subseteq Demoting'
    BY <1>8 DEF SetAdmin, Written, InFlight, Goto, Steps, Demoting, known
  <2> QED BY <2>2, <2>3
<1>9. ASSUME NEW r \in Requests, DropPrincipal(r) \/ DropFails(r) \/ Crash(r)
      PROVE  Stored' /\ InFlight' /\ overtaken' \subseteq Demoting'
  <2>1. pc[r] = "drop" => target[r] \in Users
    BY DEF InFlight, known
  <2>2. Stored'
    BY <1>3, <1>9, <2>1 DEF DropPrincipal, DropFails, Crash, Left, Stored, known
  <2> QED BY <1>1, <1>9, <2>2, FlightMoves DEF DropPrincipal, DropFails, Crash
<1>10. ASSUME Stored', AccountsStay, UNCHANGED <<reqVars, overtaken>>
       PROVE  Stored' /\ InFlight' /\ overtaken' \subseteq Demoting'
  BY <1>10 DEF InFlight, Demoting, AccountsStay, reqVars
<1>11. ASSUME NEW u \in Users, Expire(u) \/ SignIn(u)
       PROVE  Stored' /\ InFlight' /\ overtaken' \subseteq Demoting'
  <2>1. CASE Expire(u)
    <3>1. Stored'
      BY <2>1 DEF Expire, Stored, known
    <3> QED BY <1>1, <1>10, <2>1, <3>1 DEF Expire
  <2>2. CASE SignIn(u)
    BY <1>10, <2>2, UpsertStored DEF SignIn
  <2> QED BY <1>11, <2>1, <2>2
<1>12. ASSUME Seed
       PROVE  Stored' /\ InFlight' /\ overtaken' \subseteq Demoting'
  <2>1. boot \in Users
    BY <1>12 DEF Seed, Stored
  <2>2. Stored' /\ AccountsStay
    BY <1>12, <2>1 DEF Seed, Stored, AccountsStay, known
  <2> QED BY <1>10, <1>12, <2>2 DEF Seed
<1>13. ASSUME UNCHANGED vars
       PROVE  Stored' /\ InFlight' /\ overtaken' \subseteq Demoting'
  <2>1. Stored'
    BY <1>13 DEF Stored, known, vars
  <2> QED BY <1>1, <1>10, <1>13, <2>1 DEF vars
<1> QED BY <1>2, <1>4, <1>5, <1>6, <1>7, <1>8, <1>9, <1>11, <1>12, <1>13 DEF Next

\* They hold in whatever state a deployment starts.
LEMMA AccessInit == Init => AccessInv
BY AccessAssumption DEF Init, AccessInv, TypeOK, Steps, Demoting

\* Types are kept by the guards, promotions and demotions, sign-ins, the seed
\* script, expiries and failures; only an existing user is promoted or demoted,
\* and a demotion counts as overtaken only while it waits for its write.
THEOREM TypeCorrect == Spec => []TypeOK
<1>1. AccessInv => TypeOK
  BY DEF AccessInv
<1> QED BY <1>1, AccessInit, AccessStep, PTL DEF Spec

\* A cached principal of u is explained.
Explained(u) == cache[u] # None /\ cache[u] # (u \in admins) => Dropping(u) \/ u \in torn

\* It stays so in a step of a request that is not dropping u's principal, and
\* that changes neither the principal nor the role.
LEMMA ExplainedKept ==
    ASSUME NEW u \in Users, Explained(u), NEW r \in Requests,
           cache'[u] = cache[u], u \in admins <=> u \in admins', u \in torn => u \in torn',
           \A q \in Requests \ {r} : pc'[q] = pc[q] /\ target'[q] = target[q],
           pc[r] # "drop" \/ target[r] # u
    PROVE  Explained(u)'
<1>1. Dropping(u) => Dropping(u)'
  BY DEF Dropping
<1>2. (u \in admins') = (u \in admins)
  OBVIOUS
<1>3. cache'[u] # None /\ cache'[u] # (u \in admins') => cache[u] # None /\ cache[u] # (u \in admins)
  BY <1>2, Zenon
<1> QED BY <1>1, <1>3 DEF Explained

\* Nor does it matter what a step does to one that is torn or gone after it.
LEMMA ExplainedAnyway ==
    ASSUME NEW u \in Users, u \in torn' \/ cache'[u] = None
    PROVE  Explained(u)'
BY DEF Explained

\* The requests other than r are where they were.
LEMMA OthersStay ==
    ASSUME InFlight, NEW r \in Requests, NEW q \in Requests \ {r},
           \/ Finish(r)
           \/ \E step \in Steps : Goto(r, step) /\ target' = target
    PROVE  pc'[q] = pc[q] /\ target'[q] = target[q]
BY DEF InFlight, Finish, Goto

\* Every step explains the cached principals it leaves.
LEMMA ExplainedStep ==
    ASSUME AccessInv, NEW u \in Users, Explained(u), [Next]_vars
    PROVE  Explained(u)'
<1> USE DEF userVars
<1>0. Stored /\ InFlight
  BY AccessParts
<1>1. ASSUME NEW r \in Requests, NEW c \in Users, NEW o \in {"use", "promote", "demote"},
             NEW t \in Users \cup {None}, Begin(r, c, o, t)
      PROVE  Explained(u)'
  <2>1. \A q \in Requests \ {r} : pc'[q] = pc[q] /\ target'[q] = target[q]
    BY <1>0, <1>1 DEF Begin, Goto, InFlight
  <2>2. pc[r] # "drop" /\ cache' = cache /\ admins' = admins /\ torn' = torn
    BY <1>1 DEF Begin
  <2> QED BY <2>1, <2>2, ExplainedKept
<1>2. ASSUME NEW r \in Requests,
             \/ GetPrincipal(r) \/ MissPrincipal(r) \/ FillFails(r)
             \/ FindTarget(r) \/ CountAdmins(r)
      PROVE  Explained(u)'
  <2>1. Finish(r) \/ \E step \in Steps : Goto(r, step) /\ target' = target
    BY <1>2 DEF GetPrincipal, MissPrincipal, FillFails, FindTarget, CountAdmins, Admit, Steps
  <2>2. pc[r] # "drop" /\ cache' = cache /\ admins' = admins /\ torn' = torn
    BY <1>2 DEF GetPrincipal, MissPrincipal, FillFails, FindTarget, CountAdmins
  <2>3. \A q \in Requests \ {r} : pc'[q] = pc[q] /\ target'[q] = target[q]
    BY <1>0, <2>1, OthersStay
  <2> QED BY <2>2, <2>3, ExplainedKept
<1>3. ASSUME NEW v \in Users, Upserted(v), cache' = cache
      PROVE  /\ u \in torn => u \in torn'
             /\ (u \in admins <=> u \in admins') \/ u \in torn' \/ cache'[u] = None
  <2>1. CASE u = v
    BY <1>3, <2>1 DEF Upserted
  <2>2. CASE u # v
    BY <1>3, <2>2 DEF Upserted
  <2> QED BY <2>1, <2>2
<1>4. ASSUME NEW r \in Requests, Upsert(r)
      PROVE  Explained(u)'
  <2>1. pc[r] = "upsert" /\ cache' = cache /\ me[r] \in Users
    BY <1>0, <1>4 DEF Upsert, InFlight
  <2>2. Finish(r) \/ \E step \in Steps : Goto(r, step) /\ target' = target
    BY <1>4 DEF Upsert, Steps
  <2>3. \A q \in Requests \ {r} : pc'[q] = pc[q] /\ target'[q] = target[q]
    BY <1>0, <2>2, OthersStay
  <2>4. \/ Upserted(me[r])
        \/ admins' = admins /\ torn' = torn
    BY <1>4 DEF Upsert
  <2>5. /\ u \in torn => u \in torn'
        /\ (u \in admins <=> u \in admins') \/ u \in torn' \/ cache'[u] = None
    BY <1>3, <2>1, <2>4
  <2> QED BY <2>1, <2>3, <2>5, ExplainedKept, ExplainedAnyway
<1>5. ASSUME NEW r \in Requests, Fill(r)
      PROVE  Explained(u)'
  <2>1. pc[r] = "fill" /\ admins' = admins /\ me[r] \in Users /\ cache \in [Users -> BOOLEAN \cup {None}]
    BY <1>0, <1>5 DEF Fill, InFlight, Stored
  <2>2. Finish(r) \/ \E step \in Steps : Goto(r, step) /\ target' = target
    <3>1. Admit(r, isAdmin[r])
      BY <1>5 DEF Fill
    <3>2. Finish(r) \/ (Goto(r, "find") /\ target' = target)
      BY <3>1, Zenon DEF Admit
    <3> QED BY <3>2 DEF Steps
  <2>3. \A q \in Requests \ {r} : pc'[q] = pc[q] /\ target'[q] = target[q]
    BY <1>0, <2>2, OthersStay
  <2>4. cache' = [cache EXCEPT ![me[r]] = isAdmin[r]]
    BY <1>5 DEF Fill
  <2>5. CASE u # me[r]
    <3>1. cache'[u] = cache[u]
      BY <2>1, <2>4, <2>5
    <3>2. u \in torn => u \in torn'
      BY <1>5, <2>5 DEF Fill
    <3> QED BY <2>1, <2>3, <3>1, <3>2, ExplainedKept
  <2>6. CASE u = me[r]
    <3>1. cache'[u] = isAdmin[r]
      BY <2>1, <2>4, <2>6, Zenon
    <3>2. \/ isAdmin[r] = (u \in admins)
          \/ Dropping(u)
          \/ u \in torn'
      BY <1>5, <2>6 DEF Fill
    <3>3. Dropping(u) => Dropping(u)'
      BY <2>1, <2>3 DEF Dropping
    <3> QED BY <2>1, <3>1, <3>2, <3>3, Zenon DEF Explained
  <2> QED BY <2>5, <2>6
<1>6. ASSUME NEW r \in Requests, SetAdmin(r)
      PROVE  Explained(u)'
  <2>1. pc[r] = "set" /\ cache' = cache /\ torn' = torn /\ Goto(r, "drop") /\ target' = target
    BY <1>6 DEF SetAdmin
  <2>2. \A q \in Requests \ {r} : pc'[q] = pc[q] /\ target'[q] = target[q]
    BY <1>0, <2>1, OthersStay DEF Steps
  <2>3. CASE u = target[r]
    <3>1. Dropping(u)'
      BY <1>0, <2>1, <2>3 DEF Dropping, Goto, InFlight
    <3> QED BY <3>1 DEF Explained
  <2>4. CASE u # target[r]
    <3>1. u \in admins <=> u \in admins'
      BY <1>6, <2>4 DEF SetAdmin, Written
    <3> QED BY <2>1, <2>2, <3>1, ExplainedKept
  <2> QED BY <2>3, <2>4
<1>7. ASSUME NEW r \in Requests, DropPrincipal(r) \/ DropFails(r) \/ Crash(r)
      PROVE  Explained(u)'
  <2>1. Finish(r) /\ admins' = admins
    BY <1>7 DEF DropPrincipal, DropFails, Crash
  <2>2. \A q \in Requests \ {r} : pc'[q] = pc[q] /\ target'[q] = target[q]
    BY <1>0, <2>1, OthersStay
  <2>3. CASE pc[r] = "drop" /\ target[r] = u
    <3>1. u \in torn' \/ cache'[u] = None
      BY <1>0, <1>7, <2>3 DEF DropPrincipal, DropFails, Crash, Left, Stored
    <3> QED BY <3>1, ExplainedAnyway
  <2>4. CASE ~(pc[r] = "drop" /\ target[r] = u)
    <3>1. cache'[u] = cache[u] /\ (u \in torn => u \in torn')
      BY <1>0, <1>7, <2>4 DEF DropPrincipal, DropFails, Crash, Left, Stored
    <3> QED BY <2>1, <2>2, <2>4, <3>1, ExplainedKept
  <2> QED BY <2>3, <2>4
<1>8. ASSUME UNCHANGED <<pc, target>>, cache'[u] = cache[u],
             u \in admins <=> u \in admins', u \in torn => u \in torn'
      PROVE  Explained(u)'
  <2>1. Dropping(u)' <=> Dropping(u)
    BY <1>8 DEF Dropping
  <2>2. (u \in admins') = (u \in admins)
    BY <1>8
  <2>3. cache'[u] # None /\ cache'[u] # (u \in admins') => cache[u] # None /\ cache[u] # (u \in admins)
    BY <1>8, <2>2, Zenon
  <2> QED BY <1>8, <2>1, <2>3 DEF Explained
<1>9. ASSUME NEW v \in Users, Expire(v)
      PROVE  Explained(u)'
  <2>1. UNCHANGED <<pc, target, admins>>
    BY <1>9 DEF Expire, reqVars
  <2>2. CASE u = v
    BY <1>0, <1>9, <2>2, ExplainedAnyway DEF Expire, Stored
  <2>3. CASE u # v
    BY <1>0, <1>8, <1>9, <2>1, <2>3 DEF Expire, Stored
  <2> QED BY <2>2, <2>3
<1>10. ASSUME NEW v \in Users, SignIn(v)
       PROVE  Explained(u)'
  BY <1>3, <1>8, <1>10, ExplainedAnyway DEF SignIn, reqVars
<1>11. CASE Seed
  <2>1. UNCHANGED <<pc, target, cache>> /\ (u \in torn => u \in torn')
    BY <1>11 DEF Seed, reqVars
  <2>2. (u \in admins <=> u \in admins') \/ u \in torn' \/ cache'[u] = None
    BY <1>11 DEF Seed
  <2> QED BY <1>8, <2>1, <2>2, ExplainedAnyway
<1>12. CASE UNCHANGED vars
  <2>1. UNCHANGED <<pc, target, cache, admins, torn>>
    BY <1>12 DEF vars, reqVars
  <2> QED BY <1>8, <2>1
<1> QED BY <1>1, <1>2, <1>4, <1>5, <1>6, <1>7, <1>9, <1>10, <1>11, <1>12 DEF Next

\* A cached principal that disagrees with the user's row is being dropped, or
\* was stored late, or its drop failed, or the bootstrap admin got the role
\* besides; for any number of users, requests and faults.
THEOREM PrincipalIsExplained == Spec => []PrincipalExplained
<1>1. Init => PrincipalExplained
  BY DEF Init, PrincipalExplained
<1>2. AccessInv /\ PrincipalExplained /\ [Next]_vars => PrincipalExplained'
  BY ExplainedStep DEF PrincipalExplained, Explained, Dropping
<1> QED BY <1>1, <1>2, AccessInit, AccessStep, PTL DEF Spec

-----------------------------------------------------------------------------
(* What a request passes: the rate limit, the device token, the key.       *)

\* What a request may be about.
Asked ==
    [op : {"none", "exchange", "use", "refresh", "create"},
     step : {"idle", "expire", "issue", "find", "found", "create", "store"},
     arg : Tokens \cup Bodies \cup {Nil} \cup (1 .. MaxWindow),
     dead : {"no", "revoked", "expired"}]

\* The types.
GateTypes ==
    /\ req \in [Callers -> Asked]
    /\ window \in 1 .. MaxWindow
    /\ used \in [1 .. MaxWindow -> Nat] /\ admitted \in [1 .. MaxWindow -> Nat]
    /\ life \in [Tokens -> {"none", "live", "expired"}]
    /\ made \in Nat

\* The first request of a window, on its way to set the time its key lives.
Sets(r, w) == AtStep(r, "exchange", "expire") /\ req[r].arg = w

\* The counter of the window under way is never reset: who was let through was
\* counted, and the request that sets the key's time to live has its place kept.
WindowKept(w) ==
    /\ \A r, q \in Callers : Sets(r, w) /\ Sets(q, w) => r = q
    /\ admitted[w] <= Limit
    /\ \A r \in Callers : Sets(r, w) => w <= window /\ admitted[w] + 1 <= Limit
    /\ w = window =>
           /\ admitted[w] <= used[w]
           /\ \A r \in Callers : Sets(r, w) => admitted[w] + 1 <= used[w]
    /\ w > window => used[w] = 0 /\ admitted[w] = 0

\* The types and every window.
RateInv == GateTypes /\ \A w \in 1 .. MaxWindow : WindowKept(w)

\* The rate limit holds at first.
LEMMA RateInit == GateInit => RateInv
BY GateAssumption DEF GateInit, RateInv, GateTypes, WindowKept, Sets, AtStep, Idle, Asked

\* A step that lets nobody through, and in which no request comes to set a time
\* to live, keeps the windows.
LEMMA RateKept ==
    ASSUME RateInv, GateTypes', UNCHANGED <<window, admitted>>,
           \A w \in 1 .. MaxWindow : used'[w] = used[w] \/ (w < window /\ used'[w] = 0),
           \A r \in Callers, w \in 1 .. MaxWindow : Sets(r, w)' => Sets(r, w)
    PROVE  RateInv'
BY DEF RateInv, GateTypes, WindowKept

\* What counting a request makes of it.
LEMMA CountMoves ==
    ASSUME GateTypes, NEW r \in Callers, Count(r)
    PROVE  /\ req[r] = Idle
           /\ \/ used'[window] = 1 /\ admitted' = admitted
                 /\ req' = [req EXCEPT ![r] =
                        [op |-> "exchange", step |-> "expire", arg |-> window, dead |-> "no"]]
              \/ used'[window] # 1 /\ used'[window] > Limit /\ admitted' = admitted /\ req' = req
              \/ used'[window] # 1 /\ ~(used'[window] > Limit)
                 /\ admitted' = [admitted EXCEPT ![window] = admitted[window] + 1]
                 /\ req' = [req EXCEPT ![r] =
                        [op |-> "exchange", step |-> "issue", arg |-> Nil, dead |-> "no"]]
<1>1. CASE used'[window] = 1
  BY <1>1 DEF Count, Idle
<1>2. CASE used'[window] # 1 /\ used'[window] > Limit
  BY <1>2 DEF Count
<1>3. CASE used'[window] # 1 /\ ~(used'[window] > Limit)
  BY <1>3 DEF Count, Idle, Passed
<1> QED BY <1>1, <1>2, <1>3 DEF Count

\* A request that goes on to another step.
LEMMA AskedStep ==
    ASSUME NEW x \in Asked, NEW step \in {"issue", "found", "store"}, NEW arg \in {x.arg, Nil}
    PROVE  [x EXCEPT !.step = step, !.arg = arg] \in Asked /\ [x EXCEPT !.step = step] \in Asked
BY DEF Asked

\* The types are kept by every step.
LEMMA GateTyped ==
    ASSUME GateTypes, [GateNext]_gateVars
    PROVE  GateTypes'
<1> USE GateAssumption DEF GateTypes, rateVars, tokenVars, idemVars
<1>1. Idle \in Asked
  BY DEF Idle, Asked
<1>2. ASSUME NEW r \in Callers, Leave(r) PROVE req' \in [Callers -> Asked]
  BY <1>1, <1>2 DEF Leave
<1>3. ASSUME NEW r \in Callers, NEW step \in {"found", "store"}, Proceed(r, step)
      PROVE  req' \in [Callers -> Asked]
  <2>1. req[r] \in Asked /\ req' = [req EXCEPT ![r] = [req[r] EXCEPT !.step = step]]
    BY <1>3 DEF Proceed
  <2>2. [req[r] EXCEPT !.step = step] \in Asked
    BY <1>3, <2>1, AskedStep
  <2> QED BY <2>1, <2>2
<1>4. ASSUME NEW r \in Callers, Count(r) PROVE GateTypes'
  <2> DEFINE first == [op |-> "exchange", step |-> "expire", arg |-> window, dead |-> "no"]
             next == [op |-> "exchange", step |-> "issue", arg |-> Nil, dead |-> "no"]
  <2>1. first \in Asked /\ next \in Asked
    BY DEF Asked
  <2>2. \/ req' = [req EXCEPT ![r] = first]
        \/ req' = req
        \/ req' = [req EXCEPT ![r] = next]
    BY <1>4, CountMoves
  <2>3. req' \in [Callers -> Asked]
    BY <2>1, <2>2
  <2>4. used' = [used EXCEPT ![window] = used[window] + 1]
    BY <1>4 DEF Count
  <2>5. used' \in [1 .. MaxWindow -> Nat]
    BY <2>4
  <2>6. admitted' = admitted \/ admitted' = [admitted EXCEPT ![window] = admitted[window] + 1]
    BY <1>4, CountMoves
  <2>7. admitted' \in [1 .. MaxWindow -> Nat]
    <3>1. CASE admitted' = admitted
      BY <3>1
    <3>2. CASE admitted' = [admitted EXCEPT ![window] = admitted[window] + 1]
      BY <3>2
    <3> QED BY <2>6, <3>1, <3>2
  <2> QED BY <1>4, <2>3, <2>5, <2>7 DEF Count
<1>5. ASSUME NEW r \in Callers, SetTtl(r) PROVE GateTypes'
  <2>1. req' = [req EXCEPT ![r] = [req[r] EXCEPT !.step = "issue", !.arg = Nil]]
    BY <1>5 DEF SetTtl
  <2>2. [req[r] EXCEPT !.step = "issue", !.arg = Nil] \in Asked
    <3>1. req[r] \in Asked
      OBVIOUS
    <3> QED BY <3>1, AskedStep
  <2>3. req' \in [Callers -> Asked]
    BY <2>1, <2>2
  <2>4. admitted' = [admitted EXCEPT ![req[r].arg] = admitted[req[r].arg] + 1]
    BY <1>5 DEF SetTtl, Passed
  <2>5. \A w \in 1 .. MaxWindow : w = req[r].arg => admitted[w] + 1 \in Nat
    OBVIOUS
  <2>6. admitted' \in [1 .. MaxWindow -> Nat]
    BY <2>4, <2>5, Zenon
  <2> QED BY <1>5, <2>3, <2>6 DEF SetTtl
<1>6. ASSUME NEW r \in Callers, Issue(r) PROVE GateTypes'
  BY <1>2, <1>6 DEF Issue
<1>7. ASSUME NEW r \in Callers, NEW o \in {"use", "refresh"}, NEW t \in Tokens, Present(r, o, t)
      PROVE  GateTypes'
  <2>1. req' \in [Callers -> Asked]
    BY <1>7 DEF Present, Asked
  <2> QED BY <1>7, <2>1 DEF Present
<1>8. ASSUME NEW r \in Callers, FindToken(r) PROVE GateTypes'
  BY <1>2, <1>3, <1>8 DEF FindToken
<1>9. ASSUME NEW r \in Callers, AdmitToken(r) \/ ExtendToken(r) PROVE GateTypes'
  BY <1>2, <1>9 DEF AdmitToken, ExtendToken
<1>10. ASSUME NEW r \in Callers, NEW b \in Bodies, Lookup(r, b) PROVE GateTypes'
  <2>1. \/ req' = req
        \/ req' = [req EXCEPT ![r] = [op |-> "create", step |-> "create", arg |-> b, dead |-> "no"]]
    BY <1>10 DEF Lookup, Idle
  <2>2. [op |-> "create", step |-> "create", arg |-> b, dead |-> "no"] \in Asked
    BY DEF Asked
  <2>3. req' \in [Callers -> Asked]
    BY <2>1, <2>2
  <2> QED BY <1>10, <2>3 DEF Lookup
<1>11. ASSUME NEW r \in Callers, Create(r) \/ Store(r) \/ CallerFails(r) PROVE GateTypes'
  BY <1>2, <1>3, <1>11 DEF Create, Store, CallerFails
<1>12. ASSUME NEW w \in 1 .. MaxWindow, WindowKeyExpires(w) PROVE GateTypes'
  BY <1>12 DEF WindowKeyExpires
<1>13. ASSUME NEW t \in Tokens, RevokeDevice(t) \/ TokenExpires(t) PROVE GateTypes'
  BY <1>13 DEF RevokeDevice, TokenExpires
<1>14. CASE NextWindow \/ RecordExpires \/ UNCHANGED gateVars
  BY <1>14 DEF NextWindow, RecordExpires, gateVars
<1> QED BY <1>4, <1>5, <1>6, <1>7, <1>8, <1>9, <1>10, <1>11, <1>12, <1>13, <1>14 DEF GateNext

\* A request let through the window under way was within the limit.
LEMMA RateCounted ==
    ASSUME RateInv, NEW r \in Callers, Count(r)
    PROVE  RateInv'
<1>1. GateTypes' /\ window' = window
  BY GateTyped DEF RateInv, Count, GateNext
<1>2. /\ window \in 1 .. MaxWindow /\ used[window] \in Nat /\ req[r] = Idle
      /\ used' = [used EXCEPT ![window] = used[window] + 1]
  BY DEF RateInv, GateTypes, Count
<1>3. used'[window] = used[window] + 1
  BY <1>2 DEF RateInv, GateTypes
<1>4. ASSUME NEW w \in 1 .. MaxWindow, w # window PROVE WindowKept(w)'
  <2>1. used'[w] = used[w] /\ admitted'[w] = admitted[w]
    BY <1>2, <1>4 DEF Count, Passed, RateInv, GateTypes
  <2>2. \A q \in Callers : Sets(q, w)' => Sets(q, w)
    BY <1>2, <1>4, CountMoves DEF Sets, AtStep, RateInv, GateTypes
  <2> QED BY <1>1, <1>4, <2>1, <2>2 DEF WindowKept, RateInv
<1>5. WindowKept(window)'
  <2>1. WindowKept(window) /\ admitted[window] \in Nat
    BY <1>2 DEF RateInv, GateTypes
  <2>2. CASE used'[window] = 1
    <3>1. admitted' = admitted /\ admitted[window] = 0 /\ used[window] = 0
      BY <1>2, <1>3, <2>1, <2>2 DEF WindowKept, Count
    <3>2. \A q \in Callers : ~Sets(q, window)
      BY <2>1, <3>1 DEF WindowKept
    <3>3. \A q \in Callers : Sets(q, window)' => q = r
      BY <1>1, <1>2, <2>2, <3>2 DEF Count, Sets, AtStep, RateInv, GateTypes
    <3> QED BY <1>1, <1>2, <1>3, <3>1, <3>3, GateAssumption DEF WindowKept
  <2>3. CASE used'[window] # 1 /\ used'[window] > Limit
    <3>1. admitted' = admitted /\ req' = req
      BY <2>3 DEF Count
    <3> QED BY <1>1, <1>2, <1>3, <2>1, <3>1 DEF WindowKept, Sets, AtStep
  <2>4. CASE used'[window] # 1 /\ ~(used'[window] > Limit)
    <3>1. admitted'[window] = admitted[window] + 1
      BY <1>2, <2>4 DEF Count, Passed, RateInv, GateTypes
    <3>2. \A q \in Callers : Sets(q, window)' => Sets(q, window)
      BY <1>1, <1>2, <2>4, CountMoves DEF Sets, AtStep, RateInv, GateTypes
    <3> QED BY <1>1, <1>2, <1>3, <2>1, <2>4, <3>1, <3>2, GateAssumption DEF WindowKept
  <2> QED BY <2>2, <2>3, <2>4
<1> QED BY <1>1, <1>4, <1>5 DEF RateInv

\* The request that sets the key's time to live takes the place kept for it.
LEMMA RateSet ==
    ASSUME RateInv, NEW r \in Callers, SetTtl(r)
    PROVE  RateInv'
<1>1. GateTypes' /\ window' = window /\ used' = used
  BY GateTyped DEF RateInv, SetTtl, GateNext
<1>2. AtStep(r, "exchange", "expire") /\ admitted' = [admitted EXCEPT ![req[r].arg] = @ + 1]
  BY DEF SetTtl, Passed
<1>3. \A q \in Callers, w \in 1 .. MaxWindow : Sets(q, w)' => Sets(q, w) /\ q # r
  BY DEF SetTtl, Sets, AtStep, RateInv, GateTypes, Asked
<1>4. ASSUME NEW w \in 1 .. MaxWindow PROVE WindowKept(w)'
  <2>1. CASE req[r].arg = w
    <3>1. Sets(r, w)
      BY <1>2, <2>1 DEF Sets
    <3>2. admitted'[w] = admitted[w] + 1
      BY <1>2, <2>1 DEF RateInv, GateTypes
    <3>3. WindowKept(w) /\ admitted[w] \in Nat /\ used[w] \in Nat /\ window \in Nat
      BY DEF RateInv, GateTypes
    <3>4. \A q \in Callers : ~Sets(q, w)'
      BY <1>3, <3>1, <3>3 DEF WindowKept
    <3> QED BY <1>1, <3>1, <3>2, <3>3, <3>4, GateAssumption DEF WindowKept
  <2>2. CASE req[r].arg # w
    <3>1. admitted'[w] = admitted[w]
      BY <1>2, <2>2 DEF RateInv, GateTypes
    <3> QED BY <1>1, <1>3, <3>1 DEF WindowKept, RateInv
  <2> QED BY <2>1, <2>2
<1> QED BY <1>1, <1>4 DEF RateInv

\* Every step keeps the rate limit.
LEMMA RateStep == RateInv /\ [GateNext]_gateVars => RateInv'
<1> SUFFICES ASSUME RateInv, [GateNext]_gateVars PROVE RateInv'
  OBVIOUS
<1>1. GateTypes'
  BY GateTyped DEF RateInv
<1> USE DEF rateVars
<1>2. ASSUME NEW r \in Callers,
             \/ Issue(r) \/ FindToken(r) \/ AdmitToken(r) \/ ExtendToken(r)
             \/ Create(r) \/ Store(r) \/ CallerFails(r)
      PROVE  RateInv'
  <2>1. UNCHANGED <<window, used, admitted>>
    BY <1>2 DEF Issue, FindToken, AdmitToken, ExtendToken, Create, Store, CallerFails
  <2>2. Leave(r) \/ \E step \in {"found", "store"} : Proceed(r, step)
    BY <1>2 DEF Issue, FindToken, AdmitToken, ExtendToken, Create, Store, CallerFails
  <2>3. \A q \in Callers, w \in 1 .. MaxWindow : Sets(q, w)' => Sets(q, w)
    BY <2>2 DEF Leave, Proceed, Sets, AtStep, Idle, RateInv, GateTypes, Asked
  <2> QED BY <1>1, <2>1, <2>3, RateKept
<1>3. ASSUME NEW r \in Callers, NEW o \in {"use", "refresh"}, NEW t \in Tokens, Present(r, o, t)
      PROVE  RateInv'
  <2>1. \A q \in Callers, w \in 1 .. MaxWindow : Sets(q, w)' => Sets(q, w)
    BY <1>3 DEF Present, Sets, AtStep, RateInv, GateTypes
  <2> QED BY <1>1, <1>3, <2>1, RateKept DEF Present
<1>4. ASSUME NEW r \in Callers, NEW b \in Bodies, Lookup(r, b)
      PROVE  RateInv'
  <2>1. \/ req' = req
        \/ req' = [req EXCEPT ![r] = [op |-> "create", step |-> "create", arg |-> b, dead |-> "no"]]
    BY <1>4 DEF Lookup, Idle
  <2>2. \A q \in Callers, w \in 1 .. MaxWindow : Sets(q, w)' => Sets(q, w)
    BY <2>1 DEF Sets, AtStep, RateInv, GateTypes
  <2> QED BY <1>1, <1>4, <2>2, RateKept DEF Lookup
<1>5. ASSUME NEW w \in 1 .. MaxWindow, WindowKeyExpires(w)
      PROVE  RateInv'
  <2>1. \A q \in Callers, v \in 1 .. MaxWindow : Sets(q, v)' => Sets(q, v)
    BY <1>5 DEF WindowKeyExpires, Sets, AtStep
  <2>2. \A v \in 1 .. MaxWindow : used'[v] = used[v] \/ (v < window /\ used'[v] = 0)
    BY <1>5 DEF WindowKeyExpires, RateInv, GateTypes
  <2> QED BY <1>1, <1>5, <2>1, <2>2, RateKept DEF WindowKeyExpires
<1>6. ASSUME NEW t \in Tokens, RevokeDevice(t) \/ TokenExpires(t)
      PROVE  RateInv'
  <2>1. UNCHANGED <<req, window, used, admitted>>
    BY <1>6 DEF RevokeDevice, TokenExpires
  <2>2. \A q \in Callers, w \in 1 .. MaxWindow : Sets(q, w)' => Sets(q, w)
    BY <2>1 DEF Sets, AtStep
  <2> QED BY <1>1, <2>1, <2>2, RateKept
<1>7. CASE RecordExpires \/ UNCHANGED gateVars
  <2>1. UNCHANGED <<req, window, used, admitted>>
    BY <1>7 DEF RecordExpires, gateVars
  <2>2. \A q \in Callers, w \in 1 .. MaxWindow : Sets(q, w)' => Sets(q, w)
    BY <2>1 DEF Sets, AtStep
  <2> QED BY <1>1, <2>1, <2>2, RateKept
<1>8. CASE NextWindow
  <2>1. window' = window + 1 /\ UNCHANGED <<req, used, admitted>>
    BY <1>8 DEF NextWindow
  <2>2. ASSUME NEW w \in 1 .. MaxWindow PROVE WindowKept(w)'
    <3>1. WindowKept(w) /\ window \in Nat /\ admitted[w] \in Nat /\ used[w] \in Nat
      BY DEF RateInv, GateTypes
    <3>2. \A q \in Callers : Sets(q, w)' <=> Sets(q, w)
      BY <2>1 DEF Sets, AtStep
    <3> QED BY <2>1, <3>1, <3>2 DEF WindowKept
  <2> QED BY <1>1, <2>2 DEF RateInv
<1> QED BY <1>2, <1>3, <1>4, <1>5, <1>6, <1>7, <1>8, RateCounted, RateSet DEF GateNext

\* A request presents a token of the table; what it was then it stays, unless a
\* refresh that had found it alive extends it.
TokenKept(r) ==
    /\ req[r].step = "find" =>
           /\ req[r].arg \in Tokens /\ life[req[r].arg] # "none"
           /\ req[r].dead = "revoked" => req[r].arg \in revoked
           /\ req[r].dead = "expired" => life[req[r].arg] # "live" \/ req[r].arg \in revived
    /\ req[r].step = "found" =>
           /\ req[r].arg \in Tokens /\ life[req[r].arg] # "none"
           /\ req[r].dead # "revoked"
           /\ req[r].dead = "expired" => req[r].arg \in revived

\* The types and every request.
TokenInv == GateTypes /\ \A r \in Callers : TokenKept(r)

\* No token is presented at first.
LEMMA TokenInit == GateInit => TokenInv
BY GateAssumption DEF GateInit, TokenInv, GateTypes, TokenKept, Idle, Asked

\* A token that was issued stays so, a revoked one stays revoked, and what makes
\* an expired one live again is remembered.
TokensAge ==
    /\ revoked \subseteq revoked' /\ revived \subseteq revived'
    /\ \A t \in Tokens : life[t] # "none" =>
           life'[t] # "none" /\ (life'[t] = "live" => life[t] = "live" \/ t \in revived')

\* So nothing changes for the requests that stay where they are.
LEMMA TokensChange ==
    ASSUME TokenInv, GateTypes', TokensAge, req' = req
    PROVE  TokenInv'
BY DEF TokenInv, TokenKept, TokensAge

\* Every step keeps what is said of the tokens.
LEMMA TokenStep == TokenInv /\ [GateNext]_gateVars => TokenInv'
<1> SUFFICES ASSUME TokenInv, [GateNext]_gateVars PROVE TokenInv'
  OBVIOUS
<1>1. GateTypes'
  BY GateTyped DEF TokenInv
<1> USE DEF tokenVars
<1>0. UNCHANGED tokenVars => TokensAge
  BY DEF TokensAge
<1>2. ASSUME NEW r \in Callers, TokensAge, \A q \in Callers \ {r} : req'[q] = req[q], TokenKept(r)'
      PROVE  TokenInv'
  BY <1>1, <1>2 DEF TokenInv, TokenKept, TokensAge
<1>3. ASSUME NEW r \in Callers, Leave(r)
      PROVE  TokenKept(r)' /\ \A q \in Callers \ {r} : req'[q] = req[q]
  BY <1>3 DEF Leave, Idle, TokenKept, TokenInv, GateTypes
<1>4. ASSUME NEW r \in Callers, NEW a, req' = [req EXCEPT ![r] = a]
      PROVE  req'[r] = a /\ \A q \in Callers \ {r} : req'[q] = req[q]
  BY <1>4 DEF TokenInv, GateTypes
<1>5. ASSUME NEW r \in Callers, Count(r)
      PROVE  TokenInv'
  <2>1. TokensAge
    BY <1>0, <1>5 DEF Count
  <2>2. CASE req' = req
    BY <1>1, <2>1, <2>2, TokensChange
  <2>3. ASSUME NEW a, req' = [req EXCEPT ![r] = a], a.step \in {"expire", "issue"}
        PROVE  TokenInv'
    BY <1>2, <1>4, <2>1, <2>3 DEF TokenKept
  <2> QED BY <1>5, <2>2, <2>3, CountMoves DEF TokenInv
<1>6. ASSUME NEW r \in Callers, SetTtl(r)
      PROVE  TokenInv'
  <2>1. TokensAge
    BY <1>0, <1>6 DEF SetTtl
  <2>2. req'[r].step = "issue" /\ \A q \in Callers \ {r} : req'[q] = req[q]
    BY <1>6 DEF SetTtl, TokenInv, GateTypes, Asked
  <2> QED BY <1>2, <2>1, <2>2 DEF TokenKept
<1>7. ASSUME NEW r \in Callers, Issue(r)
      PROVE  TokenInv'
  <2>1. PICK t \in Tokens : life[t] = "none" /\ life' = [life EXCEPT ![t] = "live"]
    BY <1>7 DEF Issue
  <2>2. TokensAge
    BY <1>7, <2>1 DEF Issue, TokensAge, TokenInv, GateTypes
  <2> QED BY <1>2, <1>3, <1>7, <2>2 DEF Issue
<1>8. ASSUME NEW r \in Callers, NEW o \in {"use", "refresh"}, NEW t \in Tokens, Present(r, o, t)
      PROVE  TokenInv'
  <2>1. PICK a : /\ a = [op |-> o, step |-> "find", arg |-> t, dead |->
                      IF t \in revoked THEN "revoked" ELSE IF life[t] = "expired" THEN "expired" ELSE "no"]
                 /\ req' = [req EXCEPT ![r] = a]
    BY <1>8 DEF Present
  <2>2. req'[r] = a /\ \A q \in Callers \ {r} : req'[q] = req[q]
    BY <2>1 DEF TokenInv, GateTypes
  <2>3. UNCHANGED tokenVars /\ life[t] # "none"
    BY <1>8 DEF Present
  <2>4. TokenKept(r)'
    BY <2>1, <2>2, <2>3 DEF TokenKept
  <2> QED BY <1>0, <1>2, <2>2, <2>3, <2>4
<1>9. ASSUME NEW r \in Callers, FindToken(r)
      PROVE  TokenInv'
  <2>1. UNCHANGED tokenVars /\ req[r].step = "find" /\ TokenKept(r)
    BY <1>9 DEF FindToken, TokenInv
  <2>2. CASE Active(req[r].arg) /\ Proceed(r, "found")
    <3>1. /\ req'[r].step = "found" /\ req'[r].arg = req[r].arg /\ req'[r].dead = req[r].dead
          /\ \A q \in Callers \ {r} : req'[q] = req[q]
      BY <2>2 DEF Proceed, TokenInv, GateTypes, Asked
    <3>2. TokenKept(r)'
      BY <2>1, <2>2, <3>1 DEF TokenKept, Active
    <3> QED BY <1>0, <1>2, <2>1, <3>1, <3>2
  <2>3. CASE Leave(r)
    BY <1>0, <1>2, <1>3, <2>1, <2>3
  <2> QED BY <1>9, <2>2, <2>3 DEF FindToken
<1>10. ASSUME NEW r \in Callers, AdmitToken(r) \/ CallerFails(r)
       PROVE  TokenInv'
  BY <1>0, <1>2, <1>3, <1>10 DEF AdmitToken, CallerFails
<1>11. ASSUME NEW r \in Callers, ExtendToken(r)
       PROVE  TokenInv'
  <2>1. req[r].arg \in Tokens /\ life[req[r].arg] # "none"
    BY <1>11 DEF ExtendToken, AtStep, TokenInv, TokenKept
  <2>2. revoked' = revoked /\ revived \subseteq revived' /\ Leave(r)
    BY <1>11 DEF ExtendToken
  <2>3. ASSUME NEW t \in Tokens, life[t] # "none"
        PROVE  life'[t] # "none" /\ (life'[t] = "live" => life[t] = "live" \/ t \in revived')
    <3>1. CASE t = req[r].arg
      BY <1>11, <2>3, <3>1 DEF ExtendToken, TokenInv, GateTypes
    <3>2. CASE t # req[r].arg
      BY <1>11, <2>3, <3>2 DEF ExtendToken, TokenInv, GateTypes
    <3> QED BY <3>1, <3>2
  <2>4. TokensAge
    BY <2>2, <2>3 DEF TokensAge
  <2> QED BY <1>2, <1>3, <2>2, <2>4
<1>12. ASSUME NEW r \in Callers, NEW b \in Bodies, Lookup(r, b)
       PROVE  TokenInv'
  <2>1. TokensAge
    BY <1>0, <1>12 DEF Lookup
  <2>2. \/ req' = req
        \/ req' = [req EXCEPT ![r] = [op |-> "create", step |-> "create", arg |-> b, dead |-> "no"]]
    BY <1>12 DEF Lookup, Idle
  <2>3. CASE req' = req
    BY <1>1, <2>1, <2>3, TokensChange
  <2>4. CASE req' = [req EXCEPT ![r] = [op |-> "create", step |-> "create", arg |-> b, dead |-> "no"]]
    <3>1. req'[r].step = "create" /\ \A q \in Callers \ {r} : req'[q] = req[q]
      BY <2>4 DEF TokenInv, GateTypes
    <3> QED BY <1>2, <2>1, <3>1 DEF TokenKept
  <2> QED BY <2>2, <2>3, <2>4
<1>13. ASSUME NEW r \in Callers, Create(r) \/ Store(r)
       PROVE  TokenInv'
  <2>1. TokensAge
    BY <1>0, <1>13 DEF Create, Store
  <2>2. CASE Leave(r)
    BY <1>2, <1>3, <2>1, <2>2
  <2>3. CASE Proceed(r, "store")
    <3>1. req'[r].step = "store" /\ \A q \in Callers \ {r} : req'[q] = req[q]
      BY <2>3 DEF Proceed, TokenInv, GateTypes, Asked
    <3> QED BY <1>2, <2>1, <3>1 DEF TokenKept
  <2> QED BY <1>13, <2>2, <2>3 DEF Create, Store
<1>14. ASSUME NEW w \in 1 .. MaxWindow, WindowKeyExpires(w)
       PROVE  TokenInv'
  BY <1>0, <1>1, <1>14, TokensChange DEF WindowKeyExpires
<1>15. ASSUME NEW t \in Tokens, RevokeDevice(t)
       PROVE  TokenInv'
  <2>1. TokensAge
    BY <1>15 DEF RevokeDevice, TokensAge
  <2> QED BY <1>1, <1>15, <2>1, TokensChange DEF RevokeDevice
<1>16. ASSUME NEW t \in Tokens, TokenExpires(t)
       PROVE  TokenInv'
  <2>1. TokensAge
    BY <1>16 DEF TokenExpires, TokensAge, TokenInv, GateTypes
  <2> QED BY <1>1, <1>16, <2>1, TokensChange DEF TokenExpires
<1>17. CASE NextWindow \/ RecordExpires \/ UNCHANGED gateVars
  BY <1>0, <1>1, <1>17, TokensChange DEF NextWindow, RecordExpires, gateVars
<1> QED BY <1>5, <1>6, <1>7, <1>8, <1>9, <1>10, <1>11, <1>12, <1>13, <1>14, <1>15, <1>16, <1>17
        DEF GateNext

\* Who may not enter stays out: no window lets more through than the limit, for
\* any number of requests in flight and whoever dies between INCR and EXPIRE; a
\* token revoked before a request came lets it in no more, nor does one that had
\* expired, unless a refresh extended it.
THEOREM GateHolds == GateSpec => []EntryHolds
<1>1. RateInv /\ TokenInv => EntryHolds
  BY DEF RateInv, WindowKept, TokenInv, TokenKept, EntryHolds
<1> QED BY <1>1, RateInit, RateStep, TokenInit, TokenStep, PTL DEF GateSpec

\* A request that will create.
Creating(r) == req[r].op = "create"

\* The key's asset is made once: by the request under way, which has made it
\* when it is to store it, or by the one that left the record.
KeyInv ==
    /\ GateTypes
    /\ record = Nil \/ record.hash = record.response
    /\ \A a \in replies : a[1] = a[2]
    /\ \A r \in Callers : Creating(r) => req[r].arg \in Bodies /\ req[r].step \in {"create", "store"}
    /\ \A r \in Callers : req[r].step = "store" => Creating(r)
    /\ ~excused =>
           /\ made <= 1
           /\ \A r, q \in Callers : Creating(r) /\ Creating(q) => r = q
           /\ \A r \in Callers : Creating(r) => record = Nil
           /\ record = Nil => made = 0 \/ \E r \in Callers : req[r].step = "store"
           /\ \A r \in Callers : Creating(r) /\ req[r].step # "store" => made = 0

\* Nothing is made under the key at first.
LEMMA KeyInit == GateInit => KeyInv
BY GateAssumption DEF GateInit, KeyInv, GateTypes, Creating, Idle, Asked

\* Every step keeps it.
LEMMA KeyStep == KeyInv /\ [GateNext]_gateVars => KeyInv'
<1> SUFFICES ASSUME KeyInv, [GateNext]_gateVars PROVE KeyInv'
  OBVIOUS
<1>1. GateTypes'
  BY GateTyped DEF KeyInv
<1> USE DEF idemVars
<1>2. ASSUME UNCHANGED idemVars,
             \A q \in Callers : \/ req'[q] = req[q]
                                \/ ~Creating(q) /\ ~Creating(q)' /\ req'[q].step # "store"
      PROVE  KeyInv'
  BY <1>1, <1>2 DEF KeyInv, Creating
<1>3. ASSUME NEW r \in Callers, Leave(r)
      PROVE  req'[r] = Idle /\ \A q \in Callers \ {r} : req'[q] = req[q]
  BY <1>3 DEF Leave, KeyInv, GateTypes
<1>5. ASSUME NEW r \in Callers, Count(r) \/ Issue(r) \/ AdmitToken(r) \/ ExtendToken(r)
      PROVE  KeyInv'
  <2>1. UNCHANGED idemVars
    BY <1>5 DEF Count, Issue, AdmitToken, ExtendToken
  <2>2. ~Creating(r)
    BY <1>5, CountMoves DEF KeyInv, Issue, AdmitToken, ExtendToken, AtStep, Creating, Idle
  <2>3. /\ req' = req \/ (~Creating(r)' /\ req'[r].step # "store")
        /\ \A q \in Callers \ {r} : req'[q] = req[q]
    <3>1. CASE Count(r)
      BY <3>1, CountMoves DEF KeyInv, GateTypes, Creating
    <3>2. CASE Leave(r)
      BY <1>3, <3>2 DEF Creating, Idle
    <3> QED BY <1>5, <3>1, <3>2 DEF Issue, AdmitToken, ExtendToken
  <2> QED BY <1>2, <2>1, <2>2, <2>3
<1>6. ASSUME NEW r \in Callers, SetTtl(r)
      PROVE  KeyInv'
  <2>1. UNCHANGED idemVars /\ ~Creating(r)
    BY <1>6 DEF SetTtl, AtStep, Creating
  <2>2. /\ req'[r].op = req[r].op /\ req'[r].step = "issue"
        /\ \A q \in Callers \ {r} : req'[q] = req[q]
    BY <1>6 DEF SetTtl, KeyInv, GateTypes, Asked
  <2> QED BY <1>2, <2>1, <2>2 DEF Creating
<1>7. ASSUME NEW r \in Callers, NEW o \in {"use", "refresh"}, NEW t \in Tokens, Present(r, o, t)
      PROVE  KeyInv'
  <2>1. PICK dead : req' = [req EXCEPT ![r] = [op |-> o, step |-> "find", arg |-> t, dead |-> dead]]
    BY <1>7 DEF Present
  <2>2. req'[r].op = o /\ req'[r].step = "find" /\ \A q \in Callers \ {r} : req'[q] = req[q]
    BY <2>1 DEF KeyInv, GateTypes
  <2>3. UNCHANGED idemVars /\ ~Creating(r)
    BY <1>7 DEF Present, Creating, Idle
  <2> QED BY <1>2, <2>1, <2>2, <2>3 DEF Creating
<1>8. ASSUME NEW r \in Callers, FindToken(r)
      PROVE  KeyInv'
  <2>1. UNCHANGED idemVars /\ ~Creating(r)
    BY <1>8 DEF FindToken, KeyInv
  <2>2. CASE Proceed(r, "found")
    <3>1. /\ req'[r].op = req[r].op /\ req'[r].step = "found"
          /\ \A q \in Callers \ {r} : req'[q] = req[q]
      BY <2>2 DEF Proceed, KeyInv, GateTypes, Asked
    <3> QED BY <1>2, <2>1, <3>1 DEF Creating
  <2>3. CASE Leave(r)
    BY <1>2, <1>3, <2>1, <2>3 DEF Creating, Idle
  <2> QED BY <1>8, <2>2, <2>3 DEF FindToken
<1>9. ASSUME NEW r \in Callers, NEW b \in Bodies, Lookup(r, b)
      PROVE  KeyInv'
  <2>1. UNCHANGED <<record, made>> /\ req[r] = Idle
    BY <1>9 DEF Lookup
  <2>2. CASE record # Nil
    <3>1. /\ req' = req /\ excused' = excused
          /\ replies' = replies \/ (record.hash = b /\ replies' = replies \cup {<<b, record.response>>})
      BY <1>9, <2>2 DEF Lookup
    <3>2. \A a \in replies' : a[1] = a[2]
      BY <2>2, <3>1 DEF KeyInv
    <3> QED BY <1>1, <2>1, <3>1, <3>2 DEF KeyInv, Creating
  <2>3. CASE record = Nil
    <3>1. /\ req' = [req EXCEPT ![r] = [op |-> "create", step |-> "create", arg |-> b, dead |-> "no"]]
          /\ excused' = (excused \/ \E q \in Callers : req[q].op = "create")
          /\ replies' = replies
      BY <1>9, <2>3 DEF Lookup, Idle
    <3>2. /\ req'[r].op = "create" /\ req'[r].step = "create" /\ req'[r].arg = b
          /\ \A q \in Callers \ {r} : req'[q] = req[q]
      BY <3>1 DEF KeyInv, GateTypes
    <3>3. ~excused' => ~excused /\ \A q \in Callers : ~Creating(q)
      BY <3>1 DEF Creating
    <3>4. ~Creating(r) /\ req[r].step # "store"
      BY <2>1 DEF Creating, Idle
    <3>5. ~excused' => made = 0
      BY <2>3, <3>3 DEF KeyInv
    <3> QED BY <1>1, <2>1, <2>3, <3>1, <3>2, <3>3, <3>4, <3>5 DEF KeyInv, Creating
  <2> QED BY <2>2, <2>3
<1>10. ASSUME NEW r \in Callers, Create(r)
       PROVE  KeyInv'
  <2>1. UNCHANGED <<record, excused, replies>> /\ Creating(r) /\ req[r].step = "create"
    BY <1>10 DEF Create, AtStep, Creating
  <2>2. CASE made' = made + 1 /\ Proceed(r, "store")
    <3>1. /\ req'[r].op = req[r].op /\ req'[r].step = "store" /\ req'[r].arg = req[r].arg
          /\ \A q \in Callers \ {r} : req'[q] = req[q]
      BY <2>2 DEF Proceed, KeyInv, GateTypes, Asked
    <3> QED BY <1>1, <2>1, <2>2, <3>1 DEF KeyInv, Creating
  <2>3. CASE made' = made /\ Leave(r)
    <3>1. ~Creating(r)' /\ req'[r].step # "store" /\ \A q \in Callers \ {r} : req'[q] = req[q]
      BY <1>3, <2>3 DEF Creating, Idle
    <3> QED BY <1>1, <2>1, <2>3, <3>1 DEF KeyInv, Creating
  <2> QED BY <1>10, <2>2, <2>3 DEF Create
<1>11. ASSUME NEW r \in Callers, Store(r)
       PROVE  KeyInv'
  <2>1. /\ UNCHANGED <<made, excused, replies>> /\ Creating(r)
        /\ record' = [hash |-> req[r].arg, response |-> req[r].arg]
    BY <1>11 DEF Store, AtStep, Creating
  <2>2. ~Creating(r)' /\ req'[r].step # "store" /\ \A q \in Callers \ {r} : req'[q] = req[q]
    BY <1>3, <1>11 DEF Store, Creating, Idle
  <2>3. record' # Nil /\ record'.hash = record'.response
    BY <2>1, GateAssumption DEF KeyInv
  <2> QED BY <1>1, <2>1, <2>2, <2>3 DEF KeyInv, Creating
<1>12. ASSUME NEW r \in Callers, CallerFails(r)
       PROVE  KeyInv'
  <2>1. /\ UNCHANGED <<record, made, replies>>
        /\ ~excused' => ~excused /\ req[r].step # "store"
    BY <1>12 DEF CallerFails
  <2>2. ~Creating(r)' /\ req'[r].step # "store" /\ \A q \in Callers \ {r} : req'[q] = req[q]
    BY <1>3, <1>12 DEF CallerFails, Creating, Idle
  <2> QED BY <1>1, <2>1, <2>2 DEF KeyInv, Creating
<1>13. CASE RecordExpires
  <2>1. record' = Nil /\ excused' /\ UNCHANGED <<req, replies>>
    BY <1>13 DEF RecordExpires
  <2> QED BY <1>1, <2>1 DEF KeyInv, Creating
<1>14. CASE \/ (\E w \in 1 .. MaxWindow : WindowKeyExpires(w))
            \/ (\E t \in Tokens : RevokeDevice(t) \/ TokenExpires(t))
            \/ NextWindow \/ UNCHANGED gateVars
  <2>1. UNCHANGED idemVars /\ req' = req
    BY <1>14 DEF WindowKeyExpires, RevokeDevice, TokenExpires, NextWindow, gateVars
  <2> QED BY <1>2, <2>1
<1> QED BY <1>5, <1>6, <1>7, <1>8, <1>9, <1>10, <1>11, <1>12, <1>13, <1>14 DEF GateNext

\* One key, one asset, unless two requests overlapped, a response was not stored
\* or the record expired; and nobody is answered with another body's asset.
THEOREM OneEffect == GateSpec => []OneEffectPerKey
<1>1. KeyInv => OneEffectPerKey
  BY DEF KeyInv, GateTypes, OneEffectPerKey
<1> QED BY <1>1, KeyInit, KeyStep, PTL DEF GateSpec
=============================================================================
