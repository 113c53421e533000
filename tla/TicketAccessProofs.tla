---- MODULE TicketAccessProofs ----
(***************************************************************************)
(* Proofs about SupportTeams and TicketAccess for every set of accounts,   *)
(* roles, teams, panels and tickets and any number of removals at a time.  *)
(* CallInv is what the removals that are under way know of the on-call     *)
(* role while nobody interferes with them; ListInv is what a list that is  *)
(* half read will come to if nothing more changes.                         *)
(***************************************************************************)
EXTENDS TicketAccess, TLAPS

Steps == {"row", "metadata", "role", "answer", "delete", "create", "name"}

\* The steps of a role's removal between forgetting the on-call role and naming the next.
Renewing == {"delete", "create", "name"}

Removals(n) == [op : {"RemoveMember"}, who : Users \union Roles, at : Steps, ok : BOOLEAN,
                role : {None} \union (1 .. n)]
AllRoles == Roles \union CallRoles

ReqInv ==
    /\ req \in [Handlers -> {Idle} \union Removals(made)]
    /\ \A h \in Handlers : req[h] # Idle /\ req[h].at \in Renewing => req[h].who \in Roles

\* The on-call role and the list are never followed in one behaviour.
AboutInv ==
    /\ about \in Teams \union {"default", "listing"}
    /\ about = "listing" => /\ \A h \in Handlers : req[h] = Idle
                            /\ \A u \in Users : cached[u] \in SUBSET Roles
    /\ about # "listing" => list = NoList

TypeInv ==
    /\ TypeOK
    /\ made \in 0 .. MaxCallRoles
    /\ has \in [Users -> SUBSET AllRoles]
    /\ cached \in [Users -> {None} \union SUBSET AllRoles]
    /\ off \subseteq Users

BaseInv == TypeInv /\ ReqInv /\ AboutInv


\* The steps of a removal by one handler.
StepOf(h) ==
    \/ \E x \in Staff \union Roles : about # "listing" /\ Begin(h, x, "row")
    \/ RemoveSupport(h) \/ GetMetadata(h) \/ NoCallRole(h) \/ TakeCallRole(h) \/ Answer(h)
    \/ ForgetCallRole(h) \/ DeleteGuildRole(h) \/ CreateGuildRole(h) \/ SetOnCallRole(h)
    \/ Fail(h)

ListStep ==
    \/ \E u \in Users : BeginList(u)
    \/ AskStaff \/ ReadMember \/ AskAdmin \/ AskAdminRoles \/ AskSupport \/ AskSupportRoles
    \/ ReadTeams \/ AskOwnTeam \/ AskRoleTeam
    \/ ReadMemberAgain \/ ReadDirectTeams \/ ReadRoleTeams \/ ReadPanels
    \/ QueryFiltered \/ QueryAll

LEMMA NextCases ==
    ASSUME [Next]_vars, BaseInv
    PROVE  \/ \E h \in Handlers : StepOf(h) /\ UNCHANGED accessVars
           \/ ChangeRows /\ UNCHANGED accessVars
           \/ \E u \in Staff : GoOnCall(u) /\ UNCHANGED accessVars
           \/ \E u \in Staff : CacheMember(u) /\ UNCHANGED accessVars
           \/ ListStep
           \/ Change
           \/ UNCHANGED vars
<1>1. ASSUME NEW h \in Handlers, RemoveMember(h) PROVE StepOf(h)
  <2>1. CASE \E x \in Staff \union Roles :
               BeginRemoveTeamMember(h, x) \/ \E asker \in Users : BeginRemoveDefaultMember(h, x, asker)
    <3>1. teams \subseteq Teams /\ "listing" \notin Teams
      BY SupportTeamsAssumption DEF BaseInv, TypeInv, TypeOK, TeamsTypeOK
    <3>2. about # "listing"
      BY <2>1, <3>1 DEF BeginRemoveTeamMember, BeginRemoveDefaultMember
    <3>3. QED
      BY <2>1, <3>2 DEF BeginRemoveTeamMember, BeginRemoveDefaultMember, StepOf
  <2>2. QED
    BY <1>1, <2>1 DEF RemoveMember, StepOf
<1>2. QED
  BY <1>1 DEF Next, TeamsNext, ListStep

\* A request that is under way is a removal, with its fields in their sets.
LEMMA Served ==
    ASSUME ReqInv, NEW h \in Handlers, req[h] # Idle
    PROVE  /\ req[h] \in Removals(made)
           /\ req[h] = Removal(req[h].who, req[h].at, req[h].ok, req[h].role)
           /\ req[h].who \in Users \union Roles /\ req[h].at \in Steps /\ req[h].ok \in BOOLEAN
           /\ req[h].role \in {None} \union (1 .. made)
<1>1. req[h] \in Removals(made)
  BY DEF ReqInv
<1>2. QED
  BY <1>1 DEF Removals, Removal

LEMMA IdleIsNoRemoval ==
    ASSUME NEW x, NEW at, NEW ok, NEW role
    PROVE  Removal(x, at, ok, role) # Idle
<1>1. Removal(x, at, ok, role).op # Idle.op
  BY DEF Removal, Idle
<1>2. QED
  BY <1>1

LEMMA Gone ==
    ASSUME ReqInv, NEW h \in Handlers, NEW at, Goto(h, at)
    PROVE  req' = [req EXCEPT ![h] = Removal(req[h].who, at, req[h].ok, req[h].role)]
  BY DEF Goto, ReqInv

\* Who writes a whole request keeps the requests well formed, and so does who ends one.
LEMMA Written ==
    ASSUME ReqInv, NEW h \in Handlers, made \in Nat, made' \in Nat, made <= made',
           NEW x \in Users \union Roles, NEW at \in Steps, NEW ok \in BOOLEAN,
           NEW role \in {None} \union (1 .. made'), at \in Renewing => x \in Roles,
           req' = [req EXCEPT ![h] = Removal(x, at, ok, role)]
    PROVE  ReqInv'
<1>1. Removals(made) \subseteq Removals(made')
  BY DEF Removals
<1>2. Removal(x, at, ok, role) \in Removals(made')
  BY DEF Removal, Removals
<1>3. req' \in [Handlers -> {Idle} \union Removals(made')]
  BY <1>1, <1>2 DEF ReqInv
<1>4. \A g \in Handlers : req'[g] = IF g = h THEN Removal(x, at, ok, role) ELSE req[g]
  BY DEF ReqInv
<1>5. /\ Removal(x, at, ok, role).at = at
      /\ Removal(x, at, ok, role).who = x
  BY DEF Removal
<1>6. QED
  BY <1>3, <1>4, <1>5 DEF ReqInv

LEMMA Ended ==
    ASSUME ReqInv, NEW h \in Handlers, made' = made, req' = [req EXCEPT ![h] = Idle]
    PROVE  ReqInv'
<1>1. \A g \in Handlers : req'[g] = IF g = h THEN Idle ELSE req[g]
  BY DEF ReqInv
<1>2. QED
  BY <1>1 DEF ReqInv

LEMMA RequestsWellFormed ==
    ASSUME BaseInv, NEW h \in Handlers, StepOf(h)
    PROVE  ReqInv'
<1> USE DEF BaseInv
<1>0. made \in Nat /\ MaxCallRoles \in Nat
  BY SupportTeamsAssumption DEF TypeInv
<1>t. callRow \in {None} \union (1 .. made)
  BY DEF TypeInv, TypeOK, TeamsTypeOK
<1>1. ASSUME NEW x \in Staff \union Roles, Begin(h, x, "row") PROVE ReqInv'
  <2>1. /\ req' = [req EXCEPT ![h] = Removal(x, "row", TRUE, IF about \in Teams THEN callRow ELSE None)]
        /\ made' = made
    BY <1>1 DEF Begin
  <2>2. x \in Users \union Roles
    BY SupportTeamsAssumption
  <2>3. (IF about \in Teams THEN callRow ELSE None) \in {None} \union (1 .. made')
    BY <1>t, <2>1
  <2>4. "row" \in Steps /\ ~("row" \in Renewing) /\ made' \in Nat /\ made <= made'
    BY <1>0, <2>1, <2>2 DEF Steps, Renewing
  <2>5. QED
    BY <1>0, <2>1, <2>2, <2>3, <2>4, Written
<1>2. ASSUME NEW at \in Steps, req[h] # Idle, Goto(h, at), made' = made,
             at \in Renewing => req[h].who \in Roles
      PROVE  ReqInv'
  <2>1. /\ req[h].who \in Users \union Roles /\ req[h].ok \in BOOLEAN
        /\ req[h].role \in {None} \union (1 .. made')
    BY <1>2, Served
  <2>2. QED
    BY <1>0, <1>2, <2>1, Gone, Written
<1>3. CASE RemoveSupport(h)
  <2>1. (IF about = "default" THEN "metadata" ELSE "role") \in Steps \ Renewing
    BY DEF Steps, Renewing
  <2>2. QED
    BY <1>2, <1>3, <2>1 DEF RemoveSupport, Serving, OutsideUntouched
<1>4. CASE GetMetadata(h)
  <2>1. /\ req[h] # Idle /\ made' = made
        /\ req' = [req EXCEPT ![h] = Removal(req[h].who, "role", req[h].ok, callRow)]
    BY <1>4 DEF GetMetadata, Serving, OutsideUntouched, ReqInv
  <2>2. "role" \in Steps /\ ~("role" \in Renewing) /\ made' \in Nat /\ made <= made'
    BY <1>0, <2>1 DEF Steps, Renewing
  <2>3. req[h].who \in Users \union Roles /\ req[h].ok \in BOOLEAN
    BY <2>1, Served
  <2>4. QED
    BY <1>0, <1>t, <2>1, <2>2, <2>3, Written
<1>5. CASE NoCallRole(h) \/ Answer(h) \/ Fail(h)
  <2>1. req' = [req EXCEPT ![h] = Idle] /\ made' = made
    BY <1>5 DEF NoCallRole, Answer, Fail, Done
  <2>2. QED
    BY <2>1, Ended
<1>6. CASE TakeCallRole(h)
  <2>1. PICK ok \in BOOLEAN : req' = [req EXCEPT ![h] = Removal(req[h].who, "answer", ok, req[h].role)]
    BY <1>6 DEF TakeCallRole
  <2>2. req[h] # Idle /\ made' = made
    BY <1>6 DEF TakeCallRole, Serving
  <2>3. req[h].who \in Users \union Roles /\ req[h].role \in {None} \union (1 .. made')
    BY <2>2, Served
  <2>4. "answer" \in Steps /\ ~("answer" \in Renewing) /\ made' \in Nat /\ made <= made'
    BY <1>0, <2>1, <2>2 DEF Steps, Renewing
  <2>5. QED
    BY <1>0, <2>1, <2>2, <2>3, <2>4, Written
<1>7. CASE ForgetCallRole(h)
  BY <1>2, <1>7 DEF ForgetCallRole, Serving, Steps, OutsideUntouched
<1>8. CASE DeleteGuildRole(h)
  BY <1>2, <1>8 DEF DeleteGuildRole, Serving, Steps, ReqInv, Renewing
<1>9. CASE CreateGuildRole(h)
  <2>1. /\ req[h] # Idle /\ made' = made + 1 /\ req[h].who \in Roles
        /\ req' = [req EXCEPT ![h] = Removal(req[h].who, "name", req[h].ok, made')]
    BY <1>9 DEF CreateGuildRole, Serving, ReqInv, Renewing
  <2>2. req[h].ok \in BOOLEAN /\ made' \in 1 .. made' /\ made' \in Nat /\ made <= made'
    BY <1>0, <2>1, Served
  <2>3. "name" \in Steps
    BY DEF Steps
  <2>4. QED
    BY <1>0, <2>1, <2>2, <2>3, Written
<1>10. CASE SetOnCallRole(h)
  BY <1>2, <1>10 DEF SetOnCallRole, Serving, Steps, Renewing, OutsideUntouched
<1>11. QED
  BY <1>1, <1>3, <1>4, <1>5, <1>6, <1>7, <1>8, <1>9, <1>10 DEF StepOf

TablesOK ==
    /\ teams \subseteq Teams
    /\ perm \in [Users \union Roles -> Levels]
    /\ members \subseteq teams \X (Users \union Roles)
    /\ panelTeams \in [Panels -> SUBSET teams]

\* Who is on call, as the row, Discord and the member cache have it.
CallOK ==
    /\ made \in 0 .. MaxCallRoles
    /\ callRow \in {None} \union (1 .. made) /\ discord \subseteq 1 .. made
    /\ has \in [Users -> SUBSET AllRoles]
    /\ \A u \in Users : has[u] \subseteq Roles \union discord

CacheOK ==
    /\ cached \in [Users -> {None} \union SUBSET AllRoles]
    /\ \A u \in Users : cached[u] = None \/ cached[u] \subseteq Roles \union (1 .. made)

LEMMA TypesSplit ==
    TypeInv <=> /\ TablesOK /\ CallOK /\ CacheOK /\ off \subseteq Users
                /\ withDefault \subseteq Panels /\ before \subseteq Tickets
  BY DEF TypeInv, TypeOK, TeamsTypeOK, TablesOK, CallOK, CacheOK

LEMMA TypesSplitNext ==
    TypeInv' <=> /\ TablesOK' /\ CallOK' /\ CacheOK' /\ off' \subseteq Users
                 /\ withDefault' \subseteq Panels /\ before' \subseteq Tickets
  BY DEF TypeInv, TypeOK, TeamsTypeOK, TablesOK, CallOK, CacheOK

LEMMA RowsKeepTypes ==
    ASSUME TablesOK, RowsChange
    PROVE  TablesOK'
<1> USE DEF TablesOK
<1>1. ASSUME NEW t \in Teams, CreateTeam(t) PROVE TablesOK'
  BY <1>1 DEF CreateTeam
<1>2. ASSUME NEW t \in Teams, DeleteTeam(t) PROVE TablesOK'
  <2>1. members' \subseteq teams' \X (Users \union Roles)
    <3>1. ASSUME NEW m \in members' PROVE m \in teams' \X (Users \union Roles)
      BY <1>2 DEF DeleteTeam
    <3>2. QED
      BY <3>1
  <2>2. panelTeams' \in [Panels -> SUBSET teams']
    BY <1>2 DEF DeleteTeam
  <2>3. QED
    BY <1>2, <2>1, <2>2 DEF DeleteTeam
<1>3. ASSUME NEW r \in Roles, AddDefaultMember(r) PROVE TablesOK'
  BY <1>3 DEF AddDefaultMember, Levels
<1>4. ASSUME NEW r \in Roles, NEW t \in Teams, AddTeamMember(t, r) PROVE TablesOK'
  BY <1>4 DEF AddTeamMember
<1>5. ASSUME NEW x \in Staff \union Roles, MakeAdmin(x) PROVE TablesOK'
  BY <1>5, SupportTeamsAssumption DEF MakeAdmin, Levels
<1>6. QED
  BY <1>1, <1>2, <1>3, <1>4, <1>5 DEF RowsChange

LEMMA ChangedRowsKeepTypes ==
    ASSUME TablesOK, ChangeRows
    PROVE  TablesOK'
<1>1. RowsChange
  BY DEF ChangeRows, RowsChange
<1>2. QED
  BY <1>1, RowsKeepTypes

\* What a removal's step does to the tables, to who is on call and to the cache.
LEMMA StepsKeepTypes ==
    ASSUME BaseInv, NEW h \in Handlers, StepOf(h), UNCHANGED accessVars
    PROVE  TypeInv'
<1>1. TablesOK /\ CallOK /\ CacheOK /\ off \subseteq Users /\ withDefault \subseteq Panels /\ before \subseteq Tickets
  BY TypesSplit DEF BaseInv
<1>2. ReqInv /\ made \in Nat /\ MaxCallRoles \in Nat
  BY <1>1, SupportTeamsAssumption DEF BaseInv, CallOK
<1>3. withDefault' \subseteq Panels /\ before' \subseteq Tickets
  BY <1>1 DEF accessVars
<1>4. off' \subseteq Users
  <2>1. CASE UNCHANGED off
    BY <1>1, <2>1
  <2>2. CASE NoCallRole(h) \/ Answer(h)
    <3>1. /\ off' = IF ~req[h].ok THEN off
                    ELSE off \union (IF req[h].who \in Users THEN {req[h].who} ELSE Users)
          /\ req[h] # Idle
      BY <2>2 DEF NoCallRole, Answer, Done, Serving
    <3>2. QED
      BY <1>1, <3>1
  <2>3. QED
    BY <2>1, <2>2 DEF StepOf, Begin, RemoveSupport, GetMetadata, TakeCallRole,
         ForgetCallRole, DeleteGuildRole, CreateGuildRole, SetOnCallRole, Fail, OutsideUntouched, ghosts
<1>5. TablesOK'
  <2>1. CASE UNCHANGED tables
    BY <1>1, <2>1 DEF TablesOK, tables
  <2>2. CASE RemoveSupport(h)
    <3>1. req[h].who \in Users \union Roles
      BY <1>2, <2>2, Served DEF RemoveSupport, Serving
    <3>2. QED
      BY <1>1, <2>2, <3>1 DEF RemoveSupport, TablesOK, OutsideUntouched, Levels
  <2>3. QED
    BY <2>1, <2>2 DEF StepOf, Begin, GetMetadata, NoCallRole, TakeCallRole, Answer,
         ForgetCallRole, DeleteGuildRole, CreateGuildRole, SetOnCallRole, Fail, OutsideUntouched, tables
<1>6. CallOK'
  <2>1. CASE UNCHANGED <<made, callRow, discord, has>>
    BY <1>1, <2>1 DEF CallOK
  <2>2. CASE TakeCallRole(h)
    <3>1. UNCHANGED <<made, callRow, discord>>
      BY <2>2 DEF TakeCallRole
    <3>2. has' = has \/ has' = [has EXCEPT ![req[h].who] = @ \ {req[h].role}]
      BY <2>2 DEF TakeCallRole
    <3>3. QED
      BY <1>1, <3>1, <3>2 DEF CallOK
  <2>3. CASE ForgetCallRole(h)
    <3>1. UNCHANGED <<made, discord, has>> /\ callRow' \in {None, callRow}
      BY <2>3 DEF ForgetCallRole, OutsideUntouched
    <3>2. QED
      BY <1>1, <3>1 DEF CallOK
  <2>4. CASE DeleteGuildRole(h)
    <3>1. /\ UNCHANGED <<made, callRow>> /\ discord' = discord \ {req[h].role}
          /\ has' = [u \in Users |-> has[u] \ {req[h].role}]
      BY <2>4 DEF DeleteGuildRole
    <3>2. has' \in [Users -> SUBSET AllRoles]
      BY <1>1, <3>1 DEF CallOK
    <3>3. \A u \in Users : has'[u] \subseteq Roles \union discord'
      BY <1>1, <3>1 DEF CallOK
    <3>4. QED
      BY <1>1, <3>1, <3>2, <3>3 DEF CallOK
  <2>5. CASE CreateGuildRole(h)
    <3>1. /\ UNCHANGED <<has, callRow>> /\ discord' = discord \union {made'}
          /\ made' = made + 1 /\ made < MaxCallRoles
      BY <2>5 DEF CreateGuildRole
    <3>2. QED
      BY <1>1, <1>2, <3>1 DEF CallOK
  <2>6. CASE SetOnCallRole(h)
    <3>1. UNCHANGED <<made, discord, has>> /\ callRow' \in {callRow, req[h].role} /\ req[h] # Idle
      BY <2>6 DEF SetOnCallRole, OutsideUntouched, Serving
    <3>2. req[h].role \in {None} \union (1 .. made)
      BY <1>2, <3>1, Served
    <3>3. QED
      BY <1>1, <3>1, <3>2 DEF CallOK
  <2>7. QED
    BY <2>1, <2>2, <2>3, <2>4, <2>5, <2>6 DEF StepOf, Begin, RemoveSupport, GetMetadata, NoCallRole,
         Answer, Fail, OutsideUntouched
<1>7. CacheOK'
  <2>1. CASE UNCHANGED <<made, cached>>
    BY <1>1, <2>1 DEF CacheOK
  <2>2. CASE TakeCallRole(h)
    <3>1. PICK roles \in SUBSET AllRoles : Found(req[h].who, roles)
      BY <2>2 DEF TakeCallRole, AllRoles
    <3>2. \A u \in Users : cached'[u] = cached[u] \/ cached'[u] = has[u]
      BY <1>1, <3>1 DEF Found, CacheOK
    <3>3. cached' \in [Users -> {None} \union SUBSET AllRoles] /\ made' = made
      BY <1>1, <2>2, <3>1 DEF Found, CacheOK, TakeCallRole
    <3>4. QED
      BY <1>1, <1>2, <3>2, <3>3 DEF CacheOK, CallOK
  <2>3. CASE CreateGuildRole(h)
    <3>1. cached' = cached /\ made' = made + 1
      BY <2>3 DEF CreateGuildRole
    <3>2. 1 .. made \subseteq 1 .. made'
      BY <1>2, <3>1
    <3>3. QED
      BY <1>1, <3>1, <3>2 DEF CacheOK
  <2>4. QED
    BY <2>1, <2>2, <2>3 DEF StepOf, Begin, RemoveSupport, GetMetadata, NoCallRole, ForgetCallRole,
         DeleteGuildRole, SetOnCallRole, Answer, Fail, OutsideUntouched
<1>8. QED
  BY <1>3, <1>4, <1>5, <1>6, <1>7, TypesSplitNext

LEMMA OthersKeepTypes ==
    ASSUME BaseInv, UNCHANGED accessVars,
           ChangeRows \/ \E u \in Staff : GoOnCall(u) \/ CacheMember(u)
    PROVE  TypeInv' /\ ReqInv'
<1>1. TablesOK /\ CallOK /\ CacheOK /\ off \subseteq Users /\ withDefault \subseteq Panels /\ before \subseteq Tickets
  BY TypesSplit DEF BaseInv
<1>2. ReqInv /\ made \in Nat /\ MaxCallRoles \in Nat
  BY <1>1, SupportTeamsAssumption DEF BaseInv, CallOK
<1>3. withDefault' \subseteq Panels /\ before' \subseteq Tickets
  BY <1>1 DEF accessVars
<1>4. CASE ChangeRows
  <2>1. TablesOK'
    BY <1>1, <1>4, ChangedRowsKeepTypes
  <2>2. /\ UNCHANGED <<made, discord, has, cached, req, off>> /\ callRow' \in {None, callRow}
    BY <1>4 DEF ChangeRows, ghosts
  <2>3. CallOK' /\ CacheOK' /\ off' \subseteq Users
    BY <1>1, <2>2 DEF CallOK, CacheOK
  <2>4. ReqInv'
    BY <1>2, <2>2 DEF ReqInv
  <2>5. QED
    BY <1>3, <2>1, <2>3, <2>4, TypesSplitNext
<1>5. ASSUME NEW u \in Staff, GoOnCall(u) PROVE TypeInv' /\ ReqInv'
  <2>1. u \in Users
    BY SupportTeamsAssumption
  <2>2. /\ UNCHANGED <<tables, cached, req>> /\ off' = off \ {u}
        /\ has' = [has EXCEPT ![u] = @ \union {callRow'}]
    BY <1>5 DEF GoOnCall
  <2>3. \/ made' = made + 1 /\ made < MaxCallRoles /\ callRow' = made' /\ discord' = discord \union {made'}
        \/ callRow \in discord /\ UNCHANGED <<made, callRow, discord>>
    BY <1>5 DEF GoOnCall
  <2>4. /\ made' \in 0 .. MaxCallRoles /\ 1 .. made \subseteq 1 .. made'
        /\ callRow' \in discord' /\ discord \subseteq discord' /\ discord' \subseteq 1 .. made'
    <3>1. made \in 0 .. MaxCallRoles /\ discord \subseteq 1 .. made
      BY <1>1 DEF CallOK
    <3>2. CASE made' = made + 1 /\ made < MaxCallRoles /\ callRow' = made' /\ discord' = discord \union {made'}
      <4>1. made' \in 0 .. MaxCallRoles /\ 1 .. made \subseteq 1 .. made' /\ made' \in 1 .. made'
        BY <1>2, <3>1, <3>2
      <4>2. QED
        BY <3>1, <3>2, <4>1
    <3>3. CASE callRow \in discord /\ UNCHANGED <<made, callRow, discord>>
      BY <3>1, <3>3
    <3>4. QED
      BY <2>3, <3>2, <3>3
  <2>5. callRow' \in AllRoles
    BY <1>2, <2>4 DEF AllRoles, CallRoles
  <2>6. CallOK'
    BY <1>1, <2>1, <2>2, <2>4, <2>5 DEF CallOK
  <2>7. CacheOK' /\ TablesOK' /\ off' \subseteq Users
    BY <1>1, <2>2, <2>4 DEF CacheOK, TablesOK, tables
  <2>8. Removals(made) \subseteq Removals(made')
    BY <2>4 DEF Removals
  <2>9. ReqInv'
    BY <1>2, <2>2, <2>8 DEF ReqInv
  <2>10. QED
    BY <1>3, <2>6, <2>7, <2>9, TypesSplitNext
<1>6. ASSUME NEW u \in Staff, CacheMember(u) PROVE TypeInv' /\ ReqInv'
  <2>1. /\ UNCHANGED <<tables, callRow, discord, has, req, made, off>>
        /\ \E roles \in {has[u], None} : cached' = [cached EXCEPT ![u] = roles]
    BY <1>6 DEF CacheMember, ghosts
  <2>2. u \in Users
    BY SupportTeamsAssumption
  <2>3. CacheOK'
    BY <1>1, <2>1, <2>2 DEF CacheOK, CallOK
  <2>4. CallOK' /\ TablesOK' /\ off' \subseteq Users
    BY <1>1, <2>1 DEF CallOK, TablesOK, tables
  <2>5. ReqInv'
    BY <1>2, <2>1 DEF ReqInv
  <2>6. QED
    BY <1>3, <2>3, <2>4, <2>5, TypesSplitNext
<1>7. QED
  BY <1>4, <1>5, <1>6

\* A change beside a list: of the tables, of one panel's rows or of one account's roles.
LEMMA ChangesKeepTypes ==
    ASSUME BaseInv, Change
    PROVE  TypeInv' /\ ReqInv' /\ AboutInv'
<1>1. TablesOK /\ CallOK /\ CacheOK /\ off \subseteq Users /\ withDefault \subseteq Panels /\ before \subseteq Tickets
  BY TypesSplit DEF BaseInv
<1>2. ReqInv /\ AboutInv /\ about = "listing"
  BY DEF BaseInv, Change
<1>3. UNCHANGED <<about, callRow, discord, has, req, made, off, list, before>>
  BY DEF Change, ghosts
<1>4. CallOK' /\ ReqInv' /\ off' \subseteq Users /\ before' \subseteq Tickets
  BY <1>1, <1>2, <1>3 DEF CallOK, ReqInv
<1>5. TablesOK' /\ withDefault' \subseteq Panels
  <2>1. ASSUME NEW p \in Panels, EditPanel(p) PROVE TablesOK' /\ withDefault' \subseteq Panels
    BY <1>1, <2>1 DEF TablesOK, EditPanel
  <2>2. CASE DropRow
    BY <1>1, <2>2 DEF TablesOK, DropRow, Levels
  <2>3. CASE UNCHANGED <<tables, withDefault>>
    BY <1>1, <2>3 DEF TablesOK, tables
  <2>4. CASE RowsChange /\ UNCHANGED withDefault
    BY <1>1, <2>4, RowsKeepTypes
  <2>5. QED
    BY <2>1, <2>2, <2>3, <2>4 DEF Change, GiveOrTakeRole, CreateOverride, DeleteOverride
<1>6. cached' \in [Users -> SUBSET AllRoles] /\ \A u \in Users : cached'[u] \in SUBSET Roles
  <2>1. \A u \in Users : cached[u] \in SUBSET Roles
    BY <1>2 DEF AboutInv
  <2>2. cached \in [Users -> SUBSET AllRoles]
    BY <1>1, <2>1 DEF CacheOK, AllRoles
  <2>3. CASE UNCHANGED cached
    BY <2>1, <2>2, <2>3
  <2>4. CASE GiveOrTakeRole(list.who)
    <3>1. PICK r \in Roles : cached' = [cached EXCEPT ![list.who] = IF r \in @ THEN @ \ {r} ELSE @ \union {r}]
      BY <2>4 DEF GiveOrTakeRole
    <3>2. r \in AllRoles
      BY DEF AllRoles
    <3>3. QED
      BY <2>1, <2>2, <3>1, <3>2
  <2>5. QED
    BY <2>3, <2>4 DEF Change, EditPanel, DropRow, CreateOverride, DeleteOverride
<1>7. CacheOK' /\ AboutInv'
  BY <1>2, <1>3, <1>6 DEF CacheOK, AboutInv
<1>8. QED
  BY <1>4, <1>5, <1>7, TypesSplitNext

LEMMA ListsKeepTypes ==
    ASSUME BaseInv, ListStep
    PROVE  TypeInv' /\ ReqInv' /\ AboutInv'
<1>1. TablesOK /\ CallOK /\ CacheOK /\ off \subseteq Users /\ withDefault \subseteq Panels /\ before \subseteq Tickets
  BY TypesSplit DEF BaseInv
<1>2. UNCHANGED teamVars /\ UNCHANGED withDefault
  BY DEF ListStep, BeginList, AskStaff, ReadMember, AskLevel, AskAdmin, AskAdminRoles, AskSupport,
         AskSupportRoles, ReadTeams, AskOwnTeam, AskRoleTeam, ReadMemberAgain, ReadDirectTeams, ReadRoleTeams, ReadPanels,
         QueryFiltered, QueryAll, ListUntouched
<1>3. before' \subseteq Tickets
  BY <1>1 DEF ListStep, BeginList, AskStaff, ReadMember, AskLevel, AskAdmin, AskAdminRoles, AskSupport,
         AskSupportRoles, ReadTeams, AskOwnTeam, AskRoleTeam, ReadMemberAgain, ReadDirectTeams, ReadRoleTeams, ReadPanels,
         QueryFiltered, QueryAll, ListUntouched, Viewable
<1>4. about = "listing"
  <2>1. CASE list # NoList
    BY <2>1 DEF BaseInv, AboutInv
  <2>2. CASE list = NoList
    <3>1. list.at = "idle"
      BY <2>2 DEF NoList
    <3>2. QED
      BY <3>1 DEF ListStep, BeginList, AskStaff, ReadMember, AskLevel, AskAdmin, AskAdminRoles, AskSupport,
         AskSupportRoles, ReadTeams, AskOwnTeam, AskRoleTeam, ReadMemberAgain, ReadDirectTeams, ReadRoleTeams, ReadPanels,
         QueryFiltered, QueryAll, Listing
  <2>3. QED
    BY <2>1, <2>2
<1>5. TablesOK' /\ CallOK' /\ CacheOK' /\ off' \subseteq Users
  BY <1>1, <1>2 DEF teamVars, TablesOK, CallOK, CacheOK
<1>6. ReqInv' /\ AboutInv'
  BY <1>2, <1>4 DEF BaseInv, teamVars, ReqInv, AboutInv
<1>7. QED
  BY <1>1, <1>2, <1>3, <1>5, <1>6, TypesSplitNext

LEMMA InitBase == Init => BaseInv
<1> SUFFICES ASSUME Init PROVE BaseInv
  OBVIOUS
<1> USE DEF Init, TeamsInit
<1>1. about \in Teams \union {"default", "listing"} /\ req = [h \in Handlers |-> Idle]
  OBVIOUS
<1>2. teams \subseteq Teams /\ (about \in Teams => about \in teams)
  <2>1. CASE about = "listing"
    BY <2>1, SupportTeamsAssumption
  <2>2. CASE about # "listing"
    BY <2>2
  <2>3. QED
    BY <2>1, <2>2
<1>3. members \subseteq teams \X (Users \union Roles)
  <2>1. CASE about = "default"
    BY <2>1
  <2>2. CASE about = "listing"
    BY <2>2, SupportTeamsAssumption
  <2>3. CASE about \in Teams
    <3>1. about # "default" /\ about # "listing"
      BY <2>3, SupportTeamsAssumption
    <3>2. members \subseteq {about} \X (Staff \union Roles)
      BY <3>1
    <3>3. QED
      BY <1>2, <2>3, <3>2, SupportTeamsAssumption
  <2>4. QED
    BY <1>1, <2>1, <2>2, <2>3
<1>4. panelTeams \in [Panels -> SUBSET teams]
  OBVIOUS
<1>5. perm \in [Users \union Roles -> Levels]
  OBVIOUS
<1>6. has \in [Users -> SUBSET Roles] /\ cached = has
  OBVIOUS
<1>7. callRow = None /\ discord = {} /\ made = 0 /\ off = {} /\ list = NoList /\ before = {}
  OBVIOUS
<1>8. withDefault \subseteq Panels
  OBVIOUS
<1>9. TypeInv
  <2>1. CallOK
    BY <1>6, <1>7, SupportTeamsAssumption DEF CallOK, AllRoles
  <2>2. CacheOK
    BY <1>6, <1>7 DEF CacheOK, AllRoles
  <2>3. TablesOK
    BY <1>2, <1>3, <1>4, <1>5 DEF TablesOK
  <2>4. QED
    BY <1>7, <1>8, <2>1, <2>2, <2>3, TypesSplit
<1>10. ReqInv
  BY <1>1 DEF ReqInv
<1>11. AboutInv
  BY <1>1, <1>6, <1>7 DEF AboutInv
<1>12. QED
  BY <1>9, <1>10, <1>11 DEF BaseInv

LEMMA BaseStep == BaseInv /\ [Next]_vars => BaseInv'
<1> SUFFICES ASSUME BaseInv, [Next]_vars PROVE BaseInv'
  OBVIOUS
<1>1. ASSUME UNCHANGED accessVars, UNCHANGED about, about # "listing" PROVE AboutInv'
  BY <1>1 DEF BaseInv, AboutInv, accessVars
<1>2. ASSUME NEW h \in Handlers, StepOf(h), UNCHANGED accessVars PROVE BaseInv'
  <2>1. UNCHANGED about
    BY <1>2 DEF StepOf, Begin, RemoveSupport, GetMetadata, NoCallRole, TakeCallRole, Answer,
         ForgetCallRole, DeleteGuildRole, CreateGuildRole, SetOnCallRole, Fail, OutsideUntouched
  <2>2. about # "listing"
    <3>1. req[h] # Idle \/ about # "listing"
      BY <1>2 DEF StepOf, RemoveSupport, GetMetadata, NoCallRole, TakeCallRole, Answer,
         ForgetCallRole, DeleteGuildRole, CreateGuildRole, SetOnCallRole, Fail, Serving
    <3>2. QED
      BY <3>1 DEF BaseInv, AboutInv
  <2>3. QED
    BY <1>1, <1>2, <2>1, <2>2, RequestsWellFormed, StepsKeepTypes DEF BaseInv
<1>3. ASSUME UNCHANGED accessVars, ChangeRows \/ \E u \in Staff : GoOnCall(u) \/ CacheMember(u) PROVE BaseInv'
  <2>1. UNCHANGED about /\ about # "listing"
    BY <1>3 DEF ChangeRows, GoOnCall, CacheMember
  <2>2. QED
    BY <1>1, <1>3, <2>1, OthersKeepTypes DEF BaseInv
<1>4. CASE ListStep
  BY <1>4, ListsKeepTypes DEF BaseInv
<1>5. CASE Change
  BY <1>5, ChangesKeepTypes DEF BaseInv
<1>6. CASE UNCHANGED vars
  <2>1. UNCHANGED <<teamVars, accessVars>>
    BY <1>6 DEF vars
  <2>2. TypeInv'
    BY <2>1 DEF BaseInv, TypeInv, TypeOK, TeamsTypeOK, teamVars, accessVars
  <2>3. ReqInv' /\ AboutInv'
    BY <2>1 DEF BaseInv, ReqInv, AboutInv, teamVars, accessVars
  <2>4. QED
    BY <2>2, <2>3 DEF BaseInv
<1>7. QED
  BY <1>2, <1>3, <1>4, <1>5, <1>6, NextCases

THEOREM BaseHolds == Spec => []BaseInv
  BY InitBase, BaseStep, PTL DEF Spec

\* Rows, on-call roles and the member cache keep their types: no row is of a team that
\* is gone, and nobody has a role that Discord does not.
THEOREM TicketAccessTypes == Spec => []TypeOK
<1>1. BaseInv => TypeOK
  BY DEF BaseInv, TypeInv
<1>2. QED
  BY <1>1, BaseHolds, PTL
----
(* The on-call role *)

\* Nobody has interfered with the on-call role of a team that is there.
Quiet == Followed /\ ~orphaned /\ ~raced

OffCall(u) == has[u] \intersect CallRoles = {}

\* A role's removal is alone, and those of users are of different users.
ApartInv ==
    \A g, h \in Handlers : g # h /\ req[g] # Idle /\ req[h] # Idle =>
        {req[g].who, req[h].who} \subseteq Users /\ req[g].who # req[h].who

\* What the removal of a user knows: the only on-call role that the user can hold is
\* the one it has read, and none once it has ended well.
UserKnows(r) ==
    /\ r.at = "role" \/ (r.at = "row" /\ about \in Teams) => has[r.who] \intersect CallRoles \subseteq {r.role}
    /\ r.at = "answer" /\ r.ok => OffCall(r.who)

\* What the removal of a role knows, which nobody meets: at first that its on-call role
\* is the one of the row, then that the row has none and at last that nobody is on call.
RoleKnows(r) ==
    /\ r.at = "role" \/ (r.at = "row" /\ about \in Teams) => r.role = callRow
    /\ r.at \in {"delete", "name"} => discord \subseteq {r.role}
    /\ r.at = "create" => discord = {}
    /\ r.at \in {"create", "name", "answer"} => \A u \in Users : OffCall(u)

KnowledgeInv ==
    \A h \in Handlers : req[h] # Idle =>
        IF req[h].who \in Users THEN UserKnows(req[h]) ELSE RoleKnows(req[h])

NamedInv ==
    (\A h \in Handlers : req[h] # Idle => req[h].at \notin Renewing) => discord \subseteq {callRow}

CallInv == Quiet => ApartInv /\ KnowledgeInv /\ NamedInv /\ \A u \in off : OffCall(u)

\* Nobody can hold an on-call role that Discord does not have.
LEMMA HeldRolesExist ==
    ASSUME CallOK, NEW c, discord \subseteq {c}
    PROVE  \A u \in Users : has[u] \intersect CallRoles \subseteq {c}
  BY SupportTeamsAssumption DEF CallOK, CallRoles

LEMMA NobodyOnCall ==
    ASSUME CallOK, discord \subseteq {None}
    PROVE  discord = {} /\ \A u \in Users : OffCall(u)
<1>1. discord \subseteq CallRoles /\ None \notin CallRoles
  BY SupportTeamsAssumption DEF CallOK, CallRoles
<1>2. \A u \in Users : has[u] \intersect CallRoles \subseteq {None}
  BY HeldRolesExist
<1>3. QED
  BY <1>1, <1>2 DEF OffCall

\* Beside a removal that does not make the on-call role anew nobody does.
LEMMA NobodyRenews ==
    ASSUME ReqInv, ApartInv, NamedInv, NEW h \in Handlers, req[h] # Idle, req[h].at \notin Renewing
    PROVE  discord \subseteq {callRow}
<1>1. ASSUME NEW g \in Handlers, req[g] # Idle, g # h PROVE req[g].at \notin Renewing
  BY <1>1, SupportTeamsAssumption DEF ReqInv, ApartInv
<1>2. QED
  BY <1>1 DEF NamedInv

\* A removal's step that changes neither the on-call role nor who holds it: what the
\* others know stands, and it has to be shown what the removal itself knows by now.
LEMMA QuietStep ==
    ASSUME ReqInv, ApartInv, KnowledgeInv, NamedInv, NEW h \in Handlers, req[h] # Idle,
           NEW at, NEW ok, NEW role,
           req' = [req EXCEPT ![h] = Removal(req[h].who, at, ok, role)],
           UNCHANGED <<about, callRow, discord, has>>,
           req[h].at \notin Renewing,
           req[h].who \in Users => UserKnows(Removal(req[h].who, at, ok, role)),
           req[h].who \notin Users => RoleKnows(Removal(req[h].who, at, ok, role))
    PROVE  ApartInv' /\ KnowledgeInv' /\ NamedInv'
<1> DEFINE r == Removal(req[h].who, at, ok, role)
<1>1. r.who = req[h].who /\ r.at = at /\ r.ok = ok /\ r.role = role
  BY DEF Removal
<1>2. \A g \in Handlers : req'[g] = IF g = h THEN r ELSE req[g]
  BY DEF ReqInv
<1>3. ApartInv'
  BY <1>1, <1>2 DEF ApartInv
<1>4. ASSUME NEW g \in Handlers, req'[g] # Idle
      PROVE  (IF req[g].who \in Users THEN UserKnows(req[g]) ELSE RoleKnows(req[g]))'
  <2>1. CASE g = h
    <3>1. req'[g] = r
      BY <1>2, <2>1
    <3>2. CASE req[h].who \in Users
      BY <1>1, <3>1, <3>2 DEF UserKnows, OffCall
    <3>3. CASE req[h].who \notin Users
      BY <1>1, <3>1, <3>3 DEF RoleKnows, OffCall
    <3>4. QED
      BY <3>2, <3>3
  <2>2. CASE g # h
    <3>1. req'[g] = req[g] /\ req[g] # Idle
      BY <1>2, <1>4, <2>2
    <3>2. QED
      BY <3>1 DEF KnowledgeInv, UserKnows, RoleKnows, OffCall
  <2>3. QED
    BY <2>1, <2>2
<1>5. discord \subseteq {callRow}
  BY NobodyRenews
<1>6. QED
  BY <1>3, <1>4, <1>5 DEF KnowledgeInv, NamedInv

\* A removal that ends before it has begun to renew the role, or after it.
LEMMA QuietEnd ==
    ASSUME ReqInv, ApartInv, KnowledgeInv, NamedInv, NEW h \in Handlers, req[h] # Idle,
           req' = [req EXCEPT ![h] = Idle], UNCHANGED <<about, callRow, discord, has>>,
           req[h].at \notin Renewing
    PROVE  ApartInv' /\ KnowledgeInv' /\ NamedInv'
<1>1. \A g \in Handlers : req'[g] = IF g = h THEN Idle ELSE req[g]
  BY DEF ReqInv
<1>2. ApartInv'
  BY <1>1 DEF ApartInv
<1>3. ASSUME NEW g \in Handlers, req'[g] # Idle
      PROVE  (IF req[g].who \in Users THEN UserKnows(req[g]) ELSE RoleKnows(req[g]))'
  <2>1. req'[g] = req[g] /\ req[g] # Idle
    BY <1>1, <1>3
  <2>2. QED
    BY <2>1 DEF KnowledgeInv, UserKnows, RoleKnows, OffCall
<1>4. discord \subseteq {callRow}
  BY NobodyRenews
<1>5. QED
  BY <1>2, <1>3, <1>4 DEF KnowledgeInv, NamedInv

\* A removal that is begun while no other is at the same role.
LEMMA BeginsApart ==
    ASSUME BaseInv, ApartInv, KnowledgeInv, NamedInv, NEW h \in Handlers,
           NEW x \in Staff \union Roles, Begin(h, x, "row"), ~raced'
    PROVE  ApartInv' /\ KnowledgeInv' /\ NamedInv'
<1> DEFINE r == Removal(x, "row", TRUE, IF about \in Teams THEN callRow ELSE None)
<1>1. r.who = x /\ r.at = "row" /\ r.role = IF about \in Teams THEN callRow ELSE None
  BY DEF Removal
<1>2. req[h] = Idle /\ UNCHANGED <<about, callRow, discord, has>>
  BY DEF Begin
<1>3. \A g \in Handlers : req'[g] = IF g = h THEN r ELSE req[g]
  BY DEF Begin, BaseInv, ReqInv
<1>4. \A g \in Handlers : req[g] # Idle => x \notin Roles /\ req[g].who \notin {x} \union Roles
  BY DEF Begin, Meets
<1>5. \A g \in Handlers : req[g] # Idle => req[g].who \in Users /\ req[g].at \notin Renewing
  BY <1>4, Served DEF BaseInv, ReqInv
<1>6. x \in Users \union Roles
  BY SupportTeamsAssumption
<1>7. discord \subseteq {callRow}
  BY <1>5 DEF NamedInv
<1>8. ApartInv'
  <2>1. \A g \in Handlers : g # h /\ req[g] # Idle => {x, req[g].who} \subseteq Users /\ req[g].who # x
    BY <1>4, <1>5, <1>6
  <2>2. req'[h].who = x
    BY <1>1, <1>3
  <2>3. \A g \in Handlers : g # h => req'[g] = req[g]
    BY <1>3
  <2>4. QED
    BY <2>1, <2>2, <2>3 DEF ApartInv
<1>9. ASSUME NEW g \in Handlers, req'[g] # Idle
      PROVE  (IF req[g].who \in Users THEN UserKnows(req[g]) ELSE RoleKnows(req[g]))'
  <2>1. CASE g = h
    <3>1. req'[g] = r
      BY <1>3, <2>1
    <3>2. CASE x \in Users
      <4>1. has[x] \intersect CallRoles \subseteq {callRow}
        BY <1>7, <3>2, HeldRolesExist, TypesSplit DEF BaseInv
      <4>2. QED
        BY <1>1, <1>2, <3>1, <3>2, <4>1 DEF UserKnows
    <3>3. CASE x \notin Users
      BY <1>1, <1>2, <3>1, <3>3 DEF RoleKnows, Renewing
    <3>4. QED
      BY <3>2, <3>3
  <2>2. CASE g # h
    <3>1. req'[g] = req[g] /\ req[g] # Idle
      BY <1>3, <1>9, <2>2
    <3>2. QED
      BY <1>2, <3>1 DEF KnowledgeInv, UserKnows, RoleKnows, OffCall
  <2>3. QED
    BY <2>1, <2>2
<1>10. QED
  BY <1>2, <1>7, <1>8, <1>9 DEF KnowledgeInv, NamedInv

OffInv == \A u \in off : OffCall(u)

LEMMA EndsOff ==
    ASSUME BaseInv, ApartInv, KnowledgeInv, NamedInv, OffInv, NEW h \in Handlers,
           NoCallRole(h) \/ Answer(h)
    PROVE  ApartInv' /\ KnowledgeInv' /\ NamedInv' /\ OffInv'
<1>1. /\ req[h] # Idle /\ req[h].at \in {"role", "answer"} /\ (req[h].at = "role" => req[h].role = None)
      /\ req' = [req EXCEPT ![h] = Idle] /\ UNCHANGED <<about, callRow, discord, has>>
      /\ off' = IF ~req[h].ok THEN off
                ELSE off \union (IF req[h].who \in Users THEN {req[h].who} ELSE Users)
  BY DEF NoCallRole, Answer, Done, Serving
<1>2. req[h].at \notin Renewing
  BY <1>1 DEF Renewing
<1>3. ApartInv' /\ KnowledgeInv' /\ NamedInv'
  BY <1>1, <1>2, QuietEnd DEF BaseInv
<1>4. discord \subseteq {callRow}
  BY <1>1, <1>2, NobodyRenews DEF BaseInv
<1>5. None \notin CallRoles
  BY SupportTeamsAssumption DEF CallRoles
<1>6. \A u \in off' : OffCall(u)
  <2>1. CASE ~req[h].ok
    BY <1>1, <2>1 DEF OffInv
  <2>2. CASE req[h].ok /\ req[h].who \in Users
    <3>1. UserKnows(req[h])
      BY <1>1, <2>2 DEF KnowledgeInv
    <3>2. OffCall(req[h].who)
      BY <1>1, <1>5, <2>2, <3>1 DEF UserKnows, OffCall
    <3>3. QED
      BY <1>1, <2>2, <3>2 DEF OffInv
  <2>3. CASE req[h].ok /\ req[h].who \notin Users
    <3>1. RoleKnows(req[h])
      BY <1>1, <2>3 DEF KnowledgeInv
    <3>2. \A u \in Users : OffCall(u)
      <4>1. CASE req[h].at = "role"
        <5>1. discord \subseteq {None}
          BY <1>1, <1>4, <3>1, <4>1 DEF RoleKnows
        <5>2. QED
          BY <5>1, NobodyOnCall, TypesSplit DEF BaseInv
      <4>2. QED
        BY <1>1, <3>1, <4>1 DEF RoleKnows
    <3>3. QED
      BY <1>1, <2>3, <3>2 DEF OffInv
  <2>4. QED
    BY <1>1, <2>1, <2>2, <2>3, Served DEF BaseInv
<1>7. OffInv'
  BY <1>1, <1>6 DEF OffInv, OffCall
<1>8. QED
  BY <1>3, <1>7

\* What a removal that has come to `at` with `role` knows by then.
KnowsNext(at, role) ==
    /\ at \in {"delete", "create", "name", "answer"}
    /\ at \in {"delete", "name"} => discord' \subseteq {role}
    /\ at = "create" => discord' = {}
    /\ at = "answer" => discord' \subseteq {callRow'}
    /\ at # "delete" => \A u \in Users : has'[u] \intersect CallRoles = {}
    /\ \A u \in Users : has'[u] \subseteq has[u]

\* The steps of a role's removal from forgetting the on-call role on, which is alone.
LEMMA RenewsAlone ==
    ASSUME BaseInv, Followed, ApartInv, KnowledgeInv, NamedInv, OffInv, NEW h \in Handlers,
           ForgetCallRole(h) \/ DeleteGuildRole(h) \/ CreateGuildRole(h) \/ SetOnCallRole(h)
    PROVE  ApartInv' /\ KnowledgeInv' /\ NamedInv' /\ OffInv'
<1> USE DEF BaseInv
<1>1. req[h] # Idle /\ req[h].who \in Roles /\ req[h].who \notin Users
  BY SupportTeamsAssumption DEF ForgetCallRole, DeleteGuildRole, CreateGuildRole, SetOnCallRole,
     Serving, ReqInv, Renewing
<1>2. \A g \in Handlers : g # h => req[g] = Idle
  BY <1>1 DEF ApartInv
<1>3. RoleKnows(req[h])
  BY <1>1 DEF KnowledgeInv
<1>4. CallOK /\ made \in Nat
  BY TypesSplit, SupportTeamsAssumption DEF CallOK
<1>5. off' = off /\ off \subseteq Users
  BY DEF ForgetCallRole, DeleteGuildRole, CreateGuildRole, SetOnCallRole, OutsideUntouched, ghosts, TypeInv
<1>6. ASSUME NEW at, NEW role, req' = [req EXCEPT ![h] = Removal(req[h].who, at, req[h].ok, role)],
             KnowsNext(at, role)
      PROVE  ApartInv' /\ KnowledgeInv' /\ NamedInv' /\ OffInv'
  <2> DEFINE r == Removal(req[h].who, at, req[h].ok, role)
  <2>1. r.who = req[h].who /\ r.at = at /\ r.role = role /\ r # Idle
    BY IdleIsNoRemoval DEF Removal
  <2>2. \A g \in Handlers : req'[g] = IF g = h THEN r ELSE Idle
    BY <1>2, <1>6 DEF ReqInv
  <2>3. ApartInv'
    BY <2>2 DEF ApartInv
  <2>4. KnowledgeInv'
    <3>1. ASSUME NEW g \in Handlers, req'[g] # Idle
          PROVE  req'[g] = r /\ req'[g].who \notin Users
      BY <1>1, <2>1, <2>2, <3>1
    <3>2. ASSUME NEW g \in Handlers, req'[g] # Idle PROVE RoleKnows(req[g])'
      BY <1>6, <2>1, <3>1, <3>2 DEF RoleKnows, OffCall, KnowsNext
    <3>3. QED
      BY <3>1, <3>2 DEF KnowledgeInv
  <2>5. NamedInv'
    <3>1. CASE at = "answer"
      BY <1>6, <3>1 DEF NamedInv, KnowsNext
    <3>2. CASE at # "answer"
      <4>1. req'[h] # Idle /\ req'[h].at \in Renewing
        BY <1>6, <2>1, <2>2, <3>2 DEF Renewing, KnowsNext
      <4>2. QED
        BY <4>1 DEF NamedInv
    <3>3. QED
      BY <3>1, <3>2
  <2>6. OffInv'
    BY <1>5, <1>6 DEF OffInv, OffCall, KnowsNext
  <2>7. QED
    BY <2>3, <2>4, <2>5, <2>6
<1>7. CASE ForgetCallRole(h)
  <2>1. req' = [req EXCEPT ![h] = Removal(req[h].who, "delete", req[h].ok, req[h].role)]
    BY <1>7, Gone DEF ForgetCallRole
  <2>2. req[h].at = "role" /\ UNCHANGED <<discord, has>>
    BY <1>7 DEF ForgetCallRole, OutsideUntouched, Serving
  <2>3. discord' \subseteq {req[h].role} /\ \A u \in Users : has'[u] \subseteq has[u]
    BY <1>1, <1>3, <2>2, NobodyRenews DEF RoleKnows, Renewing
  <2>4. KnowsNext("delete", req[h].role)
    BY <2>3 DEF KnowsNext
  <2>5. QED
    BY <1>6, <2>1, <2>4
<1>8. CASE DeleteGuildRole(h)
  <2>1. req' = [req EXCEPT ![h] = Removal(req[h].who, "create", req[h].ok, req[h].role)]
    BY <1>8, Gone DEF DeleteGuildRole
  <2>2. /\ req[h].at = "delete" /\ discord' = discord \ {req[h].role}
        /\ has' = [u \in Users |-> has[u] \ {req[h].role}]
    BY <1>8 DEF DeleteGuildRole, Serving
  <2>3. discord \subseteq {req[h].role}
    BY <1>3, <2>2 DEF RoleKnows
  <2>4. \A u \in Users : has[u] \intersect CallRoles \subseteq {req[h].role}
    BY <1>4, <2>3, HeldRolesExist
  <2>5. discord' = {} /\ \A u \in Users : has'[u] \intersect CallRoles = {} /\ has'[u] \subseteq has[u]
    BY <2>2, <2>3, <2>4
  <2>6. KnowsNext("create", req[h].role)
    BY <2>5 DEF KnowsNext
  <2>7. QED
    BY <1>6, <2>1, <2>6
<1>9. CASE CreateGuildRole(h)
  <2>1. /\ req' = [req EXCEPT ![h] = Removal(req[h].who, "name", req[h].ok, made')]
        /\ req[h].at = "create" /\ discord' = discord \union {made'} /\ UNCHANGED has
    BY <1>9 DEF CreateGuildRole, Serving, ReqInv
  <2>2. discord' \subseteq {made'} /\ \A u \in Users : has'[u] \intersect CallRoles = {} /\ has'[u] \subseteq has[u]
    BY <1>3, <2>1 DEF RoleKnows, OffCall
  <2>3. KnowsNext("name", made')
    BY <2>2 DEF KnowsNext
  <2>4. QED
    BY <1>6, <2>1, <2>3
<1>10. CASE SetOnCallRole(h)
  <2>1. req' = [req EXCEPT ![h] = Removal(req[h].who, "answer", req[h].ok, req[h].role)]
    BY <1>10, Gone DEF SetOnCallRole
  <2>2. /\ req[h].at = "name" /\ UNCHANGED <<discord, has>> /\ callRow' = req[h].role
    BY <1>10 DEF SetOnCallRole, OutsideUntouched, Serving
  <2>3. discord' \subseteq {callRow'} /\ \A u \in Users : has'[u] \intersect CallRoles = {} /\ has'[u] \subseteq has[u]
    BY <1>3, <2>2 DEF RoleKnows, OffCall
  <2>4. KnowsNext("answer", req[h].role)
    BY <2>3 DEF KnowsNext
  <2>5. QED
    BY <1>6, <2>1, <2>4
<1>11. QED
  BY <1>7, <1>8, <1>9, <1>10

\* A user is taken off call, as far as the handler looks and Discord lets it.
LEMMA TakesCallRole ==
    ASSUME BaseInv, ApartInv, KnowledgeInv, NamedInv, OffInv, NEW h \in Handlers, TakeCallRole(h)
    PROVE  ApartInv' /\ KnowledgeInv' /\ NamedInv' /\ OffInv'
<1> USE DEF BaseInv
<1> DEFINE u == req[h].who
           role == req[h].role
<1>1. PICK roles \in SUBSET (Roles \union CallRoles), done \in BOOLEAN :
        /\ has' = IF done /\ TakesRole(roles, role) THEN [has EXCEPT ![u] = @ \ {role}] ELSE has
        /\ req' = [req EXCEPT ![h] = Removal(u, "answer",
                       done /\ (about = "default" => role \in roles \/ role \notin has[u]), role)]
  BY DEF TakeCallRole
<1>2. /\ req[h] # Idle /\ req[h].at = "role" /\ u \in Users
      /\ UNCHANGED <<about, callRow, discord, off>>
  BY DEF TakeCallRole, Serving, ghosts
<1>3. UserKnows(req[h]) /\ req[h].at \notin Renewing
  BY <1>2 DEF KnowledgeInv, Renewing
<1>4. has[u] \intersect CallRoles \subseteq {role}
  BY <1>2, <1>3 DEF UserKnows
<1>5. has \in [Users -> SUBSET AllRoles]
  BY DEF TypeInv
<1>6. \A x \in Users : has'[x] \subseteq has[x] /\ (x # u => has'[x] = has[x])
  BY <1>1, <1>2, <1>5
<1> DEFINE good == done /\ (about = "default" => role \in roles \/ role \notin has[u])
           r == Removal(u, "answer", good, role)
<1>7. good => has'[u] \intersect CallRoles = {}
  <2>1. CASE about \in Teams
    BY <1>1, <1>2, <1>4, <1>5, <2>1 DEF TakesRole
  <2>2. CASE about = "default"
    BY <1>1, <1>2, <1>4, <1>5, <2>2 DEF TakesRole
  <2>3. CASE about = "listing"
    BY <1>2, <2>3 DEF AboutInv
  <2>4. QED
    BY <2>1, <2>2, <2>3 DEF AboutInv
<1>8. r.who = u /\ r.at = "answer" /\ r.ok = good /\ r.role = role
  BY DEF Removal
<1>9. \A g \in Handlers : req'[g] = IF g = h THEN r ELSE req[g]
  BY <1>1 DEF ReqInv
<1>10. ApartInv'
  <2>1. req'[h].who = req[h].who
    BY <1>8, <1>9
  <2>2. \A g \in Handlers : g # h => req'[g] = req[g]
    BY <1>9
  <2>3. QED
    BY <1>2, <2>1, <2>2 DEF ApartInv
<1>11. ASSUME NEW g \in Handlers, req'[g] # Idle
       PROVE  (IF req[g].who \in Users THEN UserKnows(req[g]) ELSE RoleKnows(req[g]))'
  <2>1. CASE g = h
    <3>1. req'[g] = r
      BY <1>9, <2>1
    <3>2. QED
      BY <1>2, <1>7, <1>8, <3>1 DEF UserKnows, OffCall
  <2>2. CASE g # h
    <3>1. req'[g] = req[g] /\ req[g] # Idle
      BY <1>9, <1>11, <2>2
    <3>2. req[g].who \in Users /\ req[g].who # u
      BY <1>2, <2>2, <3>1 DEF ApartInv
    <3>3. UserKnows(req[g]) /\ has'[req[g].who] = has[req[g].who]
      BY <1>6, <3>1, <3>2 DEF KnowledgeInv
    <3>4. QED
      BY <1>2, <3>1, <3>2, <3>3 DEF UserKnows, OffCall
  <2>3. QED
    BY <2>1, <2>2
<1>12. discord \subseteq {callRow}
  BY <1>2, <1>3, NobodyRenews
<1>13. OffInv'
  BY <1>2, <1>6 DEF OffInv, OffCall, TypeInv
<1>14. QED
  BY <1>2, <1>10, <1>11, <1>12, <1>13 DEF KnowledgeInv, NamedInv

LEMMA RemovalsKeepCallInv ==
    ASSUME BaseInv, CallInv, NEW h \in Handlers, StepOf(h)
    PROVE  CallInv'
<1> SUFFICES ASSUME Quiet' PROVE ApartInv' /\ KnowledgeInv' /\ NamedInv' /\ OffInv'
  BY DEF CallInv, OffInv, OffCall
<1> USE DEF BaseInv
<1>1. UNCHANGED about /\ UNCHANGED teams
  BY DEF StepOf, Begin, RemoveSupport, GetMetadata, NoCallRole, TakeCallRole, Answer, tables,
         ForgetCallRole, DeleteGuildRole, CreateGuildRole, SetOnCallRole, Fail, OutsideUntouched
<1>2. Followed /\ ~raced' /\ ~orphaned'
  BY <1>1 DEF Quiet, Followed
<1>3. ~raced /\ ~orphaned
  <2>1. CASE UNCHANGED <<raced, orphaned>>
    BY <1>2, <2>1
  <2>2. CASE \E x \in Staff \union Roles : Begin(h, x, "row")
    <3>1. PICK x \in Staff \union Roles : Begin(h, x, "row")
      BY <2>2
    <3>2. raced' = (raced \/ Meets(x)) /\ orphaned' = orphaned
      BY <3>1 DEF Begin
    <3>3. QED
      BY <1>2, <3>2
  <2>3. CASE Fail(h)
    BY <1>2, <2>3 DEF Fail
  <2>4. QED
    BY <2>1, <2>2, <2>3 DEF StepOf, RemoveSupport, GetMetadata, NoCallRole, TakeCallRole, Answer, Done,
         ForgetCallRole, DeleteGuildRole, CreateGuildRole, SetOnCallRole, OutsideUntouched, ghosts
<1>4. ApartInv /\ KnowledgeInv /\ NamedInv /\ OffInv
  BY <1>2, <1>3 DEF CallInv, Quiet, OffInv
<1>5. ASSUME NEW x \in Staff \union Roles, Begin(h, x, "row")
      PROVE  ApartInv' /\ KnowledgeInv' /\ NamedInv' /\ OffInv'
  <2>1. UNCHANGED <<off, has>>
    BY <1>5 DEF Begin
  <2>2. OffInv'
    BY <1>4, <2>1 DEF OffInv, OffCall
  <2>3. QED
    BY <1>2, <1>4, <1>5, <2>2, BeginsApart
<1>6. CASE RemoveSupport(h)
  <2> DEFINE at == IF about = "default" THEN "metadata" ELSE "role"
             r == Removal(req[h].who, at, req[h].ok, req[h].role)
  <2>1. /\ req[h] # Idle /\ req[h].at = "row" /\ Goto(h, at)
        /\ UNCHANGED <<callRow, discord, has, off>>
    BY <1>6 DEF RemoveSupport, Serving, OutsideUntouched, ghosts
  <2>2. at = "metadata" \/ (at = "role" /\ about \in Teams)
    BY <1>6 DEF RemoveSupport
  <2>3. r.who = req[h].who /\ r.at = at /\ r.ok = req[h].ok /\ r.role = req[h].role
    BY DEF Removal
  <2>4. req[h].who \in Users => UserKnows(r)
    BY <1>4, <2>1, <2>2, <2>3 DEF KnowledgeInv, UserKnows
  <2>5. req[h].who \notin Users => RoleKnows(r)
    BY <1>4, <2>1, <2>2, <2>3 DEF KnowledgeInv, RoleKnows
  <2>6. req' = [req EXCEPT ![h] = r] /\ req[h].at \notin Renewing
    BY <2>1, Gone DEF Renewing
  <2>7. ApartInv' /\ KnowledgeInv' /\ NamedInv'
    BY <1>1, <1>4, <2>1, <2>4, <2>5, <2>6, QuietStep
  <2>8. OffInv'
    BY <1>4, <2>1 DEF OffInv, OffCall
  <2>9. QED
    BY <2>7, <2>8
<1>7. CASE GetMetadata(h)
  <2> DEFINE r == Removal(req[h].who, "role", req[h].ok, callRow)
  <2>1. /\ req[h] # Idle /\ req[h].at = "metadata" /\ req' = [req EXCEPT ![h] = r]
        /\ UNCHANGED <<callRow, discord, has, off>>
    BY <1>7 DEF GetMetadata, Serving, OutsideUntouched, ghosts, ReqInv
  <2>2. req[h].at \notin Renewing
    BY <2>1 DEF Renewing
  <2>3. discord \subseteq {callRow}
    BY <1>4, <2>1, <2>2, NobodyRenews
  <2>4. \A u \in Users : has[u] \intersect CallRoles \subseteq {callRow}
    BY <2>3, HeldRolesExist, TypesSplit
  <2>5. r.who = req[h].who /\ r.at = "role" /\ r.role = callRow
    BY DEF Removal
  <2>6. req[h].who \in Users => UserKnows(r)
    BY <2>4, <2>5 DEF UserKnows
  <2>7. req[h].who \notin Users => RoleKnows(r)
    BY <2>5 DEF RoleKnows
  <2>8. ApartInv' /\ KnowledgeInv' /\ NamedInv'
    BY <1>1, <1>4, <2>1, <2>2, <2>6, <2>7, QuietStep
  <2>9. OffInv'
    BY <1>4, <2>1 DEF OffInv, OffCall
  <2>10. QED
    BY <2>8, <2>9
<1>8. CASE NoCallRole(h) \/ Answer(h)
  BY <1>4, <1>8, EndsOff
<1>9. CASE TakeCallRole(h)
  BY <1>4, <1>9, TakesCallRole
<1>10. CASE ForgetCallRole(h) \/ DeleteGuildRole(h) \/ CreateGuildRole(h) \/ SetOnCallRole(h)
  BY <1>2, <1>4, <1>10, RenewsAlone
<1>11. CASE Fail(h)
  <2>1. /\ req[h] # Idle /\ req[h].at \notin Renewing /\ req' = [req EXCEPT ![h] = Idle]
        /\ UNCHANGED <<callRow, discord, has, off>>
    BY <1>2, <1>11 DEF Fail, Renewing
  <2>2. ApartInv' /\ KnowledgeInv' /\ NamedInv'
    BY <1>1, <1>4, <2>1, QuietEnd
  <2>3. OffInv'
    BY <1>4, <2>1 DEF OffInv, OffCall
  <2>4. QED
    BY <2>2, <2>3
<1>12. QED
  BY <1>5, <1>6, <1>7, <1>8, <1>9, <1>10, <1>11 DEF StepOf

\* A member goes on call, and no removal that is under way concerns that member.
LEMMA GoingOnCallKeepsCallInv ==
    ASSUME BaseInv, CallInv, NEW u \in Staff, GoOnCall(u)
    PROVE  CallInv'
<1> SUFFICES ASSUME Quiet' PROVE ApartInv' /\ KnowledgeInv' /\ NamedInv' /\ OffInv'
  BY DEF CallInv, OffInv, OffCall
<1> USE DEF BaseInv
<1>1. /\ UNCHANGED <<about, teams, req, orphaned>> /\ off' = off \ {u}
      /\ has' = [has EXCEPT ![u] = @ \union {callRow'}]
      /\ raced' = (raced \/ \E h \in Handlers : req[h] # Idle /\ req[h].who \in {u} \union Roles)
      /\ u \in Users
  BY SupportTeamsAssumption DEF GoOnCall, tables
<1>2. Quiet /\ \A h \in Handlers : req[h] # Idle => req[h].who \notin {u} \union Roles
  BY <1>1 DEF Quiet, Followed
<1>3. ApartInv /\ KnowledgeInv /\ NamedInv /\ OffInv
  BY <1>2 DEF CallInv, OffInv
<1>4. \A h \in Handlers : req[h] # Idle => req[h].who \in Users /\ req[h].who # u /\ req[h].at \notin Renewing
  BY <1>2, Served DEF ReqInv
<1>5. discord \subseteq {callRow}
  BY <1>3, <1>4 DEF NamedInv
<1>6. discord' \subseteq {callRow'}
  <2>1. CASE callRow = None
    <3>1. discord = {}
      BY <1>5, <2>1, NobodyOnCall, TypesSplit
    <3>2. QED
      BY <2>1, <3>1 DEF GoOnCall
  <2>2. CASE callRow # None
    BY <1>5, <2>2 DEF GoOnCall
  <2>3. QED
    BY <2>1, <2>2
<1>7. \A x \in Users : x # u => has'[x] = has[x]
  BY <1>1 DEF TypeInv
<1>8. ASSUME NEW h \in Handlers, req'[h] # Idle
      PROVE  (IF req[h].who \in Users THEN UserKnows(req[h]) ELSE RoleKnows(req[h]))'
  <2>1. req'[h] = req[h] /\ req[h] # Idle
    BY <1>1, <1>8
  <2>2. req[h].who \in Users /\ has'[req[h].who] = has[req[h].who]
    BY <1>4, <1>7, <2>1
  <2>3. UserKnows(req[h])
    BY <1>3, <2>1, <2>2 DEF KnowledgeInv
  <2>4. QED
    BY <1>1, <2>1, <2>2, <2>3 DEF UserKnows, OffCall
<1>9. ApartInv'
  BY <1>1, <1>3 DEF ApartInv
<1>10. OffInv'
  BY <1>1, <1>3, <1>7 DEF OffInv, OffCall, TypeInv
<1>11. QED
  BY <1>6, <1>8, <1>9, <1>10 DEF KnowledgeInv, NamedInv

LEMMA RestKeepsCallInv ==
    ASSUME BaseInv, CallInv, UNCHANGED <<about, req, orphaned, raced, discord, has, off>>,
           Followed' => Followed /\ callRow' = callRow
    PROVE  CallInv'
<1> SUFFICES ASSUME Quiet' PROVE ApartInv' /\ KnowledgeInv' /\ NamedInv' /\ OffInv'
  BY DEF CallInv, OffInv, OffCall
<1>1. Quiet /\ callRow' = callRow
  BY DEF Quiet
<1>2. ApartInv /\ KnowledgeInv /\ NamedInv /\ OffInv
  BY <1>1 DEF CallInv, OffInv
<1>3. ASSUME NEW h \in Handlers, req'[h] # Idle
      PROVE  (IF req[h].who \in Users THEN UserKnows(req[h]) ELSE RoleKnows(req[h]))'
  BY <1>1, <1>2, <1>3 DEF KnowledgeInv, UserKnows, RoleKnows, OffCall
<1>4. ApartInv' /\ NamedInv' /\ OffInv'
  BY <1>1, <1>2 DEF ApartInv, NamedInv, OffInv, OffCall
<1>5. QED
  BY <1>3, <1>4 DEF KnowledgeInv

LEMMA CallStep == BaseInv /\ CallInv /\ [Next]_vars => CallInv'
<1> SUFFICES ASSUME BaseInv, CallInv, [Next]_vars PROVE CallInv'
  OBVIOUS
<1>1. CASE ChangeRows
  <2>1. UNCHANGED <<about, req, orphaned, raced, discord, has, off>>
    BY <1>1 DEF ChangeRows, ghosts
  <2>2. teams' \subseteq teams
    BY <1>1 DEF ChangeRows, AddDefaultMember, DeleteTeam, AddTeamMember, MakeAdmin
  <2>3. Followed' => Followed /\ callRow' = callRow
    BY <1>1, <2>1, <2>2, SupportTeamsAssumption DEF ChangeRows, Followed
  <2>4. QED
    BY <2>1, <2>3, RestKeepsCallInv
<1>2. ASSUME NEW u \in Staff, CacheMember(u) PROVE CallInv'
  <2>1. /\ UNCHANGED <<about, req, orphaned, raced, discord, has, off>>
        /\ UNCHANGED <<teams, callRow>>
    BY <1>2 DEF CacheMember, ghosts, tables
  <2>2. Followed' => Followed /\ callRow' = callRow
    BY <2>1 DEF Followed
  <2>3. QED
    BY <2>1, <2>2, RestKeepsCallInv
<1>3. CASE ListStep \/ Change
  <2>1. about' = "listing" \/ UNCHANGED teamVars
    BY <1>3 DEF ListStep, BeginList, AskStaff, ReadMember, AskLevel, AskAdmin, AskAdminRoles, AskSupport,
         AskSupportRoles, ReadTeams, AskOwnTeam, AskRoleTeam, ReadMemberAgain, ReadDirectTeams, ReadRoleTeams, ReadPanels,
         QueryFiltered, QueryAll, ListUntouched, Change
  <2>2. CASE about' = "listing"
    <3>1. BaseInv'
      BY BaseStep
    <3>2. ~Followed'
      BY <2>2, <3>1, SupportTeamsAssumption DEF BaseInv, TypeInv, TypeOK, TeamsTypeOK, Followed
    <3>3. QED
      BY <3>2 DEF CallInv, Quiet
  <2>3. CASE UNCHANGED teamVars
    <3>1. /\ UNCHANGED <<about, req, orphaned, raced, discord, has, off>>
          /\ UNCHANGED <<teams, callRow>>
      BY <2>3 DEF teamVars
    <3>2. Followed' => Followed /\ callRow' = callRow
      BY <3>1 DEF Followed
    <3>3. QED
      BY <3>1, <3>2, RestKeepsCallInv
  <2>4. QED
    BY <2>1, <2>2, <2>3
<1>4. CASE UNCHANGED vars
  <2>1. /\ UNCHANGED <<about, req, orphaned, raced, discord, has, off>>
        /\ UNCHANGED <<teams, callRow>>
    BY <1>4 DEF vars, teamVars
  <2>2. Followed' => Followed /\ callRow' = callRow
    BY <2>1 DEF Followed
  <2>3. QED
    BY <2>1, <2>2, RestKeepsCallInv
<1>5. QED
  BY <1>1, <1>2, <1>3, <1>4, NextCases, RemovalsKeepCallInv, GoingOnCallKeepsCallInv

LEMMA InitCall == Init => CallInv
<1> SUFFICES ASSUME Init PROVE CallInv
  OBVIOUS
<1>1. off = {} /\ discord = {} /\ \A h \in Handlers : req[h] = Idle
  BY DEF Init, TeamsInit
<1>2. QED
  BY <1>1 DEF CallInv, ApartInv, KnowledgeInv, NamedInv

THEOREM CallHolds == Spec => []CallInv
  BY InitBase, BaseStep, InitCall, CallStep, PTL DEF Spec

\* Whatever removals and members going on call overlap: as long as no two of them are at
\* the same role and none ends half way, Discord has no on-call role but the row's.
THEOREM CallRolesAreTheRows == Spec => []CallRolesAreNamed
<1>1. CallInv => CallRolesAreNamed
  BY DEF CallInv, Quiet, NamedInv, CallRolesAreNamed
<1>2. QED
  BY <1>1, CallHolds, PTL

\* Whoever was taken off a team holds none of its on-call roles until they go on call anew.
THEOREM RemovedAreOffCall == Spec => []RemovedMembersAreOffCall
<1>1. CallInv => RemovedMembersAreOffCall
  BY DEF CallInv, Quiet, RemovedMembersAreOffCall, OffCall
<1>2. QED
  BY <1>1, CallHolds, PTL
----
(* Lists of tickets *)

\* The account that lists, and what the tables and the member cache say of it.
Sees      == Viewable(list.who)
GuildWide == FullAccess(list.who) \/ IsOnDefaultTeam(list.who)
Own       == TeamsForUser(list.who)
Roled     == TeamsForRoles(MemberRoles(list.who))

\* The teams of the roles that were read of it, and whether its rows and those of some
\* roles give it a place in the whole guild.
Held         == TeamsForRoles(list.roles)
OwnRow       == perm[list.who] \in AsSupport
RoleRows(rs) == \E r \in rs \intersect Roles : perm[r] \in AsSupport

\* The steps of a list while its account may turn out to have a place in the whole
\* guild, and of one that will be kept to the panels of teams.
Asking == {"staff", "member", "isAdmin", "adminRoles", "isSupport", "supportRoles"}
Kept == {"teams", "ownTeam", "roleTeam", "kept", "direct", "roles", "panels", "filtered"}
ListSteps == Asking \union Kept \union {"all", "done"}

PanelsOf(T) == {p \in Panels : panelTeams[p] \intersect T # {}}

TeamPanels == PanelsOf(Own \union Roled)

\* The panels that the list will be filtered by if nothing more changes.
Coming ==
    IF list.at = "filtered" THEN list.of
    ELSE PanelsOf(CASE list.at = "panels" -> list.of
                    [] list.at = "roles" -> list.of \union Held
                    [] list.at = "direct" -> Own \union Held
                    [] OTHER -> Own \union Roled)

\* Those panels show nothing that the account sees neither before nor now, and all that
\* it sees at both times.
Agrees ==
    \A t \in Tickets : t.opener # list.who =>
        /\ t.panel \in Coming /\ t.panel # None => t \in before \union Sees
        /\ t \in before \intersect Sees => t.panel \in Coming

\* One of the questions still to come will find that place.
Ahead ==
    \/ list.at = "staff" /\ GuildWide
    \/ list.at = "member" /\ (OwnRow \/ RoleRows(MemberRoles(list.who)))
    \/ list.at \in {"isAdmin", "adminRoles", "isSupport"} /\ (OwnRow \/ RoleRows(list.roles))
    \/ list.at = "supportRoles" /\ RoleRows(list.roles)

\* What the account saw when it began, it saw by teams that it is on now.
ByTeams == \A t \in before : t.opener # list.who => t.panel \in TeamPanels

\* As long as nothing has changed, what the list has read is what there is.
Exact ==
    /\ before = Sees
    /\ list.at \in Asking \ {"staff"} => ~Privileged(list.who)
    /\ list.at \in (Asking \ {"staff", "member"}) \union {"direct", "roles"} => list.roles = MemberRoles(list.who)
    /\ list.at = "supportRoles" => ~OwnRow
    /\ list.at \in Kept => ~GuildWide
    /\ list.at = "roles" => list.of = Own
    /\ list.at = "panels" => list.of = Own \union Roled
    /\ list.at = "filtered" => list.of = TeamPanels

ListInv ==
    /\ changes \in Nat
    /\ list # NoList =>
         /\ list.at \in ListSteps /\ list.who \in Users
         /\ changes = 0 => Exact
         /\ changes <= 1 /\ list.at \in Asking => Ahead \/ ~GuildWide \/ ByTeams
         /\ changes <= 1 /\ list.at \in Kept => Agrees
         /\ ListsAreViewable

LEMMA SeesByTeams ==
    /\ \A t \in Tickets : t.panel # None /\ panelTeams[t.panel] \intersect (Own \union Roled) # {} => t \in Sees
    /\ ~GuildWide => \A t \in Sees : \/ t.opener = list.who
                                     \/ /\ t.panel \in Panels /\ t.panel # None
                                        /\ panelTeams[t.panel] \intersect (Own \union Roled) # {}
  BY TicketAccessAssumption DEF Sees, Viewable, HasPermissionToViewTicket, GuildWide, Own, Roled, TeamsOf

LEMMA SeesByTeamsNext ==
    /\ \A t \in Tickets : t.panel # None /\ panelTeams'[t.panel] \intersect (Own' \union Roled') # {} => t \in Sees'
    /\ ~GuildWide' => \A t \in Sees' : \/ t.opener = list'.who
                                       \/ /\ t.panel \in Panels /\ t.panel # None
                                          /\ panelTeams'[t.panel] \intersect (Own' \union Roled') # {}
  BY TicketAccessAssumption DEF Sees, Viewable, HasPermissionToViewTicket, GuildWide, Own, Roled, TeamsOf

\* What one change does to the account that lists: it takes access from it and no more,
\* gives it teams, or gives and takes a panel's teams.
Shrinks == /\ ~GuildWide' /\ Own' \subseteq Own /\ Roled' \subseteq Roled
           /\ \A p \in Panels : panelTeams'[p] \subseteq panelTeams[p]
Grows   == Own \subseteq Own' /\ Roled \subseteq Roled' /\ panelTeams' = panelTeams
Edits   == ~GuildWide' /\ Own' = Own /\ Roled' = Roled

LEMMA RowsShift ==
    ASSUME BaseInv, list' = list, ~GuildWide, RowsChange, UNCHANGED <<has, cached, override>>
    PROVE  Shrinks \/ Grows
<1> USE DEF GuildWide, FullAccess, Privileged, Staffed, IsOnDefaultTeam, HasLevel, AsSupport, Own, Roled,
            TeamsForUser, TeamsForRoles, MemberRoles
<1>1. ASSUME NEW t \in Teams, CreateTeam(t) PROVE Grows
  BY <1>1 DEF CreateTeam, Grows
<1>2. ASSUME NEW t \in Teams, DeleteTeam(t) PROVE Shrinks
  <2>1. teams' \subseteq teams /\ members' \subseteq members /\ perm' = perm
    BY <1>2 DEF DeleteTeam
  <2>2. \A p \in Panels : panelTeams'[p] \subseteq panelTeams[p]
    BY <1>2 DEF DeleteTeam
  <2>3. Own' \subseteq Own /\ Roled' \subseteq Roled
    BY <2>1
  <2>4. ~GuildWide'
    BY <2>1
  <2>5. QED
    BY <2>2, <2>3, <2>4 DEF Shrinks
<1>3. ASSUME UNCHANGED <<teams, panelTeams>>, members \subseteq members' PROVE Grows
  BY <1>3 DEF Grows
<1>4. QED
  BY <1>1, <1>2, <1>3 DEF RowsChange, AddDefaultMember, AddTeamMember, MakeAdmin

LEMMA ChangeShifts ==
    ASSUME BaseInv, ~GuildWide, list.who \in Users, Change
    PROVE  Shrinks \/ Grows \/ Edits
<1> USE DEF GuildWide, FullAccess, Privileged, Staffed, IsOnDefaultTeam, HasLevel, AsSupport, Own, Roled,
            TeamsForUser, TeamsForRoles, MemberRoles
<1>1. list' = list /\ has' = has /\ about = "listing"
  BY DEF Change
<1>2. ASSUME NEW p \in Panels, EditPanel(p) PROVE Edits
  BY <1>1, <1>2 DEF EditPanel, Edits
<1>3. CASE DropRow
  <2>1. /\ UNCHANGED <<teams, panelTeams, override, cached>> /\ members' \subseteq members
        /\ \/ perm' = perm
           \/ \E x \in DOMAIN perm : perm' = [perm EXCEPT ![x] = "none"]
    BY <1>3 DEF DropRow
  <2>2. Own' \subseteq Own /\ Roled' \subseteq Roled
    BY <1>1, <2>1
  <2>3. \A x \in Users \union Roles : perm'[x] = perm[x] \/ perm'[x] = "none"
    BY <2>1 DEF BaseInv, TypeInv, TypeOK, TeamsTypeOK
  <2>4. ~GuildWide'
    BY <1>1, <2>1, <2>3
  <2>5. QED
    BY <2>1, <2>2, <2>4 DEF Shrinks
<1>4. CASE GiveOrTakeRole(list.who)
  <2>1. PICK r \in Roles : cached' = [cached EXCEPT ![list.who] = IF r \in @ THEN @ \ {r} ELSE @ \union {r}]
    BY <1>4 DEF GiveOrTakeRole
  <2>2. UNCHANGED <<teams, perm, members, panelTeams, override>>
    BY <1>4 DEF GiveOrTakeRole, tables
  <2>3. cached[list.who] \in SUBSET Roles /\ cached'[list.who] \in SUBSET Roles
    <3>1. cached[list.who] \in SUBSET Roles /\ list.who \in DOMAIN cached
      BY <1>1 DEF BaseInv, AboutInv, TypeInv
    <3>2. QED
      BY <2>1, <3>1
  <2>4. \A S \in SUBSET Roles : S # None
    BY SupportTeamsAssumption
  <2>5. MemberRoles(list.who) = cached[list.who] /\ MemberRoles(list.who)' = cached'[list.who]
    BY <1>1, <2>3, <2>4
  <2>6. CASE cached'[list.who] \subseteq cached[list.who]
    <3>1. Own' = Own /\ Roled' \subseteq Roled
      BY <1>1, <2>2, <2>5, <2>6
    <3>2. ~GuildWide'
      BY <1>1, <2>2, <2>5, <2>6
    <3>3. QED
      BY <2>2, <3>1, <3>2 DEF Shrinks
  <2>7. CASE cached[list.who] \subseteq cached'[list.who]
    BY <1>1, <2>2, <2>5, <2>7 DEF Grows
  <2>8. QED
    <3>1. list.who \in DOMAIN cached
      BY DEF BaseInv, TypeInv
    <3>2. QED
      BY <2>1, <2>6, <2>7, <3>1
<1>5. CASE CreateOverride \/ DeleteOverride
  BY <1>1, <1>5 DEF CreateOverride, DeleteOverride, tables, Grows
<1>6. CASE RowsChange /\ UNCHANGED <<withDefault, override, cached>>
  BY <1>1, <1>6, RowsShift
<1>7. QED
  BY <1>2, <1>3, <1>4, <1>5, <1>6 DEF Change

\* What a place in the whole guild comes down to: rows of administrators are rows of
\* supporters.
LEMMA WideBy ==
    /\ GuildWide <=> Privileged(list.who) \/ OwnRow \/ RoleRows(MemberRoles(list.who))
    /\ GuildWide' <=> Privileged(list.who)' \/ OwnRow' \/ RoleRows(MemberRoles(list.who))'
  BY DEF GuildWide, FullAccess, IsOnDefaultTeam, HasLevel, OwnRow, RoleRows, AsSupport

\* What one change does to the rows that give such a place, to the roles of the account
\* and to the override: it touches one of them, if any, and makes rows more or fewer.
LEMMA PlacesShift ==
    ASSUME BaseInv, list.who \in Users, Change
    PROVE  /\ list' = list
           /\ \/ UNCHANGED <<perm, override>>
              \/ UNCHANGED <<perm, cached, has>>
              \/ /\ UNCHANGED <<cached, has, override>>
                 /\ \/ \A x \in Users \union Roles : perm'[x] \in AsSupport => perm[x] \in AsSupport
                    \/ \A x \in Users \union Roles : perm[x] \in AsSupport => perm'[x] \in AsSupport
<1>1. list' = list /\ has' = has /\ perm \in [Users \union Roles -> Levels]
  BY DEF Change, BaseInv, TypeInv, TypeOK, TeamsTypeOK
<1>2. ASSUME NEW p \in Panels, EditPanel(p) PROVE UNCHANGED <<perm, override>>
  BY <1>2 DEF EditPanel
<1>3. CASE DropRow
  <2>1. UNCHANGED <<cached, override>>
    BY <1>3 DEF DropRow
  <2>2. \A x \in Users \union Roles : perm'[x] = perm[x] \/ perm'[x] = "none"
    BY <1>1, <1>3 DEF DropRow
  <2>3. "none" \notin AsSupport
    BY DEF AsSupport
  <2>4. QED
    BY <1>1, <2>1, <2>2, <2>3
<1>4. CASE GiveOrTakeRole(list.who)
  BY <1>1, <1>4 DEF GiveOrTakeRole, tables
<1>5. CASE CreateOverride \/ DeleteOverride
  BY <1>1, <1>5 DEF CreateOverride, DeleteOverride, tables
<1>6. CASE RowsChange /\ UNCHANGED <<withDefault, override, cached>>
  <2>1. ASSUME NEW r \in Roles, AddDefaultMember(r)
        PROVE  \A x \in Users \union Roles : perm[x] \in AsSupport => perm'[x] \in AsSupport
    BY <1>1, <2>1 DEF AddDefaultMember, AsSupport
  <2>2. ASSUME NEW y \in Staff \union Roles, MakeAdmin(y)
        PROVE  \A x \in Users \union Roles : perm[x] \in AsSupport => perm'[x] \in AsSupport
    BY <1>1, <2>2 DEF MakeAdmin, AsSupport
  <2>3. \A t \in Teams : CreateTeam(t) \/ DeleteTeam(t) => perm' = perm
    BY DEF CreateTeam, DeleteTeam
  <2>4. \A r \in Roles, t \in Teams : AddTeamMember(t, r) => perm' = perm
    BY DEF AddTeamMember
  <2>5. QED
    BY <1>1, <1>6, <2>1, <2>2, <2>3, <2>4 DEF RowsChange
<1>7. QED
  BY <1>1, <1>2, <1>3, <1>4, <1>5, <1>6 DEF Change

\* One change while it is asked whether the account has a place in the whole guild: a
\* question still to come finds one, or there is none any more, or there was none
\* before, and then what the account saw is what its teams show it.
LEMMA ChangeAsks ==
    ASSUME BaseInv, Exact, list.who \in Users, list.at \in Asking, Change
    PROVE  Ahead' \/ ~GuildWide' \/ ByTeams'
<1>1. list' = list /\ before' = before /\ before = Sees
  BY DEF Change, Exact
<1>2. CASE ~GuildWide
  <2>1. Shrinks \/ Grows \/ Edits
    BY <1>2, ChangeShifts
  <2>2. CASE Grows
    <3>1. Sees \subseteq Tickets
      BY DEF Sees, Viewable
    <3>2. ASSUME NEW t \in before', t.opener # list'.who PROVE t.panel \in TeamPanels'
      <4>1. t.panel \in Panels /\ panelTeams[t.panel] \intersect (Own \union Roled) # {}
        BY <1>1, <1>2, <3>2, SeesByTeams
      <4>2. QED
        BY <2>2, <4>1 DEF Grows, TeamPanels, PanelsOf
    <3>3. QED
      BY <3>2 DEF ByTeams
  <2>3. QED
    BY <2>1, <2>2 DEF Shrinks, Edits
<1>3. CASE GuildWide
  <2> SUFFICES ASSUME GuildWide' PROVE Ahead'
    OBVIOUS
  <2>1. /\ Privileged(list.who) \/ OwnRow \/ RoleRows(MemberRoles(list.who))
        /\ Privileged(list.who)' \/ OwnRow' \/ RoleRows(MemberRoles(list.who))'
    BY <1>3, WideBy
  <2>2. override' = override => (Privileged(list.who)' <=> Privileged(list.who))
    BY <1>1 DEF Privileged, Staffed
  <2>3. /\ perm' = perm => (OwnRow' <=> OwnRow) /\ (RoleRows(list.roles)' <=> RoleRows(list.roles))
        /\ UNCHANGED <<cached, has>> => MemberRoles(list.who)' = MemberRoles(list.who)
    BY <1>1 DEF OwnRow, RoleRows, MemberRoles
  <2>4. CASE list.at = "staff"
    BY <1>1, <2>4 DEF Ahead
  <2>5. CASE list.at = "member"
    <3>1. ~Privileged(list.who)
      BY <2>5 DEF Exact, Asking
    <3>2. CASE UNCHANGED override
      BY <1>1, <2>1, <2>2, <2>5, <3>1, <3>2 DEF Ahead
    <3>3. CASE UNCHANGED <<perm, cached, has>>
      <4>1. RoleRows(MemberRoles(list.who))' <=> RoleRows(MemberRoles(list.who))
        BY <2>3, <3>3 DEF RoleRows
      <4>2. QED
        BY <1>1, <2>1, <2>3, <2>5, <3>1, <3>3, <4>1 DEF Ahead
    <3>4. QED
      BY <3>2, <3>3, PlacesShift
  <2>6. CASE list.at \in {"isAdmin", "adminRoles", "isSupport", "supportRoles"}
    <3>1. /\ ~Privileged(list.who) /\ list.roles = MemberRoles(list.who)
          /\ list.at = "supportRoles" => ~OwnRow
      BY <2>6 DEF Exact, Asking
    <3>2. (list.at # "supportRoles" /\ OwnRow) \/ RoleRows(list.roles)
      BY <2>1, <3>1
    <3>3. CASE perm' = perm
      BY <1>1, <2>3, <2>6, <3>2, <3>3 DEF Ahead
    <3>4. CASE \A x \in Users \union Roles : perm[x] \in AsSupport => perm'[x] \in AsSupport
      <4>1. (OwnRow => OwnRow') /\ (RoleRows(list.roles) => RoleRows(list.roles)')
        BY <1>1, <3>4 DEF OwnRow, RoleRows
      <4>2. QED
        BY <1>1, <2>6, <3>2, <4>1 DEF Ahead
    <3>5. CASE /\ UNCHANGED <<cached, has, override>>
               /\ \A x \in Users \union Roles : perm'[x] \in AsSupport => perm[x] \in AsSupport
      <4>1. OwnRow' => OwnRow
        BY <1>1, <3>5 DEF OwnRow
      <4>2. list'.roles = MemberRoles(list.who)' /\ ~Privileged(list.who)'
        BY <1>1, <2>2, <2>3, <3>1, <3>5
      <4>3. RoleRows(MemberRoles(list.who))' <=> RoleRows(list.roles)'
        BY <4>2 DEF RoleRows
      <4>4. (list.at # "supportRoles" /\ OwnRow') \/ RoleRows(list.roles)'
        BY <2>1, <3>1, <4>1, <4>2, <4>3
      <4>5. QED
        BY <1>1, <2>6, <4>4 DEF Ahead
    <3>6. QED
      BY <3>3, <3>4, <3>5, PlacesShift
  <2>7. QED
    BY <2>4, <2>5, <2>6 DEF Asking
<1>4. QED
  BY <1>2, <1>3

\* The teams of the roles that were read before a change are those of the account's
\* roles after it, or before it, and then nothing else has changed.
LEMMA HeldShift ==
    ASSUME BaseInv, list.who \in Users, Change, list.roles = MemberRoles(list.who)
    PROVE  \/ Held' = Roled'
           \/ Held' = Roled /\ Own' = Own /\ panelTeams' = panelTeams
<1>1. list' = list
  BY DEF Change
<1>2. CASE UNCHANGED <<cached, has>>
  <2>1. MemberRoles(list.who)' = MemberRoles(list.who)
    BY <1>1, <1>2 DEF MemberRoles
  <2>2. QED
    BY <1>1, <2>1 DEF Held, Roled
<1>3. CASE UNCHANGED tables
  BY <1>1, <1>3 DEF Held, Roled, Own, TeamsForRoles, TeamsForUser, tables
<1>4. UNCHANGED <<cached, has>> \/ UNCHANGED tables
  BY DEF Change, EditPanel, DropRow, GiveOrTakeRole, CreateOverride, DeleteOverride
<1>5. QED
  BY <1>2, <1>3, <1>4

\* One change while a list is made: what it will come to still agrees with what the
\* account saw when it began or sees now.
LEMMA ChangeAgrees ==
    ASSUME BaseInv, Exact, list.who \in Users, list.at \in Kept, Change
    PROVE  Agrees'
<1>1. list' = list /\ before' = before /\ before = Sees /\ ~GuildWide
  BY DEF Change, Exact
<1>2. Shrinks \/ Grows \/ Edits
  BY <1>1, ChangeShifts
<1>3. TeamPanels = {p \in Panels : panelTeams[p] \intersect (Own \union Roled) # {}}
  BY DEF TeamPanels, PanelsOf
<1>4. \/ Coming' = {p \in Panels : panelTeams'[p] \intersect (Own' \union Roled') # {}}
      \/ Coming' = {p \in Panels : panelTeams'[p] \intersect (Own \union Roled') # {}}
      \/ Coming' = {p \in Panels : panelTeams'[p] \intersect (Own \union Roled) # {}}
      \/ Coming' = TeamPanels
  <2>1. CASE list.at \in Kept \ {"direct", "roles", "panels", "filtered"}
    BY <1>1, <2>1 DEF Coming, PanelsOf, Kept
  <2>2. CASE list.at = "direct"
    <3>1. Coming' = {p \in Panels : panelTeams'[p] \intersect (Own' \union Held') # {}}
      BY <1>1, <2>2 DEF Coming, PanelsOf
    <3>2. Held' = Roled' \/ (Held' = Roled /\ Own' = Own)
      BY <2>2, HeldShift DEF Exact
    <3>3. QED
      BY <3>1, <3>2
  <2>6. CASE list.at = "roles"
    <3>1. Coming' = {p \in Panels : panelTeams'[p] \intersect (Own \union Held') # {}}
      BY <1>1, <2>6 DEF Coming, PanelsOf, Exact
    <3>2. Held' = Roled' \/ Held' = Roled
      BY <2>6, HeldShift DEF Exact
    <3>3. QED
      BY <3>1, <3>2
  <2>3. CASE list.at = "panels"
    BY <1>1, <2>3 DEF Coming, PanelsOf, Exact
  <2>4. CASE list.at = "filtered"
    <3>1. list.of = TeamPanels
      BY <2>4 DEF Exact
    <3>2. QED
      BY <1>1, <2>4, <3>1 DEF Coming
  <2>5. QED
    BY <2>1, <2>2, <2>3, <2>4, <2>6 DEF Kept
<1>5. ASSUME NEW t \in Tickets, t.opener # list.who
      PROVE  /\ t.panel \in Coming' /\ t.panel # None => t \in before \union Sees'
             /\ t \in before \intersect Sees' => t.panel \in Coming'
  <2>1. t.panel \in Panels \union {None}
    BY TicketAccessAssumption
  <2>2. /\ t.panel # None /\ panelTeams[t.panel] \intersect (Own \union Roled) # {} => t \in before
        /\ t \in before => /\ t.panel \in Panels /\ t.panel # None
                           /\ panelTeams[t.panel] \intersect (Own \union Roled) # {}
    BY <1>1, <1>5, SeesByTeams
  <2>3. t.panel # None /\ panelTeams'[t.panel] \intersect (Own' \union Roled') # {} => t \in Sees'
    BY SeesByTeamsNext
  <2>4. ~GuildWide' /\ t \in Sees' => /\ t.panel \in Panels /\ t.panel # None
                                      /\ panelTeams'[t.panel] \intersect (Own' \union Roled') # {}
    BY <1>1, <1>5, SeesByTeamsNext
  <2>5. CASE Shrinks
    <3>1. t.panel \in Coming' /\ t.panel # None => t \in before \union Sees'
      BY <1>3, <1>4, <2>1, <2>2, <2>3, <2>5 DEF Shrinks
    <3>2. t \in before \intersect Sees' => t.panel \in Coming'
      BY <1>3, <1>4, <2>1, <2>2, <2>4, <2>5 DEF Shrinks
    <3>3. QED
      BY <3>1, <3>2
  <2>6. CASE Grows
    <3>1. t.panel \in Coming' /\ t.panel # None => t \in before \union Sees'
      BY <1>3, <1>4, <2>1, <2>2, <2>3, <2>6 DEF Grows
    <3>2. t \in before \intersect Sees' => t.panel \in Coming'
      BY <1>3, <1>4, <2>1, <2>2, <2>6 DEF Grows
    <3>3. QED
      BY <3>1, <3>2
  <2>7. CASE Edits
    <3>1. t.panel \in Coming' /\ t.panel # None => t \in before \union Sees'
      BY <1>3, <1>4, <2>1, <2>2, <2>3, <2>7 DEF Edits
    <3>2. t \in before \intersect Sees' => t.panel \in Coming'
      BY <1>3, <1>4, <2>1, <2>2, <2>4, <2>7 DEF Edits
    <3>3. QED
      BY <3>1, <3>2
  <2>8. QED
    BY <1>2, <2>5, <2>6, <2>7
<1>6. QED
  BY <1>1, <1>5 DEF Agrees

\* Nothing but the list moves.
ListMoves == UNCHANGED <<teamVars, withDefault, override, changes>>

LEMMA SameSight ==
    ASSUME ListMoves, list'.who = list.who
    PROVE  /\ Sees' = Sees /\ GuildWide' = GuildWide /\ Own' = Own /\ Roled' = Roled
           /\ panelTeams' = panelTeams
           /\ MemberRoles(list.who)' = MemberRoles(list.who) /\ (Privileged(list.who)' <=> Privileged(list.who))
           /\ (OwnRow' <=> OwnRow) /\ perm' = perm
<1>1. UNCHANGED <<teams, perm, members, panelTeams, has, cached, withDefault, override>>
  BY DEF ListMoves, teamVars
<1>2. GuildWide' = GuildWide /\ Own' = Own /\ Roled' = Roled
  BY <1>1 DEF GuildWide, FullAccess, Privileged, Staffed, IsOnDefaultTeam, HasLevel, AsSupport, Own, Roled,
        TeamsForUser, TeamsForRoles, MemberRoles
<1>3. Sees' = Sees
  BY <1>1 DEF Sees, Viewable, HasPermissionToViewTicket, FullAccess, Privileged, Staffed, IsOnDefaultTeam,
        HasLevel, AsSupport, TeamsOf, TeamsForUser, TeamsForRoles, MemberRoles
<1>4. /\ MemberRoles(list.who)' = MemberRoles(list.who) /\ (Privileged(list.who)' <=> Privileged(list.who))
      /\ (OwnRow' <=> OwnRow)
  BY <1>1 DEF MemberRoles, Privileged, Staffed, OwnRow
<1>5. QED
  BY <1>1, <1>2, <1>3, <1>4

\* A list whose account may have a place in the whole guild goes on.
LEMMA AskedOn ==
    ASSUME ListInv, ListMoves, before' = before, list # NoList, list.at \in Asking,
           list'.who = list.who, list'.at \in Asking,
           Ahead => Ahead',
           list.at = "staff" => ~Privileged(list.who),
           list'.at \in Asking \ {"staff", "member"} =>
             \/ list'.roles = MemberRoles(list.who)
             \/ list.at \in Asking \ {"staff", "member"} /\ list'.roles = list.roles,
           list'.at = "supportRoles" => ~OwnRow
    PROVE  ListInv'
<1>1. /\ Sees' = Sees /\ GuildWide' = GuildWide /\ Own' = Own /\ Roled' = Roled
      /\ panelTeams' = panelTeams
      /\ MemberRoles(list.who)' = MemberRoles(list.who) /\ (Privileged(list.who)' <=> Privileged(list.who))
      /\ (OwnRow' <=> OwnRow)
  BY SameSight
<1>2. changes' = changes /\ changes \in Nat
  BY DEF ListInv, ListMoves
<1>3. list'.at \in ListSteps /\ list'.who \in Users /\ list'.at \notin Kept
  BY DEF ListInv, ListSteps, Asking, Kept
<1>4. changes = 0 => Exact'
  <2>1. SUFFICES ASSUME changes = 0 PROVE Exact'
    OBVIOUS
  <2>2. Exact
    BY <2>1 DEF ListInv
  <2>3. ~Privileged(list.who)'
    BY <1>1, <2>2 DEF Exact
  <2>4. list'.at \in Asking \ {"staff", "member"} => list'.roles = MemberRoles(list.who)'
    BY <1>1, <2>2 DEF Exact
  <2>5. list'.at \notin {"direct", "roles", "panels", "filtered"}
    BY DEF Asking
  <2>6. QED
    BY <1>1, <1>3, <2>2, <2>3, <2>4, <2>5 DEF Exact
<1>5. changes <= 1 => Ahead' \/ ~GuildWide' \/ ByTeams'
  <2>1. TeamPanels' = TeamPanels
    BY <1>1 DEF TeamPanels, PanelsOf
  <2>2. ByTeams => ByTeams'
    BY <2>1 DEF ByTeams
  <2>3. QED
    BY <1>1, <2>2 DEF ListInv
<1>6. ListsAreViewable'
  BY DEF ListsAreViewable, Listing, Asking
<1>7. QED
  BY <1>2, <1>3, <1>4, <1>5, <1>6 DEF ListInv

\* A list turns out to show everything.
LEMMA AllNext ==
    ASSUME ListInv, ListMoves, before' = before, list # NoList, list'.who = list.who, list'.at = "all"
    PROVE  ListInv'
<1>1. Sees' = Sees /\ changes' = changes /\ changes \in Nat
  BY SameSight DEF ListInv, ListMoves
<1>2. list'.at \in ListSteps \ (Asking \union Kept) /\ list'.who \in Users
  BY DEF ListInv, ListSteps, Asking, Kept
<1>3. changes = 0 => Exact'
  BY <1>1, <1>2 DEF ListInv, Exact, Kept
<1>4. ListsAreViewable'
  BY DEF ListsAreViewable, Listing
<1>5. QED
  BY <1>1, <1>2, <1>3, <1>4 DEF ListInv

\* A list that is kept to its teams goes on, and comes to the same panels.
LEMMA KeptOn ==
    ASSUME ListInv, ListMoves, before' = before, list # NoList, list.at \in Kept,
           list'.who = list.who, list'.at \in Kept,
           Coming' = Coming,
           list'.at \in {"direct", "roles"} =>
               \/ list'.roles = MemberRoles(list.who)
               \/ list.at = "direct" /\ list'.roles = list.roles,
           list'.at = "roles" => list'.of = Own,
           list'.at = "panels" => list'.of = list.of \union Held /\ list.at = "roles",
           list'.at = "filtered" => list'.of = {p \in Panels : panelTeams[p] \intersect list.of # {}} /\ list.at = "panels"
    PROVE  ListInv'
<1>1. /\ Sees' = Sees /\ GuildWide' = GuildWide /\ Own' = Own /\ Roled' = Roled
      /\ panelTeams' = panelTeams /\ MemberRoles(list.who)' = MemberRoles(list.who)
  BY SameSight
<1>2. changes' = changes /\ changes \in Nat
  BY DEF ListInv, ListMoves
<1>3. list'.at \in ListSteps /\ list'.who \in Users /\ list'.at \notin Asking
  BY DEF ListInv, ListSteps, Asking, Kept
<1>4. changes = 0 => Exact'
  <2>1. SUFFICES ASSUME changes = 0 PROVE Exact'
    OBVIOUS
  <2>2. Exact
    BY <2>1 DEF ListInv
  <2>3. TeamPanels' = TeamPanels
    BY <1>1 DEF TeamPanels, PanelsOf
  <2>4. list'.at = "filtered" => list'.of = TeamPanels
    BY <2>2 DEF Exact, TeamPanels, PanelsOf
  <2>5. list'.at \in {"direct", "roles"} => list'.roles = MemberRoles(list.who)'
    BY <1>1, <2>2 DEF Exact
  <2>6. list'.at = "panels" => list'.of = Own \union Roled
    BY <2>2 DEF Exact, Held, Roled
  <2>7. list'.at # "supportRoles" /\ list'.at \notin Asking
    BY <1>3 DEF Asking
  <2>8. QED
    BY <1>1, <2>2, <2>3, <2>4, <2>5, <2>6, <2>7 DEF Exact
<1>5. changes <= 1 => Agrees'
  BY <1>1 DEF ListInv, Agrees
<1>6. ListsAreViewable'
  BY DEF ListsAreViewable, Listing, Kept
<1>7. QED
  BY <1>2, <1>3, <1>4, <1>5, <1>6 DEF ListInv

LEMMA ListSeen ==
    ASSUME ListInv, ListMoves, before' = before, list # NoList, list'.who = list.who, list'.at = "done",
           NEW P, list'.of = P, NEW S, list'.seen = S,
           None \notin P => list.at = "filtered" /\ P = list.of,
           P # {} => S = {t \in Tickets : t.panel \in P}
    PROVE  ListInv'
<1>1. Sees' = Sees /\ changes' = changes
  BY SameSight DEF ListMoves
<1>2. list'.at \in ListSteps \ (Asking \union Kept) /\ list'.who \in Users /\ changes' \in Nat
  BY <1>1 DEF ListInv, ListSteps, Asking, Kept
<1>3. changes = 0 => Exact'
  <2>1. changes = 0 => before' = Sees'
    BY <1>1 DEF ListInv, Exact
  <2>2. QED
    BY <1>2, <2>1 DEF Exact, Kept
<1>4. ListsAreViewable'
  <2>1. SUFFICES ASSUME None \notin P, P # {}, changes <= 1
                 PROVE  /\ \A t \in S : t.opener # list.who => t \in before \union Sees
                        /\ \A t \in before \intersect Sees : t.opener # list.who => t \in S
    BY <1>1 DEF ListsAreViewable, OfOthers, Sees
  <2>2. list.at = "filtered" /\ P = list.of /\ S = {t \in Tickets : t.panel \in P}
    BY <2>1
  <2>3. Agrees /\ Coming = P
    BY <2>1, <2>2 DEF ListInv, Kept, Coming
  <2>4. Sees \subseteq Tickets
    BY DEF Sees, Viewable
  <2>5. QED
    BY <2>1, <2>2, <2>3, <2>4 DEF Agrees
<1>5. QED
  BY <1>1, <1>2, <1>3, <1>4 DEF ListInv

LEMMA ListStepKeepsListInv ==
    ASSUME BaseInv, ListInv, ListStep
    PROVE  ListInv'
<1>1. UNCHANGED <<teamVars, withDefault, override, changes>>
  BY DEF ListStep, BeginList, AskStaff, ReadMember, AskLevel, AskAdmin, AskAdminRoles, AskSupport,
         AskSupportRoles, ReadTeams, AskOwnTeam, AskRoleTeam, ReadMemberAgain, ReadDirectTeams, ReadRoleTeams, ReadPanels,
         QueryFiltered, QueryAll, ListUntouched
<1>2. ListMoves
  BY <1>1 DEF ListMoves
<1>3. CASE \E u \in Users : BeginList(u)
  <2>1. PICK u \in Users : BeginList(u)
    BY <1>3
  <2>2. /\ list' = [at |-> "staff", who |-> u] /\ before' = Viewable(u)
    BY <2>1 DEF BeginList
  <2>3. list'.at = "staff" /\ list'.who = u
    BY <2>2
  <2>4. Viewable(u)' = Viewable(u)
    BY <1>1 DEF teamVars, Viewable, HasPermissionToViewTicket, FullAccess, Privileged, Staffed, IsOnDefaultTeam,
        HasLevel, AsSupport, TeamsOf, TeamsForUser, TeamsForRoles, MemberRoles
  <2>5. before' = Sees'
    BY <2>2, <2>3, <2>4 DEF Sees
  <2>6. Exact' /\ (Ahead' \/ ~GuildWide')
    BY <2>3, <2>5 DEF Exact, Kept, Asking, Ahead
  <2>7. ListsAreViewable'
    BY <2>3 DEF ListsAreViewable, Listing
  <2>8. QED
    BY <1>1, <2>3, <2>6, <2>7 DEF ListInv, ListSteps, Asking, Kept
<1>4. CASE AskStaff
  <2>1. /\ list.at = "staff" /\ before' = before /\ list # NoList
        /\ list' = [at |-> IF Privileged(list.who) THEN "all" ELSE "member", who |-> list.who]
    BY <1>4 DEF AskStaff, Listing, ListUntouched, NoList
  <2>2. list'.who = list.who
    BY <2>1
  <2>3. CASE Privileged(list.who)
    BY <1>2, <2>1, <2>2, <2>3, AllNext
  <2>4. CASE ~Privileged(list.who)
    <3>1. list'.at = "member"
      BY <2>1, <2>4
    <3>2. Ahead => Ahead'
      <4>1. /\ MemberRoles(list.who)' = MemberRoles(list.who) /\ (OwnRow' <=> OwnRow) /\ perm' = perm
        BY <1>2, <2>2, SameSight
      <4>2. Ahead => OwnRow \/ RoleRows(MemberRoles(list.who))
        BY <2>1, <2>4, WideBy DEF Ahead
      <4>3. RoleRows(MemberRoles(list.who))' <=> RoleRows(MemberRoles(list.who))
        BY <4>1 DEF RoleRows
      <4>4. QED
        BY <2>2, <3>1, <4>1, <4>2, <4>3 DEF Ahead
    <3>3. QED
      BY <1>2, <2>1, <2>2, <2>4, <3>1, <3>2, AskedOn DEF Asking
  <2>5. QED
    BY <2>3, <2>4
<1>13. CASE ReadMember
  <2>1. /\ list.at = "member" /\ before' = before /\ list # NoList
        /\ list' = [at |-> "isAdmin", who |-> list.who, roles |-> MemberRoles(list.who)]
    BY <1>13 DEF ReadMember, Listing, ListUntouched, NoList
  <2>2. list'.who = list.who /\ list'.at = "isAdmin" /\ list'.roles = MemberRoles(list.who)
    BY <2>1
  <2>3. (OwnRow' <=> OwnRow) /\ perm' = perm
    BY <1>2, <2>2, SameSight
  <2>4. Ahead => Ahead'
    BY <2>1, <2>2, <2>3 DEF Ahead, RoleRows
  <2>5. QED
    BY <1>2, <2>1, <2>2, <2>4, AskedOn DEF Asking
<1>14. ASSUME NEW at, NEW xs, NEW levels, NEW next, AskLevel(at, xs, levels, next), at \in Asking \ {"staff", "member"}
       PROVE  /\ list.at = at /\ before' = before /\ list # NoList
              /\ list'.who = list.who /\ list'.roles = list.roles
              /\ perm' = perm /\ (OwnRow' <=> OwnRow) /\ (RoleRows(list.roles)' <=> RoleRows(list.roles))
              /\ \/ list'.at = "all" /\ ListInv'
                 \/ list'.at = next /\ \A x \in xs : perm[x] \notin levels
  <2>1. /\ list.at = at /\ before' = before /\ list # NoList
        /\ list' = [at |-> IF \E x \in xs : perm[x] \in levels THEN "all" ELSE next, who |-> list.who,
                    roles |-> list.roles]
    BY <1>14 DEF AskLevel, Listing, ListUntouched, Asking, NoList
  <2>2. /\ list'.who = list.who /\ list'.roles = list.roles
        /\ list'.at = IF \E x \in xs : perm[x] \in levels THEN "all" ELSE next
    BY <2>1
  <2>3. (OwnRow' <=> OwnRow) /\ perm' = perm
    BY <1>2, <2>2, SameSight
  <2>4. RoleRows(list.roles)' <=> RoleRows(list.roles)
    BY <2>2, <2>3 DEF RoleRows
  <2>5. list'.at = "all" => ListInv'
    BY <1>2, <2>1, <2>2, AllNext
  <2>6. QED
    BY <2>1, <2>2, <2>3, <2>4, <2>5
<1>15. CASE AskAdmin \/ AskAdminRoles \/ AskSupport
  <2>1. /\ AskAdmin => AskLevel("isAdmin", {list.who}, {"admin"}, "adminRoles")
        /\ AskAdminRoles => AskLevel("adminRoles", list.roles \intersect Roles, {"admin"}, "isSupport")
        /\ AskSupport => AskLevel("isSupport", {list.who}, AsSupport, "supportRoles")
    BY DEF AskAdmin, AskAdminRoles, AskSupport
  <2>2. /\ list.at \in {"isAdmin", "adminRoles", "isSupport"} /\ before' = before /\ list # NoList
        /\ list'.who = list.who /\ list'.roles = list.roles
        /\ (OwnRow' <=> OwnRow) /\ (RoleRows(list.roles)' <=> RoleRows(list.roles))
        /\ \/ ListInv'
           \/ list'.at \in {"adminRoles", "isSupport"}
           \/ list'.at = "supportRoles" /\ ~OwnRow
    BY <1>14, <1>15, <2>1 DEF Asking, OwnRow
  <2>3. CASE \/ list'.at \in {"adminRoles", "isSupport"}
             \/ list'.at = "supportRoles" /\ ~OwnRow
    <3>1. Ahead => Ahead'
      BY <2>2, <2>3 DEF Ahead
    <3>2. QED
      BY <1>2, <2>2, <2>3, <3>1, AskedOn DEF Asking
  <2>4. QED
    BY <2>2, <2>3
<1>16. CASE AskSupportRoles
  <2>1. AskLevel("supportRoles", list.roles \intersect Roles, AsSupport, "teams")
    BY <1>16 DEF AskSupportRoles
  <2>2. /\ list.at = "supportRoles" /\ before' = before /\ list # NoList /\ list'.who = list.who
        /\ ListInv' \/ (list'.at = "teams" /\ ~RoleRows(list.roles))
    BY <1>14, <2>1 DEF Asking, RoleRows
  <2>3. CASE list'.at = "teams" /\ ~RoleRows(list.roles)
    <3>1. /\ Sees' = Sees /\ GuildWide' = GuildWide /\ Own' = Own /\ Roled' = Roled
          /\ panelTeams' = panelTeams
      BY <1>2, <2>2, SameSight
    <3>2. list'.at \in ListSteps \ Asking /\ list'.who \in Users
      BY <2>2, <2>3 DEF ListInv, ListSteps, Asking, Kept
    <3>3. changes' = changes /\ changes \in Nat
      BY <1>1, <2>2 DEF ListInv
    <3>4. changes = 0 => Exact'
      <4>1. SUFFICES ASSUME changes = 0 PROVE Exact'
        OBVIOUS
      <4>2. Exact
        BY <2>2, <4>1 DEF ListInv
      <4>3. ~GuildWide
        BY <2>2, <2>3, <4>2, WideBy DEF Exact, Asking
      <4>4. QED
        BY <2>2, <2>3, <3>1, <3>2, <4>2, <4>3 DEF Exact
    <3>5. changes <= 1 => Agrees'
      <4>1. SUFFICES ASSUME changes <= 1 PROVE Agrees'
        OBVIOUS
      <4>2. ~GuildWide \/ ByTeams
        BY <2>2, <2>3, <4>1 DEF ListInv, Asking, Ahead
      <4>3. /\ Coming' = {p \in Panels : panelTeams'[p] \intersect (Own' \union Roled') # {}}
            /\ Coming' = TeamPanels
        BY <2>3, <3>1 DEF Coming, PanelsOf, TeamPanels
      <4>4. ASSUME NEW t \in Tickets, t.opener # list'.who
            PROVE  /\ t.panel \in Coming' /\ t.panel # None => t \in before' \union Sees'
                   /\ t \in before' \intersect Sees' => t.panel \in Coming'
        <5>1. t.panel \in Coming' /\ t.panel # None => t \in before' \union Sees'
          BY <4>3, SeesByTeamsNext
        <5>2. CASE ~GuildWide'
          BY <4>3, <4>4, <5>1, <5>2, SeesByTeamsNext
        <5>3. CASE ByTeams
          BY <2>2, <4>3, <4>4, <5>1, <5>3 DEF ByTeams
        <5>4. QED
          BY <3>1, <4>2, <5>2, <5>3
      <4>5. QED
        BY <4>4 DEF Agrees
    <3>6. ListsAreViewable'
      BY <2>3 DEF ListsAreViewable, Listing
    <3>7. QED
      BY <3>2, <3>3, <3>4, <3>5, <3>6 DEF ListInv
  <2>4. QED
    BY <2>2, <2>3
<1>5. ASSUME list.at \in Kept, before' = before, list'.who = list.who PROVE
        /\ list # NoList /\ Own' = Own /\ Roled' = Roled /\ panelTeams' = panelTeams
  BY <1>2, <1>5, SameSight DEF Kept, NoList
<1>6. CASE ReadTeams \/ AskOwnTeam \/ AskRoleTeam
  <2>1. /\ list.at \in {"teams", "ownTeam", "roleTeam"} /\ before' = before
        /\ list'.who = list.who /\ list'.at \in {"ownTeam", "roleTeam", "kept", "all"}
    BY <1>6 DEF ReadTeams, AskOwnTeam, AskRoleTeam, Listing, ListUntouched
  <2>2. list # NoList /\ Own' = Own /\ Roled' = Roled /\ panelTeams' = panelTeams
    BY <1>5, <2>1 DEF Kept
  <2>3. CASE list'.at = "all"
    BY <1>2, <2>1, <2>2, <2>3, AllNext
  <2>4. CASE list'.at # "all"
    <3>1. Coming' = Coming
      BY <2>1, <2>2, <2>4 DEF Coming, PanelsOf
    <3>2. QED
      BY <1>2, <2>1, <2>2, <2>4, <3>1, KeptOn DEF Kept
  <2>5. QED
    BY <2>3, <2>4
<1>17. CASE ReadMemberAgain
  <2>1. /\ list.at = "kept" /\ before' = before
        /\ list' = [at |-> "direct", who |-> list.who, roles |-> MemberRoles(list.who)]
    BY <1>17 DEF ReadMemberAgain, Listing, ListUntouched
  <2>2. list'.who = list.who /\ list'.at = "direct" /\ list'.roles = MemberRoles(list.who)
    BY <2>1
  <2>3. list # NoList /\ Own' = Own /\ Roled' = Roled /\ panelTeams' = panelTeams
    BY <1>5, <2>1, <2>2 DEF Kept
  <2>4. MemberRoles(list.who)' = MemberRoles(list.who)
    BY <1>2, <2>2, SameSight
  <2>5. Held' = Roled'
    BY <2>2, <2>4 DEF Held, Roled
  <2>6. Coming' = Coming
    BY <2>1, <2>2, <2>3, <2>5 DEF Coming, PanelsOf
  <2>7. /\ list.at \in Kept /\ list'.at \in Kept /\ list'.at \notin {"roles", "panels", "filtered"}
        /\ before' = before /\ list'.roles = MemberRoles(list.who)
    BY <2>1, <2>2 DEF Kept
  <2>8. QED
    BY <1>2, <2>2, <2>3, <2>6, <2>7, KeptOn
<1>7. CASE ReadDirectTeams
  <2>1. /\ list.at = "direct" /\ before' = before
        /\ list' = [at |-> "roles", who |-> list.who, roles |-> list.roles, of |-> Own]
    BY <1>7 DEF ReadDirectTeams, Listing, ListUntouched, Own
  <2>2. list'.who = list.who /\ list'.at = "roles" /\ list'.of = Own /\ list'.roles = list.roles
    BY <2>1
  <2>3. list # NoList /\ Own' = Own /\ Roled' = Roled /\ panelTeams' = panelTeams
    BY <1>5, <2>1, <2>2 DEF Kept
  <2>4. Held' = Held
    BY <1>1, <2>2 DEF Held, TeamsForRoles, teamVars
  <2>5. Coming' = Coming
    BY <2>1, <2>2, <2>3, <2>4 DEF Coming, PanelsOf
  <2>6. QED
    BY <1>2, <2>1, <2>2, <2>3, <2>5, KeptOn DEF Kept
<1>8. CASE ReadRoleTeams
  <2>1. /\ list.at = "roles" /\ before' = before
        /\ list' = [at |-> "panels", who |-> list.who, of |-> list.of \union Held]
    BY <1>8 DEF ReadRoleTeams, Listing, ListUntouched, Held
  <2>2. list'.who = list.who /\ list'.at = "panels" /\ list'.of = list.of \union Held
    BY <2>1
  <2>3. list # NoList /\ Own' = Own /\ Roled' = Roled /\ panelTeams' = panelTeams
    BY <1>5, <2>1, <2>2 DEF Kept
  <2>4. Coming' = Coming
    BY <2>1, <2>2, <2>3 DEF Coming, PanelsOf
  <2>5. QED
    BY <1>2, <2>1, <2>2, <2>3, <2>4, KeptOn DEF Kept
<1>9. CASE ReadPanels
  <2>1. /\ list.at = "panels" /\ before' = before
        /\ list' = [at |-> "filtered", who |-> list.who,
                    of |-> {p \in Panels : panelTeams[p] \intersect list.of # {}}]
    BY <1>9 DEF ReadPanels, Listing, ListUntouched
  <2>2. /\ list'.who = list.who /\ list'.at = "filtered"
        /\ list'.of = {p \in Panels : panelTeams[p] \intersect list.of # {}}
    BY <2>1
  <2>3. list # NoList /\ Own' = Own /\ Roled' = Roled /\ panelTeams' = panelTeams
    BY <1>5, <2>1, <2>2 DEF Kept
  <2>4. Coming' = Coming
    BY <2>1, <2>2, <2>3 DEF Coming, PanelsOf
  <2>5. QED
    BY <1>2, <2>1, <2>2, <2>3, <2>4, KeptOn DEF Kept
<1>10. CASE QueryFiltered
  <2>1. PICK S : /\ list' = [at |-> "done", who |-> list.who, of |-> list.of, seen |-> S]
                 /\ list.of # {} => S = {t \in Tickets : t.panel \in list.of}
    BY <1>10 DEF QueryFiltered
  <2>2. list.at = "filtered" /\ before' = before /\ list # NoList
    BY <1>10 DEF QueryFiltered, Listing, ListUntouched, NoList
  <2>3. list'.who = list.who /\ list'.at = "done" /\ list'.of = list.of /\ list'.seen = S
    BY <2>1
  <2>4. QED
    BY <1>2, <2>1, <2>2, <2>3, ListSeen
<1>11. CASE QueryAll
  <2>1. /\ list' = [at |-> "done", who |-> list.who, of |-> Panels \union {None}, seen |-> Tickets]
        /\ list.at = "all" /\ before' = before /\ list # NoList
    BY <1>11 DEF QueryAll, Listing, ListUntouched, NoList
  <2>2. list'.who = list.who /\ list'.at = "done" /\ list'.of = Panels \union {None} /\ list'.seen = Tickets
    BY <2>1
  <2>3. Tickets = {t \in Tickets : t.panel \in Panels \union {None}}
    BY TicketAccessAssumption
  <2>4. QED
    BY <1>2, <2>1, <2>2, <2>3, ListSeen
<1>12. QED
  BY <1>3, <1>4, <1>6, <1>7, <1>8, <1>9, <1>10, <1>11, <1>13, <1>15, <1>16, <1>17 DEF ListStep

LEMMA ListInvStep == BaseInv /\ ListInv /\ [Next]_vars => ListInv'
<1> SUFFICES ASSUME BaseInv, ListInv, [Next]_vars PROVE ListInv'
  OBVIOUS
<1>1. CASE ListStep
  BY <1>1, ListStepKeepsListInv
<1>2. CASE Change
  <2>1. /\ list' = list /\ before' = before /\ changes' = changes + 1
        /\ list.at \notin {"idle", "done"} /\ changes \in Nat
    BY <1>2 DEF Change, ListInv
  <2>2. CASE list = NoList
    BY <2>1, <2>2 DEF ListInv
  <2>3. CASE list # NoList
    <3>1. list.at \in ListSteps /\ list.who \in Users
      BY <2>3 DEF ListInv
    <3>2. changes' <= 1 /\ list'.at \in Kept => Agrees'
      <4>1. SUFFICES ASSUME changes' <= 1, list'.at \in Kept PROVE Agrees'
        OBVIOUS
      <4>2. changes = 0 /\ Exact
        BY <2>1, <2>3, <4>1 DEF ListInv
      <4>3. QED
        BY <1>2, <2>1, <3>1, <4>1, <4>2, ChangeAgrees
    <3>3. changes' <= 1 /\ list'.at \in Asking => Ahead' \/ ~GuildWide' \/ ByTeams'
      <4>1. SUFFICES ASSUME changes' <= 1, list'.at \in Asking PROVE Ahead' \/ ~GuildWide' \/ ByTeams'
        OBVIOUS
      <4>2. changes = 0 /\ Exact
        BY <2>1, <2>3, <4>1 DEF ListInv
      <4>3. QED
        BY <1>2, <2>1, <3>1, <4>1, <4>2, ChangeAsks
    <3>4. ListsAreViewable'
      BY <2>1 DEF ListsAreViewable, Listing
    <3>5. QED
      BY <2>1, <3>1, <3>2, <3>3, <3>4 DEF ListInv
  <2>4. QED
    BY <2>2, <2>3
<1>3. CASE UNCHANGED vars
  <2>1. UNCHANGED <<teamVars, accessVars>>
    BY <1>3 DEF vars
  <2>2. list' = list /\ changes' = changes /\ before' = before /\ ListMoves
    BY <2>1 DEF accessVars, ListMoves
  <2>3. CASE list = NoList
    BY <2>2, <2>3 DEF ListInv
  <2>4. CASE list # NoList
    <3>1. /\ Sees' = Sees /\ GuildWide' = GuildWide /\ Own' = Own /\ Roled' = Roled
          /\ panelTeams' = panelTeams
          /\ MemberRoles(list.who)' = MemberRoles(list.who) /\ (Privileged(list.who)' <=> Privileged(list.who))
          /\ (OwnRow' <=> OwnRow) /\ perm' = perm
      BY <2>2, SameSight
    <3>2. Exact => Exact'
      <4>1. TeamPanels' = TeamPanels
        BY <3>1 DEF TeamPanels, PanelsOf
      <4>2. QED
        BY <2>2, <3>1, <4>1 DEF Exact
    <3>7. Ahead \/ ~GuildWide \/ ByTeams => Ahead' \/ ~GuildWide' \/ ByTeams'
      <4>1. TeamPanels' = TeamPanels
        BY <3>1 DEF TeamPanels, PanelsOf
      <4>2. /\ RoleRows(MemberRoles(list.who))' <=> RoleRows(MemberRoles(list.who))
            /\ RoleRows(list.roles)' <=> RoleRows(list.roles)
        BY <2>2, <3>1 DEF RoleRows
      <4>3. Ahead => Ahead'
        BY <2>2, <3>1, <4>2 DEF Ahead
      <4>4. ByTeams => ByTeams'
        BY <2>2, <4>1 DEF ByTeams
      <4>5. QED
        BY <3>1, <4>3, <4>4
    <3>8. Held' = Held
      BY <2>2 DEF Held, TeamsForRoles, ListMoves, teamVars
    <3>3. Coming' = Coming
      BY <2>2, <3>1, <3>8 DEF Coming, PanelsOf
    <3>4. Agrees => Agrees'
      BY <2>2, <3>1, <3>3 DEF Agrees
    <3>5. ListsAreViewable => ListsAreViewable'
      BY <2>2, <3>1 DEF ListsAreViewable, Listing, OfOthers, Sees
    <3>6. QED
      BY <2>2, <2>4, <3>2, <3>4, <3>5, <3>7 DEF ListInv
  <2>5. QED
    BY <2>3, <2>4
<1>4. CASE UNCHANGED accessVars /\ ~UNCHANGED vars
  <2>1. list' = list /\ changes' = changes
    BY <1>4 DEF accessVars
  <2>2. about # "listing"
    <3>1. ASSUME NEW h \in Handlers, StepOf(h) PROVE req[h] # Idle \/ about # "listing"
      BY <3>1 DEF StepOf, RemoveSupport, GetMetadata, NoCallRole, TakeCallRole, Answer,
         ForgetCallRole, DeleteGuildRole, CreateGuildRole, SetOnCallRole, Fail, Serving
    <3>2. CASE \E h \in Handlers : StepOf(h)
      BY <3>1, <3>2 DEF BaseInv, AboutInv
    <3>3. CASE ChangeRows \/ \E u \in Staff : GoOnCall(u) \/ CacheMember(u)
      BY <3>3 DEF ChangeRows, GoOnCall, CacheMember
    <3>4. CASE ListStep
      <4>1. list'.at # list.at \/ list' # list
        BY <3>4 DEF ListStep, BeginList, AskStaff, ReadMember, AskLevel, AskAdmin, AskAdminRoles, AskSupport,
         AskSupportRoles, ReadTeams, AskOwnTeam, AskRoleTeam, ReadMemberAgain, ReadDirectTeams, ReadRoleTeams, ReadPanels,
           QueryFiltered, QueryAll, Listing, NoList
      <4>2. QED
        BY <2>1, <4>1
    <3>5. CASE Change
      BY <2>1, <3>5 DEF Change, ListInv
    <3>6. QED
      BY <1>4, <3>2, <3>3, <3>4, <3>5, NextCases
  <2>3. QED
    BY <2>1, <2>2 DEF BaseInv, AboutInv, ListInv
<1>5. QED
  BY <1>1, <1>2, <1>3, <1>4, NextCases

LEMMA InitList == Init => ListInv
  BY DEF Init, ListInv

THEOREM ListHolds == Spec => []ListInv
  BY InitBase, BaseStep, InitList, ListInvStep, PTL DEF Spec

\* A list shows an account that is kept to its teams' panels no ticket of others that it
\* could view neither before nor after, and misses none that it could view at both times.
THEOREM ListsShowTheViewable == Spec => []ListsAreViewable
<1>1. ListInv => ListsAreViewable
  BY DEF ListInv, ListsAreViewable, Listing, NoList
<1>2. QED
  BY <1>1, ListHolds, PTL
====
