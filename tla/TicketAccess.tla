---- MODULE TicketAccess ----
(***************************************************************************)
(* Who may see which ticket (utils/permissionutils.go), and the lists of   *)
(* tickets (ticket/gettickets.go) and transcripts (transcripts/list.go),   *)
(* which decide it by themselves: HasPermissionToViewTicket asks of one    *)
(* ticket at a time, a list asks once whether the account is of panel      *)
(* teams only and then for the panels of these, in thirteen calls or so.   *)
(***************************************************************************)
EXTENDS SupportTeams

CONSTANTS
    BotAdmins, BotStaff,   \* of the bot, accounts out of Users
    Tickets,               \* [opener, panel], panel None for a ticket that is from none
    MaxChanges             \* bound: changes of tables or members during a listing

ASSUME TicketAccessAssumption == /\ BotAdmins \union BotStaff \subseteq Users /\ MaxChanges \in Nat
                                 /\ \A t \in Tickets : t.panel \in Panels \union {None}

VARIABLES
    withDefault,   \* panels that the default team answers too
    override,      \* the guild lets bot staff in
    list,          \* the request that lists tickets: what it has read, and what it saw
    before,        \* the tickets its account could view when it began
    changes

accessVars == <<withDefault, override, list, before, changes>>
vars == <<teamVars, accessVars>>

NoList == [at |-> "idle"]
----
(* utils/permissionutils.go *)

Staffed(x) == override /\ x \in BotStaff

Privileged(u) == u \in BotAdmins \/ Staffed(u) \/ u = Owner

\* Rows of an account count, and those of its roles; one of an administrator is one of
\* a supporter too.
HasLevel(u, levels) == \E x \in {u} \union (MemberRoles(u) \intersect Roles) : perm[x] \in levels
AsSupport == {"support", "admin"}

\* The whole guild is open to these.
FullAccess(u) == Privileged(u) \/ HasLevel(u, {"admin"})

IsOnDefaultTeam(u) == HasLevel(u, AsSupport)

\* The teams an account is on by itself, and by its roles.
TeamsForUser(u) == {t \in teams : <<t, u>> \in members}
TeamsForRoles(rs) == {t \in teams : \E r \in rs : <<t, r>> \in members}
TeamsOf(u) == TeamsForUser(u) \union TeamsForRoles(MemberRoles(u))

\* Middleware and LoadGuilds ask for a level; the shared library gives it to members
\* that are neither bot admins nor staff with the override.
GetPermissionLevel(u) ==
    IF FullAccess(u) THEN "admin"
    ELSE IF IsOnDefaultTeam(u) \/ TeamsOf(u) # {} THEN "support" ELSE "none"

HasPermissionToViewTicket(u, t) ==
    \/ t.opener = u
    \/ FullAccess(u)
    \/ t.panel = None /\ IsOnDefaultTeam(u)
    \/ /\ t.panel # None
       /\ \/ t.panel \in withDefault /\ IsOnDefaultTeam(u)
          \/ panelTeams[t.panel] \intersect TeamsOf(u) # {}

Viewable(u) == {t \in Tickets : HasPermissionToViewTicket(u, t)}
----
(* GetTickets and ListTranscripts, call by call *)

ListUntouched == UNCHANGED <<teamVars, withDefault, override, before, changes>>
Listing(at) == list.at = at

\* The middleware has let the account in.
BeginList(u) ==
    /\ about = "listing" /\ list = NoList
    /\ GetPermissionLevel(u) # "none"
    /\ list' = [at |-> "staff", who |-> u]
    /\ before' = Viewable(u)
    /\ UNCHANGED <<teamVars, withDefault, override, changes>>

\* IsPanelTeamMemberOnly: whoever has one of these places is not kept to the panels
\* of teams.  Of the first questions the override alone can change.  The member is read
\* once, its rows in four calls.
AskStaff ==
    /\ Listing("staff")
    /\ list' = [at |-> IF Privileged(list.who) THEN "all" ELSE "member", who |-> list.who]
    /\ ListUntouched

ReadMember ==
    /\ Listing("member")
    /\ list' = [at |-> "isAdmin", who |-> list.who, roles |-> MemberRoles(list.who)]
    /\ ListUntouched

AskLevel(at, xs, levels, next) ==
    /\ Listing(at)
    /\ list' = [at    |-> IF \E x \in xs : perm[x] \in levels THEN "all" ELSE next,
                who   |-> list.who,
                roles |-> list.roles]
    /\ ListUntouched

AskAdmin        == AskLevel("isAdmin", {list.who}, {"admin"}, "adminRoles")
AskAdminRoles   == AskLevel("adminRoles", list.roles \intersect Roles, {"admin"}, "isSupport")
AskSupport      == AskLevel("isSupport", {list.who}, AsSupport, "supportRoles")
AskSupportRoles == AskLevel("supportRoles", list.roles \intersect Roles, AsSupport, "teams")

\* It is kept to them if it is on one of the teams that the guild had when they were
\* listed.  Without any place the answer is the same as with all: not kept to teams.
ReadTeams ==
    /\ Listing("teams")
    /\ list' = [at |-> "ownTeam", who |-> list.who, roles |-> list.roles, ids |-> teams]
    /\ ListUntouched

AskOwnTeam ==
    /\ Listing("ownTeam")
    /\ list' = [at    |-> IF TeamsForUser(list.who) \intersect list.ids # {} THEN "kept" ELSE "roleTeam",
                who   |-> list.who,
                roles |-> list.roles,
                ids   |-> list.ids]
    /\ ListUntouched

AskRoleTeam ==
    /\ Listing("roleTeam")
    /\ list' = [at  |-> IF TeamsForRoles(list.roles) \intersect list.ids # {} THEN "kept" ELSE "all",
                who |-> list.who]
    /\ ListUntouched

\* GetAccessiblePanelIds, which reads the member again.
ReadMemberAgain ==
    /\ Listing("kept")
    /\ list' = [at |-> "direct", who |-> list.who, roles |-> MemberRoles(list.who)]
    /\ ListUntouched

ReadDirectTeams ==
    /\ Listing("direct")
    /\ list' = [at |-> "roles", who |-> list.who, roles |-> list.roles, of |-> TeamsForUser(list.who)]
    /\ ListUntouched

\* A plausible bug: the teams of the account's roles replace its own.
ReadRoleTeamsReplacing ==
    /\ Listing("roles")
    /\ list' = [at |-> "panels", who |-> list.who, of |-> TeamsForRoles(list.roles)]
    /\ ListUntouched

ReadRoleTeams ==
    /\ Listing("roles")
    /\ list' = [at |-> "panels", who |-> list.who, of |-> list.of \union TeamsForRoles(list.roles)]
    /\ ListUntouched

ReadPanels ==
    /\ Listing("panels")
    /\ list' = [at |-> "filtered", who |-> list.who,
                of |-> {p \in Panels : panelTeams[p] \intersect list.of # {}}]
    /\ ListUntouched

\* The query's filter; what an empty one lets through is the database's choice.
QueryFiltered ==
    /\ Listing("filtered")
    /\ \E seen \in {{t \in Tickets : t.panel \in list.of}} \union (IF list.of = {} THEN {Tickets} ELSE {}) :
         list' = [at |-> "done", who |-> list.who, of |-> list.of, seen |-> seen]
    /\ ListUntouched

QueryAll ==
    /\ Listing("all")
    /\ list' = [at |-> "done", who |-> list.who, of |-> Panels \union {None}, seen |-> Tickets]
    /\ ListUntouched
----
(* What changes meanwhile *)

\* The rows of a panel are written by its own endpoints.
EditPanel(p) ==
    /\ \/ \E ts \in SUBSET teams : panelTeams' = [panelTeams EXCEPT ![p] = ts] /\ UNCHANGED withDefault
       \/ /\ withDefault' = IF p \in withDefault THEN withDefault \ {p} ELSE withDefault \union {p}
          /\ UNCHANGED panelTeams
    /\ UNCHANGED <<teams, perm, members, override, cached>>

\* RemoveMember, at its row.
DropRow ==
    /\ \/ \E m \in members : members' = members \ {m} /\ UNCHANGED perm
       \/ \E x \in DOMAIN perm : perm' = [perm EXCEPT ![x] = "none"] /\ UNCHANGED members
    /\ UNCHANGED <<teams, panelTeams, withDefault, override, cached>>

\* The member cache hears that roles were given or taken.
GiveOrTakeRole(u) ==
    /\ \E r \in Roles : cached' = [cached EXCEPT ![u] = IF r \in @ THEN @ \ {r} ELSE @ \union {r}]
    /\ UNCHANGED <<tables, withDefault, override>>

\* Staff override is granted for some hours, deleted, or runs out.
CreateOverride == ~override /\ override' = TRUE /\ UNCHANGED <<tables, withDefault, cached>>
DeleteOverride == override /\ override' = FALSE /\ UNCHANGED <<tables, withDefault, cached>>

Change ==
    /\ about = "listing" /\ list.at \notin {"idle", "done"} /\ changes < MaxChanges
    /\ \/ \E p \in Panels : EditPanel(p)
       \/ DropRow \/ GiveOrTakeRole(list.who) \/ CreateOverride \/ DeleteOverride
       \/ RowsChange /\ UNCHANGED <<withDefault, override, cached>>
    /\ changes' = changes + 1
    /\ UNCHANGED <<about, callRow, discord, has, req, made, requests, ghosts, list, before>>
----
Init ==
    /\ TeamsInit
    /\ withDefault \in IF about = "listing" THEN SUBSET Panels ELSE {{}}
    /\ override \in IF about = "listing" THEN BOOLEAN ELSE {FALSE}
    /\ list = NoList /\ before = {} /\ changes = 0

Next ==
    \/ TeamsNext /\ UNCHANGED accessVars
    \/ \E u \in Users : BeginList(u)
    \/ AskStaff \/ ReadMember \/ AskAdmin \/ AskAdminRoles \/ AskSupport \/ AskSupportRoles
    \/ ReadTeams \/ AskOwnTeam \/ AskRoleTeam
    \/ ReadMemberAgain \/ ReadDirectTeams \/ ReadRoleTeams \/ ReadPanels
    \/ QueryFiltered \/ QueryAll
    \/ Change

Spec == Init /\ [][Next]_vars

TypeOK ==
    /\ TeamsTypeOK
    /\ withDefault \subseteq Panels /\ before \subseteq Tickets

OfOthers(ts) == {t \in ts : t.opener # list.who}

\* A list and the view of a single ticket are decided by different code and agree: of
\* the tickets of others, an account that is kept to the panels of its teams is listed
\* none that it could view neither when it asked nor when the list was read, and misses
\* none that it could view at both times, if at most one thing changed in between and
\* some panel was left to filter by.
ListsAreViewable ==
    LET now == Viewable(list.who) IN
    Listing("done") /\ None \notin list.of /\ list.of # {} /\ changes <= 1 =>
        /\ OfOthers(list.seen) \subseteq before \union now
        /\ OfOthers(before \intersect now) \subseteq list.seen
====
