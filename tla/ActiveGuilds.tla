---- MODULE ActiveGuilds ----
(***************************************************************************)
(* SetActiveGuilds: a user with a Patreon subscription for several servers *)
(* chooses the guilds that get premium.  Every active guild has an         *)
(* entitlement and a row of LegacyPremiumEntitlementGuilds, a link here,   *)
(* that names it.  The handler reads and writes in one transaction (its    *)
(* writes appear when it commits, its reads see what others committed) but *)
(* the subscription is read before it and the permissions, from a cache,   *)
(* beside it.                                                              *)
(***************************************************************************)
EXTENDS Naturals, FiniteSets

CONSTANTS
    Guilds,
    Handlers,      \* requests of the one user that can be served at one time
    Skus,          \* the subscriptions on sale
    Limit,         \* MultiServerSkus: the permitted server count of each
    MaxRequests,   \* bound: requests
    MaxSkuChanges  \* bound: changes of the subscription

NoSku == "none"

ASSUME LimitAssumption == Limit \in [Skus -> Nat] /\ NoSku \notin Skus
ASSUME GuildsAssumption == IsFiniteSet(Guilds)
ASSUME BoundsAssumption == MaxRequests \in Nat /\ MaxSkuChanges \in Nat

VARIABLES
    sku,        \* external: the subscription, NoSku when there is none
    admin,      \* external: the guilds where the user is an admin
    ents,       \* entitlements of source Patreon that the user has
    links,      \* LegacyPremiumEntitlementGuilds
    nextId,
    req,        \* the request each handler is serving
    selection,  \* what the last request that committed selected
    raced, skuChanges, requests  \* whether requests overlapped, and counts

vars == <<sku, admin, ents, links, nextId, req, selection, raced, skuChanges, requests>>
tables == <<ents, links, nextId, selection>>
others == <<sku, admin, raced, skuChanges, requests>>

Idle == [at |-> "idle", selected |-> {}, sku |-> NoSku, existing |-> {}, vetted |-> {},
         switch |-> {}]

GuildsOf(rows) == {x.guild : x \in rows}

TypeOK ==
    /\ sku \in Skus \union {NoSku} /\ admin \subseteq Guilds
    /\ ents \subseteq [id : Nat, guild : Guilds, sku : Skus]
    /\ links \subseteq [id : Nat, guild : Guilds]
    /\ nextId \in Nat /\ selection \subseteq Guilds
    /\ raced \in BOOLEAN /\ skuChanges \in Nat /\ requests \in Nat
    /\ \A h \in Handlers :
         /\ req[h].at \in {"idle", "list", "check", "look", "commit"}
         /\ req[h].selected \union req[h].vetted \subseteq Guilds
         /\ req[h].existing \subseteq [id : Nat, guild : Guilds]
         /\ req[h].switch \subseteq req[h].existing

\* Some guilds may be active already, whoever is their admin by now.
Init ==
    /\ sku \in Skus
    /\ admin \in SUBSET Guilds
    /\ \E G \in SUBSET Guilds : \E id \in [G -> 1 .. Cardinality(Guilds)] :
         /\ Cardinality(G) <= Limit[sku]
         /\ \A g, k \in G : id[g] = id[k] => g = k
         /\ ents = {[id |-> id[g], guild |-> g, sku |-> sku] : g \in G}
         /\ links = {[id |-> id[g], guild |-> g] : g \in G}
         /\ selection = G
    /\ nextId = Cardinality(Guilds) + 1
    /\ req = [h \in Handlers |-> Idle]
    /\ raced = FALSE /\ skuChanges = 0 /\ requests = 0
----
(* The user subscribes, unsubscribes, and is given and loses permissions *)

ChangeSku(s) ==
    /\ skuChanges < MaxSkuChanges /\ s # sku
    /\ sku' = s
    /\ skuChanges' = skuChanges + 1
    /\ UNCHANGED <<admin, tables, req, raced, requests>>

ChangeAdmin(g) ==
    /\ admin' = IF g \in admin THEN admin \ {g} ELSE admin \union {g}
    /\ UNCHANGED <<sku, tables, req, raced, skuChanges, requests>>
----
(* SetActiveGuilds *)

\* A request arrives and GetUserTier is called.  Not a premium user: the handler
\* answers at once.
GetUserTier(h, G) ==
    /\ req[h] = Idle /\ sku # NoSku
    /\ requests < MaxRequests /\ requests' = requests + 1
    /\ req' = [req EXCEPT ![h] = [Idle EXCEPT !.at = "list", !.selected = G, !.sku = sku]]
    /\ raced' = (raced \/ \E g \in Handlers : req[g] # Idle)
    /\ UNCHANGED <<sku, admin, tables, skuChanges>>

\* A failed call or check answers with an error and rolls back.
Abort(h) ==
    /\ req[h].at # "idle"
    /\ req' = [req EXCEPT ![h] = Idle]
    /\ UNCHANGED <<tables, others>>

\* "Too many guilds selected".
WithinLimit(r) == Cardinality(r.selected) <= Limit[r.sku]

\* The transaction begins, and lists the user's links.
ListForUser(h) ==
    /\ req[h].at = "list"
    /\ WithinLimit(req[h])
    /\ req' = [req EXCEPT ![h].existing = links, ![h].at = "check"]
    /\ UNCHANGED <<tables, others>>

New(r)     == r.selected \ GuildsOf(r.existing)
Kept(r)    == {x \in r.existing : x.guild \in r.selected}
Dropped(r) == {x \in r.existing : x.guild \notin r.selected}

\* A plausible bug: new guilds are not checked.
CheckAdminNever(h) ==
    /\ req[h].at = "check"
    /\ req' = [req EXCEPT ![h].at = "look"]
    /\ UNCHANGED <<tables, others>>

\* GetPermissionLevel for the next new guild, and on after the last.
CheckAdmin(h) ==
    LET r == req[h]
        unchecked == New(r) \ r.vetted
    IN
    /\ r.at = "check"
    /\ IF unchecked = {}
       THEN req' = [req EXCEPT ![h].at = "look"]
       ELSE \E g \in unchecked \intersect admin : req' = [req EXCEPT ![h].vetted = @ \union {g}]
    /\ UNCHANGED <<tables, others>>

\* A plausible bug: the links are read again instead of kept from the list.
GetByIdOfLinks(h) ==
    LET r == req[h] IN
    /\ r.at = "look"
    /\ req' = [req EXCEPT ![h].at = "commit",
                          ![h].switch = {x \in links : /\ x.guild \in r.selected
                                                       /\ \A e \in ents : e.id = x.id => e.sku # r.sku}]
    /\ UNCHANGED <<tables, others>>

\* GetById for the guilds that stay: those whose entitlement is of another SKU
\* will be switched.  One that is gone ends the request, which is Abort.
GetById(h) ==
    LET r == req[h] IN
    /\ r.at = "look"
    /\ \A x \in Kept(r) : \E e \in ents : e.id = x.id
    /\ req' = [req EXCEPT ![h].at = "commit",
                          ![h].switch = {x \in Kept(r) : \A e \in ents : e.id = x.id => e.sku # r.sku}]
    /\ UNCHANGED <<tables, others>>

\* A plausible bug: the links of dropped guilds are left in place.
UnlinkedKeepsDropped(r) == {x.id : x \in r.switch}

\* The entitlements whose link is deleted: of guilds dropped and of guilds that
\* are switched to another SKU.
Unlinked(r) == {x.id : x \in Dropped(r) \union r.switch}

\* A plausible bug: the entitlements of dropped guilds are left in place.
DeletedKeepsDropped(r) == {x.id : x \in r.switch}

\* The entitlements that are deleted, of the same guilds.
Deleted(r) == {x.id : x \in Dropped(r) \union r.switch}

\* What the transaction wrote becomes visible.  A guild that is new gets an
\* entitlement and a link, a guild that is switched a new entitlement alone.
Commit(h) ==
    LET r == req[h]
        Created == New(r) \union GuildsOf(r.switch)
    IN
    /\ r.at = "commit"
    /\ \E id \in [Created -> nextId .. nextId + Cardinality(Created) - 1] :
         /\ \A g, k \in Created : id[g] = id[k] => g = k
         /\ ents' = {e \in ents : e.id \notin Deleted(r)}
                      \union {[id |-> id[g], guild |-> g, sku |-> r.sku] : g \in Created}
         /\ links' = {x \in links : x.id \notin Unlinked(r)}
                      \union {[id |-> id[g], guild |-> g] : g \in New(r)}
    /\ nextId' = nextId + Cardinality(Created)
    /\ selection' = r.selected
    /\ req' = [req EXCEPT ![h] = Idle]
    /\ UNCHANGED others
----
Next ==
    \/ \E s \in Skus \union {NoSku} : ChangeSku(s)
    \/ \E g \in Guilds : ChangeAdmin(g)
    \/ \E h \in Handlers :
         \/ \E G \in SUBSET Guilds : GetUserTier(h, G)
         \/ ListForUser(h) \/ CheckAdmin(h) \/ GetById(h) \/ Commit(h) \/ Abort(h)

Spec == Init /\ [][Next]_vars
----
\* As long as requests come one at a time and the subscription stays the same,
\* the guilds that have an entitlement, and a link to it, are the guilds that
\* the last request selected, one of each, and no more than are paid for.
SelectionIsEntitled ==
    (~raced /\ skuChanges = 0) =>
      /\ GuildsOf(ents) = selection
      /\ links = {[id |-> e.id, guild |-> e.guild] : e \in ents}
      /\ Cardinality(ents) = Cardinality(selection)
      /\ Cardinality(ents) <= Limit[sku]

\* Whatever overlaps and whatever happens to the subscription, a link never
\* names an entitlement that is gone, or one of another guild.
LinksNameEntitlements ==
    \A x \in links : \E e \in ents : e.id = x.id /\ e.guild = x.guild

\* "For new guilds being added, validate admin permissions": a guild comes to be
\* entitled only through a request in which the user was seen to be its admin, or
\* in which it was linked already when the request listed the links.
OnlyAdminsAddGuilds ==
    [][\A g \in GuildsOf(ents') \ GuildsOf(ents) :
         \E h \in Handlers : g \in req[h].vetted \union GuildsOf(req[h].existing)]_vars

\* "Update entitlements for guilds that were previously selected and still are.
\* This may involve recreating the entitlement if the SKU has changed."  When
\* requests come one at a time, the guilds a request selected stay active guilds.
SelectionIsLinked == ~raced => GuildsOf(links) = selection
====
