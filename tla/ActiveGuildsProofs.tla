---- MODULE ActiveGuildsProofs ----
(***************************************************************************)
(* Proofs about ActiveGuilds for every set of guilds, subscriptions and    *)
(* limits and any number of requests at a time.  Links and permissions are *)
(* safe under any overlap; SelectionIsEntitled, about requests one at a    *)
(* time, needs what the one request that is under way has read (InTurn).   *)
(***************************************************************************)
EXTENDS ActiveGuilds, FiniteSetTheorems, TLAPS

Links == [id : Nat, guild : Guilds]

\* A request as a whole; its subscription is one once it has begun.
Request == [at : {"idle", "list", "check", "look", "commit"}, selected : SUBSET Guilds,
            sku : Skus \union {NoSku}, existing : SUBSET Links, vetted : SUBSET Guilds,
            switch : SUBSET Links]

TypeInv ==
    /\ TypeOK
    /\ req \in [Handlers -> Request]
    /\ \A h \in Handlers : req[h].at # "idle" => req[h].sku \in Skus

\* One request step of one handler.
StepOf(h) ==
    \/ \E G \in SUBSET Guilds : GetUserTier(h, G)
    \/ ListForUser(h) \/ CheckAdmin(h) \/ GetById(h) \/ Commit(h) \/ Abort(h)

LEMMA NextCases ==
    ASSUME [Next]_vars
    PROVE  \/ \E s \in Skus \union {NoSku} : ChangeSku(s)
           \/ \E g \in Guilds : ChangeAdmin(g)
           \/ \E h \in Handlers : StepOf(h)
           \/ UNCHANGED vars
  BY DEF Next, StepOf

\* What a request selects, keeps and gives up is of its own guilds, finitely many.
LEMMA RequestSets ==
    ASSUME NEW r \in Request, r.switch \subseteq r.existing
    PROVE  /\ New(r) \in SUBSET Guilds /\ GuildsOf(r.switch) \in SUBSET Guilds
           /\ IsFiniteSet(New(r) \union GuildsOf(r.switch))
           /\ Cardinality(New(r) \union GuildsOf(r.switch)) \in Nat
<1>1. New(r) \in SUBSET Guilds
  BY DEF New, Request
<1>2. GuildsOf(r.switch) \in SUBSET Guilds
  BY DEF GuildsOf, Request, Links
<1>3. IsFiniteSet(New(r) \union GuildsOf(r.switch))
  BY <1>1, <1>2, GuildsAssumption, FS_Subset
<1>4. QED
  BY <1>1, <1>2, <1>3, FS_CardinalityType

LEMMA InitTypes == Init => TypeInv
<1> SUFFICES ASSUME Init PROVE TypeInv
  OBVIOUS
<1>1. Cardinality(Guilds) \in Nat
  BY GuildsAssumption, FS_CardinalityType
<1>2. nextId \in Nat
  BY <1>1 DEF Init
<1>3. PICK G \in SUBSET Guilds : \E id \in [G -> 1 .. Cardinality(Guilds)] :
           /\ ents = {[id |-> id[g], guild |-> g, sku |-> sku] : g \in G}
           /\ links = {[id |-> id[g], guild |-> g] : g \in G}
           /\ selection = G
  BY DEF Init
<1>4. PICK id \in [G -> 1 .. Cardinality(Guilds)] :
           /\ ents = {[id |-> id[g], guild |-> g, sku |-> sku] : g \in G}
           /\ links = {[id |-> id[g], guild |-> g] : g \in G}
           /\ selection = G
  BY <1>3
<1>5. \A g \in G : id[g] \in Nat /\ g \in Guilds
  BY <1>1, <1>4
<1>6. ents \subseteq [id : Nat, guild : Guilds, sku : Skus]
  BY <1>4, <1>5 DEF Init
<1>7. links \subseteq Links
  BY <1>4, <1>5 DEF Links
<1>8. Idle \in Request /\ Idle.switch \subseteq Idle.existing /\ Idle.at = "idle"
  BY DEF Idle, Request, Links
<1>9. req \in [Handlers -> Request] /\ \A h \in Handlers : req[h] = Idle
  BY <1>8 DEF Init
<1>10. QED
  BY <1>2, <1>4, <1>6, <1>7, <1>8, <1>9 DEF Init, TypeInv, TypeOK, Request, Links

LEMMA TypeStep == TypeInv /\ [Next]_vars => TypeInv'
<1> SUFFICES ASSUME TypeInv, [Next]_vars PROVE TypeInv'
  OBVIOUS
<1> USE DEF TypeInv, TypeOK
<1>1. ASSUME NEW s \in Skus \union {NoSku}, ChangeSku(s) PROVE TypeInv'
  BY <1>1 DEF ChangeSku, tables
<1>2. ASSUME NEW g \in Guilds, ChangeAdmin(g) PROVE TypeInv'
  BY <1>2 DEF ChangeAdmin, tables
<1>3. ASSUME NEW h \in Handlers, StepOf(h) PROVE TypeInv'
  <2> USE DEF tables, others
  <2>1. ASSUME NEW G \in SUBSET Guilds, GetUserTier(h, G) PROVE TypeInv'
    <3>1. sku \in Skus
      BY <2>1 DEF GetUserTier
    <3>2. [Idle EXCEPT !.at = "list", !.selected = G, !.sku = sku] \in Request
      BY <3>1 DEF Idle, Request, Links
    <3>3. QED
      BY <2>1, <3>1, <3>2 DEF GetUserTier, Idle
  <2>2. CASE ListForUser(h)
    BY <2>2 DEF ListForUser, Request, Links
  <2>3. CASE CheckAdmin(h)
    BY <2>3 DEF CheckAdmin, Request, New
  <2>4. CASE GetById(h)
    <3>1. PICK S \in SUBSET Kept(req[h]) : req' = [req EXCEPT ![h].at = "commit", ![h].switch = S]
      BY <2>4 DEF GetById
    <3>2. S \subseteq req[h].existing
      BY <3>1 DEF Kept
    <3>3. [req[h] EXCEPT !.at = "commit", !.switch = S] \in Request
      BY <3>2 DEF Request
    <3>4. UNCHANGED <<tables, others>> /\ req[h].at = "look"
      BY <2>4 DEF GetById
    <3>5. req' \in [Handlers -> Request]
      BY <3>1, <3>3
    <3>6. \A k \in Handlers : req'[k] = IF k = h THEN [req[h] EXCEPT !.at = "commit", !.switch = S] ELSE req[k]
      BY <3>1
    <3>7. \A k \in Handlers : /\ req'[k].at # "idle" => req'[k].sku \in Skus
                              /\ req'[k].switch \subseteq req'[k].existing
      BY <3>2, <3>4, <3>6 DEF Request
    <3>8. \A k \in Handlers : /\ req'[k].at \in {"idle", "list", "check", "look", "commit"}
                              /\ req'[k].selected \union req'[k].vetted \subseteq Guilds
                              /\ req'[k].existing \subseteq [id : Nat, guild : Guilds]
      BY <3>5 DEF Request, Links
    <3>9. QED
      BY <3>4, <3>5, <3>7, <3>8
  <2>5. CASE Commit(h)
    <3> DEFINE r == req[h]
               Created == New(r) \union GuildsOf(r.switch)
    <3>1. r \in Request /\ r.switch \subseteq r.existing /\ r.sku \in Skus
      BY <2>5 DEF Commit
    <3>2. Created \in SUBSET Guilds /\ Cardinality(Created) \in Nat /\ New(r) \in SUBSET Guilds
      BY <3>1, RequestSets
    <3>3. PICK id \in [Created -> nextId .. nextId + Cardinality(Created) - 1] :
             /\ ents' = {e \in ents : e.id \notin Deleted(r)}
                          \union {[id |-> id[g], guild |-> g, sku |-> r.sku] : g \in Created}
             /\ links' = {x \in links : x.id \notin Unlinked(r)}
                          \union {[id |-> id[g], guild |-> g] : g \in New(r)}
      BY <2>5 DEF Commit
    <3>4. \A g \in Created : id[g] \in Nat
      BY <3>2, <3>3
    <3>5. ents' \subseteq [id : Nat, guild : Guilds, sku : Skus]
      BY <3>1, <3>2, <3>3, <3>4
    <3>6. links' \subseteq Links
      BY <3>2, <3>3, <3>4 DEF Links
    <3>7. Idle \in Request /\ Idle.switch \subseteq Idle.existing
      BY DEF Idle, Request, Links
    <3>8. nextId' \in Nat
      BY <2>5, <3>2 DEF Commit
    <3>9. selection' \subseteq Guilds
      BY <2>5, <3>1 DEF Commit, Request
    <3>10. req' = [req EXCEPT ![h] = Idle] /\ UNCHANGED others
      BY <2>5 DEF Commit
    <3>11. QED
      BY <3>5, <3>6, <3>7, <3>8, <3>9, <3>10 DEF Links, Idle
  <2>6. CASE Abort(h)
    BY <2>6 DEF Abort, Idle, Request, Links
  <2>7. QED
    BY <1>3, <2>1, <2>2, <2>3, <2>4, <2>5, <2>6 DEF StepOf
<1>4. CASE UNCHANGED vars
  BY <1>4 DEF vars
<1>5. QED
  BY <1>1, <1>2, <1>3, <1>4, NextCases

\* TypeOK: tables, ids and requests keep their types, for every limit and subscription.
THEOREM ActiveGuildsTypes == Spec => []TypeOK
<1>1. TypeInv => TypeOK
  BY DEF TypeInv
<1>2. QED
  BY <1>1, InitTypes, TypeStep, PTL DEF Spec
----
\* The admin check is complete for every request that has passed it.
Vetted == \A h \in Handlers : req[h].at \in {"look", "commit"} => New(req[h]) \subseteq req[h].vetted

LEMMA VettedStep == TypeInv /\ Vetted /\ [Next]_vars => Vetted'
<1> SUFFICES ASSUME TypeInv, Vetted, [Next]_vars PROVE Vetted'
  OBVIOUS
<1> USE DEF TypeInv, Vetted
<1>1. ASSUME NEW s \in Skus \union {NoSku}, ChangeSku(s) PROVE Vetted'
  BY <1>1 DEF ChangeSku
<1>2. ASSUME NEW g \in Guilds, ChangeAdmin(g) PROVE Vetted'
  BY <1>2 DEF ChangeAdmin
<1>3. ASSUME NEW h \in Handlers, StepOf(h) PROVE Vetted'
  <2>1. ASSUME NEW G \in SUBSET Guilds, GetUserTier(h, G) PROVE Vetted'
    BY <2>1 DEF GetUserTier, Idle
  <2>2. CASE ListForUser(h)
    BY <2>2 DEF ListForUser, Request
  <2>3. CASE CheckAdmin(h)
    BY <2>3 DEF CheckAdmin, Request, New
  <2>4. CASE GetById(h)
    BY <2>4 DEF GetById, Request, New
  <2>5. CASE Commit(h)
    BY <2>5 DEF Commit, Idle
  <2>6. CASE Abort(h)
    BY <2>6 DEF Abort, Idle
  <2>7. QED
    BY <1>3, <2>1, <2>2, <2>3, <2>4, <2>5, <2>6 DEF StepOf
<1>4. CASE UNCHANGED vars
  BY <1>4 DEF vars
<1>5. QED
  BY <1>1, <1>2, <1>3, <1>4, NextCases

\* Only a commit adds an entitlement, to a guild that its request found new or linked.
LEMMA AddedGuildsWereSeen ==
    ASSUME TypeInv, Vetted, [Next]_vars
    PROVE  \A g \in GuildsOf(ents') \ GuildsOf(ents) :
             \E h \in Handlers : g \in req[h].vetted \union GuildsOf(req[h].existing)
<1>1. CASE UNCHANGED ents
  BY <1>1
<1>2. ASSUME NEW h \in Handlers, Commit(h)
      PROVE  \A g \in GuildsOf(ents') \ GuildsOf(ents) :
               g \in req[h].vetted \union GuildsOf(req[h].existing)
  <2> DEFINE r == req[h]
             Created == New(r) \union GuildsOf(r.switch)
  <2>1. PICK id :
           ents' = {e \in ents : e.id \notin Deleted(r)}
                     \union {[id |-> id[g], guild |-> g, sku |-> r.sku] : g \in Created}
    BY <1>2 DEF Commit
  <2>2. GuildsOf(ents') \subseteq GuildsOf(ents) \union Created
    BY <2>1 DEF GuildsOf
  <2>3. New(r) \subseteq r.vetted
    BY <1>2 DEF Commit, Vetted
  <2>4. GuildsOf(r.switch) \subseteq GuildsOf(r.existing)
    BY DEF GuildsOf, TypeInv, TypeOK
  <2>5. QED
    BY <2>2, <2>3, <2>4
<1>3. UNCHANGED ents \/ \E h \in Handlers : Commit(h)
  BY NextCases DEF StepOf, ChangeSku, ChangeAdmin, GetUserTier, ListForUser, CheckAdmin, GetById, Abort,
                   tables, vars
<1>4. QED
  BY <1>1, <1>2, <1>3

\* OnlyAdminsAddGuilds: whatever overlaps, a guild comes to be entitled only through a
\* request that saw the user as its admin, or saw it linked.
THEOREM GuildsAreAddedByAdmins == Spec => OnlyAdminsAddGuilds
<1>1. Init => Vetted
  BY DEF Init, Vetted, Idle
<1>2. TypeInv /\ Vetted /\ [Next]_vars =>
        [\A g \in GuildsOf(ents') \ GuildsOf(ents) :
           \E h \in Handlers : g \in req[h].vetted \union GuildsOf(req[h].existing)]_vars
  BY AddedGuildsWereSeen
<1>3. QED
  BY <1>1, <1>2, InitTypes, TypeStep, VettedStep, PTL DEF Spec, OnlyAdminsAddGuilds
----
\* A commit deletes the links of the entitlements it deletes, and makes an entitlement
\* for every link it makes, under the same id.
LEMMA LinksStep == LinksNameEntitlements /\ [Next]_vars => LinksNameEntitlements'
<1> SUFFICES ASSUME LinksNameEntitlements, [Next]_vars PROVE LinksNameEntitlements'
  OBVIOUS
<1>1. CASE UNCHANGED <<ents, links>>
  BY <1>1 DEF LinksNameEntitlements
<1>2. ASSUME NEW h \in Handlers, Commit(h) PROVE LinksNameEntitlements'
  <2> DEFINE r == req[h]
             Created == New(r) \union GuildsOf(r.switch)
  <2>1. PICK id :
           /\ ents' = {e \in ents : e.id \notin Deleted(r)}
                        \union {[id |-> id[g], guild |-> g, sku |-> r.sku] : g \in Created}
           /\ links' = {x \in links : x.id \notin Unlinked(r)}
                        \union {[id |-> id[g], guild |-> g] : g \in New(r)}
    BY <1>2 DEF Commit
  <2>2. SUFFICES ASSUME NEW x \in links' PROVE \E e \in ents' : e.id = x.id /\ e.guild = x.guild
    BY DEF LinksNameEntitlements
  <2>3. CASE x \in links /\ x.id \notin Unlinked(r)
    <3>1. PICK e \in ents : e.id = x.id /\ e.guild = x.guild
      BY <2>3 DEF LinksNameEntitlements
    <3>2. e \in ents'
      BY <2>1, <2>3, <3>1 DEF Unlinked, Deleted
    <3>3. QED
      BY <3>1, <3>2
  <2>4. ASSUME NEW g \in New(r), x = [id |-> id[g], guild |-> g]
        PROVE  \E e \in ents' : e.id = x.id /\ e.guild = x.guild
    <3>1. [id |-> id[g], guild |-> g, sku |-> r.sku] \in ents'
      BY <2>1
    <3>2. QED
      BY <2>4, <3>1
  <2>5. QED
    BY <2>1, <2>3, <2>4
<1>3. UNCHANGED <<ents, links>> \/ \E h \in Handlers : Commit(h)
  BY NextCases DEF StepOf, ChangeSku, ChangeAdmin, GetUserTier, ListForUser, CheckAdmin, GetById, Abort,
                   tables, vars
<1>4. QED
  BY <1>1, <1>2, <1>3

\* LinksNameEntitlements: whatever overlaps, no link names an entitlement that is gone.
THEOREM LinksAreEntitled == Spec => []LinksNameEntitlements
<1>1. Init => LinksNameEntitlements
  <2> SUFFICES ASSUME Init, NEW x \in links PROVE \E e \in ents : e.id = x.id /\ e.guild = x.guild
    BY DEF LinksNameEntitlements
  <2>1. PICK G, id :
           /\ ents = {[id |-> id[g], guild |-> g, sku |-> sku] : g \in G}
           /\ links = {[id |-> id[g], guild |-> g] : g \in G}
    BY DEF Init
  <2>2. PICK g \in G : x = [id |-> id[g], guild |-> g]
    BY <2>1
  <2>3. [id |-> id[g], guild |-> g, sku |-> sku] \in ents
    BY <2>1
  <2>4. QED
    BY <2>2, <2>3
<1>2. QED
  BY <1>1, LinksStep, PTL DEF Spec
----
\* A set of rows has a row for each guild exactly when no guild has two.
LEMMA OneRowEach ==
    ASSUME NEW E, IsFiniteSet(GuildsOf(E)), \A e, f \in E : e.guild = f.guild => e = f
    PROVE  IsFiniteSet(E) /\ Cardinality(E) = Cardinality(GuildsOf(E))
<1> DEFINE row == [g \in GuildsOf(E) |-> CHOOSE e \in E : e.guild = g]
<1>1. \A g \in GuildsOf(E) : row[g] \in E /\ row[g].guild = g
  BY DEF GuildsOf
<1>2. row \in [GuildsOf(E) -> E]
  BY <1>1
<1>3. \A e \in E : e.guild \in GuildsOf(E) /\ row[e.guild] = e
  BY <1>1 DEF GuildsOf
<1>4. row \in Bijection(GuildsOf(E), E)
  <2>1. row \in Injection(GuildsOf(E), E)
    BY <1>1, <1>2 DEF Injection, IsInjective
  <2>2. row \in Surjection(GuildsOf(E), E)
    BY <1>2, <1>3 DEF Surjection
  <2>3. QED
    BY <2>1, <2>2 DEF Bijection
<1>5. ExistsBijection(GuildsOf(E), E)
  BY <1>4 DEF ExistsBijection
<1>6. QED
  BY <1>5, FS_Bijection

\* The rows that are made for guilds under new ids, and the links of entitlements.
EntsFor(G, id, s) == {[id |-> id[g], guild |-> g, sku |-> s] : g \in G}
LinksFor(G, id) == {[id |-> id[g], guild |-> g] : g \in G}
LinksOf(E) == {[id |-> e.id, guild |-> e.guild] : e \in E}

\* Entitlements and links of the same rows are of the same guilds.
LEMMA GuildsOfLinks ==
    ASSUME NEW E PROVE GuildsOf({[id |-> e.id, guild |-> e.guild] : e \in E}) = GuildsOf(E)
<1> DEFINE L == {[id |-> e.id, guild |-> e.guild] : e \in E}
<1>1. ASSUME NEW g \in GuildsOf(L) PROVE g \in GuildsOf(E)
  <2>1. PICK x \in L : g = x.guild
    BY DEF GuildsOf
  <2>2. PICK e \in E : x = [id |-> e.id, guild |-> e.guild]
    OBVIOUS
  <2>3. QED
    BY <2>1, <2>2 DEF GuildsOf
<1>2. ASSUME NEW g \in GuildsOf(E) PROVE g \in GuildsOf(L)
  <2>1. PICK e \in E : g = e.guild
    BY DEF GuildsOf
  <2>2. [id |-> e.id, guild |-> e.guild] \in L
    OBVIOUS
  <2>3. QED
    BY <2>1, <2>2 DEF GuildsOf
<1>3. QED
  BY <1>1, <1>2

\* Entitlements that are made for guilds are of these guilds, and so are their links.
LEMMA RowsFor ==
    ASSUME NEW G, NEW id, NEW s
    PROVE  GuildsOf(EntsFor(G, id, s)) = G /\ LinksOf(EntsFor(G, id, s)) = LinksFor(G, id)
<1> DEFINE E == EntsFor(G, id, s)
<1>1. ASSUME NEW g \in GuildsOf(E) PROVE g \in G
  <2>1. PICK e \in E : g = e.guild
    BY DEF GuildsOf
  <2>2. QED
    BY <2>1 DEF EntsFor
<1>2. ASSUME NEW g \in G
      PROVE  g \in GuildsOf(E) /\ [id |-> id[g], guild |-> g] \in LinksOf(E)
  <2>1. [id |-> id[g], guild |-> g, sku |-> s] \in E
    BY DEF EntsFor
  <2>2. QED
    BY <2>1 DEF GuildsOf, LinksOf
<1>3. LinksOf(E) \subseteq LinksFor(G, id)
  BY DEF LinksOf, LinksFor, EntsFor
<1>4. QED
  BY <1>1, <1>2, <1>3 DEF LinksFor

LEMMA LinksOfUnion == ASSUME NEW E, NEW F PROVE LinksOf(E \union F) = LinksOf(E) \union LinksOf(F)
  BY DEF LinksOf

LEMMA IdleIsIdle == Idle \in Request /\ Idle.at = "idle"
  BY DEF Idle, Request, Links

\* The guilds of the tables, row by row.
Entitled ==
    /\ GuildsOf(ents) = selection
    /\ links = {[id |-> e.id, guild |-> e.guild] : e \in ents}
    /\ \A e \in ents : e.sku = sku /\ e.id < nextId
    /\ \A e, f \in ents : e.id = f.id \/ e.guild = f.guild => e = f
    /\ Cardinality(selection) <= Limit[sku]

\* The one request that is under way has read what is still true.
Reading ==
    /\ \A g, h \in Handlers : req[g] # Idle /\ req[h] # Idle => g = h
    /\ \A h \in Handlers :
         /\ req[h].at = "idle" => req[h] = Idle
         /\ req[h].at # "idle" => req[h].sku = sku
         /\ req[h].at \in {"check", "look", "commit"} =>
              req[h].existing = links /\ Cardinality(req[h].selected) <= Limit[sku]
         /\ req[h].at = "commit" => req[h].switch = {}

InTurn == ~raced /\ skuChanges = 0 => Entitled /\ Reading

\* A commit in turn leaves one entitlement and one link for every guild it selected.
LEMMA CommitInTurn ==
    ASSUME TypeInv, Entitled, Reading, NEW h \in Handlers, Commit(h)
    PROVE  Entitled'
<1> DEFINE r == req[h]
           Created == New(r) \union GuildsOf(r.switch)
           Stay == {e \in ents : e.guild \in r.selected}
<1>1. /\ r.existing = links /\ r.switch = {} /\ r.sku = sku
      /\ Cardinality(r.selected) <= Limit[sku] /\ r \in Request
  BY DEF Commit, Reading, TypeInv
<1>2. Created = New(r) /\ New(r) = r.selected \ selection
  <2>1. GuildsOf(links) = GuildsOf(ents)
    BY GuildsOfLinks DEF Entitled
  <2>2. GuildsOf({}) = {}
    BY DEF GuildsOf
  <2>3. QED
    BY <1>1, <2>1, <2>2 DEF New, Entitled
<1>3. Cardinality(Created) \in Nat /\ nextId \in Nat
  BY <1>1, RequestSets DEF TypeInv, TypeOK
<1>4. PICK id \in [Created -> nextId .. nextId + Cardinality(Created) - 1] :
         /\ \A g, k \in Created : id[g] = id[k] => g = k
         /\ ents' = {e \in ents : e.id \notin Deleted(r)}
                      \union {[id |-> id[g], guild |-> g, sku |-> r.sku] : g \in Created}
         /\ links' = {x \in links : x.id \notin Unlinked(r)}
                      \union {[id |-> id[g], guild |-> g] : g \in New(r)}
  BY DEF Commit
<1>5. ASSUME NEW g \in Created
      PROVE  id[g] \in Nat /\ nextId <= id[g] /\ id[g] < nextId + Cardinality(Created)
  <2>1. id[g] \in nextId .. nextId + Cardinality(Created) - 1
    BY <1>4
  <2>2. ASSUME NEW n \in Nat, NEW m \in Nat, NEW i \in n .. n + m - 1
        PROVE  i \in Nat /\ n <= i /\ i < n + m
    OBVIOUS
  <2>3. QED
    BY <1>3, <2>1, <2>2
<1>6. \A e \in ents : e.id \in Deleted(r) <=> e.guild \notin r.selected
  <2>1. Dropped(r) = {x \in links : x.guild \notin r.selected} /\ Deleted(r) = {x.id : x \in Dropped(r)}
    BY <1>1 DEF Dropped, Deleted
  <2>2. ASSUME NEW e \in ents, e.id \in Deleted(r) PROVE e.guild \notin r.selected
    <3>1. PICK x \in links : x.guild \notin r.selected /\ x.id = e.id
      BY <2>1, <2>2
    <3>2. PICK f \in ents : x = [id |-> f.id, guild |-> f.guild]
      BY DEF Entitled
    <3>3. QED
      BY <2>2, <3>1, <3>2 DEF Entitled
  <2>3. ASSUME NEW e \in ents, e.guild \notin r.selected PROVE e.id \in Deleted(r)
    <3>1. [id |-> e.id, guild |-> e.guild] \in links
      BY DEF Entitled
    <3>2. QED
      BY <2>1, <2>3, <3>1
  <2>4. QED
    BY <2>2, <2>3
<1>7. ents' = Stay \union {[id |-> id[g], guild |-> g, sku |-> sku] : g \in New(r)}
  BY <1>1, <1>2, <1>4, <1>6
<1>8. links' = {[id |-> e.id, guild |-> e.guild] : e \in Stay} \union {[id |-> id[g], guild |-> g] : g \in New(r)}
  <2>1. Unlinked(r) = Deleted(r)
    BY DEF Unlinked, Deleted
  <2>2. {x \in links : x.id \notin Unlinked(r)} = {[id |-> e.id, guild |-> e.guild] : e \in Stay}
    BY <1>6, <2>1 DEF Entitled
  <2>3. QED
    BY <1>4, <2>2
<1>9. GuildsOf(ents') = r.selected
  <2>1. GuildsOf(ents') = GuildsOf(Stay) \union GuildsOf(EntsFor(New(r), id, sku))
    BY <1>7 DEF GuildsOf, EntsFor
  <2>2. GuildsOf(EntsFor(New(r), id, sku)) = New(r)
    BY RowsFor
  <2>3. GuildsOf(Stay) = selection \intersect r.selected
    BY DEF GuildsOf, Entitled
  <2>4. (selection \intersect r.selected) \union (r.selected \ selection) = r.selected
    OBVIOUS
  <2>5. QED
    BY <1>2, <2>1, <2>2, <2>3, <2>4
<1>10. links' = {[id |-> e.id, guild |-> e.guild] : e \in ents'}
  <2>1. ents' = Stay \union EntsFor(New(r), id, sku)
    BY <1>7 DEF EntsFor
  <2>2. links' = LinksOf(Stay) \union LinksFor(New(r), id)
    BY <1>8 DEF LinksOf, LinksFor
  <2>3. links' = LinksOf(ents')
    BY <2>1, <2>2, RowsFor, LinksOfUnion
  <2>4. QED
    BY <2>3 DEF LinksOf
<1>11. nextId' = nextId + Cardinality(Created) /\ sku' = sku /\ selection' = r.selected
  BY DEF Commit, others
<1>12. \A e \in ents : e.id \in Nat /\ e.id < nextId /\ e.sku = sku
  BY DEF TypeInv, TypeOK, Entitled
<1>13. \A e \in ents' : e.sku = sku /\ e.id < nextId + Cardinality(Created)
  <2>1. \A e \in Stay : e.sku = sku /\ e.id < nextId + Cardinality(Created)
    BY <1>3, <1>12
  <2>2. ASSUME NEW g \in New(r), NEW e, e = [id |-> id[g], guild |-> g, sku |-> sku]
        PROVE  e.sku = sku /\ e.id < nextId + Cardinality(Created)
    <3>1. id[g] < nextId + Cardinality(Created)
      BY <1>2, <1>5
    <3>2. QED
      BY <2>2, <3>1
  <2>3. QED
    BY <1>7, <2>1, <2>2
<1>14. ASSUME NEW e \in ents', NEW f \in ents', e.id = f.id \/ e.guild = f.guild PROVE e = f
  <2>1. CASE e \in Stay /\ f \in Stay
    BY <1>14, <2>1 DEF Entitled
  <2>2. ASSUME NEW x \in Stay, NEW g \in New(r) PROVE x.id # id[g] /\ x.guild # g
    <3>1. x.id < nextId /\ nextId <= id[g] /\ x.id \in Nat /\ id[g] \in Nat
      BY <1>2, <1>5, <1>12
    <3>2. x.guild \in selection
      BY DEF GuildsOf, Entitled
    <3>3. QED
      BY <1>2, <1>3, <3>1, <3>2
  <2>3. ASSUME NEW g \in New(r), NEW k \in New(r), e = [id |-> id[g], guild |-> g, sku |-> sku],
               f = [id |-> id[k], guild |-> k, sku |-> sku]
        PROVE  e = f
    BY <1>2, <1>4, <1>14, <2>3
  <2>4. QED
    BY <1>7, <1>14, <2>1, <2>2, <2>3
<1>15. QED
  BY <1>1, <1>9, <1>10, <1>11, <1>13, <1>14 DEF Entitled

\* What was read stays true, since nobody but the request itself commits.
LEMMA InTurnStep == TypeInv /\ InTurn /\ [Next]_vars => InTurn'
<1> SUFFICES ASSUME TypeInv, InTurn, [Next]_vars, ~raced', skuChanges' = 0
             PROVE  Entitled' /\ Reading'
  BY DEF InTurn
<1>0. ASSUME ~raced, skuChanges = 0 PROVE Entitled /\ Reading
  BY <1>0 DEF InTurn
<1>1. ASSUME NEW s \in Skus \union {NoSku}, ChangeSku(s) PROVE Entitled' /\ Reading'
  BY <1>1 DEF ChangeSku, TypeInv, TypeOK
<1>2. ASSUME NEW g \in Guilds, ChangeAdmin(g) PROVE Entitled' /\ Reading'
  BY <1>0, <1>2 DEF ChangeAdmin, tables, Entitled, Reading
<1>3. ASSUME NEW h \in Handlers, StepOf(h) PROVE Entitled' /\ Reading'
  <2>0. req \in [Handlers -> Request]
    BY DEF TypeInv
  <2>1. ASSUME NEW G \in SUBSET Guilds, GetUserTier(h, G) PROVE Entitled' /\ Reading'
    <3>1. ~raced /\ skuChanges = 0 /\ \A g \in Handlers : req[g] = Idle
      BY <2>1 DEF GetUserTier, TypeInv, TypeOK
    <3>2. Entitled' /\ sku' = sku /\ links' = links
      BY <1>0, <2>1, <3>1 DEF GetUserTier, tables, Entitled
    <3>3. \A g \in Handlers : req'[g] = IF g = h THEN [Idle EXCEPT !.at = "list", !.selected = G, !.sku = sku]
                                                 ELSE Idle
      BY <2>0, <2>1, <3>1 DEF GetUserTier
    <3>4. Reading'
      <4>1. /\ [Idle EXCEPT !.at = "list", !.selected = G, !.sku = sku].at = "list"
            /\ [Idle EXCEPT !.at = "list", !.selected = G, !.sku = sku].sku = sku
        BY DEF Idle
      <4>2. \A g \in Handlers : g # h => req'[g] = Idle
        BY <3>3
      <4>3. req'[h].at = "list" /\ req'[h].sku = sku
        BY <3>3, <4>1
      <4>4. QED
        BY <3>2, <4>2, <4>3, IdleIsIdle DEF Reading
    <3>5. QED
      BY <3>2, <3>4
  <2>2. CASE ListForUser(h)
    <3>1. Entitled /\ Reading
      BY <1>0, <2>2 DEF ListForUser, others
    <3>2. Entitled'
      BY <2>2, <3>1 DEF ListForUser, tables, others, Entitled
    <3>3. \A g \in Handlers : req'[g] = IF g = h THEN [req[h] EXCEPT !.existing = links, !.at = "check"] ELSE req[g]
      BY <2>0, <2>2 DEF ListForUser
    <3>4. Cardinality(req[h].selected) <= Limit[sku] /\ req[h].at = "list"
      BY <2>2, <3>1 DEF ListForUser, WithinLimit, Reading
    <3>5. Reading'
      BY <2>0, <2>2, <3>1, <3>3, <3>4 DEF ListForUser, tables, others, Reading, Request, Idle
    <3>6. QED
      BY <3>2, <3>5
  <2>3. CASE CheckAdmin(h)
    <3>1. Entitled /\ Reading
      BY <1>0, <2>3 DEF CheckAdmin, others
    <3>2. Entitled'
      BY <2>3, <3>1 DEF CheckAdmin, tables, others, Entitled
    <3>3. \E r \in {[req[h] EXCEPT !.at = "look"]} \union {[req[h] EXCEPT !.vetted = @ \union {g}] : g \in Guilds} :
             \A g \in Handlers : req'[g] = IF g = h THEN r ELSE req[g]
      BY <2>0, <2>3 DEF CheckAdmin, New, Request
    <3>4. Reading'
      <4>1. /\ req'[h].at \in {"check", "look"} /\ req[h].at = "check"
            /\ req'[h].selected = req[h].selected /\ req'[h].existing = req[h].existing
            /\ req'[h].sku = req[h].sku
        BY <2>0, <2>3, <3>3 DEF CheckAdmin, Request
      <4>2. \A g \in Handlers : g # h => req'[g] = req[g]
        BY <3>3
      <4>3. links' = links /\ sku' = sku
        BY <2>3 DEF CheckAdmin, tables, others
      <4>4. QED
        BY <3>1, <4>1, <4>2, <4>3, IdleIsIdle DEF Reading
    <3>5. QED
      BY <3>2, <3>4
  <2>4. CASE GetById(h)
    <3>1. Entitled /\ Reading
      BY <1>0, <2>4 DEF GetById, others
    <3>2. Entitled'
      BY <2>4, <3>1 DEF GetById, tables, others, Entitled
    <3>3. \A x \in Kept(req[h]) : \E e \in ents : e.id = x.id /\ e.sku = req[h].sku
      BY <2>4, <3>1 DEF GetById, Entitled, Reading
    <3>4. \A g \in Handlers : req'[g] = IF g = h THEN [req[h] EXCEPT !.at = "commit", !.switch = {}] ELSE req[g]
      BY <2>0, <2>4, <3>3 DEF GetById
    <3>5. Reading'
      <4>1. /\ req'[h].at = "commit" /\ req'[h].switch = {} /\ req[h].at = "look"
            /\ req'[h].selected = req[h].selected /\ req'[h].existing = req[h].existing
            /\ req'[h].sku = req[h].sku
        BY <2>0, <2>4, <3>4 DEF GetById, Request
      <4>2. \A g \in Handlers : g # h => req'[g] = req[g]
        BY <3>4
      <4>3. links' = links /\ sku' = sku
        BY <2>4 DEF GetById, tables, others
      <4>4. QED
        BY <3>1, <4>1, <4>2, <4>3, IdleIsIdle DEF Reading
    <3>6. QED
      BY <3>2, <3>5
  <2>5. CASE Commit(h)
    <3>1. Entitled /\ Reading
      BY <1>0, <2>5 DEF Commit, others
    <3>2. \A g \in Handlers : req'[g] = Idle
      BY <2>0, <2>5, <3>1, IdleIsIdle DEF Commit, Reading
    <3>3. Reading'
      BY <3>2, IdleIsIdle DEF Reading
    <3>4. QED
      BY <2>5, <3>1, <3>3, CommitInTurn
  <2>6. CASE Abort(h)
    <3>1. Entitled /\ Reading
      BY <1>0, <2>6 DEF Abort, others
    <3>2. Entitled'
      BY <2>6, <3>1 DEF Abort, tables, others, Entitled
    <3>3. \A g \in Handlers : req'[g] = Idle
      BY <2>0, <2>6, <3>1, IdleIsIdle DEF Abort, Reading
    <3>4. Reading'
      BY <3>3, IdleIsIdle DEF Reading
    <3>5. QED
      BY <3>2, <3>4
  <2>7. QED
    BY <1>3, <2>1, <2>2, <2>3, <2>4, <2>5, <2>6 DEF StepOf
<1>4. CASE UNCHANGED vars
  BY <1>0, <1>4 DEF vars, Entitled, Reading
<1>5. QED
  BY <1>1, <1>2, <1>3, <1>4, NextCases

LEMMA InitInTurn == Init => InTurn
<1> SUFFICES ASSUME Init PROVE Entitled /\ Reading
  BY DEF InTurn
<1>1. Cardinality(Guilds) \in Nat
  BY GuildsAssumption, FS_CardinalityType
<1>2. PICK G \in SUBSET Guilds : \E id \in [G -> 1 .. Cardinality(Guilds)] :
         /\ Cardinality(G) <= Limit[sku]
         /\ \A g, k \in G : id[g] = id[k] => g = k
         /\ ents = {[id |-> id[g], guild |-> g, sku |-> sku] : g \in G}
         /\ links = {[id |-> id[g], guild |-> g] : g \in G}
         /\ selection = G
  BY DEF Init
<1>3. PICK id \in [G -> 1 .. Cardinality(Guilds)] :
         /\ Cardinality(G) <= Limit[sku]
         /\ \A g, k \in G : id[g] = id[k] => g = k
         /\ ents = {[id |-> id[g], guild |-> g, sku |-> sku] : g \in G}
         /\ links = {[id |-> id[g], guild |-> g] : g \in G}
         /\ selection = G
  BY <1>2
<1>4. \A g \in G : id[g] < nextId
  <2>1. \A g \in G : id[g] \in 1 .. Cardinality(Guilds)
    BY <1>3
  <2>2. nextId = Cardinality(Guilds) + 1
    BY DEF Init
  <2>3. QED
    BY <1>1, <2>1, <2>2
<1>5. ents = EntsFor(G, id, sku) /\ links = LinksFor(G, id)
  BY <1>3 DEF EntsFor, LinksFor
<1>6. GuildsOf(ents) = selection /\ links = LinksOf(ents)
  <2>1. GuildsOf(EntsFor(G, id, sku)) = G /\ LinksOf(EntsFor(G, id, sku)) = LinksFor(G, id)
    BY RowsFor
  <2>2. selection = G
    BY <1>3
  <2>3. QED
    BY <1>5, <2>1, <2>2
<1>7. \A e \in ents : e.sku = sku /\ e.id < nextId
  BY <1>3, <1>4
<1>8. \A e, f \in ents : e.id = f.id \/ e.guild = f.guild => e = f
  BY <1>3
<1>9. Entitled
  BY <1>3, <1>6, <1>7, <1>8 DEF Entitled, LinksOf
<1>10. Reading
  BY DEF Init, Reading, Idle
<1>11. QED
  BY <1>9, <1>10

\* SelectionIsEntitled: of requests one at a time, the last that committed decides which
\* guilds are entitled and linked, each once and no more than are paid for.
THEOREM SelectionsAreEntitled == Spec => []SelectionIsEntitled
<1>1. TypeInv /\ InTurn => SelectionIsEntitled
  <2> SUFFICES ASSUME TypeInv, Entitled PROVE
        /\ GuildsOf(ents) = selection
        /\ links = {[id |-> e.id, guild |-> e.guild] : e \in ents}
        /\ Cardinality(ents) = Cardinality(selection)
        /\ Cardinality(ents) <= Limit[sku]
    BY DEF InTurn, SelectionIsEntitled
  <2>1. IsFiniteSet(selection) /\ GuildsOf(ents) = selection
    BY GuildsAssumption, FS_Subset DEF TypeInv, TypeOK, Entitled
  <2>2. Cardinality(ents) = Cardinality(selection)
    BY <2>1, OneRowEach DEF Entitled
  <2>3. QED
    BY <2>1, <2>2 DEF Entitled
<1>2. QED
  BY <1>1, InitTypes, TypeStep, InitInTurn, InTurnStep, PTL DEF Spec
====
