---- MODULE GuildQuotasProofs ----
(***************************************************************************)
(* The quotas of GuildQuotas overshoot by fewer rows than there are        *)
(* requests at one time, for every limit and any number of handlers.  The  *)
(* inductive invariant is AdmittedFit: counting in needs room, inserting   *)
(* trades an admitted request for at most one row.                         *)
(***************************************************************************)
EXTENDS GuildQuotas, FiniteSetTheorems, TLAPS

\* What the steps of the five kinds have in common.
LEMMA NextCases ==
    ASSUME Next
    PROVE  \/ \E h \in Handlers : \E k \in Keys : \E to \in {"check", "insert"} : Admit(h, k, to)
           \/ \E h \in Handlers : \E to \in {"insert", "idle"} : Checked(h, to)
           \/ \E h \in Handlers : InsertFails(h)
           \/ \E h \in Handlers : \E k \in Keys \union {key[h]} : Insert(h, k)
           \/ \E k \in Keys : Remove(k)
<1>1. CASE \E h \in Handlers : \E k \in Keys : Count(h, k)
  BY <1>1 DEF Count, CountBlacklistedUsers, CountBlacklistedRoles, CountLabels, CountActive, CountOwned
<1>2. CASE \E h \in Handlers : Check(h)
  BY <1>2 DEF Check, CheckNotStaff, CheckActivation, CheckBody
<1>3. CASE \E h \in Handlers : Add(h)
  BY <1>3 DEF Add, AddBlacklistedUser, AddBlacklistedRole, CreateTicketLabel, AddToGuild, CreateIntegration
<1>4. CASE \E k \in Keys : Drop(k)
  BY <1>4 DEF Drop, RemoveBlacklistedUser, RemoveBlacklistedRole, DeleteTicketLabel, RemoveFromGuild,
              DeleteIntegration
<1>5. QED
  BY <1>1, <1>2, <1>3, <1>4 DEF Next

\* Every variable keeps its type in every step.
LEMMA TypeStep == TypeOK /\ [Next]_vars => TypeOK'
<1> SUFFICES ASSUME TypeOK, [Next]_vars PROVE TypeOK'
  OBVIOUS
<1> USE DEF TypeOK, Steps
<1>1. ASSUME NEW h \in Handlers, NEW k \in Keys, NEW to \in {"check", "insert"}, Admit(h, k, to)
      PROVE  TypeOK'
  BY <1>1 DEF Admit
<1>2. ASSUME NEW h \in Handlers, NEW to \in {"insert", "idle"}, Checked(h, to)
      PROVE  TypeOK'
  BY <1>2 DEF Checked
<1>3. ASSUME NEW h \in Handlers, InsertFails(h)
      PROVE  TypeOK'
  BY <1>3 DEF InsertFails
<1>4. ASSUME NEW h \in Handlers, NEW k \in Keys \union {key[h]}, Insert(h, k)
      PROVE  TypeOK'
  <2>1. k \in Keys
    OBVIOUS
  <2>2. IsFiniteSet(held \union {k})
    BY FS_AddElement
  <2>3. QED
    BY <1>4, <2>1, <2>2 DEF Insert
<1>5. ASSUME NEW k \in Keys, Remove(k)
      PROVE  TypeOK'
  <2>1. IsFiniteSet(held \ {k})
    BY FS_RemoveElement
  <2>2. QED
    BY <1>5, <2>1 DEF Remove
<1>6. CASE UNCHANGED vars
  BY <1>6 DEF vars
<1>7. QED
  BY <1>1, <1>2, <1>3, <1>4, <1>5, <1>6, NextCases

\* TypeOK of GuildQuotas holds for every Keys, Handlers and Limit.
THEOREM QuotaTypes == Spec => []TypeOK
<1>1. Init => TypeOK
  BY FS_EmptySet DEF Init, TypeOK, Steps
<1>2. QED
  BY <1>1, TypeStep, PTL DEF Spec

\* The admitted requests are finitely many, at most one for each handler.
LEMMA AdmittedIsFinite ==
    /\ IsFiniteSet(Admitted)
    /\ Cardinality(Admitted) \in Nat
    /\ Cardinality(Handlers) \in Nat \ {0}
    /\ Cardinality(Admitted) <= Cardinality(Handlers)
<1>1. Admitted \subseteq Handlers
  BY DEF Admitted
<1>2. IsFiniteSet(Admitted) /\ Cardinality(Admitted) <= Cardinality(Handlers)
  BY <1>1, HandlersAssumption, FS_Subset
<1>3. Cardinality(Admitted) \in Nat /\ Cardinality(Handlers) \in Nat
  BY <1>2, HandlersAssumption, FS_CardinalityType
<1>4. Cardinality(Handlers) # 0
  BY HandlersAssumption, FS_EmptySet
<1>5. QED
  BY <1>2, <1>3, <1>4

\* Rows and admitted requests fit together, step by step.
LEMMA FitStep == TypeOK /\ AdmittedFit /\ [Next]_vars => AdmittedFit'
<1> SUFFICES ASSUME TypeOK, AdmittedFit, [Next]_vars PROVE AdmittedFit'
  OBVIOUS
<1>a. Cardinality(held) \in Nat /\ Limit[kind] \in Nat \ {0}
  BY FS_CardinalityType, LimitAssumption DEF TypeOK
<1>b. TypeOK'
  BY TypeStep
<1>c. Cardinality(held') \in Nat /\ IsFiniteSet(Admitted') /\ Cardinality(Admitted') \in Nat
  <2>1. Admitted' \subseteq Handlers
    BY DEF Admitted
  <2>2. QED
    BY <1>b, <2>1, HandlersAssumption, FS_Subset, FS_CardinalityType DEF TypeOK
<1>1. ASSUME NEW h \in Handlers, NEW k \in Keys, NEW to \in {"check", "insert"}, Admit(h, k, to)
      PROVE  AdmittedFit'
  <2>1. held' = held /\ kind' = kind /\ Cardinality(held) + 1 <= Limit[kind]
    BY <1>1, <1>a DEF Admit, HasRoom
  <2>2. Admitted' \subseteq Handlers
    BY DEF Admitted
  <2>3. Cardinality(Admitted') <= Cardinality(Handlers)
    BY <2>2, HandlersAssumption, FS_Subset
  <2>4. QED
    BY <1>a, <1>c, <2>1, <2>3, AdmittedIsFinite DEF AdmittedFit
<1>2. ASSUME NEW h \in Handlers, NEW to \in {"insert", "idle"}, Checked(h, to)
      PROVE  AdmittedFit'
  <2>1. Admitted' \subseteq Admitted
    BY <1>2 DEF Checked, Admitted, TypeOK
  <2>2. Cardinality(Admitted') <= Cardinality(Admitted)
    BY <2>1, AdmittedIsFinite, FS_Subset
  <2>3. held' = held /\ kind' = kind
    BY <1>2 DEF Checked
  <2>4. QED
    BY <1>a, <1>c, <2>2, <2>3, AdmittedIsFinite DEF AdmittedFit
<1>3. ASSUME NEW h \in Handlers, InsertFails(h)
      PROVE  AdmittedFit'
  <2>1. Admitted' \subseteq Admitted
    BY <1>3 DEF InsertFails, Admitted, TypeOK
  <2>2. Cardinality(Admitted') <= Cardinality(Admitted)
    BY <2>1, AdmittedIsFinite, FS_Subset
  <2>3. held' = held /\ kind' = kind
    BY <1>3 DEF InsertFails
  <2>4. QED
    BY <1>a, <1>c, <2>2, <2>3, AdmittedIsFinite DEF AdmittedFit
<1>4. ASSUME NEW h \in Handlers, NEW k, Insert(h, k)
      PROVE  AdmittedFit'
  <2>1. Admitted' = Admitted \ {h} /\ h \in Admitted
    BY <1>4 DEF Insert, Admitted, TypeOK
  <2>2. Cardinality(Admitted') = Cardinality(Admitted) - 1
    BY <2>1, AdmittedIsFinite, FS_RemoveElement
  <2>3. Cardinality(held') <= Cardinality(held) + 1
    <3>1. held' = held \union {k} /\ IsFiniteSet(held)
      BY <1>4 DEF Insert, TypeOK
    <3>2. Cardinality(held') = IF k \in held THEN Cardinality(held) ELSE Cardinality(held) + 1
      BY <3>1, FS_AddElement
    <3>3. QED
      BY <3>2, <1>a
  <2>4. kind' = kind
    BY <1>4 DEF Insert
  <2>5. QED
    BY <1>a, <1>c, <2>2, <2>3, <2>4, AdmittedIsFinite DEF AdmittedFit
<1>5. ASSUME NEW k \in Keys, Remove(k)
      PROVE  AdmittedFit'
  <2>1. held' \subseteq held /\ kind' = kind /\ Admitted' = Admitted
    BY <1>5 DEF Remove, Admitted
  <2>2. Cardinality(held') <= Cardinality(held)
    BY <2>1, FS_Subset DEF TypeOK
  <2>3. QED
    BY <1>a, <1>c, <2>1, <2>2, AdmittedIsFinite DEF AdmittedFit
<1>6. CASE UNCHANGED vars
  BY <1>6 DEF vars, AdmittedFit, Admitted
<1>7. QED
  BY <1>1, <1>2, <1>3, <1>4, <1>5, <1>6, NextCases

\* AdmittedFit: rows and requests that were counted in never pass the limit by
\* as many as there are handlers.
THEOREM AdmittedRequestsFit == Spec => []AdmittedFit
<1>1. Init => AdmittedFit
  <2> SUFFICES ASSUME Init PROVE AdmittedFit
    OBVIOUS
  <2>1. Admitted = {} /\ held = {}
    BY DEF Init, Admitted
  <2>2. Cardinality(Admitted) = 0 /\ Cardinality(held) = 0
    BY <2>1, FS_EmptySet
  <2>3. Limit[kind] \in Nat \ {0}
    BY LimitAssumption DEF Init
  <2>4. QED
    BY <2>2, <2>3, AdmittedIsFinite DEF AdmittedFit
<1>2. QED
  BY <1>1, FitStep, QuotaTypes, PTL DEF Spec

\* OvershootIsBounded: check-then-insert without a lock lets a guild pass its
\* quota only by fewer rows than there are requests at one time.
THEOREM QuotasOvershootByRequests == Spec => []OvershootIsBounded
<1>1. TypeOK /\ AdmittedFit => OvershootIsBounded
  <2> SUFFICES ASSUME TypeOK, AdmittedFit PROVE OvershootIsBounded
    OBVIOUS
  <2>1. Cardinality(held) \in Nat /\ Limit[kind] \in Nat
    BY FS_CardinalityType, LimitAssumption DEF TypeOK
  <2>2. QED
    BY <2>1, AdmittedIsFinite DEF AdmittedFit, OvershootIsBounded
<1>2. QED
  BY <1>1, QuotaTypes, AdmittedRequestsFit, PTL
====
