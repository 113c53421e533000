---- MODULE FormInputsProofs ----
(***************************************************************************)
(* Proofs about FormInputs for any number of inputs and of requests at a   *)
(* time: types, the order in which the inputs stand, and how many there    *)
(* can be when requests overlap.                                           *)
(***************************************************************************)
EXTENDS FormInputs, FiniteSetTheorems, FunctionTheorems, SequenceTheorems,
        WellFoundedInduction, TLAPS

(* Sorting.  What induction proves of finite sets is proved from a smallest *)
(* set that would not have it.                                             *)

LEMMA SmallestSet ==
    ASSUME NEW D, IsFiniteSet(D), NEW F \in SUBSET SUBSET D, F # {}
    PROVE  \E T \in F : \A U \in F : U \subseteq T => U = T
<1>1. IsWellFoundedOn(StrictSubsetOrdering(D), SUBSET D)
  BY FS_StrictSubsetOrderingWellFounded, FS_FiniteSubsetsOfFinite
<1>2. PICK T \in F : \A U \in F : ~(<<U, T>> \in StrictSubsetOrdering(D))
  BY <1>1, WFMin
<1>3. ASSUME NEW U \in F, U \subseteq T PROVE U = T
  <2>1. <<U, T>> \in (SUBSET D) \X (SUBSET D)
    OBVIOUS
  <2>2. QED
    BY <1>2, <1>3, <2>1 DEF StrictSubsetOrdering
<1>4. QED
  BY <1>3

LEMMA Greatest ==
    ASSUME NEW D, IsFiniteSet(D), NEW f, \A d \in D : f[d] \in Nat,
           NEW E \in SUBSET D, E # {}
    PROVE  \E d \in E : \A e \in E : f[e] <= f[d]
<1> DEFINE Lacks(U) == U # {} /\ ~\E d \in U : \A e \in U : f[e] <= f[d]
           F == {U \in SUBSET D : Lacks(U)}
<1> SUFFICES ASSUME F # {} PROVE FALSE
  OBVIOUS
<1>1. PICK T \in F : \A U \in F : U \subseteq T => U = T
  <2>1. F \in SUBSET SUBSET D
    OBVIOUS
  <2> HIDE DEF F
  <2>2. QED
    BY <2>1, SmallestSet
<1>2. PICK x \in T : TRUE
  OBVIOUS
<1>3. T \ {x} \notin F
  BY <1>1, <1>2
<1>4. CASE T \ {x} = {}
  BY <1>1, <1>2, <1>4
<1>5. CASE T \ {x} # {}
  <2>1. PICK d \in T \ {x} : \A e \in T \ {x} : f[e] <= f[d]
    BY <1>3, <1>5
  <2>2. f[d] \in Nat /\ f[x] \in Nat /\ \A e \in T : f[e] \in Nat
    BY <1>2, <2>1
  <2>3. CASE f[x] <= f[d]
    BY <1>1, <2>1, <2>2, <2>3
  <2>4. CASE f[d] < f[x]
    <3>1. \A e \in T : f[e] <= f[x]
      BY <2>1, <2>2, <2>4
    <3>2. QED
      BY <1>1, <1>2, <3>1
  <2>5. QED
    BY <2>2, <2>3, <2>4
<1>6. QED
  BY <1>4, <1>5

\* The elements of E in the order of f.
Orders(p, E, f) ==
    /\ p \in Bijection(1 .. Cardinality(E), E)
    /\ \A i, j \in 1 .. Cardinality(E) : i < j => f[p[i]] <= f[p[j]]

LEMMA CanBeOrdered ==
    ASSUME NEW D, IsFiniteSet(D), NEW f, \A d \in D : f[d] \in Nat
    PROVE  \E p : Orders(p, D, f)
<1> DEFINE F == {U \in SUBSET D : ~\E p : Orders(p, U, f)}
<1> SUFFICES ASSUME F # {} PROVE FALSE
  OBVIOUS
<1>1. PICK T \in F : \A U \in F : U \subseteq T => U = T
  <2>1. F \in SUBSET SUBSET D
    OBVIOUS
  <2> HIDE DEF F
  <2>2. QED
    BY <2>1, SmallestSet
<1>2. IsFiniteSet(T) /\ Cardinality(T) \in Nat
  BY FS_Subset, FS_CardinalityType
<1>3. CASE T = {}
  <2>1. Cardinality(T) = 0 /\ 1 .. Cardinality(T) = {}
    BY <1>3, FS_EmptySet
  <2>2. [i \in {} |-> i] \in Bijection({}, {})
    BY DEF Bijection, Injection, Surjection, IsInjective
  <2>3. Orders([i \in {} |-> i], T, f)
    BY <1>3, <2>1, <2>2 DEF Orders
  <2>4. QED
    BY <2>3
<1>4. CASE T # {}
  <2>1. PICK d \in T : \A e \in T : f[e] <= f[d]
    BY <1>4, Greatest
  <2>2. T \ {d} \notin F
    BY <1>1, <2>1
  <2>3. PICK p : Orders(p, T \ {d}, f)
    BY <2>2
  <2> DEFINE n == Cardinality(T)
             q == [i \in 1 .. n |-> IF i = n THEN d ELSE p[i]]
  <2>4. n \in Nat /\ n > 0 /\ Cardinality(T \ {d}) = n - 1
    <3>1. IsFiniteSet(T \ {d}) /\ Cardinality(T \ {d}) \in Nat
      BY <1>2, FS_Subset, FS_CardinalityType
    <3>2. Cardinality(T \ {d}) = Cardinality(T) - 1
      BY <1>2, <2>1, FS_RemoveElement
    <3>3. QED
      BY <1>2, <3>1, <3>2
  <2>5. /\ p \in [1 .. n - 1 -> T \ {d}]
        /\ \A i, j \in 1 .. n - 1 : p[i] = p[j] => i = j
        /\ \A e \in T \ {d} : \E i \in 1 .. n - 1 : p[i] = e
        /\ \A i, j \in 1 .. n - 1 : i < j => f[p[i]] <= f[p[j]]
    BY <2>3, <2>4 DEF Orders, Bijection, Injection, Surjection, IsInjective
  <2>6. q \in [1 .. n -> T]
    BY <2>4, <2>5
  <2>7. \A i, j \in 1 .. n : q[i] = q[j] => i = j
    BY <2>4, <2>5
  <2>8. \A e \in T : \E i \in 1 .. n : q[i] = e
    <3>1. q[n] = d /\ n \in 1 .. n
      BY <2>4
    <3>2. \A i \in 1 .. n - 1 : q[i] = p[i] /\ i \in 1 .. n
      BY <2>4
    <3> HIDE DEF q
    <3>3. QED
      BY <2>5, <3>1, <3>2
  <2>9. \A i, j \in 1 .. n : i < j => f[q[i]] <= f[q[j]]
    <3> SUFFICES ASSUME NEW i \in 1 .. n, NEW j \in 1 .. n, i < j
                 PROVE  f[q[i]] <= f[q[j]]
      OBVIOUS
    <3>1. i \in 1 .. n - 1 /\ q[i] = p[i] /\ p[i] \in T
      BY <2>4, <2>5
    <3>2. CASE j = n
      BY <2>1, <2>4, <3>1, <3>2
    <3>3. CASE j # n
      BY <2>4, <2>5, <3>1, <3>3
    <3>4. QED
      BY <3>2, <3>3
  <2> HIDE DEF q
  <2>10. Orders(q, T, f)
    BY <2>6, <2>7, <2>8, <2>9 DEF Orders, Bijection, Injection, Surjection, IsInjective
  <2>11. QED
    BY <2>10
<1>5. QED
  BY <1>3, <1>4

LEMMA SortedArranges ==
    ASSUME NEW n \in Nat, NEW s \in [1 .. n -> Nat]
    PROVE  \E p \in Bijection(1 .. n, 1 .. n) : Sorted(s) = [i \in 1 .. n |-> s[p[i]]]
<1> DEFINE Ascends(p) == \A i, j \in DOMAIN s : i < j => s[p[i]] <= s[p[j]]
           order == CHOOSE p \in Bijection(DOMAIN s, DOMAIN s) : Ascends(p)
<1>1. IsFiniteSet(1 .. n) /\ Cardinality(1 .. n) = n
  BY FS_Interval
<1>2. PICK q : Orders(q, 1 .. n, s)
  BY <1>1, CanBeOrdered
<1>3. DOMAIN s = 1 .. n
  OBVIOUS
<1>4. q \in Bijection(DOMAIN s, DOMAIN s) /\ Ascends(q)
  BY <1>1, <1>2, <1>3 DEF Orders
<1>5. order \in Bijection(DOMAIN s, DOMAIN s)
  <2> HIDE DEF Ascends
  <2>1. QED
    BY <1>4
<1>6. Sorted(s) = [i \in DOMAIN s |-> s[order[i]]]
  BY DEF Sorted
<1> HIDE DEF order
<1>7. QED
  BY <1>3, <1>5, <1>6

\* Values that are 1, 2, 3 and so on when sorted are 1 to n in some order.
LEMMA SortedToIdentity ==
    ASSUME NEW n \in Nat, NEW s \in [1 .. n -> Nat],
           \A i \in DOMAIN Sorted(s) : Sorted(s)[i] = i
    PROVE  s \in Bijection(1 .. n, 1 .. n)
<1>1. PICK p \in Bijection(1 .. n, 1 .. n) : Sorted(s) = [i \in 1 .. n |-> s[p[i]]]
  BY SortedArranges
<1>2. \A i \in 1 .. n : s[p[i]] = i /\ p[i] \in 1 .. n
  BY <1>1 DEF Bijection, Surjection
<1>3. \A j \in 1 .. n : \E i \in 1 .. n : p[i] = j
  BY <1>1 DEF Bijection, Surjection
<1>4. \A j \in 1 .. n : s[j] \in 1 .. n /\ p[s[j]] = j
  BY <1>2, <1>3
<1>5. s \in [1 .. n -> 1 .. n] /\ DOMAIN s = 1 .. n
  BY <1>4
<1>6. \A i, j \in 1 .. n : s[i] = s[j] => i = j
  BY <1>4
<1>7. \A i \in 1 .. n : \E j \in 1 .. n : s[j] = i
  BY <1>2
<1>8. QED
  BY <1>5, <1>6, <1>7 DEF Bijection, Injection, Surjection, IsInjective

(* The body of a request *)

\* A body that a client can send, and one that a handler keeps.
Update == [id : Nat, position : Positions]
Body   == [at : {"idle", "save"}, create : Seq(Positions), update : Seq(Update),
           delete : SUBSET Nat, existing : SUBSET Nat]

LEMMA PositionsOfType ==
    ASSUME NEW b \in Body
    PROVE  /\ PositionsOf(b) \in [1 .. Len(b.create) + Len(b.update) -> Positions]
           /\ \A k \in 1 .. Len(b.create) : PositionsOf(b)[k] = b.create[k]
           /\ \A k \in 1 .. Len(b.update) :
                PositionsOf(b)[Len(b.create) + k] = b.update[k].position
<1> DEFINE c == Len(b.create)
           u == Len(b.update)
           t == [i \in DOMAIN b.update |-> b.update[i].position]
<1>1. c \in Nat /\ b.create \in [1 .. c -> Positions]
  BY DEF Body
<1>2. u \in Nat /\ b.update \in [1 .. u -> Update]
  BY DEF Body
<1>3. t \in [1 .. u -> Positions]
  BY <1>2 DEF Update
<1>4. t \in Seq(Positions) /\ Len(t) = u
  BY <1>2, <1>3
<1>5. b.create \in Seq(Positions)
  BY DEF Body
<1>6. PositionsOf(b) = b.create \o t
  BY DEF PositionsOf
<1>7. \A k \in 1 .. u : t[k] = b.update[k].position
  BY <1>2
<1> HIDE DEF t
<1> DEFINE w == b.create \o t
<1>8. w \in Seq(Positions) /\ Len(w) = Len(b.create) + Len(t)
  BY <1>4, <1>5, ConcatProperties
<1>9. \A i \in 1 .. Len(b.create) + Len(t) :
        w[i] = IF i <= Len(b.create) THEN b.create[i] ELSE t[i - Len(b.create)]
  BY <1>4, <1>5, ConcatProperties
<1> HIDE DEF c, u, w
<1>10. w \in [1 .. c + u -> Positions]
  BY <1>4, <1>8 DEF c
<1>11. \A k \in 1 .. c : w[k] = b.create[k]
  BY <1>1, <1>2, <1>4, <1>9 DEF c
<1>12. \A k \in 1 .. u : w[c + k] = b.update[k].position
  <2> SUFFICES ASSUME NEW k \in 1 .. u PROVE w[c + k] = b.update[k].position
    OBVIOUS
  <2>1. c + k \in 1 .. c + u /\ ~(c + k <= c) /\ (c + k) - c = k
    BY <1>1, <1>2
  <2>2. w[c + k] = t[k]
    BY <1>4, <1>9, <2>1 DEF c
  <2>3. QED
    BY <1>7, <2>2
<1>13. PositionsOf(b) = w
  BY <1>6 DEF w
<1>14. QED
  BY <1>10, <1>11, <1>12, <1>13 DEF c, u

\* The check of the positions lets exactly the numbers 1 to n through.
LEMMA CorrectPositions ==
    ASSUME NEW b \in Body, ArePositionsCorrect(b)
    PROVE  LET n == Len(b.create) + Len(b.update) IN PositionsOf(b) \in Bijection(1 .. n, 1 .. n)
<1>1. Len(b.create) + Len(b.update) \in Nat
  BY DEF Body
<1>2. Positions \subseteq Nat
  BY DEF Positions
<1>3. PositionsOf(b) \in [1 .. Len(b.create) + Len(b.update) -> Nat]
  BY <1>2, PositionsOfType
<1>4. QED
  BY <1>1, <1>3, SortedToIdentity DEF ArePositionsCorrect

LEMMA LastUpdateIsThere ==
    ASSUME NEW b \in Body, NEW i \in Ids(b)
    PROVE  \E k \in DOMAIN b.update : b.update[k].id = i /\ LastUpdate(b, i) = b.update[k].position
<1> DEFINE m == Len(b.update)
           E == {k \in 1 .. m : b.update[k].id = i}
           f == [k \in 1 .. m |-> k]
           Latest(k) == /\ b.update[k].id = i
                        /\ \A l \in DOMAIN b.update : b.update[l].id = i => l <= k
<1>1. m \in Nat /\ DOMAIN b.update = 1 .. m
  BY DEF Body
<1>2. E # {} /\ E \in SUBSET (1 .. m)
  BY <1>1 DEF Ids
<1>3. IsFiniteSet(1 .. m) /\ \A d \in 1 .. m : f[d] \in Nat
  BY <1>1, FS_Interval
<1>4. PICK k \in E : \A e \in E : f[e] <= f[k]
  <2> HIDE DEF E, f
  <2>1. QED
    BY <1>2, <1>3, Greatest
<1>5. k \in DOMAIN b.update /\ Latest(k)
  BY <1>1, <1>4
<1>6. LastUpdate(b, i) = b.update[CHOOSE j \in DOMAIN b.update : Latest(j)].position
  BY DEF LastUpdate
<1>7. /\ (CHOOSE j \in DOMAIN b.update : Latest(j)) \in DOMAIN b.update
      /\ Latest(CHOOSE j \in DOMAIN b.update : Latest(j))
  <2> HIDE DEF Latest
  <2>1. QED
    BY <1>5
<1>8. QED
  BY <1>6, <1>7
----
(* Types *)

\* Every id in use is below nextId, and a position is one a form can have.
TypeInv ==
    /\ exists \in BOOLEAN /\ raced \in BOOLEAN /\ repeated \in BOOLEAN
    /\ nextId \in Nat \ {0} /\ requests \in Nat
    /\ DOMAIN inputs \subseteq 1 .. nextId - 1
    /\ Range(inputs) \subseteq Positions
    /\ req \in [Handlers -> Body]
    /\ \A h \in Handlers : req[h].existing \subseteq 1 .. nextId - 1

\* The inductive invariant of TypeOK with what a handler has checked of its body,
\* and with what the body of a request that names no input twice looks like.
Checked(b)  == FieldCountOk(b) /\ ContentsMatch(b, b.existing) /\ ArePositionsCorrect(b)
Distinct(b) == Cardinality(Ids(b)) = Len(b.update)
Saving      == {h \in Handlers : req[h].at = "save"}

CheckInv    == \A h \in Saving : Checked(req[h])
DistinctInv == ~repeated => \A h \in Saving : Distinct(req[h])

\* A form that is gone has no inputs.
GoneInv == ~exists => DOMAIN inputs = {}

\* Without overlap, what the one handler that saves has read is what is stored.
AloneInv == ~raced => /\ \A g, h \in Saving : g = h
                      /\ exists => \A h \in Saving : req[h].existing = DOMAIN inputs

\* What InputsStandInOrder says, with the number of inputs a number.
OrderInv ==
    (~raced /\ ~repeated) =>
      /\ Cardinality(DOMAIN inputs) <= MaxInputs
      /\ Range(inputs) = 1 .. Cardinality(DOMAIN inputs)

LEMMA IdsCount ==
    ASSUME NEW b \in Body
    PROVE  /\ IsFiniteSet(Ids(b)) /\ Cardinality(Ids(b)) \in Nat
           /\ Cardinality(Ids(b)) <= Len(b.update)
           /\ Distinct(b) => \A k, l \in DOMAIN b.update :
                               b.update[k].id = b.update[l].id => k = l
<1> DEFINE m == Len(b.update)
           f == [k \in 1 .. m |-> b.update[k].id]
<1>1. m \in Nat /\ DOMAIN b.update = 1 .. m
  BY DEF Body
<1>2. f \in Surjection(1 .. m, Ids(b))
  BY <1>1 DEF Surjection, Ids
<1>3. IsFiniteSet(1 .. m) /\ Cardinality(1 .. m) = m
  BY <1>1, FS_Interval
<1>4. \A k \in 1 .. m : f[k] = b.update[k].id
  OBVIOUS
<1> HIDE DEF f
<1>5. /\ IsFiniteSet(Ids(b)) /\ Cardinality(Ids(b)) <= m
      /\ Cardinality(Ids(b)) = m => f \in Injection(1 .. m, Ids(b))
  BY <1>2, <1>3, FS_Surjection
<1>6. Cardinality(Ids(b)) \in Nat
  BY <1>5, FS_CardinalityType
<1>7. ASSUME Distinct(b), NEW k \in DOMAIN b.update, NEW l \in DOMAIN b.update,
             b.update[k].id = b.update[l].id
      PROVE  k = l
  BY <1>1, <1>4, <1>5, <1>7 DEF Distinct, Injection, IsInjective
<1>8. QED
  BY <1>5, <1>6, <1>7

\* A body that names no input twice updates all that it does not delete.
LEMMA AllUpdated ==
    ASSUME NEW b \in Body, NEW existing, IsFiniteSet(existing),
           ContentsMatch(b, existing), Distinct(b)
    PROVE  Ids(b) = existing \ b.delete
<1>1. IsFiniteSet(existing \ b.delete)
  BY FS_Subset
<1>2. Ids(b) \in SUBSET (existing \ b.delete)
  BY DEF ContentsMatch
<1>3. Cardinality(existing \ b.delete) = Cardinality(Ids(b))
  BY DEF ContentsMatch, Distinct
<1>4. QED
  BY <1>1, <1>2, <1>3, FS_Subset

LEMMA BodiesAreBodies ==
    ASSUME TypeInv, NEW b \in Bodies
    PROVE  b \in Body
<1>1. DOMAIN inputs \union {0} \subseteq Nat
  BY DEF TypeInv
<1>2. PICK n \in 0 .. MaxInputs : b.create \in [1 .. n -> Positions]
  BY DEF Bodies
<1>3. PICK m \in 0 .. MaxInputs :
        b.update \in [1 .. m -> [id : DOMAIN inputs \union {0}, position : Positions]]
  BY DEF Bodies
<1>4. n \in Nat /\ m \in Nat
  BY BoundsAssumption
<1>5. b.create \in Seq(Positions)
  BY <1>2, <1>4
<1>6. b.update \in [1 .. m -> Update]
  BY <1>1, <1>3 DEF Update
<1>7. b.update \in Seq(Update)
  BY <1>4, <1>6
<1>8. QED
  BY <1>1, <1>5, <1>7 DEF Bodies, Body

(* The inputs after a body has been written *)

LEMMA SavedType ==
    ASSUME TypeInv, NEW b \in Body
    PROVE  /\ DOMAIN Saved(b) \subseteq 1 .. nextId + Len(b.create) - 1
           /\ Range(Saved(b)) \subseteq Positions
<1> DEFINE new == nextId .. nextId + Len(b.create) - 1
<1>1. Len(b.create) \in Nat /\ b.create \in [1 .. Len(b.create) -> Positions]
  BY DEF Body
<1>2. nextId \in Nat /\ nextId > 0
  BY DEF TypeInv
<1>3. DOMAIN inputs \subseteq 1 .. nextId - 1 /\ \A i \in DOMAIN inputs : inputs[i] \in Positions
  BY DEF TypeInv, Range
<1>4. DOMAIN Saved(b) = (DOMAIN inputs \ b.delete) \union new
  BY DEF Saved
<1>5. ASSUME NEW i \in DOMAIN Saved(b) PROVE Saved(b)[i] \in Positions
  <2>1. CASE i >= nextId
    <3>1. i \in new
      BY <1>2, <1>3, <1>4, <2>1
    <3>2. i - nextId + 1 \in 1 .. Len(b.create)
      BY <1>1, <1>2, <3>1
    <3>3. Saved(b)[i] = b.create[i - nextId + 1]
      BY <1>4, <1>5, <2>1 DEF Saved
    <3>4. QED
      BY <1>1, <3>2, <3>3
  <2>2. CASE ~(i >= nextId) /\ i \in Ids(b)
    <3>1. Saved(b)[i] = LastUpdate(b, i)
      BY <1>4, <1>5, <2>2 DEF Saved
    <3>2. PICK k \in DOMAIN b.update : LastUpdate(b, i) = b.update[k].position
      BY <2>2, LastUpdateIsThere
    <3>3. QED
      <4>1. b.update[k] \in Update
        BY DEF Body
      <4>2. QED
        BY <3>1, <3>2, <4>1 DEF Update
  <2>3. CASE ~(i >= nextId) /\ i \notin Ids(b)
    <3>1. Saved(b)[i] = inputs[i]
      BY <1>4, <1>5, <2>3 DEF Saved
    <3>2. i \in DOMAIN inputs
      BY <1>1, <1>2, <1>4, <1>5, <2>3
    <3>3. QED
      BY <1>3, <3>1, <3>2
  <2>4. QED
    BY <2>1, <2>2, <2>3
<1>6. QED
  BY <1>1, <1>2, <1>3, <1>4, <1>5 DEF Range

\* A body that updates everything it does not delete, each input once, and whose
\* positions are 1 to n leaves n inputs at the positions 1 to n.
LEMMA SavedInOrder ==
    ASSUME TypeInv, NEW b \in Body, Checked(b), Distinct(b), b.existing = DOMAIN inputs
    PROVE  /\ Cardinality(DOMAIN Saved(b)) = Len(b.create) + Len(b.update)
           /\ Range(Saved(b)) = 1 .. Len(b.create) + Len(b.update)
<1> DEFINE c    == Len(b.create)
           m    == Len(b.update)
           kept == DOMAIN inputs \ b.delete
           new  == nextId .. nextId + c - 1
           s    == PositionsOf(b)
<1>1. c \in Nat /\ b.create \in [1 .. c -> Positions]
  BY DEF Body
<1>2. m \in Nat /\ DOMAIN b.update = 1 .. m
  BY DEF Body
<1>3. nextId \in Nat /\ nextId > 0 /\ DOMAIN inputs \subseteq 1 .. nextId - 1
  BY DEF TypeInv
<1>4. IsFiniteSet(DOMAIN inputs)
  <2>1. IsFiniteSet(1 .. nextId - 1)
    BY <1>3, FS_Interval
  <2>2. QED
    BY <1>3, <2>1, FS_Subset
<1>5. Ids(b) = kept /\ IsFiniteSet(kept) /\ Cardinality(kept) = m
  BY <1>4, AllUpdated, FS_Subset DEF Checked, ContentsMatch
<1>6. DOMAIN Saved(b) = kept \union new
  BY DEF Saved
<1>7. kept \intersect new = {} /\ \A i \in kept : ~(i >= nextId)
  BY <1>1, <1>3
<1>8. IsFiniteSet(new) /\ Cardinality(new) = c
  <2>1. nextId \in Int /\ nextId + c - 1 \in Int
    BY <1>1, <1>3
  <2>2. /\ IsFiniteSet(new)
        /\ Cardinality(new) =
             IF nextId > nextId + c - 1 THEN 0 ELSE (nextId + c - 1) - nextId + 1
    BY <2>1, FS_Interval
  <2> HIDE DEF c, new
  <2>3. QED
    BY <1>1, <1>3, <2>2
<1>9. Cardinality(DOMAIN Saved(b)) = c + m
  <2>1. Cardinality(kept \union new) =
          Cardinality(kept) + Cardinality(new) - Cardinality(kept \intersect new)
    BY <1>5, <1>8, FS_Union
  <2>2. Cardinality(kept \intersect new) = 0
    BY <1>7, FS_EmptySet
  <2> HIDE DEF kept, new, c, m
  <2>3. QED
    BY <1>1, <1>2, <1>5, <1>6, <1>8, <2>1, <2>2
<1>10. s \in Bijection(1 .. c + m, 1 .. c + m)
  BY CorrectPositions DEF Checked
<1>11. \A k \in 1 .. c : s[k] = b.create[k]
  BY PositionsOfType
<1>12. \A k \in 1 .. m : s[c + k] = b.update[k].position
  BY PositionsOfType
<1> HIDE DEF s
<1>13. \A k \in 1 .. c + m : s[k] \in 1 .. c + m
  BY <1>10 DEF Bijection, Surjection
<1>14. \A t \in 1 .. c + m : \E k \in 1 .. c + m : s[k] = t
  BY <1>10 DEF Bijection, Surjection
<1>15. \A k \in 1 .. c : nextId + k - 1 \in new /\ Saved(b)[nextId + k - 1] = s[k]
  <2> SUFFICES ASSUME NEW k \in 1 .. c
               PROVE  nextId + k - 1 \in new /\ Saved(b)[nextId + k - 1] = s[k]
    OBVIOUS
  <2>1. nextId + k - 1 \in new /\ nextId + k - 1 >= nextId /\ (nextId + k - 1) - nextId + 1 = k
    BY <1>1, <1>3
  <2>2. Saved(b)[nextId + k - 1] = b.create[(nextId + k - 1) - nextId + 1]
    BY <1>6, <2>1 DEF Saved
  <2>3. QED
    BY <1>11, <2>1, <2>2
<1>16. \A k \in 1 .. m : b.update[k].id \in kept /\ Saved(b)[b.update[k].id] = s[c + k]
  <2> SUFFICES ASSUME NEW k \in 1 .. m
               PROVE  b.update[k].id \in kept /\ Saved(b)[b.update[k].id] = s[c + k]
    OBVIOUS
  <2> DEFINE i == b.update[k].id
  <2>1. i \in Ids(b) /\ i \in kept
    BY <1>2, <1>5 DEF Ids
  <2>2. Saved(b)[i] = LastUpdate(b, i)
    BY <1>6, <1>7, <2>1 DEF Saved
  <2>3. PICK l \in DOMAIN b.update :
          b.update[l].id = i /\ LastUpdate(b, i) = b.update[l].position
    BY <2>1, LastUpdateIsThere
  <2>4. l = k
    BY <1>2, <2>3, IdsCount
  <2>5. QED
    BY <1>12, <2>1, <2>2, <2>3, <2>4
<1>17. \A i \in new : \E k \in 1 .. c : i = nextId + k - 1
  <2> SUFFICES ASSUME NEW i \in new PROVE \E k \in 1 .. c : i = nextId + k - 1
    OBVIOUS
  <2>1. i - nextId + 1 \in 1 .. c /\ i = nextId + (i - nextId + 1) - 1
    BY <1>1, <1>3
  <2>2. QED
    BY <2>1
<1>18. \A i \in kept : \E k \in 1 .. m : b.update[k].id = i
  BY <1>2, <1>5 DEF Ids
<1> HIDE DEF c, m, kept, new
<1>19. \A k \in 1 .. c : k \in 1 .. c + m
  BY <1>1, <1>2
<1>20. \A k \in 1 .. m : c + k \in 1 .. c + m
  BY <1>1, <1>2
<1>21. \A k \in 1 .. c + m : k \in 1 .. c \/ \E l \in 1 .. m : k = c + l
  <2> SUFFICES ASSUME NEW k \in 1 .. c + m, k \notin 1 .. c
               PROVE  \E l \in 1 .. m : k = c + l
    OBVIOUS
  <2>1. k - c \in 1 .. m /\ k = c + (k - c)
    BY <1>1, <1>2
  <2>2. QED
    BY <2>1
<1>22. \A i \in DOMAIN Saved(b) : Saved(b)[i] \in 1 .. c + m
  BY <1>6, <1>13, <1>15, <1>16, <1>17, <1>18, <1>19, <1>20
<1>23. \A t \in 1 .. c + m : \E i \in DOMAIN Saved(b) : Saved(b)[i] = t
  BY <1>6, <1>14, <1>15, <1>16, <1>21
<1>24. Range(Saved(b)) = 1 .. c + m
  BY <1>22, <1>23 DEF Range
<1>25. QED
  BY <1>9, <1>24 DEF c, m
----
(* The steps *)

\* The body b as a handler keeps it.
Kept(b, ids) == [b EXCEPT !.at = "save", !.existing = ids]

LEMMA KeptBody ==
    ASSUME NEW b \in Body, NEW ids \in SUBSET Nat
    PROVE  LET e == Kept(b, ids) IN
           /\ e \in Body /\ e.at = "save" /\ e.existing = ids
           /\ e.create = b.create /\ e.update = b.update /\ e.delete = b.delete
  BY DEF Body, Kept

\* A body that was let through keeps what was checked of it.
LEMMA KeptIsChecked ==
    ASSUME NEW b \in Body, NEW ids \in SUBSET Nat,
           FieldCountOk(b), ContentsMatch(b, ids), ArePositionsCorrect(b)
    PROVE  Checked(Kept(b, ids)) /\ Ids(Kept(b, ids)) = Ids(b)
<1> DEFINE e == Kept(b, ids)
<1>1. /\ e.create = b.create /\ e.update = b.update /\ e.delete = b.delete
      /\ e.existing = ids
  BY KeptBody
<1> HIDE DEF e
<1>2. Ids(e) = Ids(b)
  BY <1>1 DEF Ids
<1>3. FieldCountOk(e)
  BY <1>1 DEF FieldCountOk
<1>4. ContentsMatch(e, e.existing)
  BY <1>1, <1>2 DEF ContentsMatch
<1>5. PositionsOf(e) = PositionsOf(b)
  BY <1>1 DEF PositionsOf
<1>6. ArePositionsCorrect(e)
  BY <1>5 DEF ArePositionsCorrect
<1>7. QED
  BY <1>2, <1>3, <1>4, <1>6 DEF Checked, e

\* What UpdateInputs leaves in req: the body e, checked against what is stored.
LEMMA UpdateKeeps ==
    ASSUME TypeInv, NEW h \in Handlers, NEW b \in Bodies, UpdateInputs(h, b)
    PROVE  \E e \in Body : /\ req' = [req EXCEPT ![h] = e]
                           /\ e.at = "save" /\ e.existing = DOMAIN inputs /\ Checked(e)
                           /\ ~repeated' => Distinct(e)
<1>1. b \in Body
  BY BodiesAreBodies
<1>2. DOMAIN inputs \in SUBSET Nat
  BY DEF TypeInv
<1>3. PICK e : e = Kept(b, DOMAIN inputs)
  OBVIOUS
<1>4. e \in Body /\ e.at = "save" /\ e.existing = DOMAIN inputs /\ e.update = b.update
  BY <1>1, <1>2, <1>3, KeptBody
<1>5. Checked(e) /\ Ids(e) = Ids(b)
  BY <1>1, <1>2, <1>3, KeptIsChecked DEF UpdateInputs
<1>6. req' = [req EXCEPT ![h] = e]
  BY <1>3 DEF UpdateInputs, Kept
<1>7. ASSUME ~repeated' PROVE Distinct(e)
  <2>1. ~(Cardinality(Ids(e)) < Len(e.update))
    BY <1>4, <1>5, <1>7 DEF UpdateInputs
  <2>2. Cardinality(Ids(e)) \in Nat /\ Cardinality(Ids(e)) <= Len(e.update) /\ Len(e.update) \in Nat
    BY <1>4, IdsCount DEF Body
  <2>3. QED
    BY <2>1, <2>2 DEF Distinct
<1>8. QED
  BY <1>4, <1>5, <1>6, <1>7

LEMMA IdleIsBody == Idle \in Body /\ Idle.at # "save" /\ Idle.existing = {}
<1>1. <<>> \in Seq(Positions) /\ <<>> \in Seq(Update)
  OBVIOUS
<1>2. QED
  BY <1>1 DEF Idle, Body

LEMMA TypeStep ==
    ASSUME TypeInv, [Next]_vars
    PROVE  TypeInv'
<1>1. ASSUME NEW h \in Handlers, NEW b \in Bodies, UpdateInputs(h, b) PROVE TypeInv'
  <2>1. PICK e \in Body : req' = [req EXCEPT ![h] = e] /\ e.existing = DOMAIN inputs
    BY <1>1, UpdateKeeps
  <2>2. raced' \in BOOLEAN /\ repeated' \in BOOLEAN /\ requests' \in Nat
    BY <1>1 DEF UpdateInputs, TypeInv
  <2>3. exists' = exists /\ inputs' = inputs /\ nextId' = nextId
    BY <1>1 DEF UpdateInputs
  <2>4. req' \in [Handlers -> Body]
    BY <2>1 DEF TypeInv
  <2>5. \A g \in Handlers : req'[g].existing \subseteq 1 .. nextId - 1
    BY <2>1 DEF TypeInv
  <2>6. QED
    BY <2>2, <2>3, <2>4, <2>5 DEF TypeInv, Range
<1>2. ASSUME NEW h \in Handlers, req' = [req EXCEPT ![h] = Idle],
             NEW n \in Nat, nextId' = nextId + n
      PROVE  /\ req' \in [Handlers -> Body]
             /\ \A g \in Handlers : req'[g].existing \subseteq 1 .. nextId' - 1
  <2>1. \A g \in Handlers : req'[g] = Idle \/ req'[g] = req[g]
    BY <1>2 DEF TypeInv
  <2>2. \A g \in Handlers : req[g].existing \subseteq 1 .. nextId' - 1
    BY <1>2 DEF TypeInv
  <2>3. req' \in [Handlers -> Body]
    BY <1>2, IdleIsBody DEF TypeInv
  <2>4. QED
    BY <2>1, <2>2, <2>3, IdleIsBody
<1>3. ASSUME NEW h \in Handlers, SaveInputs(h) PROVE TypeInv'
  <2>1. PICK e : e = req[h]
    OBVIOUS
  <2>2. e \in Body /\ Len(e.create) \in Nat
    BY <2>1 DEF TypeInv, Body
  <2>3. inputs' = Saved(e) /\ nextId' = nextId + Len(e.create) /\ req' = [req EXCEPT ![h] = Idle]
    BY <1>3, <2>1 DEF SaveInputs
  <2>4. /\ DOMAIN Saved(e) \subseteq 1 .. nextId + Len(e.create) - 1
        /\ Range(Saved(e)) \subseteq Positions
    BY <2>2, SavedType
  <2>5. \A i \in DOMAIN inputs' : inputs'[i] \in Positions
    BY <2>3, <2>4 DEF Range
  <2>6. DOMAIN inputs' \subseteq 1 .. nextId' - 1
    <3>1. PICK n \in Nat : n = nextId
      BY DEF TypeInv
    <3>2. PICK k \in Nat : k = Len(e.create)
      BY <2>2
    <3>3. nextId' = n + k
      BY <2>3, <3>1, <3>2
    <3>4. (n + k) - 1 \in Int
      OBVIOUS
    <3>5. DOMAIN inputs' = DOMAIN Saved(e)
      BY <2>3
    <3>6. DOMAIN Saved(e) \subseteq 1 .. (n + k) - 1
      BY <2>4, <3>1, <3>2
    <3>7. QED
      BY <3>5, <3>6, <3>3
  <2>7. nextId' \in Nat \ {0}
    BY <2>2, <2>3 DEF TypeInv
  <2>8. exists' = exists /\ raced' = raced /\ repeated' = repeated /\ requests' = requests
    BY <1>3 DEF SaveInputs
  <2>9. QED
    BY <1>2, <2>2, <2>3, <2>5, <2>7, <2>8, <2>6 DEF TypeInv, Range
<1>4. ASSUME NEW h \in Handlers, SaveFails(h) PROVE TypeInv'
  <2>1. nextId' = nextId + 0
    BY <1>4 DEF SaveFails, TypeInv
  <2>2. /\ req' \in [Handlers -> Body]
        /\ \A g \in Handlers : req'[g].existing \subseteq 1 .. nextId' - 1
    BY <1>2, <1>4, <2>1 DEF SaveFails
  <2>3. QED
    BY <1>4, <2>2 DEF SaveFails, TypeInv, Range
<1>5. CASE DeleteForm
  <2>1. DOMAIN inputs' = {}
    BY <1>5 DEF DeleteForm
  <2>2. QED
    BY <1>5, <2>1 DEF DeleteForm, TypeInv, Range
<1>6. CASE UNCHANGED vars
  BY <1>6 DEF vars, TypeInv, Range
<1>7. QED
  BY <1>1, <1>3, <1>4, <1>5, <1>6 DEF Next

(* The invariant *)

Inv == TypeInv /\ CheckInv /\ DistinctInv /\ GoneInv /\ AloneInv /\ OrderInv

LEMMA InitInv == Init => Inv
<1> SUFFICES ASSUME Init PROVE Inv
  OBVIOUS
<1>1. PICK n \in 0 .. MaxInputs : inputs = [i \in 1 .. n |-> i] /\ nextId = n + 1
  BY DEF Init
<1>2. n \in Nat /\ n <= MaxInputs
  BY <1>1, BoundsAssumption
<1>3. DOMAIN inputs = 1 .. n /\ \A i \in 1 .. n : inputs[i] = i
  BY <1>1
<1>4. Range(inputs) = 1 .. n /\ Cardinality(DOMAIN inputs) = n
  BY <1>2, <1>3, FS_Interval DEF Range
<1>5. \A h \in Handlers : req[h] = Idle
  BY DEF Init
<1>6. Saving = {}
  BY <1>5, IdleIsBody DEF Saving
<1>7. TypeInv
  <2>1. nextId \in Nat \ {0} /\ DOMAIN inputs \subseteq 1 .. nextId - 1
    BY <1>1, <1>2, <1>3
  <2>2. Range(inputs) \subseteq Positions
    BY <1>2, <1>4, BoundsAssumption DEF Positions
  <2>3. req \in [Handlers -> Body]
    BY IdleIsBody DEF Init
  <2>4. \A h \in Handlers : req[h].existing \subseteq 1 .. nextId - 1
    BY <1>5, IdleIsBody
  <2>5. QED
    BY <2>1, <2>2, <2>3, <2>4 DEF Init, TypeInv
<1>8. OrderInv
  BY <1>2, <1>4 DEF OrderInv
<1>9. GoneInv
  BY DEF Init, GoneInv
<1>10. QED
  BY <1>6, <1>7, <1>8, <1>9 DEF Inv, CheckInv, DistinctInv, AloneInv

\* One handler lets a body through: it is the only one if requests do not overlap.
LEMMA UpdateInv ==
    ASSUME Inv, TypeInv', NEW h \in Handlers, NEW b \in Bodies, UpdateInputs(h, b)
    PROVE  Inv'
<1>1. PICK e \in Body : /\ req' = [req EXCEPT ![h] = e]
                        /\ e.at = "save" /\ e.existing = DOMAIN inputs /\ Checked(e)
                        /\ ~repeated' => Distinct(e)
  BY UpdateKeeps DEF Inv
<1>2. req \in [Handlers -> Body]
  BY DEF Inv, TypeInv
<1>3. req'[h] = e /\ \A g \in Handlers \ {h} : req'[g] = req[g]
  BY <1>1, <1>2
<1>4. \A g \in Saving' : g = h \/ (g # h /\ g \in Saving /\ req'[g] = req[g])
  BY <1>3 DEF Saving
<1>5. CheckInv'
  BY <1>1, <1>3, <1>4 DEF CheckInv, Inv
<1>6. repeated \in BOOLEAN /\ raced \in BOOLEAN
  BY DEF Inv, TypeInv
<1>7. (repeated => repeated') /\ (raced => raced')
  BY DEF UpdateInputs
<1>8. DistinctInv'
  BY <1>1, <1>3, <1>4, <1>7 DEF DistinctInv, Inv
<1>9. exists' = exists /\ inputs' = inputs
  BY DEF UpdateInputs
<1>10. GoneInv'
  BY <1>9 DEF GoneInv, Inv
<1>11. ASSUME ~raced' PROVE Saving = {}
  BY <1>11 DEF UpdateInputs, Saving
<1>12. AloneInv'
  BY <1>1, <1>3, <1>4, <1>9, <1>11 DEF AloneInv
<1>13. OrderInv'
  BY <1>7, <1>9 DEF OrderInv, Inv
<1>14. QED
  BY <1>5, <1>8, <1>10, <1>12, <1>13 DEF Inv

\* Of the handlers that save, one is done.
LEMMA IdleAgain ==
    ASSUME Inv, NEW h \in Saving, req' = [req EXCEPT ![h] = Idle],
           UNCHANGED <<exists, raced, repeated>>
    PROVE  /\ CheckInv' /\ DistinctInv'
           /\ ~raced' => Saving' = {}
<1>1. req \in [Handlers -> Body] /\ h \in Handlers
  BY DEF Inv, TypeInv, Saving
<1>2. req'[h] = Idle /\ \A g \in Handlers \ {h} : req'[g] = req[g]
  BY <1>1
<1>3. \A g \in Saving' : g # h /\ g \in Saving /\ req'[g] = req[g]
  BY <1>2, IdleIsBody DEF Saving
<1>4. CheckInv'
  BY <1>3 DEF CheckInv, Inv
<1>5. DistinctInv'
  BY <1>3 DEF DistinctInv, Inv
<1>6. ~raced' => Saving' = {}
  BY <1>3 DEF AloneInv, Inv
<1>7. QED
  BY <1>4, <1>5, <1>6

LEMMA SaveInv ==
    ASSUME Inv, TypeInv', NEW h \in Handlers, SaveInputs(h)
    PROVE  Inv'
<1>1. PICK e : e = req[h]
  OBVIOUS
<1>2. h \in Saving /\ e \in Body /\ TypeInv
  BY <1>1 DEF SaveInputs, Saving, Inv, TypeInv
<1>3. /\ req' = [req EXCEPT ![h] = Idle] /\ inputs' = Saved(e)
      /\ UNCHANGED <<exists, raced, repeated>>
      /\ exists \/ e.create = <<>>
  BY <1>1 DEF SaveInputs
<1>4. CheckInv' /\ DistinctInv' /\ (~raced' => Saving' = {})
  BY <1>2, <1>3, IdleAgain
<1>5. AloneInv'
  BY <1>4 DEF AloneInv
<1>6. ASSUME ~exists PROVE DOMAIN inputs' = {}
  <2>1. DOMAIN inputs = {} /\ Len(e.create) = 0
    BY <1>3, <1>6 DEF Inv, GoneInv
  <2>2. nextId \in Nat
    BY <1>2 DEF TypeInv
  <2>3. DOMAIN inputs' = (DOMAIN inputs \ e.delete) \union (nextId .. nextId + Len(e.create) - 1)
    BY <1>3 DEF Saved
  <2>4. QED
    BY <2>1, <2>2, <2>3
<1>7. GoneInv'
  BY <1>3, <1>6 DEF GoneInv
<1>8. ASSUME ~raced, ~repeated
      PROVE  /\ Cardinality(DOMAIN inputs') <= MaxInputs
             /\ Range(Saved(e)) = 1 .. Cardinality(DOMAIN inputs')
  <2>1. CASE exists
    <3>1. Checked(e) /\ Distinct(e) /\ e.existing = DOMAIN inputs
      BY <1>1, <1>2, <1>8, <2>1 DEF Inv, CheckInv, DistinctInv, AloneInv
    <3>2. /\ Cardinality(DOMAIN Saved(e)) = Len(e.create) + Len(e.update)
          /\ Range(Saved(e)) = 1 .. Len(e.create) + Len(e.update)
      BY <1>2, <3>1, SavedInOrder
    <3>3. Len(e.create) + Len(e.update) <= MaxInputs
      <4>1. Len(e.create) + Len(e.update) \in 1 .. MaxInputs
        BY <3>1 DEF Checked, FieldCountOk
      <4>2. Len(e.create) \in Nat /\ Len(e.update) \in Nat
        BY <1>2 DEF Body
      <4>3. \A n, k \in Nat : n + k \in 1 .. MaxInputs => n + k <= MaxInputs
        BY BoundsAssumption
      <4>4. QED
        BY <4>1, <4>2, <4>3
    <3>4. QED
      BY <1>3, <3>2, <3>3
  <2>2. CASE ~exists
    <3>1. DOMAIN inputs' = {} /\ Cardinality({}) = 0
      BY <1>6, <2>2, FS_EmptySet
    <3>2. Range(Saved(e)) = {}
      BY <1>3, <3>1 DEF Range
    <3>3. QED
      BY <3>1, <3>2, BoundsAssumption
  <2>3. QED
    BY <2>1, <2>2
<1>9. OrderInv'
  BY <1>3, <1>8 DEF OrderInv
<1>10. QED
  BY <1>4, <1>5, <1>7, <1>9 DEF Inv

LEMMA NextInv == Inv /\ [Next]_vars => Inv'
<1> SUFFICES ASSUME Inv, [Next]_vars PROVE Inv'
  OBVIOUS
<1>1. TypeInv'
  BY TypeStep DEF Inv
<1>2. ASSUME NEW h \in Handlers, NEW b \in Bodies, UpdateInputs(h, b) PROVE Inv'
  BY <1>1, <1>2, UpdateInv
<1>3. ASSUME NEW h \in Handlers, SaveInputs(h) PROVE Inv'
  BY <1>1, <1>3, SaveInv
<1>4. ASSUME NEW h \in Handlers, SaveFails(h) PROVE Inv'
  <2>1. /\ h \in Saving /\ req' = [req EXCEPT ![h] = Idle]
        /\ UNCHANGED <<exists, inputs, raced, repeated>>
    BY <1>4 DEF SaveFails, Saving
  <2>2. CheckInv' /\ DistinctInv' /\ (~raced' => Saving' = {})
    BY <2>1, IdleAgain
  <2>3. AloneInv'
    BY <2>2 DEF AloneInv
  <2>4. GoneInv' /\ OrderInv'
    BY <2>1 DEF Inv, GoneInv, OrderInv
  <2>5. QED
    BY <1>1, <2>2, <2>3, <2>4 DEF Inv
<1>5. CASE DeleteForm
  <2>1. ~exists' /\ DOMAIN inputs' = {} /\ UNCHANGED <<req, raced, repeated>>
    BY <1>5 DEF DeleteForm
  <2>2. Saving' = Saving /\ \A g \in Saving : req'[g] = req[g]
    BY <2>1 DEF Saving
  <2>3. CheckInv' /\ DistinctInv'
    BY <2>1, <2>2 DEF Inv, CheckInv, DistinctInv
  <2>4. AloneInv'
    BY <2>1, <2>2 DEF Inv, AloneInv
  <2>5. Cardinality({}) = 0 /\ 1 .. 0 = {}
    BY FS_EmptySet
  <2>6. Range(inputs)' = {}
    BY <2>1 DEF Range
  <2>7. OrderInv'
    BY <2>1, <2>5, <2>6, BoundsAssumption DEF OrderInv
  <2>8. GoneInv'
    BY <2>1 DEF GoneInv
  <2>9. QED
    BY <1>1, <2>3, <2>4, <2>7, <2>8 DEF Inv
<1>6. CASE UNCHANGED vars
  <2>1. UNCHANGED <<exists, inputs, req, raced, repeated>>
    BY <1>6 DEF vars
  <2>2. Saving' = Saving
    BY <2>1 DEF Saving
  <2>3. QED
    BY <1>1, <2>1, <2>2 DEF Inv, CheckInv, DistinctInv, GoneInv, AloneInv, OrderInv
<1>7. QED
  BY <1>2, <1>3, <1>4, <1>5, <1>6 DEF Next

LEMMA Invariance == Spec => []Inv
<1>1. Init => Inv
  BY InitInv
<1>2. Inv /\ [Next]_vars => Inv'
  BY NextInv
<1>3. QED
  BY <1>1, <1>2, PTL DEF Spec
----
\* Every stored input has an id that was given out and a position that a form can
\* have, whatever bodies the requests carry and however they overlap.
THEOREM FormInputsTypes == Spec => []TypeOK
<1>1. Inv => TypeOK
  <2>1. ASSUME TypeInv PROVE \A h \in Handlers : req[h].at \in {"idle", "save"}
    BY <2>1 DEF TypeInv, Body
  <2>2. QED
    BY <2>1 DEF Inv, TypeInv, TypeOK
<1>2. QED
  BY <1>1, Invariance, PTL

\* The inputs stand at 1 to n, one each, and are at most MaxInputs, as long as
\* requests come one at a time and none of them names an input twice.
THEOREM InputsAreInOrder == Spec => []InputsStandInOrder
<1>1. Inv => InputsStandInOrder
  BY DEF Inv, OrderInv, InputsStandInOrder
<1>2. QED
  BY <1>1, Invariance, PTL

\* A body that is let through updates every input that it does not delete, unless
\* it names one twice: what UpdateInputs says it verifies is missed by that alone,
\* and not by requests that overlap.
THEOREM MissedByRepetitionOnly == Spec => [](~repeated => AllInputsAreUpdated)
<1>1. ASSUME Inv, ~repeated, NEW h \in Saving
      PROVE  Ids(req[h]) = req[h].existing \ req[h].delete
  <2>1. PICK e : e = req[h]
    OBVIOUS
  <2>2. e \in Body /\ Distinct(e) /\ ContentsMatch(e, e.existing)
    BY <1>1, <2>1 DEF Inv, TypeInv, DistinctInv, CheckInv, Checked, Saving
  <2>3. nextId \in Nat /\ e.existing \in SUBSET (1 .. nextId - 1)
    BY <1>1, <2>1 DEF Inv, TypeInv, Saving
  <2>4. IsFiniteSet(1 .. nextId - 1)
    BY <2>3, FS_Interval
  <2>5. IsFiniteSet(e.existing)
    BY <2>3, <2>4, FS_Subset
  <2>6. QED
    BY <2>1, <2>2, <2>5, AllUpdated
<1>2. Inv => (~repeated => AllInputsAreUpdated)
  BY <1>1 DEF AllInputsAreUpdated, Saving
<1>3. QED
  BY <1>2, Invariance, PTL
----
(* Requests that overlap *)

\* Of the inputs there are, those that none of the handlers S deletes, and the
\* inputs that S are to create.
Left(S) == DOMAIN inputs \ UNION {req[h].delete : h \in S}
Made(S) == {x \in S \X (1 .. MaxInputs) : x[2] <= Len(req[x[1]].create)}

\* Whichever of the handlers that save are done first.
LeftInv ==
    \A S \in SUBSET Saving :
      Cardinality(Left(S)) + Cardinality(Made(S)) <= MaxInputs * Cardinality(Handlers)

LEMMA Times ==
    /\ \A m, j, k \in Nat : j <= k => m * j <= m * k
    /\ \A m \in Nat, j \in Nat \ {0} : m * (j - 1) + m = m * j
  OBVIOUS

\* The inputs that k handlers are to create are no more than MaxInputs each.
LEMMA MadeCount ==
    ASSUME NEW S \in SUBSET Handlers
    PROVE  /\ IsFiniteSet(S) /\ Cardinality(S) \in Nat
           /\ Cardinality(S) <= Cardinality(Handlers) /\ Cardinality(Handlers) \in Nat
           /\ IsFiniteSet(S \X (1 .. MaxInputs))
           /\ Cardinality(S \X (1 .. MaxInputs)) = MaxInputs * Cardinality(S)
           /\ IsFiniteSet(Made(S)) /\ Cardinality(Made(S)) \in Nat
<1>1. IsFiniteSet(S) /\ Cardinality(S) <= Cardinality(Handlers)
  BY HandlersAssumption, FS_Subset
<1>2. Cardinality(S) \in Nat /\ Cardinality(Handlers) \in Nat
  BY <1>1, HandlersAssumption, FS_CardinalityType
<1>3. MaxInputs \in Nat
  BY BoundsAssumption
<1>4. IsFiniteSet(1 .. MaxInputs) /\ Cardinality(1 .. MaxInputs) = MaxInputs
  BY <1>3, FS_Interval
<1>5. /\ IsFiniteSet(S \X (1 .. MaxInputs))
      /\ Cardinality(S \X (1 .. MaxInputs)) = Cardinality(S) * Cardinality(1 .. MaxInputs)
  BY <1>1, <1>4, FS_Product
<1>6. Cardinality(S) * MaxInputs = MaxInputs * Cardinality(S)
  BY <1>2, <1>3
<1>7. Cardinality(S \X (1 .. MaxInputs)) = MaxInputs * Cardinality(S)
  BY <1>4, <1>5, <1>6
<1>8. Made(S) \in SUBSET (S \X (1 .. MaxInputs))
  BY DEF Made
<1>9. IsFiniteSet(Made(S))
  BY <1>5, <1>8, FS_Subset
<1>10. Cardinality(Made(S)) \in Nat
  BY <1>9, FS_CardinalityType
<1>11. QED
  BY <1>1, <1>2, <1>5, <1>7, <1>9, <1>10

LEMMA InputsFinite ==
    ASSUME TypeInv
    PROVE  /\ IsFiniteSet(DOMAIN inputs) /\ Cardinality(DOMAIN inputs) \in Nat
           /\ \A S : IsFiniteSet(Left(S)) /\ Cardinality(Left(S)) \in Nat
<1>1. nextId \in Nat /\ DOMAIN inputs \in SUBSET (1 .. nextId - 1)
  BY DEF TypeInv
<1>2. IsFiniteSet(1 .. nextId - 1)
  BY <1>1, FS_Interval
<1>3. IsFiniteSet(DOMAIN inputs)
  BY <1>1, <1>2, FS_Subset
<1>4. \A S : IsFiniteSet(Left(S))
  BY <1>3, FS_Subset DEF Left
<1>5. QED
  BY <1>3, <1>4, FS_CardinalityType

\* The handler h has been let through with the body e: whatever others do before
\* it, at most MaxInputs of the inputs are then left and created by h.
LEMMA BoundedOnUpdate ==
    ASSUME Inv, Inv', LeftInv, NEW h \in Handlers, NEW b \in Bodies, UpdateInputs(h, b)
    PROVE  LeftInv'
<1>1. PICK e \in Body : /\ req' = [req EXCEPT ![h] = e]
                        /\ e.at = "save" /\ e.existing = DOMAIN inputs /\ Checked(e)
  BY UpdateKeeps DEF Inv
<1>2. req \in [Handlers -> Body]
  BY DEF Inv, TypeInv
<1>3. req'[h] = e /\ \A g \in Handlers \ {h} : req'[g] = req[g]
  BY <1>1, <1>2
<1>4. inputs' = inputs
  BY DEF UpdateInputs
<1>5. MaxInputs \in Nat
  BY BoundsAssumption
<1> SUFFICES ASSUME NEW S \in SUBSET (Saving')
             PROVE  Cardinality(Left(S)') + Cardinality(Made(S)') <=
                      MaxInputs * Cardinality(Handlers)
  BY DEF LeftInv
<1>6. S \in SUBSET Handlers
  BY DEF Saving
<1>7. CASE h \notin S
  <2>1. \A g \in S : g \in Handlers \ {h} /\ req'[g] = req[g]
    BY <1>3, <1>6, <1>7
  <2>2. S \in SUBSET Saving
    BY <1>6, <2>1 DEF Saving
  <2>3. Left(S)' = Left(S)
    BY <1>4, <2>1 DEF Left
  <2>4. Made(S)' = Made(S)
    BY <2>1 DEF Made
  <2>5. QED
    BY <2>2, <2>3, <2>4 DEF LeftInv
<1>8. CASE h \in S
  <2> DEFINE c      == Len(e.create)
             m      == Len(e.update)
             kept   == DOMAIN inputs \ e.delete
             others == (S \ {h}) \X (1 .. MaxInputs)
             own    == {h} \X (1 .. c)
  <2>1. c \in Nat /\ m \in Nat
    BY DEF Body
  <2>2. IsFiniteSet(kept) /\ Cardinality(kept) = m
    BY <1>1, InputsFinite, FS_Subset DEF Inv, Checked, ContentsMatch
  <2>3. Left(S)' \in SUBSET kept
    BY <1>3, <1>4, <1>8 DEF Left
  <2>4. Cardinality(Left(S)') <= m
    BY <2>2, <2>3, FS_Subset
  <2>5. c + m \in 1 .. MaxInputs
    BY <1>1 DEF Checked, FieldCountOk
  <2>6. IsFiniteSet(others) /\ Cardinality(others) = MaxInputs * Cardinality(S \ {h})
    BY <1>6, MadeCount
  <2>7. /\ IsFiniteSet(S) /\ Cardinality(S) \in Nat /\ Cardinality(Handlers) \in Nat
        /\ Cardinality(S) <= Cardinality(Handlers) /\ Cardinality(S \ {h}) \in Nat
    BY <1>6, MadeCount
  <2>8. Cardinality(S \ {h}) = Cardinality(S) - 1
    BY <1>8, <2>7, FS_RemoveElement
  <2>9. IsFiniteSet(own) /\ Cardinality(own) = c
    <3>1. \A n \in Nat : IsFiniteSet(1 .. n) /\ Cardinality(1 .. n) = n
      BY FS_Interval
    <3>2. IsFiniteSet(1 .. c) /\ Cardinality(1 .. c) = c
      BY <2>1, <3>1
    <3>3. IsFiniteSet({h}) /\ Cardinality({h}) = 1
      BY FS_Singleton
    <3>4. IsFiniteSet(own) /\ Cardinality(own) = Cardinality({h}) * Cardinality(1 .. c)
      BY <3>2, <3>3, FS_Product
    <3> HIDE DEF own, c
    <3>5. QED
      BY <2>1, <3>2, <3>3, <3>4
  <2>10. others \intersect own = {}
    OBVIOUS
  <2>11. /\ IsFiniteSet(others \union own)
         /\ Cardinality(others \union own) = MaxInputs * Cardinality(S \ {h}) + c
    <3>1. /\ IsFiniteSet(others \union own)
          /\ Cardinality(others \union own) =
               Cardinality(others) + Cardinality(own) - Cardinality(others \intersect own)
      BY <2>6, <2>9, FS_Union
    <3>2. Cardinality(others \intersect own) = 0
      BY <2>10, FS_EmptySet
    <3>3. MaxInputs * Cardinality(S \ {h}) \in Nat
      BY <1>5, <2>7
    <3> HIDE DEF others, own, c
    <3>4. QED
      BY <2>1, <2>6, <2>9, <3>1, <3>2, <3>3
  <2>12. Made(S)' \in SUBSET (others \union own)
    <3> SUFFICES ASSUME NEW x \in Made(S)' PROVE x \in others \union own
      OBVIOUS
    <3>1. PICK g \in S, i \in 1 .. MaxInputs : x = <<g, i>> /\ i <= Len(req'[g].create)
      BY DEF Made
    <3>2. CASE g = h
      <4>1. i <= c /\ i \in 1 .. c
        BY <1>3, <1>5, <2>1, <3>1, <3>2
      <4>2. QED
        BY <3>1, <3>2, <4>1
    <3>3. CASE g # h
      BY <3>1, <3>3
    <3>4. QED
      BY <3>2, <3>3
  <2>13. Cardinality(Made(S)') <= MaxInputs * Cardinality(S \ {h}) + c
    BY <2>11, <2>12, FS_Subset
  <2>14. Cardinality(Left(S)') \in Nat /\ Cardinality(Made(S)') \in Nat
    <3>1. IsFiniteSet(Left(S)') /\ IsFiniteSet(Made(S)')
      BY <2>2, <2>3, <2>11, <2>12, FS_Subset
    <3>2. QED
      BY <3>1, FS_CardinalityType
  <2> HIDE DEF c, m, kept, others, own
  <2>15. /\ MaxInputs * Cardinality(S) <= MaxInputs * Cardinality(Handlers)
         /\ MaxInputs * (Cardinality(S) - 1) + MaxInputs = MaxInputs * Cardinality(S)
    BY <1>5, <2>7, <2>8, Times
  <2>16. c + m <= MaxInputs
    BY <1>5, <2>1, <2>5
  <2>17. \A l, d, t, u, k \in Int : l <= m /\ d <= t + c /\ t + MaxInputs = u /\ u <= k => l + d <= k
    BY <1>5, <2>1, <2>16
  <2>18. /\ MaxInputs * Cardinality(S) \in Int /\ MaxInputs * Cardinality(Handlers) \in Int
         /\ MaxInputs * (Cardinality(S) - 1) \in Int
    BY <1>5, <2>7
  <2>19. Cardinality(Made(S)') <= MaxInputs * (Cardinality(S) - 1) + c
    BY <2>8, <2>13
  <2>20. Cardinality(Left(S)') \in Int /\ Cardinality(Made(S)') \in Int
    BY <2>14
  <2>21. QED
    BY <2>4, <2>15, <2>17, <2>18, <2>19, <2>20
<1>9. QED
  BY <1>7, <1>8

\* The handler h saves: what it creates counts as left from now on.
LEMMA BoundedOnSave ==
    ASSUME Inv, Inv', LeftInv, NEW h \in Handlers, SaveInputs(h)
    PROVE  LeftInv'
<1>1. PICK e : e = req[h]
  OBVIOUS
<1>2. /\ e \in Body /\ h \in Saving /\ req \in [Handlers -> Body]
      /\ nextId \in Nat /\ MaxInputs \in Nat
  BY <1>1, BoundsAssumption DEF SaveInputs, Saving, Inv, TypeInv
<1>3. req' = [req EXCEPT ![h] = Idle] /\ inputs' = Saved(e)
  BY <1>1 DEF SaveInputs
<1>4. req'[h] = Idle /\ \A g \in Handlers \ {h} : req'[g] = req[g]
  BY <1>2, <1>3
<1> SUFFICES ASSUME NEW S \in SUBSET (Saving')
             PROVE  Cardinality(Left(S)') + Cardinality(Made(S)') <=
                      MaxInputs * Cardinality(Handlers)
  BY DEF LeftInv
<1> DEFINE c   == Len(e.create)
           T   == S \union {h}
           new == nextId .. nextId + c - 1
           own == {h} \X (1 .. c)
<1>5. \A g \in S : g \in Handlers \ {h} /\ g \in Saving /\ req'[g] = req[g]
  BY <1>4, IdleIsBody DEF Saving
<1>6. S \in SUBSET Handlers /\ T \in SUBSET Handlers /\ T \in SUBSET Saving /\ h \notin S
  BY <1>2, <1>5
<1>7. c \in Nat /\ c <= MaxInputs
  <2>1. c \in Nat /\ Len(e.update) \in Nat
    BY <1>2 DEF Body
  <2>2. c + Len(e.update) \in 1 .. MaxInputs
    BY <1>1, <1>2 DEF Inv, CheckInv, Checked, FieldCountOk
  <2>3. \A j, k \in Nat : j + k \in 1 .. MaxInputs => j <= MaxInputs
    BY <1>2
  <2> HIDE DEF c
  <2>4. QED
    BY <2>1, <2>2, <2>3
<1>8. IsFiniteSet(new) /\ Cardinality(new) = c
  <2>1. \A n, k \in Nat : /\ IsFiniteSet(n .. n + k - 1)
                          /\ Cardinality(n .. n + k - 1) = k
    <3> SUFFICES ASSUME NEW n \in Nat, NEW k \in Nat
                 PROVE  /\ IsFiniteSet(n .. n + k - 1)
                        /\ Cardinality(n .. n + k - 1) = k
      OBVIOUS
    <3>1. /\ IsFiniteSet(n .. n + k - 1)
          /\ Cardinality(n .. n + k - 1) = IF n > n + k - 1 THEN 0 ELSE (n + k - 1) - n + 1
      BY FS_Interval
    <3>2. QED
      BY <3>1
  <2>2. QED
    BY <1>2, <1>7, <2>1
<1>9. IsFiniteSet(own) /\ Cardinality(own) = c
  <2>1. \A n \in Nat : IsFiniteSet(1 .. n) /\ Cardinality(1 .. n) = n
    BY FS_Interval
  <2>2. IsFiniteSet(1 .. c) /\ Cardinality(1 .. c) = c
    BY <1>7, <2>1
  <2>3. IsFiniteSet({h}) /\ Cardinality({h}) = 1
    BY FS_Singleton
  <2>4. IsFiniteSet(own) /\ Cardinality(own) = Cardinality({h}) * Cardinality(1 .. c)
    BY <2>2, <2>3, FS_Product
  <2> HIDE DEF own, c
  <2>5. QED
    BY <1>7, <2>2, <2>3, <2>4
<1>10. /\ IsFiniteSet(Left(T)) /\ Cardinality(Left(T)) \in Nat
       /\ IsFiniteSet(Made(T)) /\ Cardinality(Made(T)) \in Nat
       /\ IsFiniteSet(Made(S)) /\ Cardinality(Made(S)) \in Nat
  BY <1>6, InputsFinite, MadeCount DEF Inv
<1>11. Cardinality(Left(T)) + Cardinality(Made(T)) <= MaxInputs * Cardinality(Handlers)
  BY <1>6 DEF LeftInv
<1>12. Left(S)' \in SUBSET (Left(T) \union new)
  <2> SUFFICES ASSUME NEW i \in Left(S)', i \notin new PROVE i \in Left(T)
    OBVIOUS
  <2>1. i \in DOMAIN Saved(e) /\ \A g \in S : i \notin req[g].delete
    BY <1>3, <1>5 DEF Left
  <2>2. i \in DOMAIN inputs \ e.delete
    BY <2>1 DEF Saved
  <2>3. QED
    BY <1>1, <2>1, <2>2 DEF Left
<1>13. Made(S)' = Made(S)
  BY <1>5 DEF Made
<1>14. Made(S) \union own \in SUBSET Made(T)
  <2>1. Made(S) \in SUBSET Made(T)
    BY DEF Made
  <2>2. ASSUME NEW x \in own PROVE x \in Made(T)
    <3>1. PICK i \in 1 .. c : x = <<h, i>>
      OBVIOUS
    <3>2. i \in 1 .. MaxInputs /\ i <= Len(req[h].create)
      BY <1>1, <1>2, <1>7, <3>1
    <3>3. QED
      BY <3>1, <3>2 DEF Made
  <2>3. QED
    BY <2>1, <2>2
<1>15. Made(S) \intersect own = {}
  BY <1>6 DEF Made
<1> HIDE DEF c, T, new, own
<1>16. Cardinality(Left(S)') <= Cardinality(Left(T)) + c
  <2>1. /\ IsFiniteSet(Left(T) \union new)
        /\ Cardinality(Left(T) \union new) =
             Cardinality(Left(T)) + Cardinality(new) - Cardinality(Left(T) \intersect new)
    BY <1>8, <1>10, FS_Union
  <2>2. Cardinality(Left(T) \intersect new) \in Nat
    BY <1>10, FS_Intersection, FS_CardinalityType
  <2>3. IsFiniteSet(Left(S)') /\ Cardinality(Left(S)') <= Cardinality(Left(T) \union new)
    BY <1>12, <2>1, FS_Subset
  <2>4. Cardinality(Left(S)') \in Nat
    BY <2>3, FS_CardinalityType
  <2>5. QED
    BY <1>7, <1>8, <1>10, <2>1, <2>2, <2>3, <2>4
<1>17. Cardinality(Made(S)) + c <= Cardinality(Made(T))
  <2>1. Cardinality(Made(S) \union own) =
          Cardinality(Made(S)) + Cardinality(own) - Cardinality(Made(S) \intersect own)
    BY <1>9, <1>10, FS_Union
  <2>2. Cardinality(Made(S) \intersect own) = 0
    BY <1>15, FS_EmptySet
  <2>3. Cardinality(Made(S) \union own) <= Cardinality(Made(T))
    BY <1>10, <1>14, FS_Subset
  <2>4. QED
    BY <1>7, <1>9, <1>10, <2>1, <2>2, <2>3
<1>18. Cardinality(Left(S)') \in Nat
  <2>1. IsFiniteSet(Left(T) \union new)
    BY <1>8, <1>10, FS_Union
  <2>2. IsFiniteSet(Left(S)')
    BY <1>12, <2>1, FS_Subset
  <2>3. QED
    BY <2>2, FS_CardinalityType
<1>19. MaxInputs * Cardinality(Handlers) \in Nat
  <2>1. Cardinality(Handlers) \in Nat
    BY <1>6, MadeCount
  <2>2. QED
    BY <1>2, <2>1
<1>20. QED
  BY <1>7, <1>10, <1>11, <1>13, <1>16, <1>17, <1>18, <1>19

\* Nothing is added, and no handler begins to save.
LEMMA BoundedOnLess ==
    ASSUME Inv, LeftInv, DOMAIN inputs' \subseteq DOMAIN inputs,
           \A g \in Handlers : g \in Saving' => g \in Saving /\ req'[g] = req[g]
    PROVE  LeftInv'
<1> SUFFICES ASSUME NEW S \in SUBSET (Saving')
             PROVE  Cardinality(Left(S)') + Cardinality(Made(S)') <=
                      MaxInputs * Cardinality(Handlers)
  BY DEF LeftInv
<1>1. S \in SUBSET Saving /\ S \in SUBSET Handlers /\ \A g \in S : req'[g] = req[g]
  BY DEF Saving
<1>2. Left(S)' \in SUBSET Left(S) /\ Made(S)' = Made(S)
  BY <1>1 DEF Left, Made
<1>3. IsFiniteSet(Left(S)) /\ Cardinality(Left(S)) \in Nat /\ Cardinality(Made(S)) \in Nat
  BY <1>1, InputsFinite, MadeCount DEF Inv
<1>4. Cardinality(Left(S)') <= Cardinality(Left(S)) /\ IsFiniteSet(Left(S)')
  BY <1>2, <1>3, FS_Subset
<1>5. Cardinality(Left(S)') \in Nat
  BY <1>4, FS_CardinalityType
<1>6. Cardinality(Left(S)) + Cardinality(Made(S)) <= MaxInputs * Cardinality(Handlers)
  BY <1>1 DEF LeftInv
<1>7. MaxInputs * Cardinality(Handlers) \in Nat
  <2>1. Cardinality(Handlers) \in Nat /\ MaxInputs \in Nat
    BY <1>1, MadeCount, BoundsAssumption
  <2>2. QED
    BY <2>1
<1>8. QED
  BY <1>2, <1>3, <1>4, <1>5, <1>6, <1>7

LEMMA InitBounded == Init => LeftInv
<1> SUFFICES ASSUME Init, NEW S \in SUBSET Saving
             PROVE  Cardinality(Left(S)) + Cardinality(Made(S)) <=
                      MaxInputs * Cardinality(Handlers)
  BY DEF LeftInv
<1>1. PICK n \in 0 .. MaxInputs : inputs = [i \in 1 .. n |-> i]
  BY DEF Init
<1>2. n \in Nat /\ n <= MaxInputs /\ MaxInputs \in Nat
  BY <1>1, BoundsAssumption
<1>3. Saving = {}
  BY IdleIsBody DEF Init, Saving
<1>4. Left(S) = 1 .. n /\ Made(S) = {}
  BY <1>1, <1>3 DEF Left, Made
<1>5. Cardinality(Left(S)) = n /\ Cardinality(Made(S)) = 0
  BY <1>2, <1>4, FS_Interval, FS_EmptySet
<1>6. Cardinality(Handlers) \in Nat /\ Cardinality(Handlers) # 0
  BY HandlersAssumption, FS_CardinalityType, FS_EmptySet
<1>7. MaxInputs * 1 <= MaxInputs * Cardinality(Handlers)
  BY <1>2, <1>6, Times
<1>8. MaxInputs * 1 = MaxInputs /\ MaxInputs * Cardinality(Handlers) \in Nat
  BY <1>2, <1>6
<1>9. QED
  BY <1>2, <1>5, <1>7, <1>8

\* However requests overlap, and whatever they name, a form has at most MaxInputs
\* inputs for each request that can be served at one time.
THEOREM OverlapIsBounded == Spec => []InputsAreBounded
<1>1. Init => LeftInv
  BY InitBounded
<1>2. ASSUME Inv, Inv', LeftInv, [Next]_vars PROVE LeftInv'
  <2>1. ASSUME NEW h \in Handlers, NEW b \in Bodies, UpdateInputs(h, b) PROVE LeftInv'
    BY <1>2, <2>1, BoundedOnUpdate
  <2>2. ASSUME NEW h \in Handlers, SaveInputs(h) PROVE LeftInv'
    BY <1>2, <2>2, BoundedOnSave
  <2>3. ASSUME NEW h \in Handlers, SaveFails(h) PROVE LeftInv'
    <3>1. req'[h] = Idle /\ \A g \in Handlers \ {h} : req'[g] = req[g]
      BY <1>2, <2>3 DEF SaveFails, Inv, TypeInv
    <3>2. \A g \in Handlers : g \in Saving' => g \in Saving /\ req'[g] = req[g]
      BY <3>1, IdleIsBody DEF Saving
    <3>3. DOMAIN inputs' \subseteq DOMAIN inputs
      BY <2>3 DEF SaveFails
    <3>4. QED
      BY <1>2, <3>2, <3>3, BoundedOnLess
  <2>4. CASE DeleteForm
    <3>1. DOMAIN inputs' \subseteq DOMAIN inputs /\ req' = req
      BY <2>4 DEF DeleteForm
    <3>2. QED
      BY <1>2, <3>1, BoundedOnLess DEF Saving
  <2>5. CASE UNCHANGED vars
    <3>1. DOMAIN inputs' \subseteq DOMAIN inputs /\ req' = req
      BY <2>5 DEF vars
    <3>2. QED
      BY <1>2, <3>1, BoundedOnLess DEF Saving
  <2>6. QED
    BY <1>2, <2>1, <2>2, <2>3, <2>4, <2>5 DEF Next
<1>3. ASSUME Inv, LeftInv PROVE InputsAreBounded
  <2>1. Left({}) = DOMAIN inputs /\ Made({}) = {}
    BY DEF Left, Made
  <2>2. Cardinality(Left({})) + Cardinality(Made({})) <= MaxInputs * Cardinality(Handlers)
    BY <1>3 DEF LeftInv
  <2>3. Cardinality(Made({})) = 0 /\ Cardinality(DOMAIN inputs) \in Nat
    BY <1>3, <2>1, FS_EmptySet, InputsFinite DEF Inv
  <2>4. QED
    BY <2>1, <2>2, <2>3 DEF InputsAreBounded
<1>4. QED
  BY <1>1, <1>2, <1>3, Invariance, PTL DEF Spec
====
