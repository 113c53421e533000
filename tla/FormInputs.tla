---- MODULE FormInputs ----
(***************************************************************************)
(* The inputs of a form.  UpdateInputs replaces all of them at once: it    *)
(* reads the stored inputs, checks a body of inputs to create, update and  *)
(* delete against them, and writes the body in a transaction of its own.   *)
(* Labels, types and options are left out: what the other parts of the     *)
(* system rely on is which inputs there are and at which positions.        *)
(***************************************************************************)
EXTENDS Naturals, Sequences, FiniteSets, SequencesExt

CONSTANTS
    MaxInputs,   \* "Forms must have between 1 and 5 inputs"
    Handlers,    \* requests that can be served at one time
    MaxRequests  \* bound: requests

ASSUME BoundsAssumption == MaxInputs \in Nat \ {0} /\ MaxRequests \in Nat
ASSUME HandlersAssumption == IsFiniteSet(Handlers) /\ Handlers # {}

VARIABLES
    exists,    \* the form is there
    inputs,    \* form_input: the position of each input, by id
    nextId,
    req,       \* the checked body each handler is about to write
    raced,     \* requests overlapped
    repeated,  \* a body that was let through updates one input twice
    requests   \* count

vars == <<exists, inputs, nextId, req, raced, repeated, requests>>

Positions == 1 .. MaxInputs
Idle == [at |-> "idle", create |-> <<>>, update |-> <<>>, delete |-> {}, existing |-> {}]

TypeOK ==
    /\ exists \in BOOLEAN /\ raced \in BOOLEAN /\ repeated \in BOOLEAN
    /\ DOMAIN inputs \subseteq 1 .. nextId - 1 /\ Range(inputs) \subseteq Positions
    /\ nextId \in Nat /\ requests \in Nat
    /\ \A h \in Handlers : req[h].at \in {"idle", "save"} /\ req[h].existing \subseteq 1 .. nextId - 1

Init ==
    /\ exists = TRUE
    /\ \E n \in 0 .. MaxInputs : inputs = [i \in 1 .. n |-> i] /\ nextId = n + 1
    /\ req = [h \in Handlers |-> Idle]
    /\ raced = FALSE /\ repeated = FALSE /\ requests = 0
----
(* The checks of UpdateInputs on its body b *)

Ids(b)          == {b.update[i].id : i \in DOMAIN b.update}
PositionsOf(b)  == b.create \o [i \in DOMAIN b.update |-> b.update[i].position]
FieldCountOk(b) == Len(b.create) + Len(b.update) \in 1 .. MaxInputs

\* A plausible bug: inputs that are neither updated nor deleted are not missed.
ContentsMatchInPart(b, existing) ==
    /\ Ids(b) \subseteq existing /\ b.delete \subseteq existing
    /\ b.delete \intersect Ids(b) = {}

\* Updated and deleted inputs exist and do not overlap, and the inputs that
\* remain are as many as are updated, and contain them.
ContentsMatch(b, existing) ==
    LET remaining == existing \ b.delete IN
    /\ Ids(b) \subseteq existing /\ b.delete \subseteq existing
    /\ b.delete \intersect Ids(b) = {}
    /\ Cardinality(remaining) = Len(b.update)
    /\ Ids(b) \subseteq remaining

\* The values of s in ascending order, as sort.Slice leaves them.
Sorted(s) ==
    LET order == CHOOSE p \in Bijection(DOMAIN s, DOMAIN s) :
                   \A i, j \in DOMAIN s : i < j => s[p[i]] <= s[p[j]]
    IN [i \in DOMAIN s |-> s[order[i]]]

\* A plausible bug: the positions of the inputs to create are not looked at.
PositionsOfUpdatesCorrect(b) ==
    LET sorted == Sorted([i \in DOMAIN b.update |-> b.update[i].position]) IN
    \A i \in DOMAIN sorted : sorted[i] = i

\* Sorted, the positions are 1, 2, 3 and so on.
ArePositionsCorrect(b) ==
    LET sorted == Sorted(PositionsOf(b)) IN \A i \in DOMAIN sorted : sorted[i] = i
----
(* Requests *)

\* A plausible bug: the ids of the body are not compared with what is stored.
UpdateInputsUnchecked(h, b) ==
    /\ exists /\ req[h].at = "idle" /\ requests < MaxRequests
    /\ FieldCountOk(b) /\ ArePositionsCorrect(b)
    /\ req' = [req EXCEPT ![h] = [b EXCEPT !.at = "save", !.existing = Ids(b) \union b.delete]]
    /\ raced' = (raced \/ \E g \in Handlers : req[g].at = "save")
    /\ repeated' = (repeated \/ Cardinality(Ids(b)) < Len(b.update))
    /\ requests' = requests + 1
    /\ UNCHANGED <<exists, inputs, nextId>>

\* Everything up to saveInputs.  A body that fails a check is answered at once.
UpdateInputs(h, b) ==
    LET existing == DOMAIN inputs IN
    /\ exists /\ req[h].at = "idle" /\ requests < MaxRequests
    /\ FieldCountOk(b) /\ ContentsMatch(b, existing) /\ ArePositionsCorrect(b)
    /\ req' = [req EXCEPT ![h] = [b EXCEPT !.at = "save", !.existing = existing]]
    /\ raced' = (raced \/ \E g \in Handlers : req[g].at = "save")
    /\ repeated' = (repeated \/ Cardinality(Ids(b)) < Len(b.update))
    /\ requests' = requests + 1
    /\ UNCHANGED <<exists, inputs, nextId>>

\* The position that b's last update of input i gives it.
LastUpdate(b, i) ==
    b.update[CHOOSE k \in DOMAIN b.update : b.update[k].id = i
                        /\ \A l \in DOMAIN b.update : b.update[l].id = i => l <= k].position

\* The inputs after the deletes, updates and creates of the transaction.  An
\* input that another request has deleted meanwhile is not updated.
Saved(b) ==
    [i \in (DOMAIN inputs \ b.delete) \union (nextId .. nextId + Len(b.create) - 1) |->
        IF i >= nextId THEN b.create[i - nextId + 1]
        ELSE IF i \in Ids(b) THEN LastUpdate(b, i) ELSE inputs[i]]

\* saveInputs commits.  Inputs cannot be created for a form that is gone.
SaveInputs(h) ==
    /\ req[h].at = "save"
    /\ exists \/ req[h].create = <<>>
    /\ inputs' = Saved(req[h])
    /\ nextId' = nextId + Len(req[h].create)
    /\ req' = [req EXCEPT ![h] = Idle]
    /\ UNCHANGED <<exists, raced, repeated, requests>>

\* A call fails, and the transaction is rolled back.
SaveFails(h) ==
    /\ req[h].at = "save"
    /\ req' = [req EXCEPT ![h] = Idle]
    /\ UNCHANGED <<exists, inputs, nextId, raced, repeated, requests>>

\* DeleteForm takes the inputs with it.
DeleteForm ==
    /\ exists
    /\ exists' = FALSE
    /\ inputs' = <<>>
    /\ UNCHANGED <<nextId, req, raced, repeated, requests>>
----
\* Bodies of a client: ids it may have seen, and 0 for one it made up.
Bodies ==
    LET ids == DOMAIN inputs \union {0} IN
    [at : {"idle"}, existing : {{}}, delete : SUBSET ids,
     create : UNION {[1 .. n -> Positions] : n \in 0 .. MaxInputs},
     update : UNION {[1 .. n -> [id : ids, position : Positions]] : n \in 0 .. MaxInputs}]

Next ==
    \/ \E h \in Handlers : (\E b \in Bodies : UpdateInputs(h, b)) \/ SaveInputs(h) \/ SaveFails(h)
    \/ DeleteForm

Spec == Init /\ [][Next]_vars
----
\* When requests come one at a time and none names an input twice, the inputs of
\* a form stand at the positions 1 to n, one each, and are at most MaxInputs:
\* "Input positions must be unique and in ascending order (1, 2, 3, etc.)".
InputsStandInOrder ==
    (~raced /\ ~repeated) =>
      LET n == Cardinality(DOMAIN inputs) IN
      n <= MaxInputs /\ Range(inputs) = 1 .. n

\* However requests overlap, there are at most MaxInputs inputs for each request
\* that can be served at one time.  What a request leaves of the inputs it has read
\* and what it creates are together at most MaxInputs; inputs that it has not read
\* are of requests that were under way with it.
InputsAreBounded == Cardinality(DOMAIN inputs) <= MaxInputs * Cardinality(Handlers)

\* "Verify that we are updating ALL inputs, excluding the ones to be deleted":
\* a body that is let through updates every stored input that it does not delete.
AllInputsAreUpdated ==
    \A h \in Handlers : req[h].at = "save" => Ids(req[h]) = req[h].existing \ req[h].delete
====
