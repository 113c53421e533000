---- MODULE Requests ----
(***************************************************************************)
(* Request goroutines, as the modules Whitelabel, Tags, TicketMessages,    *)
(* Integrations and Sessions have them: a handler is begun, makes its calls*)
(* one after another, and answers or ends early.  Module Services puts the *)
(* components beside each other, and a behaviour is about one of them.     *)
(***************************************************************************)
EXTENDS Integers, Sequences, FiniteSets

CONSTANTS
    Handlers,      \* request goroutines
    MaxRequests,   \* bound: requests that are begun
    None

ASSUME RequestsAssumption == IsFiniteSet(Handlers) /\ MaxRequests \in Nat
ASSUME NoneAssumption == None \notin Nat

VARIABLES
    about,      \* the component that is followed
    req,        \* what each handler is at, with what it has read
    requests

base == <<about, req, requests>>

Idle == [at |-> "idle"]
Ids == 1 .. MaxRequests

Init == req = [h \in Handlers |-> Idle] /\ requests = 0

At(h, at) == req[h].at = at
Others(h) == {g \in Handlers \ {h} : req[g] # Idle}
Quiet == \A h \in Handlers : req[h] = Idle

\* A request is begun; those with an effect to be told apart are numbered.
Begin(h, r) ==
    /\ req[h] = Idle /\ requests < MaxRequests
    /\ requests' = requests + 1
    /\ req' = [req EXCEPT ![h] = r]
    /\ UNCHANGED about

Goto(h, at) == req' = [req EXCEPT ![h].at = at] /\ UNCHANGED <<about, requests>>
End(h) == req' = [req EXCEPT ![h] = Idle] /\ UNCHANGED <<about, requests>>
====
