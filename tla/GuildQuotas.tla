---- MODULE GuildQuotas ----
(***************************************************************************)
(* Quotas that a handler enforces by counting the rows and inserting one   *)
(* later, in calls of its own that no transaction or lock holds together:  *)
(* blacklisted users and roles and ticket labels of a guild, integrations  *)
(* active in a guild, integrations owned by a user.  Rows of different     *)
(* kinds never meet, so a behaviour is about one kind, of one guild or     *)
(* user, and every request that is served for it at the same time.         *)
(***************************************************************************)
EXTENDS Naturals, FiniteSets

CONSTANTS
    Keys,      \* user ids, role ids, label names or integration ids
    Handlers,  \* the requests that can be served at one time
    Limit      \* the limit of each kind: 250, 50, 50, 5 and 5

Kinds == {"user", "role", "label", "active", "owned"}

ASSUME HandlersAssumption == IsFiniteSet(Handlers) /\ Handlers # {}
ASSUME LimitAssumption == Limit \in [Kinds -> Nat \ {0}]

VARIABLES
    kind,   \* what this behaviour is about
    held,   \* the keys of the rows
    at,     \* where each handler stands
    key     \* the key each handler was asked to add

vars == <<kind, held, at, key>>

Steps == {"idle", "check", "insert"}

TypeOK ==
    /\ kind \in Kinds
    /\ held \subseteq Keys /\ IsFiniteSet(held)
    /\ at \in [Handlers -> Steps]
    /\ key \in [Handlers -> Keys]

Init ==
    /\ kind \in Kinds
    /\ held = {}
    /\ at = [h \in Handlers |-> "idle"]
    /\ key \in [Handlers -> Keys]
----
(* Counting *)

\* A plausible bug: the comparison lets the limit itself pass.
HasRoomForOneMore == Cardinality(held) <= Limit[kind]

\* The count of the rows, compared with the limit; a handler that finds no room
\* answers at once and is not seen here.
HasRoom == Cardinality(held) < Limit[kind]

Admit(h, k, to) ==
    /\ at[h] = "idle" /\ HasRoom
    /\ at' = [at EXCEPT ![h] = to]
    /\ key' = [key EXCEPT ![h] = k]
    /\ UNCHANGED <<kind, held>>

CountBlacklistedUsers(h, k) == kind = "user" /\ Admit(h, k, "check")
CountBlacklistedRoles(h, k) == kind = "role" /\ Admit(h, k, "insert")
CountLabels(h, k) == kind = "label" /\ Admit(h, k, "insert")
CountActive(h, k) == kind = "active" /\ Admit(h, k, "check")
CountOwned(h, k) == kind = "owned" /\ Admit(h, k, "check")
----
(* What is looked up or validated between the count and the insert: staff may *)
(* not be blacklisted, an integration must be one that the user may activate  *)
(* and accept the secrets, an integration's body must be valid.               *)

Checked(h, to) ==
    /\ at[h] = "check"
    /\ at' = [at EXCEPT ![h] = to]
    /\ UNCHANGED <<kind, held, key>>

CheckNotStaff(h) == kind = "user" /\ (Checked(h, "insert") \/ Checked(h, "idle"))
CheckActivation(h) == kind = "active" /\ (Checked(h, "insert") \/ Checked(h, "idle"))
CheckBody(h) == kind = "owned" /\ (Checked(h, "insert") \/ Checked(h, "idle"))
----
(* Inserting *)

Insert(h, k) ==
    /\ at[h] = "insert"
    /\ held' = held \union {k}
    /\ at' = [at EXCEPT ![h] = "idle"]
    /\ UNCHANGED <<kind, key>>

\* The call fails and the handler answers with an error.
InsertFails(h) ==
    /\ at[h] = "insert"
    /\ at' = [at EXCEPT ![h] = "idle"]
    /\ UNCHANGED <<kind, held, key>>

\* A key that is there already adds no row, whether the insert does nothing or
\* is refused ("The name may already be in use.").
AddBlacklistedUser(h) == kind = "user" /\ Insert(h, key[h])
AddBlacklistedRole(h) == kind = "role" /\ Insert(h, key[h])
CreateTicketLabel(h) == kind = "label" /\ Insert(h, key[h])
AddToGuild(h) == kind = "active" /\ Insert(h, key[h])

\* A plausible bug: the id that the insert returned is not read back.
CreateIntegrationNoId(h) == kind = "owned" /\ Insert(h, 0)

\* A new integration has an id of its own.
CreateIntegration(h) == kind = "owned" /\ \E k \in Keys \ held : Insert(h, k)
----
(* Removing, in one call *)

Remove(k) ==
    /\ held' = held \ {k}
    /\ UNCHANGED <<kind, at, key>>

RemoveBlacklistedUser(k) == kind = "user" /\ Remove(k)
RemoveBlacklistedRole(k) == kind = "role" /\ Remove(k)
DeleteTicketLabel(k) == kind = "label" /\ Remove(k)
RemoveFromGuild(k) == kind = "active" /\ Remove(k)
DeleteIntegration(k) == kind = "owned" /\ Remove(k)
----
Count(h, k) ==
    \/ CountBlacklistedUsers(h, k) \/ CountBlacklistedRoles(h, k) \/ CountLabels(h, k)
    \/ CountActive(h, k) \/ CountOwned(h, k)

Check(h) == CheckNotStaff(h) \/ CheckActivation(h) \/ CheckBody(h)

Add(h) ==
    \/ AddBlacklistedUser(h) \/ AddBlacklistedRole(h) \/ CreateTicketLabel(h)
    \/ AddToGuild(h) \/ CreateIntegration(h) \/ InsertFails(h)

Drop(k) ==
    \/ RemoveBlacklistedUser(k) \/ RemoveBlacklistedRole(k) \/ DeleteTicketLabel(k)
    \/ RemoveFromGuild(k) \/ DeleteIntegration(k)

Next ==
    \/ \E h \in Handlers : (\E k \in Keys : Count(h, k)) \/ Check(h) \/ Add(h)
    \/ \E k \in Keys : Drop(k)

Spec == Init /\ [][Next]_vars
----
\* "Max of 250 blacklisted users", and the like, is exact only for requests that
\* come one after the other.  What the code does keep: the rows pass the limit by
\* fewer than the number of requests served at the same time.
OvershootIsBounded == Cardinality(held) + 1 <= Limit[kind] + Cardinality(Handlers)

\* The handlers that were counted in and have not inserted yet.
Admitted == {h \in Handlers : at[h] # "idle"}

\* Why: whoever was counted in last saw room, so rows and admitted requests
\* together stay under the limit plus the number of handlers.
AdmittedFit == Cardinality(held) + Cardinality(Admitted) + 1 <= Limit[kind] + Cardinality(Handlers)
====
