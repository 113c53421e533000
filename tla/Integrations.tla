---- MODULE Integrations ----
(***************************************************************************)
(* One custom integration and its owner (integrations/updateintegration.go,*)
(* setpublic.go).  An update writes the integration's row with what it read*)
(* of its publication, then its secrets, headers and placeholders, each    *)
(* checked against the rows there are before it is written; nothing is     *)
(* undone.  Approval of a public integration is the bot team's.            *)
(***************************************************************************)
EXTENDS Requests

Parts == <<"secrets", "headers", "placeholders">>

VARIABLES
    integration,   \* [public, approved, of]: `of` the update whose body the row has
    parts,         \* the update whose body each of the three tables has
    granted,       \* publication and approval that were given: they are not to be undone
    answeredUpdate,\* the last update that was answered with success, 0 for none
    unsettled      \* an update met another request or an approval, or ended half way

integrationVars == <<integration, parts, granted, answeredUpdate, unsettled>>

IntegrationsInit ==
    /\ integration = [public |-> FALSE, approved |-> FALSE, of |-> 0]
    /\ parts = [p \in 1 .. 3 |-> 0]
    /\ granted = {} /\ answeredUpdate = 0 /\ unsettled = FALSE

Updating == \E h \in Handlers : req[h] # Idle /\ req[h].op = "UpdateIntegration"
----
\* The body is well-formed, the account owns the integration and, if there is a
\* validation URL, it has the host of the webhook.
BeginUpdate(h) ==
    /\ about = "integrations"
    /\ Begin(h, [op |-> "UpdateIntegration", at |-> "row", id |-> requests + 1, was |-> integration])
    /\ unsettled' = (unsettled \/ ~Quiet)
    /\ UNCHANGED <<integration, parts, granted, answeredUpdate>>

\* A plausible bug: publication and approval are left out of the row.
UpdatedForgets(was, id) == [public |-> FALSE, approved |-> FALSE, of |-> id]

Updated(was, id) == [was EXCEPT !.of = id]

UpdateRow(h) ==
    /\ At(h, "row")
    /\ integration' = Updated(req[h].was, req[h].id)
    /\ req' = [req EXCEPT ![h] = [op |-> @.op, at |-> "part", id |-> @.id, part |-> 1]]
    /\ UNCHANGED <<about, requests, parts, granted, answeredUpdate, unsettled>>

\* The ids in the body are among those of the table, which is written, one table after
\* another.
UpdatePart(h) ==
    /\ At(h, "part") /\ req[h].part <= Len(Parts)
    /\ parts' = [parts EXCEPT ![req[h].part] = req[h].id]
    /\ req' = [req EXCEPT ![h].part = @ + 1]
    /\ UNCHANGED <<about, requests, integration, granted, answeredUpdate, unsettled>>

AnswerUpdate(h) ==
    /\ At(h, "part") /\ req[h].part > Len(Parts)
    /\ answeredUpdate' = req[h].id
    /\ End(h)
    /\ UNCHANGED <<integration, parts, granted, unsettled>>

\* An id in the body is of no row of the table, or a call fails: what was written stays.
RefuseUpdate(h) ==
    /\ req[h] # Idle /\ req[h].op = "UpdateIntegration"
    /\ unsettled' = (unsettled \/ At(h, "part"))
    /\ End(h)
    /\ UNCHANGED <<integration, parts, granted, answeredUpdate>>
----
BeginSetPublic(h) ==
    /\ about = "integrations" /\ ~integration.public
    /\ Begin(h, [op |-> "SetPublic", at |-> "request"])
    /\ unsettled' = (unsettled \/ Updating)
    /\ UNCHANGED <<integration, parts, granted, answeredUpdate>>

\* The bot team is asked by a message, whose failure ends the request.
RequestPublication(h) ==
    /\ At(h, "request")
    /\ \/ Goto(h, "public") \/ End(h)
    /\ UNCHANGED integrationVars

SetPublic(h) ==
    /\ At(h, "public")
    /\ integration' = [integration EXCEPT !.public = TRUE]
    /\ granted' = granted \union {"public"}
    /\ End(h)
    /\ UNCHANGED <<parts, answeredUpdate, unsettled>>

Approve ==
    /\ about = "integrations" /\ integration.public /\ ~integration.approved
    /\ integration' = [integration EXCEPT !.approved = TRUE]
    /\ granted' = granted \union {"approved"}
    /\ unsettled' = (unsettled \/ Updating)
    /\ UNCHANGED <<base, parts, answeredUpdate>>
----
IntegrationsNext ==
    \/ \E h \in Handlers :
         \/ BeginUpdate(h) \/ UpdateRow(h) \/ UpdatePart(h) \/ AnswerUpdate(h) \/ RefuseUpdate(h)
         \/ BeginSetPublic(h) \/ RequestPublication(h) \/ SetPublic(h)
    \/ Approve

IntegrationsTypeOK ==
    /\ integration \in [public : BOOLEAN, approved : BOOLEAN, of : {0} \union Ids]
    /\ parts \in [1 .. 3 -> {0} \union Ids]

\* No update takes back a publication that was asked for or an approval that was given,
\* and an answered update is whole: its body is in the row and in all three tables.  Both
\* hold unless an update met another request or an approval, or ended half way.
AnsweredIntegrationStands ==
    about = "integrations" /\ ~unsettled =>
        /\ "public" \in granted => integration.public
        /\ "approved" \in granted => integration.approved
        /\ ~Updating => \A p \in 1 .. 3 : parts[p] = answeredUpdate /\ integration.of = answeredUpdate
====
