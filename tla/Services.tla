---- MODULE Services ----
(***************************************************************************)
(* The smaller components of the dashboard side by side.  They share the   *)
(* request goroutines of the process and no table, so a behaviour follows  *)
(* one of them, and the others stand still.                                *)
(***************************************************************************)
EXTENDS Whitelabel, Tags, TicketMessages, Integrations, Sessions

Components == {"bot", "tags", "messages", "integrations", "sessions"}

vars == <<base, whitelabelVars, tagVars, messageVars, integrationVars, sessionVars>>

ServicesInit ==
    /\ about \in Components /\ Init
    /\ WhitelabelInit /\ TagsInit /\ MessagesInit /\ IntegrationsInit /\ SessionsInit

Next ==
    \/ /\ about = "bot" /\ WhitelabelNext
       /\ UNCHANGED <<tagVars, messageVars, integrationVars, sessionVars>>
    \/ /\ about = "tags" /\ TagsNext
       /\ UNCHANGED <<whitelabelVars, messageVars, integrationVars, sessionVars>>
    \/ /\ about = "messages" /\ MessagesNext
       /\ UNCHANGED <<whitelabelVars, tagVars, integrationVars, sessionVars>>
    \/ /\ about = "integrations" /\ IntegrationsNext
       /\ UNCHANGED <<whitelabelVars, tagVars, messageVars, sessionVars>>
    \/ /\ about = "sessions" /\ SessionsNext
       /\ UNCHANGED <<whitelabelVars, tagVars, messageVars, integrationVars>>

Spec == ServicesInit /\ [][Next]_vars

TypeOK == WhitelabelTypeOK /\ TagsTypeOK /\ MessagesTypeOK /\ IntegrationsTypeOK /\ SessionsTypeOK
====
