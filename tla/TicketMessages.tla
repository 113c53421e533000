---- MODULE TicketMessages ----
(***************************************************************************)
(* Messages and tags sent to a ticket from the dashboard (SendMessage in   *)
(* ticket/sendmessage.go, SendTag in ticket/sendtag.go).  Both prefer the  *)
(* webhook the bot made for the ticket and fall back on the channel; a     *)
(* webhook that Discord refuses is dropped by a goroutine, with its row.   *)
(***************************************************************************)
EXTENDS Requests

CONSTANT Webhooks   \* those that the bot makes for the ticket, enough for one to be new

ASSUME WebhooksAssumption == None \notin Webhooks

VARIABLES
    webhook,    \* the webhook that the ticket's row names, or None
    live,       \* the webhooks that Discord has
    channel,    \* the ticket's channel: "open", "deleted" on Discord, or None without one
    dropping,   \* goroutines that are about to delete the row
    posted,     \* how often each request's message is on Discord
    answers,    \* requests that were answered: [id, ok]
    unheard     \* requests that had a message posted and did not hear of it

messageVars == <<webhook, live, channel, dropping, posted, answers, unheard>>

MessagesInit ==
    /\ webhook \in IF about = "messages" THEN Webhooks \union {None} ELSE {None}
    /\ live \in SUBSET ({webhook} \ {None})
    /\ channel \in IF about = "messages" THEN {"open", "deleted", None} ELSE {None}
    /\ dropping = 0
    /\ posted = [i \in Ids |-> 0] /\ answers = {} /\ unheard = {}
----
Post(h) == posted' = [posted EXCEPT ![req[h].id] = @ + 1]

\* The request goes on, with the webhook w to send by.
Turn(h, at, w) ==
    /\ req' = [req EXCEPT ![h] = [@ EXCEPT !.at = at, !.hook = w]]
    /\ UNCHANGED <<about, requests>>

AnswerRequest(h, ok) ==
    /\ answers' = answers \union {[id |-> req[h].id, ok |-> ok]}
    /\ End(h)

\* The tier, the ticket and the tag are there; the ticket is read with its channel.
BeginSend(h) ==
    /\ about = "messages"
    /\ Begin(h, [op |-> "Send", at |-> "webhook row", id |-> requests + 1, channel |-> channel,
                hook |-> None])
    /\ UNCHANGED messageVars

\* Webhook, settings, and the name to send under.  The webhook is the one read here,
\* whatever the row says when it is used.
GetWebhook(h) ==
    /\ At(h, "webhook row")
    /\ Turn(h, IF webhook = None THEN "channel" ELSE "webhook", webhook)
    /\ UNCHANGED messageVars

\* A plausible bug: the request goes on after its answer, to the channel.
ExecuteWebhookGoingOn(h) ==
    /\ At(h, "webhook") /\ req[h].hook \in live
    /\ Post(h)
    /\ Turn(h, "channel", None)
    /\ UNCHANGED <<webhook, live, channel, dropping, answers, unheard>>

ExecuteWebhook(h) ==
    /\ At(h, "webhook") /\ req[h].hook \in live
    /\ Post(h)
    /\ AnswerRequest(h, TRUE)
    /\ UNCHANGED <<webhook, live, channel, dropping, unheard>>

\* 404, or 403 of a webhook that may well be there: "we can delete the webhook in this
\* case", whichever the row names by then, and the channel is tried.
WebhookRefused(h) ==
    /\ At(h, "webhook")
    /\ dropping' = dropping + 1
    /\ Turn(h, "channel", None)
    /\ UNCHANGED <<webhook, live, channel, posted, answers, unheard>>

\* Any other error, an answer that is late or lost among them.
WebhookFails(h) ==
    /\ At(h, "webhook")
    /\ \/ UNCHANGED <<posted, unheard>>
       \/ req[h].hook \in live /\ Post(h) /\ unheard' = unheard \union {req[h].id}
    /\ Turn(h, "channel", None)
    /\ UNCHANGED <<webhook, live, channel, dropping, answers>>

CreateMessage(h) ==
    /\ At(h, "channel") /\ req[h].channel # None /\ channel = "open"
    /\ Post(h)
    /\ AnswerRequest(h, TRUE)
    /\ UNCHANGED <<webhook, live, channel, dropping, unheard>>

\* No channel, a channel that is gone, or an error.
MessageFails(h) ==
    /\ At(h, "channel")
    /\ \/ UNCHANGED <<posted, unheard>>
       \/ /\ req[h].channel # None /\ channel = "open"
          /\ Post(h) /\ unheard' = unheard \union {req[h].id}
    /\ AnswerRequest(h, FALSE)
    /\ UNCHANGED <<webhook, live, channel, dropping>>

\* A read fails before anything was sent.
SendFails(h) ==
    /\ At(h, "webhook row")
    /\ AnswerRequest(h, FALSE)
    /\ UNCHANGED <<webhook, live, channel, dropping, posted, unheard>>

DropWebhook ==
    /\ dropping > 0
    /\ dropping' = dropping - 1
    /\ webhook' = None
    /\ UNCHANGED <<base, live, channel, posted, answers, unheard>>
----
\* One that no row names and no request is about to use.
NewWebhooks == Webhooks \ (live \union {webhook} \union
                           {req[h].hook : h \in {g \in Handlers : req[g] # Idle}})

\* The bot makes a webhook for the ticket; somebody deletes one, or the channel and all
\* webhooks with it.
Surroundings ==
    /\ about = "messages"
    /\ \/ /\ webhook \notin live /\ channel = "open"
          /\ \E w \in NewWebhooks : webhook' = w /\ live' = live \union {w}
          /\ UNCHANGED channel
       \/ \E w \in live : live' = live \ {w} /\ UNCHANGED <<webhook, channel>>
       \/ channel = "open" /\ channel' = "deleted" /\ live' = {} /\ UNCHANGED webhook
    /\ UNCHANGED <<base, dropping, posted, answers, unheard>>

MessagesNext ==
    \/ \E h \in Handlers :
         \/ BeginSend(h) \/ GetWebhook(h) \/ ExecuteWebhook(h) \/ WebhookRefused(h) \/ WebhookFails(h)
         \/ CreateMessage(h) \/ MessageFails(h) \/ SendFails(h)
    \/ DropWebhook \/ Surroundings

MessagesTypeOK ==
    /\ webhook \in Webhooks \union {None} /\ live \subseteq Webhooks
    /\ channel \in {"open", "deleted", None}
    /\ dropping \in 0 .. MaxRequests
    /\ posted \in [Ids -> 0 .. 2]
    /\ answers \subseteq [id : Ids, ok : BOOLEAN] /\ unheard \subseteq Ids

\* A message that was answered with success stands in the ticket once, and one that was
\* answered with an error does not, so it can be sent again, whatever becomes of the
\* webhook and its row meanwhile; unless Discord's answer to the request was not heard.
MessagesArePostedOnce ==
    \A a \in answers : a.id \notin unheard => posted[a.id] = IF a.ok THEN 1 ELSE 0
====
