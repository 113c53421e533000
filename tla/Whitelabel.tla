---- MODULE Whitelabel ----
(***************************************************************************)
(* The whitelabel bot of one account (app/http/endpoints/api/whitelabel).  *)
(* A row names the bot; the sharder, another program, starts and stops bots*)
(* and sets their status as it hears of them on Redis.  WhitelabelPost     *)
(* publishes in the middle of its calls, the other handlers leave their    *)
(* publication to a goroutine.  A bot stands for the bot and its token.    *)
(***************************************************************************)
EXTENDS Requests

CONSTANTS Bots, Statuses

ASSUME WhitelabelAssumption == None \notin Bots \union Statuses

VARIABLES
    bot,        \* the bot that the account's row names, or None
    status,     \* the stored status of each bot, None when there is none
    bus,        \* publications on Redis, in the order the sharder reads them
    detached,   \* publications that goroutines have yet to make
    running,    \* the account's bots that the sharder runs
    shows,      \* the status each of them shows
    cut,        \* WhitelabelPost ended between taking a bot offline and starting one
    unordered   \* a bot was saved beside another request or a publication about it

whitelabelVars == <<bot, status, bus, detached, running, shows, cut, unordered>>
sharderVars == <<running, shows>>

WhitelabelInit ==
    /\ bot \in IF about = "bot" THEN {None} \union Bots ELSE {None}
    /\ status = [b \in Bots |-> None] /\ shows = status
    /\ bus = <<>> /\ detached = {}
    /\ running = {bot} \ {None}
    /\ cut = FALSE /\ unordered = FALSE

Publish(kind, b) == bus' = Append(bus, [kind |-> kind, bot |-> b])
Detach(kind, b) == detached' = detached \union {[kind |-> kind, bot |-> b, id |-> requests]}

Writing == \E h \in Handlers : req[h] # Idle /\ req[h].op = "WhitelabelPost"
----
(* WhitelabelPost *)

\* A plausible bug: the comparison is the wrong way round.
TakesOfflineSame(existing, b) == existing = b

\* "Take existing whitelabel bot offline, if it is a different bot."
TakesOffline(existing, b) == existing # None /\ existing # b

\* Discord knows the token, and the account's row has been read.
BeginPost(h, b) ==
    /\ Begin(h, [op |-> "WhitelabelPost", bot |-> b, existing |-> bot,
                 at |-> IF TakesOffline(bot, b) THEN "take offline" ELSE "set"])
    /\ unordered' = (unordered \/ Writing \/ [kind |-> "delete", bot |-> b] \in
                                               {[kind |-> d.kind, bot |-> d.bot] : d \in detached})
    /\ UNCHANGED <<bot, status, bus, detached, sharderVars, cut>>

TakeOffline(h) ==
    /\ At(h, "take offline")
    /\ Publish("delete", req[h].existing)
    /\ Goto(h, "set")
    /\ UNCHANGED <<bot, status, detached, sharderVars, cut, unordered>>

SetBot(h) ==
    /\ At(h, "set")
    /\ bot' = req[h].bot
    /\ Goto(h, "endpoint")
    /\ UNCHANGED <<status, bus, detached, sharderVars, cut, unordered>>

EditCurrentApplication(h) ==
    /\ At(h, "endpoint")
    /\ Goto(h, "token")
    /\ UNCHANGED whitelabelVars

\* Discord refuses the endpoint.  The row is deleted by the id of the bot where the
\* table is keyed by the account, so it stays.
RefuseApplication(h) ==
    /\ At(h, "endpoint")
    /\ cut' = TRUE
    /\ End(h)
    /\ UNCHANGED <<bot, status, bus, detached, sharderVars, unordered>>

PublishTokenChange(h) ==
    /\ At(h, "token")
    /\ Publish("token", req[h].bot)
    /\ Goto(h, "interactions")
    /\ UNCHANGED <<bot, status, detached, sharderVars, cut, unordered>>

\* The bot's commands are registered, or on cooldown: the bot runs either way.
CreateInteractions(h) ==
    /\ At(h, "interactions")
    /\ End(h)
    /\ UNCHANGED whitelabelVars

FailPost(h) ==
    /\ req[h] # Idle /\ req[h].op = "WhitelabelPost"
    /\ cut' = (cut \/ req[h].at \in {"endpoint", "token"} \/ (At(h, "set") /\ TakesOffline(req[h].existing, req[h].bot)))
    /\ End(h)
    /\ UNCHANGED <<bot, status, bus, detached, sharderVars, unordered>>
----
(* WhitelabelDelete, WhitelabelStatusPost, WhitelabelStatusDelete *)

WhitelabelDelete(h) ==
    /\ Begin(h, Idle)
    /\ bot # None
    /\ bot' = None
    /\ Detach("delete", bot)
    /\ unordered' = (unordered \/ Writing)
    /\ UNCHANGED <<status, bus, sharderVars, cut>>

\* s is None when the status is deleted.
BeginStatus(h, s) ==
    /\ bot # None
    /\ Begin(h, [op |-> "WhitelabelStatus", bot |-> bot, status |-> s, at |-> "status"])
    /\ UNCHANGED whitelabelVars

WriteStatus(h) ==
    /\ At(h, "status")
    /\ status' = [status EXCEPT ![req[h].bot] = req[h].status]
    /\ Detach("status", req[h].bot)
    /\ End(h)
    /\ UNCHANGED <<bot, bus, sharderVars, cut, unordered>>

FailStatus(h) ==
    /\ At(h, "status")
    /\ End(h)
    /\ UNCHANGED whitelabelVars

PublishDetached ==
    /\ \E d \in detached : Publish(d.kind, d.bot) /\ detached' = detached \ {d}
    /\ UNCHANGED <<base, bot, status, sharderVars, cut, unordered>>

\* The sharder reads the next publication, and the status from its table.
Sharder ==
    LET m == Head(bus) IN
    /\ bus # <<>>
    /\ bus' = Tail(bus)
    /\ running' = CASE m.kind = "token"  -> running \union {m.bot}
                    [] m.kind = "delete" -> running \ {m.bot}
                    [] OTHER             -> running
    /\ shows' = IF m.kind = "delete" THEN shows ELSE [shows EXCEPT ![m.bot] = status[m.bot]]
    /\ UNCHANGED <<base, bot, status, detached, cut, unordered>>
----
WhitelabelNext ==
    \/ \E h \in Handlers :
         \/ \E b \in Bots : BeginPost(h, b)
         \/ TakeOffline(h) \/ SetBot(h) \/ EditCurrentApplication(h) \/ RefuseApplication(h)
         \/ PublishTokenChange(h) \/ CreateInteractions(h) \/ FailPost(h)
         \/ WhitelabelDelete(h)
         \/ \E s \in Statuses \union {None} : BeginStatus(h, s)
         \/ WriteStatus(h) \/ FailStatus(h)
    \/ PublishDetached \/ Sharder

WhitelabelTypeOK ==
    /\ bot \in Bots \union {None}
    /\ {status, shows} \subseteq [Bots -> Statuses \union {None}]
    /\ \A i \in DOMAIN bus : bus[i].kind \in {"token", "delete", "status"} /\ bus[i].bot \in Bots
    /\ running \subseteq Bots

\* The bot that the account's row names runs and shows its stored status, and no other
\* bot of the account runs, once all publications have been read, in whatever order the
\* goroutines made them, unless a save ended half way or met another request for the bot.
StoredBotRuns ==
    Quiet /\ bus = <<>> /\ detached = {} /\ ~cut /\ ~unordered =>
        /\ running = {bot} \ {None}
        /\ \A b \in running : shows[b] = status[b]
====
