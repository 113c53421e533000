# Formal models of the TicketBot dashboard

TLA+ modules that model the Go API of the dashboard (`src/app`, `src/utils`, `src/rpc`,
`src/cmd`), the TLC runs that check them on small instances, and TLAPS proofs of what matters
most for every size. Paths below are under `src/`; `api/` stands for `app/http/endpoints/api/`.

## 1. The system

One Go process serves the dashboard. Gin runs every request on a goroutine of its own; handlers
share no memory, except in live-chat, and meet in Postgres, Redis and Discord. The bot that
opens and closes tickets is another program, reached through Redis channels and Discord.

| Component | State it keeps | Operations | What is hard |
|---|---|---|---|
| Live-chat relay, `api/ticket/livechat` | registry of connections, gauge, per connection `Authenticated`, `tx`, `flush`, the websocket | register, unregister, broadcast, read loop, write loop, auth, flush, close | unbuffered channels between four kinds of goroutine, close against send, timeouts, unsynchronised reads |
| Panels and multi-panels, `api/panel` | `panels`, `multi_panels`, `multi_panel_targets`, `embeds`, one Discord message per panel | create, update, resend, delete of each | two stores, no transaction over both, overlapping requests, swallowed errors |
| Panel bodies, `api/panel/validation.go` | none | defaults, validators, rows, the body of the form | what was stored must be accepted again |
| Support hours, `api/panel/supporthours.go` | hours and settings per panel | set, delete, query | quota over panels, delete before insert |
| Forms, `api/forms` | forms and their inputs | create, update, delete, update of all inputs | checks outside the transaction, positions |
| Quotas: blacklist, labels, integrations | rows counted per guild or user | add, create, activate, remove | count and insert apart |
| Active guilds, `api/premium/activeguilds.go` | entitlements, their links | choose the guilds of a subscription | long transaction, SKU changes, permissions from a cache |
| Integrations, `api/integrations` | integration, secrets, headers, placeholders | update, set public, secrets | stale columns written back, four tables in turn |
| Teams, `api/team` | members, roles, on-call roles on Discord | create, delete, add and remove members | several stores, partial failure, stale cache |
| Tags, `api/tags` | tag rows, guild commands on Discord | create, delete | two stores, the bot of the guild changes |
| Settings, `api/settings` | fourteen tables, a row per guild | update | detached writes, no order, panels that depend on them |
| Whitelabel, `api/whitelabel` | the user's bot, its status | set, delete, status | Discord, database and Redis in turn, detached publications |
| Tickets, `api/ticket` | none of its own | list, send, tag, close, label, read | hands over to Discord and the bot, falls back |
| Permissions, `utils/permissionutils.go`, `botcontext` | caches of members and roles | level, may view ticket | two paths to one decision, stale cache entries |
| Staff override, `api/staffoverride` | a row with an end per guild | grant, delete | runs out in the middle of a request |
| Transcripts, `api/transcripts` | none of its own | list, get, render | the same decision as for tickets |
| Sessions, `app/http/session`, `root/` | session in Redis, JWT in the browser | login, logout, reload guilds | expiry, refresh tokens that work once |
| Rate limits, `app/http/middleware/ratelimit.go`, `rpc/ratelimit.go` | counters in Redis | take a token | kept by a library |
| Audit log, server, front end | none that matters here | | |

They interact as follows. The middleware authenticates (session, JWT) and looks up permissions
before a handler runs. Panels in thread mode depend on a channel in the guild's settings, and
tickets on the teams of their panels. Handlers call `botcontext` for Discord, which goes through the caches,
and the premium lookup for the tier of a guild. `ListenChat` receives the bot's messages from
Redis and hands them to the socket manager. Publishing to Redis (ticket close, token change,
status) hands work to the bot.

For each component, the properties that make it correct are the hazards of `PROJECT.json`, each
at its line; those with a property are checked by a run below.

## 2. The modules

| Module | Models | Extended by |
|---|---|---|
| `LiveFeed` | what live-chat promises: only admitted connections get messages, of their own room, each once and in order | |
| `LiveChat` | the relay, goroutine by goroutine | `LiveChatProofs`, `MCLiveChat` |
| `PanelMessages` | panels and multi-panels, call by call | `PanelInvariants`, `MCPanelMessages` |
| `PanelInvariants` | the inductive invariants of `PanelMessages` | `PanelMessagesProofs` |
| `GuildQuotas` | five quotas of one shape | `GuildQuotasProofs`, `MCGuildQuotas` |
| `ActiveGuilds` | `SetActiveGuilds` | `ActiveGuildsProofs`, `MCActiveGuilds` |
| `FormInputs` | `UpdateInputs` and `DeleteForm` | `FormInputsProofs`, `MCFormInputs` |
| `PanelBody` | defaults, validators, rows and read-back of a panel's body: operators, no state | `GuildSettings` |
| `GuildSettings` | `UpdateSettings` and the panels that depend on it | `SupportHours` |
| `SupportHours` | schedules of panels; composes with `GuildSettings` | `SupportHoursProofs`, `MCGuildSettings` |
| `SupportTeams` | teams, their members and on-call roles, the member cache | `TicketAccess` |
| `TicketAccess` | who sees which ticket; composes with `SupportTeams` | `TicketAccessProofs`, `MCTicketAccess` |
| `Requests` | handlers on goroutines of their own, shared by the next five | |
| `Whitelabel` | the whitelabel bot of an account, Redis and the sharder | `Services` |
| `Tags` | tags and their guild commands | `Services` |
| `TicketMessages` | messages and tags sent to a ticket | `Services` |
| `Integrations` | an integration and its three tables | `Services` |
| `Sessions` | OAuth tokens of an account | `Services` |
| `Services` | the last five side by side | `ServicesProofs`, `MCServices` |

### LiveChat

`cur` and `todo` are where `SocketManager.Run` stands: at its select when `cur = 0`, else in the
loop over a guild's clients with `todo` still to be considered. `reader` is the place of a
connection's handler and then of its read loop, which take turns until `StartReadLoop`; `writer`
is the place of its write loop. All channels of this component are unbuffered, so a send and its
receive are one action that needs both sides: `Register`, `Unregister`, `TakeMessage`, `Hand`,
`SendFrom`, `FlushFrom`, `FlushAnswered`. A goroutine that stands at a channel whose other side
never comes is blocked in the model as in the program.

What is abstracted: the registry is a set and the order in which `Run` goes through a guild's
clients is left open (removal keeps the order of the others, which nothing observes). Frames are
of four kinds: an auth event with readable data, one with unreadable data, any other event, and
bytes that are not JSON. The token, ticket, permission and premium checks of `handleAuthEvent`
are a choice that can only end well for a connection in `Permitted`. `ws` is `lost` when the
peer or the network is gone, or the peer no longer answers in time; what is then written may or
may not reach the socket. `Authenticated` is read by `Run` while the read loop writes it. A read
that misses the write is the same behaviour with the write later, since between the write and
the next channel operation of the read loop nothing else sees it, so the interleavings cover it.
A URL that does not parse, and the end of the process, are left out.

### PanelMessages

A handler is a record `req[h]`: the operation, where it stands, and the values it read and
carries along. Each database or Discord call is a step of its own, so what a handler read may be
stale when it is used; each database transaction is one step. `Fail` ends a request at any step,
for a failed call or a context that ended; `SendLost` is a message that Discord created although
its answer was lost; `OldMessageStays` and `SendToMissingChannel` are the errors the code
swallows. These are bounded by `MaxFaults`. `raced` collects the objects that two requests at a
time could write, so that properties of requests that do not overlap can be stated.

`live` is Discord: the messages that exist, each with the object it belongs to and the panels it
offers. A panel is named by the custom id that `CreatePanel` draws before it sends the message.
Checks of a body without effect on the state end the request as if it had not come. Left out:
teams, mentions, access rules and ticket permissions of a panel, which no other step reads;
`ForceDisabled`; bodies that name a sub-panel twice; panels without a custom id, which predate
the column. The deletes that follow a row's deletion are those of the schema's foreign keys as
the handlers rely on them.

### GuildQuotas

A behaviour is about one of the five kinds of rows, for one guild or user, with any number of
requests for it at a time. Two users may insert the same key, which adds no row. What stands
between the count and the insert (the staff check, the author's webhook, the validation of a
body) is a step that may end the request.

### ActiveGuilds

Requests of one user. The transaction's writes appear at `Commit`, its reads (`ListForUser`,
`GetById`) see what others committed, and the subscription is read before it. Permissions are
read guild by guild and may change at any time. Several guilds per request are a set; a body
that names one twice, and subscriptions that are not for several servers, are left out, as are
the unique keys of the tables, which are not in this repository: without them the model allows
more.

### FormInputs

The ids and positions of a form's inputs. `UpdateInputs` reads and checks, `SaveInputs` commits.
Bodies are all records over the ids of the form and one id that is not of it. `Sorted` is what
`sort.Slice` leaves: the values in ascending order, however it gets there.

### PanelBody, GuildSettings and SupportHours

`PanelBody` names the values of a field by the classes the code tells apart: `"long"` is one rune
too many, a channel is named by its type, an emoji by how the guild knows it. `Defaults` is
`ApplyPanelDefaults`, `Accepts` is the conjunction of the validators, which run beside each other
without effect, and `CreatedRow` and `UpdatedRow` are the rows the two handlers make. `ReadBack`
is the body that `ListPanels` hands to the form. Three places look unlike what one expects and are
modelled as they are: the check of the button style joins both bounds and so refuses none, a
ticket limit of 0 is kept, and `CreatePanel` keeps the last role mention only.

In `GuildSettings`, `stored` is one of the fourteen tables of `UpdateSettings`, `about` says which:
the writes do not read each other, so what holds of the table that is followed, whichever it is,
holds of all. `ValidateSettings` is `Validate`, with the normalisation `Normal` that it does on the
way; `WriteWaited` and `GroupFails` are the group that is waited for, `Answer` begins the detached
writes, and `DetachedWrite` lets them arrive in any order. `row` has the panels, whose
`validateTicketNotificationChannel` reads the settings that `Validate` guards in the other direction.

`SupportHours` follows schedules instead. Each other panel that is looked at for the quota,
deleting the rows, each upsert, each refusal and the row of settings are steps, since the code has
no transaction there. `of` is the request that an hour is of, which stands for its times and its
timezone.

### SupportTeams and TicketAccess

`perm` has the default team, `members` the others; `callRow` is the on-call role that the row of
the followed team names, `discord` the roles that exist, `has` who holds them, `cached` what the
member cache says. `RemoveMember` goes through its calls: the row, the metadata of a default team,
and then, for a user, taking the role, for a role, forgetting, deleting, creating and naming it.
The two kinds of teams differ in when they take the role, which `TakesRole` has. `ok` records
whether Discord did what the answer reports.

`TicketAccess` has the questions of `permissionutils.go` as operators over these tables, and
`GetTickets` and `ListTranscripts` as the steps of one list; `Change` alters any table, the cache
or the override in between. Which filters a user typed does not matter and is left out. A behaviour
either follows an on-call role or a list. A list asks `IsPanelTeamMemberOnly` call by call
(`AskStaff` to `AskRoleTeam`), with the member that it read once, and `GetAccessiblePanelIds`, which
reads the member again (`ReadMemberAgain`) and then teams and panels. That a row of an administrator
counts as one of a supporter (`AsSupport`) is how the permission tables, a library, are assumed to
answer.

### Services

`Requests` has what the five modules share: `req[h]`, where a handler stands and what it has read.
Each database, Redis or Discord call is a step. The components have no table in common, so a
behaviour is about one of them, which `about` says, and `Next` lets only that one move.

`Whitelabel`: `bus` is Redis, in order; `detached` has the publications that goroutines have not
made yet; `Sharder` is the external program that starts and stops bots as it reads. A refused
endpoint ends the save (`RefuseApplication`): the handler deletes by the id of the bot where
`delete.go` deletes by the account, so the row stays.

`Tags`: `CreateGuildCommand` and `SetTag`, `DeleteGuildCommand` and `RemoveTag` are the two calls
of each handler. Discord overwrites a command of the same name, and knows a command only to the bot
that made it; `SwitchBot` changes the bot that `ContextForGuild` names.

`TicketMessages`: `SendMessage` and `SendTag`, whose control is the same. A request sends by the
webhook that it read, `req[h].hook`, also when the row has another by then. `WebhookRefused` is a 404,
or a 403 of a webhook that is there, and drops whichever webhook the row names later; `WebhookFails`
covers any other error, a timeout and a lost answer, after which the message may be there and is sent
again. `live` are the webhooks that Discord has; a new one is none that a row names or a request holds.

`Integrations`: `req[h].was` is the row that the update read and writes back with its publication
and approval. `Approve` is the bot team's. `Sessions`: refresh tokens are numbers; `RefreshToken`
spends one for the next, and `KeyExpires` is the ten seconds of the key that keeps two reloads
apart. A log-out during a reload is undone by the reload's store; no property speaks of it, since
nothing in the code or its comments says which should win.

## 3. What the runs check

| Run | Bounds | Shows |
|---|---|---|
| `livechat` | 2 connections to 2 tickets of a guild, one permitted, 3 frames, 1 ping, 2 messages | types; no send on a closed `tx`; registry and gauge; the read loop's own write; the error reply is flushed; `LiveFeed` is implemented |
| `livechat_liveness` | 2 permitted connections to one ticket, 2 frames, 2 messages | `Run` hangs only at a write loop that is gone, closed sockets end, authenticated clients are served |
| `livechat_gauge` | 1 connection, 1 malformed auth | violation, see below |
| `panels` | 2 panels, 1 multi-panel, 2 channels, 2 overlapping requests of all 8 kinds, 1 fault | agreement of rows and messages, each under the conditions it needs |
| `quotas` | 3 requests at a time, limits 1 and 2, 5 keys | how far a quota is overshot |
| `active_guilds` | 3 guilds, 2 requests, 2 SKUs (1 and 2 guilds), 1 change of the subscription | selection and entitlements, links, permissions |
| `active_guilds_sku` | same | violation |
| `form_inputs` | forms of up to 2 inputs, every body, 3 requests, 2 at a time | positions; how many inputs overlapping requests leave |
| `form_inputs_all` | same, 2 requests | violation |
| `guild_settings` | 2 requests that may overlap; any value of any table; panels with every body that differs from a plain one in a field; schedules of 2 panels with up to 2 entries | what is stored of settings and hours; panels can be saved again; thread mode has a channel |
| `ticket_access` | 2 removals, 2 teams, 1 role, 3 accounts, 3 on-call roles; or any rows, 2 panels and 1 change during a list | on-call roles agree with the rows; lists agree with single views |
| `services` | 4 requests, 2 at a time, for each of the five components; 2 bots, 2 tags, 2 webhooks | tables agree with Redis and Discord; messages once; tokens once |

Why the bounds suffice to show the cases of interest. Live-chat: everything that involves one
connection happens with three frames (authenticate, then fail, then one more); two connections
are what it takes for one to hang `Run` and the other to suffer; two messages are what order
needs. Panels: each race is between two requests, and two panels are what a multi-panel needs;
with a limit of one for the free tier the quota matters. Quotas: three requests on a limit of two
start below, at and beyond it. Active guilds: one guild can be added, one kept and one dropped in
the same request. Forms: a body with a repeated id, a wrong position, too many inputs or an
unknown id exists for two inputs already, and of three requests two can leave four inputs, which the
third finds. Settings: a write is undone by another, so two requests
show every order; a body is refused or not field by field, except for the few pairs that the
validators compare (label and emoji, the images of the message, threads and channel), whose
values the bodies have; two rules exceed an `AclLimit` of 2 with the third, as eleven exceed the
code's 10. Teams: with three on-call roles one can be made, made anew and made by a second removal.
Lists: one change between two reads is what it takes for one read to be stale, and with two the
list may be of a moment that never was. Services: four requests let something be made, changed
twice and deleted, and a second of each kind overlap; with two webhooks a request may hold one that
was replaced meanwhile; two tags reach `MaxTags`, which stands for
200.

The runs that switch deadlock checking off are those whose frames, messages or requests run out
and whose system may then rest, or, in live-chat, hang in the ways the liveness properties name.

### Properties that carry a condition

`SettledPanels` and `SettledMultis` hold for requests that neither overlap nor fail half way: that
is as much as the code offers, and still needs all the steps of eight handlers to be right. Under
overlap a weaker one holds, `KeepsAMessage`: a stored panel is never left without a message that
users can press. Under overlap and faults `RowNamesOwnMessage` remains. `SettledMultis` also needs
no more multi-panels than `MultiLimit`, as in the run: the others of a panel are not brought up to
date, which the code accepts ("Prevent DoS"). In the same way
`OvershootIsBounded` says what remains of a quota that is exact for requests one after another,
`InputsAreBounded` what remains under overlap of the limit in `InputsStandInOrder`,
and `LinksNameEntitlements` what remains of `SelectionIsEntitled`.

The properties of the other modules name in a ghost variable what the code does not protect
against, so that everything else is claimed:

* `ThreadPanelsHaveChannel` and `StoredPanelsCanBeSaved` except when a panel and the thread mode
  were validated beside each other (`raced`); `SettingsComeFromLastRequests` except when a detached
  write failed, whose error nobody reads (`lost`).
* `HoursAreOfOneRequest` except when two requests for the panel overlap (`overlap`), but through
  every refusal and failure; `AnsweredScheduleIsWhole` except also after a request that ended early
  (`half`); `FreeGuildHasOneSchedule` as long as no saves of two panels overlap (`crowded`) and the
  guild never paid (`everPaid`): hours of several panels stay when premium ends.
* `CallRolesAreNamed` and `RemovedMembersAreOffCall` except after a removal that ended between
  forgetting a role and naming the next (`orphaned`), or met another change (`raced`).
  `ListsAreViewable` speaks of accounts that are kept to their teams' panels. An account that loses
  its last team between the middleware and `IsPanelTeamMemberOnly` is shown the whole guild, and
  accounts on the default team are listed panel tickets that they cannot open one by one; both are
  outside it.
* `StoredBotRuns` except when a save ended after it took the former bot offline or before it
  announced the new one (`cut`), or met another request for the bot (`unordered`).
  Publications of goroutines are assumed to be made in the end, in any order.
* `TagsAndCommandsAgree` except for ids where a request ended between its two calls, two met, a tag
  with a command was replaced by one without, or the guild's bot changed (`astray`).
* `MessagesArePostedOnce` except when Discord's answer was not heard (`unheard`);
  `AnsweredIntegrationStands` except when an update met another request or an approval, or ended
  half way (`unsettled`); `NobodyReauthenticatesInVain` except when a reload outlives its key
  (`holdup`) or ends between the trade and the store (`lostToken`).

### Fairness

Only `LiveChat` has liveness properties. Its fairness is weak fairness of `Run`'s steps and of
each connection's read loop and write loop: the Go scheduler runs every goroutine that can run,
and a select with several ready channels picks one at random. Peers, the network and the ticker
promise nothing. Frames, messages and pings are finite in the model, so weak fairness is enough
for a rendezvous that would otherwise compete with them.

### Disagreements of code and comments

* `livechat_gauge`. The gauge is "The number of open live-chat websockets"
  (`api/ticket/livechat/manager.go:17`). After an auth event with unreadable data `HandleEvent`
  writes, closes and flushes, and the read loop then writes and flushes again
  (`client.go:77-78`). The write loop meets the closed socket and ends, the read loop waits for it
  for ever, and the closed socket remains counted.
* `active_guilds_sku`. `api/premium/activeguilds.go:129` promises that guilds which stay selected
  have their entitlement recreated when the SKU has changed. Lines 147-161 delete the link with
  the entitlement and recreate the entitlement alone: the guild is no longer an active guild of
  the user, and no later request finds its entitlement.
* `form_inputs_all`. `api/forms/updateinputs.go:137` means to "Verify that we are updating ALL
  inputs". A body with the same id twice passes, and another input is not updated.

## 4. What is proved

The proofs assume what the modules assume, and nothing of the sizes that the runs fix:

* `Handlers`, `Guilds`, `Panels`, `Multis` and the connections are finite sets, where something is
  counted or ordered; in `FormInputs` there is at least one handler. They hold for any number of
  handlers, messages, requests and faults.
* The value that stands for "no row" is not one of the values it stands beside (`NoneAssumption`,
  `WebhooksAssumption`, `SupportTeamsAssumption`, and the like); panels and multi-panels are different, users and roles
  are different.
* `HoursAssumption`: one of the bodies is plain, so that a panel can be there to have hours.
* Limits and bounds are numbers.

Type correctness is proved of every module below. A `TypeOK` is seldom inductive: what a handler
has read must have a type that says where it stands, so each proof has a stronger `BaseInv` or
`TypeInv` first, with the records of the places that each operation can be at.

`LiveChatProofs`. `TypeCorrect`, then `RegistryCorrect`, whose invariant is inductive with the
types: each connection enters the registry with its rendezvous and leaves it with the other, and
the gauge follows because both are counted exactly once. The other safety properties are not
inductive. `ProtocolInvariant` is the strengthening, in four parts: `Base` relates where `Run`
stands to the registry, `Closing` says that `tx` is closed only when the read loop is done and
has left `todo`, `Quiet` that nothing is queued for a connection that is not authenticated, and
`Told` follows the error frame from the rendezvous on `tx` through the write loop to the flush.
The essential points are that `Unregister` needs `Run` at its select, so that nobody unregisters
while it is in `todo`, and that the write loop is at its select, with its frame written, when it
takes a flush. `NeverSendsOnClosedTx`, `DirectWriteIsAlone` and `FlushFlushes` follow.
`ImplementsLiveFeed` maps members to the authenticated connections and feeds to what was
delivered; its invariant adds that what `Run` hands out is newer than what was delivered.

`GuildQuotasProofs`. `AdmittedFit` is inductive: a request that is counted in saw room, and was
not admitted before, so rows and admitted requests stay below the limit plus the number of
handlers. `OvershootIsBounded` follows.

`ActiveGuildsProofs`. `LinksAreEntitled` is inductive by itself: a commit removes the links of the
entitlements it removes and makes both under one id. `GuildsAreAddedByAdmins` is about steps, and
needs `Vetted`: once a request is past the check, every guild it will add was checked.
`SelectionsAreEntitled` needs `InTurn`: while requests come one at a time and the subscription
stays, there is one entitlement and one link for each selected guild (`Entitled`), and the request
that is under way has read what is still true (`Reading`). That the commit keeps this is a fact
about the sets of rows it writes (`CommitInTurn`).

`FormInputsProofs`. It begins with sorting, which would be proved by induction. A theorem of
induction takes an operator, which the provers cannot be given; that a finite set has a smallest
subset of any kind (`SmallestSet`) does as well: the smallest set of positions that could not be put
in order would lack its greatest element, and without it could be. So `Sorted` returns the values
that it is given (`SortedArranges`), and the check of positions lets the arrangements of 1 to n
through and nothing else (`CorrectPositions`).

* `InputsAreInOrder`: the inductive invariant has, beside the types, what a handler that saves has
  checked (`CheckInv`), that without repetition it has as many ids as updates (`DistinctInv`), so that
  it updates all that it does not delete (`AllUpdated`), and that without overlap it is the only one
  and what it read is still stored (`AloneInv`). `SavedInOrder` then finds the position 1 to n of each
  input that is kept or created.
* `MissedByRepetitionOnly`: `AllInputsAreUpdated`, which `form_inputs_all` refutes, holds of every
  body without a repeated id, also under overlap.
* `OverlapIsBounded`: the number of inputs alone is not inductive, since a request may have seen
  many and be about to delete them. `LeftInv` says it of every set of handlers that save: what none
  of them deletes and what they are to create are together within the bound. A new request starts
  with at most `MaxInputs` of both; one that commits moves what it creates from one to the other.

`ServicesProofs`. One theorem for each of the five components, and one for their types. Since a
behaviour is about one component, each invariant is conditional on `about`.

* `NobodyIsTurnedAway`: `ReloadsInv` says that, as long as no reload outlives its key or is cut
  short, at most one handler is between the lock and its release, what it holds was not spent, and
  the stored token is good but for the moment between the trade and the store.
* `AnswersAreTrue`: `Sent` says how often the message of each request was posted: of one that is
  under way not at all, unless an answer went unheard, which only the second place knows.
* `UpdatesStand`: `Settled` says that an update that meets nobody has written the parts before the
  one it stands at, and that the row it read is the row it overwrites.
* `TagsKeepCommands`: `InStep` says of a tag what the handler that is alone at it has done
  (`Midway`): which numbers Discord has for it and which the row names. It rests on `TagsInv`, in
  which no number is of two commands or of the commands of two tags.
* `TheStoredBotRuns`: what matters is not which bots run but which will run when the sharder has
  read the bus: `WillRun` looks for the last publication that decides. `BotsInOrder` says that the
  stored bot is the only one that will run and whose stop is not on its way, but for a save between
  its two publications; `StatusesArrive` that a status that is not shown is on its way.

`SupportHoursProofs`, of `SupportHours` and `GuildSettings` together.

* `HoursAgree` and `SchedulesStand`: `Schedules` says, of a panel at which no two requests met, what
  the one that is there has deleted and inserted, and that an answered schedule is there whole.
* `FreeGuildsKeepToOne`: `OneSchedule`, whose core is `KeepsToOne`: all saves under way are for one
  panel; past the quota no other panel has hours, and a save that is still looking either has the
  panel with hours before it or has found it.
* `SettingsStand`: `LatestInv` follows a value from the request through the writes that are waited
  for or detached; the stored one is among the latest, or one of the latest is on its way.
* `ThreadsHaveChannels`: `ChannelInv` says what a request that is under way was validated against
  and that it is still so: an update that turns threads off, that no panel needs them; a panel in
  thread mode, that the guild has a channel.
* `PanelsCanBeSavedAgain`: every stored row was made of a body that the validators let through
  (`RowsInv`), and the read-back of such a row is let through again. It differs from the body in its
  mentions only, which come back as the columns list them: in another order, each once, and without
  those that were dropped (`BackSays`).

`TicketAccessProofs`, of `SupportTeams` and `TicketAccess` together.

* `CallRolesAreTheRows` and `RemovedAreOffCall`: `CallInv` says, until something interferes
  (`Quiet`), what each removal knows at its place: that of a user, the only on-call role that the
  user can hold; that of a role, which roles Discord still has. Removals that are under way are of
  different users, or there is one (`ApartInv`).
* `ListsShowTheViewable`: while nothing has changed the list has read what there is (`Exact`); with
  one change anywhere before, between or after its reads, the panels it will be kept to show nothing
  that neither moment allows and miss nothing that both do (`Agrees`). For a list that is still
  asking, an account with a place in the whole guild either has a question to come that finds it
  (`Ahead`), or sees by its teams all that it saw when the list began (`ByTeams`).

`PanelMessagesProofs`, whose invariants are stated in `PanelInvariants`. `OwnInv` says that every
message id which a row, a loaded copy of a row or a handler holds is 0 or was sent for the object it
is held for; `RowsNameOwnMessages` follows, with no condition on overlap or failure.
`StoredObjectsKeepAMessage` needs the flow of messages, `FlowInv`: of every stored object the newest
message is there, or the handler that deleted it has another one to send or the row to delete
(`KeepInv`). A handler that deletes the message of a multi-panel after it has sent one deletes an
older one (`OlderInv`); a panel's message is deleted last when its row is gone (`RemoveInv`); and
nobody else can be at an object that is still being made (`CreateInv`).

Its second part is about what is left when requests neither overlap nor fail. Neither property is
inductive: between a handler's first call and its last the row and the messages disagree, and what
the last call writes was read by the first.

* `PanelsSettle`: `PanelStage` says, of a request that is alone at its panel, for each place of the
  handler which message the panel has and that the row it read is still the row. That it is alone
  comes from `Alone`: two requests that may write the same object are both there when the second
  arrives, and the object is recorded then. Welcome messages need `EmbedsInv`: each stored one
  belongs to exactly one panel (`Welcomes`), by its row or by the request that has just written it,
  and its number is below the serial.
* `MultisSettle`: `OwnStage` does the same for the four handlers of a multi-panel, and `LoopStage`
  for the loops of `UpdatePanel` and `DeletePanel`: after the row of the panel is gone every
  multi-panel still to do shows it and the database does not list it (`Late`), the one whose turn it
  is has its old message, both, or the new one, and every other one is at rest. The theorem assumes
  `Cardinality(Multis) <= MultiLimit`: with more, a deletion leaves the rest showing a panel that is
  gone, as the source says it will (`paneldelete.go`, `panelupdate.go`: at most five are updated).

Only model-checked: liveness and fairness, which the prover does not handle, that is, `LiveChat`'s
three liveness properties. Every other property of a passing run is a theorem. The three
disagreements are counterexamples that TLC finds.

## 5. What is not modelled

Of components that are modelled in part:

* Panels: `ForceDisabled`, the reset of a cooldown, and the dropdown check of
  `multipanelcreate.go:93`, which compares each panel with the entry of the body at the same place.
  The quota of panels (`panelcreate.go:108`) is overshot by overlapping requests in the way that
  `GuildQuotas` shows for other rows; `PanelMessages` has it, and no property bounds it.
* Forms: labels, types, options and titles. Integrations: `UpdateIntegrationSecretsHandler`, one
  transaction. Teams: `UpdateTeamPermissions`, a row that only the bot reads. Tickets: `CloseTicket`
  and `UpdateCloseReason`, one call to the bot or the database; labels of a ticket. Support hours:
  `IsPanelActive`, which only reads. Whitelabel: the cooldown of command registration.
* Live-chat: a URL that does not parse, after the websocket was upgraded
  (`api/ticket/livechat/livechat.go:28`). The message list of `TicketView.svelte`, which is replaced
  by a load while messages are appended to it, is part of the front end.

Not to be modelled: rate limits (a library counts; `TakeTicketRateLimitToken` is called nowhere),
the cache of channels, listings and renderings without state (audit log, transcripts, guild and user
info), routing, logging and configuration, and the front end. Postgres, Redis, Discord, Patreon, the
sharder and the bot are external: they appear as the handlers use them.

What could be added: an abstract specification of "a row and its object on Discord", which `Tags`,
`SupportTeams` and `PanelMessages` implement as long as nothing fails, and a bound of the quota of
panels under overlap.
