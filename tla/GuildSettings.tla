---- MODULE GuildSettings ----
(***************************************************************************)
(* The settings of a guild (app/http/endpoints/api/settings) and the panels*)
(* that depend on them.  UpdateSettings validates, writes half a dozen     *)
(* tables at once and waits for them, answers, and leaves eight more       *)
(* tables to goroutines that nobody waits for.  The tables are written and *)
(* read apart from each other, so a behaviour follows one of them: what    *)
(* holds of every table it shows for all.  Panels meet the table           *)
(* "settings", which has the guild's thread mode.                          *)
(***************************************************************************)
EXTENDS PanelBody

CONSTANTS
    Panels,
    Bodies,       \* the panel bodies that requests bring, out of Body
    Handlers,     \* request goroutines
    MaxRequests   \* bound: requests that get past validation

ASSUME GuildSettingsAssumption == Bodies \subseteq Body /\ MaxRequests \in Nat

\* The tables that UpdateSettings waits for, and those it does not.
Waited   == {"settings", "claim", "permissions", "language", "autoClose", "colours"}
Detached == {"welcome", "limit", "archive", "category", "naming", "canClose", "confirm", "feedback"}

VARIABLES
    about,     \* the table that is followed, or "hours" (module SupportHours)
    stored,    \* its value
    row,       \* the panels, None when there is none
    tier,      \* the guild's premium tier; a vote counts in some places only
    req,       \* the request each handler is serving
    pending,   \* detached writes on their way
    latest,    \* the values that may come out last: see SettingsComeFromLastRequests
    raced,     \* a panel and the thread mode were validated beside each other
    lost,      \* a detached write failed
    requests

settingsVars == <<about, stored, row, tier, req, pending, latest, raced, lost, requests>>

Days == {-1, 0, 60, 61}
Colours == {"green", "red", "other"}

\* What a request can ask for, table by table.
Asked == [
    settings    |-> [useThreads : BOOLEAN, channel : {None, "text", "news"}, archive : {60, 61},
                     panel : Panels \union {None, "other guild's"}, overflow : {None, "category", "text"}],
    claim       |-> [canView : BOOLEAN, canType : BOOLEAN],
    permissions |-> {"few", "all"},
    language    |-> {None, "known", "unknown"},
    autoClose   |-> [enabled : BOOLEAN, sinceOpen : Days, sinceLast : Days, onLeave : BOOLEAN],
    colours     |-> UNION {[C -> {"own"}] : C \in SUBSET Colours},
    welcome     |-> {"", "text", "long"},
    limit       |-> {0, 1, 10, 11},
    archive     |-> Channels \union {None},
    category    |-> Channels,
    naming      |-> {"id", "username", "other"},
    canClose    |-> BOOLEAN,
    confirm     |-> BOOLEAN,
    feedback    |-> BOOLEAN]

\* The rows before the first request, as the tables give them: defaults, or zero.
Unset == [
    settings    |-> [useThreads |-> FALSE, channel |-> None, archive |-> 60, panel |-> None,
                     overflow |-> None],
    claim       |-> [canView |-> TRUE, canType |-> TRUE],
    permissions |-> "few",
    language    |-> None,
    autoClose   |-> [enabled |-> FALSE, sinceOpen |-> 0, sinceLast |-> 0, onLeave |-> FALSE],
    colours     |-> <<>>,
    welcome     |-> "",
    limit       |-> 0,
    archive     |-> None,
    category    |-> "gone",
    naming      |-> "id",
    canClose    |-> TRUE,
    confirm     |-> TRUE,
    feedback    |-> TRUE]

Idle == [op |-> "idle"]
Stored == {p \in Panels : row[p] # None}

\* Thread mode may be on already.
SettingsInit ==
    /\ about \in Waited \union Detached
    /\ \/ stored = Unset[about]
       \/ about = "settings" /\ stored = [Unset.settings EXCEPT !.useThreads = TRUE, !.channel = "text"]
    /\ row = [p \in Panels |-> None]
    /\ tier \in {"none", "vote", "premium"}
    /\ req = [h \in Handlers |-> Idle]
    /\ pending = {} /\ latest = {stored}
    /\ raced = FALSE /\ lost = FALSE /\ requests = 0
----
(* Validate *)

\* A plausible bug: the panels that have a channel of their own are looked for.
DependsOnGlobalNegated(p) == row[p].useThreads /\ row[p].notify # None

\* Panels "using the global notification channel setting".
DependsOnGlobal(p) == row[p].useThreads /\ row[p].notify = None

ThreadModeOk(v) ==
    IF v.useThreads THEN v.channel # None ELSE ~ \E p \in Stored : DependsOnGlobal(p)

\* Why a request is refused as a whole; the channels are checked once they stand.
Acceptable(f, v) ==
    CASE f = "settings" ->
           /\ ThreadModeOk(v)
           /\ v.archive = 60
           /\ v.panel \in Stored \union {None}
           /\ v.overflow \in {None, "category"}
           /\ v.useThreads => v.channel = "text"
      [] f = "claim"     -> v.canType => v.canView
      [] f = "language"  -> v # "unknown"
      [] f = "colours"   -> "other" \notin DOMAIN v
      [] f = "autoClose" -> v.sinceOpen <= 60 /\ v.sinceLast <= 60
      [] OTHER           -> TRUE

Clamp(d) == IF d < 0 THEN 0 ELSE d

\* What Validate makes of the request before the limits are checked: no channel
\* without threads, no closing times without premium or when they are disabled,
\* a default for every colour.
Normal(f, v) ==
    CASE f = "settings" -> [v EXCEPT !.channel = IF v.useThreads THEN @ ELSE None]
      [] f = "autoClose" ->
           LET days(d) == IF tier # "none" /\ v.enabled THEN Clamp(d) ELSE 0
           IN  [enabled |-> v.enabled, sinceOpen |-> days(v.sinceOpen), sinceLast |-> days(v.sinceLast),
                onLeave |-> v.onLeave /\ v.enabled]
      [] f = "colours" ->
           [c \in DOMAIN v \union {"green", "red"} |-> IF c \in DOMAIN v THEN v[c] ELSE "default"]
      [] OTHER -> v

\* What each of the detached writes checks first; the answer tells.
ValidFlag(f, v) ==
    CASE f = "welcome"  -> v = "text"
      [] f = "limit"    -> v \in 1 .. 10
      [] f = "archive"  -> v \in {None, "text"}
      [] f = "category" -> v = "category"
      [] f = "naming"   -> v \in {"id", "username"}
      [] OTHER          -> TRUE

\* Colours are written for a guild with premium only.
Writes(f, v) == ValidFlag(f, v) /\ (f = "colours" => tier # "none")
----
(* UpdateSettings *)

Updating == {h \in Handlers : req[h].op = "UpdateSettings"}
Quiet == Updating = {} /\ pending = {}

\* The settings are bound and validated against the panels, read in one call.
\* A request that is refused is not seen here.
ValidateSettings(h, asked) ==
    LET v == Normal(about, asked) IN
    /\ req[h] = Idle /\ requests < MaxRequests
    /\ Acceptable(about, v)
    /\ req' = [g \in Handlers |->
                 IF g = h THEN [op |-> "UpdateSettings", at |-> "write", value |-> v, alone |-> Quiet,
                                id |-> requests]
                 ELSE IF g \in Updating THEN [req[g] EXCEPT !.alone = FALSE] ELSE req[g]]
    /\ latest' = (IF Quiet THEN {stored} ELSE latest) \union (IF Writes(about, v) THEN {v} ELSE {})
    /\ raced' = (raced \/ \E g \in Handlers : req[g].op \in {"CreatePanel", "UpdatePanel"})
    /\ requests' = requests + 1
    /\ UNCHANGED <<about, stored, row, tier, pending, lost>>

At(h, op, at) == req[h].op = op /\ req[h].at = at

\* The group's write of the table that is followed, if it is one of the group's.
WriteWaited(h) ==
    /\ At(h, "UpdateSettings", "write")
    /\ stored' = IF about \in Waited /\ Writes(about, req[h].value) THEN req[h].value ELSE stored
    /\ req' = [req EXCEPT ![h].at = "answer"]
    /\ UNCHANGED <<about, row, tier, pending, latest, raced, lost, requests>>

\* A write of the group fails, this one or another: the answer is an error, what
\* was written stays, and the detached writes are not begun.
GroupFails(h) ==
    /\ req[h].op = "UpdateSettings"
    /\ req' = [req EXCEPT ![h] = Idle]
    /\ UNCHANGED <<about, stored, row, tier, pending, latest, raced, lost, requests>>

\* group.Wait returns, the detached writes are begun, and the answer goes out.
Answer(h) ==
    LET r == req[h]
        writes == Writes(about, r.value)
    IN
    /\ At(h, "UpdateSettings", "answer")
    /\ pending' = pending \union (IF about \in Detached /\ writes
                                  THEN {[of |-> r.id, value |-> r.value]} ELSE {})
    /\ latest' = IF r.alone /\ writes THEN {r.value} ELSE latest
    /\ req' = [req EXCEPT ![h] = Idle]
    /\ UNCHANGED <<about, stored, row, tier, raced, lost, requests>>

\* A plausible bug: the write runs under the request's context, which has ended.
DetachedWriteCancelled(w) ==
    /\ w \in pending
    /\ pending' = pending \ {w}
    /\ UNCHANGED <<about, stored, row, tier, req, latest, raced, lost, requests>>

\* A detached write arrives, in no order.
DetachedWrite(w) ==
    /\ w \in pending
    /\ stored' = w.value
    /\ pending' = pending \ {w}
    /\ UNCHANGED <<about, row, tier, req, latest, raced, lost, requests>>

\* It fails, and nobody looks at the error.
DetachedWriteFails(w) ==
    /\ w \in pending
    /\ pending' = pending \ {w}
    /\ lost' = TRUE
    /\ UNCHANGED <<about, stored, row, tier, req, latest, raced, requests>>
----
(* CreatePanel and UpdatePanel, as far as their rows (PanelMessages has the rest) *)

GlobalChannel == IF about = "settings" THEN stored.channel ELSE None

\* A vote counts as premium when a panel is updated, not when one is created.
PanelPremium(op) == tier = "premium" \/ (op = "UpdatePanel" /\ tier = "vote")

\* Defaults and validators; an update needs the panel's row.
ValidatePanel(h, op, p, b) ==
    LET d == Defaults(b) IN
    /\ about = "settings" /\ req[h] = Idle /\ requests < MaxRequests
    /\ op = "UpdatePanel" <=> p \in Stored
    /\ op = "CreatePanel" => \A g \in Handlers : req[g].op = "CreatePanel" => req[g].panel # p
    /\ Accepts(d, PanelPremium(op), GlobalChannel) /\ ValidMentions(d)
    /\ req' = [req EXCEPT ![h] = [op |-> op, at |-> "store", panel |-> p, body |-> Normalised(d)]]
    /\ raced' = (raced \/ Updating # {})
    /\ requests' = requests + 1
    /\ UNCHANGED <<about, stored, row, tier, pending, latest, lost>>

\* The transaction that writes the panel and all that belongs to it.
StorePanel(h) ==
    LET r == req[h] IN
    /\ r.op \in {"CreatePanel", "UpdatePanel"}
    /\ row' = [row EXCEPT ![r.panel] =
                 IF r.op = "CreatePanel" THEN CreatedRow(r.body) ELSE UpdatedRow(r.body)]
    /\ req' = [req EXCEPT ![h] = Idle]
    /\ UNCHANGED <<about, stored, tier, pending, latest, raced, lost, requests>>

\* Sending the message or storing the row fails.
PanelFails(h) ==
    /\ req[h].op \in {"CreatePanel", "UpdatePanel"}
    /\ req' = [req EXCEPT ![h] = Idle]
    /\ UNCHANGED <<about, stored, row, tier, pending, latest, raced, lost, requests>>

UpdateSettings(h) ==
    \/ about # "hours" /\ \E v \in Asked[about] : ValidateSettings(h, v)
    \/ WriteWaited(h) \/ GroupFails(h) \/ Answer(h)

ChangePanel(h) ==
    \/ \E op \in {"CreatePanel", "UpdatePanel"}, p \in Panels, b \in Bodies : ValidatePanel(h, op, p, b)
    \/ StorePanel(h) \/ PanelFails(h)

SettingsNext ==
    \/ \E h \in Handlers : UpdateSettings(h) \/ ChangePanel(h)
    \/ \E w \in pending : DetachedWrite(w) \/ DetachedWriteFails(w)
----
SettingsTypeOK ==
    /\ about \in Waited \union Detached \union {"hours"}
    /\ about # "hours" => stored \in Asked[about] \union {Unset[about]} \/ about = "colours"
    /\ \A p \in Stored : ReadBack(row[p]) \in Body /\ (row[p].notify # None => row[p].useThreads)
    /\ \A h \in Handlers :
         req[h].op \in {"idle", "UpdateSettings", "CreatePanel", "UpdatePanel", "SetSupportHours",
                        "DeleteSupportHours"}

\* No panel in thread mode is ever left without a channel to notify: "Check if
\* any panels depend on global thread mode before disabling it" (Validate) and
\* "check global setting exists" (validateTicketNotificationChannel) guard each
\* other, unless one is passed while a request of the other kind is under way.
ThreadPanelsHaveChannel ==
    ~raced => \A p \in Stored : DependsOnGlobal(p) => GlobalChannel # None

\* What ListPanels fills the form with can be saved as it is, and saving it
\* changes nothing: whatever CreatePanel or UpdatePanel stored, defaults and all,
\* passes UpdatePanel's validators and becomes the same row, as long as the
\* guild's thread mode was not changed beside it.
StoredPanelsCanBeSaved ==
    ~raced => \A p \in Stored :
      LET b == Defaults(ReadBack(row[p])) IN
      /\ Accepts(b, PanelPremium("UpdatePanel"), GlobalChannel) /\ ValidMentions(b)
      /\ UpdatedRow(Normalised(b)) = row[p]

\* Detached or not, when no write is under way a table has a value of the last
\* requests: of the last one, if it was answered and overlapped no other; else
\* of one of those that overlapped, or what was there before them.  Only a
\* detached write that fails unseen breaks this.
SettingsComeFromLastRequests == Quiet /\ ~lost => stored \in latest
====
