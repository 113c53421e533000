---- MODULE PanelMessages ----
(***************************************************************************)
(* Panels and multi-panels: rows in Postgres, each with a message on       *)
(* Discord, kept together by the handlers of                               *)
(* app/http/endpoints/api/panel.  Gin runs every request on a goroutine of *)
(* its own and nothing locks a panel, so the database and Discord calls of *)
(* requests interleave freely.  Each call is one step here.                *)
(***************************************************************************)
EXTENDS Naturals, Sequences, FiniteSets

CONSTANTS
    Panels,         \* panels, by custom id (drawn before the message is sent)
    Multis,         \* multi-panels
    Channels,
    Handlers,       \* request goroutines
    FreePanelLimit, \* freePanelLimit
    MultiLimit,     \* "Only update 5 multi-panels maximum: Prevent DoS"
    MaxRequests,    \* bound: requests
    MaxFaults       \* bound: requests that fail half way, and errors swallowed

ASSUME PanelMessagesAssumption ==
    /\ Panels \intersect Multis = {} /\ IsFiniteSet(Panels) /\ IsFiniteSet(Multis)
    /\ FreePanelLimit \in Nat /\ MultiLimit \in Nat
    /\ MaxRequests \in Nat /\ MaxFaults \in Nat

VARIABLES
    stored, row,            \* the panels table
    mstored, mrow, targets, \* multi_panels and multi_panel_targets
    embeds, nextEmbed,      \* the embeds table, and its serial
    live,                   \* external: our messages on Discord
    sentBy,                 \* whose each message id is, in order of sending
    premium,                \* the guild's tier is above None
    req,                    \* the request each handler is serving
    raced, faults, requests \* requests that overlapped on an object, and counts

panelTable == <<stored, row>>
multiTable == <<mstored, mrow, targets>>
embedTable == <<embeds, nextEmbed>>
discord    == <<live, sentBy>>
book       == <<premium, raced, faults, requests>>
vars == <<panelTable, multiTable, embedTable, discord, book, req>>

Objects == Panels \union Multis
PanelOps == {"CreatePanel", "UpdatePanel", "ResendPanel", "DeletePanel"}
MultiOps == {"MultiPanelCreate", "MultiPanelUpdate", "MultiPanelResend", "MultiPanelDelete"}

NoRow  == [chan |-> 0, msg |-> 0, embed |-> 0]
NoMRow == [chan |-> 0, msg |-> 0]
Idle   == [op |-> "idle", at |-> "idle", on |-> 0, chan |-> 0, panels |-> {}, welcome |-> FALSE,
           old |-> NoRow, mold |-> <<>>, msg |-> 0, embed |-> 0, todo |-> {}, list |-> {}]

Row == [chan : Channels \union {0}, msg : Nat, embed : Nat]

TypeOK ==
    /\ stored \subseteq Panels /\ row \in [Panels -> Row]
    /\ mstored \subseteq Multis
    /\ mrow \in [Multis -> [chan : Channels \union {0}, msg : Nat]]
    /\ targets \in [Multis -> SUBSET Panels]
    /\ embeds \subseteq Nat /\ nextEmbed \in Nat
    /\ live \subseteq [id : Nat, chan : Channels, of : Objects, shows : SUBSET Panels]
    /\ sentBy \in Seq(Objects)
    /\ premium \in BOOLEAN /\ raced \subseteq Objects
    /\ faults \in Nat /\ requests \in Nat
    /\ \A h \in Handlers : req[h].op \in PanelOps \union MultiOps \union {"idle"}

\* The panels P and the multi-panels M over them stand in c, and their messages
\* were sent in the order of ids.
Posted(P, M, c, ids) ==
    LET Id(o) == CHOOSE i \in DOMAIN ids : ids[i] = o IN
    /\ sentBy = ids
    /\ stored = P /\ mstored = M
    /\ row = [p \in Panels |-> IF p \in P THEN [chan |-> c, msg |-> Id(p), embed |-> 0] ELSE NoRow]
    /\ mrow = [m \in Multis |-> IF m \in M THEN [chan |-> c, msg |-> Id(m)] ELSE NoMRow]
    /\ targets = [m \in Multis |-> IF m \in M THEN P ELSE {}]
    /\ live = {[id |-> Id(o), chan |-> c, of |-> o, shows |-> IF o \in M THEN P ELSE {o}] :
               o \in P \union M}

\* Some panels exist with a message each and, when there are enough of them, a
\* multi-panel over them may exist too.
Init ==
    /\ \E P \in SUBSET Panels : \E M \in SUBSET Multis : \E c \in Channels :
         /\ M # {} => Cardinality(P) >= 2
         /\ \E ids \in [1 .. Cardinality(P \union M) -> P \union M] :
              /\ \A o \in P \union M : \E i \in DOMAIN ids : ids[i] = o
              /\ Posted(P, M, c, ids)
    /\ embeds = {} /\ nextEmbed = 1
    /\ premium \in BOOLEAN
    /\ raced = {} /\ faults = 0 /\ requests = 0
    /\ req = [h \in Handlers |-> Idle]
----
(* Requests *)

\* What a request may write: its own object and, when a panel is updated or
\* deleted, the multi-panels.
Touches(r) ==
    IF r.op = "idle" THEN {}
    ELSE {r.on} \union (IF r.op \in {"UpdatePanel", "DeletePanel"} THEN Multis ELSE {})

\* h goes on with the fields of its request that `new` overrides.
With(r, new) == [f \in DOMAIN r |-> IF f \in DOMAIN new THEN new[f] ELSE r[f]]
GoOn(h, new) == req' = [req EXCEPT ![h] = With(@, new)]
Goto(h, at) == GoOn(h, [at |-> at])
At(h, op, at) == req[h].op = op /\ req[h].at = at
Finish(h) == req' = [req EXCEPT ![h] = Idle]

\* A request arrives and is given to an idle handler.  `panels` are the
\* sub-panels of a multi-panel request, `welcome` a panel's welcome message.
Request(h, op, o, c, P, w) ==
    /\ req[h] = Idle
    /\ requests < MaxRequests
    /\ LET r == With(Idle, [op |-> op, at |-> "load", on |-> o, chan |-> c, panels |-> P,
                            welcome |-> w])
       IN  /\ req' = [req EXCEPT ![h] = r]
           /\ raced' = raced \union UNION {Touches(r) \intersect Touches(req[g]) : g \in Handlers}
    /\ requests' = requests + 1
    /\ UNCHANGED <<panelTable, multiTable, embedTable, discord, premium, faults>>

\* Any call of a handler may fail, or its caller's context may end: it answers
\* with an error and returns, and what it has done stays done.  This is also
\* CreatePanel's answer to an invalid mention, which it reads after it has sent
\* the message.
Fail(h) ==
    /\ req[h] # Idle
    /\ faults < MaxFaults
    /\ faults' = faults + 1
    /\ Finish(h)
    /\ UNCHANGED <<panelTable, multiTable, embedTable, discord, premium, raced, requests>>

\* CreateMessage succeeds: h's new message of object o in channel c.
Send(h, o, c, shows, at) ==
    LET id == Len(sentBy) + 1 IN
    /\ sentBy' = Append(sentBy, o)
    /\ live' = live \union {[id |-> id, chan |-> c, of |-> o, shows |-> shows]}
    /\ GoOn(h, [msg |-> id, at |-> at])

\* CreateMessage is done by Discord but its answer is lost, and h returns.
SendLost(h, o, c, shows) ==
    /\ faults < MaxFaults
    /\ faults' = faults + 1
    /\ sentBy' = Append(sentBy, o)
    /\ live' = live \union {[id |-> Len(sentBy) + 1, chan |-> c, of |-> o, shows |-> shows]}
    /\ Finish(h)

IsLive(c, id) == \E x \in live : x.chan = c /\ x.id = id

\* DeleteMessage, when it is done and when the message is gone already.
DeleteMessage(c, id) ==
    /\ live' = {x \in live : ~(x.chan = c /\ x.id = id)}
    /\ UNCHANGED sentBy

\* EditMessage replaces the buttons of a message.
EditMessage(c, id, shows) ==
    /\ live' = {IF x.chan = c /\ x.id = id THEN With(x, [shows |-> shows]) ELSE x : x \in live}
    /\ UNCHANGED sentBy
----
(* Panels *)

\* GetById, and the answers that follow from it at once.
LoadPanel(h) ==
    /\ req[h].at = "load" /\ req[h].op \in {"UpdatePanel", "ResendPanel", "DeletePanel"}
    /\ IF req[h].on \in stored
       THEN GoOn(h, [old |-> row[req[h].on], at |-> IF req[h].op = "DeletePanel" THEN "multis" ELSE "old"])
       ELSE Finish(h)
    /\ UNCHANGED <<panelTable, multiTable, embedTable, discord, book>>

\* CreatePanel's quota check.
CheckQuota(h) ==
    /\ At(h, "CreatePanel", "load")
    /\ IF premium \/ Cardinality(stored) < FreePanelLimit THEN Goto(h, "send") ELSE Finish(h)
    /\ UNCHANGED <<panelTable, multiTable, embedTable, discord, book>>

\* ResendPanel deletes the old message.  UpdatePanel does so when the channel
\* changes, and else edits it in place, to send a new one only if it is gone.
OldMessage(h) ==
    LET r == req[h] IN
    /\ r.at = "old" /\ r.op \in {"UpdatePanel", "ResendPanel"}
    /\ IF r.op = "ResendPanel" \/ r.old.chan # r.chan
       THEN DeleteMessage(r.old.chan, r.old.msg) /\ Goto(h, "send")
       ELSE /\ UNCHANGED discord
            /\ IF IsLive(r.old.chan, r.old.msg)
               THEN GoOn(h, [msg |-> r.old.msg, at |-> "embed"])
               ELSE Goto(h, "send")
    /\ UNCHANGED <<panelTable, multiTable, embedTable, book>>

\* The delete fails, and the handler goes on: UpdatePanel ignores every error,
\* ResendPanel all but a server error.
OldMessageStays(h) ==
    LET r == req[h] IN
    /\ r.at = "old" /\ (r.op = "ResendPanel" \/ (r.op = "UpdatePanel" /\ r.old.chan # r.chan))
    /\ faults < MaxFaults /\ faults' = faults + 1
    /\ Goto(h, "send")
    /\ UNCHANGED <<panelTable, multiTable, embedTable, discord, premium, raced, requests>>

PanelChan(r) == IF r.op = "ResendPanel" THEN r.old.chan ELSE r.chan
AfterSend(r) == IF r.op = "ResendPanel" THEN "record" ELSE "embed"

SendPanel(h) ==
    LET r == req[h] IN
    /\ r.at = "send" /\ r.op \in {"CreatePanel", "UpdatePanel", "ResendPanel"}
    /\ \/ Send(h, r.on, PanelChan(r), {r.on}, AfterSend(r)) /\ UNCHANGED faults
       \/ SendLost(h, r.on, PanelChan(r), {r.on})
    /\ UNCHANGED <<panelTable, multiTable, embedTable, premium, raced, requests>>

\* UpdatePanel swallows a 404 from the new channel and goes on without a message.
SendToMissingChannel(h) ==
    /\ At(h, "UpdatePanel", "send") /\ req[h].old.chan # req[h].chan
    /\ faults < MaxFaults /\ faults' = faults + 1
    /\ GoOn(h, [msg |-> 0, at |-> "embed"])
    /\ UNCHANGED <<panelTable, multiTable, embedTable, discord, premium, raced, requests>>

\* Panel.UpdateMessageId.
RecordResent(h) ==
    /\ At(h, "ResendPanel", "record")
    /\ row' = IF req[h].on \in stored
              THEN [row EXCEPT ![req[h].on] = With(@, [msg |-> req[h].msg])] ELSE row
    /\ Finish(h)
    /\ UNCHANGED <<stored, multiTable, embedTable, discord, book>>

\* The welcome message: Embeds.Delete, CreateWithFields, or UpdateWithFields.
WriteEmbed(h) ==
    LET r == req[h] IN
    /\ r.at = "embed" /\ r.op \in {"CreatePanel", "UpdatePanel"}
    /\ embeds' = IF ~r.welcome THEN embeds \ {r.old.embed}
                 ELSE IF r.old.embed = 0 THEN embeds \union {nextEmbed} ELSE embeds
    /\ nextEmbed' = IF r.welcome /\ r.old.embed = 0 THEN nextEmbed + 1 ELSE nextEmbed
    /\ GoOn(h, [at |-> "store", embed |-> IF ~r.welcome THEN 0
                                          ELSE IF r.old.embed = 0 THEN nextEmbed ELSE r.old.embed])
    /\ UNCHANGED <<panelTable, multiTable, discord, book>>

\* A plausible bug: the row keeps the message id that was read.
StoredRowOldMessage(r) == [chan |-> r.chan, msg |-> r.old.msg, embed |-> r.embed]

\* The whole row, as the transactions of CreatePanel and UpdatePanel write it.
StoredRow(r) == [chan |-> r.chan, msg |-> r.msg, embed |-> r.embed]

\* storePanel: the row and all that belongs to it, in one transaction.
CreateRow(h) ==
    LET r == req[h] IN
    /\ At(h, "CreatePanel", "store")
    /\ stored' = stored \union {r.on}
    /\ row' = [row EXCEPT ![r.on] = StoredRow(r)]
    /\ Finish(h)
    /\ UNCHANGED <<multiTable, embedTable, discord, book>>

\* The transaction that writes every column; an update of a deleted row is lost.
UpdateRow(h) ==
    LET r == req[h] IN
    /\ At(h, "UpdatePanel", "store")
    /\ row' = IF r.on \in stored THEN [row EXCEPT ![r.on] = StoredRow(r)] ELSE row
    /\ Goto(h, "multis")
    /\ UNCHANGED <<stored, multiTable, embedTable, discord, book>>
----
(* The multi-panels of a panel that was updated or is deleted *)

\* GetMultiPanels; at most MultiLimit of them are brought up to date.
LoadMultis(h) ==
    LET r == req[h]
        M == {m \in mstored : r.on \in targets[m]}
    IN
    /\ r.at = "multis"
    /\ \E T \in SUBSET M :
         /\ Cardinality(T) = (IF Cardinality(M) < MultiLimit THEN Cardinality(M) ELSE MultiLimit)
         /\ GoOn(h, [todo |-> T, mold |-> [m \in T |-> mrow[m]],
                     at |-> IF r.op = "DeletePanel" THEN "delete" ELSE "next"])
    /\ UNCHANGED <<panelTable, multiTable, embedTable, discord, book>>

\* Embeds.Delete and Panel.Delete, whose foreign keys remove the targets.
DeleteEmbed(h) ==
    /\ At(h, "DeletePanel", "delete")
    /\ embeds' = embeds \ {req[h].old.embed}
    /\ Goto(h, "deleteRow")
    /\ UNCHANGED <<panelTable, multiTable, nextEmbed, discord, book>>

DeleteRow(h) ==
    /\ At(h, "DeletePanel", "deleteRow")
    /\ stored' = stored \ {req[h].on}
    /\ row' = [row EXCEPT ![req[h].on] = NoRow]
    /\ targets' = [m \in Multis |-> targets[m] \ {req[h].on}]
    /\ Goto(h, "deleteMessage")
    /\ UNCHANGED <<mstored, mrow, embedTable, discord, book>>

DeletePanelMessage(h) ==
    /\ At(h, "DeletePanel", "deleteMessage")
    /\ DeleteMessage(req[h].old.chan, req[h].old.msg)
    /\ Goto(h, "next")
    /\ UNCHANGED <<panelTable, multiTable, embedTable, book>>

\* GetPanels for the next multi-panel, or the end of the loop.
NextMulti(h) ==
    LET r == req[h] IN
    /\ r.at = "next"
    /\ IF r.todo = {} THEN Finish(h)
       ELSE \E m \in r.todo :
              GoOn(h, [todo |-> r.todo \ {m}, list |-> targets[m], panels |-> {m},
                       at |-> IF r.op = "DeletePanel" THEN "sendMulti" ELSE "editMulti"])
    /\ UNCHANGED <<panelTable, multiTable, embedTable, discord, book>>

\* The multi-panel of the loop, and the row of it that was read before the loop.
Multi(r) == CHOOSE m \in r.panels : TRUE
OldMulti(r) == r.mold[Multi(r)]

EditMulti(h) ==
    LET r == req[h] IN
    /\ r.at = "editMulti"
    /\ IF IsLive(OldMulti(r).chan, OldMulti(r).msg)
       THEN EditMessage(OldMulti(r).chan, OldMulti(r).msg, r.list) /\ Goto(h, "next")
       ELSE Goto(h, "sendMulti") /\ UNCHANGED discord
    /\ UNCHANGED <<panelTable, multiTable, embedTable, book>>

SendMulti(h) ==
    LET r == req[h] IN
    /\ r.at = "sendMulti"
    /\ \/ Send(h, Multi(r), OldMulti(r).chan, r.list, "recordMulti") /\ UNCHANGED faults
       \/ SendLost(h, Multi(r), OldMulti(r).chan, r.list)
       \* DeletePanel swallows a client error, and leaves the old message as it is
       \/ /\ r.op = "DeletePanel" /\ faults < MaxFaults /\ faults' = faults + 1
          /\ Goto(h, "next") /\ UNCHANGED discord
    /\ UNCHANGED <<panelTable, multiTable, embedTable, premium, raced, requests>>

\* MultiPanels.UpdateMessageId, from the two loops and from MultiPanelResend.
SetMultiMessage(m, id) ==
    mrow' = IF m \in mstored THEN [mrow EXCEPT ![m] = With(@, [msg |-> id])] ELSE mrow

\* A plausible bug: the panel's message id is recorded for the multi-panel.
RecordMultiPanelMessage(h) ==
    LET r == req[h] IN
    /\ r.at = "recordMulti"
    /\ SetMultiMessage(Multi(r), r.old.msg)
    /\ Goto(h, IF r.op = "DeletePanel" THEN "deleteMulti" ELSE "next")
    /\ UNCHANGED <<panelTable, mstored, targets, embedTable, discord, book>>

RecordMulti(h) ==
    LET r == req[h] IN
    /\ r.at = "recordMulti"
    /\ SetMultiMessage(Multi(r), r.msg)
    /\ Goto(h, IF r.op = "DeletePanel" THEN "deleteMulti" ELSE "next")
    /\ UNCHANGED <<panelTable, mstored, targets, embedTable, discord, book>>

\* A plausible bug: the row is read again, and holds the new message by now.
DeleteMultiCurrent(h) ==
    /\ req[h].at = "deleteMulti"
    /\ DeleteMessage(mrow[Multi(req[h])].chan, mrow[Multi(req[h])].msg)
    /\ Goto(h, "next")
    /\ UNCHANGED <<panelTable, multiTable, embedTable, book>>

\* The old message of the multi-panel, as it was read before the loop; an error
\* is ignored and the message stays.
DeleteMulti(h) ==
    LET r == req[h] IN
    /\ r.at = "deleteMulti"
    /\ \/ DeleteMessage(OldMulti(r).chan, OldMulti(r).msg) /\ UNCHANGED faults
       \/ faults < MaxFaults /\ faults' = faults + 1 /\ UNCHANGED discord
    /\ Goto(h, "next")
    /\ UNCHANGED <<panelTable, multiTable, embedTable, premium, raced, requests>>
----
(* Multi-panels *)

\* doValidations with validatePanels.
ValidPanels(P) == P \subseteq stored /\ Cardinality(P) >= 2

\* MultiPanels.Get, and the answers that follow from it and the body at once.
LoadMulti(h) ==
    LET r == req[h] IN
    /\ r.at = "load" /\ r.op \in MultiOps
    /\ IF /\ r.op # "MultiPanelCreate" => r.on \in mstored
          /\ r.op \in {"MultiPanelCreate", "MultiPanelUpdate"} => ValidPanels(r.panels)
       THEN GoOn(h, [mold |-> mrow, list |-> r.panels,
                     at |-> IF r.op = "MultiPanelCreate" THEN "sendOwn" ELSE "oldOwn"])
       ELSE Finish(h)
    /\ UNCHANGED <<panelTable, multiTable, embedTable, discord, book>>

\* A plausible bug: the branch of a changed channel deletes and does not send.
AfterDeleteNoSend(op) ==
    CASE op \in {"MultiPanelUpdate", "MultiPanelDelete"} -> "storeOwn"
      [] op = "MultiPanelResend" -> "listOwn"

\* Where each request goes on once the old message is dealt with.
AfterDelete(op) ==
    CASE op = "MultiPanelUpdate" -> "sendOwn"
      [] op = "MultiPanelResend" -> "listOwn"
      [] op = "MultiPanelDelete" -> "storeOwn"

\* The old message: MultiPanelDelete and MultiPanelResend delete it, and
\* MultiPanelUpdate does what UpdatePanel does with its own.
OldMultiMessage(h) ==
    LET r == req[h]
        old == r.mold[r.on]
    IN
    /\ r.at = "oldOwn"
    /\ CASE r.op = "MultiPanelUpdate" /\ old.chan = r.chan ->
              IF IsLive(old.chan, old.msg)
              THEN /\ EditMessage(old.chan, old.msg, r.list)
                   /\ GoOn(h, [msg |-> old.msg, at |-> "storeOwn"])
              ELSE Goto(h, "sendOwn") /\ UNCHANGED discord
         [] OTHER ->
              /\ DeleteMessage(old.chan, old.msg)
              /\ Goto(h, AfterDelete(r.op))
    /\ UNCHANGED <<panelTable, multiTable, embedTable, book>>

\* The delete fails and the handler goes on, as it does after a client error.
OldMultiMessageStays(h) ==
    LET r == req[h] IN
    /\ r.at = "oldOwn" /\ ~(r.op = "MultiPanelUpdate" /\ r.mold[r.on].chan = r.chan)
    /\ faults < MaxFaults /\ faults' = faults + 1
    /\ Goto(h, AfterDelete(r.op))
    /\ UNCHANGED <<panelTable, multiTable, embedTable, discord, premium, raced, requests>>

\* GetPanels in MultiPanelResend.
ListOwn(h) ==
    /\ At(h, "MultiPanelResend", "listOwn")
    /\ GoOn(h, [list |-> targets[req[h].on], at |-> "sendOwn"])
    /\ UNCHANGED <<panelTable, multiTable, embedTable, discord, book>>

SendOwn(h) ==
    LET r == req[h]
        c == IF r.op = "MultiPanelResend" THEN r.mold[r.on].chan ELSE r.chan
    IN
    /\ r.at = "sendOwn"
    /\ \/ Send(h, r.on, c, r.list, "storeOwn") /\ UNCHANGED faults
       \/ SendLost(h, r.on, c, r.list)
    /\ UNCHANGED <<panelTable, multiTable, embedTable, premium, raced, requests>>

\* MultiPanels.Create.
CreateMultiRow(h) ==
    LET r == req[h] IN
    /\ At(h, "MultiPanelCreate", "storeOwn")
    /\ mstored' = mstored \union {r.on}
    /\ mrow' = [mrow EXCEPT ![r.on] = [chan |-> r.chan, msg |-> r.msg]]
    /\ Goto(h, "insert")
    /\ UNCHANGED <<panelTable, targets, embedTable, discord, book>>

\* MultiPanels.Update; an update of a deleted row is lost.
UpdateMultiRow(h) ==
    LET r == req[h] IN
    /\ At(h, "MultiPanelUpdate", "storeOwn")
    /\ mrow' = IF r.on \in mstored
               THEN [mrow EXCEPT ![r.on] = [chan |-> r.chan, msg |-> r.msg]] ELSE mrow
    /\ Goto(h, "clear")
    /\ UNCHANGED <<panelTable, mstored, targets, embedTable, discord, book>>

\* MultiPanels.UpdateMessageId in MultiPanelResend.
RecordResentMulti(h) ==
    /\ At(h, "MultiPanelResend", "storeOwn")
    /\ SetMultiMessage(req[h].on, req[h].msg)
    /\ Finish(h)
    /\ UNCHANGED <<panelTable, mstored, targets, embedTable, discord, book>>

\* MultiPanels.Delete, whose foreign key removes the targets.
DeleteMultiRow(h) ==
    LET r == req[h] IN
    /\ At(h, "MultiPanelDelete", "storeOwn")
    /\ mstored' = mstored \ {r.on}
    /\ mrow' = [mrow EXCEPT ![r.on] = NoMRow]
    /\ targets' = [targets EXCEPT ![r.on] = {}]
    /\ Finish(h)
    /\ UNCHANGED <<panelTable, embedTable, discord, book>>

\* MultiPanelTargets.DeleteAll.
ClearTargets(h) ==
    /\ At(h, "MultiPanelUpdate", "clear")
    /\ targets' = [targets EXCEPT ![req[h].on] = {}]
    /\ Goto(h, "insert")
    /\ UNCHANGED <<panelTable, mstored, mrow, embedTable, discord, book>>

\* A plausible bug: the arguments of Insert are swapped.
InsertTargetSwapped(h) ==
    LET r == req[h] IN
    /\ r.at = "insert"
    /\ IF r.list = {} THEN Finish(h) /\ UNCHANGED targets
       ELSE \E p \in r.list :
              /\ targets' = [targets EXCEPT ![r.on] = @ \union {r.on}]
              /\ GoOn(h, [list |-> r.list \ {p}])
    /\ UNCHANGED <<panelTable, mstored, mrow, embedTable, discord, book>>

\* One of the concurrent MultiPanelTargets.Insert calls; one for a panel or a
\* multi-panel that has been deleted is refused by its foreign key.
InsertTarget(h) ==
    LET r == req[h] IN
    /\ r.at = "insert"
    /\ IF r.list = {} THEN Finish(h) /\ UNCHANGED targets
       ELSE \E p \in r.list :
              /\ targets' = IF p \in stored /\ r.on \in mstored
                            THEN [targets EXCEPT ![r.on] = @ \union {p}] ELSE targets
              /\ GoOn(h, [list |-> r.list \ {p}])
    /\ UNCHANGED <<panelTable, mstored, mrow, embedTable, discord, book>>
----
NewRequest(h) ==
    \/ \E p \in Panels, c \in Channels, w \in BOOLEAN :
         \/ /\ p \notin stored /\ \A g \in Handlers : req[g].on # p
            /\ \A i \in 1 .. Len(sentBy) : sentBy[i] # p
            /\ Request(h, "CreatePanel", p, c, {}, w)
         \/ Request(h, "UpdatePanel", p, c, {}, w)
    \/ \E p \in Panels : \E op \in {"ResendPanel", "DeletePanel"} :
         Request(h, op, p, 0, {}, FALSE)
    \/ \E m \in Multis, c \in Channels, P \in SUBSET Panels :
         \/ /\ m \notin mstored /\ \A g \in Handlers : req[g].on # m
            /\ \A i \in 1 .. Len(sentBy) : sentBy[i] # m
            /\ Request(h, "MultiPanelCreate", m, c, P, FALSE)
         \/ Request(h, "MultiPanelUpdate", m, c, P, FALSE)
    \/ \E m \in Multis : \E op \in {"MultiPanelResend", "MultiPanelDelete"} :
         Request(h, op, m, 0, {}, FALSE)

PanelStep(h) ==
    \/ LoadPanel(h) \/ CheckQuota(h) \/ OldMessage(h) \/ OldMessageStays(h) \/ SendPanel(h)
    \/ SendToMissingChannel(h) \/ RecordResent(h) \/ WriteEmbed(h) \/ CreateRow(h) \/ UpdateRow(h)
    \/ LoadMultis(h) \/ DeleteEmbed(h) \/ DeleteRow(h) \/ DeletePanelMessage(h)
    \/ NextMulti(h) \/ EditMulti(h) \/ SendMulti(h) \/ RecordMulti(h) \/ DeleteMulti(h)

MultiStep(h) ==
    \/ LoadMulti(h) \/ OldMultiMessage(h) \/ OldMultiMessageStays(h) \/ ListOwn(h) \/ SendOwn(h)
    \/ CreateMultiRow(h) \/ UpdateMultiRow(h) \/ RecordResentMulti(h) \/ DeleteMultiRow(h)
    \/ ClearTargets(h) \/ InsertTarget(h)

Next == \E h \in Handlers : NewRequest(h) \/ PanelStep(h) \/ MultiStep(h) \/ Fail(h)

Spec == Init /\ [][Next]_vars
----
Own(o)  == {x \in live : x.of = o}
Busy(o) == \E h \in Handlers : o \in Touches(req[h])

\* Once its requests are done, and when none overlapped and none failed half way,
\* a panel's row names its only message, a deleted panel has no message, and a
\* welcome message is stored for exactly the panels that have one.
SettledPanels ==
    faults = 0 =>
      /\ \A p \in Panels \ raced : ~Busy(p) =>
           Own(p) = IF p \in stored
                    THEN {[id |-> row[p].msg, chan |-> row[p].chan, of |-> p, shows |-> {p}]}
                    ELSE {}
      /\ raced = {} /\ ~(\E o \in Objects : Busy(o)) =>
           embeds = {row[p].embed : p \in stored} \ {0}

\* The same of multi-panels, whose one message offers exactly the panels that
\* are its targets: "Update all multi panels messages to remove the button".
SettledMultis ==
    faults = 0 =>
      \A m \in Multis \ raced : ~Busy(m) =>
        Own(m) = IF m \in mstored
                 THEN {[id |-> mrow[m].msg, chan |-> mrow[m].chan, of |-> m, shows |-> targets[m]]}
                 ELSE {}

\* However requests overlap, as long as none fails half way every stored panel
\* and multi-panel keeps a message that users can press: whoever deletes a
\* message has sent, or will send, a newer one of the same object.
KeepsAMessage ==
    faults = 0 =>
      \A o \in stored \union mstored : ~Busy(o) => Own(o) # {}

\* However requests overlap and fail, a row never names another object's message.
RowNamesOwnMessage ==
    /\ \A p \in stored : row[p].msg # 0 => sentBy[row[p].msg] = p
    /\ \A m \in mstored : mrow[m].msg # 0 => sentBy[mrow[m].msg] = m
====
