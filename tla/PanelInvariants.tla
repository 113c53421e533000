---- MODULE PanelInvariants ----
(***************************************************************************)
(* The inductive invariants of PanelMessages, which its proofs rest on.    *)
(***************************************************************************)
EXTENDS PanelMessages

(* Types: where a handler can be, and what it has there. *)

MRow    == [chan : Channels \union {0}, msg : Nat]
Molds   == UNION {[D -> MRow] : D \in SUBSET Multis}
Message == [id : Nat, chan : Channels, of : Objects, shows : SUBSET Panels]
Ops     == PanelOps \union MultiOps \union {"idle"}
Places  == {"idle", "load", "old", "send", "record", "embed", "store", "multis", "delete",
            "deleteRow", "deleteMessage", "next", "editMulti", "sendMulti", "recordMulti",
            "deleteMulti", "oldOwn", "listOwn", "sendOwn", "storeOwn", "clear", "insert"}
Reqs    == [op : Ops, at : Places, on : Objects \union {0}, chan : Channels \union {0},
            panels : SUBSET Objects, welcome : BOOLEAN, old : Row, mold : Molds, msg : Nat,
            embed : Nat, todo : SUBSET Multis, list : SUBSET Panels]

\* Where the handlers of each operation can be, and what they hold there.
InPlace(r) ==
    /\ r.op = "idle" => r = Idle
    /\ r.op = "CreatePanel" => r.at \in {"load", "send", "embed", "store"}
    /\ r.op = "UpdatePanel" => r.at \in {"load", "old", "send", "embed", "store", "multis", "next",
                                         "editMulti", "sendMulti", "recordMulti"}
    /\ r.op = "ResendPanel" => r.at \in {"load", "old", "send", "record"}
    /\ r.op = "DeletePanel" => r.at \in {"load", "multis", "delete", "deleteRow", "deleteMessage",
                                         "next", "sendMulti", "recordMulti", "deleteMulti"}
    /\ r.op = "MultiPanelCreate" => r.at \in {"load", "sendOwn", "storeOwn", "insert"}
    /\ r.op = "MultiPanelUpdate" => r.at \in {"load", "oldOwn", "sendOwn", "storeOwn", "clear", "insert"}
    /\ r.op = "MultiPanelResend" => r.at \in {"load", "oldOwn", "listOwn", "sendOwn", "storeOwn"}
    /\ r.op = "MultiPanelDelete" => r.at \in {"load", "oldOwn", "storeOwn"}
    /\ r.op \in PanelOps => r.on \in Panels
    /\ r.op \in MultiOps => r.on \in Multis

\* The channels it will send to, and the multi-panels it knows the rows of.
Equipped(r) ==
    /\ r.op \in {"CreatePanel", "UpdatePanel", "MultiPanelCreate", "MultiPanelUpdate"} =>
         r.chan \in Channels
    /\ r.op \in {"UpdatePanel", "ResendPanel", "DeletePanel"} /\ r.at # "load" =>
         r.old.chan \in Channels
    /\ r.op \in PanelOps => /\ r.todo \subseteq DOMAIN r.mold
                            /\ \A m \in DOMAIN r.mold : r.mold[m].chan \in Channels
    /\ r.op \in MultiOps => r.panels \subseteq Panels
    /\ r.op \in MultiOps /\ r.at # "load" => r.mold \in [Multis -> MRow]
    /\ r.op \in {"MultiPanelUpdate", "MultiPanelResend", "MultiPanelDelete"} /\ r.at # "load" =>
         r.mold[r.on].chan \in Channels
    /\ r.at \in {"editMulti", "sendMulti", "recordMulti", "deleteMulti"} =>
         \E m \in DOMAIN r.mold : r.panels = {m}

ReqInv ==
    /\ req \in [Handlers -> Reqs]
    /\ \A h \in Handlers : InPlace(req[h]) /\ Equipped(req[h])

PanelsOK ==
    /\ stored \subseteq Panels /\ row \in [Panels -> Row]
    /\ \A p \in stored : row[p].chan \in Channels

MultisOK ==
    /\ mstored \subseteq Multis /\ mrow \in [Multis -> MRow]
    /\ targets \in [Multis -> SUBSET Panels]
    /\ \A m \in mstored : mrow[m].chan \in Channels

EmbedsOK  == embeds \subseteq Nat /\ nextEmbed \in Nat
DiscordOK == live \subseteq Message /\ sentBy \in Seq(Objects)
BookOK    == premium \in BOOLEAN /\ raced \subseteq Objects /\ faults \in Nat /\ requests \in Nat

BaseInv == ReqInv /\ PanelsOK /\ MultisOK /\ EmbedsOK /\ DiscordOK /\ BookOK
----
(* Every message id a row or a handler holds is 0 or of the object it is held for. *)

Of(id, o) == id = 0 \/ (id \in 1 .. Len(sentBy) /\ sentBy[id] = o)

RowsOwn ==
    /\ \A p \in Panels : Of(row[p].msg, p)
    /\ \A m \in Multis : Of(mrow[m].msg, m)

HandlerOwn(r) ==
    /\ r.op \in PanelOps => Of(r.old.msg, r.on)
    /\ r.at \in {"embed", "store", "record"} \/ r.op \in MultiOps => Of(r.msg, r.on)
    /\ \A m \in DOMAIN r.mold : Of(r.mold[m].msg, m)
    /\ r.at = "recordMulti" => \A m \in DOMAIN r.mold : r.panels = {m} => Of(r.msg, m)

LiveOwn == \A x \in live : x.id \in 1 .. Len(sentBy) /\ sentBy[x.id] = x.of

HandlersOwn == \A h \in Handlers : HandlerOwn(req[h])

OwnInv == RowsOwn /\ LiveOwn /\ HandlersOwn
----
(* However requests overlap, whoever deletes the newest message of an object *)
(* has a newer one to send, as long as no request fails.                     *)

\* A handler that makes an object is the only one that has read anything of it.
Creating(r) == r.op \in {"CreatePanel", "MultiPanelCreate"} /\ r.at # "insert"

CreateInv ==
    \A h \in Handlers : Creating(req[h]) =>
       /\ req[h].on \notin stored \union mstored
       /\ \A g \in Handlers \ {h} : req[g].on = req[h].on =>
            req[g].at \in {"idle", "load"} /\ ~Creating(req[g])

\* DeletePanel deletes the message of a panel only once its row is gone.
RemoveInv ==
    \A h \in Handlers : req[h].at = "deleteMessage" => req[h].on \notin stored

\* DeletePanel deletes the message of a multi-panel only once it has sent a newer one.
Outdated(r) ==
    r.at \in {"recordMulti", "deleteMulti"} =>
      \A m \in DOMAIN r.mold : r.panels = {m} =>
        \E i \in 1 .. Len(sentBy) : sentBy[i] = m /\ r.mold[m].msg < i

OlderInv == \A h \in Handlers : Outdated(req[h])

\* h has loaded its object, or makes it.
Past(h) ==
    \/ req[h].at \notin {"idle", "load"}
    \/ req[h].on \in stored \union mstored
    \/ Creating(req[h])

\* The message of o that was sent last is there.
Newest(o) == \E x \in live : x.of = o /\ \A i \in 1 .. Len(sentBy) : sentBy[i] = o => i <= x.id

\* r has deleted the message of its object and will send another one or delete the row.
Due(r) ==
    \/ r.op \in {"UpdatePanel", "ResendPanel"} /\ r.at = "send"
    \/ r.op \in {"MultiPanelUpdate", "MultiPanelResend"} /\ r.at \in {"listOwn", "sendOwn"}
    \/ r.op = "MultiPanelDelete" /\ r.at = "storeOwn"

\* r has sent the message of an object that it will store.
Made(r) ==
    \/ r.op = "CreatePanel" /\ r.at \in {"embed", "store"}
    \/ r.op = "MultiPanelCreate" /\ r.at = "storeOwn"

KeepInv ==
    faults = 0 =>
      /\ \A o \in stored \union mstored :
           Newest(o) \/ \E h \in Handlers : req[h].on = o /\ Due(req[h])
      /\ \A h \in Handlers : Made(req[h]) => Newest(req[h].on)

FlowInv == CreateInv /\ RemoveInv /\ OlderInv /\ KeepInv
----
(* What requests leave behind that neither overlap nor fail: the rows and the *)
(* messages of Discord agree.                                                 *)

Msg(id, c, o, S) == [id |-> id, chan |-> c, of |-> o, shows |-> S]

On(h, o) == req[h].op # "idle" /\ req[h].on = o
Touched(h, o) == o \in Touches(req[h])

\* Two requests that could write the same object are known to.
Alone == \A g, h \in Handlers : g # h => Touches(req[g]) \intersect Touches(req[h]) \subseteq raced

\* A panel at rest has the one message of its row.
PanelRests(p) ==
    Own(p) = IF p \in stored THEN {Msg(row[p].msg, row[p].chan, p, {p})} ELSE {}

\* The places where its message is as the row says.
Untouched(r) ==
    \/ r.op \in {"UpdatePanel", "ResendPanel", "DeletePanel"} /\ r.at \in {"load", "old"}
    \/ r.at \in {"multis", "delete", "deleteRow", "next", "editMulti", "sendMulti", "recordMulti",
                 "deleteMulti"}

\* What a request that is alone at p has read of it and done to it.
PanelStage(r, p) ==
    /\ Untouched(r) => PanelRests(p)
    /\ r.op = "CreatePanel" => p \notin stored
    /\ r.op = "CreatePanel" /\ r.at \in {"load", "send"} => Own(p) = {}
    /\ r.op \in {"UpdatePanel", "ResendPanel"} /\ r.at \in {"old", "send", "embed", "store", "record"} =>
         p \in stored /\ r.old = row[p]
    /\ r.op \in {"UpdatePanel", "ResendPanel"} /\ r.at = "send" => Own(p) = {}
    /\ r.at \in {"embed", "store"} => Own(p) = {Msg(r.msg, r.chan, p, {p})}
    /\ r.at = "record" => Own(p) = {Msg(r.msg, row[p].chan, p, {p})}
    /\ r.op = "DeletePanel" /\ r.at \in {"multis", "delete", "deleteRow"} =>
         p \in stored /\ r.old = row[p]
    /\ r.at = "deleteMessage" => p \notin stored /\ Own(p) = {Msg(r.old.msg, r.old.chan, p, {p})}

PanelsInv ==
    faults = 0 => \A p \in Panels \ raced :
      /\ (\A h \in Handlers : ~On(h, p)) => PanelRests(p)
      /\ \A h \in Handlers : On(h, p) => PanelStage(req[h], p)

\* The welcome message of a panel, if it has one: the row's, but for the request that
\* has written or deleted it and not yet the row.
Welcomes(p, e) ==
    /\ e # 0
    /\ \/ \E h \in Handlers : On(h, p) /\ req[h].at = "store" /\ req[h].embed = e
       \/ /\ p \in stored /\ row[p].embed = e
          /\ \A h \in Handlers : On(h, p) => req[h].at \notin {"store", "deleteRow"}

EmbedsInv ==
    /\ nextEmbed > 0
    /\ \A h \in Handlers : req[h].op = "CreatePanel" => req[h].old.embed = 0
    /\ faults = 0 /\ raced = {} =>
         /\ \A e \in Nat : e \in embeds <=> \E p \in Panels : Welcomes(p, e)
         /\ \A e \in Nat : \A p, q \in Panels : Welcomes(p, e) /\ Welcomes(q, e) => p = q
         /\ \A e \in Nat : \A p \in Panels : Welcomes(p, e) => e < nextEmbed

\* A multi-panel at rest has the one message of its row, which offers its targets.
MultiMsg(m, S) == Msg(mrow[m].msg, mrow[m].chan, m, S)
MultiRests(m) == Own(m) = IF m \in mstored THEN {MultiMsg(m, targets[m])} ELSE {}

InLoop(r) == r.at \in {"next", "editMulti", "sendMulti", "recordMulti", "deleteMulti"}
Turn(r, m) == r.at \in {"editMulti", "sendMulti", "recordMulti", "deleteMulti"} /\ r.panels = {m}
Late(r) == r.op = "DeletePanel" /\ (r.at = "deleteMessage" \/ InLoop(r))

\* What an update or a deletion of a panel that is alone at m has read of it and done to it.
LoopStage(r, m) ==
    /\ ~(Late(r) /\ (m \in r.todo \/ Turn(r, m))) => MultiRests(m)
    /\ (InLoop(r) \/ r.at \in {"delete", "deleteRow", "deleteMessage"}) /\ m \in r.todo =>
         m \in mstored /\ r.mold[m] = mrow[m]
    /\ r.at \in {"delete", "deleteRow"} /\ m \in mstored /\ r.on \in targets[m] => m \in r.todo
    /\ r.at \in {"delete", "deleteRow"} /\ m \in r.todo => r.on \in targets[m]
    /\ Late(r) => r.on \notin targets[m]
    /\ Late(r) /\ m \in r.todo =>
         ~Turn(r, m) /\ Own(m) = {MultiMsg(m, targets[m] \union {r.on})}
    /\ Turn(r, m) =>
         /\ m \in mstored /\ r.list = targets[m] /\ r.mold[m].chan = mrow[m].chan
         /\ r.op = "UpdatePanel" => r.at = "editMulti"
         /\ r.at # "deleteMulti" => r.mold[m] = mrow[m]
         /\ r.at = "sendMulti" => Own(m) = {MultiMsg(m, targets[m] \union {r.on})}
         /\ r.at = "recordMulti" =>
              /\ Own(m) = {MultiMsg(m, targets[m] \union {r.on}),
                           Msg(r.msg, mrow[m].chan, m, targets[m])}
              /\ r.msg # mrow[m].msg
         /\ r.at = "deleteMulti" =>
              /\ Own(m) = {Msg(r.mold[m].msg, mrow[m].chan, m, targets[m] \union {r.on}),
                           MultiMsg(m, targets[m])}
              /\ r.mold[m].msg # mrow[m].msg

\* What a request for m itself has, which is alone at it.
OwnStage(r, m) ==
    /\ r.at = "oldOwn" \/ (r.at = "load" /\ r.op # "MultiPanelCreate") => MultiRests(m)
    /\ r.op = "MultiPanelCreate" /\ r.at # "insert" => m \notin mstored
    /\ r.at \in {"oldOwn", "listOwn", "clear", "insert"} => m \in mstored
    /\ r.at \in {"sendOwn", "storeOwn"} /\ r.op # "MultiPanelCreate" => m \in mstored
    /\ r.op \in {"MultiPanelCreate", "MultiPanelUpdate"} /\ r.at # "load" => r.list \subseteq stored
    /\ r.op = "MultiPanelCreate" /\ r.at = "load" => Own(m) = {}
    /\ r.op # "MultiPanelCreate" /\ r.at \in {"oldOwn", "listOwn", "sendOwn", "storeOwn"} =>
         r.mold[m] = mrow[m]
    /\ r.at \in {"listOwn", "sendOwn"} => Own(m) = {}
    /\ r.op = "MultiPanelDelete" /\ r.at = "storeOwn" => Own(m) = {}
    /\ r.op = "MultiPanelResend" /\ r.at \in {"sendOwn", "storeOwn"} => r.list = targets[m]
    /\ r.op = "MultiPanelResend" /\ r.at = "storeOwn" => Own(m) = {Msg(r.msg, mrow[m].chan, m, r.list)}
    /\ r.op \in {"MultiPanelCreate", "MultiPanelUpdate"} /\ r.at = "storeOwn" =>
         Own(m) = {Msg(r.msg, r.chan, m, r.list)}
    /\ r.at = "clear" => Own(m) = {MultiMsg(m, r.list)}
    /\ r.at = "insert" => Own(m) = {MultiMsg(m, targets[m] \union r.list)}

MultiStage(r, m) == IF r.op \in PanelOps THEN LoopStage(r, m) ELSE OwnStage(r, m)

\* Every multi-panel of a panel is brought up to date.
Few == Cardinality(Multis) <= MultiLimit

MultisInv ==
    faults = 0 /\ Few => \A m \in Multis \ raced :
      /\ (\A h \in Handlers : ~Touched(h, m)) => MultiRests(m)
      /\ \A h \in Handlers : Touched(h, m) => MultiStage(req[h], m)

\* Only a multi-panel that is stored has targets.
Inserted == \A m \in Multis : targets[m] # {} => m \in mstored

SettleInv == Alone /\ PanelsInv /\ MultisInv /\ Inserted
====
