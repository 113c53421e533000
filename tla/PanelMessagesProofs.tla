---- MODULE PanelMessagesProofs ----
(***************************************************************************)
(* Proofs about PanelMessages for every finite set of panels and multi-    *)
(* panels, any channels, and any number of requests at a time.             *)
(***************************************************************************)
EXTENDS PanelInvariants, FiniteSetTheorems, TLAPS

\* What LoadMultis and WriteEmbed choose.
Loads(r, T) ==
    LET M == {m \in mstored : r.on \in targets[m]} IN
    /\ T \subseteq M
    /\ Cardinality(T) = (IF Cardinality(M) < MultiLimit THEN Cardinality(M) ELSE MultiLimit)

EmbedOf(r) == IF ~r.welcome THEN 0 ELSE IF r.old.embed = 0 THEN nextEmbed ELSE r.old.embed

Fields == {"op", "at", "on", "chan", "panels", "welcome", "old", "mold", "msg", "embed", "todo", "list"}

\* The request of h, and no other, changes in the fields F.
Changed(h, F) ==
    /\ req' \in [Handlers -> Reqs]
    /\ \A g \in Handlers \ {h} : req'[g] = req[g]
    /\ \A f \in Fields \ F : req'[h][f] = req[h][f]

LEMMA Overridden ==
    ASSUME req \in [Handlers -> Reqs], NEW h \in Handlers, NEW new, GoOn(h, new),
           With(req[h], new) \in Reqs, DOMAIN new \subseteq Fields
    PROVE  Changed(h, DOMAIN new) /\ \A f \in DOMAIN new : req'[h][f] = new[f]
<1>1. DOMAIN req[h] = Fields
  BY DEF Reqs, Fields
<1>2. \A f \in Fields : With(req[h], new)[f] = IF f \in DOMAIN new THEN new[f] ELSE req[h][f]
  BY <1>1 DEF With
<1>3. req' = [req EXCEPT ![h] = With(req[h], new)]
  BY DEF GoOn
<1>4. /\ req' \in [Handlers -> Reqs] /\ req'[h] = With(req[h], new)
      /\ \A g \in Handlers \ {h} : req'[g] = req[g]
  BY <1>3
<1>5. QED
  BY <1>2, <1>4 DEF Changed

LEMMA GoneTo ==
    ASSUME req \in [Handlers -> Reqs], NEW h \in Handlers,
           NEW at \in Places, Goto(h, at)
    PROVE  Changed(h, {"at"}) /\ req'[h].at = at
<1>1. With(req[h], [at |-> at]) \in Reqs
  BY DEF With, Reqs
<1>2. DOMAIN [at |-> at] = {"at"} /\ {"at"} \subseteq Fields
  BY DEF Fields
<1>3. Changed(h, {"at"}) /\ \A f \in {"at"} : req'[h][f] = [at |-> at][f]
  BY <1>1, <1>2, Overridden DEF Goto
<1>4. QED
  BY <1>3

LEMMA GoneWithOld ==
    ASSUME req \in [Handlers -> Reqs], NEW h \in Handlers,
           NEW old \in Row, NEW at \in Places, GoOn(h, [old |-> old, at |-> at])
    PROVE  Changed(h, {"old", "at"}) /\ req'[h].old = old /\ req'[h].at = at
<1>1. With(req[h], [old |-> old, at |-> at]) \in Reqs
  BY DEF With, Reqs
<1>2. DOMAIN [old |-> old, at |-> at] = {"old", "at"} /\ {"old", "at"} \subseteq Fields
  BY DEF Fields
<1>3. Changed(h, {"old", "at"}) /\ \A f \in {"old", "at"} : req'[h][f] = [old |-> old, at |-> at][f]
  BY <1>1, <1>2, Overridden
<1>4. QED
  BY <1>3

LEMMA GoneWithMessage ==
    ASSUME req \in [Handlers -> Reqs], NEW h \in Handlers,
           NEW msg \in Nat, NEW at \in Places, GoOn(h, [msg |-> msg, at |-> at])
    PROVE  Changed(h, {"msg", "at"}) /\ req'[h].msg = msg /\ req'[h].at = at
<1>1. With(req[h], [msg |-> msg, at |-> at]) \in Reqs
  BY DEF With, Reqs
<1>2. DOMAIN [msg |-> msg, at |-> at] = {"msg", "at"} /\ {"msg", "at"} \subseteq Fields
  BY DEF Fields
<1>3. Changed(h, {"msg", "at"}) /\ \A f \in {"msg", "at"} : req'[h][f] = [msg |-> msg, at |-> at][f]
  BY <1>1, <1>2, Overridden
<1>4. QED
  BY <1>3

LEMMA GoneWithEmbed ==
    ASSUME req \in [Handlers -> Reqs], NEW h \in Handlers,
           NEW at \in Places, NEW embed \in Nat, GoOn(h, [at |-> at, embed |-> embed])
    PROVE  Changed(h, {"at", "embed"}) /\ req'[h].at = at /\ req'[h].embed = embed
<1>1. With(req[h], [at |-> at, embed |-> embed]) \in Reqs
  BY DEF With, Reqs
<1>2. DOMAIN [at |-> at, embed |-> embed] = {"at", "embed"} /\ {"at", "embed"} \subseteq Fields
  BY DEF Fields
<1>3. Changed(h, {"at", "embed"}) /\ \A f \in {"at", "embed"} : req'[h][f] = [at |-> at, embed |-> embed][f]
  BY <1>1, <1>2, Overridden
<1>4. QED
  BY <1>3

LEMMA GoneWithMultis ==
    ASSUME req \in [Handlers -> Reqs], NEW h \in Handlers,
           NEW todo \in SUBSET Multis, NEW mold \in Molds, NEW at \in Places, GoOn(h, [todo |-> todo, mold |-> mold, at |-> at])
    PROVE  Changed(h, {"todo", "mold", "at"}) /\ req'[h].todo = todo /\ req'[h].mold = mold /\ req'[h].at = at
<1>1. With(req[h], [todo |-> todo, mold |-> mold, at |-> at]) \in Reqs
  BY DEF With, Reqs
<1>2. DOMAIN [todo |-> todo, mold |-> mold, at |-> at] = {"todo", "mold", "at"} /\ {"todo", "mold", "at"} \subseteq Fields
  BY DEF Fields
<1>3. Changed(h, {"todo", "mold", "at"}) /\ \A f \in {"todo", "mold", "at"} : req'[h][f] = [todo |-> todo, mold |-> mold, at |-> at][f]
  BY <1>1, <1>2, Overridden
<1>4. QED
  BY <1>3

LEMMA GoneToNext ==
    ASSUME req \in [Handlers -> Reqs], NEW h \in Handlers,
           NEW todo \in SUBSET Multis, NEW list \in SUBSET Panels, NEW panels \in SUBSET Objects, NEW at \in Places, GoOn(h, [todo |-> todo, list |-> list, panels |-> panels, at |-> at])
    PROVE  Changed(h, {"todo", "list", "panels", "at"}) /\ req'[h].todo = todo /\ req'[h].list = list /\ req'[h].panels = panels /\ req'[h].at = at
<1>1. With(req[h], [todo |-> todo, list |-> list, panels |-> panels, at |-> at]) \in Reqs
  BY DEF With, Reqs
<1>2. DOMAIN [todo |-> todo, list |-> list, panels |-> panels, at |-> at] = {"todo", "list", "panels", "at"} /\ {"todo", "list", "panels", "at"} \subseteq Fields
  BY DEF Fields
<1>3. Changed(h, {"todo", "list", "panels", "at"}) /\ \A f \in {"todo", "list", "panels", "at"} : req'[h][f] = [todo |-> todo, list |-> list, panels |-> panels, at |-> at][f]
  BY <1>1, <1>2, Overridden
<1>4. QED
  BY <1>3

LEMMA GoneWithRow ==
    ASSUME req \in [Handlers -> Reqs], NEW h \in Handlers,
           NEW mold \in Molds, NEW list \in SUBSET Panels, NEW at \in Places, GoOn(h, [mold |-> mold, list |-> list, at |-> at])
    PROVE  Changed(h, {"mold", "list", "at"}) /\ req'[h].mold = mold /\ req'[h].list = list /\ req'[h].at = at
<1>1. With(req[h], [mold |-> mold, list |-> list, at |-> at]) \in Reqs
  BY DEF With, Reqs
<1>2. DOMAIN [mold |-> mold, list |-> list, at |-> at] = {"mold", "list", "at"} /\ {"mold", "list", "at"} \subseteq Fields
  BY DEF Fields
<1>3. Changed(h, {"mold", "list", "at"}) /\ \A f \in {"mold", "list", "at"} : req'[h][f] = [mold |-> mold, list |-> list, at |-> at][f]
  BY <1>1, <1>2, Overridden
<1>4. QED
  BY <1>3

LEMMA GoneWithList ==
    ASSUME req \in [Handlers -> Reqs], NEW h \in Handlers,
           NEW list \in SUBSET Panels, NEW at \in Places, GoOn(h, [list |-> list, at |-> at])
    PROVE  Changed(h, {"list", "at"}) /\ req'[h].list = list /\ req'[h].at = at
<1>1. With(req[h], [list |-> list, at |-> at]) \in Reqs
  BY DEF With, Reqs
<1>2. DOMAIN [list |-> list, at |-> at] = {"list", "at"} /\ {"list", "at"} \subseteq Fields
  BY DEF Fields
<1>3. Changed(h, {"list", "at"}) /\ \A f \in {"list", "at"} : req'[h][f] = [list |-> list, at |-> at][f]
  BY <1>1, <1>2, Overridden
<1>4. QED
  BY <1>3

LEMMA GoneFromList ==
    ASSUME req \in [Handlers -> Reqs], NEW h \in Handlers,
           NEW list \in SUBSET Panels, GoOn(h, [list |-> list])
    PROVE  Changed(h, {"list"}) /\ req'[h].list = list
<1>1. With(req[h], [list |-> list]) \in Reqs
  BY DEF With, Reqs
<1>2. DOMAIN [list |-> list] = {"list"} /\ {"list"} \subseteq Fields
  BY DEF Fields
<1>3. Changed(h, {"list"}) /\ \A f \in {"list"} : req'[h][f] = [list |-> list][f]
  BY <1>1, <1>2, Overridden
<1>4. QED
  BY <1>3

----
LEMMA TypesFollow == BaseInv => TypeOK
  BY DEF BaseInv, ReqInv, PanelsOK, MultisOK, EmbedsOK, DiscordOK, BookOK, TypeOK, Reqs, Ops,
     MRow,
         Message

LEMMA PanelsKept == PanelsOK /\ UNCHANGED panelTable => PanelsOK'
  BY DEF PanelsOK, panelTable

LEMMA MultisKept == MultisOK /\ UNCHANGED multiTable => MultisOK'
  BY DEF MultisOK, multiTable

LEMMA EmbedsKept == EmbedsOK /\ UNCHANGED embedTable => EmbedsOK'
  BY DEF EmbedsOK, embedTable

LEMMA DiscordKept == DiscordOK /\ UNCHANGED discord => DiscordOK'
  BY DEF DiscordOK, discord

LEMMA BookKept == BookOK /\ UNCHANGED book => BookOK'
  BY DEF BookOK, book

LEMMA FaultKept ==
    BookOK /\ UNCHANGED <<premium, raced, requests>> /\ (faults' = faults + 1 \/ UNCHANGED faults)
      => BookOK'
  BY DEF BookOK

\* The request of one handler changes.
LEMMA OneRequest ==
    ASSUME ReqInv, NEW h \in Handlers, req' \in [Handlers -> Reqs],
           \A g \in Handlers \ {h} : req'[g] = req[g], InPlace(req'[h]), Equipped(req'[h])
    PROVE  ReqInv'
  BY DEF ReqInv

LEMMA IdleIsWell == Idle \in Reqs /\ InPlace(Idle) /\ Equipped(Idle)
<1>1. <<>> \in [{} -> MRow]
  OBVIOUS
<1>2. <<>> \in Molds
  BY <1>1 DEF Molds
<1>3. QED
  BY <1>2 DEF Idle, Reqs, Ops, Places, Row, NoRow, InPlace, Equipped, PanelOps, MultiOps

LEMMA Finished ==
    ASSUME req \in [Handlers -> Reqs], NEW h \in Handlers, Finish(h)
    PROVE  /\ req' \in [Handlers -> Reqs] /\ req'[h] = Idle
           /\ \A g \in Handlers \ {h} : req'[g] = req[g]
  BY IdleIsWell DEF Finish

LEMMA FinishedWell ==
    ASSUME ReqInv, NEW h \in Handlers, Finish(h)
    PROVE  ReqInv'
  BY Finished, IdleIsWell, OneRequest DEF ReqInv

LEMMA SentTypes ==
    ASSUME DiscordOK, NEW o \in Objects, NEW c \in Channels, NEW shows \in SUBSET Panels,
           sentBy' = Append(sentBy, o),
           live' = live \union {[id |-> Len(sentBy) + 1, chan |-> c, of |-> o, shows |-> shows]}
    PROVE  DiscordOK'
  BY DEF DiscordOK, Message

LEMMA DeletedTypes ==
    ASSUME DiscordOK, NEW c, NEW id, DeleteMessage(c, id)
    PROVE  DiscordOK'
  BY DEF DiscordOK, DeleteMessage

LEMMA EditedTypes ==
    ASSUME DiscordOK, NEW c, NEW id, NEW shows \in SUBSET Panels, EditMessage(c, id, shows)
    PROVE  DiscordOK'
<1>1. ASSUME NEW x \in Message PROVE With(x, [shows |-> shows]) \in Message
  BY DEF With, Message
<1>2. QED
  BY <1>1 DEF DiscordOK, EditMessage

\* The multi-panel of the loop.
LEMMA TheMulti ==
    ASSUME NEW r, NEW m, r.panels = {m}
    PROVE  Multi(r) = m /\ OldMulti(r) = r.mold[m]
  BY DEF Multi, OldMulti

\* The operations that can be at a place.
LEMMA Whereabouts ==
    ASSUME NEW r \in Reqs, InPlace(r)
    PROVE  /\ r.at = "old" => r.op \in {"UpdatePanel", "ResendPanel"}
           /\ r.at = "send" => r.op \in {"CreatePanel", "UpdatePanel", "ResendPanel"}
           /\ r.at = "record" => r.op = "ResendPanel"
           /\ r.at \in {"embed", "store"} => r.op \in {"CreatePanel", "UpdatePanel"}
           /\ r.at = "multis" => r.op \in {"UpdatePanel", "DeletePanel"}
           /\ r.at \in {"delete", "deleteRow", "deleteMessage", "deleteMulti"} => r.op = "DeletePanel"
           /\ r.at \in {"next", "sendMulti", "recordMulti"} => r.op \in {"UpdatePanel", "DeletePanel"}
           /\ r.at = "editMulti" => r.op = "UpdatePanel"
           /\ r.at = "oldOwn" => r.op \in {"MultiPanelUpdate", "MultiPanelResend", "MultiPanelDelete"}
           /\ r.at = "listOwn" => r.op = "MultiPanelResend"
           /\ r.at = "sendOwn" => r.op \in {"MultiPanelCreate", "MultiPanelUpdate", "MultiPanelResend"}
           /\ r.at = "storeOwn" => r.op \in MultiOps
           /\ r.at = "clear" => r.op = "MultiPanelUpdate"
           /\ r.at = "insert" => r.op \in {"MultiPanelCreate", "MultiPanelUpdate"}
  BY DEF InPlace, Reqs, Ops, PanelOps, MultiOps, Idle

LEMMA LoadPanelStep ==
    ASSUME BaseInv, NEW h \in Handlers, LoadPanel(h)
    PROVE  /\ BaseInv'
           /\ \/ /\ req[h].on \notin stored /\ Finish(h)
              \/ /\ req[h].on \in stored /\ Changed(h, {"old", "at"})
                 /\ req'[h].old = row[req[h].on]
                 /\ req'[h].at = (IF req[h].op = "DeletePanel" THEN "multis" ELSE "old")
<1>0. /\ ReqInv /\ PanelsOK /\ MultisOK /\ EmbedsOK /\ DiscordOK /\ BookOK
      /\ req \in [Handlers -> Reqs] /\ req[h] \in Reqs /\ InPlace(req[h]) /\ Equipped(req[h])
  BY DEF BaseInv, ReqInv
<1>1. ASSUME /\ req[h].on \notin stored /\ Finish(h)
     PROVE  ReqInv'
  BY <1>0, <1>1, FinishedWell
<1>2. ASSUME /\ req[h].on \in stored
             /\ GoOn(h, [old |-> row[req[h].on], at |-> (IF req[h].op = "DeletePanel" THEN "multis" ELSE "old")])
     PROVE  /\ ReqInv'
            /\ req[h].on \in stored /\ Changed(h, {"old", "at"})
            /\ req'[h].old = row[req[h].on]
            /\ req'[h].at = (IF req[h].op = "DeletePanel" THEN "multis" ELSE "old")
  <2> DEFINE old == row[req[h].on]
  <2> DEFINE at == (IF req[h].op = "DeletePanel" THEN "multis" ELSE "old")
  <2> HIDE DEF old, at
  <2>1. GoOn(h, [old |-> old, at |-> at])
    BY <1>2 DEF old, at
  <2>2. old \in Row /\ at \in Places
    BY <1>0, <1>2, Whereabouts DEF LoadPanel, At, Places, PanelsOK, old, at
  <2>3. /\ Changed(h, {"old", "at"}) /\ req'[h].old = old /\ req'[h].at = at
    BY <1>0, <2>1, <2>2, GoneWithOld
  <2>4. InPlace(req'[h])
    BY <1>0, <1>2, <2>3, Whereabouts DEF LoadPanel, At, InPlace, Idle, PanelOps, MultiOps,
       Changed, Fields, PanelsOK, old, at
  <2>5. Equipped(req'[h])
    BY <1>0, <1>2, <2>3, Whereabouts DEF LoadPanel, At, Equipped, InPlace, Idle, PanelOps,
       MultiOps, Changed, Fields, PanelsOK, old, at
  <2>6. QED
    BY <1>0, <1>2, <2>3, <2>4, <2>5, OneRequest DEF Changed, old, at
<1>3. \/ req[h].on \notin stored /\ Finish(h)
      \/ req[h].on \in stored /\ GoOn(h, [old |-> row[req[h].on], at |-> (IF req[h].op = "DeletePanel" THEN "multis" ELSE "old")])
  BY <1>0, Whereabouts DEF LoadPanel, At
<1>4. PanelsOK' /\ MultisOK' /\ EmbedsOK' /\ DiscordOK' /\ BookOK'
  BY <1>0, PanelsKept, MultisKept, EmbedsKept, DiscordKept, BookKept DEF LoadPanel
<1>5. QED
  BY <1>1, <1>2, <1>3, <1>4 DEF BaseInv

LEMMA CheckQuotaStep ==
    ASSUME BaseInv, NEW h \in Handlers, CheckQuota(h)
    PROVE  /\ BaseInv'
           /\ \/ /\ Finish(h)
              \/ /\ Changed(h, {"at"}) /\ req'[h].at = "send"
<1>0. /\ ReqInv /\ PanelsOK /\ MultisOK /\ EmbedsOK /\ DiscordOK /\ BookOK
      /\ req \in [Handlers -> Reqs] /\ req[h] \in Reqs /\ InPlace(req[h]) /\ Equipped(req[h])
  BY DEF BaseInv, ReqInv
<1>1. ASSUME /\ Finish(h)
     PROVE  ReqInv'
  BY <1>0, <1>1, FinishedWell
<1>2. ASSUME /\ Goto(h, "send")
     PROVE  /\ ReqInv'
            /\ Changed(h, {"at"}) /\ req'[h].at = "send"
  <2>1. Goto(h, "send")
    BY <1>2
  <2>3. /\ Changed(h, {"at"}) /\ req'[h].at = "send"
    BY <1>0, <2>1, GoneTo DEF Places
  <2>4. InPlace(req'[h])
    BY <1>0, <1>2, <2>3, Whereabouts DEF CheckQuota, At, InPlace, Idle, PanelOps, MultiOps,
       Changed, Fields
  <2>5. Equipped(req'[h])
    BY <1>0, <1>2, <2>3, Whereabouts DEF CheckQuota, At, Equipped, InPlace, Idle, PanelOps,
       MultiOps, Changed, Fields
  <2>6. QED
    BY <1>0, <1>2, <2>3, <2>4, <2>5, OneRequest DEF Changed
<1>3. \/ Finish(h)
      \/ Goto(h, "send")
  BY <1>0, Whereabouts DEF CheckQuota, At
<1>4. PanelsOK' /\ MultisOK' /\ EmbedsOK' /\ DiscordOK' /\ BookOK'
  BY <1>0, PanelsKept, MultisKept, EmbedsKept, DiscordKept, BookKept DEF CheckQuota
<1>5. QED
  BY <1>1, <1>2, <1>3, <1>4 DEF BaseInv

LEMMA OldMessageStep ==
    ASSUME BaseInv, NEW h \in Handlers, OldMessage(h)
    PROVE  /\ BaseInv'
           /\ \/ /\ (req[h].op = "ResendPanel" \/ req[h].old.chan # req[h].chan)
                 /\ DeleteMessage(req[h].old.chan, req[h].old.msg) /\ Changed(h, {"at"})
                 /\ req'[h].at = "send"
              \/ /\ req[h].op = "UpdatePanel" /\ req[h].old.chan = req[h].chan
                 /\ IsLive(req[h].old.chan, req[h].old.msg) /\ UNCHANGED discord
                 /\ Changed(h, {"msg", "at"}) /\ req'[h].msg = req[h].old.msg
                 /\ req'[h].at = "embed"
              \/ /\ req[h].op = "UpdatePanel" /\ req[h].old.chan = req[h].chan
                 /\ ~IsLive(req[h].old.chan, req[h].old.msg) /\ UNCHANGED discord
                 /\ Changed(h, {"at"}) /\ req'[h].at = "send"
<1>0. /\ ReqInv /\ PanelsOK /\ MultisOK /\ EmbedsOK /\ DiscordOK /\ BookOK
      /\ req \in [Handlers -> Reqs] /\ req[h] \in Reqs /\ InPlace(req[h]) /\ Equipped(req[h])
  BY DEF BaseInv, ReqInv
<1>1. ASSUME /\ (req[h].op = "ResendPanel" \/ req[h].old.chan # req[h].chan)
             /\ DeleteMessage(req[h].old.chan, req[h].old.msg) /\ Goto(h, "send")
     PROVE  /\ ReqInv'
            /\ (req[h].op = "ResendPanel" \/ req[h].old.chan # req[h].chan)
            /\ DeleteMessage(req[h].old.chan, req[h].old.msg) /\ Changed(h, {"at"})
            /\ req'[h].at = "send"
  <2>1. Goto(h, "send")
    BY <1>1
  <2>3. /\ Changed(h, {"at"}) /\ req'[h].at = "send"
    BY <1>0, <2>1, GoneTo DEF Places
  <2>4. InPlace(req'[h])
    BY <1>0, <1>1, <2>3, Whereabouts DEF OldMessage, At, InPlace, Idle, PanelOps, MultiOps,
       Changed, Fields
  <2>5. Equipped(req'[h])
    BY <1>0, <1>1, <2>3, Whereabouts DEF OldMessage, At, Equipped, InPlace, Idle, PanelOps,
       MultiOps, Changed, Fields
  <2>6. QED
    BY <1>0, <1>1, <2>3, <2>4, <2>5, OneRequest DEF Changed
<1>2. ASSUME /\ req[h].op = "UpdatePanel" /\ req[h].old.chan = req[h].chan
             /\ IsLive(req[h].old.chan, req[h].old.msg) /\ UNCHANGED discord
             /\ GoOn(h, [msg |-> req[h].old.msg, at |-> "embed"])
     PROVE  /\ ReqInv'
            /\ req[h].op = "UpdatePanel" /\ req[h].old.chan = req[h].chan
            /\ IsLive(req[h].old.chan, req[h].old.msg) /\ UNCHANGED discord
            /\ Changed(h, {"msg", "at"}) /\ req'[h].msg = req[h].old.msg
            /\ req'[h].at = "embed"
  <2> DEFINE id == req[h].old.msg
  <2> HIDE DEF id
  <2>1. GoOn(h, [msg |-> id, at |-> "embed"])
    BY <1>2 DEF id
  <2>2. id \in Nat
    BY <1>0, <1>2, Whereabouts DEF OldMessage, At, Places, Reqs, Row, id
  <2>3. /\ Changed(h, {"msg", "at"}) /\ req'[h].msg = id /\ req'[h].at = "embed"
    BY <1>0, <2>1, <2>2, GoneWithMessage DEF Places
  <2>4. InPlace(req'[h])
    BY <1>0, <1>2, <2>3, Whereabouts DEF OldMessage, At, InPlace, Idle, PanelOps, MultiOps,
       Changed, Fields, id
  <2>5. Equipped(req'[h])
    BY <1>0, <1>2, <2>3, Whereabouts DEF OldMessage, At, Equipped, InPlace, Idle, PanelOps,
       MultiOps, Changed, Fields, id
  <2>6. QED
    BY <1>0, <1>2, <2>3, <2>4, <2>5, OneRequest DEF Changed, id
<1>3. ASSUME /\ req[h].op = "UpdatePanel" /\ req[h].old.chan = req[h].chan
             /\ ~IsLive(req[h].old.chan, req[h].old.msg) /\ UNCHANGED discord
             /\ Goto(h, "send")
     PROVE  /\ ReqInv'
            /\ req[h].op = "UpdatePanel" /\ req[h].old.chan = req[h].chan
            /\ ~IsLive(req[h].old.chan, req[h].old.msg) /\ UNCHANGED discord
            /\ Changed(h, {"at"}) /\ req'[h].at = "send"
  <2>1. Goto(h, "send")
    BY <1>3
  <2>3. /\ Changed(h, {"at"}) /\ req'[h].at = "send"
    BY <1>0, <2>1, GoneTo DEF Places
  <2>4. InPlace(req'[h])
    BY <1>0, <1>3, <2>3, Whereabouts DEF OldMessage, At, InPlace, Idle, PanelOps, MultiOps,
       Changed, Fields
  <2>5. Equipped(req'[h])
    BY <1>0, <1>3, <2>3, Whereabouts DEF OldMessage, At, Equipped, InPlace, Idle, PanelOps,
       MultiOps, Changed, Fields
  <2>6. QED
    BY <1>0, <1>3, <2>3, <2>4, <2>5, OneRequest DEF Changed
<1>4. \/ (req[h].op = "ResendPanel" \/ req[h].old.chan # req[h].chan) /\ DeleteMessage(req[h].old.chan, req[h].old.msg) /\ Goto(h, "send")
      \/ req[h].op = "UpdatePanel" /\ req[h].old.chan = req[h].chan /\ IsLive(req[h].old.chan, req[h].old.msg) /\ UNCHANGED discord /\ GoOn(h, [msg |-> req[h].old.msg, at |-> "embed"])
      \/ req[h].op = "UpdatePanel" /\ req[h].old.chan = req[h].chan /\ ~IsLive(req[h].old.chan, req[h].old.msg) /\ UNCHANGED discord /\ Goto(h, "send")
  BY <1>0, Whereabouts DEF OldMessage, At
<1>5. PanelsOK' /\ MultisOK' /\ EmbedsOK' /\ BookOK'
  BY <1>0, PanelsKept, MultisKept, EmbedsKept, BookKept DEF OldMessage
<1>6. DiscordOK'
  BY <1>0, DeletedTypes, DiscordKept DEF OldMessage
<1>7. QED
  BY <1>1, <1>2, <1>3, <1>4, <1>5, <1>6 DEF BaseInv

LEMMA OldMessageStaysStep ==
    ASSUME BaseInv, NEW h \in Handlers, OldMessageStays(h)
    PROVE  /\ BaseInv'
           /\ Changed(h, {"at"}) /\ req'[h].at = "send"
<1>0. /\ ReqInv /\ PanelsOK /\ MultisOK /\ EmbedsOK /\ DiscordOK /\ BookOK
      /\ req \in [Handlers -> Reqs] /\ req[h] \in Reqs /\ InPlace(req[h]) /\ Equipped(req[h])
  BY DEF BaseInv, ReqInv
<1>1. ASSUME /\ Goto(h, "send")
     PROVE  /\ ReqInv'
            /\ Changed(h, {"at"}) /\ req'[h].at = "send"
  <2>1. Goto(h, "send")
    BY <1>1
  <2>3. /\ Changed(h, {"at"}) /\ req'[h].at = "send"
    BY <1>0, <2>1, GoneTo DEF Places
  <2>4. InPlace(req'[h])
    BY <1>0, <1>1, <2>3, Whereabouts DEF OldMessageStays, At, InPlace, Idle, PanelOps, MultiOps,
       Changed, Fields
  <2>5. Equipped(req'[h])
    BY <1>0, <1>1, <2>3, Whereabouts DEF OldMessageStays, At, Equipped, InPlace, Idle, PanelOps,
       MultiOps, Changed, Fields
  <2>6. QED
    BY <1>0, <1>1, <2>3, <2>4, <2>5, OneRequest DEF Changed
<1>2. Goto(h, "send")
  BY <1>0, Whereabouts DEF OldMessageStays, At
<1>3. PanelsOK' /\ MultisOK' /\ EmbedsOK' /\ DiscordOK'
  BY <1>0, PanelsKept, MultisKept, EmbedsKept, DiscordKept DEF OldMessageStays
<1>4. BookOK'
  BY <1>0, FaultKept DEF OldMessageStays
<1>5. QED
  BY <1>1, <1>2, <1>3, <1>4 DEF BaseInv

LEMMA SendPanelStep ==
    ASSUME BaseInv, NEW h \in Handlers, SendPanel(h)
    PROVE  /\ BaseInv'
           /\ \/ /\ faults' = faults + 1 /\ Finish(h)
              \/ /\ UNCHANGED faults /\ Changed(h, {"msg", "at"})
                 /\ req'[h].msg = Len(sentBy) + 1 /\ req'[h].at = AfterSend(req[h])
<1>0. /\ ReqInv /\ PanelsOK /\ MultisOK /\ EmbedsOK /\ DiscordOK /\ BookOK
      /\ req \in [Handlers -> Reqs] /\ req[h] \in Reqs /\ InPlace(req[h]) /\ Equipped(req[h])
  BY DEF BaseInv, ReqInv
<1>1. ASSUME /\ faults' = faults + 1 /\ Finish(h)
     PROVE  ReqInv'
  BY <1>0, <1>1, FinishedWell
<1>2. ASSUME /\ UNCHANGED faults
             /\ GoOn(h, [msg |-> Len(sentBy) + 1, at |-> AfterSend(req[h])])
     PROVE  /\ ReqInv'
            /\ UNCHANGED faults /\ Changed(h, {"msg", "at"})
            /\ req'[h].msg = Len(sentBy) + 1 /\ req'[h].at = AfterSend(req[h])
  <2> DEFINE id == Len(sentBy) + 1
  <2> DEFINE at == AfterSend(req[h])
  <2> HIDE DEF id, at
  <2>1. GoOn(h, [msg |-> id, at |-> at])
    BY <1>2 DEF id, at
  <2>2. id \in Nat /\ at \in Places
    BY <1>0, <1>2, Whereabouts DEF SendPanel, At, Places, AfterSend, DiscordOK, id, at
  <2>3. /\ Changed(h, {"msg", "at"}) /\ req'[h].msg = id /\ req'[h].at = at
    BY <1>0, <2>1, <2>2, GoneWithMessage
  <2>4. InPlace(req'[h])
    BY <1>0, <1>2, <2>3, Whereabouts DEF SendPanel, At, InPlace, Idle, PanelOps, MultiOps,
       Changed, Fields, AfterSend, id, at
  <2>5. Equipped(req'[h])
    BY <1>0, <1>2, <2>3, Whereabouts DEF SendPanel, At, Equipped, InPlace, Idle, PanelOps,
       MultiOps, Changed, Fields, AfterSend, id, at
  <2>6. QED
    BY <1>0, <1>2, <2>3, <2>4, <2>5, OneRequest DEF Changed, id, at
<1>3. \/ faults' = faults + 1 /\ Finish(h)
      \/ UNCHANGED faults /\ GoOn(h, [msg |-> Len(sentBy) + 1, at |-> AfterSend(req[h])])
  BY <1>0, Whereabouts DEF SendPanel, At, Send, SendLost
<1>4. PanelsOK' /\ MultisOK' /\ EmbedsOK'
  BY <1>0, PanelsKept, MultisKept, EmbedsKept DEF SendPanel
<1>5. DiscordOK'
  <2>1. req[h].on \in Objects /\ PanelChan(req[h]) \in Channels /\ {req[h].on} \in SUBSET Panels
    BY <1>0 DEF SendPanel, InPlace, Equipped, PanelChan, Objects, PanelOps
  <2>2. QED
    BY <1>0, <2>1, SentTypes DEF SendPanel, Send, SendLost
<1>6. BookOK'
  BY <1>0, FaultKept DEF SendPanel, SendLost
<1>7. QED
  BY <1>1, <1>2, <1>3, <1>4, <1>5, <1>6 DEF BaseInv

LEMMA SendToMissingChannelStep ==
    ASSUME BaseInv, NEW h \in Handlers, SendToMissingChannel(h)
    PROVE  /\ BaseInv'
           /\ Changed(h, {"msg", "at"}) /\ req'[h].msg = 0 /\ req'[h].at = "embed"
<1>0. /\ ReqInv /\ PanelsOK /\ MultisOK /\ EmbedsOK /\ DiscordOK /\ BookOK
      /\ req \in [Handlers -> Reqs] /\ req[h] \in Reqs /\ InPlace(req[h]) /\ Equipped(req[h])
  BY DEF BaseInv, ReqInv
<1>1. ASSUME /\ GoOn(h, [msg |-> 0, at |-> "embed"])
     PROVE  /\ ReqInv'
            /\ Changed(h, {"msg", "at"}) /\ req'[h].msg = 0 /\ req'[h].at = "embed"
  <2>1. GoOn(h, [msg |-> 0, at |-> "embed"])
    BY <1>1
  <2>2. 0 \in Nat
    BY <1>0, <1>1, Whereabouts DEF SendToMissingChannel, At, Places
  <2>3. /\ Changed(h, {"msg", "at"}) /\ req'[h].msg = 0 /\ req'[h].at = "embed"
    BY <1>0, <2>1, <2>2, GoneWithMessage DEF Places
  <2>4. InPlace(req'[h])
    BY <1>0, <1>1, <2>3, Whereabouts DEF SendToMissingChannel, At, InPlace, Idle, PanelOps,
       MultiOps, Changed, Fields
  <2>5. Equipped(req'[h])
    BY <1>0, <1>1, <2>3, Whereabouts DEF SendToMissingChannel, At, Equipped, InPlace, Idle,
       PanelOps, MultiOps, Changed, Fields
  <2>6. QED
    BY <1>0, <1>1, <2>3, <2>4, <2>5, OneRequest DEF Changed
<1>2. GoOn(h, [msg |-> 0, at |-> "embed"])
  BY <1>0, Whereabouts DEF SendToMissingChannel, At
<1>3. PanelsOK' /\ MultisOK' /\ EmbedsOK' /\ DiscordOK'
  BY <1>0, PanelsKept, MultisKept, EmbedsKept, DiscordKept DEF SendToMissingChannel
<1>4. BookOK'
  BY <1>0, FaultKept DEF SendToMissingChannel
<1>5. QED
  BY <1>1, <1>2, <1>3, <1>4 DEF BaseInv

LEMMA RecordResentStep ==
    ASSUME BaseInv, NEW h \in Handlers, RecordResent(h)
    PROVE  /\ BaseInv'
           /\ Finish(h)
<1>0. /\ ReqInv /\ PanelsOK /\ MultisOK /\ EmbedsOK /\ DiscordOK /\ BookOK
      /\ req \in [Handlers -> Reqs] /\ req[h] \in Reqs /\ InPlace(req[h]) /\ Equipped(req[h])
  BY DEF BaseInv, ReqInv
<1>1. ASSUME /\ Finish(h)
     PROVE  ReqInv'
  BY <1>0, <1>1, FinishedWell
<1>2. Finish(h)
  BY <1>0, Whereabouts DEF RecordResent, At
<1>3. MultisOK' /\ EmbedsOK' /\ DiscordOK' /\ BookOK'
  BY <1>0, MultisKept, EmbedsKept, DiscordKept, BookKept DEF RecordResent
<1>4. PanelsOK'
  <2>1. CASE req[h].on \in stored
    <3>1. With(row[req[h].on], [msg |-> req[h].msg]) \in Row
      BY <1>0, <2>1 DEF With, Row, Reqs, PanelsOK
    <3>2. With(row[req[h].on], [msg |-> req[h].msg]).chan = row[req[h].on].chan
      BY <1>0, <2>1 DEF With, Row, PanelsOK
    <3>3. QED
      BY <1>0, <2>1, <3>1, <3>2 DEF RecordResent, PanelsOK
  <2>2. CASE req[h].on \notin stored
    BY <1>0, <2>2 DEF RecordResent, PanelsOK
  <2>3. QED
    BY <2>1, <2>2
<1>5. QED
  BY <1>1, <1>2, <1>3, <1>4 DEF BaseInv

LEMMA WriteEmbedStep ==
    ASSUME BaseInv, NEW h \in Handlers, WriteEmbed(h)
    PROVE  /\ BaseInv'
           /\ Changed(h, {"at", "embed"}) /\ req'[h].at = "store"
           /\ req'[h].embed = EmbedOf(req[h])
<1>0. /\ ReqInv /\ PanelsOK /\ MultisOK /\ EmbedsOK /\ DiscordOK /\ BookOK
      /\ req \in [Handlers -> Reqs] /\ req[h] \in Reqs /\ InPlace(req[h]) /\ Equipped(req[h])
  BY DEF BaseInv, ReqInv
<1>1. ASSUME /\ GoOn(h, [at |-> "store", embed |-> EmbedOf(req[h])])
     PROVE  /\ ReqInv'
            /\ Changed(h, {"at", "embed"}) /\ req'[h].at = "store"
            /\ req'[h].embed = EmbedOf(req[h])
  <2> DEFINE embed == EmbedOf(req[h])
  <2> HIDE DEF embed
  <2>1. GoOn(h, [at |-> "store", embed |-> embed])
    BY <1>1 DEF embed
  <2>2. embed \in Nat
    BY <1>0, <1>1, Whereabouts DEF WriteEmbed, At, Places, EmbedOf, EmbedsOK, Reqs, Row, embed
  <2>3. /\ Changed(h, {"at", "embed"}) /\ req'[h].at = "store" /\ req'[h].embed = embed
    BY <1>0, <2>1, <2>2, GoneWithEmbed DEF Places
  <2>4. InPlace(req'[h])
    BY <1>0, <1>1, <2>3, Whereabouts DEF WriteEmbed, At, InPlace, Idle, PanelOps, MultiOps,
       Changed, Fields, embed
  <2>5. Equipped(req'[h])
    BY <1>0, <1>1, <2>3, Whereabouts DEF WriteEmbed, At, Equipped, InPlace, Idle, PanelOps,
       MultiOps, Changed, Fields, embed
  <2>6. QED
    BY <1>0, <1>1, <2>3, <2>4, <2>5, OneRequest DEF Changed, embed
<1>2. GoOn(h, [at |-> "store", embed |-> EmbedOf(req[h])])
  BY <1>0, Whereabouts DEF WriteEmbed, At, EmbedOf
<1>3. PanelsOK' /\ MultisOK' /\ DiscordOK' /\ BookOK'
  BY <1>0, PanelsKept, MultisKept, DiscordKept, BookKept DEF WriteEmbed
<1>4. EmbedsOK'
  <2>1. nextEmbed + 1 \in Nat /\ nextEmbed \in Nat /\ embeds \in SUBSET Nat
    BY <1>0 DEF EmbedsOK
  <2>2. embeds' \in SUBSET Nat /\ nextEmbed' \in Nat
    BY <2>1 DEF WriteEmbed
  <2>3. QED
    BY <2>2 DEF EmbedsOK
<1>5. QED
  BY <1>1, <1>2, <1>3, <1>4 DEF BaseInv

LEMMA CreateRowStep ==
    ASSUME BaseInv, NEW h \in Handlers, CreateRow(h)
    PROVE  /\ BaseInv'
           /\ Finish(h)
<1>0. /\ ReqInv /\ PanelsOK /\ MultisOK /\ EmbedsOK /\ DiscordOK /\ BookOK
      /\ req \in [Handlers -> Reqs] /\ req[h] \in Reqs /\ InPlace(req[h]) /\ Equipped(req[h])
  BY DEF BaseInv, ReqInv
<1>1. ASSUME /\ Finish(h)
     PROVE  ReqInv'
  BY <1>0, <1>1, FinishedWell
<1>2. Finish(h)
  BY <1>0, Whereabouts DEF CreateRow, At
<1>3. MultisOK' /\ EmbedsOK' /\ DiscordOK' /\ BookOK'
  BY <1>0, MultisKept, EmbedsKept, DiscordKept, BookKept DEF CreateRow
<1>4. PanelsOK'
  <2>1. StoredRow(req[h]) \in Row /\ StoredRow(req[h]).chan \in Channels /\ req[h].on \in Panels
    BY <1>0 DEF CreateRow, StoredRow, Row, Reqs, Equipped, InPlace, At, PanelOps
  <2>2. QED
    BY <1>0, <2>1 DEF CreateRow, PanelsOK
<1>5. QED
  BY <1>1, <1>2, <1>3, <1>4 DEF BaseInv

LEMMA UpdateRowStep ==
    ASSUME BaseInv, NEW h \in Handlers, UpdateRow(h)
    PROVE  /\ BaseInv'
           /\ Changed(h, {"at"}) /\ req'[h].at = "multis"
<1>0. /\ ReqInv /\ PanelsOK /\ MultisOK /\ EmbedsOK /\ DiscordOK /\ BookOK
      /\ req \in [Handlers -> Reqs] /\ req[h] \in Reqs /\ InPlace(req[h]) /\ Equipped(req[h])
  BY DEF BaseInv, ReqInv
<1>1. ASSUME /\ Goto(h, "multis")
     PROVE  /\ ReqInv'
            /\ Changed(h, {"at"}) /\ req'[h].at = "multis"
  <2>1. Goto(h, "multis")
    BY <1>1
  <2>3. /\ Changed(h, {"at"}) /\ req'[h].at = "multis"
    BY <1>0, <2>1, GoneTo DEF Places
  <2>4. InPlace(req'[h])
    BY <1>0, <1>1, <2>3, Whereabouts DEF UpdateRow, At, InPlace, Idle, PanelOps, MultiOps,
       Changed, Fields
  <2>5. Equipped(req'[h])
    BY <1>0, <1>1, <2>3, Whereabouts DEF UpdateRow, At, Equipped, InPlace, Idle, PanelOps,
       MultiOps, Changed, Fields
  <2>6. QED
    BY <1>0, <1>1, <2>3, <2>4, <2>5, OneRequest DEF Changed
<1>2. Goto(h, "multis")
  BY <1>0, Whereabouts DEF UpdateRow, At
<1>3. MultisOK' /\ EmbedsOK' /\ DiscordOK' /\ BookOK'
  BY <1>0, MultisKept, EmbedsKept, DiscordKept, BookKept DEF UpdateRow
<1>4. PanelsOK'
  <2>1. StoredRow(req[h]) \in Row /\ StoredRow(req[h]).chan \in Channels /\ req[h].on \in Panels
    BY <1>0 DEF UpdateRow, StoredRow, Row, Reqs, Equipped, InPlace, At, PanelOps
  <2>2. QED
    BY <1>0, <2>1 DEF UpdateRow, PanelsOK
<1>5. QED
  BY <1>1, <1>2, <1>3, <1>4 DEF BaseInv

LEMMA LoadMultisStep ==
    ASSUME BaseInv, NEW h \in Handlers, LoadMultis(h)
    PROVE  /\ BaseInv'
           /\ \E T \in SUBSET mstored :
                   /\ Loads(req[h], T) /\ Changed(h, {"todo", "mold", "at"})
                   /\ req'[h].todo = T /\ req'[h].mold = [m \in T |-> mrow[m]]
                   /\ req'[h].at = (IF req[h].op = "DeletePanel" THEN "delete" ELSE "next")
<1>0. /\ ReqInv /\ PanelsOK /\ MultisOK /\ EmbedsOK /\ DiscordOK /\ BookOK
      /\ req \in [Handlers -> Reqs] /\ req[h] \in Reqs /\ InPlace(req[h]) /\ Equipped(req[h])
  BY DEF BaseInv, ReqInv
<1>1. ASSUME NEW T \in SUBSET mstored,
           /\ Loads(req[h], T)
           /\ GoOn(h, [todo |-> T, mold |-> [m \in T |-> mrow[m]], at |-> (IF req[h].op = "DeletePanel" THEN "delete" ELSE "next")])
     PROVE  /\ ReqInv'
            /\ Loads(req[h], T) /\ Changed(h, {"todo", "mold", "at"}) /\ req'[h].todo = T
            /\ req'[h].mold = [m \in T |-> mrow[m]]
            /\ req'[h].at = (IF req[h].op = "DeletePanel" THEN "delete" ELSE "next")
  <2> DEFINE rows == [m \in T |-> mrow[m]]
  <2> DEFINE at == (IF req[h].op = "DeletePanel" THEN "delete" ELSE "next")
  <2> HIDE DEF rows, at
  <2>a. T \in SUBSET Multis /\ [m \in T |-> mrow[m]] \in [T -> MRow]
    BY <1>0, <1>1 DEF MultisOK
  <2>b. [m \in T |-> mrow[m]] \in Molds /\ DOMAIN [m \in T |-> mrow[m]] = T
    BY <2>a DEF Molds
  <2>c. \A m \in T : [x \in T |-> mrow[x]][m].chan \in Channels
    BY <1>0, <1>1 DEF MultisOK
  <2>1. GoOn(h, [todo |-> T, mold |-> rows, at |-> at])
    BY <1>1 DEF rows, at
  <2>2. T \in SUBSET Multis /\ rows \in Molds /\ at \in Places
    BY <1>0, <1>1, <2>a, <2>b, <2>c, Whereabouts DEF LoadMultis, At, Places, rows, at
  <2>3. /\ Changed(h, {"todo", "mold", "at"}) /\ req'[h].todo = T /\ req'[h].mold = rows
        /\ req'[h].at = at
    BY <1>0, <2>1, <2>2, GoneWithMultis
  <2>4. InPlace(req'[h])
    BY <1>0, <1>1, <2>a, <2>b, <2>c, <2>3, Whereabouts DEF LoadMultis, At, InPlace, Idle,
       PanelOps, MultiOps, Changed, Fields, rows, at
  <2>5. Equipped(req'[h])
    BY <1>0, <1>1, <2>a, <2>b, <2>c, <2>3, Whereabouts DEF LoadMultis, At, Equipped, InPlace,
       Idle, PanelOps, MultiOps, Changed, Fields, rows, at
  <2>6. QED
    BY <1>0, <1>1, <2>3, <2>4, <2>5, OneRequest DEF Changed, rows, at
<1>2. \E T \in SUBSET mstored : Loads(req[h], T) /\ GoOn(h, [todo |-> T, mold |-> [m \in T |-> mrow[m]], at |-> (IF req[h].op = "DeletePanel" THEN "delete" ELSE "next")])
  BY <1>0, Whereabouts DEF LoadMultis, At, Loads
<1>3. PanelsOK' /\ MultisOK' /\ EmbedsOK' /\ DiscordOK' /\ BookOK'
  BY <1>0, PanelsKept, MultisKept, EmbedsKept, DiscordKept, BookKept DEF LoadMultis
<1>4. QED
  BY <1>1, <1>2, <1>3 DEF BaseInv

LEMMA DeleteEmbedStep ==
    ASSUME BaseInv, NEW h \in Handlers, DeleteEmbed(h)
    PROVE  /\ BaseInv'
           /\ Changed(h, {"at"}) /\ req'[h].at = "deleteRow"
<1>0. /\ ReqInv /\ PanelsOK /\ MultisOK /\ EmbedsOK /\ DiscordOK /\ BookOK
      /\ req \in [Handlers -> Reqs] /\ req[h] \in Reqs /\ InPlace(req[h]) /\ Equipped(req[h])
  BY DEF BaseInv, ReqInv
<1>1. ASSUME /\ Goto(h, "deleteRow")
     PROVE  /\ ReqInv'
            /\ Changed(h, {"at"}) /\ req'[h].at = "deleteRow"
  <2>1. Goto(h, "deleteRow")
    BY <1>1
  <2>3. /\ Changed(h, {"at"}) /\ req'[h].at = "deleteRow"
    BY <1>0, <2>1, GoneTo DEF Places
  <2>4. InPlace(req'[h])
    BY <1>0, <1>1, <2>3, Whereabouts DEF DeleteEmbed, At, InPlace, Idle, PanelOps, MultiOps,
       Changed, Fields
  <2>5. Equipped(req'[h])
    BY <1>0, <1>1, <2>3, Whereabouts DEF DeleteEmbed, At, Equipped, InPlace, Idle, PanelOps,
       MultiOps, Changed, Fields
  <2>6. QED
    BY <1>0, <1>1, <2>3, <2>4, <2>5, OneRequest DEF Changed
<1>2. Goto(h, "deleteRow")
  BY <1>0, Whereabouts DEF DeleteEmbed, At
<1>3. PanelsOK' /\ MultisOK' /\ DiscordOK' /\ BookOK'
  BY <1>0, PanelsKept, MultisKept, DiscordKept, BookKept DEF DeleteEmbed
<1>4. EmbedsOK'
  BY <1>0 DEF DeleteEmbed, EmbedsOK
<1>5. QED
  BY <1>1, <1>2, <1>3, <1>4 DEF BaseInv

LEMMA DeleteRowStep ==
    ASSUME BaseInv, NEW h \in Handlers, DeleteRow(h)
    PROVE  /\ BaseInv'
           /\ Changed(h, {"at"}) /\ req'[h].at = "deleteMessage"
<1>0. /\ ReqInv /\ PanelsOK /\ MultisOK /\ EmbedsOK /\ DiscordOK /\ BookOK
      /\ req \in [Handlers -> Reqs] /\ req[h] \in Reqs /\ InPlace(req[h]) /\ Equipped(req[h])
  BY DEF BaseInv, ReqInv
<1>1. ASSUME /\ Goto(h, "deleteMessage")
     PROVE  /\ ReqInv'
            /\ Changed(h, {"at"}) /\ req'[h].at = "deleteMessage"
  <2>1. Goto(h, "deleteMessage")
    BY <1>1
  <2>3. /\ Changed(h, {"at"}) /\ req'[h].at = "deleteMessage"
    BY <1>0, <2>1, GoneTo DEF Places
  <2>4. InPlace(req'[h])
    BY <1>0, <1>1, <2>3, Whereabouts DEF DeleteRow, At, InPlace, Idle, PanelOps, MultiOps,
       Changed, Fields
  <2>5. Equipped(req'[h])
    BY <1>0, <1>1, <2>3, Whereabouts DEF DeleteRow, At, Equipped, InPlace, Idle, PanelOps,
       MultiOps, Changed, Fields
  <2>6. QED
    BY <1>0, <1>1, <2>3, <2>4, <2>5, OneRequest DEF Changed
<1>2. Goto(h, "deleteMessage")
  BY <1>0, Whereabouts DEF DeleteRow, At
<1>3. EmbedsOK' /\ DiscordOK' /\ BookOK'
  BY <1>0, EmbedsKept, DiscordKept, BookKept DEF DeleteRow
<1>4. PanelsOK'
  BY <1>0 DEF DeleteRow, PanelsOK, NoRow, Row
<1>5. MultisOK'
  BY <1>0 DEF DeleteRow, MultisOK
<1>6. QED
  BY <1>1, <1>2, <1>3, <1>4, <1>5 DEF BaseInv

LEMMA DeletePanelMessageStep ==
    ASSUME BaseInv, NEW h \in Handlers, DeletePanelMessage(h)
    PROVE  /\ BaseInv'
           /\ Changed(h, {"at"}) /\ req'[h].at = "next"
<1>0. /\ ReqInv /\ PanelsOK /\ MultisOK /\ EmbedsOK /\ DiscordOK /\ BookOK
      /\ req \in [Handlers -> Reqs] /\ req[h] \in Reqs /\ InPlace(req[h]) /\ Equipped(req[h])
  BY DEF BaseInv, ReqInv
<1>1. ASSUME /\ Goto(h, "next")
     PROVE  /\ ReqInv'
            /\ Changed(h, {"at"}) /\ req'[h].at = "next"
  <2>1. Goto(h, "next")
    BY <1>1
  <2>3. /\ Changed(h, {"at"}) /\ req'[h].at = "next"
    BY <1>0, <2>1, GoneTo DEF Places
  <2>4. InPlace(req'[h])
    BY <1>0, <1>1, <2>3, Whereabouts DEF DeletePanelMessage, At, InPlace, Idle, PanelOps,
       MultiOps, Changed, Fields
  <2>5. Equipped(req'[h])
    BY <1>0, <1>1, <2>3, Whereabouts DEF DeletePanelMessage, At, Equipped, InPlace, Idle,
       PanelOps, MultiOps, Changed, Fields
  <2>6. QED
    BY <1>0, <1>1, <2>3, <2>4, <2>5, OneRequest DEF Changed
<1>2. Goto(h, "next")
  BY <1>0, Whereabouts DEF DeletePanelMessage, At
<1>3. PanelsOK' /\ MultisOK' /\ EmbedsOK' /\ BookOK'
  BY <1>0, PanelsKept, MultisKept, EmbedsKept, BookKept DEF DeletePanelMessage
<1>4. DiscordOK'
  BY <1>0, DeletedTypes DEF DeletePanelMessage
<1>5. QED
  BY <1>1, <1>2, <1>3, <1>4 DEF BaseInv

LEMMA NextMultiStep ==
    ASSUME BaseInv, NEW h \in Handlers, NextMulti(h)
    PROVE  /\ BaseInv'
           /\ \/ /\ req[h].todo = {} /\ Finish(h)
              \/ \E m \in req[h].todo :
                   /\ Changed(h, {"todo", "list", "panels", "at"})
                   /\ req'[h].todo = req[h].todo \ {m} /\ req'[h].list = targets[m]
                   /\ req'[h].panels = {m}
                   /\ req'[h].at = (IF req[h].op = "DeletePanel" THEN "sendMulti" ELSE "editMulti")
<1>0. /\ ReqInv /\ PanelsOK /\ MultisOK /\ EmbedsOK /\ DiscordOK /\ BookOK
      /\ req \in [Handlers -> Reqs] /\ req[h] \in Reqs /\ InPlace(req[h]) /\ Equipped(req[h])
  BY DEF BaseInv, ReqInv
<1>1. ASSUME /\ req[h].todo = {} /\ Finish(h)
     PROVE  ReqInv'
  BY <1>0, <1>1, FinishedWell
<1>2. ASSUME NEW m \in req[h].todo,
           /\ GoOn(h, [todo |-> req[h].todo \ {m}, list |-> targets[m], panels |-> {m}, at |-> (IF req[h].op = "DeletePanel" THEN "sendMulti" ELSE "editMulti")])
     PROVE  /\ ReqInv'
            /\ Changed(h, {"todo", "list", "panels", "at"})
            /\ req'[h].todo = req[h].todo \ {m} /\ req'[h].list = targets[m]
            /\ req'[h].panels = {m}
            /\ req'[h].at = (IF req[h].op = "DeletePanel" THEN "sendMulti" ELSE "editMulti")
  <2> DEFINE rest == req[h].todo \ {m}
  <2> DEFINE list == targets[m]
  <2> DEFINE at == (IF req[h].op = "DeletePanel" THEN "sendMulti" ELSE "editMulti")
  <2> HIDE DEF rest, list, at
  <2>a. /\ req[h].todo \ {m} \in SUBSET Multis /\ targets[m] \in SUBSET Panels /\ {m} \in SUBSET Objects
        /\ m \in DOMAIN req[h].mold
    BY <1>0, <1>2, Whereabouts DEF NextMulti, Reqs, MultisOK, Objects, Equipped, PanelOps
  <2>1. GoOn(h, [todo |-> rest, list |-> list, panels |-> {m}, at |-> at])
    BY <1>2 DEF rest, list, at
  <2>2. rest \in SUBSET Multis /\ list \in SUBSET Panels /\ {m} \in SUBSET Objects /\ at \in Places
    BY <1>0, <1>2, <2>a, Whereabouts DEF NextMulti, At, Places, rest, list, at
  <2>3. /\ Changed(h, {"todo", "list", "panels", "at"}) /\ req'[h].todo = rest
        /\ req'[h].list = list /\ req'[h].panels = {m} /\ req'[h].at = at
    BY <1>0, <2>1, <2>2, GoneToNext
  <2>4. InPlace(req'[h])
    BY <1>0, <1>2, <2>a, <2>3, Whereabouts DEF NextMulti, At, InPlace, Idle, PanelOps, MultiOps,
       Changed, Fields, rest, list, at
  <2>5. Equipped(req'[h])
    BY <1>0, <1>2, <2>a, <2>3, Whereabouts DEF NextMulti, At, Equipped, InPlace, Idle, PanelOps,
       MultiOps, Changed, Fields, rest, list, at
  <2>6. QED
    BY <1>0, <1>2, <2>3, <2>4, <2>5, OneRequest DEF Changed, rest, list, at
<1>3. \/ req[h].todo = {} /\ Finish(h)
      \/ \E m \in req[h].todo : GoOn(h, [todo |-> req[h].todo \ {m}, list |-> targets[m], panels |-> {m}, at |-> (IF req[h].op = "DeletePanel" THEN "sendMulti" ELSE "editMulti")])
  BY <1>0, Whereabouts DEF NextMulti, At
<1>4. PanelsOK' /\ MultisOK' /\ EmbedsOK' /\ DiscordOK' /\ BookOK'
  BY <1>0, PanelsKept, MultisKept, EmbedsKept, DiscordKept, BookKept DEF NextMulti
<1>5. QED
  BY <1>1, <1>2, <1>3, <1>4 DEF BaseInv

LEMMA EditMultiStep ==
    ASSUME BaseInv, NEW h \in Handlers, EditMulti(h)
    PROVE  /\ BaseInv'
           /\ \/ /\ IsLive(OldMulti(req[h]).chan, OldMulti(req[h]).msg)
                 /\ EditMessage(OldMulti(req[h]).chan, OldMulti(req[h]).msg, req[h].list)
                 /\ Changed(h, {"at"}) /\ req'[h].at = "next"
              \/ /\ ~IsLive(OldMulti(req[h]).chan, OldMulti(req[h]).msg)
                 /\ UNCHANGED discord /\ Changed(h, {"at"}) /\ req'[h].at = "sendMulti"
<1>0. /\ ReqInv /\ PanelsOK /\ MultisOK /\ EmbedsOK /\ DiscordOK /\ BookOK
      /\ req \in [Handlers -> Reqs] /\ req[h] \in Reqs /\ InPlace(req[h]) /\ Equipped(req[h])
  BY DEF BaseInv, ReqInv
<1>1. ASSUME /\ IsLive(OldMulti(req[h]).chan, OldMulti(req[h]).msg)
             /\ EditMessage(OldMulti(req[h]).chan, OldMulti(req[h]).msg, req[h].list)
             /\ Goto(h, "next")
     PROVE  /\ ReqInv'
            /\ IsLive(OldMulti(req[h]).chan, OldMulti(req[h]).msg)
            /\ EditMessage(OldMulti(req[h]).chan, OldMulti(req[h]).msg, req[h].list)
            /\ Changed(h, {"at"}) /\ req'[h].at = "next"
  <2>1. Goto(h, "next")
    BY <1>1
  <2>3. /\ Changed(h, {"at"}) /\ req'[h].at = "next"
    BY <1>0, <2>1, GoneTo DEF Places
  <2>4. InPlace(req'[h])
    BY <1>0, <1>1, <2>3, Whereabouts DEF EditMulti, At, InPlace, Idle, PanelOps, MultiOps,
       Changed, Fields
  <2>5. Equipped(req'[h])
    BY <1>0, <1>1, <2>3, Whereabouts DEF EditMulti, At, Equipped, InPlace, Idle, PanelOps,
       MultiOps, Changed, Fields
  <2>6. QED
    BY <1>0, <1>1, <2>3, <2>4, <2>5, OneRequest DEF Changed
<1>2. ASSUME /\ ~IsLive(OldMulti(req[h]).chan, OldMulti(req[h]).msg) /\ UNCHANGED discord
             /\ Goto(h, "sendMulti")
     PROVE  /\ ReqInv'
            /\ ~IsLive(OldMulti(req[h]).chan, OldMulti(req[h]).msg) /\ UNCHANGED discord
            /\ Changed(h, {"at"}) /\ req'[h].at = "sendMulti"
  <2>1. Goto(h, "sendMulti")
    BY <1>2
  <2>3. /\ Changed(h, {"at"}) /\ req'[h].at = "sendMulti"
    BY <1>0, <2>1, GoneTo DEF Places
  <2>4. InPlace(req'[h])
    BY <1>0, <1>2, <2>3, Whereabouts DEF EditMulti, At, InPlace, Idle, PanelOps, MultiOps,
       Changed, Fields
  <2>5. Equipped(req'[h])
    BY <1>0, <1>2, <2>3, Whereabouts DEF EditMulti, At, Equipped, InPlace, Idle, PanelOps,
       MultiOps, Changed, Fields
  <2>6. QED
    BY <1>0, <1>2, <2>3, <2>4, <2>5, OneRequest DEF Changed
<1>3. \/ IsLive(OldMulti(req[h]).chan, OldMulti(req[h]).msg) /\ EditMessage(OldMulti(req[h]).chan, OldMulti(req[h]).msg, req[h].list) /\ Goto(h, "next")
      \/ ~IsLive(OldMulti(req[h]).chan, OldMulti(req[h]).msg) /\ UNCHANGED discord /\ Goto(h, "sendMulti")
  BY <1>0, Whereabouts DEF EditMulti, At
<1>4. PanelsOK' /\ MultisOK' /\ EmbedsOK' /\ BookOK'
  BY <1>0, PanelsKept, MultisKept, EmbedsKept, BookKept DEF EditMulti
<1>5. DiscordOK'
  <2>1. req[h].list \in SUBSET Panels
    BY <1>0 DEF Reqs
  <2>2. QED
    BY <1>0, <2>1, EditedTypes, DiscordKept DEF EditMulti
<1>6. QED
  BY <1>1, <1>2, <1>3, <1>4, <1>5 DEF BaseInv

LEMMA SendMultiStep ==
    ASSUME BaseInv, NEW h \in Handlers, SendMulti(h)
    PROVE  /\ BaseInv'
           /\ \/ /\ faults' = faults + 1 /\ Finish(h)
              \/ /\ UNCHANGED faults
                 /\ Send(h, Multi(req[h]), OldMulti(req[h]).chan, req[h].list, "recordMulti")
                 /\ Changed(h, {"msg", "at"}) /\ req'[h].msg = Len(sentBy) + 1
                 /\ req'[h].at = "recordMulti"
              \/ /\ faults' = faults + 1 /\ UNCHANGED discord /\ Changed(h, {"at"})
                 /\ req'[h].at = "next"
<1>0. /\ ReqInv /\ PanelsOK /\ MultisOK /\ EmbedsOK /\ DiscordOK /\ BookOK
      /\ req \in [Handlers -> Reqs] /\ req[h] \in Reqs /\ InPlace(req[h]) /\ Equipped(req[h])
  BY DEF BaseInv, ReqInv
<1>1. ASSUME /\ faults' = faults + 1 /\ Finish(h)
     PROVE  ReqInv'
  BY <1>0, <1>1, FinishedWell
<1>2. ASSUME /\ UNCHANGED faults
             /\ Send(h, Multi(req[h]), OldMulti(req[h]).chan, req[h].list, "recordMulti")
             /\ GoOn(h, [msg |-> Len(sentBy) + 1, at |-> "recordMulti"])
     PROVE  /\ ReqInv'
            /\ UNCHANGED faults
            /\ Send(h, Multi(req[h]), OldMulti(req[h]).chan, req[h].list, "recordMulti")
            /\ Changed(h, {"msg", "at"}) /\ req'[h].msg = Len(sentBy) + 1
            /\ req'[h].at = "recordMulti"
  <2> DEFINE id == Len(sentBy) + 1
  <2> HIDE DEF id
  <2>1. GoOn(h, [msg |-> id, at |-> "recordMulti"])
    BY <1>2 DEF id
  <2>2. id \in Nat
    BY <1>0, <1>2, Whereabouts DEF SendMulti, At, Places, DiscordOK, id
  <2>3. /\ Changed(h, {"msg", "at"}) /\ req'[h].msg = id /\ req'[h].at = "recordMulti"
    BY <1>0, <2>1, <2>2, GoneWithMessage DEF Places
  <2>4. InPlace(req'[h])
    BY <1>0, <1>2, <2>3, Whereabouts DEF SendMulti, At, InPlace, Idle, PanelOps, MultiOps,
       Changed, Fields, id
  <2>5. Equipped(req'[h])
    BY <1>0, <1>2, <2>3, Whereabouts DEF SendMulti, At, Equipped, InPlace, Idle, PanelOps,
       MultiOps, Changed, Fields, id
  <2>6. QED
    BY <1>0, <1>2, <2>3, <2>4, <2>5, OneRequest DEF Changed, id
<1>3. ASSUME /\ faults' = faults + 1 /\ UNCHANGED discord /\ Goto(h, "next")
     PROVE  /\ ReqInv'
            /\ faults' = faults + 1 /\ UNCHANGED discord /\ Changed(h, {"at"})
            /\ req'[h].at = "next"
  <2>1. Goto(h, "next")
    BY <1>3
  <2>3. /\ Changed(h, {"at"}) /\ req'[h].at = "next"
    BY <1>0, <2>1, GoneTo DEF Places
  <2>4. InPlace(req'[h])
    BY <1>0, <1>3, <2>3, Whereabouts DEF SendMulti, At, InPlace, Idle, PanelOps, MultiOps,
       Changed, Fields
  <2>5. Equipped(req'[h])
    BY <1>0, <1>3, <2>3, Whereabouts DEF SendMulti, At, Equipped, InPlace, Idle, PanelOps,
       MultiOps, Changed, Fields
  <2>6. QED
    BY <1>0, <1>3, <2>3, <2>4, <2>5, OneRequest DEF Changed
<1>4. \/ faults' = faults + 1 /\ Finish(h)
      \/ UNCHANGED faults /\ Send(h, Multi(req[h]), OldMulti(req[h]).chan, req[h].list, "recordMulti") /\ GoOn(h, [msg |-> Len(sentBy) + 1, at |-> "recordMulti"])
      \/ faults' = faults + 1 /\ UNCHANGED discord /\ Goto(h, "next")
  BY <1>0, Whereabouts DEF SendMulti, At, Send, SendLost
<1>5. PanelsOK' /\ MultisOK' /\ EmbedsOK'
  BY <1>0, PanelsKept, MultisKept, EmbedsKept DEF SendMulti
<1>6. DiscordOK'
  <2>1. PICK m \in DOMAIN req[h].mold : req[h].panels = {m}
    BY <1>0 DEF SendMulti, Equipped
  <2>2. Multi(req[h]) = m /\ OldMulti(req[h]) = req[h].mold[m]
    BY <2>1, TheMulti
  <2>3. m \in Multis /\ req[h].mold[m].chan \in Channels /\ req[h].list \in SUBSET Panels
    BY <1>0, <2>1, Whereabouts DEF SendMulti, Reqs, Molds, Equipped, PanelOps
  <2>4. m \in Objects
    BY <2>3 DEF Objects
  <2>5. QED
    BY <1>0, <2>2, <2>3, <2>4, SentTypes, DiscordKept DEF SendMulti, Send, SendLost
<1>7. BookOK'
  BY <1>0, FaultKept DEF SendMulti, Send, SendLost
<1>8. QED
  BY <1>1, <1>2, <1>3, <1>4, <1>5, <1>6, <1>7 DEF BaseInv

LEMMA RecordMultiStep ==
    ASSUME BaseInv, NEW h \in Handlers, RecordMulti(h)
    PROVE  /\ BaseInv'
           /\ Changed(h, {"at"})
           /\ req'[h].at = (IF req[h].op = "DeletePanel" THEN "deleteMulti" ELSE "next")
<1>0. /\ ReqInv /\ PanelsOK /\ MultisOK /\ EmbedsOK /\ DiscordOK /\ BookOK
      /\ req \in [Handlers -> Reqs] /\ req[h] \in Reqs /\ InPlace(req[h]) /\ Equipped(req[h])
  BY DEF BaseInv, ReqInv
<1>1. ASSUME /\ Goto(h, (IF req[h].op = "DeletePanel" THEN "deleteMulti" ELSE "next"))
     PROVE  /\ ReqInv'
            /\ Changed(h, {"at"})
            /\ req'[h].at = (IF req[h].op = "DeletePanel" THEN "deleteMulti" ELSE "next")
  <2> DEFINE at == (IF req[h].op = "DeletePanel" THEN "deleteMulti" ELSE "next")
  <2> HIDE DEF at
  <2>1. Goto(h, at)
    BY <1>1 DEF at
  <2>2. at \in Places
    BY <1>0, <1>1, Whereabouts DEF RecordMulti, At, Places, at
  <2>3. /\ Changed(h, {"at"}) /\ req'[h].at = at
    BY <1>0, <2>1, <2>2, GoneTo
  <2>4. InPlace(req'[h])
    BY <1>0, <1>1, <2>3, Whereabouts DEF RecordMulti, At, InPlace, Idle, PanelOps, MultiOps,
       Changed, Fields, at
  <2>5. Equipped(req'[h])
    BY <1>0, <1>1, <2>3, Whereabouts DEF RecordMulti, At, Equipped, InPlace, Idle, PanelOps,
       MultiOps, Changed, Fields, at
  <2>6. QED
    BY <1>0, <1>1, <2>3, <2>4, <2>5, OneRequest DEF Changed, at
<1>2. Goto(h, (IF req[h].op = "DeletePanel" THEN "deleteMulti" ELSE "next"))
  BY <1>0, Whereabouts DEF RecordMulti, At
<1>3. PanelsOK' /\ EmbedsOK' /\ DiscordOK' /\ BookOK'
  BY <1>0, PanelsKept, EmbedsKept, DiscordKept, BookKept DEF RecordMulti
<1>4. MultisOK'
  <2>1. ASSUME NEW m, NEW id \in Nat, SetMultiMessage(m, id) PROVE MultisOK'
    <3>1. CASE m \in mstored
      <4>1. With(mrow[m], [msg |-> id]) \in MRow /\ With(mrow[m], [msg |-> id]).chan = mrow[m].chan
        BY <1>0, <3>1 DEF With, MRow, MultisOK
      <4>2. QED
        BY <1>0, <2>1, <3>1, <4>1 DEF RecordMulti, SetMultiMessage, MultisOK
    <3>2. CASE m \notin mstored
      BY <1>0, <2>1, <3>2 DEF RecordMulti, SetMultiMessage, MultisOK
    <3>3. QED
      BY <3>1, <3>2
  <2>2. QED
    BY <1>0, <2>1 DEF RecordMulti, Reqs
<1>5. QED
  BY <1>1, <1>2, <1>3, <1>4 DEF BaseInv

LEMMA DeleteMultiStep ==
    ASSUME BaseInv, NEW h \in Handlers, DeleteMulti(h)
    PROVE  /\ BaseInv'
           /\ Changed(h, {"at"}) /\ req'[h].at = "next"
<1>0. /\ ReqInv /\ PanelsOK /\ MultisOK /\ EmbedsOK /\ DiscordOK /\ BookOK
      /\ req \in [Handlers -> Reqs] /\ req[h] \in Reqs /\ InPlace(req[h]) /\ Equipped(req[h])
  BY DEF BaseInv, ReqInv
<1>1. ASSUME /\ Goto(h, "next")
     PROVE  /\ ReqInv'
            /\ Changed(h, {"at"}) /\ req'[h].at = "next"
  <2>1. Goto(h, "next")
    BY <1>1
  <2>3. /\ Changed(h, {"at"}) /\ req'[h].at = "next"
    BY <1>0, <2>1, GoneTo DEF Places
  <2>4. InPlace(req'[h])
    BY <1>0, <1>1, <2>3, Whereabouts DEF DeleteMulti, At, InPlace, Idle, PanelOps, MultiOps,
       Changed, Fields
  <2>5. Equipped(req'[h])
    BY <1>0, <1>1, <2>3, Whereabouts DEF DeleteMulti, At, Equipped, InPlace, Idle, PanelOps,
       MultiOps, Changed, Fields
  <2>6. QED
    BY <1>0, <1>1, <2>3, <2>4, <2>5, OneRequest DEF Changed
<1>2. Goto(h, "next")
  BY <1>0, Whereabouts DEF DeleteMulti, At
<1>3. PanelsOK' /\ MultisOK' /\ EmbedsOK'
  BY <1>0, PanelsKept, MultisKept, EmbedsKept DEF DeleteMulti
<1>4. DiscordOK'
  BY <1>0, DeletedTypes, DiscordKept DEF DeleteMulti
<1>5. BookOK'
  BY <1>0, FaultKept DEF DeleteMulti
<1>6. QED
  BY <1>1, <1>2, <1>3, <1>4, <1>5 DEF BaseInv

LEMMA LoadMultiStep ==
    ASSUME BaseInv, NEW h \in Handlers, LoadMulti(h)
    PROVE  /\ BaseInv'
           /\ \/ /\ Finish(h)
              \/ /\ (req[h].op # "MultiPanelCreate" => req[h].on \in mstored)
                 /\ (req[h].op \in {"MultiPanelCreate", "MultiPanelUpdate"} => ValidPanels(req[h].panels))
                 /\ Changed(h, {"mold", "list", "at"}) /\ req'[h].mold = mrow
                 /\ req'[h].list = req[h].panels
                 /\ req'[h].at = (IF req[h].op = "MultiPanelCreate" THEN "sendOwn" ELSE "oldOwn")
<1>0. /\ ReqInv /\ PanelsOK /\ MultisOK /\ EmbedsOK /\ DiscordOK /\ BookOK
      /\ req \in [Handlers -> Reqs] /\ req[h] \in Reqs /\ InPlace(req[h]) /\ Equipped(req[h])
  BY DEF BaseInv, ReqInv
<1>1. ASSUME /\ Finish(h)
     PROVE  ReqInv'
  BY <1>0, <1>1, FinishedWell
<1>2. ASSUME /\ (req[h].op # "MultiPanelCreate" => req[h].on \in mstored)
             /\ (req[h].op \in {"MultiPanelCreate", "MultiPanelUpdate"} => ValidPanels(req[h].panels))
             /\ GoOn(h, [mold |-> mrow, list |-> req[h].panels, at |-> (IF req[h].op = "MultiPanelCreate" THEN "sendOwn" ELSE "oldOwn")])
     PROVE  /\ ReqInv'
            /\ (req[h].op # "MultiPanelCreate" => req[h].on \in mstored)
            /\ (req[h].op \in {"MultiPanelCreate", "MultiPanelUpdate"} => ValidPanels(req[h].panels))
            /\ Changed(h, {"mold", "list", "at"}) /\ req'[h].mold = mrow
            /\ req'[h].list = req[h].panels
            /\ req'[h].at = (IF req[h].op = "MultiPanelCreate" THEN "sendOwn" ELSE "oldOwn")
  <2> DEFINE list == req[h].panels
  <2> DEFINE at == (IF req[h].op = "MultiPanelCreate" THEN "sendOwn" ELSE "oldOwn")
  <2> HIDE DEF list, at
  <2>a. mrow \in [Multis -> MRow] /\ mrow \in Molds /\ \A m \in mstored : mrow[m].chan \in Channels
    BY <1>0 DEF MultisOK, Molds
  <2>1. GoOn(h, [mold |-> mrow, list |-> list, at |-> at])
    BY <1>2 DEF list, at
  <2>2. mrow \in Molds /\ list \in SUBSET Panels /\ at \in Places
    BY <1>0, <1>2, <2>a, Whereabouts DEF LoadMulti, At, Places, Equipped, list, at
  <2>3. /\ Changed(h, {"mold", "list", "at"}) /\ req'[h].mold = mrow /\ req'[h].list = list
        /\ req'[h].at = at
    BY <1>0, <2>1, <2>2, GoneWithRow
  <2>4. InPlace(req'[h])
    BY <1>0, <1>2, <2>a, <2>3, Whereabouts DEF LoadMulti, At, InPlace, Idle, PanelOps, MultiOps,
       Changed, Fields, list, at
  <2>5. Equipped(req'[h])
    BY <1>0, <1>2, <2>a, <2>3, Whereabouts DEF LoadMulti, At, Equipped, InPlace, Idle, PanelOps,
       MultiOps, Changed, Fields, list, at
  <2>6. QED
    BY <1>0, <1>2, <2>3, <2>4, <2>5, OneRequest DEF Changed, list, at
<1>3. \/ Finish(h)
      \/ (req[h].op # "MultiPanelCreate" => req[h].on \in mstored) /\ (req[h].op \in {"MultiPanelCreate", "MultiPanelUpdate"} => ValidPanels(req[h].panels)) /\ GoOn(h, [mold |-> mrow, list |-> req[h].panels, at |-> (IF req[h].op = "MultiPanelCreate" THEN "sendOwn" ELSE "oldOwn")])
  BY <1>0, Whereabouts DEF LoadMulti, At
<1>4. PanelsOK' /\ MultisOK' /\ EmbedsOK' /\ DiscordOK' /\ BookOK'
  BY <1>0, PanelsKept, MultisKept, EmbedsKept, DiscordKept, BookKept DEF LoadMulti
<1>5. QED
  BY <1>1, <1>2, <1>3, <1>4 DEF BaseInv

LEMMA OldMultiMessageStep ==
    ASSUME BaseInv, NEW h \in Handlers, OldMultiMessage(h)
    PROVE  /\ BaseInv'
           /\ \/ /\ req[h].op = "MultiPanelUpdate"
                 /\ req[h].mold[req[h].on].chan = req[h].chan
                 /\ IsLive(req[h].mold[req[h].on].chan, req[h].mold[req[h].on].msg)
                 /\ EditMessage(req[h].mold[req[h].on].chan, req[h].mold[req[h].on].msg, req[h].list)
                 /\ Changed(h, {"msg", "at"}) /\ req'[h].msg = req[h].mold[req[h].on].msg
                 /\ req'[h].at = "storeOwn"
              \/ /\ req[h].op = "MultiPanelUpdate"
                 /\ req[h].mold[req[h].on].chan = req[h].chan
                 /\ ~IsLive(req[h].mold[req[h].on].chan, req[h].mold[req[h].on].msg)
                 /\ UNCHANGED discord /\ Changed(h, {"at"}) /\ req'[h].at = "sendOwn"
              \/ /\ ~(req[h].op = "MultiPanelUpdate" /\ req[h].mold[req[h].on].chan = req[h].chan)
                 /\ DeleteMessage(req[h].mold[req[h].on].chan, req[h].mold[req[h].on].msg)
                 /\ Changed(h, {"at"}) /\ req'[h].at = AfterDelete(req[h].op)
<1>0. /\ ReqInv /\ PanelsOK /\ MultisOK /\ EmbedsOK /\ DiscordOK /\ BookOK
      /\ req \in [Handlers -> Reqs] /\ req[h] \in Reqs /\ InPlace(req[h]) /\ Equipped(req[h])
  BY DEF BaseInv, ReqInv
<1>1. ASSUME /\ req[h].op = "MultiPanelUpdate" /\ req[h].mold[req[h].on].chan = req[h].chan
             /\ IsLive(req[h].mold[req[h].on].chan, req[h].mold[req[h].on].msg)
             /\ EditMessage(req[h].mold[req[h].on].chan, req[h].mold[req[h].on].msg, req[h].list)
             /\ GoOn(h, [msg |-> req[h].mold[req[h].on].msg, at |-> "storeOwn"])
     PROVE  /\ ReqInv'
            /\ req[h].op = "MultiPanelUpdate" /\ req[h].mold[req[h].on].chan = req[h].chan
            /\ IsLive(req[h].mold[req[h].on].chan, req[h].mold[req[h].on].msg)
            /\ EditMessage(req[h].mold[req[h].on].chan, req[h].mold[req[h].on].msg, req[h].list)
            /\ Changed(h, {"msg", "at"}) /\ req'[h].msg = req[h].mold[req[h].on].msg
            /\ req'[h].at = "storeOwn"
  <2> DEFINE id == req[h].mold[req[h].on].msg
  <2> HIDE DEF id
  <2>1. GoOn(h, [msg |-> id, at |-> "storeOwn"])
    BY <1>1 DEF id
  <2>2. id \in Nat
    BY <1>0, <1>1, Whereabouts DEF OldMultiMessage, At, Places, InPlace, Equipped, MultiOps, MRow,
       id
  <2>3. /\ Changed(h, {"msg", "at"}) /\ req'[h].msg = id /\ req'[h].at = "storeOwn"
    BY <1>0, <2>1, <2>2, GoneWithMessage DEF Places
  <2>4. InPlace(req'[h])
    BY <1>0, <1>1, <2>3, Whereabouts DEF OldMultiMessage, At, InPlace, Idle, PanelOps, MultiOps,
       Changed, Fields, id
  <2>5. Equipped(req'[h])
    BY <1>0, <1>1, <2>3, Whereabouts DEF OldMultiMessage, At, Equipped, InPlace, Idle, PanelOps,
       MultiOps, Changed, Fields, id
  <2>6. QED
    BY <1>0, <1>1, <2>3, <2>4, <2>5, OneRequest DEF Changed, id
<1>2. ASSUME /\ req[h].op = "MultiPanelUpdate" /\ req[h].mold[req[h].on].chan = req[h].chan
             /\ ~IsLive(req[h].mold[req[h].on].chan, req[h].mold[req[h].on].msg)
             /\ UNCHANGED discord /\ Goto(h, "sendOwn")
     PROVE  /\ ReqInv'
            /\ req[h].op = "MultiPanelUpdate" /\ req[h].mold[req[h].on].chan = req[h].chan
            /\ ~IsLive(req[h].mold[req[h].on].chan, req[h].mold[req[h].on].msg)
            /\ UNCHANGED discord /\ Changed(h, {"at"}) /\ req'[h].at = "sendOwn"
  <2>1. Goto(h, "sendOwn")
    BY <1>2
  <2>3. /\ Changed(h, {"at"}) /\ req'[h].at = "sendOwn"
    BY <1>0, <2>1, GoneTo DEF Places
  <2>4. InPlace(req'[h])
    BY <1>0, <1>2, <2>3, Whereabouts DEF OldMultiMessage, At, InPlace, Idle, PanelOps, MultiOps,
       Changed, Fields
  <2>5. Equipped(req'[h])
    BY <1>0, <1>2, <2>3, Whereabouts DEF OldMultiMessage, At, Equipped, InPlace, Idle, PanelOps,
       MultiOps, Changed, Fields
  <2>6. QED
    BY <1>0, <1>2, <2>3, <2>4, <2>5, OneRequest DEF Changed
<1>3. ASSUME /\ ~(req[h].op = "MultiPanelUpdate" /\ req[h].mold[req[h].on].chan = req[h].chan)
             /\ DeleteMessage(req[h].mold[req[h].on].chan, req[h].mold[req[h].on].msg)
             /\ Goto(h, AfterDelete(req[h].op))
     PROVE  /\ ReqInv'
            /\ ~(req[h].op = "MultiPanelUpdate" /\ req[h].mold[req[h].on].chan = req[h].chan)
            /\ DeleteMessage(req[h].mold[req[h].on].chan, req[h].mold[req[h].on].msg)
            /\ Changed(h, {"at"}) /\ req'[h].at = AfterDelete(req[h].op)
  <2> DEFINE at == AfterDelete(req[h].op)
  <2> HIDE DEF at
  <2>1. Goto(h, at)
    BY <1>3 DEF at
  <2>2. at \in Places
    BY <1>0, <1>3, Whereabouts DEF OldMultiMessage, At, Places, AfterDelete, at
  <2>3. /\ Changed(h, {"at"}) /\ req'[h].at = at
    BY <1>0, <2>1, <2>2, GoneTo
  <2>4. InPlace(req'[h])
    BY <1>0, <1>3, <2>3, Whereabouts DEF OldMultiMessage, At, InPlace, Idle, PanelOps, MultiOps,
       Changed, Fields, AfterDelete, at
  <2>5. Equipped(req'[h])
    BY <1>0, <1>3, <2>3, Whereabouts DEF OldMultiMessage, At, Equipped, InPlace, Idle, PanelOps,
       MultiOps, Changed, Fields, AfterDelete, at
  <2>6. QED
    BY <1>0, <1>3, <2>3, <2>4, <2>5, OneRequest DEF Changed, at
<1>4. \/ req[h].op = "MultiPanelUpdate" /\ req[h].mold[req[h].on].chan = req[h].chan /\ IsLive(req[h].mold[req[h].on].chan, req[h].mold[req[h].on].msg) /\ EditMessage(req[h].mold[req[h].on].chan, req[h].mold[req[h].on].msg, req[h].list) /\ GoOn(h, [msg |-> req[h].mold[req[h].on].msg, at |-> "storeOwn"])
      \/ req[h].op = "MultiPanelUpdate" /\ req[h].mold[req[h].on].chan = req[h].chan /\ ~IsLive(req[h].mold[req[h].on].chan, req[h].mold[req[h].on].msg) /\ UNCHANGED discord /\ Goto(h, "sendOwn")
      \/ ~(req[h].op = "MultiPanelUpdate" /\ req[h].mold[req[h].on].chan = req[h].chan) /\ DeleteMessage(req[h].mold[req[h].on].chan, req[h].mold[req[h].on].msg) /\ Goto(h, AfterDelete(req[h].op))
  BY <1>0, Whereabouts DEF OldMultiMessage, At
<1>5. PanelsOK' /\ MultisOK' /\ EmbedsOK' /\ BookOK'
  BY <1>0, PanelsKept, MultisKept, EmbedsKept, BookKept DEF OldMultiMessage
<1>6. DiscordOK'
  <2>1. req[h].list \in SUBSET Panels
    BY <1>0 DEF Reqs
  <2>2. QED
    BY <1>0, <2>1, EditedTypes, DeletedTypes, DiscordKept DEF OldMultiMessage
<1>7. QED
  BY <1>1, <1>2, <1>3, <1>4, <1>5, <1>6 DEF BaseInv

LEMMA OldMultiMessageStaysStep ==
    ASSUME BaseInv, NEW h \in Handlers, OldMultiMessageStays(h)
    PROVE  /\ BaseInv'
           /\ Changed(h, {"at"}) /\ req'[h].at = AfterDelete(req[h].op)
<1>0. /\ ReqInv /\ PanelsOK /\ MultisOK /\ EmbedsOK /\ DiscordOK /\ BookOK
      /\ req \in [Handlers -> Reqs] /\ req[h] \in Reqs /\ InPlace(req[h]) /\ Equipped(req[h])
  BY DEF BaseInv, ReqInv
<1>1. ASSUME /\ Goto(h, AfterDelete(req[h].op))
     PROVE  /\ ReqInv'
            /\ Changed(h, {"at"}) /\ req'[h].at = AfterDelete(req[h].op)
  <2> DEFINE at == AfterDelete(req[h].op)
  <2> HIDE DEF at
  <2>1. Goto(h, at)
    BY <1>1 DEF at
  <2>2. at \in Places
    BY <1>0, <1>1, Whereabouts DEF OldMultiMessageStays, At, Places, AfterDelete, at
  <2>3. /\ Changed(h, {"at"}) /\ req'[h].at = at
    BY <1>0, <2>1, <2>2, GoneTo
  <2>4. InPlace(req'[h])
    BY <1>0, <1>1, <2>3, Whereabouts DEF OldMultiMessageStays, At, InPlace, Idle, PanelOps,
       MultiOps, Changed, Fields, AfterDelete, at
  <2>5. Equipped(req'[h])
    BY <1>0, <1>1, <2>3, Whereabouts DEF OldMultiMessageStays, At, Equipped, InPlace, Idle,
       PanelOps, MultiOps, Changed, Fields, AfterDelete, at
  <2>6. QED
    BY <1>0, <1>1, <2>3, <2>4, <2>5, OneRequest DEF Changed, at
<1>2. Goto(h, AfterDelete(req[h].op))
  BY <1>0, Whereabouts DEF OldMultiMessageStays, At
<1>3. PanelsOK' /\ MultisOK' /\ EmbedsOK' /\ DiscordOK'
  BY <1>0, PanelsKept, MultisKept, EmbedsKept, DiscordKept DEF OldMultiMessageStays
<1>4. BookOK'
  BY <1>0, FaultKept DEF OldMultiMessageStays
<1>5. QED
  BY <1>1, <1>2, <1>3, <1>4 DEF BaseInv

LEMMA ListOwnStep ==
    ASSUME BaseInv, NEW h \in Handlers, ListOwn(h)
    PROVE  /\ BaseInv'
           /\ Changed(h, {"list", "at"}) /\ req'[h].list = targets[req[h].on]
           /\ req'[h].at = "sendOwn"
<1>0. /\ ReqInv /\ PanelsOK /\ MultisOK /\ EmbedsOK /\ DiscordOK /\ BookOK
      /\ req \in [Handlers -> Reqs] /\ req[h] \in Reqs /\ InPlace(req[h]) /\ Equipped(req[h])
  BY DEF BaseInv, ReqInv
<1>1. ASSUME /\ GoOn(h, [list |-> targets[req[h].on], at |-> "sendOwn"])
     PROVE  /\ ReqInv'
            /\ Changed(h, {"list", "at"}) /\ req'[h].list = targets[req[h].on]
            /\ req'[h].at = "sendOwn"
  <2> DEFINE list == targets[req[h].on]
  <2> HIDE DEF list
  <2>1. GoOn(h, [list |-> list, at |-> "sendOwn"])
    BY <1>1 DEF list
  <2>2. list \in SUBSET Panels
    BY <1>0, <1>1, Whereabouts DEF ListOwn, At, Places, InPlace, MultiOps, MultisOK, list
  <2>3. /\ Changed(h, {"list", "at"}) /\ req'[h].list = list /\ req'[h].at = "sendOwn"
    BY <1>0, <2>1, <2>2, GoneWithList DEF Places
  <2>4. InPlace(req'[h])
    BY <1>0, <1>1, <2>3, Whereabouts DEF ListOwn, At, InPlace, Idle, PanelOps, MultiOps, Changed,
       Fields, list
  <2>5. Equipped(req'[h])
    BY <1>0, <1>1, <2>3, Whereabouts DEF ListOwn, At, Equipped, InPlace, Idle, PanelOps, MultiOps,
       Changed, Fields, list
  <2>6. QED
    BY <1>0, <1>1, <2>3, <2>4, <2>5, OneRequest DEF Changed, list
<1>2. GoOn(h, [list |-> targets[req[h].on], at |-> "sendOwn"])
  BY <1>0, Whereabouts DEF ListOwn, At
<1>3. PanelsOK' /\ MultisOK' /\ EmbedsOK' /\ DiscordOK' /\ BookOK'
  BY <1>0, PanelsKept, MultisKept, EmbedsKept, DiscordKept, BookKept DEF ListOwn
<1>4. QED
  BY <1>1, <1>2, <1>3 DEF BaseInv

LEMMA SendOwnStep ==
    ASSUME BaseInv, NEW h \in Handlers, SendOwn(h)
    PROVE  /\ BaseInv'
           /\ \/ /\ faults' = faults + 1 /\ Finish(h)
              \/ /\ UNCHANGED faults /\ Changed(h, {"msg", "at"})
                 /\ req'[h].msg = Len(sentBy) + 1 /\ req'[h].at = "storeOwn"
<1>0. /\ ReqInv /\ PanelsOK /\ MultisOK /\ EmbedsOK /\ DiscordOK /\ BookOK
      /\ req \in [Handlers -> Reqs] /\ req[h] \in Reqs /\ InPlace(req[h]) /\ Equipped(req[h])
  BY DEF BaseInv, ReqInv
<1>1. ASSUME /\ faults' = faults + 1 /\ Finish(h)
     PROVE  ReqInv'
  BY <1>0, <1>1, FinishedWell
<1>2. ASSUME /\ UNCHANGED faults /\ GoOn(h, [msg |-> Len(sentBy) + 1, at |-> "storeOwn"])
     PROVE  /\ ReqInv'
            /\ UNCHANGED faults /\ Changed(h, {"msg", "at"})
            /\ req'[h].msg = Len(sentBy) + 1 /\ req'[h].at = "storeOwn"
  <2> DEFINE id == Len(sentBy) + 1
  <2> HIDE DEF id
  <2>1. GoOn(h, [msg |-> id, at |-> "storeOwn"])
    BY <1>2 DEF id
  <2>2. id \in Nat
    BY <1>0, <1>2, Whereabouts DEF SendOwn, At, Places, DiscordOK, id
  <2>3. /\ Changed(h, {"msg", "at"}) /\ req'[h].msg = id /\ req'[h].at = "storeOwn"
    BY <1>0, <2>1, <2>2, GoneWithMessage DEF Places
  <2>4. InPlace(req'[h])
    BY <1>0, <1>2, <2>3, Whereabouts DEF SendOwn, At, InPlace, Idle, PanelOps, MultiOps, Changed,
       Fields, id
  <2>5. Equipped(req'[h])
    BY <1>0, <1>2, <2>3, Whereabouts DEF SendOwn, At, Equipped, InPlace, Idle, PanelOps, MultiOps,
       Changed, Fields, id
  <2>6. QED
    BY <1>0, <1>2, <2>3, <2>4, <2>5, OneRequest DEF Changed, id
<1>3. \/ faults' = faults + 1 /\ Finish(h)
      \/ UNCHANGED faults /\ GoOn(h, [msg |-> Len(sentBy) + 1, at |-> "storeOwn"])
  BY <1>0, Whereabouts DEF SendOwn, At, Send, SendLost
<1>4. PanelsOK' /\ MultisOK' /\ EmbedsOK'
  BY <1>0, PanelsKept, MultisKept, EmbedsKept DEF SendOwn
<1>5. DiscordOK'
  <2>1. /\ req[h].on \in Objects /\ req[h].list \in SUBSET Panels
        /\ (IF req[h].op = "MultiPanelResend" THEN req[h].mold[req[h].on].chan ELSE req[h].chan) \in Channels
    BY <1>0, Whereabouts DEF SendOwn, InPlace, Equipped, Objects, MultiOps, Reqs
  <2>2. QED
    BY <1>0, <2>1, SentTypes DEF SendOwn, Send, SendLost
<1>6. BookOK'
  BY <1>0, FaultKept DEF SendOwn, Send, SendLost
<1>7. QED
  BY <1>1, <1>2, <1>3, <1>4, <1>5, <1>6 DEF BaseInv

LEMMA CreateMultiRowStep ==
    ASSUME BaseInv, NEW h \in Handlers, CreateMultiRow(h)
    PROVE  /\ BaseInv'
           /\ Changed(h, {"at"}) /\ req'[h].at = "insert"
<1>0. /\ ReqInv /\ PanelsOK /\ MultisOK /\ EmbedsOK /\ DiscordOK /\ BookOK
      /\ req \in [Handlers -> Reqs] /\ req[h] \in Reqs /\ InPlace(req[h]) /\ Equipped(req[h])
  BY DEF BaseInv, ReqInv
<1>1. ASSUME /\ Goto(h, "insert")
     PROVE  /\ ReqInv'
            /\ Changed(h, {"at"}) /\ req'[h].at = "insert"
  <2>1. Goto(h, "insert")
    BY <1>1
  <2>3. /\ Changed(h, {"at"}) /\ req'[h].at = "insert"
    BY <1>0, <2>1, GoneTo DEF Places
  <2>4. InPlace(req'[h])
    BY <1>0, <1>1, <2>3, Whereabouts DEF CreateMultiRow, At, InPlace, Idle, PanelOps, MultiOps,
       Changed, Fields
  <2>5. Equipped(req'[h])
    BY <1>0, <1>1, <2>3, Whereabouts DEF CreateMultiRow, At, Equipped, InPlace, Idle, PanelOps,
       MultiOps, Changed, Fields
  <2>6. QED
    BY <1>0, <1>1, <2>3, <2>4, <2>5, OneRequest DEF Changed
<1>2. Goto(h, "insert")
  BY <1>0, Whereabouts DEF CreateMultiRow, At
<1>3. PanelsOK' /\ EmbedsOK' /\ DiscordOK' /\ BookOK'
  BY <1>0, PanelsKept, EmbedsKept, DiscordKept, BookKept DEF CreateMultiRow
<1>4. MultisOK'
  <2>1. /\ req[h].on \in Multis /\ req[h].chan \in Channels
        /\ [chan |-> req[h].chan, msg |-> req[h].msg] \in MRow
    BY <1>0 DEF CreateMultiRow, At, InPlace, Equipped, MRow, Reqs, MultiOps
  <2>2. QED
    BY <1>0, <2>1 DEF CreateMultiRow, MultisOK
<1>5. QED
  BY <1>1, <1>2, <1>3, <1>4 DEF BaseInv

LEMMA UpdateMultiRowStep ==
    ASSUME BaseInv, NEW h \in Handlers, UpdateMultiRow(h)
    PROVE  /\ BaseInv'
           /\ Changed(h, {"at"}) /\ req'[h].at = "clear"
<1>0. /\ ReqInv /\ PanelsOK /\ MultisOK /\ EmbedsOK /\ DiscordOK /\ BookOK
      /\ req \in [Handlers -> Reqs] /\ req[h] \in Reqs /\ InPlace(req[h]) /\ Equipped(req[h])
  BY DEF BaseInv, ReqInv
<1>1. ASSUME /\ Goto(h, "clear")
     PROVE  /\ ReqInv'
            /\ Changed(h, {"at"}) /\ req'[h].at = "clear"
  <2>1. Goto(h, "clear")
    BY <1>1
  <2>3. /\ Changed(h, {"at"}) /\ req'[h].at = "clear"
    BY <1>0, <2>1, GoneTo DEF Places
  <2>4. InPlace(req'[h])
    BY <1>0, <1>1, <2>3, Whereabouts DEF UpdateMultiRow, At, InPlace, Idle, PanelOps, MultiOps,
       Changed, Fields
  <2>5. Equipped(req'[h])
    BY <1>0, <1>1, <2>3, Whereabouts DEF UpdateMultiRow, At, Equipped, InPlace, Idle, PanelOps,
       MultiOps, Changed, Fields
  <2>6. QED
    BY <1>0, <1>1, <2>3, <2>4, <2>5, OneRequest DEF Changed
<1>2. Goto(h, "clear")
  BY <1>0, Whereabouts DEF UpdateMultiRow, At
<1>3. PanelsOK' /\ EmbedsOK' /\ DiscordOK' /\ BookOK'
  BY <1>0, PanelsKept, EmbedsKept, DiscordKept, BookKept DEF UpdateMultiRow
<1>4. MultisOK'
  <2>1. /\ req[h].on \in Multis /\ req[h].chan \in Channels
        /\ [chan |-> req[h].chan, msg |-> req[h].msg] \in MRow
    BY <1>0 DEF UpdateMultiRow, At, InPlace, Equipped, MRow, Reqs, MultiOps
  <2>2. QED
    BY <1>0, <2>1 DEF UpdateMultiRow, MultisOK
<1>5. QED
  BY <1>1, <1>2, <1>3, <1>4 DEF BaseInv

LEMMA RecordResentMultiStep ==
    ASSUME BaseInv, NEW h \in Handlers, RecordResentMulti(h)
    PROVE  /\ BaseInv'
           /\ Finish(h)
<1>0. /\ ReqInv /\ PanelsOK /\ MultisOK /\ EmbedsOK /\ DiscordOK /\ BookOK
      /\ req \in [Handlers -> Reqs] /\ req[h] \in Reqs /\ InPlace(req[h]) /\ Equipped(req[h])
  BY DEF BaseInv, ReqInv
<1>1. ASSUME /\ Finish(h)
     PROVE  ReqInv'
  BY <1>0, <1>1, FinishedWell
<1>2. Finish(h)
  BY <1>0, Whereabouts DEF RecordResentMulti, At
<1>3. PanelsOK' /\ EmbedsOK' /\ DiscordOK' /\ BookOK'
  BY <1>0, PanelsKept, EmbedsKept, DiscordKept, BookKept DEF RecordResentMulti
<1>4. MultisOK'
  <2>1. ASSUME NEW m, NEW id \in Nat, SetMultiMessage(m, id) PROVE MultisOK'
    <3>1. CASE m \in mstored
      <4>1. With(mrow[m], [msg |-> id]) \in MRow /\ With(mrow[m], [msg |-> id]).chan = mrow[m].chan
        BY <1>0, <3>1 DEF With, MRow, MultisOK
      <4>2. QED
        BY <1>0, <2>1, <3>1, <4>1 DEF RecordResentMulti, SetMultiMessage, MultisOK
    <3>2. CASE m \notin mstored
      BY <1>0, <2>1, <3>2 DEF RecordResentMulti, SetMultiMessage, MultisOK
    <3>3. QED
      BY <3>1, <3>2
  <2>2. QED
    BY <1>0, <2>1 DEF RecordResentMulti, Reqs
<1>5. QED
  BY <1>1, <1>2, <1>3, <1>4 DEF BaseInv

LEMMA DeleteMultiRowStep ==
    ASSUME BaseInv, NEW h \in Handlers, DeleteMultiRow(h)
    PROVE  /\ BaseInv'
           /\ Finish(h)
<1>0. /\ ReqInv /\ PanelsOK /\ MultisOK /\ EmbedsOK /\ DiscordOK /\ BookOK
      /\ req \in [Handlers -> Reqs] /\ req[h] \in Reqs /\ InPlace(req[h]) /\ Equipped(req[h])
  BY DEF BaseInv, ReqInv
<1>1. ASSUME /\ Finish(h)
     PROVE  ReqInv'
  BY <1>0, <1>1, FinishedWell
<1>2. Finish(h)
  BY <1>0, Whereabouts DEF DeleteMultiRow, At
<1>3. PanelsOK' /\ EmbedsOK' /\ DiscordOK' /\ BookOK'
  BY <1>0, PanelsKept, EmbedsKept, DiscordKept, BookKept DEF DeleteMultiRow
<1>4. MultisOK'
  BY <1>0 DEF DeleteMultiRow, MultisOK, NoMRow, MRow
<1>5. QED
  BY <1>1, <1>2, <1>3, <1>4 DEF BaseInv

LEMMA ClearTargetsStep ==
    ASSUME BaseInv, NEW h \in Handlers, ClearTargets(h)
    PROVE  /\ BaseInv'
           /\ Changed(h, {"at"}) /\ req'[h].at = "insert"
<1>0. /\ ReqInv /\ PanelsOK /\ MultisOK /\ EmbedsOK /\ DiscordOK /\ BookOK
      /\ req \in [Handlers -> Reqs] /\ req[h] \in Reqs /\ InPlace(req[h]) /\ Equipped(req[h])
  BY DEF BaseInv, ReqInv
<1>1. ASSUME /\ Goto(h, "insert")
     PROVE  /\ ReqInv'
            /\ Changed(h, {"at"}) /\ req'[h].at = "insert"
  <2>1. Goto(h, "insert")
    BY <1>1
  <2>3. /\ Changed(h, {"at"}) /\ req'[h].at = "insert"
    BY <1>0, <2>1, GoneTo DEF Places
  <2>4. InPlace(req'[h])
    BY <1>0, <1>1, <2>3, Whereabouts DEF ClearTargets, At, InPlace, Idle, PanelOps, MultiOps,
       Changed, Fields
  <2>5. Equipped(req'[h])
    BY <1>0, <1>1, <2>3, Whereabouts DEF ClearTargets, At, Equipped, InPlace, Idle, PanelOps,
       MultiOps, Changed, Fields
  <2>6. QED
    BY <1>0, <1>1, <2>3, <2>4, <2>5, OneRequest DEF Changed
<1>2. Goto(h, "insert")
  BY <1>0, Whereabouts DEF ClearTargets, At
<1>3. PanelsOK' /\ EmbedsOK' /\ DiscordOK' /\ BookOK'
  BY <1>0, PanelsKept, EmbedsKept, DiscordKept, BookKept DEF ClearTargets
<1>4. MultisOK'
  BY <1>0 DEF ClearTargets, MultisOK
<1>5. QED
  BY <1>1, <1>2, <1>3, <1>4 DEF BaseInv

LEMMA InsertTargetStep ==
    ASSUME BaseInv, NEW h \in Handlers, InsertTarget(h)
    PROVE  /\ BaseInv'
           /\ \/ /\ req[h].list = {} /\ UNCHANGED targets /\ Finish(h)
              \/ \E p \in req[h].list :
                   /\ targets' = (IF p \in stored /\ req[h].on \in mstored THEN [targets EXCEPT ![req[h].on] = @ \union {p}] ELSE targets)
                   /\ Changed(h, {"list"}) /\ req'[h].list = req[h].list \ {p}
<1>0. /\ ReqInv /\ PanelsOK /\ MultisOK /\ EmbedsOK /\ DiscordOK /\ BookOK
      /\ req \in [Handlers -> Reqs] /\ req[h] \in Reqs /\ InPlace(req[h]) /\ Equipped(req[h])
  BY DEF BaseInv, ReqInv
<1>1. ASSUME /\ req[h].list = {} /\ UNCHANGED targets /\ Finish(h)
     PROVE  ReqInv'
  BY <1>0, <1>1, FinishedWell
<1>2. ASSUME NEW p \in req[h].list,
           /\ targets' = (IF p \in stored /\ req[h].on \in mstored THEN [targets EXCEPT ![req[h].on] = @ \union {p}] ELSE targets)
           /\ GoOn(h, [list |-> req[h].list \ {p}])
     PROVE  /\ ReqInv'
            /\ targets' = (IF p \in stored /\ req[h].on \in mstored THEN [targets EXCEPT ![req[h].on] = @ \union {p}] ELSE targets)
            /\ Changed(h, {"list"}) /\ req'[h].list = req[h].list \ {p}
  <2> DEFINE list == req[h].list \ {p}
  <2> HIDE DEF list
  <2>1. GoOn(h, [list |-> list])
    BY <1>2 DEF list
  <2>2. list \in SUBSET Panels
    BY <1>0, <1>2, Whereabouts DEF InsertTarget, At, Places, Reqs, list
  <2>3. /\ Changed(h, {"list"}) /\ req'[h].list = list
    BY <1>0, <2>1, <2>2, GoneFromList
  <2>4. InPlace(req'[h])
    BY <1>0, <1>2, <2>3, Whereabouts DEF InsertTarget, At, InPlace, Idle, PanelOps, MultiOps,
       Changed, Fields, list
  <2>5. Equipped(req'[h])
    BY <1>0, <1>2, <2>3, Whereabouts DEF InsertTarget, At, Equipped, InPlace, Idle, PanelOps,
       MultiOps, Changed, Fields, list
  <2>6. QED
    BY <1>0, <1>2, <2>3, <2>4, <2>5, OneRequest DEF Changed, list
<1>3. \/ req[h].list = {} /\ UNCHANGED targets /\ Finish(h)
      \/ \E p \in req[h].list : targets' = (IF p \in stored /\ req[h].on \in mstored THEN [targets EXCEPT ![req[h].on] = @ \union {p}] ELSE targets) /\ GoOn(h, [list |-> req[h].list \ {p}])
  BY <1>0, Whereabouts DEF InsertTarget, At
<1>4. PanelsOK' /\ EmbedsOK' /\ DiscordOK' /\ BookOK'
  BY <1>0, PanelsKept, EmbedsKept, DiscordKept, BookKept DEF InsertTarget
<1>5. MultisOK'
  <2>1. req[h].on \in Multis /\ req[h].list \subseteq Panels
    BY <1>0, Whereabouts DEF InsertTarget, InPlace, MultiOps, Reqs
  <2>2. CASE UNCHANGED targets
    BY <1>0, <2>2 DEF InsertTarget, MultisOK
  <2>3. CASE \E p \in req[h].list : targets' = [targets EXCEPT ![req[h].on] = @ \union {p}]
    BY <1>0, <2>1, <2>3 DEF InsertTarget, MultisOK
  <2>4. QED
    BY <2>2, <2>3 DEF InsertTarget
<1>6. QED
  BY <1>1, <1>2, <1>3, <1>4, <1>5 DEF BaseInv

LEMMA FailStep ==
    ASSUME BaseInv, NEW h \in Handlers, Fail(h)
    PROVE  /\ BaseInv'
           /\ Finish(h)
<1>0. /\ ReqInv /\ PanelsOK /\ MultisOK /\ EmbedsOK /\ DiscordOK /\ BookOK
      /\ req \in [Handlers -> Reqs] /\ req[h] \in Reqs /\ InPlace(req[h]) /\ Equipped(req[h])
  BY DEF BaseInv, ReqInv
<1>1. ASSUME /\ Finish(h)
     PROVE  ReqInv'
  BY <1>0, <1>1, FinishedWell
<1>2. Finish(h)
  BY <1>0, Whereabouts DEF Fail, At
<1>3. PanelsOK' /\ MultisOK' /\ EmbedsOK' /\ DiscordOK'
  BY <1>0, PanelsKept, MultisKept, EmbedsKept, DiscordKept DEF Fail
<1>4. BookOK'
  BY <1>0, FaultKept DEF Fail
<1>5. QED
  BY <1>1, <1>2, <1>3, <1>4 DEF BaseInv
----
(* Every message id a row or a handler holds is 0 or of the object it is held for. *)

Grows == sentBy' = sentBy \/ \E o \in Objects : sentBy' = Append(sentBy, o)

LEMMA StaysOf ==
    ASSUME DiscordOK, Grows
    PROVE  \A id, o : Of(id, o) => Of(id, o)'
  BY DEF DiscordOK, Grows, Of

LEMMA OthersOwn ==
    ASSUME BaseInv, HandlersOwn, Grows, NEW h \in Handlers,
           \A g \in Handlers \ {h} : req'[g] = req[g], HandlerOwn(req[h])'
    PROVE  HandlersOwn'
<1>1. \A id, o : Of(id, o) => Of(id, o)'
  BY StaysOf DEF BaseInv
<1>2. ASSUME NEW g \in Handlers, g # h PROVE HandlerOwn(req[g])'
  <2>1. HandlerOwn(req[g]) /\ req'[g] = req[g]
    BY <1>2 DEF HandlersOwn
  <2>2. QED
    BY <1>1, <2>1 DEF HandlerOwn
<1>3. QED
  BY <1>2 DEF HandlersOwn

LEMMA IdleOwn ==
    ASSUME BaseInv, HandlersOwn, Grows, NEW h \in Handlers, Finish(h)
    PROVE  HandlersOwn'
<1>1. req'[h] = Idle /\ \A g \in Handlers \ {h} : req'[g] = req[g]
  BY Finished DEF BaseInv, ReqInv
<1>2. HandlerOwn(req[h])'
  BY <1>1 DEF HandlerOwn, Idle, PanelOps, MultiOps
<1>3. QED
  BY <1>1, <1>2, OthersOwn

LEMMA RowsStayOwn ==
    ASSUME BaseInv, RowsOwn, Grows, UNCHANGED <<row, mrow>>
    PROVE  RowsOwn'
<1>1. \A id, o : Of(id, o) => Of(id, o)'
  BY StaysOf DEF BaseInv
<1>2. QED
  BY <1>1 DEF RowsOwn

LEMMA SentOwn ==
    ASSUME BaseInv, LiveOwn, NEW o \in Objects, NEW c, NEW shows,
           sentBy' = Append(sentBy, o),
           live' = live \union {[id |-> Len(sentBy) + 1, chan |-> c, of |-> o, shows |-> shows]}
    PROVE  LiveOwn' /\ Grows
  BY DEF BaseInv, DiscordOK, LiveOwn, Grows

LEMMA DeletedOwn ==
    ASSUME LiveOwn, NEW c, NEW id, DeleteMessage(c, id)
    PROVE  LiveOwn' /\ Grows
  BY DEF LiveOwn, Grows, DeleteMessage

\* An edit keeps the messages and what they are of.
LEMMA EditedOnes ==
    ASSUME DiscordOK, NEW c, NEW id, NEW shows \in SUBSET Panels, EditMessage(c, id, shows)
    PROVE  /\ UNCHANGED sentBy
           /\ \A y \in live' : \E x \in live : y.id = x.id /\ y.chan = x.chan /\ y.of = x.of
           /\ \A x \in live : \E y \in live' : y.id = x.id /\ y.chan = x.chan /\ y.of = x.of
<1>1. ASSUME NEW x \in Message
      PROVE  LET y == With(x, [shows |-> shows]) IN y.id = x.id /\ y.chan = x.chan /\ y.of = x.of
  BY DEF With, Message
<1>2. QED
  BY <1>1 DEF DiscordOK, EditMessage

LEMMA EditedOwn ==
    ASSUME BaseInv, LiveOwn, NEW c, NEW id, NEW shows \in SUBSET Panels, EditMessage(c, id, shows)
    PROVE  LiveOwn' /\ Grows
  BY EditedOnes DEF BaseInv, LiveOwn, Grows

LEMMA StillOwn ==
    ASSUME LiveOwn, UNCHANGED discord
    PROVE  LiveOwn' /\ Grows
  BY DEF LiveOwn, Grows, discord

LEMMA JustSent ==
    ASSUME BaseInv, NEW o \in Objects, sentBy' = Append(sentBy, o)
    PROVE  Len(sentBy) + 1 \in 1 .. Len(sentBy') /\ sentBy'[Len(sentBy) + 1] = o
  BY DEF BaseInv, DiscordOK

LEMMA LoadPanelOwn ==
    ASSUME BaseInv, OwnInv, NEW h \in Handlers, LoadPanel(h)
    PROVE  OwnInv' /\ Grows
<1>0. /\ RowsOwn /\ LiveOwn /\ HandlersOwn /\ HandlerOwn(req[h]) /\ DiscordOK /\ PanelsOK /\ MultisOK
      /\ req[h] \in Reqs /\ InPlace(req[h]) /\ Equipped(req[h])
  BY DEF OwnInv, HandlersOwn, BaseInv, ReqInv
<1>1. LiveOwn' /\ Grows
  BY <1>0, StillOwn DEF LoadPanel, book, discord
<1>2. \A id, o : Of(id, o) => Of(id, o)'
  BY <1>0, <1>1, StaysOf
<1>3. RowsOwn'
  BY <1>0, <1>1, RowsStayOwn DEF LoadPanel, panelTable, multiTable
<1>4. ASSUME Finish(h) PROVE HandlersOwn'
  BY <1>0, <1>1, <1>4, IdleOwn
<1>5. ASSUME /\ req[h].on \in stored /\ Changed(h, {"old", "at"})
             /\ req'[h].old = row[req[h].on]
             /\ req'[h].at = (IF req[h].op = "DeletePanel" THEN "multis" ELSE "old")
     PROVE  HandlersOwn'
  <2>1. HandlerOwn(req[h])'
    BY <1>0, <1>2, <1>5, Whereabouts DEF LoadPanel, At, HandlerOwn, Changed, Fields, RowsOwn,
       InPlace, PanelOps
  <2>2. QED
    BY <1>0, <1>1, <1>5, <2>1, OthersOwn DEF Changed
<1>6. QED
  BY <1>1, <1>3, <1>4, <1>5, LoadPanelStep DEF OwnInv

LEMMA CheckQuotaOwn ==
    ASSUME BaseInv, OwnInv, NEW h \in Handlers, CheckQuota(h)
    PROVE  OwnInv' /\ Grows
<1>0. /\ RowsOwn /\ LiveOwn /\ HandlersOwn /\ HandlerOwn(req[h]) /\ DiscordOK /\ PanelsOK /\ MultisOK
      /\ req[h] \in Reqs /\ InPlace(req[h]) /\ Equipped(req[h])
  BY DEF OwnInv, HandlersOwn, BaseInv, ReqInv
<1>1. LiveOwn' /\ Grows
  BY <1>0, StillOwn DEF CheckQuota, book, discord
<1>2. \A id, o : Of(id, o) => Of(id, o)'
  BY <1>0, <1>1, StaysOf
<1>3. RowsOwn'
  BY <1>0, <1>1, RowsStayOwn DEF CheckQuota, panelTable, multiTable
<1>4. ASSUME Finish(h) PROVE HandlersOwn'
  BY <1>0, <1>1, <1>4, IdleOwn
<1>5. ASSUME /\ Changed(h, {"at"}) /\ req'[h].at = "send"
     PROVE  HandlersOwn'
  <2>1. HandlerOwn(req[h])'
    BY <1>0, <1>2, <1>5, Whereabouts DEF CheckQuota, At, HandlerOwn, Changed, Fields
  <2>2. QED
    BY <1>0, <1>1, <1>5, <2>1, OthersOwn DEF Changed
<1>6. QED
  BY <1>1, <1>3, <1>4, <1>5, CheckQuotaStep DEF OwnInv

LEMMA OldMessageOwn ==
    ASSUME BaseInv, OwnInv, NEW h \in Handlers, OldMessage(h)
    PROVE  OwnInv' /\ Grows
<1>0. /\ RowsOwn /\ LiveOwn /\ HandlersOwn /\ HandlerOwn(req[h]) /\ DiscordOK /\ PanelsOK /\ MultisOK
      /\ req[h] \in Reqs /\ InPlace(req[h]) /\ Equipped(req[h])
  BY DEF OwnInv, HandlersOwn, BaseInv, ReqInv
<1>1. LiveOwn' /\ Grows
  BY <1>0, DeletedOwn, StillOwn DEF OldMessage
<1>2. \A id, o : Of(id, o) => Of(id, o)'
  BY <1>0, <1>1, StaysOf
<1>3. RowsOwn'
  BY <1>0, <1>1, RowsStayOwn DEF OldMessage, panelTable, multiTable
<1>4. ASSUME /\ (req[h].op = "ResendPanel" \/ req[h].old.chan # req[h].chan)
             /\ DeleteMessage(req[h].old.chan, req[h].old.msg) /\ Changed(h, {"at"})
             /\ req'[h].at = "send"
     PROVE  HandlersOwn'
  <2>1. HandlerOwn(req[h])'
    BY <1>0, <1>2, <1>4, Whereabouts DEF OldMessage, At, HandlerOwn, Changed, Fields, PanelOps,
       MultiOps
  <2>2. QED
    BY <1>0, <1>1, <1>4, <2>1, OthersOwn DEF Changed
<1>5. ASSUME /\ req[h].op = "UpdatePanel" /\ req[h].old.chan = req[h].chan
             /\ IsLive(req[h].old.chan, req[h].old.msg) /\ UNCHANGED discord
             /\ Changed(h, {"msg", "at"}) /\ req'[h].msg = req[h].old.msg
             /\ req'[h].at = "embed"
     PROVE  HandlersOwn'
  <2>1. HandlerOwn(req[h])'
    BY <1>0, <1>2, <1>5, Whereabouts DEF OldMessage, At, HandlerOwn, Changed, Fields, PanelOps,
       MultiOps
  <2>2. QED
    BY <1>0, <1>1, <1>5, <2>1, OthersOwn DEF Changed
<1>6. ASSUME /\ req[h].op = "UpdatePanel" /\ req[h].old.chan = req[h].chan
             /\ ~IsLive(req[h].old.chan, req[h].old.msg) /\ UNCHANGED discord
             /\ Changed(h, {"at"}) /\ req'[h].at = "send"
     PROVE  HandlersOwn'
  <2>1. HandlerOwn(req[h])'
    BY <1>0, <1>2, <1>6, Whereabouts DEF OldMessage, At, HandlerOwn, Changed, Fields, PanelOps,
       MultiOps
  <2>2. QED
    BY <1>0, <1>1, <1>6, <2>1, OthersOwn DEF Changed
<1>7. QED
  BY <1>1, <1>3, <1>4, <1>5, <1>6, OldMessageStep DEF OwnInv

LEMMA OldMessageStaysOwn ==
    ASSUME BaseInv, OwnInv, NEW h \in Handlers, OldMessageStays(h)
    PROVE  OwnInv' /\ Grows
<1>0. /\ RowsOwn /\ LiveOwn /\ HandlersOwn /\ HandlerOwn(req[h]) /\ DiscordOK /\ PanelsOK /\ MultisOK
      /\ req[h] \in Reqs /\ InPlace(req[h]) /\ Equipped(req[h])
  BY DEF OwnInv, HandlersOwn, BaseInv, ReqInv
<1>1. LiveOwn' /\ Grows
  BY <1>0, StillOwn DEF OldMessageStays, book, discord
<1>2. \A id, o : Of(id, o) => Of(id, o)'
  BY <1>0, <1>1, StaysOf
<1>3. RowsOwn'
  BY <1>0, <1>1, RowsStayOwn DEF OldMessageStays, panelTable, multiTable
<1>4. ASSUME /\ Changed(h, {"at"}) /\ req'[h].at = "send"
     PROVE  HandlersOwn'
  <2>1. HandlerOwn(req[h])'
    BY <1>0, <1>2, <1>4, Whereabouts DEF OldMessageStays, At, HandlerOwn, Changed, Fields
  <2>2. QED
    BY <1>0, <1>1, <1>4, <2>1, OthersOwn DEF Changed
<1>5. QED
  BY <1>1, <1>3, <1>4, OldMessageStaysStep DEF OwnInv

LEMMA SendPanelOwn ==
    ASSUME BaseInv, OwnInv, NEW h \in Handlers, SendPanel(h)
    PROVE  OwnInv' /\ Grows
<1>0. /\ RowsOwn /\ LiveOwn /\ HandlersOwn /\ HandlerOwn(req[h]) /\ DiscordOK /\ PanelsOK /\ MultisOK
      /\ req[h] \in Reqs /\ InPlace(req[h]) /\ Equipped(req[h])
  BY DEF OwnInv, HandlersOwn, BaseInv, ReqInv
<1>1. LiveOwn' /\ Grows
  <2>1. req[h].on \in Objects
    BY <1>0, Whereabouts DEF SendPanel, InPlace, Objects, PanelOps
  <2>2. QED
    BY <1>0, <2>1, SentOwn DEF SendPanel, Send, SendLost
<1>2. \A id, o : Of(id, o) => Of(id, o)'
  BY <1>0, <1>1, StaysOf
<1>3. RowsOwn'
  BY <1>0, <1>1, RowsStayOwn DEF SendPanel, panelTable, multiTable
<1>4. ASSUME Finish(h) PROVE HandlersOwn'
  BY <1>0, <1>1, <1>4, IdleOwn
<1>5. ASSUME /\ UNCHANGED faults /\ Changed(h, {"msg", "at"})
             /\ req'[h].msg = Len(sentBy) + 1 /\ req'[h].at = AfterSend(req[h])
     PROVE  HandlersOwn'
  <2>a. Len(sentBy) + 1 \in 1 .. Len(sentBy') /\ sentBy'[Len(sentBy) + 1] = req[h].on
    BY <1>0, Whereabouts, JustSent DEF SendPanel, Send, SendLost, Objects, InPlace, PanelOps
  <2>1. HandlerOwn(req[h])'
    BY <1>0, <1>2, <1>5, Whereabouts, <2>a DEF SendPanel, At, HandlerOwn, Changed, Fields,
       AfterSend, InPlace, PanelOps, MultiOps, Of
  <2>2. QED
    BY <1>0, <1>1, <1>5, <2>1, OthersOwn DEF Changed
<1>6. QED
  BY <1>1, <1>3, <1>4, <1>5, SendPanelStep DEF OwnInv

LEMMA SendToMissingChannelOwn ==
    ASSUME BaseInv, OwnInv, NEW h \in Handlers, SendToMissingChannel(h)
    PROVE  OwnInv' /\ Grows
<1>0. /\ RowsOwn /\ LiveOwn /\ HandlersOwn /\ HandlerOwn(req[h]) /\ DiscordOK /\ PanelsOK /\ MultisOK
      /\ req[h] \in Reqs /\ InPlace(req[h]) /\ Equipped(req[h])
  BY DEF OwnInv, HandlersOwn, BaseInv, ReqInv
<1>1. LiveOwn' /\ Grows
  BY <1>0, StillOwn DEF SendToMissingChannel, book, discord
<1>2. \A id, o : Of(id, o) => Of(id, o)'
  BY <1>0, <1>1, StaysOf
<1>3. RowsOwn'
  BY <1>0, <1>1, RowsStayOwn DEF SendToMissingChannel, panelTable, multiTable
<1>4. ASSUME /\ Changed(h, {"msg", "at"}) /\ req'[h].msg = 0 /\ req'[h].at = "embed"
     PROVE  HandlersOwn'
  <2>1. HandlerOwn(req[h])'
    BY <1>0, <1>2, <1>4, Whereabouts DEF SendToMissingChannel, At, HandlerOwn, Changed, Fields, Of
  <2>2. QED
    BY <1>0, <1>1, <1>4, <2>1, OthersOwn DEF Changed
<1>5. QED
  BY <1>1, <1>3, <1>4, SendToMissingChannelStep DEF OwnInv

LEMMA RecordResentOwn ==
    ASSUME BaseInv, OwnInv, NEW h \in Handlers, RecordResent(h)
    PROVE  OwnInv' /\ Grows
<1>0. /\ RowsOwn /\ LiveOwn /\ HandlersOwn /\ HandlerOwn(req[h]) /\ DiscordOK /\ PanelsOK /\ MultisOK
      /\ req[h] \in Reqs /\ InPlace(req[h]) /\ Equipped(req[h])
  BY DEF OwnInv, HandlersOwn, BaseInv, ReqInv
<1>1. LiveOwn' /\ Grows
  BY <1>0, StillOwn DEF RecordResent, book, discord
<1>2. \A id, o : Of(id, o) => Of(id, o)'
  BY <1>0, <1>1, StaysOf
<1>3. RowsOwn'
  <2>1. \A p \in Panels : row'[p].msg = row[p].msg \/ (p = req[h].on /\ row'[p].msg = req[h].msg)
    BY <1>0 DEF RecordResent, PanelsOK, Row, StoredRow, With
  <2>2. Of(req[h].msg, req[h].on)
    BY <1>0 DEF RecordResent, At, HandlerOwn, MultiOps
  <2>3. QED
    BY <1>0, <1>2, <2>1, <2>2 DEF RecordResent, RowsOwn, multiTable
<1>4. HandlersOwn'
  BY <1>0, <1>1, RecordResentStep, IdleOwn
<1>5. QED
  BY <1>1, <1>3, <1>4 DEF OwnInv

LEMMA WriteEmbedOwn ==
    ASSUME BaseInv, OwnInv, NEW h \in Handlers, WriteEmbed(h)
    PROVE  OwnInv' /\ Grows
<1>0. /\ RowsOwn /\ LiveOwn /\ HandlersOwn /\ HandlerOwn(req[h]) /\ DiscordOK /\ PanelsOK /\ MultisOK
      /\ req[h] \in Reqs /\ InPlace(req[h]) /\ Equipped(req[h])
  BY DEF OwnInv, HandlersOwn, BaseInv, ReqInv
<1>1. LiveOwn' /\ Grows
  BY <1>0, StillOwn DEF WriteEmbed, book, discord
<1>2. \A id, o : Of(id, o) => Of(id, o)'
  BY <1>0, <1>1, StaysOf
<1>3. RowsOwn'
  BY <1>0, <1>1, RowsStayOwn DEF WriteEmbed, panelTable, multiTable
<1>4. ASSUME /\ Changed(h, {"at", "embed"}) /\ req'[h].at = "store"
             /\ req'[h].embed = EmbedOf(req[h])
     PROVE  HandlersOwn'
  <2>1. HandlerOwn(req[h])'
    BY <1>0, <1>2, <1>4, Whereabouts DEF WriteEmbed, At, HandlerOwn, Changed, Fields
  <2>2. QED
    BY <1>0, <1>1, <1>4, <2>1, OthersOwn DEF Changed
<1>5. QED
  BY <1>1, <1>3, <1>4, WriteEmbedStep DEF OwnInv

LEMMA CreateRowOwn ==
    ASSUME BaseInv, OwnInv, NEW h \in Handlers, CreateRow(h)
    PROVE  OwnInv' /\ Grows
<1>0. /\ RowsOwn /\ LiveOwn /\ HandlersOwn /\ HandlerOwn(req[h]) /\ DiscordOK /\ PanelsOK /\ MultisOK
      /\ req[h] \in Reqs /\ InPlace(req[h]) /\ Equipped(req[h])
  BY DEF OwnInv, HandlersOwn, BaseInv, ReqInv
<1>1. LiveOwn' /\ Grows
  BY <1>0, StillOwn DEF CreateRow, book, discord
<1>2. \A id, o : Of(id, o) => Of(id, o)'
  BY <1>0, <1>1, StaysOf
<1>3. RowsOwn'
  <2>1. \A p \in Panels : row'[p].msg = row[p].msg \/ (p = req[h].on /\ row'[p].msg = req[h].msg)
    BY <1>0 DEF CreateRow, PanelsOK, Row, StoredRow, With
  <2>2. Of(req[h].msg, req[h].on)
    BY <1>0 DEF CreateRow, At, HandlerOwn, MultiOps
  <2>3. QED
    BY <1>0, <1>2, <2>1, <2>2 DEF CreateRow, RowsOwn, multiTable
<1>4. HandlersOwn'
  BY <1>0, <1>1, CreateRowStep, IdleOwn
<1>5. QED
  BY <1>1, <1>3, <1>4 DEF OwnInv

LEMMA UpdateRowOwn ==
    ASSUME BaseInv, OwnInv, NEW h \in Handlers, UpdateRow(h)
    PROVE  OwnInv' /\ Grows
<1>0. /\ RowsOwn /\ LiveOwn /\ HandlersOwn /\ HandlerOwn(req[h]) /\ DiscordOK /\ PanelsOK /\ MultisOK
      /\ req[h] \in Reqs /\ InPlace(req[h]) /\ Equipped(req[h])
  BY DEF OwnInv, HandlersOwn, BaseInv, ReqInv
<1>1. LiveOwn' /\ Grows
  BY <1>0, StillOwn DEF UpdateRow, book, discord
<1>2. \A id, o : Of(id, o) => Of(id, o)'
  BY <1>0, <1>1, StaysOf
<1>3. RowsOwn'
  <2>1. \A p \in Panels : row'[p].msg = row[p].msg \/ (p = req[h].on /\ row'[p].msg = req[h].msg)
    BY <1>0 DEF UpdateRow, PanelsOK, Row, StoredRow, With
  <2>2. Of(req[h].msg, req[h].on)
    BY <1>0 DEF UpdateRow, At, HandlerOwn, MultiOps
  <2>3. QED
    BY <1>0, <1>2, <2>1, <2>2 DEF UpdateRow, RowsOwn, multiTable
<1>4. ASSUME /\ Changed(h, {"at"}) /\ req'[h].at = "multis"
     PROVE  HandlersOwn'
  <2>1. HandlerOwn(req[h])'
    BY <1>0, <1>2, <1>4, Whereabouts DEF UpdateRow, At, HandlerOwn, Changed, Fields
  <2>2. QED
    BY <1>0, <1>1, <1>4, <2>1, OthersOwn DEF Changed
<1>5. QED
  BY <1>1, <1>3, <1>4, UpdateRowStep DEF OwnInv

LEMMA LoadMultisOwn ==
    ASSUME BaseInv, OwnInv, NEW h \in Handlers, LoadMultis(h)
    PROVE  OwnInv' /\ Grows
<1>0. /\ RowsOwn /\ LiveOwn /\ HandlersOwn /\ HandlerOwn(req[h]) /\ DiscordOK /\ PanelsOK /\ MultisOK
      /\ req[h] \in Reqs /\ InPlace(req[h]) /\ Equipped(req[h])
  BY DEF OwnInv, HandlersOwn, BaseInv, ReqInv
<1>1. LiveOwn' /\ Grows
  BY <1>0, StillOwn DEF LoadMultis, book, discord
<1>2. \A id, o : Of(id, o) => Of(id, o)'
  BY <1>0, <1>1, StaysOf
<1>3. RowsOwn'
  BY <1>0, <1>1, RowsStayOwn DEF LoadMultis, panelTable, multiTable
<1>4. ASSUME NEW T \in SUBSET mstored,
           /\ Loads(req[h], T) /\ Changed(h, {"todo", "mold", "at"}) /\ req'[h].todo = T
           /\ req'[h].mold = [m \in T |-> mrow[m]]
           /\ req'[h].at = (IF req[h].op = "DeletePanel" THEN "delete" ELSE "next")
     PROVE  HandlersOwn'
  <2>1. HandlerOwn(req[h])'
    BY <1>0, <1>2, <1>4, Whereabouts DEF LoadMultis, At, HandlerOwn, Changed, Fields, RowsOwn,
       MultisOK
  <2>2. QED
    BY <1>0, <1>1, <1>4, <2>1, OthersOwn DEF Changed
<1>5. QED
  BY <1>1, <1>3, <1>4, LoadMultisStep DEF OwnInv

LEMMA DeleteEmbedOwn ==
    ASSUME BaseInv, OwnInv, NEW h \in Handlers, DeleteEmbed(h)
    PROVE  OwnInv' /\ Grows
<1>0. /\ RowsOwn /\ LiveOwn /\ HandlersOwn /\ HandlerOwn(req[h]) /\ DiscordOK /\ PanelsOK /\ MultisOK
      /\ req[h] \in Reqs /\ InPlace(req[h]) /\ Equipped(req[h])
  BY DEF OwnInv, HandlersOwn, BaseInv, ReqInv
<1>1. LiveOwn' /\ Grows
  BY <1>0, StillOwn DEF DeleteEmbed, book, discord
<1>2. \A id, o : Of(id, o) => Of(id, o)'
  BY <1>0, <1>1, StaysOf
<1>3. RowsOwn'
  BY <1>0, <1>1, RowsStayOwn DEF DeleteEmbed, panelTable, multiTable
<1>4. ASSUME /\ Changed(h, {"at"}) /\ req'[h].at = "deleteRow"
     PROVE  HandlersOwn'
  <2>1. HandlerOwn(req[h])'
    BY <1>0, <1>2, <1>4, Whereabouts DEF DeleteEmbed, At, HandlerOwn, Changed, Fields
  <2>2. QED
    BY <1>0, <1>1, <1>4, <2>1, OthersOwn DEF Changed
<1>5. QED
  BY <1>1, <1>3, <1>4, DeleteEmbedStep DEF OwnInv

LEMMA DeleteRowOwn ==
    ASSUME BaseInv, OwnInv, NEW h \in Handlers, DeleteRow(h)
    PROVE  OwnInv' /\ Grows
<1>0. /\ RowsOwn /\ LiveOwn /\ HandlersOwn /\ HandlerOwn(req[h]) /\ DiscordOK /\ PanelsOK /\ MultisOK
      /\ req[h] \in Reqs /\ InPlace(req[h]) /\ Equipped(req[h])
  BY DEF OwnInv, HandlersOwn, BaseInv, ReqInv
<1>1. LiveOwn' /\ Grows
  BY <1>0, StillOwn DEF DeleteRow, book, discord
<1>2. \A id, o : Of(id, o) => Of(id, o)'
  BY <1>0, <1>1, StaysOf
<1>3. RowsOwn'
  <2>1. \A p \in Panels : row'[p].msg = row[p].msg \/ row'[p].msg = 0
    BY <1>0 DEF DeleteRow, PanelsOK, Row, NoRow
  <2>2. QED
    BY <1>0, <1>2, <2>1 DEF DeleteRow, RowsOwn, Of
<1>4. ASSUME /\ Changed(h, {"at"}) /\ req'[h].at = "deleteMessage"
     PROVE  HandlersOwn'
  <2>1. HandlerOwn(req[h])'
    BY <1>0, <1>2, <1>4, Whereabouts DEF DeleteRow, At, HandlerOwn, Changed, Fields
  <2>2. QED
    BY <1>0, <1>1, <1>4, <2>1, OthersOwn DEF Changed
<1>5. QED
  BY <1>1, <1>3, <1>4, DeleteRowStep DEF OwnInv

LEMMA DeletePanelMessageOwn ==
    ASSUME BaseInv, OwnInv, NEW h \in Handlers, DeletePanelMessage(h)
    PROVE  OwnInv' /\ Grows
<1>0. /\ RowsOwn /\ LiveOwn /\ HandlersOwn /\ HandlerOwn(req[h]) /\ DiscordOK /\ PanelsOK /\ MultisOK
      /\ req[h] \in Reqs /\ InPlace(req[h]) /\ Equipped(req[h])
  BY DEF OwnInv, HandlersOwn, BaseInv, ReqInv
<1>1. LiveOwn' /\ Grows
  BY <1>0, DeletedOwn, StillOwn DEF DeletePanelMessage
<1>2. \A id, o : Of(id, o) => Of(id, o)'
  BY <1>0, <1>1, StaysOf
<1>3. RowsOwn'
  BY <1>0, <1>1, RowsStayOwn DEF DeletePanelMessage, panelTable, multiTable
<1>4. ASSUME /\ Changed(h, {"at"}) /\ req'[h].at = "next"
     PROVE  HandlersOwn'
  <2>1. HandlerOwn(req[h])'
    BY <1>0, <1>2, <1>4, Whereabouts DEF DeletePanelMessage, At, HandlerOwn, Changed, Fields
  <2>2. QED
    BY <1>0, <1>1, <1>4, <2>1, OthersOwn DEF Changed
<1>5. QED
  BY <1>1, <1>3, <1>4, DeletePanelMessageStep DEF OwnInv

LEMMA NextMultiOwn ==
    ASSUME BaseInv, OwnInv, NEW h \in Handlers, NextMulti(h)
    PROVE  OwnInv' /\ Grows
<1>0. /\ RowsOwn /\ LiveOwn /\ HandlersOwn /\ HandlerOwn(req[h]) /\ DiscordOK /\ PanelsOK /\ MultisOK
      /\ req[h] \in Reqs /\ InPlace(req[h]) /\ Equipped(req[h])
  BY DEF OwnInv, HandlersOwn, BaseInv, ReqInv
<1>1. LiveOwn' /\ Grows
  BY <1>0, StillOwn DEF NextMulti, book, discord
<1>2. \A id, o : Of(id, o) => Of(id, o)'
  BY <1>0, <1>1, StaysOf
<1>3. RowsOwn'
  BY <1>0, <1>1, RowsStayOwn DEF NextMulti, panelTable, multiTable
<1>4. ASSUME Finish(h) PROVE HandlersOwn'
  BY <1>0, <1>1, <1>4, IdleOwn
<1>5. ASSUME NEW m \in req[h].todo,
           /\ Changed(h, {"todo", "list", "panels", "at"})
           /\ req'[h].todo = req[h].todo \ {m} /\ req'[h].list = targets[m]
           /\ req'[h].panels = {m}
           /\ req'[h].at = (IF req[h].op = "DeletePanel" THEN "sendMulti" ELSE "editMulti")
     PROVE  HandlersOwn'
  <2>1. HandlerOwn(req[h])'
    BY <1>0, <1>2, <1>5, Whereabouts DEF NextMulti, At, HandlerOwn, Changed, Fields
  <2>2. QED
    BY <1>0, <1>1, <1>5, <2>1, OthersOwn DEF Changed
<1>6. QED
  BY <1>1, <1>3, <1>4, <1>5, NextMultiStep DEF OwnInv

LEMMA EditMultiOwn ==
    ASSUME BaseInv, OwnInv, NEW h \in Handlers, EditMulti(h)
    PROVE  OwnInv' /\ Grows
<1>0. /\ RowsOwn /\ LiveOwn /\ HandlersOwn /\ HandlerOwn(req[h]) /\ DiscordOK /\ PanelsOK /\ MultisOK
      /\ req[h] \in Reqs /\ InPlace(req[h]) /\ Equipped(req[h])
  BY DEF OwnInv, HandlersOwn, BaseInv, ReqInv
<1>1. LiveOwn' /\ Grows
  <2>1. req[h].list \in SUBSET Panels
    BY <1>0 DEF Reqs
  <2>2. QED
    BY <1>0, <2>1, EditedOwn, DeletedOwn, StillOwn DEF EditMulti
<1>2. \A id, o : Of(id, o) => Of(id, o)'
  BY <1>0, <1>1, StaysOf
<1>3. RowsOwn'
  BY <1>0, <1>1, RowsStayOwn DEF EditMulti, panelTable, multiTable
<1>4. ASSUME /\ IsLive(OldMulti(req[h]).chan, OldMulti(req[h]).msg)
             /\ EditMessage(OldMulti(req[h]).chan, OldMulti(req[h]).msg, req[h].list)
             /\ Changed(h, {"at"}) /\ req'[h].at = "next"
     PROVE  HandlersOwn'
  <2>1. HandlerOwn(req[h])'
    BY <1>0, <1>2, <1>4, Whereabouts DEF EditMulti, At, HandlerOwn, Changed, Fields
  <2>2. QED
    BY <1>0, <1>1, <1>4, <2>1, OthersOwn DEF Changed
<1>5. ASSUME /\ ~IsLive(OldMulti(req[h]).chan, OldMulti(req[h]).msg) /\ UNCHANGED discord
             /\ Changed(h, {"at"}) /\ req'[h].at = "sendMulti"
     PROVE  HandlersOwn'
  <2>1. HandlerOwn(req[h])'
    BY <1>0, <1>2, <1>5, Whereabouts DEF EditMulti, At, HandlerOwn, Changed, Fields
  <2>2. QED
    BY <1>0, <1>1, <1>5, <2>1, OthersOwn DEF Changed
<1>6. QED
  BY <1>1, <1>3, <1>4, <1>5, EditMultiStep DEF OwnInv

LEMMA SendMultiOwn ==
    ASSUME BaseInv, OwnInv, NEW h \in Handlers, SendMulti(h)
    PROVE  OwnInv' /\ Grows
<1>0. /\ RowsOwn /\ LiveOwn /\ HandlersOwn /\ HandlerOwn(req[h]) /\ DiscordOK /\ PanelsOK /\ MultisOK
      /\ req[h] \in Reqs /\ InPlace(req[h]) /\ Equipped(req[h])
  BY DEF OwnInv, HandlersOwn, BaseInv, ReqInv
<1>1. LiveOwn' /\ Grows
  <2>1. PICK m \in DOMAIN req[h].mold : req[h].panels = {m}
    BY <1>0 DEF SendMulti, Equipped
  <2>2. Multi(req[h]) = m /\ m \in Objects
    BY <1>0, <2>1, TheMulti DEF Reqs, Molds, Objects
  <2>3. QED
    BY <1>0, <2>2, SentOwn, StillOwn DEF SendMulti, Send, SendLost
<1>2. \A id, o : Of(id, o) => Of(id, o)'
  BY <1>0, <1>1, StaysOf
<1>3. RowsOwn'
  BY <1>0, <1>1, RowsStayOwn DEF SendMulti, panelTable, multiTable
<1>4. ASSUME Finish(h) PROVE HandlersOwn'
  BY <1>0, <1>1, <1>4, IdleOwn
<1>5. ASSUME /\ UNCHANGED faults
             /\ Send(h, Multi(req[h]), OldMulti(req[h]).chan, req[h].list, "recordMulti")
             /\ Changed(h, {"msg", "at"}) /\ req'[h].msg = Len(sentBy) + 1
             /\ req'[h].at = "recordMulti"
     PROVE  HandlersOwn'
  <2>b. PICK m \in DOMAIN req[h].mold : req[h].panels = {m}
    BY <1>0 DEF SendMulti, Equipped
  <2>c. Multi(req[h]) = m
    BY <2>b, TheMulti
  <2>d. m \in Objects
    BY <1>0, <2>b DEF Reqs, Molds, Objects
  <2>e. sentBy' = Append(sentBy, m)
    BY <1>5, <2>c DEF Send
  <2>a. Len(sentBy) + 1 \in 1 .. Len(sentBy') /\ sentBy'[Len(sentBy) + 1] = m
    BY <2>d, <2>e, JustSent
  <2>f. /\ req'[h].panels = {m} /\ req'[h].mold = req[h].mold /\ req'[h].on = req[h].on
        /\ req'[h].old = req[h].old /\ req'[h].op = req[h].op
    BY <1>5, <2>b DEF Changed, Fields
  <2>g. req[h].op \in {"UpdatePanel", "DeletePanel"}
    BY <1>0, Whereabouts DEF SendMulti
  <2>h. Of(req[h].msg, m)'
    BY <1>5, <2>a DEF Of
  <2>i. HandlerOwn(req[h])'
    BY <1>0, <1>2, <1>5, <2>f, <2>g, <2>h DEF HandlerOwn, PanelOps, MultiOps
  <2>1. HandlerOwn(req[h])'
    BY <1>0, <1>2, <1>5, Whereabouts, <2>i DEF SendMulti, At, HandlerOwn, Changed, Fields,
       PanelOps, MultiOps, Of
  <2>2. QED
    BY <1>0, <1>1, <1>5, <2>1, OthersOwn DEF Changed
<1>6. ASSUME /\ faults' = faults + 1 /\ UNCHANGED discord /\ Changed(h, {"at"})
             /\ req'[h].at = "next"
     PROVE  HandlersOwn'
  <2>1. HandlerOwn(req[h])'
    BY <1>0, <1>2, <1>6, Whereabouts DEF SendMulti, At, HandlerOwn, Changed, Fields, PanelOps,
       MultiOps, Of
  <2>2. QED
    BY <1>0, <1>1, <1>6, <2>1, OthersOwn DEF Changed
<1>7. QED
  BY <1>1, <1>3, <1>4, <1>5, <1>6, SendMultiStep DEF OwnInv

LEMMA RecordMultiOwn ==
    ASSUME BaseInv, OwnInv, NEW h \in Handlers, RecordMulti(h)
    PROVE  OwnInv' /\ Grows
<1>0. /\ RowsOwn /\ LiveOwn /\ HandlersOwn /\ HandlerOwn(req[h]) /\ DiscordOK /\ PanelsOK /\ MultisOK
      /\ req[h] \in Reqs /\ InPlace(req[h]) /\ Equipped(req[h])
  BY DEF OwnInv, HandlersOwn, BaseInv, ReqInv
<1>1. LiveOwn' /\ Grows
  BY <1>0, StillOwn DEF RecordMulti, book, discord
<1>2. \A id, o : Of(id, o) => Of(id, o)'
  BY <1>0, <1>1, StaysOf
<1>3. RowsOwn'
  <2>1. ASSUME NEW m, SetMultiMessage(m, req[h].msg)
        PROVE  \A n \in Multis : mrow'[n].msg = mrow[n].msg \/ (n = m /\ mrow'[n].msg = req[h].msg)
    BY <1>0, <2>1 DEF SetMultiMessage, MultisOK, MRow, With
  <2>2. PICK m \in DOMAIN req[h].mold : req[h].panels = {m}
    BY <1>0 DEF RecordMulti, Equipped
  <2>3. Multi(req[h]) = m /\ Of(req[h].msg, m)
    BY <1>0, <2>2, TheMulti DEF RecordMulti, HandlerOwn
  <2>4. QED
    BY <1>0, <1>2, <2>1, <2>3 DEF RecordMulti, RowsOwn, panelTable
<1>4. ASSUME /\ Changed(h, {"at"})
             /\ req'[h].at = (IF req[h].op = "DeletePanel" THEN "deleteMulti" ELSE "next")
     PROVE  HandlersOwn'
  <2>1. HandlerOwn(req[h])'
    BY <1>0, <1>2, <1>4, Whereabouts DEF RecordMulti, At, HandlerOwn, Changed, Fields
  <2>2. QED
    BY <1>0, <1>1, <1>4, <2>1, OthersOwn DEF Changed
<1>5. QED
  BY <1>1, <1>3, <1>4, RecordMultiStep DEF OwnInv

LEMMA DeleteMultiOwn ==
    ASSUME BaseInv, OwnInv, NEW h \in Handlers, DeleteMulti(h)
    PROVE  OwnInv' /\ Grows
<1>0. /\ RowsOwn /\ LiveOwn /\ HandlersOwn /\ HandlerOwn(req[h]) /\ DiscordOK /\ PanelsOK /\ MultisOK
      /\ req[h] \in Reqs /\ InPlace(req[h]) /\ Equipped(req[h])
  BY DEF OwnInv, HandlersOwn, BaseInv, ReqInv
<1>1. LiveOwn' /\ Grows
  BY <1>0, DeletedOwn, StillOwn DEF DeleteMulti
<1>2. \A id, o : Of(id, o) => Of(id, o)'
  BY <1>0, <1>1, StaysOf
<1>3. RowsOwn'
  BY <1>0, <1>1, RowsStayOwn DEF DeleteMulti, panelTable, multiTable
<1>4. ASSUME /\ Changed(h, {"at"}) /\ req'[h].at = "next"
     PROVE  HandlersOwn'
  <2>1. HandlerOwn(req[h])'
    BY <1>0, <1>2, <1>4, Whereabouts DEF DeleteMulti, At, HandlerOwn, Changed, Fields
  <2>2. QED
    BY <1>0, <1>1, <1>4, <2>1, OthersOwn DEF Changed
<1>5. QED
  BY <1>1, <1>3, <1>4, DeleteMultiStep DEF OwnInv

LEMMA LoadMultiOwn ==
    ASSUME BaseInv, OwnInv, NEW h \in Handlers, LoadMulti(h)
    PROVE  OwnInv' /\ Grows
<1>0. /\ RowsOwn /\ LiveOwn /\ HandlersOwn /\ HandlerOwn(req[h]) /\ DiscordOK /\ PanelsOK /\ MultisOK
      /\ req[h] \in Reqs /\ InPlace(req[h]) /\ Equipped(req[h])
  BY DEF OwnInv, HandlersOwn, BaseInv, ReqInv
<1>1. LiveOwn' /\ Grows
  BY <1>0, StillOwn DEF LoadMulti, book, discord
<1>2. \A id, o : Of(id, o) => Of(id, o)'
  BY <1>0, <1>1, StaysOf
<1>3. RowsOwn'
  BY <1>0, <1>1, RowsStayOwn DEF LoadMulti, panelTable, multiTable
<1>4. ASSUME Finish(h) PROVE HandlersOwn'
  BY <1>0, <1>1, <1>4, IdleOwn
<1>5. ASSUME /\ (req[h].op # "MultiPanelCreate" => req[h].on \in mstored)
             /\ (req[h].op \in {"MultiPanelCreate", "MultiPanelUpdate"} => ValidPanels(req[h].panels))
             /\ Changed(h, {"mold", "list", "at"}) /\ req'[h].mold = mrow
             /\ req'[h].list = req[h].panels
             /\ req'[h].at = (IF req[h].op = "MultiPanelCreate" THEN "sendOwn" ELSE "oldOwn")
     PROVE  HandlersOwn'
  <2>1. HandlerOwn(req[h])'
    BY <1>0, <1>2, <1>5, Whereabouts DEF LoadMulti, At, HandlerOwn, Changed, Fields, RowsOwn,
       MultisOK
  <2>2. QED
    BY <1>0, <1>1, <1>5, <2>1, OthersOwn DEF Changed
<1>6. QED
  BY <1>1, <1>3, <1>4, <1>5, LoadMultiStep DEF OwnInv

LEMMA OldMultiMessageOwn ==
    ASSUME BaseInv, OwnInv, NEW h \in Handlers, OldMultiMessage(h)
    PROVE  OwnInv' /\ Grows
<1>0. /\ RowsOwn /\ LiveOwn /\ HandlersOwn /\ HandlerOwn(req[h]) /\ DiscordOK /\ PanelsOK /\ MultisOK
      /\ req[h] \in Reqs /\ InPlace(req[h]) /\ Equipped(req[h])
  BY DEF OwnInv, HandlersOwn, BaseInv, ReqInv
<1>1. LiveOwn' /\ Grows
  <2>1. req[h].list \in SUBSET Panels
    BY <1>0 DEF Reqs
  <2>2. QED
    BY <1>0, <2>1, EditedOwn, DeletedOwn, StillOwn DEF OldMultiMessage
<1>2. \A id, o : Of(id, o) => Of(id, o)'
  BY <1>0, <1>1, StaysOf
<1>3. RowsOwn'
  BY <1>0, <1>1, RowsStayOwn DEF OldMultiMessage, panelTable, multiTable
<1>4. ASSUME /\ req[h].op = "MultiPanelUpdate" /\ req[h].mold[req[h].on].chan = req[h].chan
             /\ IsLive(req[h].mold[req[h].on].chan, req[h].mold[req[h].on].msg)
             /\ EditMessage(req[h].mold[req[h].on].chan, req[h].mold[req[h].on].msg, req[h].list)
             /\ Changed(h, {"msg", "at"}) /\ req'[h].msg = req[h].mold[req[h].on].msg
             /\ req'[h].at = "storeOwn"
     PROVE  HandlersOwn'
  <2>1. HandlerOwn(req[h])'
    BY <1>0, <1>2, <1>4, Whereabouts DEF OldMultiMessage, At, HandlerOwn, Changed, Fields,
       AfterDelete, InPlace, MultiOps, PanelOps, Reqs, Equipped
  <2>2. QED
    BY <1>0, <1>1, <1>4, <2>1, OthersOwn DEF Changed
<1>5. ASSUME /\ req[h].op = "MultiPanelUpdate" /\ req[h].mold[req[h].on].chan = req[h].chan
             /\ ~IsLive(req[h].mold[req[h].on].chan, req[h].mold[req[h].on].msg)
             /\ UNCHANGED discord /\ Changed(h, {"at"}) /\ req'[h].at = "sendOwn"
     PROVE  HandlersOwn'
  <2>1. HandlerOwn(req[h])'
    BY <1>0, <1>2, <1>5, Whereabouts DEF OldMultiMessage, At, HandlerOwn, Changed, Fields,
       AfterDelete, InPlace, MultiOps, PanelOps, Reqs, Equipped
  <2>2. QED
    BY <1>0, <1>1, <1>5, <2>1, OthersOwn DEF Changed
<1>6. ASSUME /\ ~(req[h].op = "MultiPanelUpdate" /\ req[h].mold[req[h].on].chan = req[h].chan)
             /\ DeleteMessage(req[h].mold[req[h].on].chan, req[h].mold[req[h].on].msg)
             /\ Changed(h, {"at"}) /\ req'[h].at = AfterDelete(req[h].op)
     PROVE  HandlersOwn'
  <2>1. HandlerOwn(req[h])'
    BY <1>0, <1>2, <1>6, Whereabouts DEF OldMultiMessage, At, HandlerOwn, Changed, Fields,
       AfterDelete, InPlace, MultiOps, PanelOps, Reqs, Equipped
  <2>2. QED
    BY <1>0, <1>1, <1>6, <2>1, OthersOwn DEF Changed
<1>7. QED
  BY <1>1, <1>3, <1>4, <1>5, <1>6, OldMultiMessageStep DEF OwnInv

LEMMA OldMultiMessageStaysOwn ==
    ASSUME BaseInv, OwnInv, NEW h \in Handlers, OldMultiMessageStays(h)
    PROVE  OwnInv' /\ Grows
<1>0. /\ RowsOwn /\ LiveOwn /\ HandlersOwn /\ HandlerOwn(req[h]) /\ DiscordOK /\ PanelsOK /\ MultisOK
      /\ req[h] \in Reqs /\ InPlace(req[h]) /\ Equipped(req[h])
  BY DEF OwnInv, HandlersOwn, BaseInv, ReqInv
<1>1. LiveOwn' /\ Grows
  BY <1>0, StillOwn DEF OldMultiMessageStays, book, discord
<1>2. \A id, o : Of(id, o) => Of(id, o)'
  BY <1>0, <1>1, StaysOf
<1>3. RowsOwn'
  BY <1>0, <1>1, RowsStayOwn DEF OldMultiMessageStays, panelTable, multiTable
<1>4. ASSUME /\ Changed(h, {"at"}) /\ req'[h].at = AfterDelete(req[h].op)
     PROVE  HandlersOwn'
  <2>1. HandlerOwn(req[h])'
    BY <1>0, <1>2, <1>4, Whereabouts DEF OldMultiMessageStays, At, HandlerOwn, Changed, Fields,
       AfterDelete, MultiOps, PanelOps
  <2>2. QED
    BY <1>0, <1>1, <1>4, <2>1, OthersOwn DEF Changed
<1>5. QED
  BY <1>1, <1>3, <1>4, OldMultiMessageStaysStep DEF OwnInv

LEMMA ListOwnOwn ==
    ASSUME BaseInv, OwnInv, NEW h \in Handlers, ListOwn(h)
    PROVE  OwnInv' /\ Grows
<1>0. /\ RowsOwn /\ LiveOwn /\ HandlersOwn /\ HandlerOwn(req[h]) /\ DiscordOK /\ PanelsOK /\ MultisOK
      /\ req[h] \in Reqs /\ InPlace(req[h]) /\ Equipped(req[h])
  BY DEF OwnInv, HandlersOwn, BaseInv, ReqInv
<1>1. LiveOwn' /\ Grows
  BY <1>0, StillOwn DEF ListOwn, book, discord
<1>2. \A id, o : Of(id, o) => Of(id, o)'
  BY <1>0, <1>1, StaysOf
<1>3. RowsOwn'
  BY <1>0, <1>1, RowsStayOwn DEF ListOwn, panelTable, multiTable
<1>4. ASSUME /\ Changed(h, {"list", "at"}) /\ req'[h].list = targets[req[h].on]
             /\ req'[h].at = "sendOwn"
     PROVE  HandlersOwn'
  <2>1. HandlerOwn(req[h])'
    BY <1>0, <1>2, <1>4, Whereabouts DEF ListOwn, At, HandlerOwn, Changed, Fields
  <2>2. QED
    BY <1>0, <1>1, <1>4, <2>1, OthersOwn DEF Changed
<1>5. QED
  BY <1>1, <1>3, <1>4, ListOwnStep DEF OwnInv

LEMMA SendOwnOwn ==
    ASSUME BaseInv, OwnInv, NEW h \in Handlers, SendOwn(h)
    PROVE  OwnInv' /\ Grows
<1>0. /\ RowsOwn /\ LiveOwn /\ HandlersOwn /\ HandlerOwn(req[h]) /\ DiscordOK /\ PanelsOK /\ MultisOK
      /\ req[h] \in Reqs /\ InPlace(req[h]) /\ Equipped(req[h])
  BY DEF OwnInv, HandlersOwn, BaseInv, ReqInv
<1>1. LiveOwn' /\ Grows
  <2>1. req[h].on \in Objects
    BY <1>0, Whereabouts DEF SendOwn, InPlace, Objects, MultiOps
  <2>2. QED
    BY <1>0, <2>1, SentOwn DEF SendOwn, Send, SendLost
<1>2. \A id, o : Of(id, o) => Of(id, o)'
  BY <1>0, <1>1, StaysOf
<1>3. RowsOwn'
  BY <1>0, <1>1, RowsStayOwn DEF SendOwn, panelTable, multiTable
<1>4. ASSUME Finish(h) PROVE HandlersOwn'
  BY <1>0, <1>1, <1>4, IdleOwn
<1>5. ASSUME /\ UNCHANGED faults /\ Changed(h, {"msg", "at"})
             /\ req'[h].msg = Len(sentBy) + 1 /\ req'[h].at = "storeOwn"
     PROVE  HandlersOwn'
  <2>a. Len(sentBy) + 1 \in 1 .. Len(sentBy') /\ sentBy'[Len(sentBy) + 1] = req[h].on
    BY <1>0, Whereabouts, JustSent DEF SendOwn, Send, SendLost, Objects, InPlace, MultiOps
  <2>1. HandlerOwn(req[h])'
    BY <1>0, <1>2, <1>5, Whereabouts, <2>a DEF SendOwn, At, HandlerOwn, Changed, Fields, InPlace,
       PanelOps, MultiOps, Of
  <2>2. QED
    BY <1>0, <1>1, <1>5, <2>1, OthersOwn DEF Changed
<1>6. QED
  BY <1>1, <1>3, <1>4, <1>5, SendOwnStep DEF OwnInv

LEMMA CreateMultiRowOwn ==
    ASSUME BaseInv, OwnInv, NEW h \in Handlers, CreateMultiRow(h)
    PROVE  OwnInv' /\ Grows
<1>0. /\ RowsOwn /\ LiveOwn /\ HandlersOwn /\ HandlerOwn(req[h]) /\ DiscordOK /\ PanelsOK /\ MultisOK
      /\ req[h] \in Reqs /\ InPlace(req[h]) /\ Equipped(req[h])
  BY DEF OwnInv, HandlersOwn, BaseInv, ReqInv
<1>1. LiveOwn' /\ Grows
  BY <1>0, StillOwn DEF CreateMultiRow, book, discord
<1>2. \A id, o : Of(id, o) => Of(id, o)'
  BY <1>0, <1>1, StaysOf
<1>3. RowsOwn'
  <2>1. \A m \in Multis : mrow'[m].msg = mrow[m].msg \/ (m = req[h].on /\ mrow'[m].msg = req[h].msg)
    BY <1>0 DEF CreateMultiRow, MultisOK, MRow
  <2>2. Of(req[h].msg, req[h].on)
    BY <1>0 DEF CreateMultiRow, At, HandlerOwn, MultiOps
  <2>3. QED
    BY <1>0, <1>2, <2>1, <2>2 DEF CreateMultiRow, RowsOwn, panelTable
<1>4. ASSUME /\ Changed(h, {"at"}) /\ req'[h].at = "insert"
     PROVE  HandlersOwn'
  <2>1. HandlerOwn(req[h])'
    BY <1>0, <1>2, <1>4, Whereabouts DEF CreateMultiRow, At, HandlerOwn, Changed, Fields
  <2>2. QED
    BY <1>0, <1>1, <1>4, <2>1, OthersOwn DEF Changed
<1>5. QED
  BY <1>1, <1>3, <1>4, CreateMultiRowStep DEF OwnInv

LEMMA UpdateMultiRowOwn ==
    ASSUME BaseInv, OwnInv, NEW h \in Handlers, UpdateMultiRow(h)
    PROVE  OwnInv' /\ Grows
<1>0. /\ RowsOwn /\ LiveOwn /\ HandlersOwn /\ HandlerOwn(req[h]) /\ DiscordOK /\ PanelsOK /\ MultisOK
      /\ req[h] \in Reqs /\ InPlace(req[h]) /\ Equipped(req[h])
  BY DEF OwnInv, HandlersOwn, BaseInv, ReqInv
<1>1. LiveOwn' /\ Grows
  BY <1>0, StillOwn DEF UpdateMultiRow, book, discord
<1>2. \A id, o : Of(id, o) => Of(id, o)'
  BY <1>0, <1>1, StaysOf
<1>3. RowsOwn'
  <2>1. \A m \in Multis : mrow'[m].msg = mrow[m].msg \/ (m = req[h].on /\ mrow'[m].msg = req[h].msg)
    BY <1>0 DEF UpdateMultiRow, MultisOK, MRow
  <2>2. Of(req[h].msg, req[h].on)
    BY <1>0 DEF UpdateMultiRow, At, HandlerOwn, MultiOps
  <2>3. QED
    BY <1>0, <1>2, <2>1, <2>2 DEF UpdateMultiRow, RowsOwn, panelTable
<1>4. ASSUME /\ Changed(h, {"at"}) /\ req'[h].at = "clear"
     PROVE  HandlersOwn'
  <2>1. HandlerOwn(req[h])'
    BY <1>0, <1>2, <1>4, Whereabouts DEF UpdateMultiRow, At, HandlerOwn, Changed, Fields
  <2>2. QED
    BY <1>0, <1>1, <1>4, <2>1, OthersOwn DEF Changed
<1>5. QED
  BY <1>1, <1>3, <1>4, UpdateMultiRowStep DEF OwnInv

LEMMA RecordResentMultiOwn ==
    ASSUME BaseInv, OwnInv, NEW h \in Handlers, RecordResentMulti(h)
    PROVE  OwnInv' /\ Grows
<1>0. /\ RowsOwn /\ LiveOwn /\ HandlersOwn /\ HandlerOwn(req[h]) /\ DiscordOK /\ PanelsOK /\ MultisOK
      /\ req[h] \in Reqs /\ InPlace(req[h]) /\ Equipped(req[h])
  BY DEF OwnInv, HandlersOwn, BaseInv, ReqInv
<1>1. LiveOwn' /\ Grows
  BY <1>0, StillOwn DEF RecordResentMulti, book, discord
<1>2. \A id, o : Of(id, o) => Of(id, o)'
  BY <1>0, <1>1, StaysOf
<1>3. RowsOwn'
  <2>1. ASSUME NEW m, SetMultiMessage(m, req[h].msg)
        PROVE  \A n \in Multis : mrow'[n].msg = mrow[n].msg \/ (n = m /\ mrow'[n].msg = req[h].msg)
    BY <1>0, <2>1 DEF SetMultiMessage, MultisOK, MRow, With
  <2>2. Of(req[h].msg, req[h].on)
    BY <1>0 DEF RecordResentMulti, At, HandlerOwn, MultiOps
  <2>3. QED
    BY <1>0, <1>2, <2>1, <2>2 DEF RecordResentMulti, RowsOwn, panelTable
<1>4. HandlersOwn'
  BY <1>0, <1>1, RecordResentMultiStep, IdleOwn
<1>5. QED
  BY <1>1, <1>3, <1>4 DEF OwnInv

LEMMA DeleteMultiRowOwn ==
    ASSUME BaseInv, OwnInv, NEW h \in Handlers, DeleteMultiRow(h)
    PROVE  OwnInv' /\ Grows
<1>0. /\ RowsOwn /\ LiveOwn /\ HandlersOwn /\ HandlerOwn(req[h]) /\ DiscordOK /\ PanelsOK /\ MultisOK
      /\ req[h] \in Reqs /\ InPlace(req[h]) /\ Equipped(req[h])
  BY DEF OwnInv, HandlersOwn, BaseInv, ReqInv
<1>1. LiveOwn' /\ Grows
  BY <1>0, StillOwn DEF DeleteMultiRow, book, discord
<1>2. \A id, o : Of(id, o) => Of(id, o)'
  BY <1>0, <1>1, StaysOf
<1>3. RowsOwn'
  <2>1. \A m \in Multis : mrow'[m].msg = mrow[m].msg \/ mrow'[m].msg = 0
    BY <1>0 DEF DeleteMultiRow, MultisOK, MRow, NoMRow
  <2>2. QED
    BY <1>0, <1>2, <2>1 DEF DeleteMultiRow, RowsOwn, Of, panelTable
<1>4. HandlersOwn'
  BY <1>0, <1>1, DeleteMultiRowStep, IdleOwn
<1>5. QED
  BY <1>1, <1>3, <1>4 DEF OwnInv

LEMMA ClearTargetsOwn ==
    ASSUME BaseInv, OwnInv, NEW h \in Handlers, ClearTargets(h)
    PROVE  OwnInv' /\ Grows
<1>0. /\ RowsOwn /\ LiveOwn /\ HandlersOwn /\ HandlerOwn(req[h]) /\ DiscordOK /\ PanelsOK /\ MultisOK
      /\ req[h] \in Reqs /\ InPlace(req[h]) /\ Equipped(req[h])
  BY DEF OwnInv, HandlersOwn, BaseInv, ReqInv
<1>1. LiveOwn' /\ Grows
  BY <1>0, StillOwn DEF ClearTargets, book, discord
<1>2. \A id, o : Of(id, o) => Of(id, o)'
  BY <1>0, <1>1, StaysOf
<1>3. RowsOwn'
  BY <1>0, <1>1, RowsStayOwn DEF ClearTargets, panelTable, multiTable
<1>4. ASSUME /\ Changed(h, {"at"}) /\ req'[h].at = "insert"
     PROVE  HandlersOwn'
  <2>1. HandlerOwn(req[h])'
    BY <1>0, <1>2, <1>4, Whereabouts DEF ClearTargets, At, HandlerOwn, Changed, Fields
  <2>2. QED
    BY <1>0, <1>1, <1>4, <2>1, OthersOwn DEF Changed
<1>5. QED
  BY <1>1, <1>3, <1>4, ClearTargetsStep DEF OwnInv

LEMMA InsertTargetOwn ==
    ASSUME BaseInv, OwnInv, NEW h \in Handlers, InsertTarget(h)
    PROVE  OwnInv' /\ Grows
<1>0. /\ RowsOwn /\ LiveOwn /\ HandlersOwn /\ HandlerOwn(req[h]) /\ DiscordOK /\ PanelsOK /\ MultisOK
      /\ req[h] \in Reqs /\ InPlace(req[h]) /\ Equipped(req[h])
  BY DEF OwnInv, HandlersOwn, BaseInv, ReqInv
<1>1. LiveOwn' /\ Grows
  BY <1>0, StillOwn DEF InsertTarget, book, discord
<1>2. \A id, o : Of(id, o) => Of(id, o)'
  BY <1>0, <1>1, StaysOf
<1>3. RowsOwn'
  BY <1>0, <1>1, RowsStayOwn DEF InsertTarget, panelTable, multiTable
<1>4. ASSUME Finish(h) PROVE HandlersOwn'
  BY <1>0, <1>1, <1>4, IdleOwn
<1>5. ASSUME NEW p \in req[h].list,
           /\ targets' = (IF p \in stored /\ req[h].on \in mstored THEN [targets EXCEPT ![req[h].on] = @ \union {p}] ELSE targets)
           /\ Changed(h, {"list"}) /\ req'[h].list = req[h].list \ {p}
     PROVE  HandlersOwn'
  <2>1. HandlerOwn(req[h])'
    BY <1>0, <1>2, <1>5, Whereabouts DEF InsertTarget, At, HandlerOwn, Changed, Fields
  <2>2. QED
    BY <1>0, <1>1, <1>5, <2>1, OthersOwn DEF Changed
<1>6. QED
  BY <1>1, <1>3, <1>4, <1>5, InsertTargetStep DEF OwnInv

LEMMA FailOwn ==
    ASSUME BaseInv, OwnInv, NEW h \in Handlers, Fail(h)
    PROVE  OwnInv' /\ Grows
<1>0. /\ RowsOwn /\ LiveOwn /\ HandlersOwn /\ HandlerOwn(req[h]) /\ DiscordOK /\ PanelsOK /\ MultisOK
      /\ req[h] \in Reqs /\ InPlace(req[h]) /\ Equipped(req[h])
  BY DEF OwnInv, HandlersOwn, BaseInv, ReqInv
<1>1. LiveOwn' /\ Grows
  BY <1>0, StillOwn DEF Fail, book, discord
<1>2. \A id, o : Of(id, o) => Of(id, o)'
  BY <1>0, <1>1, StaysOf
<1>3. RowsOwn'
  BY <1>0, <1>1, RowsStayOwn DEF Fail, panelTable, multiTable
<1>4. HandlersOwn'
  BY <1>0, <1>1, FailStep, IdleOwn
<1>5. QED
  BY <1>1, <1>3, <1>4 DEF OwnInv
----
(* The first states and the requests that arrive. *)

\* What Init says, with the first message of each object in a function.
First(P, M, c, id) ==
    /\ P \subseteq Panels /\ M \subseteq Multis /\ c \in Channels
    /\ stored = P /\ mstored = M
    /\ sentBy \in Seq(P \union M) /\ id \in [P \union M -> 1 .. Len(sentBy)]
    /\ \A o \in P \union M : sentBy[id[o]] = o
    /\ \A i \in 1 .. Len(sentBy) : id[sentBy[i]] = i
    /\ row = [p \in Panels |-> IF p \in P THEN [chan |-> c, msg |-> id[p], embed |-> 0] ELSE NoRow]
    /\ mrow = [m \in Multis |-> IF m \in M THEN [chan |-> c, msg |-> id[m]] ELSE NoMRow]
    /\ targets = [m \in Multis |-> IF m \in M THEN P ELSE {}]
    /\ live = {[id |-> id[o], chan |-> c, of |-> o, shows |-> IF o \in M THEN P ELSE {o}] : o \in P \union M}

LEMMA Counted ==
    ASSUME NEW S, IsFiniteSet(S), NEW ids \in [1 .. Cardinality(S) -> S],
           \A o \in S : \E i \in DOMAIN ids : ids[i] = o
    PROVE  /\ Cardinality(S) \in Nat /\ ids \in Seq(S) /\ Len(ids) = Cardinality(S)
           /\ \A i, j \in DOMAIN ids : ids[i] = ids[j] => i = j
<1>1. Cardinality(S) \in Nat
  BY FS_CardinalityType
<1>2. IsFiniteSet(1 .. Cardinality(S)) /\ Cardinality(1 .. Cardinality(S)) = Cardinality(S)
  BY <1>1, FS_Interval
<1>3. ids \in Surjection(1 .. Cardinality(S), S)
  BY DEF Surjection
<1>4. ids \in Injection(1 .. Cardinality(S), S)
  BY <1>2, <1>3, FS_SurjSameCardinalityImpliesInj
<1>5. \A i, j \in DOMAIN ids : ids[i] = ids[j] => i = j
  BY <1>4 DEF Injection, IsInjective
<1>6. QED
  BY <1>1, <1>5

LEMMA FirstState ==
    ASSUME Init
    PROVE  \E P, M, c, id : First(P, M, c, id)
<1>1. PICK P \in SUBSET Panels : \E M \in SUBSET Multis : \E c \in Channels :
        \E ids \in [1 .. Cardinality(P \union M) -> P \union M] :
          /\ \A o \in P \union M : \E i \in DOMAIN ids : ids[i] = o
          /\ Posted(P, M, c, ids)
  BY Zenon DEF Init
<1>2. PICK M \in SUBSET Multis : \E c \in Channels :
        \E ids \in [1 .. Cardinality(P \union M) -> P \union M] :
          /\ \A o \in P \union M : \E i \in DOMAIN ids : ids[i] = o
          /\ Posted(P, M, c, ids)
  BY <1>1
<1>3. PICK c \in Channels, ids \in [1 .. Cardinality(P \union M) -> P \union M] :
        /\ \A o \in P \union M : \E i \in DOMAIN ids : ids[i] = o
        /\ Posted(P, M, c, ids)
  BY <1>2
<1> DEFINE Id(o) == CHOOSE i \in DOMAIN ids : ids[i] = o
           id == [o \in P \union M |-> Id(o)]
<1>4. /\ sentBy = ids /\ stored = P /\ mstored = M
      /\ row = [p \in Panels |-> IF p \in P THEN [chan |-> c, msg |-> Id(p), embed |-> 0] ELSE NoRow]
      /\ mrow = [m \in Multis |-> IF m \in M THEN [chan |-> c, msg |-> Id(m)] ELSE NoMRow]
      /\ targets = [m \in Multis |-> IF m \in M THEN P ELSE {}]
      /\ live = {[id |-> Id(o), chan |-> c, of |-> o, shows |-> IF o \in M THEN P ELSE {o}] : o \in P \union M}
  BY <1>3 DEF Posted
<1>5. IsFiniteSet(P \union M)
  BY FS_Subset, FS_Union, PanelMessagesAssumption
<1>6. /\ Cardinality(P \union M) \in Nat /\ ids \in Seq(P \union M) /\ Len(ids) = Cardinality(P \union M)
      /\ \A i, j \in DOMAIN ids : ids[i] = ids[j] => i = j
  BY <1>3, <1>5, Counted
<1>7. \A o \in P \union M : Id(o) \in DOMAIN ids /\ ids[Id(o)] = o
  BY <1>3
<1>8. \A i \in DOMAIN ids : Id(ids[i]) = i
  BY <1>6, <1>7
<1> HIDE DEF Id
<1>9. /\ id \in [P \union M -> 1 .. Len(sentBy)] /\ \A o \in P \union M : sentBy[id[o]] = o /\ id[o] = Id(o)
      /\ \A i \in 1 .. Len(sentBy) : id[sentBy[i]] = i
  BY <1>4, <1>6, <1>7, <1>8
<1>10. row = [p \in Panels |-> IF p \in P THEN [chan |-> c, msg |-> id[p], embed |-> 0] ELSE NoRow]
  BY <1>4, <1>9
<1>11. mrow = [m \in Multis |-> IF m \in M THEN [chan |-> c, msg |-> id[m]] ELSE NoMRow]
  BY <1>4, <1>9
<1>12. live = {[id |-> id[o], chan |-> c, of |-> o, shows |-> IF o \in M THEN P ELSE {o}] : o \in P \union M}
  <2> DEFINE Post(o, i) == [id |-> i, chan |-> c, of |-> o, shows |-> IF o \in M THEN P ELSE {o}]
  <2> HIDE DEF Post
  <2>1. live = {Post(o, Id(o)) : o \in P \union M}
    BY <1>4 DEF Post
  <2>2. \A o \in P \union M : Post(o, id[o]) = Post(o, Id(o))
    BY <1>9
  <2> HIDE DEF id
  <2>3. {Post(o, id[o]) : o \in P \union M} = {Post(o, Id(o)) : o \in P \union M}
    BY <2>2
  <2>4. QED
    BY <2>1, <2>3 DEF Post
<1> HIDE DEF id
<1>13. First(P, M, c, id)
  BY <1>4, <1>6, <1>9, <1>10, <1>11, <1>12 DEF First
<1>14. QED
  BY <1>13

LEMMA InitBase == Init => BaseInv
<1> SUFFICES ASSUME Init PROVE BaseInv
  OBVIOUS
<1>1. PICK P, M, c, id : First(P, M, c, id)
  BY FirstState
<1>2. ReqInv
  BY IdleIsWell DEF Init, ReqInv
<1>3. PanelsOK
  BY <1>1 DEF First, PanelsOK, Row, NoRow
<1>4. MultisOK
  BY <1>1 DEF First, MultisOK, MRow, NoMRow
<1>5. EmbedsOK /\ BookOK
  BY DEF Init, EmbedsOK, BookOK
<1>6. sentBy \in Seq(Objects)
  BY <1>1 DEF First, Objects
<1>7. \A o \in P \union M : [id |-> id[o], chan |-> c, of |-> o, shows |-> IF o \in M THEN P ELSE {o}] \in Message
  BY <1>1 DEF First, Message, Objects
<1>8. live \subseteq Message
  BY <1>1, <1>7 DEF First
<1>9. QED
  BY <1>2, <1>3, <1>4, <1>5, <1>6, <1>8 DEF BaseInv, DiscordOK

LEMMA InitOwn == Init => OwnInv
<1> SUFFICES ASSUME Init PROVE OwnInv
  OBVIOUS
<1>1. PICK P, M, c, id : First(P, M, c, id)
  BY FirstState
<1>2. RowsOwn
  BY <1>1 DEF First, RowsOwn, Of, NoRow, NoMRow
<1>3. LiveOwn
  BY <1>1 DEF First, LiveOwn
<1>4. HandlersOwn
  BY DEF Init, HandlersOwn, HandlerOwn, Idle, PanelOps, MultiOps
<1>5. QED
  BY <1>2, <1>3, <1>4 DEF OwnInv

\* A request that arrives at h.
Starts(h) ==
    /\ req[h] = Idle /\ req' \in [Handlers -> Reqs]
    /\ \A g \in Handlers \ {h} : req'[g] = req[g]
    /\ req'[h].op \in PanelOps \union MultiOps /\ req'[h].at = "load"
    /\ req'[h].mold = <<>> /\ req'[h].old = NoRow /\ req'[h].msg = 0
    /\ req'[h].op \in {"CreatePanel", "MultiPanelCreate"} =>
         /\ req'[h].on \notin stored \union mstored
         /\ \A g \in Handlers : req[g].on # req'[h].on
         /\ \A i \in 1 .. Len(sentBy) : sentBy[i] # req'[h].on
    /\ raced' = raced \union UNION {Touches(req'[h]) \intersect Touches(req[g]) : g \in Handlers}
    /\ UNCHANGED <<panelTable, multiTable, embedTable, discord, premium, faults>>

LEMMA RequestStep ==
    ASSUME BaseInv, NEW h \in Handlers, NEW op \in PanelOps \union MultiOps, NEW o \in Objects,
           NEW c \in Channels \union {0}, NEW P \in SUBSET Panels, NEW w \in BOOLEAN,
           Request(h, op, o, c, P, w),
           op \in PanelOps => o \in Panels, op \in MultiOps => o \in Multis,
           op \in {"CreatePanel", "UpdatePanel", "MultiPanelCreate", "MultiPanelUpdate"} => c \in Channels,
           op \in {"CreatePanel", "MultiPanelCreate"} =>
             /\ o \notin stored \union mstored /\ \A g \in Handlers : req[g].on # o
             /\ \A i \in 1 .. Len(sentBy) : sentBy[i] # o
    PROVE  BaseInv' /\ Starts(h)
<1> DEFINE new == [op |-> op, at |-> "load", on |-> o, chan |-> c, panels |-> P, welcome |-> w]
           r == With(Idle, new)
<1>0. req \in [Handlers -> Reqs] /\ ReqInv
  BY DEF BaseInv, ReqInv
<1>1. r = [op |-> op, at |-> "load", on |-> o, chan |-> c, panels |-> P, welcome |-> w,
           old |-> NoRow, mold |-> <<>>, msg |-> 0, embed |-> 0, todo |-> {}, list |-> {}]
  <2>1. DOMAIN Idle = Fields /\ DOMAIN new \subseteq Fields
    BY DEF Idle, Fields
  <2>2. r = [f \in Fields |-> IF f \in DOMAIN new THEN new[f] ELSE Idle[f]]
    BY <2>1 DEF With
  <2>3. QED
    BY <2>2 DEF Fields, Idle
<1>2. r \in Reqs
  <2>1. Idle \in Reqs /\ Idle.mold = <<>> /\ Idle.old = NoRow
    BY IdleIsWell DEF Idle
  <2>2. <<>> \in Molds /\ NoRow \in Row
    BY <2>1 DEF Reqs
  <2>3. op \in Ops /\ o \in Objects \union {0} /\ P \in SUBSET Objects
    BY DEF Ops, Objects
  <2>4. QED
    BY <1>1, <2>2, <2>3 DEF Reqs, Places
<1>3. InPlace(r) /\ Equipped(r)
  BY <1>1 DEF InPlace, Equipped, PanelOps, MultiOps
<1> HIDE DEF r
<1>4. req' = [req EXCEPT ![h] = r] /\ req[h] = Idle
  BY DEF Request, r
<1>5. req' \in [Handlers -> Reqs] /\ req'[h] = r /\ \A g \in Handlers \ {h} : req'[g] = req[g]
  BY <1>0, <1>2, <1>4
<1>6. ReqInv'
  BY <1>0, <1>3, <1>5, OneRequest
<1>7. PanelsOK' /\ MultisOK' /\ EmbedsOK' /\ DiscordOK'
  BY PanelsKept, MultisKept, EmbedsKept, DiscordKept DEF Request, BaseInv
<1>8. raced' = raced \union UNION {Touches(r) \intersect Touches(req[g]) : g \in Handlers}
  BY DEF Request, r
<1>9. BookOK'
  <2>1. Touches(r) \subseteq Objects
    BY <1>1 DEF Touches, Objects
  <2>2. QED
    BY <1>8, <2>1 DEF Request, BaseInv, BookOK
<1>10. Starts(h)
  BY <1>1, <1>4, <1>5, <1>8 DEF Starts, Request
<1>11. QED
  BY <1>6, <1>7, <1>9, <1>10 DEF BaseInv

LEMMA NewRequestStep ==
    ASSUME BaseInv, NEW h \in Handlers, NewRequest(h)
    PROVE  BaseInv' /\ Starts(h)
<1>0. Panels \intersect mstored = {} /\ Multis \intersect stored = {}
  BY PanelMessagesAssumption DEF BaseInv, PanelsOK, MultisOK
<1>1. ASSUME NEW p \in Panels, NEW c \in Channels, NEW w \in BOOLEAN,
             p \notin stored, \A g \in Handlers : req[g].on # p,
             \A i \in 1 .. Len(sentBy) : sentBy[i] # p, Request(h, "CreatePanel", p, c, {}, w)
      PROVE  BaseInv' /\ Starts(h)
  BY <1>0, <1>1, RequestStep DEF Objects, PanelOps, MultiOps
<1>2. ASSUME NEW p \in Panels, NEW c \in Channels, NEW w \in BOOLEAN,
             Request(h, "UpdatePanel", p, c, {}, w)
      PROVE  BaseInv' /\ Starts(h)
  BY <1>2, RequestStep DEF Objects, PanelOps, MultiOps
<1>3. ASSUME NEW p \in Panels, NEW op \in {"ResendPanel", "DeletePanel"},
             Request(h, op, p, 0, {}, FALSE)
      PROVE  BaseInv' /\ Starts(h)
  BY <1>3, RequestStep DEF Objects, PanelOps, MultiOps
<1>4. ASSUME NEW m \in Multis, NEW c \in Channels, NEW P \in SUBSET Panels,
             m \notin mstored, \A g \in Handlers : req[g].on # m,
             \A i \in 1 .. Len(sentBy) : sentBy[i] # m,
             Request(h, "MultiPanelCreate", m, c, P, FALSE)
      PROVE  BaseInv' /\ Starts(h)
  BY <1>0, <1>4, RequestStep DEF Objects, PanelOps, MultiOps
<1>5. ASSUME NEW m \in Multis, NEW c \in Channels, NEW P \in SUBSET Panels,
             Request(h, "MultiPanelUpdate", m, c, P, FALSE)
      PROVE  BaseInv' /\ Starts(h)
  BY <1>5, RequestStep DEF Objects, PanelOps, MultiOps
<1>6. ASSUME NEW m \in Multis, NEW op \in {"MultiPanelResend", "MultiPanelDelete"},
             Request(h, op, m, 0, {}, FALSE)
      PROVE  BaseInv' /\ Starts(h)
  BY <1>6, RequestStep DEF Objects, PanelOps, MultiOps
<1>7. QED
  BY <1>1, <1>2, <1>3, <1>4, <1>5, <1>6, Zenon DEF NewRequest

LEMMA NewRequestOwn ==
    ASSUME BaseInv, OwnInv, NEW h \in Handlers, Starts(h)
    PROVE  OwnInv'
<1>1. LiveOwn' /\ Grows
  BY StillOwn DEF OwnInv, Starts
<1>2. RowsOwn'
  BY <1>1, RowsStayOwn DEF OwnInv, Starts, panelTable, multiTable
<1>3. HandlerOwn(req[h])'
  BY DEF Starts, HandlerOwn, Of, NoRow
<1>4. HandlersOwn'
  BY <1>1, <1>3, OthersOwn DEF OwnInv, Starts
<1>5. QED
  BY <1>1, <1>2, <1>4 DEF OwnInv
LEMMA PanelStepBase ==
    ASSUME BaseInv, NEW h \in Handlers, PanelStep(h)
    PROVE  BaseInv'
  BY LoadPanelStep, CheckQuotaStep, OldMessageStep, OldMessageStaysStep, SendPanelStep,
     SendToMissingChannelStep, RecordResentStep, WriteEmbedStep, CreateRowStep,
     UpdateRowStep, LoadMultisStep, DeleteEmbedStep, DeleteRowStep,
     DeletePanelMessageStep, NextMultiStep, EditMultiStep, SendMultiStep,
     RecordMultiStep, DeleteMultiStep
     DEF PanelStep

LEMMA MultiStepBase ==
    ASSUME BaseInv, NEW h \in Handlers, MultiStep(h)
    PROVE  BaseInv'
  BY LoadMultiStep, OldMultiMessageStep, OldMultiMessageStaysStep, ListOwnStep, SendOwnStep,
     CreateMultiRowStep, UpdateMultiRowStep, RecordResentMultiStep, DeleteMultiRowStep,
     ClearTargetsStep, InsertTargetStep
     DEF MultiStep

LEMMA PanelStepOwn ==
    ASSUME BaseInv, OwnInv, NEW h \in Handlers, PanelStep(h)
    PROVE  OwnInv'
  BY LoadPanelOwn, CheckQuotaOwn, OldMessageOwn, OldMessageStaysOwn, SendPanelOwn,
     SendToMissingChannelOwn, RecordResentOwn, WriteEmbedOwn, CreateRowOwn,
     UpdateRowOwn, LoadMultisOwn, DeleteEmbedOwn, DeleteRowOwn, DeletePanelMessageOwn,
     NextMultiOwn, EditMultiOwn, SendMultiOwn, RecordMultiOwn, DeleteMultiOwn
     DEF PanelStep

LEMMA MultiStepOwn ==
    ASSUME BaseInv, OwnInv, NEW h \in Handlers, MultiStep(h)
    PROVE  OwnInv'
  BY LoadMultiOwn, OldMultiMessageOwn, OldMultiMessageStaysOwn, ListOwnOwn, SendOwnOwn,
     CreateMultiRowOwn, UpdateMultiRowOwn, RecordResentMultiOwn, DeleteMultiRowOwn,
     ClearTargetsOwn, InsertTargetOwn
     DEF MultiStep

LEMMA StandsStill ==
    ASSUME BaseInv, OwnInv, UNCHANGED vars
    PROVE  BaseInv' /\ OwnInv'
<1>1. ReqInv' /\ HandlersOwn'
  BY DEF BaseInv, OwnInv, ReqInv, HandlersOwn, HandlerOwn, Of, vars, discord
<1>2. PanelsOK' /\ MultisOK' /\ EmbedsOK' /\ DiscordOK' /\ BookOK'
  BY PanelsKept, MultisKept, EmbedsKept, DiscordKept, BookKept DEF BaseInv, vars
<1>3. LiveOwn' /\ RowsOwn'
  BY StillOwn, RowsStayOwn DEF OwnInv, vars, panelTable, multiTable
<1>4. QED
  BY <1>1, <1>2, <1>3 DEF BaseInv, OwnInv

LEMMA NextBase ==
    ASSUME BaseInv, OwnInv, [Next]_vars
    PROVE  BaseInv' /\ OwnInv'
<1>1. CASE UNCHANGED vars
  BY <1>1, StandsStill
<1>2. ASSUME NEW h \in Handlers, NewRequest(h) PROVE BaseInv' /\ OwnInv'
  BY <1>2, NewRequestStep, NewRequestOwn
<1>3. ASSUME NEW h \in Handlers, PanelStep(h) PROVE BaseInv' /\ OwnInv'
  BY <1>3, PanelStepBase, PanelStepOwn
<1>4. ASSUME NEW h \in Handlers, MultiStep(h) PROVE BaseInv' /\ OwnInv'
  BY <1>4, MultiStepBase, MultiStepOwn
<1>5. ASSUME NEW h \in Handlers, Fail(h) PROVE BaseInv' /\ OwnInv'
  BY <1>5, FailStep, FailOwn
<1>6. QED
  BY <1>1, <1>2, <1>3, <1>4, <1>5 DEF Next

\* The tables, the messages and the requests keep their types: a handler is
\* only where its operation goes, and knows a channel to send to.
THEOREM PanelTypesHold == Spec => []TypeOK
<1>1. Init => BaseInv /\ OwnInv
  BY InitBase, InitOwn
<1>2. BaseInv /\ OwnInv /\ [Next]_vars => (BaseInv /\ OwnInv)'
  BY NextBase
<1>3. BaseInv => TypeOK
  BY TypesFollow
<1>4. QED
  BY <1>1, <1>2, <1>3, PTL DEF Spec

\* However requests overlap and fail, a row never names another object's message.
THEOREM RowsNameOwnMessages == Spec => []RowNamesOwnMessage
<1>1. Init => BaseInv /\ OwnInv
  BY InitBase, InitOwn
<1>2. BaseInv /\ OwnInv /\ [Next]_vars => (BaseInv /\ OwnInv)'
  BY NextBase
<1>3. BaseInv /\ OwnInv => RowNamesOwnMessage
  BY DEF BaseInv, PanelsOK, MultisOK, OwnInv, RowsOwn, Of, RowNamesOwnMessage
<1>4. QED
  BY <1>1, <1>2, <1>3, PTL DEF Spec
----
(* However requests overlap, whoever deletes the newest message of an object *)
(* has a newer one to send, as long as no request fails.                     *)

Lasting == stored' \subseteq stored /\ mstored' \subseteq mstored

LEMMA CreateKept ==
    ASSUME CreateInv, NEW h \in Handlers, \A g \in Handlers \ {h} : req'[g] = req[g],
           \/ req'[h] = Idle
           \/ /\ req'[h].on = req[h].on
              /\ \/ req[h].at \notin {"idle", "load"}
                 \/ req[h].on \in stored \union mstored
                 \/ Creating(req[h]),
           Creating(req'[h]) => Creating(req[h]),
           \/ Lasting
           \/ /\ Creating(req[h]) /\ ~Creating(req'[h])
              /\ stored' \union mstored' = stored \union mstored \union {req[h].on}
    PROVE  CreateInv'
<1>1. ~Creating(Idle) /\ Idle.at = "idle"
  BY DEF Creating, Idle
<1>2. ASSUME NEW f \in Handlers, Creating(req'[f]) PROVE req'[f].on \notin stored' \union mstored'
  <2>1. CASE f = h
    BY <1>1, <1>2, <2>1 DEF CreateInv, Lasting
  <2>2. CASE f # h
    BY <1>1, <1>2, <2>2 DEF CreateInv, Lasting
  <2>3. QED
    BY <2>1, <2>2
<1>3. ASSUME NEW f \in Handlers, Creating(req'[f]), NEW g \in Handlers \ {f}, req'[g].on = req'[f].on
      PROVE  req'[g].at \in {"idle", "load"} /\ ~Creating(req'[g])
  <2>1. CASE f = h
    BY <1>1, <1>3, <2>1 DEF CreateInv
  <2>2. CASE g = h
    BY <1>1, <1>3, <2>2 DEF CreateInv
  <2>3. CASE f # h /\ g # h
    BY <1>3, <2>3 DEF CreateInv
  <2>4. QED
    BY <2>1, <2>2, <2>3
<1>4. QED
  BY <1>2, <1>3 DEF CreateInv, Creating

LEMMA CreateOn ==
    ASSUME CreateInv, NEW h \in Handlers, \A g \in Handlers \ {h} : req'[g] = req[g],
           req'[h].on = req[h].on, Past(h), Creating(req'[h]) => Creating(req[h]), Lasting
    PROVE  CreateInv'
  BY CreateKept DEF Past

LEMMA RemoveKept ==
    ASSUME RemoveInv, Lasting, NEW h \in Handlers, \A g \in Handlers \ {h} : req'[g] = req[g],
           req'[h].at = "deleteMessage" => req'[h].on \notin stored'
    PROVE  RemoveInv'
  BY DEF RemoveInv, Lasting

LEMMA OlderKept ==
    ASSUME BaseInv, OlderInv, Grows, NEW h \in Handlers, \A g \in Handlers \ {h} : req'[g] = req[g],
           Outdated(req[h])'
    PROVE  OlderInv'
<1>1. \A i \in 1 .. Len(sentBy) : i \in 1 .. Len(sentBy') /\ sentBy'[i] = sentBy[i]
  BY DEF BaseInv, DiscordOK, Grows
<1>2. ASSUME NEW g \in Handlers, g # h PROVE Outdated(req[g])'
  <2>1. Outdated(req[g]) /\ req'[g] = req[g]
    BY <1>2 DEF OlderInv
  <2>2. QED
    BY <1>1, <2>1 DEF Outdated
<1>3. QED
  BY <1>2 DEF OlderInv

LEMMA NewestStays ==
    ASSUME UNCHANGED sentBy, \A x \in live : \E y \in live' : y.id = x.id /\ y.of = x.of
    PROVE  \A o : Newest(o) => Newest(o)'
  BY DEF Newest

LEMMA NewestSame ==
    ASSUME UNCHANGED discord
    PROVE  \A o : Newest(o) => Newest(o)'
  BY DEF Newest, discord

LEMMA NewestSent ==
    ASSUME BaseInv, NEW o \in Objects, NEW c \in Channels, NEW shows \in SUBSET Panels,
           sentBy' = Append(sentBy, o),
           live' = live \union {[id |-> Len(sentBy) + 1, chan |-> c, of |-> o, shows |-> shows]}
    PROVE  \A q : Newest(q) \/ q = o => Newest(q)'
<1>1. /\ sentBy \in Seq(Objects) /\ live \subseteq Message /\ Len(sentBy') = Len(sentBy) + 1
      /\ Len(sentBy) \in Nat /\ sentBy'[Len(sentBy) + 1] = o
      /\ \A i \in 1 .. Len(sentBy) : sentBy'[i] = sentBy[i]
  BY DEF BaseInv, DiscordOK
<1> DEFINE new == [id |-> Len(sentBy) + 1, chan |-> c, of |-> o, shows |-> shows]
<1>2. new \in live' /\ new.of = o /\ new.id = Len(sentBy) + 1
  OBVIOUS
<1>3. \A i \in 1 .. Len(sentBy') : i <= Len(sentBy) + 1
  BY <1>1
<1>4. ASSUME NEW q, Newest(q), q # o
      PROVE  \E x \in live' : x.of = q /\ \A i \in 1 .. Len(sentBy') : sentBy'[i] = q => i <= x.id
  <2>1. PICK x \in live : x.of = q /\ \A i \in 1 .. Len(sentBy) : sentBy[i] = q => i <= x.id
    BY <1>4 DEF Newest
  <2>2. ASSUME NEW i \in 1 .. Len(sentBy'), sentBy'[i] = q PROVE i <= x.id
    <3>1. i # Len(sentBy) + 1
      BY <1>1, <1>4, <2>2
    <3>2. i \in 1 .. Len(sentBy)
      BY <1>1, <3>1
    <3>3. QED
      BY <1>1, <2>1, <2>2, <3>2
  <2>3. QED
    BY <2>1, <2>2
<1> HIDE DEF new
<1>5. QED
  BY <1>2, <1>3, <1>4 DEF Newest

\* The deletion of a message of o.
LEMMA NewestDeleted ==
    ASSUME LiveOwn, NEW id, NEW o, NEW c, Of(id, o), DeleteMessage(c, id)
    PROVE  \A q : q # o /\ Newest(q) => Newest(q)'
<1>1. ASSUME NEW q, q # o, NEW x \in live, x.of = q PROVE x \in live'
  BY <1>1 DEF LiveOwn, Of, DeleteMessage
<1>2. QED
  BY <1>1 DEF Newest, DeleteMessage

LEMMA OlderDeleted ==
    ASSUME BaseInv, LiveOwn, NEW id \in Nat, NEW o, NEW c, Of(id, o), DeleteMessage(c, id),
           NEW i \in 1 .. Len(sentBy), sentBy[i] = o, id < i
    PROVE  \A q : Newest(q) => Newest(q)'
<1>1. ASSUME Newest(o) PROVE Newest(o)'
  <2>1. PICK x \in live : x.of = o /\ \A j \in 1 .. Len(sentBy) : sentBy[j] = o => j <= x.id
    BY <1>1 DEF Newest
  <2>2. x.id \in Nat /\ i <= x.id
    BY <2>1 DEF BaseInv, DiscordOK, Message
  <2>3. x \in live'
    BY <2>2 DEF DeleteMessage, BaseInv, DiscordOK
  <2>4. QED
    BY <2>1, <2>3 DEF Newest, DeleteMessage
<1>2. QED
  BY <1>1, NewestDeleted

LEMMA KeptOrDue ==
    ASSUME KeepInv, faults' = faults, NEW h \in Handlers, \A g \in Handlers \ {h} : req'[g] = req[g],
           \A o : Newest(o) => Newest(o)', Lasting, NEW on, req[h].on = on,
           Due(req[h]) => \/ req'[h].on = on /\ Due(req'[h])
                          \/ Newest(on)'
                          \/ on \notin stored' \union mstored',
           Made(req'[h]) => req'[h].on = on /\ (Made(req[h]) \/ Newest(on)')
    PROVE  KeepInv'
<1> SUFFICES ASSUME faults = 0
             PROVE  /\ \A o \in stored' \union mstored' :
                         Newest(o)' \/ \E g \in Handlers : req'[g].on = o /\ Due(req'[g])
                    /\ \A g \in Handlers : Made(req'[g]) => \A o : o = req'[g].on => Newest(o)'
  BY DEF KeepInv, Due, Made
<1>1. ASSUME NEW o \in stored' \union mstored'
      PROVE  Newest(o)' \/ \E g \in Handlers : req'[g].on = o /\ Due(req'[g])
  <2>1. Newest(o) \/ \E g \in Handlers : req[g].on = o /\ Due(req[g])
    BY DEF KeepInv, Lasting
  <2>2. ASSUME NEW g \in Handlers, req[g].on = o, Due(req[g]), g # h
        PROVE  req'[g].on = o /\ Due(req'[g])
    BY <2>2
  <2>3. ASSUME req[h].on = o, Due(req[h])
        PROVE  Newest(o)' \/ \E g \in Handlers : req'[g].on = o /\ Due(req'[g])
    BY <2>3
  <2>4. QED
    BY <2>1, <2>2, <2>3
<1>2. ASSUME NEW g \in Handlers, Made(req'[g]), NEW o, o = req'[g].on PROVE Newest(o)'
  <2>1. CASE g = h
    BY <1>2, <2>1 DEF KeepInv
  <2>2. CASE g # h
    BY <1>2, <2>2 DEF KeepInv
  <2>3. QED
    BY <2>1, <2>2
<1>3. QED
  BY <1>1, <1>2

LEMMA KeptOn ==
    ASSUME KeepInv, faults' = faults, NEW h \in Handlers, \A g \in Handlers \ {h} : req'[g] = req[g],
           \A o : Newest(o) => Newest(o)', Lasting, req'[h].on = req[h].on,
           Due(req[h]) => Due(req'[h]), Made(req'[h]) => Made(req[h])
    PROVE  KeepInv'
  BY KeptOrDue

LEMMA KeptIdle ==
    ASSUME KeepInv, faults' = faults, NEW h \in Handlers, \A g \in Handlers \ {h} : req'[g] = req[g],
           \A o : Newest(o) => Newest(o)', Lasting, ~Made(req'[h]),
           Due(req[h]) => req[h].on \notin stored' \union mstored'
    PROVE  KeepInv'
  BY KeptOrDue

LEMMA AfterDeletes ==
    /\ AfterDelete("MultiPanelUpdate") = "sendOwn" /\ AfterDelete("MultiPanelResend") = "listOwn"
    /\ AfterDelete("MultiPanelDelete") = "storeOwn"
  BY DEF AfterDelete

\* h deletes the message of its object.
LEMMA DueNow ==
    ASSUME KeepInv, CreateInv, faults' = faults, NEW h \in Handlers,
           \A g \in Handlers \ {h} : req'[g] = req[g], NEW on, req[h].on = on,
           \A o : o # on /\ Newest(o) => Newest(o)', Lasting,
           req[h].at \notin {"idle", "load"}, ~Due(req[h]), ~Made(req'[h]),
           \/ req'[h].on = on /\ Due(req'[h])
           \/ on \notin stored' \union mstored'
    PROVE  KeepInv'
<1> SUFFICES ASSUME faults = 0
             PROVE  /\ \A o \in stored' \union mstored' :
                         Newest(o)' \/ \E g \in Handlers : req'[g].on = o /\ Due(req'[g])
                    /\ \A g \in Handlers : Made(req'[g]) => \A o : o = req'[g].on => Newest(o)'
  BY DEF KeepInv, Due, Made
<1>1. ASSUME NEW o \in stored' \union mstored'
      PROVE  Newest(o)' \/ \E g \in Handlers : req'[g].on = o /\ Due(req'[g])
  <2>1. Newest(o) \/ \E g \in Handlers \ {h} : req[g].on = o /\ Due(req[g])
    BY DEF KeepInv, Lasting
  <2>2. ASSUME NEW g \in Handlers, req[g].on = o, Due(req[g]), g # h
        PROVE  req'[g].on = o /\ Due(req'[g])
    BY <2>2
  <2>3. QED
    BY <2>1, <2>2
<1>2. ASSUME NEW g \in Handlers, Made(req'[g]), NEW o, o = req'[g].on PROVE Newest(o)'
  <2>1. g # h /\ req'[g] = req[g]
    BY <1>2
  <2>2. Newest(o) /\ Creating(req[g])
    BY <1>2, <2>1 DEF KeepInv, Made, Creating
  <2>3. o # on
    BY <1>2, <2>1, <2>2 DEF CreateInv
  <2>4. QED
    BY <2>2, <2>3
<1>3. QED
  BY <1>1, <1>2

\* h stores what it has made.
LEMMA StoredNow ==
    ASSUME KeepInv, faults' = faults, NEW h \in Handlers, \A g \in Handlers \ {h} : req'[g] = req[g],
           \A o : Newest(o) => Newest(o)', Made(req[h]), ~Due(req[h]), ~Made(req'[h]),
           stored' \union mstored' = stored \union mstored \union {req[h].on}
    PROVE  KeepInv'
<1> SUFFICES ASSUME faults = 0
             PROVE  /\ \A o \in stored' \union mstored' :
                         Newest(o)' \/ \E g \in Handlers : req'[g].on = o /\ Due(req'[g])
                    /\ \A g \in Handlers : Made(req'[g]) => \A o : o = req'[g].on => Newest(o)'
  BY DEF KeepInv, Due, Made
<1>1. ASSUME NEW o \in stored' \union mstored'
      PROVE  Newest(o)' \/ \E g \in Handlers : req'[g].on = o /\ Due(req'[g])
  <2>1. Newest(o) \/ \E g \in Handlers \ {h} : req[g].on = o /\ Due(req[g])
    BY DEF KeepInv
  <2>2. ASSUME NEW g \in Handlers, req[g].on = o, Due(req[g]), g # h
        PROVE  req'[g].on = o /\ Due(req'[g])
    BY <2>2
  <2>3. QED
    BY <2>1, <2>2
<1>2. ASSUME NEW g \in Handlers, Made(req'[g]), NEW o, o = req'[g].on PROVE Newest(o)'
  <2>1. g # h /\ req'[g] = req[g]
    BY <1>2
  <2>2. QED
    BY <1>2, <2>1 DEF KeepInv
<1>3. QED
  BY <1>1, <1>2

LEMMA Failed ==
    ASSUME BaseInv, faults' = faults + 1
    PROVE  KeepInv'
  BY DEF BaseInv, BookOK, KeepInv

LEMMA LoadPanelFlow ==
    ASSUME BaseInv, OwnInv, FlowInv, NEW h \in Handlers, LoadPanel(h)
    PROVE  FlowInv'
<1>0. /\ CreateInv /\ RemoveInv /\ OlderInv /\ KeepInv /\ LiveOwn /\ HandlerOwn(req[h])
      /\ req[h] \in Reqs /\ InPlace(req[h]) /\ Equipped(req[h]) /\ Grows
  BY LoadPanelOwn DEF FlowInv, OwnInv, HandlersOwn, BaseInv, ReqInv
<1>1. req[h].at = "load" /\ req[h].op \in {"UpdatePanel", "ResendPanel", "DeletePanel"}
  BY <1>0, Whereabouts DEF LoadPanel, At
<1>2. Lasting
  BY DEF LoadPanel, Lasting, panelTable, multiTable
<1>3. BaseInv'
  BY LoadPanelStep
<1>4. \A o : Newest(o) => Newest(o)'
  BY NewestSame DEF LoadPanel, book, discord
<1>5. ASSUME /\ req[h].on \notin stored /\ Finish(h)
     PROVE  FlowInv'
  <2>1. /\ req'[h] = Idle /\ \A g \in Handlers \ {h} : req'[g] = req[g]
        /\ ~Creating(Idle) /\ Idle.at = "idle" /\ ~Due(Idle) /\ ~Made(Idle)
    BY <1>5, Finished DEF BaseInv, ReqInv, Creating, Due, Made, Idle
  <2>2. CreateInv'
    BY <1>0, <1>2, <2>1, CreateKept
  <2>3. RemoveInv'
    BY <1>0, <1>1, <1>2, <1>5, <2>1, RemoveKept
  <2>4. OlderInv'
    BY <1>0, <1>1, <1>2, <1>5, <2>1, OlderKept DEF Outdated
  <2>5. KeepInv'
    BY <1>0, <1>1, <1>2, <1>4, <2>1, KeptIdle DEF Due, LoadPanel, book
  <2>6. QED
    BY <2>2, <2>3, <2>4, <2>5 DEF FlowInv
<1>6. ASSUME /\ req[h].on \in stored /\ Changed(h, {"old", "at"})
             /\ req'[h].old = row[req[h].on]
             /\ req'[h].at = (IF req[h].op = "DeletePanel" THEN "multis" ELSE "old")
     PROVE  FlowInv'
  <2>1. /\ req'[h].op = req[h].op /\ req'[h].on = req[h].on /\ req'[h].mold = req[h].mold
        /\ req'[h].panels = req[h].panels /\ req'[h].msg = req[h].msg
        /\ req'[h].at = (IF req[h].op = "DeletePanel" THEN "multis" ELSE "old")
        /\ \A g \in Handlers \ {h} : req'[g] = req[g]
    BY <1>6 DEF Changed, Fields
  <2>2. CreateInv'
    <3>1. Creating(req'[h]) => Creating(req[h])
      BY <1>1, <2>1 DEF Creating
    <3>2. Past(h)
      BY <1>1, <1>6 DEF Past
    <3>3. QED
      BY <1>0, <1>2, <2>1, <3>1, <3>2, CreateOn
  <2>3. RemoveInv'
    BY <1>0, <1>1, <1>2, <1>6, <2>1, RemoveKept
  <2>4. OlderInv'
    BY <1>0, <1>1, <1>2, <1>6, <2>1, OlderKept DEF Outdated
  <2>5. KeepInv'
    <3>1. (Due(req[h]) => Due(req'[h])) /\ (Made(req'[h]) => Made(req[h]))
      BY <1>1, <2>1 DEF Due, Made
    <3>2. QED
      BY <1>0, <1>2, <1>4, <2>1, <3>1, KeptOn DEF LoadPanel, book
  <2>6. QED
    BY <2>2, <2>3, <2>4, <2>5 DEF FlowInv
<1>7. QED
  BY <1>5, <1>6, LoadPanelStep

LEMMA CheckQuotaFlow ==
    ASSUME BaseInv, OwnInv, FlowInv, NEW h \in Handlers, CheckQuota(h)
    PROVE  FlowInv'
<1>0. /\ CreateInv /\ RemoveInv /\ OlderInv /\ KeepInv /\ LiveOwn /\ HandlerOwn(req[h])
      /\ req[h] \in Reqs /\ InPlace(req[h]) /\ Equipped(req[h]) /\ Grows
  BY CheckQuotaOwn DEF FlowInv, OwnInv, HandlersOwn, BaseInv, ReqInv
<1>1. req[h].at = "load" /\ req[h].op = "CreatePanel"
  BY <1>0, Whereabouts DEF CheckQuota, At
<1>2. Lasting
  BY DEF CheckQuota, Lasting, panelTable, multiTable
<1>3. BaseInv'
  BY CheckQuotaStep
<1>4. \A o : Newest(o) => Newest(o)'
  BY NewestSame DEF CheckQuota, book, discord
<1>5. ASSUME /\ Finish(h)
     PROVE  FlowInv'
  <2>1. /\ req'[h] = Idle /\ \A g \in Handlers \ {h} : req'[g] = req[g]
        /\ ~Creating(Idle) /\ Idle.at = "idle" /\ ~Due(Idle) /\ ~Made(Idle)
    BY <1>5, Finished DEF BaseInv, ReqInv, Creating, Due, Made, Idle
  <2>2. CreateInv'
    BY <1>0, <1>2, <2>1, CreateKept
  <2>3. RemoveInv'
    BY <1>0, <1>1, <1>2, <1>5, <2>1, RemoveKept
  <2>4. OlderInv'
    BY <1>0, <1>1, <1>2, <1>5, <2>1, OlderKept DEF Outdated
  <2>5. KeepInv'
    BY <1>0, <1>1, <1>2, <1>4, <2>1, KeptIdle DEF Due, CheckQuota, book
  <2>6. QED
    BY <2>2, <2>3, <2>4, <2>5 DEF FlowInv
<1>6. ASSUME /\ Changed(h, {"at"}) /\ req'[h].at = "send"
     PROVE  FlowInv'
  <2>1. /\ req'[h].op = req[h].op /\ req'[h].on = req[h].on /\ req'[h].mold = req[h].mold
        /\ req'[h].panels = req[h].panels /\ req'[h].msg = req[h].msg /\ req'[h].at = "send"
        /\ \A g \in Handlers \ {h} : req'[g] = req[g]
    BY <1>6 DEF Changed, Fields
  <2>2. CreateInv'
    <3>1. Creating(req'[h]) => Creating(req[h])
      BY <1>1, <2>1 DEF Creating
    <3>2. Past(h)
      BY <1>1, <1>6 DEF Past, Creating
    <3>3. QED
      BY <1>0, <1>2, <2>1, <3>1, <3>2, CreateOn
  <2>3. RemoveInv'
    BY <1>0, <1>1, <1>2, <1>6, <2>1, RemoveKept
  <2>4. OlderInv'
    BY <1>0, <1>1, <1>2, <1>6, <2>1, OlderKept DEF Outdated
  <2>5. KeepInv'
    <3>1. (Due(req[h]) => Due(req'[h])) /\ (Made(req'[h]) => Made(req[h]))
      BY <1>1, <2>1 DEF Due, Made
    <3>2. QED
      BY <1>0, <1>2, <1>4, <2>1, <3>1, KeptOn DEF CheckQuota, book
  <2>6. QED
    BY <2>2, <2>3, <2>4, <2>5 DEF FlowInv
<1>7. QED
  BY <1>5, <1>6, CheckQuotaStep

LEMMA OldMessageFlow ==
    ASSUME BaseInv, OwnInv, FlowInv, NEW h \in Handlers, OldMessage(h)
    PROVE  FlowInv'
<1>0. /\ CreateInv /\ RemoveInv /\ OlderInv /\ KeepInv /\ LiveOwn /\ HandlerOwn(req[h])
      /\ req[h] \in Reqs /\ InPlace(req[h]) /\ Equipped(req[h]) /\ Grows
  BY OldMessageOwn DEF FlowInv, OwnInv, HandlersOwn, BaseInv, ReqInv
<1>1. req[h].at = "old" /\ req[h].op \in {"UpdatePanel", "ResendPanel"}
  BY <1>0, Whereabouts DEF OldMessage, At
<1>2. Lasting
  BY DEF OldMessage, Lasting, panelTable, multiTable
<1>3. BaseInv'
  BY OldMessageStep
<1>4. ASSUME /\ (req[h].op = "ResendPanel" \/ req[h].old.chan # req[h].chan)
             /\ DeleteMessage(req[h].old.chan, req[h].old.msg) /\ Changed(h, {"at"})
             /\ req'[h].at = "send"
     PROVE  FlowInv'
  <2>1. /\ req'[h].op = req[h].op /\ req'[h].on = req[h].on /\ req'[h].mold = req[h].mold
        /\ req'[h].panels = req[h].panels /\ req'[h].msg = req[h].msg /\ req'[h].at = "send"
        /\ \A g \in Handlers \ {h} : req'[g] = req[g]
    BY <1>4 DEF Changed, Fields
  <2>2. CreateInv'
    <3>1. Creating(req'[h]) => Creating(req[h])
      BY <1>1, <2>1 DEF Creating
    <3>2. Past(h)
      BY <1>1, <1>4 DEF Past
    <3>3. QED
      BY <1>0, <1>2, <2>1, <3>1, <3>2, CreateOn
  <2>3. RemoveInv'
    BY <1>0, <1>1, <1>2, <1>4, <2>1, RemoveKept
  <2>4. OlderInv'
    BY <1>0, <1>1, <1>2, <1>4, <2>1, OlderKept DEF Outdated
  <2>5. KeepInv'
    <3>1. \A o : o # req[h].on /\ Newest(o) => Newest(o)'
      BY <1>0, <1>1, <1>4, NewestDeleted DEF HandlerOwn, PanelOps
    <3>2. ~Due(req[h]) /\ ~Made(req'[h]) /\ Due(req'[h])
      BY <1>1, <2>1 DEF Due, Made
    <3>3. QED
      BY <1>0, <1>1, <1>2, <1>4, <2>1, <3>1, <3>2, DueNow DEF OldMessage, book
  <2>6. QED
    BY <2>2, <2>3, <2>4, <2>5 DEF FlowInv
<1>5. ASSUME /\ req[h].op = "UpdatePanel" /\ req[h].old.chan = req[h].chan
             /\ IsLive(req[h].old.chan, req[h].old.msg) /\ UNCHANGED discord
             /\ Changed(h, {"msg", "at"}) /\ req'[h].msg = req[h].old.msg
             /\ req'[h].at = "embed"
     PROVE  FlowInv'
  <2>1. /\ req'[h].op = req[h].op /\ req'[h].on = req[h].on /\ req'[h].mold = req[h].mold
        /\ req'[h].panels = req[h].panels /\ req'[h].at = "embed"
        /\ \A g \in Handlers \ {h} : req'[g] = req[g]
    BY <1>5 DEF Changed, Fields
  <2>2. CreateInv'
    <3>1. Creating(req'[h]) => Creating(req[h])
      BY <1>1, <2>1 DEF Creating
    <3>2. Past(h)
      BY <1>1, <1>5 DEF Past
    <3>3. QED
      BY <1>0, <1>2, <2>1, <3>1, <3>2, CreateOn
  <2>3. RemoveInv'
    BY <1>0, <1>1, <1>2, <1>5, <2>1, RemoveKept
  <2>4. OlderInv'
    BY <1>0, <1>1, <1>2, <1>5, <2>1, OlderKept DEF Outdated
  <2>5. KeepInv'
    <3>1. (Due(req[h]) => Due(req'[h])) /\ (Made(req'[h]) => Made(req[h]))
      BY <1>1, <2>1 DEF Due, Made, MultiOps
    <3>2. \A o : Newest(o) => Newest(o)'
      BY <1>5, NewestSame
    <3>3. QED
      BY <1>0, <1>2, <2>1, <3>1, <3>2, KeptOn DEF OldMessage, book
  <2>6. QED
    BY <2>2, <2>3, <2>4, <2>5 DEF FlowInv
<1>6. ASSUME /\ req[h].op = "UpdatePanel" /\ req[h].old.chan = req[h].chan
             /\ ~IsLive(req[h].old.chan, req[h].old.msg) /\ UNCHANGED discord
             /\ Changed(h, {"at"}) /\ req'[h].at = "send"
     PROVE  FlowInv'
  <2>1. /\ req'[h].op = req[h].op /\ req'[h].on = req[h].on /\ req'[h].mold = req[h].mold
        /\ req'[h].panels = req[h].panels /\ req'[h].msg = req[h].msg /\ req'[h].at = "send"
        /\ \A g \in Handlers \ {h} : req'[g] = req[g]
    BY <1>6 DEF Changed, Fields
  <2>2. CreateInv'
    <3>1. Creating(req'[h]) => Creating(req[h])
      BY <1>1, <2>1 DEF Creating
    <3>2. Past(h)
      BY <1>1, <1>6 DEF Past
    <3>3. QED
      BY <1>0, <1>2, <2>1, <3>1, <3>2, CreateOn
  <2>3. RemoveInv'
    BY <1>0, <1>1, <1>2, <1>6, <2>1, RemoveKept
  <2>4. OlderInv'
    BY <1>0, <1>1, <1>2, <1>6, <2>1, OlderKept DEF Outdated
  <2>5. KeepInv'
    <3>1. (Due(req[h]) => Due(req'[h])) /\ (Made(req'[h]) => Made(req[h]))
      BY <1>1, <2>1 DEF Due, Made, MultiOps
    <3>2. \A o : Newest(o) => Newest(o)'
      BY <1>6, NewestSame
    <3>3. QED
      BY <1>0, <1>2, <2>1, <3>1, <3>2, KeptOn DEF OldMessage, book
  <2>6. QED
    BY <2>2, <2>3, <2>4, <2>5 DEF FlowInv
<1>7. QED
  BY <1>4, <1>5, <1>6, OldMessageStep

LEMMA OldMessageStaysFlow ==
    ASSUME BaseInv, OwnInv, FlowInv, NEW h \in Handlers, OldMessageStays(h)
    PROVE  FlowInv'
<1>0. /\ CreateInv /\ RemoveInv /\ OlderInv /\ KeepInv /\ LiveOwn /\ HandlerOwn(req[h])
      /\ req[h] \in Reqs /\ InPlace(req[h]) /\ Equipped(req[h]) /\ Grows
  BY OldMessageStaysOwn DEF FlowInv, OwnInv, HandlersOwn, BaseInv, ReqInv
<1>1. /\ req[h].at = "old" /\ req[h].op \in {"UpdatePanel", "ResendPanel"}
      /\ faults' = faults + 1
  BY <1>0, Whereabouts DEF OldMessageStays, At
<1>2. Lasting
  BY DEF OldMessageStays, Lasting, panelTable, multiTable
<1>3. BaseInv'
  BY OldMessageStaysStep
<1>4. \A o : Newest(o) => Newest(o)'
  BY NewestSame DEF OldMessageStays, book, discord
<1>5. ASSUME /\ Changed(h, {"at"}) /\ req'[h].at = "send"
     PROVE  FlowInv'
  <2>1. /\ req'[h].op = req[h].op /\ req'[h].on = req[h].on /\ req'[h].mold = req[h].mold
        /\ req'[h].panels = req[h].panels /\ req'[h].msg = req[h].msg /\ req'[h].at = "send"
        /\ \A g \in Handlers \ {h} : req'[g] = req[g]
    BY <1>5 DEF Changed, Fields
  <2>2. CreateInv'
    <3>1. Creating(req'[h]) => Creating(req[h])
      BY <1>1, <2>1 DEF Creating
    <3>2. Past(h)
      BY <1>1, <1>5 DEF Past
    <3>3. QED
      BY <1>0, <1>2, <2>1, <3>1, <3>2, CreateOn
  <2>3. RemoveInv'
    BY <1>0, <1>1, <1>2, <1>5, <2>1, RemoveKept
  <2>4. OlderInv'
    BY <1>0, <1>1, <1>2, <1>5, <2>1, OlderKept DEF Outdated
  <2>5. KeepInv'
    BY <1>1, Failed
  <2>6. QED
    BY <2>2, <2>3, <2>4, <2>5 DEF FlowInv
<1>6. QED
  BY <1>5, OldMessageStaysStep

LEMMA SendPanelFlow ==
    ASSUME BaseInv, OwnInv, FlowInv, NEW h \in Handlers, SendPanel(h)
    PROVE  FlowInv'
<1>0. /\ CreateInv /\ RemoveInv /\ OlderInv /\ KeepInv /\ LiveOwn /\ HandlerOwn(req[h])
      /\ req[h] \in Reqs /\ InPlace(req[h]) /\ Equipped(req[h]) /\ Grows
  BY SendPanelOwn DEF FlowInv, OwnInv, HandlersOwn, BaseInv, ReqInv
<1>1. req[h].at = "send" /\ req[h].op \in {"CreatePanel", "UpdatePanel", "ResendPanel"}
  BY <1>0, Whereabouts DEF SendPanel, At
<1>2. Lasting
  BY DEF SendPanel, Lasting, panelTable, multiTable
<1>3. BaseInv'
  BY SendPanelStep
<1>4. ASSUME /\ faults' = faults + 1 /\ Finish(h)
     PROVE  FlowInv'
  <2>1. /\ req'[h] = Idle /\ \A g \in Handlers \ {h} : req'[g] = req[g]
        /\ ~Creating(Idle) /\ Idle.at = "idle" /\ ~Due(Idle) /\ ~Made(Idle)
    BY <1>4, Finished DEF BaseInv, ReqInv, Creating, Due, Made, Idle
  <2>2. CreateInv'
    BY <1>0, <1>2, <2>1, CreateKept
  <2>3. RemoveInv'
    BY <1>0, <1>1, <1>2, <1>4, <2>1, RemoveKept
  <2>4. OlderInv'
    BY <1>0, <1>1, <1>2, <1>4, <2>1, OlderKept DEF Outdated
  <2>5. KeepInv'
    BY <1>4, Failed
  <2>6. QED
    BY <2>2, <2>3, <2>4, <2>5 DEF FlowInv
<1>5. ASSUME /\ UNCHANGED faults /\ Changed(h, {"msg", "at"})
             /\ req'[h].msg = Len(sentBy) + 1 /\ req'[h].at = AfterSend(req[h])
     PROVE  FlowInv'
  <2>1. /\ req'[h].op = req[h].op /\ req'[h].on = req[h].on /\ req'[h].mold = req[h].mold
        /\ req'[h].panels = req[h].panels /\ req'[h].at = AfterSend(req[h])
        /\ \A g \in Handlers \ {h} : req'[g] = req[g]
    BY <1>5 DEF Changed, Fields
  <2>2. CreateInv'
    <3>1. Creating(req'[h]) => Creating(req[h])
      BY <1>1, <2>1 DEF Creating
    <3>2. Past(h)
      BY <1>1, <1>5 DEF Past
    <3>3. QED
      BY <1>0, <1>2, <2>1, <3>1, <3>2, CreateOn
  <2>3. RemoveInv'
    BY <1>0, <1>1, <1>2, <1>5, <2>1, RemoveKept DEF AfterSend, AfterDelete
  <2>4. OlderInv'
    BY <1>0, <1>1, <1>2, <1>5, <2>1, OlderKept DEF Outdated, AfterSend, AfterDelete
  <2>5. KeepInv'
    <3>1. /\ req[h].on \in Objects /\ PanelChan(req[h]) \in Channels /\ {req[h].on} \in SUBSET Panels
      BY <1>0, <1>1 DEF InPlace, Equipped, PanelChan, Objects, PanelOps
    <3>2. \A q : Newest(q) \/ q = req[h].on => Newest(q)'
      BY <3>1, NewestSent DEF SendPanel, Send, SendLost
    <3>3. QED
      BY <1>0, <1>1, <1>2, <1>5, <2>1, <3>2, KeptOrDue DEF Due, Made, AfterSend
  <2>6. QED
    BY <2>2, <2>3, <2>4, <2>5 DEF FlowInv
<1>6. QED
  BY <1>4, <1>5, SendPanelStep

LEMMA SendToMissingChannelFlow ==
    ASSUME BaseInv, OwnInv, FlowInv, NEW h \in Handlers, SendToMissingChannel(h)
    PROVE  FlowInv'
<1>0. /\ CreateInv /\ RemoveInv /\ OlderInv /\ KeepInv /\ LiveOwn /\ HandlerOwn(req[h])
      /\ req[h] \in Reqs /\ InPlace(req[h]) /\ Equipped(req[h]) /\ Grows
  BY SendToMissingChannelOwn DEF FlowInv, OwnInv, HandlersOwn, BaseInv, ReqInv
<1>1. req[h].at = "send" /\ req[h].op = "UpdatePanel" /\ faults' = faults + 1
  BY <1>0, Whereabouts DEF SendToMissingChannel, At
<1>2. Lasting
  BY DEF SendToMissingChannel, Lasting, panelTable, multiTable
<1>3. BaseInv'
  BY SendToMissingChannelStep
<1>4. ASSUME /\ Changed(h, {"msg", "at"}) /\ req'[h].msg = 0 /\ req'[h].at = "embed"
     PROVE  FlowInv'
  <2>1. /\ req'[h].op = req[h].op /\ req'[h].on = req[h].on /\ req'[h].mold = req[h].mold
        /\ req'[h].panels = req[h].panels /\ req'[h].at = "embed"
        /\ \A g \in Handlers \ {h} : req'[g] = req[g]
    BY <1>4 DEF Changed, Fields
  <2>2. CreateInv'
    <3>1. Creating(req'[h]) => Creating(req[h])
      BY <1>1, <2>1 DEF Creating
    <3>2. Past(h)
      BY <1>1, <1>4 DEF Past
    <3>3. QED
      BY <1>0, <1>2, <2>1, <3>1, <3>2, CreateOn
  <2>3. RemoveInv'
    BY <1>0, <1>1, <1>2, <1>4, <2>1, RemoveKept
  <2>4. OlderInv'
    BY <1>0, <1>1, <1>2, <1>4, <2>1, OlderKept DEF Outdated
  <2>5. KeepInv'
    BY <1>1, Failed
  <2>6. QED
    BY <2>2, <2>3, <2>4, <2>5 DEF FlowInv
<1>5. QED
  BY <1>4, SendToMissingChannelStep

LEMMA RecordResentFlow ==
    ASSUME BaseInv, OwnInv, FlowInv, NEW h \in Handlers, RecordResent(h)
    PROVE  FlowInv'
<1>0. /\ CreateInv /\ RemoveInv /\ OlderInv /\ KeepInv /\ LiveOwn /\ HandlerOwn(req[h])
      /\ req[h] \in Reqs /\ InPlace(req[h]) /\ Equipped(req[h]) /\ Grows
  BY RecordResentOwn DEF FlowInv, OwnInv, HandlersOwn, BaseInv, ReqInv
<1>1. req[h].at = "record" /\ req[h].op = "ResendPanel"
  BY <1>0, Whereabouts DEF RecordResent, At
<1>2. Lasting
  BY DEF RecordResent, Lasting, panelTable, multiTable
<1>3. BaseInv'
  BY RecordResentStep
<1>4. \A o : Newest(o) => Newest(o)'
  BY NewestSame DEF RecordResent, book, discord
<1>5. ASSUME /\ Finish(h)
     PROVE  FlowInv'
  <2>1. /\ req'[h] = Idle /\ \A g \in Handlers \ {h} : req'[g] = req[g]
        /\ ~Creating(Idle) /\ Idle.at = "idle" /\ ~Due(Idle) /\ ~Made(Idle)
    BY <1>5, Finished DEF BaseInv, ReqInv, Creating, Due, Made, Idle
  <2>2. CreateInv'
    BY <1>0, <1>2, <2>1, CreateKept
  <2>3. RemoveInv'
    BY <1>0, <1>1, <1>2, <1>5, <2>1, RemoveKept
  <2>4. OlderInv'
    BY <1>0, <1>1, <1>2, <1>5, <2>1, OlderKept DEF Outdated
  <2>5. KeepInv'
    BY <1>0, <1>1, <1>2, <1>4, <2>1, KeptIdle DEF Due, RecordResent, book
  <2>6. QED
    BY <2>2, <2>3, <2>4, <2>5 DEF FlowInv
<1>6. QED
  BY <1>5, RecordResentStep

LEMMA WriteEmbedFlow ==
    ASSUME BaseInv, OwnInv, FlowInv, NEW h \in Handlers, WriteEmbed(h)
    PROVE  FlowInv'
<1>0. /\ CreateInv /\ RemoveInv /\ OlderInv /\ KeepInv /\ LiveOwn /\ HandlerOwn(req[h])
      /\ req[h] \in Reqs /\ InPlace(req[h]) /\ Equipped(req[h]) /\ Grows
  BY WriteEmbedOwn DEF FlowInv, OwnInv, HandlersOwn, BaseInv, ReqInv
<1>1. req[h].at = "embed" /\ req[h].op \in {"CreatePanel", "UpdatePanel"}
  BY <1>0, Whereabouts DEF WriteEmbed, At
<1>2. Lasting
  BY DEF WriteEmbed, Lasting, panelTable, multiTable
<1>3. BaseInv'
  BY WriteEmbedStep
<1>4. \A o : Newest(o) => Newest(o)'
  BY NewestSame DEF WriteEmbed, book, discord
<1>5. ASSUME /\ Changed(h, {"at", "embed"}) /\ req'[h].at = "store"
             /\ req'[h].embed = EmbedOf(req[h])
     PROVE  FlowInv'
  <2>1. /\ req'[h].op = req[h].op /\ req'[h].on = req[h].on /\ req'[h].mold = req[h].mold
        /\ req'[h].panels = req[h].panels /\ req'[h].msg = req[h].msg
        /\ req'[h].at = "store" /\ \A g \in Handlers \ {h} : req'[g] = req[g]
    BY <1>5 DEF Changed, Fields
  <2>2. CreateInv'
    <3>1. Creating(req'[h]) => Creating(req[h])
      BY <1>1, <2>1 DEF Creating
    <3>2. Past(h)
      BY <1>1, <1>5 DEF Past
    <3>3. QED
      BY <1>0, <1>2, <2>1, <3>1, <3>2, CreateOn
  <2>3. RemoveInv'
    BY <1>0, <1>1, <1>2, <1>5, <2>1, RemoveKept
  <2>4. OlderInv'
    BY <1>0, <1>1, <1>2, <1>5, <2>1, OlderKept DEF Outdated
  <2>5. KeepInv'
    <3>1. (Due(req[h]) => Due(req'[h])) /\ (Made(req'[h]) => Made(req[h]))
      BY <1>1, <2>1 DEF Due, Made
    <3>2. QED
      BY <1>0, <1>2, <1>4, <2>1, <3>1, KeptOn DEF WriteEmbed, book
  <2>6. QED
    BY <2>2, <2>3, <2>4, <2>5 DEF FlowInv
<1>6. QED
  BY <1>5, WriteEmbedStep

LEMMA CreateRowFlow ==
    ASSUME BaseInv, OwnInv, FlowInv, NEW h \in Handlers, CreateRow(h)
    PROVE  FlowInv'
<1>0. /\ CreateInv /\ RemoveInv /\ OlderInv /\ KeepInv /\ LiveOwn /\ HandlerOwn(req[h])
      /\ req[h] \in Reqs /\ InPlace(req[h]) /\ Equipped(req[h]) /\ Grows
  BY CreateRowOwn DEF FlowInv, OwnInv, HandlersOwn, BaseInv, ReqInv
<1>1. req[h].at = "store" /\ req[h].op = "CreatePanel"
  BY <1>0, Whereabouts DEF CreateRow, At
<1>2. stored' = stored \union {req[h].on} /\ mstored' = mstored
  BY DEF CreateRow, multiTable
<1>3. BaseInv'
  BY CreateRowStep
<1>4. \A o : Newest(o) => Newest(o)'
  BY NewestSame DEF CreateRow, book, discord
<1>5. ASSUME /\ Finish(h)
     PROVE  FlowInv'
  <2>1. /\ req'[h] = Idle /\ \A g \in Handlers \ {h} : req'[g] = req[g]
        /\ ~Creating(Idle) /\ Idle.at = "idle" /\ ~Due(Idle) /\ ~Made(Idle)
    BY <1>5, Finished DEF BaseInv, ReqInv, Creating, Due, Made, Idle
  <2>2. CreateInv'
    BY <1>0, <1>1, <1>2, <1>5, <2>1, CreateKept DEF Creating
  <2>3. RemoveInv'
    <3>1. \A g \in Handlers \ {h} : req[g].on = req[h].on => req[g].at \in {"idle", "load"}
      BY <1>0, <1>1 DEF CreateInv, Creating
    <3>2. QED
      BY <1>0, <1>2, <2>1, <3>1 DEF RemoveInv
  <2>4. OlderInv'
    BY <1>0, <1>1, <1>2, <1>5, <2>1, OlderKept DEF Outdated
  <2>5. KeepInv'
    BY <1>0, <1>1, <1>2, <1>5, <2>1, <1>4, StoredNow DEF Due, Made, CreateRow, book
  <2>6. QED
    BY <2>2, <2>3, <2>4, <2>5 DEF FlowInv
<1>6. QED
  BY <1>5, CreateRowStep

LEMMA UpdateRowFlow ==
    ASSUME BaseInv, OwnInv, FlowInv, NEW h \in Handlers, UpdateRow(h)
    PROVE  FlowInv'
<1>0. /\ CreateInv /\ RemoveInv /\ OlderInv /\ KeepInv /\ LiveOwn /\ HandlerOwn(req[h])
      /\ req[h] \in Reqs /\ InPlace(req[h]) /\ Equipped(req[h]) /\ Grows
  BY UpdateRowOwn DEF FlowInv, OwnInv, HandlersOwn, BaseInv, ReqInv
<1>1. req[h].at = "store" /\ req[h].op = "UpdatePanel"
  BY <1>0, Whereabouts DEF UpdateRow, At
<1>2. Lasting
  BY DEF UpdateRow, Lasting, panelTable, multiTable
<1>3. BaseInv'
  BY UpdateRowStep
<1>4. \A o : Newest(o) => Newest(o)'
  BY NewestSame DEF UpdateRow, book, discord
<1>5. ASSUME /\ Changed(h, {"at"}) /\ req'[h].at = "multis"
     PROVE  FlowInv'
  <2>1. /\ req'[h].op = req[h].op /\ req'[h].on = req[h].on /\ req'[h].mold = req[h].mold
        /\ req'[h].panels = req[h].panels /\ req'[h].msg = req[h].msg
        /\ req'[h].at = "multis" /\ \A g \in Handlers \ {h} : req'[g] = req[g]
    BY <1>5 DEF Changed, Fields
  <2>2. CreateInv'
    <3>1. Creating(req'[h]) => Creating(req[h])
      BY <1>1, <2>1 DEF Creating
    <3>2. Past(h)
      BY <1>1, <1>5 DEF Past
    <3>3. QED
      BY <1>0, <1>2, <2>1, <3>1, <3>2, CreateOn
  <2>3. RemoveInv'
    BY <1>0, <1>1, <1>2, <1>5, <2>1, RemoveKept
  <2>4. OlderInv'
    BY <1>0, <1>1, <1>2, <1>5, <2>1, OlderKept DEF Outdated
  <2>5. KeepInv'
    <3>1. (Due(req[h]) => Due(req'[h])) /\ (Made(req'[h]) => Made(req[h]))
      BY <1>1, <2>1 DEF Due, Made
    <3>2. QED
      BY <1>0, <1>2, <1>4, <2>1, <3>1, KeptOn DEF UpdateRow, book
  <2>6. QED
    BY <2>2, <2>3, <2>4, <2>5 DEF FlowInv
<1>6. QED
  BY <1>5, UpdateRowStep

LEMMA LoadMultisFlow ==
    ASSUME BaseInv, OwnInv, FlowInv, NEW h \in Handlers, LoadMultis(h)
    PROVE  FlowInv'
<1>0. /\ CreateInv /\ RemoveInv /\ OlderInv /\ KeepInv /\ LiveOwn /\ HandlerOwn(req[h])
      /\ req[h] \in Reqs /\ InPlace(req[h]) /\ Equipped(req[h]) /\ Grows
  BY LoadMultisOwn DEF FlowInv, OwnInv, HandlersOwn, BaseInv, ReqInv
<1>1. req[h].at = "multis" /\ req[h].op \in {"UpdatePanel", "DeletePanel"}
  BY <1>0, Whereabouts DEF LoadMultis, At
<1>2. Lasting
  BY DEF LoadMultis, Lasting, panelTable, multiTable
<1>3. BaseInv'
  BY LoadMultisStep
<1>4. \A o : Newest(o) => Newest(o)'
  BY NewestSame DEF LoadMultis, book, discord
<1>5. ASSUME NEW T \in SUBSET mstored,
           /\ Loads(req[h], T) /\ Changed(h, {"todo", "mold", "at"}) /\ req'[h].todo = T
           /\ req'[h].mold = [m \in T |-> mrow[m]]
           /\ req'[h].at = (IF req[h].op = "DeletePanel" THEN "delete" ELSE "next")
     PROVE  FlowInv'
  <2>1. /\ req'[h].op = req[h].op /\ req'[h].on = req[h].on
        /\ req'[h].panels = req[h].panels /\ req'[h].msg = req[h].msg
        /\ req'[h].at = (IF req[h].op = "DeletePanel" THEN "delete" ELSE "next")
        /\ \A g \in Handlers \ {h} : req'[g] = req[g]
    BY <1>5 DEF Changed, Fields
  <2>2. CreateInv'
    <3>1. Creating(req'[h]) => Creating(req[h])
      BY <1>1, <2>1 DEF Creating
    <3>2. Past(h)
      BY <1>1, <1>5 DEF Past
    <3>3. QED
      BY <1>0, <1>2, <2>1, <3>1, <3>2, CreateOn
  <2>3. RemoveInv'
    BY <1>0, <1>1, <1>2, <1>5, <2>1, RemoveKept
  <2>4. OlderInv'
    BY <1>0, <1>1, <1>2, <1>5, <2>1, OlderKept DEF Outdated
  <2>5. KeepInv'
    <3>1. (Due(req[h]) => Due(req'[h])) /\ (Made(req'[h]) => Made(req[h]))
      BY <1>1, <2>1 DEF Due, Made
    <3>2. QED
      BY <1>0, <1>2, <1>4, <2>1, <3>1, KeptOn DEF LoadMultis, book
  <2>6. QED
    BY <2>2, <2>3, <2>4, <2>5 DEF FlowInv
<1>6. QED
  BY <1>5, LoadMultisStep

LEMMA DeleteEmbedFlow ==
    ASSUME BaseInv, OwnInv, FlowInv, NEW h \in Handlers, DeleteEmbed(h)
    PROVE  FlowInv'
<1>0. /\ CreateInv /\ RemoveInv /\ OlderInv /\ KeepInv /\ LiveOwn /\ HandlerOwn(req[h])
      /\ req[h] \in Reqs /\ InPlace(req[h]) /\ Equipped(req[h]) /\ Grows
  BY DeleteEmbedOwn DEF FlowInv, OwnInv, HandlersOwn, BaseInv, ReqInv
<1>1. req[h].at = "delete" /\ req[h].op = "DeletePanel"
  BY <1>0, Whereabouts DEF DeleteEmbed, At
<1>2. Lasting
  BY DEF DeleteEmbed, Lasting, panelTable, multiTable
<1>3. BaseInv'
  BY DeleteEmbedStep
<1>4. \A o : Newest(o) => Newest(o)'
  BY NewestSame DEF DeleteEmbed, book, discord
<1>5. ASSUME /\ Changed(h, {"at"}) /\ req'[h].at = "deleteRow"
     PROVE  FlowInv'
  <2>1. /\ req'[h].op = req[h].op /\ req'[h].on = req[h].on /\ req'[h].mold = req[h].mold
        /\ req'[h].panels = req[h].panels /\ req'[h].msg = req[h].msg
        /\ req'[h].at = "deleteRow" /\ \A g \in Handlers \ {h} : req'[g] = req[g]
    BY <1>5 DEF Changed, Fields
  <2>2. CreateInv'
    <3>1. Creating(req'[h]) => Creating(req[h])
      BY <1>1, <2>1 DEF Creating
    <3>2. Past(h)
      BY <1>1, <1>5 DEF Past
    <3>3. QED
      BY <1>0, <1>2, <2>1, <3>1, <3>2, CreateOn
  <2>3. RemoveInv'
    BY <1>0, <1>1, <1>2, <1>5, <2>1, RemoveKept
  <2>4. OlderInv'
    BY <1>0, <1>1, <1>2, <1>5, <2>1, OlderKept DEF Outdated
  <2>5. KeepInv'
    <3>1. (Due(req[h]) => Due(req'[h])) /\ (Made(req'[h]) => Made(req[h]))
      BY <1>1, <2>1 DEF Due, Made
    <3>2. QED
      BY <1>0, <1>2, <1>4, <2>1, <3>1, KeptOn DEF DeleteEmbed, book
  <2>6. QED
    BY <2>2, <2>3, <2>4, <2>5 DEF FlowInv
<1>6. QED
  BY <1>5, DeleteEmbedStep

LEMMA DeleteRowFlow ==
    ASSUME BaseInv, OwnInv, FlowInv, NEW h \in Handlers, DeleteRow(h)
    PROVE  FlowInv'
<1>0. /\ CreateInv /\ RemoveInv /\ OlderInv /\ KeepInv /\ LiveOwn /\ HandlerOwn(req[h])
      /\ req[h] \in Reqs /\ InPlace(req[h]) /\ Equipped(req[h]) /\ Grows
  BY DeleteRowOwn DEF FlowInv, OwnInv, HandlersOwn, BaseInv, ReqInv
<1>1. req[h].at = "deleteRow" /\ req[h].op = "DeletePanel" /\ req[h].on \notin stored'
  BY <1>0, Whereabouts DEF DeleteRow, At
<1>2. Lasting
  BY DEF DeleteRow, Lasting, panelTable, multiTable
<1>3. BaseInv'
  BY DeleteRowStep
<1>4. \A o : Newest(o) => Newest(o)'
  BY NewestSame DEF DeleteRow, book, discord
<1>5. ASSUME /\ Changed(h, {"at"}) /\ req'[h].at = "deleteMessage"
     PROVE  FlowInv'
  <2>1. /\ req'[h].op = req[h].op /\ req'[h].on = req[h].on /\ req'[h].mold = req[h].mold
        /\ req'[h].panels = req[h].panels /\ req'[h].msg = req[h].msg
        /\ req'[h].at = "deleteMessage" /\ \A g \in Handlers \ {h} : req'[g] = req[g]
    BY <1>5 DEF Changed, Fields
  <2>2. CreateInv'
    <3>1. Creating(req'[h]) => Creating(req[h])
      BY <1>1, <2>1 DEF Creating
    <3>2. Past(h)
      BY <1>1, <1>5 DEF Past
    <3>3. QED
      BY <1>0, <1>2, <2>1, <3>1, <3>2, CreateOn
  <2>3. RemoveInv'
    BY <1>0, <1>1, <1>2, <1>5, <2>1, RemoveKept
  <2>4. OlderInv'
    BY <1>0, <1>1, <1>2, <1>5, <2>1, OlderKept DEF Outdated
  <2>5. KeepInv'
    <3>1. (Due(req[h]) => Due(req'[h])) /\ (Made(req'[h]) => Made(req[h]))
      BY <1>1, <2>1 DEF Due, Made
    <3>2. QED
      BY <1>0, <1>2, <1>4, <2>1, <3>1, KeptOn DEF DeleteRow, book
  <2>6. QED
    BY <2>2, <2>3, <2>4, <2>5 DEF FlowInv
<1>6. QED
  BY <1>5, DeleteRowStep

LEMMA DeletePanelMessageFlow ==
    ASSUME BaseInv, OwnInv, FlowInv, NEW h \in Handlers, DeletePanelMessage(h)
    PROVE  FlowInv'
<1>0. /\ CreateInv /\ RemoveInv /\ OlderInv /\ KeepInv /\ LiveOwn /\ HandlerOwn(req[h])
      /\ req[h] \in Reqs /\ InPlace(req[h]) /\ Equipped(req[h]) /\ Grows
  BY DeletePanelMessageOwn DEF FlowInv, OwnInv, HandlersOwn, BaseInv, ReqInv
<1>1. req[h].at = "deleteMessage" /\ req[h].op = "DeletePanel"
  BY <1>0, Whereabouts DEF DeletePanelMessage, At
<1>2. Lasting
  BY DEF DeletePanelMessage, Lasting, panelTable, multiTable
<1>3. BaseInv'
  BY DeletePanelMessageStep
<1>4. ASSUME /\ Changed(h, {"at"}) /\ req'[h].at = "next"
     PROVE  FlowInv'
  <2>1. /\ req'[h].op = req[h].op /\ req'[h].on = req[h].on /\ req'[h].mold = req[h].mold
        /\ req'[h].panels = req[h].panels /\ req'[h].msg = req[h].msg /\ req'[h].at = "next"
        /\ \A g \in Handlers \ {h} : req'[g] = req[g]
    BY <1>4 DEF Changed, Fields
  <2>2. CreateInv'
    <3>1. Creating(req'[h]) => Creating(req[h])
      BY <1>1, <2>1 DEF Creating
    <3>2. Past(h)
      BY <1>1, <1>4 DEF Past
    <3>3. QED
      BY <1>0, <1>2, <2>1, <3>1, <3>2, CreateOn
  <2>3. RemoveInv'
    BY <1>0, <1>1, <1>2, <1>4, <2>1, RemoveKept
  <2>4. OlderInv'
    BY <1>0, <1>1, <1>2, <1>4, <2>1, OlderKept DEF Outdated
  <2>5. KeepInv'
    <3>1. \A o : o # req[h].on /\ Newest(o) => Newest(o)'
      BY <1>0, <1>1, NewestDeleted DEF HandlerOwn, PanelOps, DeletePanelMessage
    <3>2. req[h].on \notin stored' \union mstored'
      BY <1>0, <1>1, <1>3, PanelMessagesAssumption
         DEF RemoveInv, InPlace, PanelOps, BaseInv, MultisOK, DeletePanelMessage, panelTable
    <3>3. ~Due(req[h]) /\ ~Made(req'[h])
      BY <1>1, <2>1 DEF Due, Made
    <3>4. QED
      BY <1>0, <1>1, <1>2, <1>4, <2>1, <3>1, <3>2, <3>3, DueNow DEF DeletePanelMessage, book
  <2>6. QED
    BY <2>2, <2>3, <2>4, <2>5 DEF FlowInv
<1>5. QED
  BY <1>4, DeletePanelMessageStep

LEMMA NextMultiFlow ==
    ASSUME BaseInv, OwnInv, FlowInv, NEW h \in Handlers, NextMulti(h)
    PROVE  FlowInv'
<1>0. /\ CreateInv /\ RemoveInv /\ OlderInv /\ KeepInv /\ LiveOwn /\ HandlerOwn(req[h])
      /\ req[h] \in Reqs /\ InPlace(req[h]) /\ Equipped(req[h]) /\ Grows
  BY NextMultiOwn DEF FlowInv, OwnInv, HandlersOwn, BaseInv, ReqInv
<1>1. req[h].at = "next" /\ req[h].op \in {"UpdatePanel", "DeletePanel"}
  BY <1>0, Whereabouts DEF NextMulti, At
<1>2. Lasting
  BY DEF NextMulti, Lasting, panelTable, multiTable
<1>3. BaseInv'
  BY NextMultiStep
<1>4. \A o : Newest(o) => Newest(o)'
  BY NewestSame DEF NextMulti, book, discord
<1>5. ASSUME /\ req[h].todo = {} /\ Finish(h)
     PROVE  FlowInv'
  <2>1. /\ req'[h] = Idle /\ \A g \in Handlers \ {h} : req'[g] = req[g]
        /\ ~Creating(Idle) /\ Idle.at = "idle" /\ ~Due(Idle) /\ ~Made(Idle)
    BY <1>5, Finished DEF BaseInv, ReqInv, Creating, Due, Made, Idle
  <2>2. CreateInv'
    BY <1>0, <1>2, <2>1, CreateKept
  <2>3. RemoveInv'
    BY <1>0, <1>1, <1>2, <1>5, <2>1, RemoveKept
  <2>4. OlderInv'
    BY <1>0, <1>1, <1>2, <1>5, <2>1, OlderKept DEF Outdated
  <2>5. KeepInv'
    BY <1>0, <1>1, <1>2, <1>4, <2>1, KeptIdle DEF Due, NextMulti, book
  <2>6. QED
    BY <2>2, <2>3, <2>4, <2>5 DEF FlowInv
<1>6. ASSUME NEW m \in req[h].todo,
           /\ Changed(h, {"todo", "list", "panels", "at"})
           /\ req'[h].todo = req[h].todo \ {m} /\ req'[h].list = targets[m]
           /\ req'[h].panels = {m}
           /\ req'[h].at = (IF req[h].op = "DeletePanel" THEN "sendMulti" ELSE "editMulti")
     PROVE  FlowInv'
  <2>1. /\ req'[h].op = req[h].op /\ req'[h].on = req[h].on /\ req'[h].mold = req[h].mold
        /\ req'[h].msg = req[h].msg
        /\ req'[h].at = (IF req[h].op = "DeletePanel" THEN "sendMulti" ELSE "editMulti")
        /\ \A g \in Handlers \ {h} : req'[g] = req[g]
    BY <1>6 DEF Changed, Fields
  <2>2. CreateInv'
    <3>1. Creating(req'[h]) => Creating(req[h])
      BY <1>1, <2>1 DEF Creating
    <3>2. Past(h)
      BY <1>1, <1>6 DEF Past
    <3>3. QED
      BY <1>0, <1>2, <2>1, <3>1, <3>2, CreateOn
  <2>3. RemoveInv'
    BY <1>0, <1>1, <1>2, <1>6, <2>1, RemoveKept
  <2>4. OlderInv'
    BY <1>0, <1>1, <1>2, <1>6, <2>1, OlderKept DEF Outdated
  <2>5. KeepInv'
    <3>1. (Due(req[h]) => Due(req'[h])) /\ (Made(req'[h]) => Made(req[h]))
      BY <1>1, <2>1 DEF Due, Made
    <3>2. QED
      BY <1>0, <1>2, <1>4, <2>1, <3>1, KeptOn DEF NextMulti, book
  <2>6. QED
    BY <2>2, <2>3, <2>4, <2>5 DEF FlowInv
<1>7. QED
  BY <1>5, <1>6, NextMultiStep

LEMMA EditMultiFlow ==
    ASSUME BaseInv, OwnInv, FlowInv, NEW h \in Handlers, EditMulti(h)
    PROVE  FlowInv'
<1>0. /\ CreateInv /\ RemoveInv /\ OlderInv /\ KeepInv /\ LiveOwn /\ HandlerOwn(req[h])
      /\ req[h] \in Reqs /\ InPlace(req[h]) /\ Equipped(req[h]) /\ Grows
  BY EditMultiOwn DEF FlowInv, OwnInv, HandlersOwn, BaseInv, ReqInv
<1>1. req[h].at = "editMulti" /\ req[h].op = "UpdatePanel"
  BY <1>0, Whereabouts DEF EditMulti, At
<1>2. Lasting
  BY DEF EditMulti, Lasting, panelTable, multiTable
<1>3. BaseInv'
  BY EditMultiStep
<1>4. ASSUME /\ IsLive(OldMulti(req[h]).chan, OldMulti(req[h]).msg)
             /\ EditMessage(OldMulti(req[h]).chan, OldMulti(req[h]).msg, req[h].list)
             /\ Changed(h, {"at"}) /\ req'[h].at = "next"
     PROVE  FlowInv'
  <2>1. /\ req'[h].op = req[h].op /\ req'[h].on = req[h].on /\ req'[h].mold = req[h].mold
        /\ req'[h].panels = req[h].panels /\ req'[h].msg = req[h].msg /\ req'[h].at = "next"
        /\ \A g \in Handlers \ {h} : req'[g] = req[g]
    BY <1>4 DEF Changed, Fields
  <2>2. CreateInv'
    <3>1. Creating(req'[h]) => Creating(req[h])
      BY <1>1, <2>1 DEF Creating
    <3>2. Past(h)
      BY <1>1, <1>4 DEF Past
    <3>3. QED
      BY <1>0, <1>2, <2>1, <3>1, <3>2, CreateOn
  <2>3. RemoveInv'
    BY <1>0, <1>1, <1>2, <1>4, <2>1, RemoveKept
  <2>4. OlderInv'
    BY <1>0, <1>1, <1>2, <1>4, <2>1, OlderKept DEF Outdated
  <2>5. KeepInv'
    <3>1. req[h].list \in SUBSET Panels
      BY <1>0 DEF Reqs
    <3>2. \A o : Newest(o) => Newest(o)'
      BY <3>1, <1>4, EditedOnes, NewestStays DEF BaseInv
    <3>3. (Due(req[h]) => Due(req'[h])) /\ (Made(req'[h]) => Made(req[h]))
      BY <1>1, <2>1 DEF Due, Made
    <3>4. QED
      BY <1>0, <1>2, <2>1, <3>2, <3>3, KeptOn DEF EditMulti, book
  <2>6. QED
    BY <2>2, <2>3, <2>4, <2>5 DEF FlowInv
<1>5. ASSUME /\ ~IsLive(OldMulti(req[h]).chan, OldMulti(req[h]).msg) /\ UNCHANGED discord
             /\ Changed(h, {"at"}) /\ req'[h].at = "sendMulti"
     PROVE  FlowInv'
  <2>1. /\ req'[h].op = req[h].op /\ req'[h].on = req[h].on /\ req'[h].mold = req[h].mold
        /\ req'[h].panels = req[h].panels /\ req'[h].msg = req[h].msg
        /\ req'[h].at = "sendMulti" /\ \A g \in Handlers \ {h} : req'[g] = req[g]
    BY <1>5 DEF Changed, Fields
  <2>2. CreateInv'
    <3>1. Creating(req'[h]) => Creating(req[h])
      BY <1>1, <2>1 DEF Creating
    <3>2. Past(h)
      BY <1>1, <1>5 DEF Past
    <3>3. QED
      BY <1>0, <1>2, <2>1, <3>1, <3>2, CreateOn
  <2>3. RemoveInv'
    BY <1>0, <1>1, <1>2, <1>5, <2>1, RemoveKept
  <2>4. OlderInv'
    BY <1>0, <1>1, <1>2, <1>5, <2>1, OlderKept DEF Outdated
  <2>5. KeepInv'
    <3>1. (Due(req[h]) => Due(req'[h])) /\ (Made(req'[h]) => Made(req[h]))
      BY <1>1, <2>1 DEF Due, Made, MultiOps
    <3>2. \A o : Newest(o) => Newest(o)'
      BY <1>5, NewestSame
    <3>3. QED
      BY <1>0, <1>2, <2>1, <3>1, <3>2, KeptOn DEF EditMulti, book
  <2>6. QED
    BY <2>2, <2>3, <2>4, <2>5 DEF FlowInv
<1>6. QED
  BY <1>4, <1>5, EditMultiStep

LEMMA SendMultiFlow ==
    ASSUME BaseInv, OwnInv, FlowInv, NEW h \in Handlers, SendMulti(h)
    PROVE  FlowInv'
<1>0. /\ CreateInv /\ RemoveInv /\ OlderInv /\ KeepInv /\ LiveOwn /\ HandlerOwn(req[h])
      /\ req[h] \in Reqs /\ InPlace(req[h]) /\ Equipped(req[h]) /\ Grows
  BY SendMultiOwn DEF FlowInv, OwnInv, HandlersOwn, BaseInv, ReqInv
<1>1. req[h].at = "sendMulti" /\ req[h].op \in {"UpdatePanel", "DeletePanel"}
  BY <1>0, Whereabouts DEF SendMulti, At
<1>2. Lasting
  BY DEF SendMulti, Lasting, panelTable, multiTable
<1>3. BaseInv'
  BY SendMultiStep
<1>4. ASSUME /\ faults' = faults + 1 /\ Finish(h)
     PROVE  FlowInv'
  <2>1. /\ req'[h] = Idle /\ \A g \in Handlers \ {h} : req'[g] = req[g]
        /\ ~Creating(Idle) /\ Idle.at = "idle" /\ ~Due(Idle) /\ ~Made(Idle)
    BY <1>4, Finished DEF BaseInv, ReqInv, Creating, Due, Made, Idle
  <2>2. CreateInv'
    BY <1>0, <1>2, <2>1, CreateKept
  <2>3. RemoveInv'
    BY <1>0, <1>1, <1>2, <1>4, <2>1, RemoveKept
  <2>4. OlderInv'
    BY <1>0, <1>1, <1>2, <1>4, <2>1, OlderKept DEF Outdated
  <2>5. KeepInv'
    BY <1>4, Failed
  <2>6. QED
    BY <2>2, <2>3, <2>4, <2>5 DEF FlowInv
<1>5. ASSUME /\ UNCHANGED faults
             /\ Send(h, Multi(req[h]), OldMulti(req[h]).chan, req[h].list, "recordMulti")
             /\ Changed(h, {"msg", "at"}) /\ req'[h].msg = Len(sentBy) + 1
             /\ req'[h].at = "recordMulti"
     PROVE  FlowInv'
  <2>1. /\ req'[h].op = req[h].op /\ req'[h].on = req[h].on /\ req'[h].mold = req[h].mold
        /\ req'[h].panels = req[h].panels /\ req'[h].at = "recordMulti"
        /\ \A g \in Handlers \ {h} : req'[g] = req[g]
    BY <1>5 DEF Changed, Fields
  <2>2. CreateInv'
    <3>1. Creating(req'[h]) => Creating(req[h])
      BY <1>1, <2>1 DEF Creating
    <3>2. Past(h)
      BY <1>1, <1>5 DEF Past
    <3>3. QED
      BY <1>0, <1>2, <2>1, <3>1, <3>2, CreateOn
  <2>3. RemoveInv'
    BY <1>0, <1>1, <1>2, <1>5, <2>1, RemoveKept
  <2>4. OlderInv'
    <3>1. PICK m \in DOMAIN req[h].mold : req[h].panels = {m}
      BY <1>0, <1>1 DEF Equipped
    <3>2. /\ Multi(req[h]) = m /\ m \in Objects /\ req[h].mold[m].msg \in Nat
          /\ Of(req[h].mold[m].msg, m)
      BY <1>0, <3>1, TheMulti DEF Reqs, Molds, MRow, Objects, HandlerOwn
    <3>3. sentBy' = Append(sentBy, m)
      BY <1>5, <3>2 DEF Send
    <3>4. Len(sentBy) + 1 \in 1 .. Len(sentBy') /\ sentBy'[Len(sentBy) + 1] = m
      BY <3>2, <3>3, JustSent
    <3>5. req[h].mold[m].msg < Len(sentBy) + 1
      BY <3>2 DEF Of, BaseInv, DiscordOK
    <3>6. Outdated(req[h])'
      BY <2>1, <3>1, <3>4, <3>5 DEF Outdated
    <3>7. QED
      BY <1>0, <2>1, <3>6, OlderKept
  <2>5. KeepInv'
    <3>1. PICK m \in DOMAIN req[h].mold : req[h].panels = {m}
      BY <1>0, <1>1 DEF Equipped
    <3>2. /\ Multi(req[h]) = m /\ m \in Objects /\ OldMulti(req[h]).chan \in Channels
          /\ req[h].list \in SUBSET Panels
      BY <1>0, <1>1, <3>1, TheMulti DEF Reqs, Molds, MRow, Objects, Equipped, PanelOps
    <3>3. \A q : Newest(q) => Newest(q)'
      BY <1>5, <3>2, NewestSent DEF Send
    <3>4. QED
      BY <1>0, <1>1, <1>2, <1>5, <2>1, <3>3, KeptOrDue DEF Due, Made
  <2>6. QED
    BY <2>2, <2>3, <2>4, <2>5 DEF FlowInv
<1>6. ASSUME /\ faults' = faults + 1 /\ UNCHANGED discord /\ Changed(h, {"at"})
             /\ req'[h].at = "next"
     PROVE  FlowInv'
  <2>1. /\ req'[h].op = req[h].op /\ req'[h].on = req[h].on /\ req'[h].mold = req[h].mold
        /\ req'[h].panels = req[h].panels /\ req'[h].msg = req[h].msg /\ req'[h].at = "next"
        /\ \A g \in Handlers \ {h} : req'[g] = req[g]
    BY <1>6 DEF Changed, Fields
  <2>2. CreateInv'
    <3>1. Creating(req'[h]) => Creating(req[h])
      BY <1>1, <2>1 DEF Creating
    <3>2. Past(h)
      BY <1>1, <1>6 DEF Past
    <3>3. QED
      BY <1>0, <1>2, <2>1, <3>1, <3>2, CreateOn
  <2>3. RemoveInv'
    BY <1>0, <1>1, <1>2, <1>6, <2>1, RemoveKept
  <2>4. OlderInv'
    BY <1>0, <1>1, <1>2, <1>6, <2>1, OlderKept DEF Outdated
  <2>5. KeepInv'
    BY <1>6, Failed
  <2>6. QED
    BY <2>2, <2>3, <2>4, <2>5 DEF FlowInv
<1>7. QED
  BY <1>4, <1>5, <1>6, SendMultiStep

LEMMA RecordMultiFlow ==
    ASSUME BaseInv, OwnInv, FlowInv, NEW h \in Handlers, RecordMulti(h)
    PROVE  FlowInv'
<1>0. /\ CreateInv /\ RemoveInv /\ OlderInv /\ KeepInv /\ LiveOwn /\ HandlerOwn(req[h])
      /\ req[h] \in Reqs /\ InPlace(req[h]) /\ Equipped(req[h]) /\ Grows
  BY RecordMultiOwn DEF FlowInv, OwnInv, HandlersOwn, BaseInv, ReqInv
<1>1. req[h].at = "recordMulti" /\ req[h].op \in {"UpdatePanel", "DeletePanel"}
  BY <1>0, Whereabouts DEF RecordMulti, At
<1>2. Lasting
  BY DEF RecordMulti, Lasting, panelTable, multiTable
<1>3. BaseInv'
  BY RecordMultiStep
<1>4. \A o : Newest(o) => Newest(o)'
  BY NewestSame DEF RecordMulti, book, discord
<1>5. ASSUME /\ Changed(h, {"at"})
             /\ req'[h].at = (IF req[h].op = "DeletePanel" THEN "deleteMulti" ELSE "next")
     PROVE  FlowInv'
  <2>1. /\ req'[h].op = req[h].op /\ req'[h].on = req[h].on /\ req'[h].mold = req[h].mold
        /\ req'[h].panels = req[h].panels /\ req'[h].msg = req[h].msg
        /\ req'[h].at = (IF req[h].op = "DeletePanel" THEN "deleteMulti" ELSE "next")
        /\ \A g \in Handlers \ {h} : req'[g] = req[g]
    BY <1>5 DEF Changed, Fields
  <2>2. CreateInv'
    <3>1. Creating(req'[h]) => Creating(req[h])
      BY <1>1, <2>1 DEF Creating
    <3>2. Past(h)
      BY <1>1, <1>5 DEF Past
    <3>3. QED
      BY <1>0, <1>2, <2>1, <3>1, <3>2, CreateOn
  <2>3. RemoveInv'
    BY <1>0, <1>1, <1>2, <1>5, <2>1, RemoveKept
  <2>4. OlderInv'
    <3>1. Outdated(req[h])
      BY <1>0 DEF OlderInv
    <3>2. sentBy' = sentBy
      BY DEF RecordMulti, discord
    <3>3. Outdated(req[h])'
      BY <1>1, <2>1, <3>1, <3>2 DEF Outdated
    <3>4. QED
      BY <1>0, <2>1, <3>3, OlderKept
  <2>5. KeepInv'
    <3>1. (Due(req[h]) => Due(req'[h])) /\ (Made(req'[h]) => Made(req[h]))
      BY <1>1, <2>1 DEF Due, Made
    <3>2. QED
      BY <1>0, <1>2, <1>4, <2>1, <3>1, KeptOn DEF RecordMulti, book
  <2>6. QED
    BY <2>2, <2>3, <2>4, <2>5 DEF FlowInv
<1>6. QED
  BY <1>5, RecordMultiStep

LEMMA DeleteMultiFlow ==
    ASSUME BaseInv, OwnInv, FlowInv, NEW h \in Handlers, DeleteMulti(h)
    PROVE  FlowInv'
<1>0. /\ CreateInv /\ RemoveInv /\ OlderInv /\ KeepInv /\ LiveOwn /\ HandlerOwn(req[h])
      /\ req[h] \in Reqs /\ InPlace(req[h]) /\ Equipped(req[h]) /\ Grows
  BY DeleteMultiOwn DEF FlowInv, OwnInv, HandlersOwn, BaseInv, ReqInv
<1>1. req[h].at = "deleteMulti" /\ req[h].op = "DeletePanel"
  BY <1>0, Whereabouts DEF DeleteMulti, At
<1>2. Lasting
  BY DEF DeleteMulti, Lasting, panelTable, multiTable
<1>3. BaseInv'
  BY DeleteMultiStep
<1>4. ASSUME /\ Changed(h, {"at"}) /\ req'[h].at = "next"
     PROVE  FlowInv'
  <2>1. /\ req'[h].op = req[h].op /\ req'[h].on = req[h].on /\ req'[h].mold = req[h].mold
        /\ req'[h].panels = req[h].panels /\ req'[h].msg = req[h].msg /\ req'[h].at = "next"
        /\ \A g \in Handlers \ {h} : req'[g] = req[g]
    BY <1>4 DEF Changed, Fields
  <2>2. CreateInv'
    <3>1. Creating(req'[h]) => Creating(req[h])
      BY <1>1, <2>1 DEF Creating
    <3>2. Past(h)
      BY <1>1, <1>4 DEF Past
    <3>3. QED
      BY <1>0, <1>2, <2>1, <3>1, <3>2, CreateOn
  <2>3. RemoveInv'
    BY <1>0, <1>1, <1>2, <1>4, <2>1, RemoveKept
  <2>4. OlderInv'
    BY <1>0, <1>1, <1>2, <1>4, <2>1, OlderKept DEF Outdated
  <2>5. KeepInv'
    <3>1. CASE faults' = faults + 1
      BY <3>1, Failed
    <3>2. CASE DeleteMessage(OldMulti(req[h]).chan, OldMulti(req[h]).msg) /\ UNCHANGED faults
      <4>1. PICK m \in DOMAIN req[h].mold : req[h].panels = {m}
        BY <1>0, <1>1 DEF Equipped
      <4>2. /\ OldMulti(req[h]) = req[h].mold[m] /\ req[h].mold[m].msg \in Nat
            /\ Of(req[h].mold[m].msg, m)
        BY <1>0, <4>1, TheMulti DEF Reqs, Molds, MRow, HandlerOwn
      <4>3. PICK i \in 1 .. Len(sentBy) : sentBy[i] = m /\ req[h].mold[m].msg < i
        BY <1>0, <1>1, <4>1 DEF OlderInv, Outdated
      <4>4. \A q : Newest(q) => Newest(q)'
        BY <1>0, <3>2, <4>2, <4>3, OlderDeleted
      <4>5. QED
        BY <1>0, <1>1, <1>2, <1>4, <2>1, <3>2, <4>4, KeptOrDue DEF Due, Made
    <3>3. QED
      BY <3>1, <3>2 DEF DeleteMulti
  <2>6. QED
    BY <2>2, <2>3, <2>4, <2>5 DEF FlowInv
<1>5. QED
  BY <1>4, DeleteMultiStep

LEMMA LoadMultiFlow ==
    ASSUME BaseInv, OwnInv, FlowInv, NEW h \in Handlers, LoadMulti(h)
    PROVE  FlowInv'
<1>0. /\ CreateInv /\ RemoveInv /\ OlderInv /\ KeepInv /\ LiveOwn /\ HandlerOwn(req[h])
      /\ req[h] \in Reqs /\ InPlace(req[h]) /\ Equipped(req[h]) /\ Grows
  BY LoadMultiOwn DEF FlowInv, OwnInv, HandlersOwn, BaseInv, ReqInv
<1>1. req[h].at = "load" /\ req[h].op \in MultiOps
  BY <1>0, Whereabouts DEF LoadMulti, At
<1>2. Lasting
  BY DEF LoadMulti, Lasting, panelTable, multiTable
<1>3. BaseInv'
  BY LoadMultiStep
<1>4. \A o : Newest(o) => Newest(o)'
  BY NewestSame DEF LoadMulti, book, discord
<1>5. ASSUME /\ Finish(h)
     PROVE  FlowInv'
  <2>1. /\ req'[h] = Idle /\ \A g \in Handlers \ {h} : req'[g] = req[g]
        /\ ~Creating(Idle) /\ Idle.at = "idle" /\ ~Due(Idle) /\ ~Made(Idle)
    BY <1>5, Finished DEF BaseInv, ReqInv, Creating, Due, Made, Idle
  <2>2. CreateInv'
    BY <1>0, <1>2, <2>1, CreateKept
  <2>3. RemoveInv'
    BY <1>0, <1>1, <1>2, <1>5, <2>1, RemoveKept
  <2>4. OlderInv'
    BY <1>0, <1>1, <1>2, <1>5, <2>1, OlderKept DEF Outdated
  <2>5. KeepInv'
    BY <1>0, <1>1, <1>2, <1>4, <2>1, KeptIdle DEF Due, LoadMulti, book
  <2>6. QED
    BY <2>2, <2>3, <2>4, <2>5 DEF FlowInv
<1>6. ASSUME /\ (req[h].op # "MultiPanelCreate" => req[h].on \in mstored)
             /\ (req[h].op \in {"MultiPanelCreate", "MultiPanelUpdate"} => ValidPanels(req[h].panels))
             /\ Changed(h, {"mold", "list", "at"}) /\ req'[h].mold = mrow
             /\ req'[h].list = req[h].panels
             /\ req'[h].at = (IF req[h].op = "MultiPanelCreate" THEN "sendOwn" ELSE "oldOwn")
     PROVE  FlowInv'
  <2>1. /\ req'[h].op = req[h].op /\ req'[h].on = req[h].on
        /\ req'[h].panels = req[h].panels /\ req'[h].msg = req[h].msg
        /\ req'[h].at = (IF req[h].op = "MultiPanelCreate" THEN "sendOwn" ELSE "oldOwn")
        /\ \A g \in Handlers \ {h} : req'[g] = req[g]
    BY <1>6 DEF Changed, Fields
  <2>2. CreateInv'
    <3>1. Creating(req'[h]) => Creating(req[h])
      BY <1>1, <2>1 DEF Creating
    <3>2. Past(h)
      BY <1>1, <1>6 DEF Past, Creating
    <3>3. QED
      BY <1>0, <1>2, <2>1, <3>1, <3>2, CreateOn
  <2>3. RemoveInv'
    BY <1>0, <1>1, <1>2, <1>6, <2>1, RemoveKept
  <2>4. OlderInv'
    BY <1>0, <1>1, <1>2, <1>6, <2>1, OlderKept DEF Outdated
  <2>5. KeepInv'
    <3>1. (Due(req[h]) => Due(req'[h])) /\ (Made(req'[h]) => Made(req[h]))
      BY <1>1, <2>1 DEF Due, Made
    <3>2. QED
      BY <1>0, <1>2, <1>4, <2>1, <3>1, KeptOn DEF LoadMulti, book
  <2>6. QED
    BY <2>2, <2>3, <2>4, <2>5 DEF FlowInv
<1>7. QED
  BY <1>5, <1>6, LoadMultiStep

LEMMA OldMultiMessageFlow ==
    ASSUME BaseInv, OwnInv, FlowInv, NEW h \in Handlers, OldMultiMessage(h)
    PROVE  FlowInv'
<1>0. /\ CreateInv /\ RemoveInv /\ OlderInv /\ KeepInv /\ LiveOwn /\ HandlerOwn(req[h])
      /\ req[h] \in Reqs /\ InPlace(req[h]) /\ Equipped(req[h]) /\ Grows
  BY OldMultiMessageOwn DEF FlowInv, OwnInv, HandlersOwn, BaseInv, ReqInv
<1>1. /\ req[h].at = "oldOwn"
      /\ req[h].op \in {"MultiPanelUpdate", "MultiPanelResend", "MultiPanelDelete"}
  BY <1>0, Whereabouts DEF OldMultiMessage, At
<1>2. Lasting
  BY DEF OldMultiMessage, Lasting, panelTable, multiTable
<1>3. BaseInv'
  BY OldMultiMessageStep
<1>4. ASSUME /\ req[h].op = "MultiPanelUpdate" /\ req[h].mold[req[h].on].chan = req[h].chan
             /\ IsLive(req[h].mold[req[h].on].chan, req[h].mold[req[h].on].msg)
             /\ EditMessage(req[h].mold[req[h].on].chan, req[h].mold[req[h].on].msg, req[h].list)
             /\ Changed(h, {"msg", "at"}) /\ req'[h].msg = req[h].mold[req[h].on].msg
             /\ req'[h].at = "storeOwn"
     PROVE  FlowInv'
  <2>1. /\ req'[h].op = req[h].op /\ req'[h].on = req[h].on /\ req'[h].mold = req[h].mold
        /\ req'[h].panels = req[h].panels /\ req'[h].at = "storeOwn"
        /\ \A g \in Handlers \ {h} : req'[g] = req[g]
    BY <1>4 DEF Changed, Fields
  <2>2. CreateInv'
    <3>1. Creating(req'[h]) => Creating(req[h])
      BY <1>1, <2>1 DEF Creating
    <3>2. Past(h)
      BY <1>1, <1>4 DEF Past
    <3>3. QED
      BY <1>0, <1>2, <2>1, <3>1, <3>2, CreateOn
  <2>3. RemoveInv'
    BY <1>0, <1>1, <1>2, <1>4, <2>1, RemoveKept
  <2>4. OlderInv'
    BY <1>0, <1>1, <1>2, <1>4, <2>1, OlderKept DEF Outdated
  <2>5. KeepInv'
    <3>1. req[h].list \in SUBSET Panels
      BY <1>0 DEF Reqs
    <3>2. \A o : Newest(o) => Newest(o)'
      BY <3>1, <1>4, EditedOnes, NewestStays DEF BaseInv
    <3>3. (Due(req[h]) => Due(req'[h])) /\ (Made(req'[h]) => Made(req[h]))
      BY <1>1, <2>1 DEF Due, Made
    <3>4. QED
      BY <1>0, <1>2, <2>1, <3>2, <3>3, KeptOn DEF OldMultiMessage, book
  <2>6. QED
    BY <2>2, <2>3, <2>4, <2>5 DEF FlowInv
<1>5. ASSUME /\ req[h].op = "MultiPanelUpdate" /\ req[h].mold[req[h].on].chan = req[h].chan
             /\ ~IsLive(req[h].mold[req[h].on].chan, req[h].mold[req[h].on].msg)
             /\ UNCHANGED discord /\ Changed(h, {"at"}) /\ req'[h].at = "sendOwn"
     PROVE  FlowInv'
  <2>1. /\ req'[h].op = req[h].op /\ req'[h].on = req[h].on /\ req'[h].mold = req[h].mold
        /\ req'[h].panels = req[h].panels /\ req'[h].msg = req[h].msg
        /\ req'[h].at = "sendOwn" /\ \A g \in Handlers \ {h} : req'[g] = req[g]
    BY <1>5 DEF Changed, Fields
  <2>2. CreateInv'
    <3>1. Creating(req'[h]) => Creating(req[h])
      BY <1>1, <2>1 DEF Creating
    <3>2. Past(h)
      BY <1>1, <1>5 DEF Past
    <3>3. QED
      BY <1>0, <1>2, <2>1, <3>1, <3>2, CreateOn
  <2>3. RemoveInv'
    BY <1>0, <1>1, <1>2, <1>5, <2>1, RemoveKept
  <2>4. OlderInv'
    BY <1>0, <1>1, <1>2, <1>5, <2>1, OlderKept DEF Outdated
  <2>5. KeepInv'
    <3>1. (Due(req[h]) => Due(req'[h])) /\ (Made(req'[h]) => Made(req[h]))
      BY <1>1, <2>1 DEF Due, Made, MultiOps
    <3>2. \A o : Newest(o) => Newest(o)'
      BY <1>5, NewestSame
    <3>3. QED
      BY <1>0, <1>2, <2>1, <3>1, <3>2, KeptOn DEF OldMultiMessage, book
  <2>6. QED
    BY <2>2, <2>3, <2>4, <2>5 DEF FlowInv
<1>6. ASSUME /\ ~(req[h].op = "MultiPanelUpdate" /\ req[h].mold[req[h].on].chan = req[h].chan)
             /\ DeleteMessage(req[h].mold[req[h].on].chan, req[h].mold[req[h].on].msg)
             /\ Changed(h, {"at"}) /\ req'[h].at = AfterDelete(req[h].op)
     PROVE  FlowInv'
  <2>1. /\ req'[h].op = req[h].op /\ req'[h].on = req[h].on /\ req'[h].mold = req[h].mold
        /\ req'[h].panels = req[h].panels /\ req'[h].msg = req[h].msg
        /\ req'[h].at = AfterDelete(req[h].op) /\ \A g \in Handlers \ {h} : req'[g] = req[g]
    BY <1>6 DEF Changed, Fields
  <2>2. CreateInv'
    <3>1. Creating(req'[h]) => Creating(req[h])
      BY <1>1, <2>1 DEF Creating
    <3>2. Past(h)
      BY <1>1, <1>6 DEF Past
    <3>3. QED
      BY <1>0, <1>2, <2>1, <3>1, <3>2, CreateOn
  <2>3. RemoveInv'
    BY <1>0, <1>1, <1>2, <1>6, <2>1, RemoveKept DEF AfterSend, AfterDelete
  <2>4. OlderInv'
    BY <1>0, <1>1, <1>2, <1>6, <2>1, OlderKept DEF Outdated, AfterSend, AfterDelete
  <2>5. KeepInv'
    <3>1. \A o : o # req[h].on /\ Newest(o) => Newest(o)'
      <4>1. req[h].on \in DOMAIN req[h].mold
        BY <1>0, <1>1 DEF InPlace, Equipped, MultiOps
      <4>2. Of(req[h].mold[req[h].on].msg, req[h].on)
        BY <1>0, <4>1 DEF HandlerOwn
      <4>3. QED
        BY <1>0, <4>2, <1>6, NewestDeleted
    <3>2. req'[h].on = req[h].on /\ Due(req'[h]) /\ ~Due(req[h]) /\ ~Made(req'[h])
      BY <1>1, <2>1, AfterDeletes DEF Due, Made
    <3>3. QED
      BY <1>0, <1>1, <1>2, <1>6, <2>1, <3>1, <3>2, DueNow DEF OldMultiMessage, book
  <2>6. QED
    BY <2>2, <2>3, <2>4, <2>5 DEF FlowInv
<1>7. QED
  BY <1>4, <1>5, <1>6, OldMultiMessageStep

LEMMA OldMultiMessageStaysFlow ==
    ASSUME BaseInv, OwnInv, FlowInv, NEW h \in Handlers, OldMultiMessageStays(h)
    PROVE  FlowInv'
<1>0. /\ CreateInv /\ RemoveInv /\ OlderInv /\ KeepInv /\ LiveOwn /\ HandlerOwn(req[h])
      /\ req[h] \in Reqs /\ InPlace(req[h]) /\ Equipped(req[h]) /\ Grows
  BY OldMultiMessageStaysOwn DEF FlowInv, OwnInv, HandlersOwn, BaseInv, ReqInv
<1>1. /\ req[h].at = "oldOwn" /\ faults' = faults + 1
      /\ req[h].op \in {"MultiPanelUpdate", "MultiPanelResend", "MultiPanelDelete"}
  BY <1>0, Whereabouts DEF OldMultiMessageStays, At
<1>2. Lasting
  BY DEF OldMultiMessageStays, Lasting, panelTable, multiTable
<1>3. BaseInv'
  BY OldMultiMessageStaysStep
<1>4. \A o : Newest(o) => Newest(o)'
  BY NewestSame DEF OldMultiMessageStays, book, discord
<1>5. ASSUME /\ Changed(h, {"at"}) /\ req'[h].at = AfterDelete(req[h].op)
     PROVE  FlowInv'
  <2>1. /\ req'[h].op = req[h].op /\ req'[h].on = req[h].on /\ req'[h].mold = req[h].mold
        /\ req'[h].panels = req[h].panels /\ req'[h].msg = req[h].msg
        /\ req'[h].at = AfterDelete(req[h].op) /\ \A g \in Handlers \ {h} : req'[g] = req[g]
    BY <1>5 DEF Changed, Fields
  <2>2. CreateInv'
    <3>1. Creating(req'[h]) => Creating(req[h])
      BY <1>1, <2>1 DEF Creating
    <3>2. Past(h)
      BY <1>1, <1>5 DEF Past
    <3>3. QED
      BY <1>0, <1>2, <2>1, <3>1, <3>2, CreateOn
  <2>3. RemoveInv'
    BY <1>0, <1>1, <1>2, <1>5, <2>1, RemoveKept DEF AfterSend, AfterDelete
  <2>4. OlderInv'
    BY <1>0, <1>1, <1>2, <1>5, <2>1, OlderKept DEF Outdated, AfterSend, AfterDelete
  <2>5. KeepInv'
    BY <1>1, Failed
  <2>6. QED
    BY <2>2, <2>3, <2>4, <2>5 DEF FlowInv
<1>6. QED
  BY <1>5, OldMultiMessageStaysStep

LEMMA ListOwnFlow ==
    ASSUME BaseInv, OwnInv, FlowInv, NEW h \in Handlers, ListOwn(h)
    PROVE  FlowInv'
<1>0. /\ CreateInv /\ RemoveInv /\ OlderInv /\ KeepInv /\ LiveOwn /\ HandlerOwn(req[h])
      /\ req[h] \in Reqs /\ InPlace(req[h]) /\ Equipped(req[h]) /\ Grows
  BY ListOwnOwn DEF FlowInv, OwnInv, HandlersOwn, BaseInv, ReqInv
<1>1. req[h].at = "listOwn" /\ req[h].op = "MultiPanelResend"
  BY <1>0, Whereabouts DEF ListOwn, At
<1>2. Lasting
  BY DEF ListOwn, Lasting, panelTable, multiTable
<1>3. BaseInv'
  BY ListOwnStep
<1>4. \A o : Newest(o) => Newest(o)'
  BY NewestSame DEF ListOwn, book, discord
<1>5. ASSUME /\ Changed(h, {"list", "at"}) /\ req'[h].list = targets[req[h].on]
             /\ req'[h].at = "sendOwn"
     PROVE  FlowInv'
  <2>1. /\ req'[h].op = req[h].op /\ req'[h].on = req[h].on /\ req'[h].mold = req[h].mold
        /\ req'[h].panels = req[h].panels /\ req'[h].msg = req[h].msg
        /\ req'[h].at = "sendOwn" /\ \A g \in Handlers \ {h} : req'[g] = req[g]
    BY <1>5 DEF Changed, Fields
  <2>2. CreateInv'
    <3>1. Creating(req'[h]) => Creating(req[h])
      BY <1>1, <2>1 DEF Creating
    <3>2. Past(h)
      BY <1>1, <1>5 DEF Past
    <3>3. QED
      BY <1>0, <1>2, <2>1, <3>1, <3>2, CreateOn
  <2>3. RemoveInv'
    BY <1>0, <1>1, <1>2, <1>5, <2>1, RemoveKept
  <2>4. OlderInv'
    BY <1>0, <1>1, <1>2, <1>5, <2>1, OlderKept DEF Outdated
  <2>5. KeepInv'
    <3>1. (Due(req[h]) => Due(req'[h])) /\ (Made(req'[h]) => Made(req[h]))
      BY <1>1, <2>1 DEF Due, Made
    <3>2. QED
      BY <1>0, <1>2, <1>4, <2>1, <3>1, KeptOn DEF ListOwn, book
  <2>6. QED
    BY <2>2, <2>3, <2>4, <2>5 DEF FlowInv
<1>6. QED
  BY <1>5, ListOwnStep

LEMMA SendOwnFlow ==
    ASSUME BaseInv, OwnInv, FlowInv, NEW h \in Handlers, SendOwn(h)
    PROVE  FlowInv'
<1>0. /\ CreateInv /\ RemoveInv /\ OlderInv /\ KeepInv /\ LiveOwn /\ HandlerOwn(req[h])
      /\ req[h] \in Reqs /\ InPlace(req[h]) /\ Equipped(req[h]) /\ Grows
  BY SendOwnOwn DEF FlowInv, OwnInv, HandlersOwn, BaseInv, ReqInv
<1>1. /\ req[h].at = "sendOwn"
      /\ req[h].op \in {"MultiPanelCreate", "MultiPanelUpdate", "MultiPanelResend"}
  BY <1>0, Whereabouts DEF SendOwn, At
<1>2. Lasting
  BY DEF SendOwn, Lasting, panelTable, multiTable
<1>3. BaseInv'
  BY SendOwnStep
<1>4. ASSUME /\ faults' = faults + 1 /\ Finish(h)
     PROVE  FlowInv'
  <2>1. /\ req'[h] = Idle /\ \A g \in Handlers \ {h} : req'[g] = req[g]
        /\ ~Creating(Idle) /\ Idle.at = "idle" /\ ~Due(Idle) /\ ~Made(Idle)
    BY <1>4, Finished DEF BaseInv, ReqInv, Creating, Due, Made, Idle
  <2>2. CreateInv'
    BY <1>0, <1>2, <2>1, CreateKept
  <2>3. RemoveInv'
    BY <1>0, <1>1, <1>2, <1>4, <2>1, RemoveKept
  <2>4. OlderInv'
    BY <1>0, <1>1, <1>2, <1>4, <2>1, OlderKept DEF Outdated
  <2>5. KeepInv'
    BY <1>4, Failed
  <2>6. QED
    BY <2>2, <2>3, <2>4, <2>5 DEF FlowInv
<1>5. ASSUME /\ UNCHANGED faults /\ Changed(h, {"msg", "at"})
             /\ req'[h].msg = Len(sentBy) + 1 /\ req'[h].at = "storeOwn"
     PROVE  FlowInv'
  <2>1. /\ req'[h].op = req[h].op /\ req'[h].on = req[h].on /\ req'[h].mold = req[h].mold
        /\ req'[h].panels = req[h].panels /\ req'[h].at = "storeOwn"
        /\ \A g \in Handlers \ {h} : req'[g] = req[g]
    BY <1>5 DEF Changed, Fields
  <2>2. CreateInv'
    <3>1. Creating(req'[h]) => Creating(req[h])
      BY <1>1, <2>1 DEF Creating
    <3>2. Past(h)
      BY <1>1, <1>5 DEF Past
    <3>3. QED
      BY <1>0, <1>2, <2>1, <3>1, <3>2, CreateOn
  <2>3. RemoveInv'
    BY <1>0, <1>1, <1>2, <1>5, <2>1, RemoveKept
  <2>4. OlderInv'
    BY <1>0, <1>1, <1>2, <1>5, <2>1, OlderKept DEF Outdated
  <2>5. KeepInv'
    <3>1. /\ req[h].on \in Objects /\ req[h].list \in SUBSET Panels
          /\ (IF req[h].op = "MultiPanelResend" THEN req[h].mold[req[h].on].chan ELSE req[h].chan) \in Channels
      BY <1>0, <1>1 DEF InPlace, Equipped, Objects, MultiOps, Reqs
    <3>2. \A q : Newest(q) \/ q = req[h].on => Newest(q)'
      BY <3>1, NewestSent DEF SendOwn, Send, SendLost
    <3>3. QED
      BY <1>0, <1>1, <1>2, <1>5, <2>1, <3>2, KeptOrDue DEF Due, Made
  <2>6. QED
    BY <2>2, <2>3, <2>4, <2>5 DEF FlowInv
<1>6. QED
  BY <1>4, <1>5, SendOwnStep

LEMMA CreateMultiRowFlow ==
    ASSUME BaseInv, OwnInv, FlowInv, NEW h \in Handlers, CreateMultiRow(h)
    PROVE  FlowInv'
<1>0. /\ CreateInv /\ RemoveInv /\ OlderInv /\ KeepInv /\ LiveOwn /\ HandlerOwn(req[h])
      /\ req[h] \in Reqs /\ InPlace(req[h]) /\ Equipped(req[h]) /\ Grows
  BY CreateMultiRowOwn DEF FlowInv, OwnInv, HandlersOwn, BaseInv, ReqInv
<1>1. req[h].at = "storeOwn" /\ req[h].op = "MultiPanelCreate"
  BY <1>0, Whereabouts DEF CreateMultiRow, At
<1>2. stored' = stored /\ mstored' = mstored \union {req[h].on}
  BY DEF CreateMultiRow, panelTable
<1>3. BaseInv'
  BY CreateMultiRowStep
<1>4. \A o : Newest(o) => Newest(o)'
  BY NewestSame DEF CreateMultiRow, book, discord
<1>5. ASSUME /\ Changed(h, {"at"}) /\ req'[h].at = "insert"
     PROVE  FlowInv'
  <2>1. /\ req'[h].op = req[h].op /\ req'[h].on = req[h].on /\ req'[h].mold = req[h].mold
        /\ req'[h].panels = req[h].panels /\ req'[h].msg = req[h].msg
        /\ req'[h].at = "insert" /\ \A g \in Handlers \ {h} : req'[g] = req[g]
    BY <1>5 DEF Changed, Fields
  <2>2. CreateInv'
    BY <1>0, <1>1, <1>2, <1>5, <2>1, CreateKept DEF Creating
  <2>3. RemoveInv'
    BY <1>0, <1>2, <2>1 DEF RemoveInv
  <2>4. OlderInv'
    BY <1>0, <1>1, <1>2, <1>5, <2>1, OlderKept DEF Outdated
  <2>5. KeepInv'
    BY <1>0, <1>1, <1>2, <1>5, <2>1, <1>4, StoredNow DEF Due, Made, CreateMultiRow, book
  <2>6. QED
    BY <2>2, <2>3, <2>4, <2>5 DEF FlowInv
<1>6. QED
  BY <1>5, CreateMultiRowStep

LEMMA UpdateMultiRowFlow ==
    ASSUME BaseInv, OwnInv, FlowInv, NEW h \in Handlers, UpdateMultiRow(h)
    PROVE  FlowInv'
<1>0. /\ CreateInv /\ RemoveInv /\ OlderInv /\ KeepInv /\ LiveOwn /\ HandlerOwn(req[h])
      /\ req[h] \in Reqs /\ InPlace(req[h]) /\ Equipped(req[h]) /\ Grows
  BY UpdateMultiRowOwn DEF FlowInv, OwnInv, HandlersOwn, BaseInv, ReqInv
<1>1. req[h].at = "storeOwn" /\ req[h].op = "MultiPanelUpdate"
  BY <1>0, Whereabouts DEF UpdateMultiRow, At
<1>2. Lasting
  BY DEF UpdateMultiRow, Lasting, panelTable, multiTable
<1>3. BaseInv'
  BY UpdateMultiRowStep
<1>4. \A o : Newest(o) => Newest(o)'
  BY NewestSame DEF UpdateMultiRow, book, discord
<1>5. ASSUME /\ Changed(h, {"at"}) /\ req'[h].at = "clear"
     PROVE  FlowInv'
  <2>1. /\ req'[h].op = req[h].op /\ req'[h].on = req[h].on /\ req'[h].mold = req[h].mold
        /\ req'[h].panels = req[h].panels /\ req'[h].msg = req[h].msg
        /\ req'[h].at = "clear" /\ \A g \in Handlers \ {h} : req'[g] = req[g]
    BY <1>5 DEF Changed, Fields
  <2>2. CreateInv'
    <3>1. Creating(req'[h]) => Creating(req[h])
      BY <1>1, <2>1 DEF Creating
    <3>2. Past(h)
      BY <1>1, <1>5 DEF Past
    <3>3. QED
      BY <1>0, <1>2, <2>1, <3>1, <3>2, CreateOn
  <2>3. RemoveInv'
    BY <1>0, <1>1, <1>2, <1>5, <2>1, RemoveKept
  <2>4. OlderInv'
    BY <1>0, <1>1, <1>2, <1>5, <2>1, OlderKept DEF Outdated
  <2>5. KeepInv'
    <3>1. (Due(req[h]) => Due(req'[h])) /\ (Made(req'[h]) => Made(req[h]))
      BY <1>1, <2>1 DEF Due, Made
    <3>2. QED
      BY <1>0, <1>2, <1>4, <2>1, <3>1, KeptOn DEF UpdateMultiRow, book
  <2>6. QED
    BY <2>2, <2>3, <2>4, <2>5 DEF FlowInv
<1>6. QED
  BY <1>5, UpdateMultiRowStep

LEMMA RecordResentMultiFlow ==
    ASSUME BaseInv, OwnInv, FlowInv, NEW h \in Handlers, RecordResentMulti(h)
    PROVE  FlowInv'
<1>0. /\ CreateInv /\ RemoveInv /\ OlderInv /\ KeepInv /\ LiveOwn /\ HandlerOwn(req[h])
      /\ req[h] \in Reqs /\ InPlace(req[h]) /\ Equipped(req[h]) /\ Grows
  BY RecordResentMultiOwn DEF FlowInv, OwnInv, HandlersOwn, BaseInv, ReqInv
<1>1. req[h].at = "storeOwn" /\ req[h].op = "MultiPanelResend"
  BY <1>0, Whereabouts DEF RecordResentMulti, At
<1>2. Lasting
  BY DEF RecordResentMulti, Lasting, panelTable, multiTable
<1>3. BaseInv'
  BY RecordResentMultiStep
<1>4. \A o : Newest(o) => Newest(o)'
  BY NewestSame DEF RecordResentMulti, book, discord
<1>5. ASSUME /\ Finish(h)
     PROVE  FlowInv'
  <2>1. /\ req'[h] = Idle /\ \A g \in Handlers \ {h} : req'[g] = req[g]
        /\ ~Creating(Idle) /\ Idle.at = "idle" /\ ~Due(Idle) /\ ~Made(Idle)
    BY <1>5, Finished DEF BaseInv, ReqInv, Creating, Due, Made, Idle
  <2>2. CreateInv'
    BY <1>0, <1>2, <2>1, CreateKept
  <2>3. RemoveInv'
    BY <1>0, <1>1, <1>2, <1>5, <2>1, RemoveKept
  <2>4. OlderInv'
    BY <1>0, <1>1, <1>2, <1>5, <2>1, OlderKept DEF Outdated
  <2>5. KeepInv'
    BY <1>0, <1>1, <1>2, <1>4, <2>1, KeptIdle DEF Due, RecordResentMulti, book
  <2>6. QED
    BY <2>2, <2>3, <2>4, <2>5 DEF FlowInv
<1>6. QED
  BY <1>5, RecordResentMultiStep

LEMMA DeleteMultiRowFlow ==
    ASSUME BaseInv, OwnInv, FlowInv, NEW h \in Handlers, DeleteMultiRow(h)
    PROVE  FlowInv'
<1>0. /\ CreateInv /\ RemoveInv /\ OlderInv /\ KeepInv /\ LiveOwn /\ HandlerOwn(req[h])
      /\ req[h] \in Reqs /\ InPlace(req[h]) /\ Equipped(req[h]) /\ Grows
  BY DeleteMultiRowOwn DEF FlowInv, OwnInv, HandlersOwn, BaseInv, ReqInv
<1>1. /\ req[h].at = "storeOwn" /\ req[h].op = "MultiPanelDelete"
      /\ req[h].on \notin stored' \union mstored'
  <2>1. req[h].at = "storeOwn" /\ req[h].op = "MultiPanelDelete"
    BY DEF DeleteMultiRow, At
  <2>2. req[h].on \in Multis
    BY <1>0, <2>1 DEF InPlace, MultiOps
  <2>3. stored \subseteq Panels /\ stored' = stored /\ mstored' = mstored \ {req[h].on}
    BY DEF BaseInv, PanelsOK, DeleteMultiRow, panelTable
  <2>4. QED
    BY <2>1, <2>2, <2>3, PanelMessagesAssumption
<1>2. Lasting
  BY DEF DeleteMultiRow, Lasting, panelTable, multiTable
<1>3. BaseInv'
  BY DeleteMultiRowStep
<1>4. \A o : Newest(o) => Newest(o)'
  BY NewestSame DEF DeleteMultiRow, book, discord
<1>5. ASSUME /\ Finish(h)
     PROVE  FlowInv'
  <2>1. /\ req'[h] = Idle /\ \A g \in Handlers \ {h} : req'[g] = req[g]
        /\ ~Creating(Idle) /\ Idle.at = "idle" /\ ~Due(Idle) /\ ~Made(Idle)
    BY <1>5, Finished DEF BaseInv, ReqInv, Creating, Due, Made, Idle
  <2>2. CreateInv'
    BY <1>0, <1>2, <2>1, CreateKept
  <2>3. RemoveInv'
    BY <1>0, <1>1, <1>2, <1>5, <2>1, RemoveKept
  <2>4. OlderInv'
    BY <1>0, <1>1, <1>2, <1>5, <2>1, OlderKept DEF Outdated
  <2>5. KeepInv'
    BY <1>0, <1>1, <1>2, <1>4, <2>1, KeptIdle DEF Due, DeleteMultiRow, book
  <2>6. QED
    BY <2>2, <2>3, <2>4, <2>5 DEF FlowInv
<1>6. QED
  BY <1>5, DeleteMultiRowStep

LEMMA ClearTargetsFlow ==
    ASSUME BaseInv, OwnInv, FlowInv, NEW h \in Handlers, ClearTargets(h)
    PROVE  FlowInv'
<1>0. /\ CreateInv /\ RemoveInv /\ OlderInv /\ KeepInv /\ LiveOwn /\ HandlerOwn(req[h])
      /\ req[h] \in Reqs /\ InPlace(req[h]) /\ Equipped(req[h]) /\ Grows
  BY ClearTargetsOwn DEF FlowInv, OwnInv, HandlersOwn, BaseInv, ReqInv
<1>1. req[h].at = "clear" /\ req[h].op = "MultiPanelUpdate"
  BY <1>0, Whereabouts DEF ClearTargets, At
<1>2. Lasting
  BY DEF ClearTargets, Lasting, panelTable, multiTable
<1>3. BaseInv'
  BY ClearTargetsStep
<1>4. \A o : Newest(o) => Newest(o)'
  BY NewestSame DEF ClearTargets, book, discord
<1>5. ASSUME /\ Changed(h, {"at"}) /\ req'[h].at = "insert"
     PROVE  FlowInv'
  <2>1. /\ req'[h].op = req[h].op /\ req'[h].on = req[h].on /\ req'[h].mold = req[h].mold
        /\ req'[h].panels = req[h].panels /\ req'[h].msg = req[h].msg
        /\ req'[h].at = "insert" /\ \A g \in Handlers \ {h} : req'[g] = req[g]
    BY <1>5 DEF Changed, Fields
  <2>2. CreateInv'
    <3>1. Creating(req'[h]) => Creating(req[h])
      BY <1>1, <2>1 DEF Creating
    <3>2. Past(h)
      BY <1>1, <1>5 DEF Past
    <3>3. QED
      BY <1>0, <1>2, <2>1, <3>1, <3>2, CreateOn
  <2>3. RemoveInv'
    BY <1>0, <1>1, <1>2, <1>5, <2>1, RemoveKept
  <2>4. OlderInv'
    BY <1>0, <1>1, <1>2, <1>5, <2>1, OlderKept DEF Outdated
  <2>5. KeepInv'
    <3>1. (Due(req[h]) => Due(req'[h])) /\ (Made(req'[h]) => Made(req[h]))
      BY <1>1, <2>1 DEF Due, Made
    <3>2. QED
      BY <1>0, <1>2, <1>4, <2>1, <3>1, KeptOn DEF ClearTargets, book
  <2>6. QED
    BY <2>2, <2>3, <2>4, <2>5 DEF FlowInv
<1>6. QED
  BY <1>5, ClearTargetsStep

LEMMA InsertTargetFlow ==
    ASSUME BaseInv, OwnInv, FlowInv, NEW h \in Handlers, InsertTarget(h)
    PROVE  FlowInv'
<1>0. /\ CreateInv /\ RemoveInv /\ OlderInv /\ KeepInv /\ LiveOwn /\ HandlerOwn(req[h])
      /\ req[h] \in Reqs /\ InPlace(req[h]) /\ Equipped(req[h]) /\ Grows
  BY InsertTargetOwn DEF FlowInv, OwnInv, HandlersOwn, BaseInv, ReqInv
<1>1. req[h].at = "insert" /\ req[h].op \in {"MultiPanelCreate", "MultiPanelUpdate"}
  BY <1>0, Whereabouts DEF InsertTarget, At
<1>2. Lasting
  BY DEF InsertTarget, Lasting, panelTable, multiTable
<1>3. BaseInv'
  BY InsertTargetStep
<1>4. \A o : Newest(o) => Newest(o)'
  BY NewestSame DEF InsertTarget, book, discord
<1>5. ASSUME /\ req[h].list = {} /\ UNCHANGED targets /\ Finish(h)
     PROVE  FlowInv'
  <2>1. /\ req'[h] = Idle /\ \A g \in Handlers \ {h} : req'[g] = req[g]
        /\ ~Creating(Idle) /\ Idle.at = "idle" /\ ~Due(Idle) /\ ~Made(Idle)
    BY <1>5, Finished DEF BaseInv, ReqInv, Creating, Due, Made, Idle
  <2>2. CreateInv'
    BY <1>0, <1>2, <2>1, CreateKept
  <2>3. RemoveInv'
    BY <1>0, <1>1, <1>2, <1>5, <2>1, RemoveKept
  <2>4. OlderInv'
    BY <1>0, <1>1, <1>2, <1>5, <2>1, OlderKept DEF Outdated
  <2>5. KeepInv'
    BY <1>0, <1>1, <1>2, <1>4, <2>1, KeptIdle DEF Due, InsertTarget, book
  <2>6. QED
    BY <2>2, <2>3, <2>4, <2>5 DEF FlowInv
<1>6. ASSUME NEW p \in req[h].list,
           /\ targets' = (IF p \in stored /\ req[h].on \in mstored THEN [targets EXCEPT ![req[h].on] = @ \union {p}] ELSE targets)
           /\ Changed(h, {"list"}) /\ req'[h].list = req[h].list \ {p}
     PROVE  FlowInv'
  <2>1. /\ req'[h].op = req[h].op /\ req'[h].on = req[h].on /\ req'[h].mold = req[h].mold
        /\ req'[h].panels = req[h].panels /\ req'[h].msg = req[h].msg
        /\ req'[h].at = req[h].at /\ \A g \in Handlers \ {h} : req'[g] = req[g]
    BY <1>6 DEF Changed, Fields
  <2>2. CreateInv'
    <3>1. Creating(req'[h]) => Creating(req[h])
      BY <1>1, <2>1 DEF Creating
    <3>2. Past(h)
      BY <1>1, <1>6 DEF Past
    <3>3. QED
      BY <1>0, <1>2, <2>1, <3>1, <3>2, CreateOn
  <2>3. RemoveInv'
    BY <1>0, <1>1, <1>2, <1>6, <2>1, RemoveKept
  <2>4. OlderInv'
    BY <1>0, <1>1, <1>2, <1>6, <2>1, OlderKept DEF Outdated
  <2>5. KeepInv'
    <3>1. (Due(req[h]) => Due(req'[h])) /\ (Made(req'[h]) => Made(req[h]))
      BY <1>1, <2>1 DEF Due, Made
    <3>2. QED
      BY <1>0, <1>2, <1>4, <2>1, <3>1, KeptOn DEF InsertTarget, book
  <2>6. QED
    BY <2>2, <2>3, <2>4, <2>5 DEF FlowInv
<1>7. QED
  BY <1>5, <1>6, InsertTargetStep

LEMMA FailFlow ==
    ASSUME BaseInv, OwnInv, FlowInv, NEW h \in Handlers, Fail(h)
    PROVE  FlowInv'
<1>0. /\ CreateInv /\ RemoveInv /\ OlderInv /\ KeepInv /\ LiveOwn /\ HandlerOwn(req[h])
      /\ req[h] \in Reqs /\ InPlace(req[h]) /\ Equipped(req[h]) /\ Grows
  BY FailOwn DEF FlowInv, OwnInv, HandlersOwn, BaseInv, ReqInv
<1>1. faults' = faults + 1
  BY <1>0, Whereabouts DEF Fail, At
<1>2. Lasting
  BY DEF Fail, Lasting, panelTable, multiTable
<1>3. BaseInv'
  BY FailStep
<1>4. ASSUME /\ Finish(h)
     PROVE  FlowInv'
  <2>1. /\ req'[h] = Idle /\ \A g \in Handlers \ {h} : req'[g] = req[g]
        /\ ~Creating(Idle) /\ Idle.at = "idle" /\ ~Due(Idle) /\ ~Made(Idle)
    BY <1>4, Finished DEF BaseInv, ReqInv, Creating, Due, Made, Idle
  <2>2. CreateInv'
    BY <1>0, <1>2, <2>1, CreateKept
  <2>3. RemoveInv'
    BY <1>0, <1>1, <1>2, <1>4, <2>1, RemoveKept
  <2>4. OlderInv'
    BY <1>0, <1>1, <1>2, <1>4, <2>1, OlderKept DEF Outdated
  <2>5. KeepInv'
    BY <1>1, Failed
  <2>6. QED
    BY <2>2, <2>3, <2>4, <2>5 DEF FlowInv
<1>5. QED
  BY <1>4, FailStep
LEMMA InitFlow == Init => FlowInv
<1> SUFFICES ASSUME Init PROVE FlowInv
  OBVIOUS
<1>1. PICK P, M, c, id : First(P, M, c, id)
  BY FirstState
<1>2. \A h \in Handlers : req[h].op = "idle" /\ req[h].at = "idle"
  BY DEF Init, Idle
<1>3. CreateInv /\ RemoveInv /\ OlderInv
  BY <1>2 DEF CreateInv, Creating, RemoveInv, OlderInv, Outdated
<1>4. ASSUME NEW o \in P \union M PROVE Newest(o)
  <2> DEFINE x == [id |-> id[o], chan |-> c, of |-> o, shows |-> IF o \in M THEN P ELSE {o}]
  <2>1. x \in live /\ x.of = o /\ x.id = id[o]
    BY <1>1 DEF First
  <2>2. \A i \in 1 .. Len(sentBy) : sentBy[i] = o => i <= id[o]
    BY <1>1 DEF First
  <2> HIDE DEF x
  <2>3. QED
    BY <2>1, <2>2 DEF Newest
<1>5. stored \union mstored = P \union M
  BY <1>1 DEF First
<1>6. KeepInv
  BY <1>2, <1>4, <1>5 DEF KeepInv, Made
<1>7. QED
  BY <1>3, <1>6 DEF FlowInv

LEMMA NewRequestFlow ==
    ASSUME BaseInv, OwnInv, FlowInv, NEW h \in Handlers, Starts(h)
    PROVE  FlowInv'
<1>1. /\ CreateInv /\ RemoveInv /\ OlderInv /\ KeepInv
      /\ Lasting /\ stored' = stored /\ mstored' = mstored /\ Grows
  BY StillOwn DEF FlowInv, OwnInv, Starts, Lasting, panelTable, multiTable
<1>2. /\ req[h].op = "idle" /\ req[h].at = "idle" /\ req'[h].at = "load"
      /\ \A g \in Handlers \ {h} : req'[g] = req[g]
  BY DEF Starts, Idle
<1>3. CreateInv'
  <2>1. ASSUME Creating(req'[h])
        PROVE  /\ req'[h].on \notin stored' \union mstored'
               /\ \A g \in Handlers : req[g].on # req'[h].on
    BY <1>1, <2>1 DEF Creating, Starts
  <2>2. ASSUME NEW f \in Handlers, Creating(req'[f])
        PROVE  /\ req'[f].on \notin stored' \union mstored'
               /\ \A g \in Handlers \ {f} : req'[g].on = req'[f].on =>
                    req'[g].at \in {"idle", "load"} /\ ~Creating(req'[g])
    <3>1. CASE f = h
      BY <1>2, <2>1, <2>2, <3>1
    <3>2. CASE f # h
      <4>1. req'[f] = req[f] /\ Creating(req[f])
        BY <1>2, <2>2, <3>2
      <4>2. ASSUME NEW g \in Handlers \ {f}, req'[g].on = req'[f].on
            PROVE  req'[g].at \in {"idle", "load"} /\ ~Creating(req'[g])
        <5>1. CASE g = h
          BY <1>2, <2>1, <4>1, <4>2, <5>1
        <5>2. CASE g # h
          BY <1>1, <1>2, <4>1, <4>2, <5>2 DEF CreateInv
        <5>3. QED
          BY <5>1, <5>2
      <4>3. QED
        BY <1>1, <4>1, <4>2 DEF CreateInv
    <3>3. QED
      BY <3>1, <3>2
  <2>3. QED
    BY <2>2 DEF CreateInv, Creating
<1>4. RemoveInv'
  BY <1>1, <1>2, RemoveKept
<1>5. OlderInv'
  BY <1>1, <1>2, OlderKept DEF Outdated
<1>6. KeepInv'
  <2>1. ~Due(req[h]) /\ ~Made(req'[h])
    BY <1>2 DEF Due, Made
  <2>2. \A o : Newest(o) => Newest(o)'
    BY NewestSame DEF Starts, discord
  <2>3. QED
    BY <1>1, <1>2, <2>1, <2>2, KeptIdle DEF Starts
<1>7. QED
  BY <1>3, <1>4, <1>5, <1>6 DEF FlowInv

LEMMA PanelStepFlow ==
    ASSUME BaseInv, OwnInv, FlowInv, NEW h \in Handlers, PanelStep(h)
    PROVE  FlowInv'
  BY LoadPanelFlow, CheckQuotaFlow, OldMessageFlow, OldMessageStaysFlow, SendPanelFlow,
     SendToMissingChannelFlow, RecordResentFlow, WriteEmbedFlow, CreateRowFlow,
     UpdateRowFlow, LoadMultisFlow, DeleteEmbedFlow, DeleteRowFlow, DeletePanelMessageFlow,
     NextMultiFlow, EditMultiFlow, SendMultiFlow, RecordMultiFlow, DeleteMultiFlow
     DEF PanelStep

LEMMA MultiStepFlow ==
    ASSUME BaseInv, OwnInv, FlowInv, NEW h \in Handlers, MultiStep(h)
    PROVE  FlowInv'
  BY LoadMultiFlow, OldMultiMessageFlow, OldMultiMessageStaysFlow, ListOwnFlow, SendOwnFlow,
     CreateMultiRowFlow, UpdateMultiRowFlow, RecordResentMultiFlow, DeleteMultiRowFlow,
     ClearTargetsFlow, InsertTargetFlow
     DEF MultiStep

LEMMA FlowStandsStill ==
    ASSUME FlowInv, UNCHANGED vars
    PROVE  FlowInv'
<1>1. CreateInv' /\ RemoveInv' /\ OlderInv'
  BY DEF FlowInv, CreateInv, Creating, RemoveInv, OlderInv, Outdated, vars, panelTable,
     multiTable, discord
<1>2. \A o : Newest(o) => Newest(o)'
  BY NewestSame DEF vars
<1>3. KeepInv'
  BY <1>2 DEF FlowInv, KeepInv, Due, Made, vars, panelTable, multiTable, book
<1>4. QED
  BY <1>1, <1>3 DEF FlowInv

LEMMA NextFlow ==
    ASSUME BaseInv, OwnInv, FlowInv, [Next]_vars
    PROVE  FlowInv'
<1>1. CASE UNCHANGED vars
  BY <1>1, FlowStandsStill
<1>2. ASSUME NEW h \in Handlers, NewRequest(h) PROVE FlowInv'
  BY <1>2, NewRequestStep, NewRequestFlow
<1>3. ASSUME NEW h \in Handlers, PanelStep(h) PROVE FlowInv'
  BY <1>3, PanelStepFlow
<1>4. ASSUME NEW h \in Handlers, MultiStep(h) PROVE FlowInv'
  BY <1>4, MultiStepFlow
<1>5. ASSUME NEW h \in Handlers, Fail(h) PROVE FlowInv'
  BY <1>5, FailFlow
<1>6. QED
  BY <1>1, <1>2, <1>3, <1>4, <1>5 DEF Next

\* However requests overlap, as long as none fails every stored object that is
\* left alone keeps a message: its newest one is never deleted without another
\* one to follow.
THEOREM StoredObjectsKeepAMessage == Spec => []KeepsAMessage
<1>1. Init => BaseInv /\ OwnInv /\ FlowInv
  BY InitBase, InitOwn, InitFlow
<1>2. BaseInv /\ OwnInv /\ FlowInv /\ [Next]_vars => (BaseInv /\ OwnInv /\ FlowInv)'
  BY NextBase, NextFlow
<1>3. FlowInv => KeepsAMessage
  <2> SUFFICES ASSUME FlowInv, faults = 0, NEW o \in stored \union mstored, ~Busy(o)
               PROVE  Own(o) # {}
    BY DEF KeepsAMessage
  <2>1. ASSUME NEW h \in Handlers, req[h].on = o PROVE ~Due(req[h])
    BY <2>1 DEF Busy, Touches, Due
  <2>2. Newest(o)
    BY <2>1 DEF FlowInv, KeepInv
  <2>3. QED
    BY <2>2 DEF Newest, Own
<1>4. QED
  BY <1>1, <1>2, <1>3, PTL DEF Spec

----
(***************************************************************************)
(* What requests leave behind that neither overlap nor fail: the rows and  *)
(* the messages of Discord agree.                                          *)
(***************************************************************************)

(* A step of one handler, and everybody else. *)

Follows(h) ==
    /\ req[h].op # "idle" /\ raced' = raced
    /\ \A g \in Handlers \ {h} : req'[g] = req[g]
    /\ req'[h] = Idle \/ (req'[h].op = req[h].op /\ req'[h].on = req[h].on)

SamePanel(p) == Own(p)' = Own(p) /\ row'[p] = row[p] /\ (p \in stored' <=> p \in stored)

SameMulti(m) ==
    /\ Own(m)' = Own(m) /\ (m \in mstored' <=> m \in mstored)
    /\ mrow'[m] = mrow[m] /\ targets'[m] = targets[m]

LEMMA IdleTouches == Touches(Idle) = {} /\ Idle.op = "idle"
  BY DEF Touches, Idle

LEMMA TouchesOn ==
    ASSUME NEW h, NEW o, On(h, o)
    PROVE  Touched(h, o)
  BY DEF On, Touched, Touches

LEMMA AloneFollows ==
    ASSUME Alone, NEW h \in Handlers, Follows(h)
    PROVE  Alone'
<1>1. Touches(req'[h]) \subseteq Touches(req[h])
  BY IdleTouches DEF Follows, Touches
<1>2. ASSUME NEW f \in Handlers, NEW g \in Handlers, f # g
      PROVE  Touches(req'[f]) \intersect Touches(req'[g]) \subseteq raced'
  <2>1. Touches(req'[f]) \subseteq Touches(req[f]) /\ Touches(req'[g]) \subseteq Touches(req[g])
    BY <1>1 DEF Follows
  <2>2. QED
    BY <1>2, <2>1 DEF Alone, Follows
<1>3. QED
  BY <1>2 DEF Alone, Touches

LEMMA PanelsFollow ==
    ASSUME Alone, PanelsInv, NEW h \in Handlers, Follows(h), faults' = faults,
           \A p \in Panels : ~On(h, p) => SamePanel(p),
           \A p \in Panels \ raced : On(h, p) /\ PanelStage(req[h], p) =>
             IF req'[h] = Idle THEN PanelRests(p)' ELSE PanelStage(req[h], p)'
    PROVE  PanelsInv'
<1> SUFFICES ASSUME faults = 0, NEW p \in Panels \ raced
             PROVE  /\ (\A g \in Handlers : ~On(g, p)') => PanelRests(p)'
                    /\ \A g \in Handlers : On(g, p)' => PanelStage(req[g], p)'
  BY DEF PanelsInv, Follows
<1>1. \A g \in Handlers \ {h} : On(g, p)' <=> On(g, p)
  BY DEF Follows, On
<1>2. On(h, p)' <=> On(h, p) /\ req'[h] # Idle
  BY IdleTouches DEF Follows, On
<1>3. CASE On(h, p)
  <2>1. PanelStage(req[h], p)
    BY <1>3 DEF PanelsInv
  <2>2. IF req'[h] = Idle THEN PanelRests(p)' ELSE PanelStage(req[h], p)'
    BY <1>3, <2>1
  <2>3. \A g \in Handlers \ {h} : ~On(g, p)
    BY <1>3, TouchesOn DEF Alone, Touched
  <2>4. QED
    BY <1>1, <1>2, <1>3, <2>2, <2>3
<1>4. CASE ~On(h, p)
  <2>1. SamePanel(p)
    BY <1>4
  <2>2. (\A g \in Handlers : ~On(g, p)') => PanelRests(p)'
    <3>1. (\A g \in Handlers : ~On(g, p)') => PanelRests(p)
      BY <1>1, <1>4 DEF PanelsInv
    <3>2. QED
      BY <2>1, <3>1 DEF SamePanel, PanelRests
  <2>3. ASSUME NEW g \in Handlers, On(g, p)' PROVE PanelStage(req[g], p)'
    <3>1. g # h /\ req'[g] = req[g] /\ On(g, p)
      BY <1>1, <1>2, <1>4, <2>3 DEF Follows
    <3>2. PanelStage(req[g], p)
      BY <3>1 DEF PanelsInv
    <3>3. QED
      BY <2>1, <3>1, <3>2 DEF SamePanel, PanelStage, PanelRests, Untouched
  <2>4. QED
    BY <2>2, <2>3
<1>5. QED
  BY <1>3, <1>4

LEMMA MultisFollow ==
    ASSUME Alone, MultisInv, NEW h \in Handlers, Follows(h), faults' = faults,
           \A m \in Multis : ~Touched(h, m) => SameMulti(m) /\ stored \subseteq stored',
           Few => \A m \in Multis \ raced : Touched(h, m) /\ MultiStage(req[h], m) =>
             IF req'[h] = Idle THEN MultiRests(m)' ELSE MultiStage(req[h], m)'
    PROVE  MultisInv'
<1> SUFFICES ASSUME faults = 0, Few, NEW m \in Multis \ raced
             PROVE  /\ (\A g \in Handlers : ~Touched(g, m)') => MultiRests(m)'
                    /\ \A g \in Handlers : Touched(g, m)' => MultiStage(req[g], m)'
  BY DEF MultisInv, Follows, Few
<1>1. \A g \in Handlers \ {h} : Touched(g, m)' <=> Touched(g, m)
  BY DEF Follows, Touched
<1>2. Touched(h, m)' <=> Touched(h, m) /\ req'[h] # Idle
  <2>1. CASE req'[h] = Idle
    BY <2>1, IdleTouches DEF Touched
  <2>2. CASE req'[h].op = req[h].op /\ req'[h].on = req[h].on
    <3>1. req'[h] # Idle
      BY <2>2, IdleTouches DEF Follows
    <3>2. QED
      BY <2>2, <3>1 DEF Touched, Touches
  <2>3. QED
    BY <2>1, <2>2 DEF Follows
<1>3. CASE Touched(h, m)
  <2>1. MultiStage(req[h], m)
    BY <1>3 DEF MultisInv
  <2>2. IF req'[h] = Idle THEN MultiRests(m)' ELSE MultiStage(req[h], m)'
    BY <1>3, <2>1
  <2>3. \A g \in Handlers \ {h} : ~Touched(g, m)
    BY <1>3 DEF Alone, Touched
  <2>4. QED
    BY <1>1, <1>2, <1>3, <2>2, <2>3
<1>4. CASE ~Touched(h, m)
  <2>1. SameMulti(m) /\ stored \subseteq stored'
    BY <1>4
  <2>2. (\A g \in Handlers : ~Touched(g, m)') => MultiRests(m)'
    <3>1. (\A g \in Handlers : ~Touched(g, m)') => MultiRests(m)
      BY <1>1, <1>4 DEF MultisInv
    <3>2. QED
      BY <2>1, <3>1 DEF SameMulti, MultiRests, MultiMsg
  <2>3. ASSUME NEW g \in Handlers, Touched(g, m)' PROVE MultiStage(req[g], m)'
    <3>1. g # h /\ req'[g] = req[g] /\ Touched(g, m)
      BY <1>1, <1>2, <1>4, <2>3 DEF Follows
    <3>2. MultiStage(req[g], m)
      BY <3>1 DEF MultisInv
    <3>3. LoopStage(req[g], m) => LoopStage(req[g], m)'
      BY <2>1, <3>1 DEF SameMulti, LoopStage, MultiRests, MultiMsg, InLoop, Turn, Late
    <3>4. OwnStage(req[g], m) => OwnStage(req[g], m)'
      BY <2>1, <3>1 DEF SameMulti, OwnStage, MultiRests, MultiMsg
    <3>5. QED
      BY <3>1, <3>2, <3>3, <3>4 DEF MultiStage
  <2>4. QED
    BY <2>2, <2>3
<1>5. QED
  BY <1>3, <1>4

\* Messages that are sent, edited and deleted.
LEMMA OwnSame ==
    ASSUME UNCHANGED discord
    PROVE  \A o : Own(o)' = Own(o)
  BY DEF Own, discord

LEMMA OwnSent ==
    ASSUME NEW id, NEW c, NEW o, NEW S, live' = live \union {Msg(id, c, o, S)}
    PROVE  Own(o)' = Own(o) \union {Msg(id, c, o, S)} /\ \A q : q # o => Own(q)' = Own(q)
  BY DEF Own, Msg

LEMMA OwnDeleted ==
    ASSUME LiveOwn, NEW id, NEW o, NEW c, Of(id, o), DeleteMessage(c, id)
    PROVE  /\ \A q : q # o => Own(q)' = Own(q)
           /\ Own(o)' = {x \in Own(o) : ~(x.chan = c /\ x.id = id)}
<1>1. \A x \in live : x.id = id => x.of = o
  BY DEF LiveOwn, Of
<1>2. live' = {x \in live : ~(x.chan = c /\ x.id = id)}
  BY DEF DeleteMessage
<1>3. QED
  BY <1>1, <1>2 DEF Own

LEMMA OwnEdited ==
    ASSUME BaseInv, LiveOwn, NEW id, NEW o, NEW c, NEW S, Of(id, o), EditMessage(c, id, S)
    PROVE  /\ \A q : q # o => Own(q)' = Own(q)
           /\ \A T : Own(o) = {Msg(id, c, o, T)} => Own(o)' = {Msg(id, c, o, S)}
<1> DEFINE Edited(x) == IF x.chan = c /\ x.id = id THEN With(x, [shows |-> S]) ELSE x
<1>1. \A x \in live : x.id = id => x.of = o
  BY DEF LiveOwn, Of
<1>2. live' = {Edited(x) : x \in live}
  BY DEF EditMessage
<1>3. \A x \in Message : With(x, [shows |-> S]) = Msg(x.id, x.chan, x.of, S)
  BY DEF With, Message, Msg
<1>4. \A x \in live : Edited(x).of = x.of
  <2>1. \A x \in Message : Msg(x.id, x.chan, x.of, S).of = x.of
    BY DEF Msg
  <2>2. live \subseteq Message
    BY DEF BaseInv, DiscordOK
  <2>3. \A x \in live : Edited(x) = x \/ Edited(x) = Msg(x.id, x.chan, x.of, S)
    BY <1>3, <2>2
  <2>4. QED
    BY <2>1, <2>2, <2>3
<1>5. \A x \in live : x.of # o => Edited(x) = x
  BY <1>1
<1>6. \A T : Edited(Msg(id, c, o, T)) = With(Msg(id, c, o, T), [shows |-> S])
  BY DEF Msg
<1> HIDE DEF Edited
<1>7. \A q : q # o => Own(q)' = Own(q)
  BY <1>2, <1>4, <1>5 DEF Own
<1>8. ASSUME NEW T, Own(o) = {Msg(id, c, o, T)} PROVE Own(o)' = {Msg(id, c, o, S)}
  <2>1. Msg(id, c, o, T) \in live
    BY <1>8 DEF Own
  <2>2. Msg(id, c, o, T) \in Message
    BY <2>1 DEF BaseInv, DiscordOK
  <2>3. Edited(Msg(id, c, o, T)) = Msg(id, c, o, S)
    BY <1>3, <1>6, <2>2 DEF Msg
  <2>4. Own(o)' = {Edited(x) : x \in Own(o)}
    BY <1>2, <1>4 DEF Own
  <2>5. QED
    BY <1>8, <2>3, <2>4
<1>9. QED
  BY <1>7, <1>8

LEMMA TheOnlyOne ==
    ASSUME NEW id, NEW c, NEW o, NEW S
    PROVE  /\ {x \in {Msg(id, c, o, S)} : ~(x.chan = c /\ x.id = id)} = {}
           /\ \A j, T : j # id => {x \in {Msg(id, c, o, S), Msg(j, c, o, T)} : ~(x.chan = c /\ x.id = id)}
                                    = {Msg(j, c, o, T)}
  BY DEF Msg

LEMMA OwnIsLive ==
    ASSUME NEW id, NEW c, NEW o, NEW S, Own(o) = {Msg(id, c, o, S)}
    PROVE  IsLive(c, id)
<1>1. Msg(id, c, o, S) \in live
  BY DEF Own
<1>2. Msg(id, c, o, S).chan = c /\ Msg(id, c, o, S).id = id
  BY DEF Msg
<1>3. QED
  BY <1>1, <1>2 DEF IsLive

LEMMA Faulty ==
    ASSUME BaseInv, faults' = faults + 1
    PROVE  PanelsInv' /\ MultisInv'
  BY DEF BaseInv, BookOK, PanelsInv, MultisInv

LEMMA FinishFollows ==
    ASSUME req \in [Handlers -> Reqs], NEW h \in Handlers, Finish(h), req[h].op # "idle", raced' = raced
    PROVE  req'[h] = Idle /\ Follows(h)
  BY Finished DEF Follows

LEMMA ChangedFollows ==
    ASSUME NEW F, "op" \notin F, "on" \notin F, NEW h \in Handlers, Changed(h, F),
           req[h].op # "idle", raced' = raced
    PROVE  Follows(h) /\ req'[h] # Idle
<1>1. req'[h].op = req[h].op /\ req'[h].on = req[h].on
  BY DEF Changed, Fields
<1>2. QED
  BY <1>1, IdleTouches DEF Follows, Changed

LEMMA LoadsAll ==
    ASSUME Few, MultisOK, NEW r, NEW T, Loads(r, T)
    PROVE  T = {m \in mstored : r.on \in targets[m]}
<1> DEFINE M == {m \in mstored : r.on \in targets[m]}
<1>1. M \subseteq Multis
  BY DEF MultisOK
<1>2. IsFiniteSet(M) /\ Cardinality(M) <= Cardinality(Multis)
  BY <1>1, FS_Subset, PanelMessagesAssumption
<1>3. Cardinality(M) \in Nat /\ Cardinality(Multis) \in Nat /\ MultiLimit \in Nat
  BY <1>2, FS_CardinalityType, PanelMessagesAssumption
<1>4. T \subseteq M /\ Cardinality(T) = Cardinality(M)
  BY <1>2, <1>3 DEF Loads, Few
<1>5. QED
  BY <1>2, <1>4, FS_Subset

LEMMA LoadPanelSettles ==
    ASSUME BaseInv, OwnInv, SettleInv, NEW h \in Handlers, LoadPanel(h)
    PROVE  Alone' /\ PanelsInv' /\ MultisInv'
<1>1. /\ Alone /\ PanelsInv /\ MultisInv /\ LiveOwn /\ RowsOwn /\ HandlerOwn(req[h])
      /\ req \in [Handlers -> Reqs] /\ req[h] \in Reqs /\ InPlace(req[h]) /\ Equipped(req[h])
      /\ PanelsOK /\ MultisOK /\ BookOK
  BY DEF SettleInv, OwnInv, HandlersOwn, BaseInv, ReqInv
<1>2. /\ req[h].at = "load" /\ req[h].op \in {"UpdatePanel", "ResendPanel", "DeletePanel"}
      /\ req[h].on \in Panels
  BY <1>1, Whereabouts DEF LoadPanel, At, InPlace, PanelOps, MultiOps
<1>3. raced' = raced
  BY DEF LoadPanel, book
<1>4. ASSUME /\ req[h].on \notin stored /\ Finish(h)
     PROVE  Alone' /\ PanelsInv' /\ MultisInv'
  <2>1. req'[h] = Idle /\ Follows(h)
    BY <1>1, <1>2, <1>3, <1>4, FinishFollows
  <2>2. faults' = faults
    BY <1>1, <1>4 DEF LoadPanel, book
  <2>3. \A o : Own(o)' = Own(o)
    BY <1>4, OwnSame DEF LoadPanel
  <2>4. \A p \in Panels : ~On(h, p) => SamePanel(p)
    BY <1>1, <1>2, <1>4, <2>3, PanelMessagesAssumption DEF On, SamePanel, LoadPanel, panelTable,
       PanelsOK, PanelOps, MultiOps
  <2>5. ASSUME NEW p \in Panels \ raced, On(h, p), PanelStage(req[h], p)
        PROVE  PanelRests(p)'
    BY <1>2, <1>4, <2>1, <2>3, <2>5, PanelMessagesAssumption DEF On, PanelStage, PanelRests,
       Untouched, LoadPanel, panelTable
  <2>6. \A m \in Multis : ~Touched(h, m) => SameMulti(m) /\ stored \subseteq stored'
    BY <1>1, <1>2, <1>4, <2>3, PanelMessagesAssumption DEF Touched, Touches, SameMulti, LoadPanel,
       multiTable, panelTable, MultisOK
  <2>7. ASSUME Few, NEW m \in Multis \ raced, Touched(h, m), MultiStage(req[h], m)
        PROVE  MultiRests(m)'
    BY <1>2, <1>4, <2>1, <2>3, <2>7, PanelMessagesAssumption DEF Touched, Touches, MultiStage,
       PanelOps, MultiOps, LoopStage, InLoop, Turn, Late, MultiRests, MultiMsg, LoadPanel,
       multiTable, panelTable
  <2>8. QED
    BY <1>1, <2>1, <2>2, <2>4, <2>5, <2>6, <2>7, AloneFollows, PanelsFollow, MultisFollow
<1>5. ASSUME /\ req[h].on \in stored /\ Changed(h, {"old", "at"})
             /\ req'[h].old = row[req[h].on]
             /\ req'[h].at = (IF req[h].op = "DeletePanel" THEN "multis" ELSE "old")
     PROVE  Alone' /\ PanelsInv' /\ MultisInv'
  <2>1. /\ req'[h].op = req[h].op /\ req'[h].on = req[h].on /\ req'[h].chan = req[h].chan
        /\ req'[h].panels = req[h].panels /\ req'[h].mold = req[h].mold
        /\ req'[h].msg = req[h].msg /\ req'[h].embed = req[h].embed
        /\ req'[h].todo = req[h].todo /\ req'[h].list = req[h].list
        /\ req'[h].old = row[req[h].on]
        /\ req'[h].at = (IF req[h].op = "DeletePanel" THEN "multis" ELSE "old")
    BY <1>5 DEF Changed, Fields
  <2>2. Follows(h) /\ req'[h] # Idle
    BY <1>1, <1>2, <1>3, <1>5, ChangedFollows
  <2>3. faults' = faults
    BY <1>1, <1>5 DEF LoadPanel, book
  <2>4. \A o : Own(o)' = Own(o)
    BY <1>5, OwnSame DEF LoadPanel
  <2>5. \A p \in Panels : ~On(h, p) => SamePanel(p)
    BY <1>1, <1>2, <1>5, <2>4, PanelMessagesAssumption DEF On, SamePanel, LoadPanel, panelTable,
       PanelsOK, PanelOps, MultiOps
  <2>6. ASSUME NEW p \in Panels \ raced, On(h, p), PanelStage(req[h], p)
        PROVE  PanelStage(req[h], p)'
    BY <1>2, <1>5, <2>1, <2>4, <2>6, PanelMessagesAssumption DEF On, PanelStage, PanelRests,
       Untouched, LoadPanel, panelTable
  <2>7. \A m \in Multis : ~Touched(h, m) => SameMulti(m) /\ stored \subseteq stored'
    BY <1>1, <1>2, <1>5, <2>4, PanelMessagesAssumption DEF Touched, Touches, SameMulti, LoadPanel,
       multiTable, panelTable, MultisOK
  <2>8. ASSUME Few, NEW m \in Multis \ raced, Touched(h, m), MultiStage(req[h], m)
        PROVE  MultiStage(req[h], m)'
    BY <1>2, <1>5, <2>1, <2>4, <2>8, PanelMessagesAssumption DEF Touched, Touches, MultiStage,
       PanelOps, MultiOps, LoopStage, InLoop, Turn, Late, MultiRests, MultiMsg, LoadPanel,
       multiTable, panelTable
  <2>9. QED
    BY <1>1, <2>1, <2>2, <2>3, <2>5, <2>6, <2>7, <2>8, AloneFollows, PanelsFollow, MultisFollow
<1>6. QED
  BY <1>4, <1>5, LoadPanelStep

LEMMA CheckQuotaSettles ==
    ASSUME BaseInv, OwnInv, SettleInv, NEW h \in Handlers, CheckQuota(h)
    PROVE  Alone' /\ PanelsInv' /\ MultisInv'
<1>1. /\ Alone /\ PanelsInv /\ MultisInv /\ LiveOwn /\ RowsOwn /\ HandlerOwn(req[h])
      /\ req \in [Handlers -> Reqs] /\ req[h] \in Reqs /\ InPlace(req[h]) /\ Equipped(req[h])
      /\ PanelsOK /\ MultisOK /\ BookOK
  BY DEF SettleInv, OwnInv, HandlersOwn, BaseInv, ReqInv
<1>2. /\ req[h].at = "load" /\ req[h].op = "CreatePanel" /\ req[h].on \in Panels
  BY <1>1, Whereabouts DEF CheckQuota, At, InPlace, PanelOps, MultiOps
<1>3. raced' = raced
  BY DEF CheckQuota, book
<1>4. ASSUME /\ Finish(h)
     PROVE  Alone' /\ PanelsInv' /\ MultisInv'
  <2>1. req'[h] = Idle /\ Follows(h)
    BY <1>1, <1>2, <1>3, <1>4, FinishFollows
  <2>2. faults' = faults
    BY <1>1, <1>4 DEF CheckQuota, book
  <2>3. \A o : Own(o)' = Own(o)
    BY <1>4, OwnSame DEF CheckQuota
  <2>4. \A p \in Panels : ~On(h, p) => SamePanel(p)
    BY <1>1, <1>2, <1>4, <2>3, PanelMessagesAssumption DEF On, SamePanel, CheckQuota, panelTable,
       PanelsOK, PanelOps, MultiOps
  <2>5. ASSUME NEW p \in Panels \ raced, On(h, p), PanelStage(req[h], p)
        PROVE  PanelRests(p)'
    BY <1>2, <1>4, <2>1, <2>3, <2>5, PanelMessagesAssumption DEF On, PanelStage, PanelRests,
       Untouched, CheckQuota, panelTable
  <2>6. \A m \in Multis : ~Touched(h, m) => SameMulti(m) /\ stored \subseteq stored'
    BY <1>1, <1>2, <1>4, <2>3, PanelMessagesAssumption DEF Touched, Touches, SameMulti,
       CheckQuota, multiTable, panelTable, MultisOK
  <2>7. ASSUME Few, NEW m \in Multis \ raced, Touched(h, m), MultiStage(req[h], m)
        PROVE  MultiRests(m)'
    BY <1>2, <2>7, PanelMessagesAssumption DEF Touched, Touches
  <2>8. QED
    BY <1>1, <2>1, <2>2, <2>4, <2>5, <2>6, <2>7, AloneFollows, PanelsFollow, MultisFollow
<1>5. ASSUME /\ Changed(h, {"at"}) /\ req'[h].at = "send"
     PROVE  Alone' /\ PanelsInv' /\ MultisInv'
  <2>1. /\ req'[h].op = req[h].op /\ req'[h].on = req[h].on /\ req'[h].chan = req[h].chan
        /\ req'[h].panels = req[h].panels /\ req'[h].old = req[h].old
        /\ req'[h].mold = req[h].mold /\ req'[h].msg = req[h].msg
        /\ req'[h].embed = req[h].embed /\ req'[h].todo = req[h].todo
        /\ req'[h].list = req[h].list /\ req'[h].at = "send"
    BY <1>5 DEF Changed, Fields
  <2>2. Follows(h) /\ req'[h] # Idle
    BY <1>1, <1>2, <1>3, <1>5, ChangedFollows
  <2>3. faults' = faults
    BY <1>1, <1>5 DEF CheckQuota, book
  <2>4. \A o : Own(o)' = Own(o)
    BY <1>5, OwnSame DEF CheckQuota
  <2>5. \A p \in Panels : ~On(h, p) => SamePanel(p)
    BY <1>1, <1>2, <1>5, <2>4, PanelMessagesAssumption DEF On, SamePanel, CheckQuota, panelTable,
       PanelsOK, PanelOps, MultiOps
  <2>6. ASSUME NEW p \in Panels \ raced, On(h, p), PanelStage(req[h], p)
        PROVE  PanelStage(req[h], p)'
    BY <1>2, <1>5, <2>1, <2>4, <2>6, PanelMessagesAssumption DEF On, PanelStage, PanelRests,
       Untouched, CheckQuota, panelTable
  <2>7. \A m \in Multis : ~Touched(h, m) => SameMulti(m) /\ stored \subseteq stored'
    BY <1>1, <1>2, <1>5, <2>4, PanelMessagesAssumption DEF Touched, Touches, SameMulti,
       CheckQuota, multiTable, panelTable, MultisOK
  <2>8. ASSUME Few, NEW m \in Multis \ raced, Touched(h, m), MultiStage(req[h], m)
        PROVE  MultiStage(req[h], m)'
    BY <1>2, <2>8, PanelMessagesAssumption DEF Touched, Touches
  <2>9. QED
    BY <1>1, <2>1, <2>2, <2>3, <2>5, <2>6, <2>7, <2>8, AloneFollows, PanelsFollow, MultisFollow
<1>6. QED
  BY <1>4, <1>5, CheckQuotaStep

LEMMA OldMessageSettles ==
    ASSUME BaseInv, OwnInv, SettleInv, NEW h \in Handlers, OldMessage(h)
    PROVE  Alone' /\ PanelsInv' /\ MultisInv'
<1>1. /\ Alone /\ PanelsInv /\ MultisInv /\ LiveOwn /\ RowsOwn /\ HandlerOwn(req[h])
      /\ req \in [Handlers -> Reqs] /\ req[h] \in Reqs /\ InPlace(req[h]) /\ Equipped(req[h])
      /\ PanelsOK /\ MultisOK /\ BookOK
  BY DEF SettleInv, OwnInv, HandlersOwn, BaseInv, ReqInv
<1>2. /\ req[h].at = "old" /\ req[h].op \in {"UpdatePanel", "ResendPanel"}
      /\ req[h].on \in Panels
  BY <1>1, Whereabouts DEF OldMessage, At, InPlace, PanelOps, MultiOps
<1>3. raced' = raced
  BY DEF OldMessage, book
<1>4. ASSUME /\ (req[h].op = "ResendPanel" \/ req[h].old.chan # req[h].chan)
             /\ DeleteMessage(req[h].old.chan, req[h].old.msg) /\ Changed(h, {"at"})
             /\ req'[h].at = "send"
     PROVE  Alone' /\ PanelsInv' /\ MultisInv'
  <2>1. /\ req'[h].op = req[h].op /\ req'[h].on = req[h].on /\ req'[h].chan = req[h].chan
        /\ req'[h].panels = req[h].panels /\ req'[h].old = req[h].old
        /\ req'[h].mold = req[h].mold /\ req'[h].msg = req[h].msg
        /\ req'[h].embed = req[h].embed /\ req'[h].todo = req[h].todo
        /\ req'[h].list = req[h].list /\ req'[h].at = "send"
    BY <1>4 DEF Changed, Fields
  <2>2. Follows(h) /\ req'[h] # Idle
    BY <1>1, <1>2, <1>3, <1>4, ChangedFollows
  <2>3. faults' = faults
    BY <1>1, <1>4 DEF OldMessage, book
  <2>4. /\ \A q : q # req[h].on => Own(q)' = Own(q)
        /\ \A q, S : q = req[h].on /\ Own(q) = {Msg(req[h].old.msg, req[h].old.chan, q, S)} => Own(q)' = {}
    <3>1. ASSUME NEW q, q = req[h].on
          PROVE  /\ \A o : o # q => Own(o)' = Own(o)
                 /\ \A S : Own(q) = {Msg(req[h].old.msg, req[h].old.chan, q, S)} => Own(q)' = {}
      <4>1. Of(req[h].old.msg, q)
        BY <1>1, <1>2, <3>1 DEF HandlerOwn, PanelOps
      <4>2. DeleteMessage(req[h].old.chan, req[h].old.msg)
        BY <1>4 DEF OldMessage
      <4>3. QED
        BY <1>1, <4>1, <4>2, OwnDeleted, TheOnlyOne
    <3>2. QED
      BY <3>1
  <2>5. \A p \in Panels : ~On(h, p) => SamePanel(p)
    BY <1>1, <1>2, <1>4, <2>4, PanelMessagesAssumption DEF On, SamePanel, OldMessage, panelTable,
       PanelsOK, PanelOps, MultiOps
  <2>6. ASSUME NEW p \in Panels \ raced, On(h, p), PanelStage(req[h], p)
        PROVE  PanelStage(req[h], p)'
    BY <1>2, <1>4, <2>1, <2>4, <2>6, PanelMessagesAssumption DEF On, PanelStage, PanelRests,
       Untouched, OldMessage, panelTable
  <2>7. \A m \in Multis : ~Touched(h, m) => SameMulti(m) /\ stored \subseteq stored'
    BY <1>1, <1>2, <1>4, <2>4, PanelMessagesAssumption DEF Touched, Touches, SameMulti,
       OldMessage, multiTable, panelTable, MultisOK
  <2>8. ASSUME Few, NEW m \in Multis \ raced, Touched(h, m), MultiStage(req[h], m)
        PROVE  MultiStage(req[h], m)'
    BY <1>2, <1>4, <2>1, <2>4, <2>8, PanelMessagesAssumption DEF Touched, Touches, MultiStage,
       PanelOps, MultiOps, LoopStage, InLoop, Turn, Late, MultiRests, MultiMsg, OldMessage,
       multiTable, panelTable
  <2>9. QED
    BY <1>1, <2>1, <2>2, <2>3, <2>5, <2>6, <2>7, <2>8, AloneFollows, PanelsFollow, MultisFollow
<1>5. ASSUME /\ req[h].op = "UpdatePanel" /\ req[h].old.chan = req[h].chan
             /\ IsLive(req[h].old.chan, req[h].old.msg) /\ UNCHANGED discord
             /\ Changed(h, {"msg", "at"}) /\ req'[h].msg = req[h].old.msg
             /\ req'[h].at = "embed"
     PROVE  Alone' /\ PanelsInv' /\ MultisInv'
  <2>1. /\ req'[h].op = req[h].op /\ req'[h].on = req[h].on /\ req'[h].chan = req[h].chan
        /\ req'[h].panels = req[h].panels /\ req'[h].old = req[h].old
        /\ req'[h].mold = req[h].mold /\ req'[h].embed = req[h].embed
        /\ req'[h].todo = req[h].todo /\ req'[h].list = req[h].list
        /\ req'[h].msg = req[h].old.msg /\ req'[h].at = "embed"
    BY <1>5 DEF Changed, Fields
  <2>2. Follows(h) /\ req'[h] # Idle
    BY <1>1, <1>2, <1>3, <1>5, ChangedFollows
  <2>3. faults' = faults
    BY <1>1, <1>5 DEF OldMessage, book
  <2>4. \A o : Own(o)' = Own(o)
    BY <1>5, OwnSame DEF OldMessage
  <2>5. \A p \in Panels : ~On(h, p) => SamePanel(p)
    BY <1>1, <1>2, <1>5, <2>4, PanelMessagesAssumption DEF On, SamePanel, OldMessage, panelTable,
       PanelsOK, PanelOps, MultiOps
  <2>6. ASSUME NEW p \in Panels \ raced, On(h, p), PanelStage(req[h], p)
        PROVE  PanelStage(req[h], p)'
    BY <1>2, <1>5, <2>1, <2>4, <2>6, PanelMessagesAssumption DEF On, PanelStage, PanelRests,
       Untouched, OldMessage, panelTable
  <2>7. \A m \in Multis : ~Touched(h, m) => SameMulti(m) /\ stored \subseteq stored'
    BY <1>1, <1>2, <1>5, <2>4, PanelMessagesAssumption DEF Touched, Touches, SameMulti,
       OldMessage, multiTable, panelTable, MultisOK
  <2>8. ASSUME Few, NEW m \in Multis \ raced, Touched(h, m), MultiStage(req[h], m)
        PROVE  MultiStage(req[h], m)'
    BY <1>2, <1>5, <2>1, <2>4, <2>8, PanelMessagesAssumption DEF Touched, Touches, MultiStage,
       PanelOps, MultiOps, LoopStage, InLoop, Turn, Late, MultiRests, MultiMsg, OldMessage,
       multiTable, panelTable
  <2>9. QED
    BY <1>1, <2>1, <2>2, <2>3, <2>5, <2>6, <2>7, <2>8, AloneFollows, PanelsFollow, MultisFollow
<1>6. ASSUME /\ req[h].op = "UpdatePanel" /\ req[h].old.chan = req[h].chan
             /\ ~IsLive(req[h].old.chan, req[h].old.msg) /\ UNCHANGED discord
             /\ Changed(h, {"at"}) /\ req'[h].at = "send"
     PROVE  Alone' /\ PanelsInv' /\ MultisInv'
  <2>1. /\ req'[h].op = req[h].op /\ req'[h].on = req[h].on /\ req'[h].chan = req[h].chan
        /\ req'[h].panels = req[h].panels /\ req'[h].old = req[h].old
        /\ req'[h].mold = req[h].mold /\ req'[h].msg = req[h].msg
        /\ req'[h].embed = req[h].embed /\ req'[h].todo = req[h].todo
        /\ req'[h].list = req[h].list /\ req'[h].at = "send"
    BY <1>6 DEF Changed, Fields
  <2>2. Follows(h) /\ req'[h] # Idle
    BY <1>1, <1>2, <1>3, <1>6, ChangedFollows
  <2>3. faults' = faults
    BY <1>1, <1>6 DEF OldMessage, book
  <2>4. \A o : Own(o)' = Own(o)
    BY <1>6, OwnSame DEF OldMessage
  <2>5. \A p \in Panels : ~On(h, p) => SamePanel(p)
    BY <1>1, <1>2, <1>6, <2>4, PanelMessagesAssumption DEF On, SamePanel, OldMessage, panelTable,
       PanelsOK, PanelOps, MultiOps
  <2>6. ASSUME NEW p \in Panels \ raced, On(h, p), PanelStage(req[h], p)
        PROVE  PanelStage(req[h], p)'
    <3>1. Own(p) = {Msg(req[h].old.msg, req[h].old.chan, p, {p})}
      BY <1>2, <2>6 DEF On, PanelStage, PanelRests, Untouched
    <3>2. QED
      BY <3>1, <1>6, OwnIsLive
  <2>7. \A m \in Multis : ~Touched(h, m) => SameMulti(m) /\ stored \subseteq stored'
    BY <1>1, <1>2, <1>6, <2>4, PanelMessagesAssumption DEF Touched, Touches, SameMulti,
       OldMessage, multiTable, panelTable, MultisOK
  <2>8. ASSUME Few, NEW m \in Multis \ raced, Touched(h, m), MultiStage(req[h], m)
        PROVE  MultiStage(req[h], m)'
    BY <1>2, <1>6, <2>1, <2>4, <2>8, PanelMessagesAssumption DEF Touched, Touches, MultiStage,
       PanelOps, MultiOps, LoopStage, InLoop, Turn, Late, MultiRests, MultiMsg, OldMessage,
       multiTable, panelTable
  <2>9. QED
    BY <1>1, <2>1, <2>2, <2>3, <2>5, <2>6, <2>7, <2>8, AloneFollows, PanelsFollow, MultisFollow
<1>7. QED
  BY <1>4, <1>5, <1>6, OldMessageStep

LEMMA DeletePanelMessageSettles ==
    ASSUME BaseInv, OwnInv, SettleInv, NEW h \in Handlers, DeletePanelMessage(h)
    PROVE  Alone' /\ PanelsInv' /\ MultisInv'
<1>1. /\ Alone /\ PanelsInv /\ MultisInv /\ LiveOwn /\ RowsOwn /\ HandlerOwn(req[h])
      /\ req \in [Handlers -> Reqs] /\ req[h] \in Reqs /\ InPlace(req[h]) /\ Equipped(req[h])
      /\ PanelsOK /\ MultisOK /\ BookOK
  BY DEF SettleInv, OwnInv, HandlersOwn, BaseInv, ReqInv
<1>2. /\ req[h].at = "deleteMessage" /\ req[h].op = "DeletePanel" /\ req[h].on \in Panels
  BY <1>1, Whereabouts DEF DeletePanelMessage, At, InPlace, PanelOps, MultiOps
<1>3. raced' = raced
  BY DEF DeletePanelMessage, book
<1>4. ASSUME /\ Changed(h, {"at"}) /\ req'[h].at = "next"
     PROVE  Alone' /\ PanelsInv' /\ MultisInv'
  <2>1. /\ req'[h].op = req[h].op /\ req'[h].on = req[h].on /\ req'[h].chan = req[h].chan
        /\ req'[h].panels = req[h].panels /\ req'[h].old = req[h].old
        /\ req'[h].mold = req[h].mold /\ req'[h].msg = req[h].msg
        /\ req'[h].embed = req[h].embed /\ req'[h].todo = req[h].todo
        /\ req'[h].list = req[h].list /\ req'[h].at = "next"
    BY <1>4 DEF Changed, Fields
  <2>2. Follows(h) /\ req'[h] # Idle
    BY <1>1, <1>2, <1>3, <1>4, ChangedFollows
  <2>3. faults' = faults
    BY <1>1, <1>4 DEF DeletePanelMessage, book
  <2>4. /\ \A q : q # req[h].on => Own(q)' = Own(q)
        /\ \A q, S : q = req[h].on /\ Own(q) = {Msg(req[h].old.msg, req[h].old.chan, q, S)} => Own(q)' = {}
    <3>1. ASSUME NEW q, q = req[h].on
          PROVE  /\ \A o : o # q => Own(o)' = Own(o)
                 /\ \A S : Own(q) = {Msg(req[h].old.msg, req[h].old.chan, q, S)} => Own(q)' = {}
      <4>1. Of(req[h].old.msg, q)
        BY <1>1, <1>2, <3>1 DEF HandlerOwn, PanelOps
      <4>2. DeleteMessage(req[h].old.chan, req[h].old.msg)
        BY <1>4 DEF DeletePanelMessage
      <4>3. QED
        BY <1>1, <4>1, <4>2, OwnDeleted, TheOnlyOne
    <3>2. QED
      BY <3>1
  <2>5. \A p \in Panels : ~On(h, p) => SamePanel(p)
    BY <1>1, <1>2, <1>4, <2>4, PanelMessagesAssumption DEF On, SamePanel, DeletePanelMessage,
       panelTable, PanelsOK, PanelOps, MultiOps
  <2>6. ASSUME NEW p \in Panels \ raced, On(h, p), PanelStage(req[h], p)
        PROVE  PanelStage(req[h], p)'
    BY <1>2, <1>4, <2>1, <2>4, <2>6, PanelMessagesAssumption DEF On, PanelStage, PanelRests,
       Untouched, DeletePanelMessage, panelTable
  <2>7. \A m \in Multis : ~Touched(h, m) => SameMulti(m) /\ stored \subseteq stored'
    BY <1>2 DEF Touched, Touches
  <2>8. ASSUME Few, NEW m \in Multis \ raced, Touched(h, m), MultiStage(req[h], m)
        PROVE  MultiStage(req[h], m)'
    BY <1>2, <1>4, <2>1, <2>4, <2>8, PanelMessagesAssumption DEF Touched, Touches, MultiStage,
       PanelOps, MultiOps, LoopStage, InLoop, Turn, Late, MultiRests, MultiMsg,
       DeletePanelMessage, multiTable, panelTable
  <2>9. QED
    BY <1>1, <2>1, <2>2, <2>3, <2>5, <2>6, <2>7, <2>8, AloneFollows, PanelsFollow, MultisFollow
<1>5. QED
  BY <1>4, DeletePanelMessageStep

LEMMA WriteEmbedSettles ==
    ASSUME BaseInv, OwnInv, SettleInv, NEW h \in Handlers, WriteEmbed(h)
    PROVE  Alone' /\ PanelsInv' /\ MultisInv'
<1>1. /\ Alone /\ PanelsInv /\ MultisInv /\ LiveOwn /\ RowsOwn /\ HandlerOwn(req[h])
      /\ req \in [Handlers -> Reqs] /\ req[h] \in Reqs /\ InPlace(req[h]) /\ Equipped(req[h])
      /\ PanelsOK /\ MultisOK /\ BookOK
  BY DEF SettleInv, OwnInv, HandlersOwn, BaseInv, ReqInv
<1>2. /\ req[h].at = "embed" /\ req[h].op \in {"CreatePanel", "UpdatePanel"}
      /\ req[h].on \in Panels
  BY <1>1, Whereabouts DEF WriteEmbed, At, InPlace, PanelOps, MultiOps
<1>3. raced' = raced
  BY DEF WriteEmbed, book
<1>4. ASSUME /\ Changed(h, {"at", "embed"}) /\ req'[h].at = "store"
             /\ req'[h].embed = EmbedOf(req[h])
     PROVE  Alone' /\ PanelsInv' /\ MultisInv'
  <2>1. /\ req'[h].op = req[h].op /\ req'[h].on = req[h].on /\ req'[h].chan = req[h].chan
        /\ req'[h].panels = req[h].panels /\ req'[h].old = req[h].old
        /\ req'[h].mold = req[h].mold /\ req'[h].msg = req[h].msg
        /\ req'[h].todo = req[h].todo /\ req'[h].list = req[h].list /\ req'[h].at = "store"
        /\ req'[h].embed = EmbedOf(req[h])
    BY <1>4 DEF Changed, Fields
  <2>2. Follows(h) /\ req'[h] # Idle
    BY <1>1, <1>2, <1>3, <1>4, ChangedFollows
  <2>3. faults' = faults
    BY <1>1, <1>4 DEF WriteEmbed, book
  <2>4. \A o : Own(o)' = Own(o)
    BY <1>4, OwnSame DEF WriteEmbed
  <2>5. \A p \in Panels : ~On(h, p) => SamePanel(p)
    BY <1>1, <1>2, <1>4, <2>4, PanelMessagesAssumption DEF On, SamePanel, WriteEmbed, panelTable,
       PanelsOK, PanelOps, MultiOps
  <2>6. ASSUME NEW p \in Panels \ raced, On(h, p), PanelStage(req[h], p)
        PROVE  PanelStage(req[h], p)'
    BY <1>2, <1>4, <2>1, <2>4, <2>6, PanelMessagesAssumption DEF On, PanelStage, PanelRests,
       Untouched, WriteEmbed, panelTable
  <2>7. \A m \in Multis : ~Touched(h, m) => SameMulti(m) /\ stored \subseteq stored'
    BY <1>1, <1>2, <1>4, <2>4, PanelMessagesAssumption DEF Touched, Touches, SameMulti,
       WriteEmbed, multiTable, panelTable, MultisOK
  <2>8. ASSUME Few, NEW m \in Multis \ raced, Touched(h, m), MultiStage(req[h], m)
        PROVE  MultiStage(req[h], m)'
    BY <1>2, <1>4, <2>1, <2>4, <2>8, PanelMessagesAssumption DEF Touched, Touches, MultiStage,
       PanelOps, MultiOps, LoopStage, InLoop, Turn, Late, MultiRests, MultiMsg, WriteEmbed,
       multiTable, panelTable
  <2>9. QED
    BY <1>1, <2>1, <2>2, <2>3, <2>5, <2>6, <2>7, <2>8, AloneFollows, PanelsFollow, MultisFollow
<1>5. QED
  BY <1>4, WriteEmbedStep

LEMMA CreateRowSettles ==
    ASSUME BaseInv, OwnInv, SettleInv, NEW h \in Handlers, CreateRow(h)
    PROVE  Alone' /\ PanelsInv' /\ MultisInv'
<1>1. /\ Alone /\ PanelsInv /\ MultisInv /\ LiveOwn /\ RowsOwn /\ HandlerOwn(req[h])
      /\ req \in [Handlers -> Reqs] /\ req[h] \in Reqs /\ InPlace(req[h]) /\ Equipped(req[h])
      /\ PanelsOK /\ MultisOK /\ BookOK
  BY DEF SettleInv, OwnInv, HandlersOwn, BaseInv, ReqInv
<1>2. /\ req[h].at = "store" /\ req[h].op = "CreatePanel" /\ req[h].on \in Panels
  BY <1>1, Whereabouts DEF CreateRow, At, InPlace, PanelOps, MultiOps
<1>3. raced' = raced
  BY DEF CreateRow, book
<1>4. ASSUME /\ Finish(h)
     PROVE  Alone' /\ PanelsInv' /\ MultisInv'
  <2>1. req'[h] = Idle /\ Follows(h)
    BY <1>1, <1>2, <1>3, <1>4, FinishFollows
  <2>2. faults' = faults
    BY <1>1, <1>4 DEF CreateRow, book
  <2>3. \A o : Own(o)' = Own(o)
    BY <1>4, OwnSame DEF CreateRow
  <2>4. \A p \in Panels : ~On(h, p) => SamePanel(p)
    BY <1>1, <1>2, <1>4, <2>3, PanelMessagesAssumption DEF On, SamePanel, CreateRow, panelTable,
       PanelsOK, PanelOps, MultiOps
  <2>5. ASSUME NEW p \in Panels \ raced, On(h, p), PanelStage(req[h], p)
        PROVE  PanelRests(p)'
    <3>1. p = req[h].on /\ p \in stored' /\ row'[p] = StoredRow(req[h])
      BY <1>1, <1>2, <2>5 DEF On, PanelStage, CreateRow, PanelsOK
    <3>2. row'[p].chan = req[h].chan /\ row'[p].msg = req[h].msg
      BY <3>1 DEF StoredRow
    <3>3. Own(p)' = {Msg(req[h].msg, req[h].chan, p, {p})}
      BY <1>2, <2>3, <2>5 DEF PanelStage
    <3>4. PanelRests(p)'
      BY <3>1, <3>2, <3>3 DEF PanelRests
    <3>5. QED
      BY <1>2, <2>1, <3>1, <3>4 DEF PanelStage, Untouched
  <2>6. \A m \in Multis : ~Touched(h, m) => SameMulti(m) /\ stored \subseteq stored'
    BY <1>1, <1>2, <1>4, <2>3, PanelMessagesAssumption DEF Touched, Touches, SameMulti, CreateRow,
       multiTable, panelTable, MultisOK
  <2>7. ASSUME Few, NEW m \in Multis \ raced, Touched(h, m), MultiStage(req[h], m)
        PROVE  MultiRests(m)'
    BY <1>2, <2>7, PanelMessagesAssumption DEF Touched, Touches
  <2>8. QED
    BY <1>1, <2>1, <2>2, <2>4, <2>5, <2>6, <2>7, AloneFollows, PanelsFollow, MultisFollow
<1>5. QED
  BY <1>4, CreateRowStep

LEMMA UpdateRowSettles ==
    ASSUME BaseInv, OwnInv, SettleInv, NEW h \in Handlers, UpdateRow(h)
    PROVE  Alone' /\ PanelsInv' /\ MultisInv'
<1>1. /\ Alone /\ PanelsInv /\ MultisInv /\ LiveOwn /\ RowsOwn /\ HandlerOwn(req[h])
      /\ req \in [Handlers -> Reqs] /\ req[h] \in Reqs /\ InPlace(req[h]) /\ Equipped(req[h])
      /\ PanelsOK /\ MultisOK /\ BookOK
  BY DEF SettleInv, OwnInv, HandlersOwn, BaseInv, ReqInv
<1>2. /\ req[h].at = "store" /\ req[h].op = "UpdatePanel" /\ req[h].on \in Panels
  BY <1>1, Whereabouts DEF UpdateRow, At, InPlace, PanelOps, MultiOps
<1>3. raced' = raced
  BY DEF UpdateRow, book
<1>4. ASSUME /\ Changed(h, {"at"}) /\ req'[h].at = "multis"
     PROVE  Alone' /\ PanelsInv' /\ MultisInv'
  <2>1. /\ req'[h].op = req[h].op /\ req'[h].on = req[h].on /\ req'[h].chan = req[h].chan
        /\ req'[h].panels = req[h].panels /\ req'[h].old = req[h].old
        /\ req'[h].mold = req[h].mold /\ req'[h].msg = req[h].msg
        /\ req'[h].embed = req[h].embed /\ req'[h].todo = req[h].todo
        /\ req'[h].list = req[h].list /\ req'[h].at = "multis"
    BY <1>4 DEF Changed, Fields
  <2>2. Follows(h) /\ req'[h] # Idle
    BY <1>1, <1>2, <1>3, <1>4, ChangedFollows
  <2>3. faults' = faults
    BY <1>1, <1>4 DEF UpdateRow, book
  <2>4. \A o : Own(o)' = Own(o)
    BY <1>4, OwnSame DEF UpdateRow
  <2>5. \A p \in Panels : ~On(h, p) => SamePanel(p)
    BY <1>1, <1>2, <1>4, <2>4, PanelMessagesAssumption DEF On, SamePanel, UpdateRow, panelTable,
       PanelsOK, PanelOps, MultiOps
  <2>6. ASSUME NEW p \in Panels \ raced, On(h, p), PanelStage(req[h], p)
        PROVE  PanelStage(req[h], p)'
    <3>1. p = req[h].on /\ p \in stored' /\ row'[p] = StoredRow(req[h])
      BY <1>1, <1>2, <2>6 DEF On, PanelStage, UpdateRow, PanelsOK
    <3>2. row'[p].chan = req[h].chan /\ row'[p].msg = req[h].msg
      BY <3>1 DEF StoredRow
    <3>3. Own(p)' = {Msg(req[h].msg, req[h].chan, p, {p})}
      BY <1>2, <2>4, <2>6 DEF PanelStage
    <3>4. PanelRests(p)'
      BY <3>1, <3>2, <3>3 DEF PanelRests
    <3>5. QED
      BY <1>2, <2>1, <3>1, <3>4 DEF PanelStage, Untouched
  <2>7. \A m \in Multis : ~Touched(h, m) => SameMulti(m) /\ stored \subseteq stored'
    BY <1>2 DEF Touched, Touches
  <2>8. ASSUME Few, NEW m \in Multis \ raced, Touched(h, m), MultiStage(req[h], m)
        PROVE  MultiStage(req[h], m)'
    BY <1>2, <1>4, <2>1, <2>4, <2>8, PanelMessagesAssumption DEF Touched, Touches, MultiStage,
       PanelOps, MultiOps, LoopStage, InLoop, Turn, Late, MultiRests, MultiMsg, UpdateRow,
       multiTable, panelTable
  <2>9. QED
    BY <1>1, <2>1, <2>2, <2>3, <2>5, <2>6, <2>7, <2>8, AloneFollows, PanelsFollow, MultisFollow
<1>5. QED
  BY <1>4, UpdateRowStep

LEMMA DeleteEmbedSettles ==
    ASSUME BaseInv, OwnInv, SettleInv, NEW h \in Handlers, DeleteEmbed(h)
    PROVE  Alone' /\ PanelsInv' /\ MultisInv'
<1>1. /\ Alone /\ PanelsInv /\ MultisInv /\ LiveOwn /\ RowsOwn /\ HandlerOwn(req[h])
      /\ req \in [Handlers -> Reqs] /\ req[h] \in Reqs /\ InPlace(req[h]) /\ Equipped(req[h])
      /\ PanelsOK /\ MultisOK /\ BookOK
  BY DEF SettleInv, OwnInv, HandlersOwn, BaseInv, ReqInv
<1>2. /\ req[h].at = "delete" /\ req[h].op = "DeletePanel" /\ req[h].on \in Panels
  BY <1>1, Whereabouts DEF DeleteEmbed, At, InPlace, PanelOps, MultiOps
<1>3. raced' = raced
  BY DEF DeleteEmbed, book
<1>4. ASSUME /\ Changed(h, {"at"}) /\ req'[h].at = "deleteRow"
     PROVE  Alone' /\ PanelsInv' /\ MultisInv'
  <2>1. /\ req'[h].op = req[h].op /\ req'[h].on = req[h].on /\ req'[h].chan = req[h].chan
        /\ req'[h].panels = req[h].panels /\ req'[h].old = req[h].old
        /\ req'[h].mold = req[h].mold /\ req'[h].msg = req[h].msg
        /\ req'[h].embed = req[h].embed /\ req'[h].todo = req[h].todo
        /\ req'[h].list = req[h].list /\ req'[h].at = "deleteRow"
    BY <1>4 DEF Changed, Fields
  <2>2. Follows(h) /\ req'[h] # Idle
    BY <1>1, <1>2, <1>3, <1>4, ChangedFollows
  <2>3. faults' = faults
    BY <1>1, <1>4 DEF DeleteEmbed, book
  <2>4. \A o : Own(o)' = Own(o)
    BY <1>4, OwnSame DEF DeleteEmbed
  <2>5. \A p \in Panels : ~On(h, p) => SamePanel(p)
    BY <1>1, <1>2, <1>4, <2>4, PanelMessagesAssumption DEF On, SamePanel, DeleteEmbed, panelTable,
       PanelsOK, PanelOps, MultiOps
  <2>6. ASSUME NEW p \in Panels \ raced, On(h, p), PanelStage(req[h], p)
        PROVE  PanelStage(req[h], p)'
    BY <1>2, <1>4, <2>1, <2>4, <2>6, PanelMessagesAssumption DEF On, PanelStage, PanelRests,
       Untouched, DeleteEmbed, panelTable
  <2>7. \A m \in Multis : ~Touched(h, m) => SameMulti(m) /\ stored \subseteq stored'
    BY <1>2 DEF Touched, Touches
  <2>8. ASSUME Few, NEW m \in Multis \ raced, Touched(h, m), MultiStage(req[h], m)
        PROVE  MultiStage(req[h], m)'
    BY <1>2, <1>4, <2>1, <2>4, <2>8, PanelMessagesAssumption DEF Touched, Touches, MultiStage,
       PanelOps, MultiOps, LoopStage, InLoop, Turn, Late, MultiRests, MultiMsg, DeleteEmbed,
       multiTable, panelTable
  <2>9. QED
    BY <1>1, <2>1, <2>2, <2>3, <2>5, <2>6, <2>7, <2>8, AloneFollows, PanelsFollow, MultisFollow
<1>5. QED
  BY <1>4, DeleteEmbedStep

LEMMA DeleteRowSettles ==
    ASSUME BaseInv, OwnInv, SettleInv, NEW h \in Handlers, DeleteRow(h)
    PROVE  Alone' /\ PanelsInv' /\ MultisInv'
<1>1. /\ Alone /\ PanelsInv /\ MultisInv /\ LiveOwn /\ RowsOwn /\ HandlerOwn(req[h])
      /\ req \in [Handlers -> Reqs] /\ req[h] \in Reqs /\ InPlace(req[h]) /\ Equipped(req[h])
      /\ PanelsOK /\ MultisOK /\ BookOK
  BY DEF SettleInv, OwnInv, HandlersOwn, BaseInv, ReqInv
<1>2. /\ req[h].at = "deleteRow" /\ req[h].op = "DeletePanel" /\ req[h].on \in Panels
  BY <1>1, Whereabouts DEF DeleteRow, At, InPlace, PanelOps, MultiOps
<1>3. raced' = raced
  BY DEF DeleteRow, book
<1>4. ASSUME /\ Changed(h, {"at"}) /\ req'[h].at = "deleteMessage"
     PROVE  Alone' /\ PanelsInv' /\ MultisInv'
  <2>1. /\ req'[h].op = req[h].op /\ req'[h].on = req[h].on /\ req'[h].chan = req[h].chan
        /\ req'[h].panels = req[h].panels /\ req'[h].old = req[h].old
        /\ req'[h].mold = req[h].mold /\ req'[h].msg = req[h].msg
        /\ req'[h].embed = req[h].embed /\ req'[h].todo = req[h].todo
        /\ req'[h].list = req[h].list /\ req'[h].at = "deleteMessage"
    BY <1>4 DEF Changed, Fields
  <2>2. Follows(h) /\ req'[h] # Idle
    BY <1>1, <1>2, <1>3, <1>4, ChangedFollows
  <2>3. faults' = faults
    BY <1>1, <1>4 DEF DeleteRow, book
  <2>4. \A o : Own(o)' = Own(o)
    BY <1>4, OwnSame DEF DeleteRow
  <2>5. \A p \in Panels : ~On(h, p) => SamePanel(p)
    BY <1>1, <1>2, <1>4, <2>4, PanelMessagesAssumption DEF On, SamePanel, DeleteRow, panelTable,
       PanelsOK, PanelOps, MultiOps
  <2>6. ASSUME NEW p \in Panels \ raced, On(h, p), PanelStage(req[h], p)
        PROVE  PanelStage(req[h], p)'
    BY <1>2, <1>4, <2>1, <2>4, <2>6, PanelMessagesAssumption DEF On, PanelStage, PanelRests,
       Untouched, DeleteRow, panelTable
  <2>7. \A m \in Multis : ~Touched(h, m) => SameMulti(m) /\ stored \subseteq stored'
    BY <1>2 DEF Touched, Touches
  <2>8. ASSUME Few, NEW m \in Multis \ raced, Touched(h, m), MultiStage(req[h], m)
        PROVE  MultiStage(req[h], m)'
    <3>1. LoopStage(req[h], m) /\ targets'[m] = targets[m] \ {req[h].on} /\ targets[m] \subseteq Panels
      BY <1>1, <1>2, <2>8 DEF MultiStage, PanelOps, DeleteRow, MultisOK
    <3>2. MultiRests(m)
      BY <1>2, <3>1 DEF LoopStage, Late, InLoop
    <3>3. CASE m \in req[h].todo
      <4>1. m \in mstored /\ req[h].on \in targets[m] /\ req[h].mold[m] = mrow[m]
        BY <1>2, <3>1, <3>3 DEF LoopStage
      <4>2. targets[m] = targets'[m] \union {req[h].on}
        BY <3>1, <4>1
      <4>3. Own(m)' = {Msg(mrow[m].msg, mrow[m].chan, m, targets'[m] \union {req[h].on})}
        BY <2>4, <3>2, <4>1, <4>2 DEF MultiRests, MultiMsg
      <4>4. QED
        BY <1>2, <2>1, <3>1, <3>3, <4>1, <4>3
           DEF MultiStage, PanelOps, LoopStage, Late, InLoop, Turn, MultiMsg, DeleteRow
    <3>4. CASE m \notin req[h].todo
      <4>1. m \in mstored => req[h].on \notin targets[m]
        BY <1>2, <3>1, <3>4 DEF LoopStage
      <4>2. MultiRests(m)'
        BY <2>4, <3>1, <3>2, <4>1 DEF MultiRests, MultiMsg, DeleteRow
      <4>3. QED
        BY <1>2, <2>1, <3>1, <3>4, <4>2 DEF MultiStage, PanelOps, LoopStage, Late, InLoop, Turn
    <3>5. QED
      BY <3>3, <3>4
  <2>9. QED
    BY <1>1, <2>1, <2>2, <2>3, <2>5, <2>6, <2>7, <2>8, AloneFollows, PanelsFollow, MultisFollow
<1>5. QED
  BY <1>4, DeleteRowStep

LEMMA RecordResentSettles ==
    ASSUME BaseInv, OwnInv, SettleInv, NEW h \in Handlers, RecordResent(h)
    PROVE  Alone' /\ PanelsInv' /\ MultisInv'
<1>1. /\ Alone /\ PanelsInv /\ MultisInv /\ LiveOwn /\ RowsOwn /\ HandlerOwn(req[h])
      /\ req \in [Handlers -> Reqs] /\ req[h] \in Reqs /\ InPlace(req[h]) /\ Equipped(req[h])
      /\ PanelsOK /\ MultisOK /\ BookOK
  BY DEF SettleInv, OwnInv, HandlersOwn, BaseInv, ReqInv
<1>2. /\ req[h].at = "record" /\ req[h].op = "ResendPanel" /\ req[h].on \in Panels
  BY <1>1, Whereabouts DEF RecordResent, At, InPlace, PanelOps, MultiOps
<1>3. raced' = raced
  BY DEF RecordResent, book
<1>4. ASSUME /\ Finish(h)
     PROVE  Alone' /\ PanelsInv' /\ MultisInv'
  <2>1. req'[h] = Idle /\ Follows(h)
    BY <1>1, <1>2, <1>3, <1>4, FinishFollows
  <2>2. faults' = faults
    BY <1>1, <1>4 DEF RecordResent, book
  <2>3. \A o : Own(o)' = Own(o)
    BY <1>4, OwnSame DEF RecordResent
  <2>4. \A p \in Panels : ~On(h, p) => SamePanel(p)
    BY <1>1, <1>2, <1>4, <2>3, PanelMessagesAssumption DEF On, SamePanel, RecordResent,
       panelTable, PanelsOK, PanelOps, MultiOps
  <2>5. ASSUME NEW p \in Panels \ raced, On(h, p), PanelStage(req[h], p)
        PROVE  PanelRests(p)'
    <3>1. p = req[h].on /\ p \in stored /\ row[p] \in Row
      BY <1>1, <1>2, <2>5 DEF On, PanelStage, PanelsOK
    <3>2. row'[p] = With(row[p], [msg |-> req[h].msg])
      BY <1>1, <3>1 DEF RecordResent, PanelsOK
    <3>3. row'[p].chan = row[p].chan /\ row'[p].msg = req[h].msg
      BY <3>1, <3>2 DEF With, Row
    <3>4. Own(p)' = {Msg(req[h].msg, row[p].chan, p, {p})}
      BY <1>2, <2>3, <2>5 DEF PanelStage
    <3>5. QED
      BY <3>1, <3>3, <3>4 DEF PanelRests, RecordResent
  <2>6. \A m \in Multis : ~Touched(h, m) => SameMulti(m) /\ stored \subseteq stored'
    BY <1>1, <1>2, <1>4, <2>3, PanelMessagesAssumption DEF Touched, Touches, SameMulti,
       RecordResent, multiTable, panelTable, MultisOK
  <2>7. ASSUME Few, NEW m \in Multis \ raced, Touched(h, m), MultiStage(req[h], m)
        PROVE  MultiRests(m)'
    BY <1>2, <2>7, PanelMessagesAssumption DEF Touched, Touches
  <2>8. QED
    BY <1>1, <2>1, <2>2, <2>4, <2>5, <2>6, <2>7, AloneFollows, PanelsFollow, MultisFollow
<1>5. QED
  BY <1>4, RecordResentStep

LEMMA SendPanelSettles ==
    ASSUME BaseInv, OwnInv, SettleInv, NEW h \in Handlers, SendPanel(h)
    PROVE  Alone' /\ PanelsInv' /\ MultisInv'
<1>1. /\ Alone /\ PanelsInv /\ MultisInv /\ LiveOwn /\ RowsOwn /\ HandlerOwn(req[h])
      /\ req \in [Handlers -> Reqs] /\ req[h] \in Reqs /\ InPlace(req[h]) /\ Equipped(req[h])
      /\ PanelsOK /\ MultisOK /\ BookOK
  BY DEF SettleInv, OwnInv, HandlersOwn, BaseInv, ReqInv
<1>2. /\ req[h].at = "send" /\ req[h].op \in {"CreatePanel", "UpdatePanel", "ResendPanel"}
      /\ req[h].on \in Panels
  BY <1>1, Whereabouts DEF SendPanel, At, InPlace, PanelOps, MultiOps
<1>3. raced' = raced
  BY DEF SendPanel, book
<1>4. ASSUME /\ faults' = faults + 1 /\ Finish(h)
     PROVE  Alone' /\ PanelsInv' /\ MultisInv'
  <2>1. req'[h] = Idle /\ Follows(h)
    BY <1>1, <1>2, <1>3, <1>4, FinishFollows
  <2>2. QED
    BY <1>1, <1>4, <2>1, AloneFollows, Faulty
<1>5. ASSUME /\ UNCHANGED faults /\ Changed(h, {"msg", "at"})
             /\ req'[h].msg = Len(sentBy) + 1 /\ req'[h].at = AfterSend(req[h])
     PROVE  Alone' /\ PanelsInv' /\ MultisInv'
  <2>1. /\ req'[h].op = req[h].op /\ req'[h].on = req[h].on /\ req'[h].chan = req[h].chan
        /\ req'[h].panels = req[h].panels /\ req'[h].old = req[h].old
        /\ req'[h].mold = req[h].mold /\ req'[h].embed = req[h].embed
        /\ req'[h].todo = req[h].todo /\ req'[h].list = req[h].list
        /\ req'[h].msg = Len(sentBy) + 1 /\ req'[h].at = AfterSend(req[h])
    BY <1>5 DEF Changed, Fields
  <2>2. Follows(h) /\ req'[h] # Idle
    BY <1>1, <1>2, <1>3, <1>5, ChangedFollows
  <2>3. faults' = faults
    BY <1>1, <1>5 DEF SendPanel, book
  <2>4. /\ \A q : q # req[h].on => Own(q)' = Own(q)
        /\ \A q : q = req[h].on =>
             Own(q)' = Own(q) \union {Msg(Len(sentBy) + 1, PanelChan(req[h]), q, {q})}
    <3>1. Send(h, req[h].on, PanelChan(req[h]), {req[h].on}, AfterSend(req[h]))
      BY <1>1, <1>5 DEF SendPanel, SendLost, BookOK
    <3>2. ASSUME NEW id, NEW c, NEW o, id = Len(sentBy) + 1, c = PanelChan(req[h]), o = req[h].on
          PROVE  /\ \A q : q # o => Own(q)' = Own(q)
                 /\ Own(o)' = Own(o) \union {Msg(id, c, o, {o})}
      <4>1. live' = live \union {Msg(id, c, o, {o})}
        BY <3>1, <3>2 DEF Send, Msg
      <4>2. QED
        BY <4>1, OwnSent
    <3>3. QED
      BY <3>2
  <2>5. \A p \in Panels : ~On(h, p) => SamePanel(p)
    BY <1>1, <1>2, <1>5, <2>4, PanelMessagesAssumption DEF On, SamePanel, SendPanel, panelTable,
       PanelsOK, PanelOps, MultiOps
  <2>6. ASSUME NEW p \in Panels \ raced, On(h, p), PanelStage(req[h], p)
        PROVE  PanelStage(req[h], p)'
    <3>1. p = req[h].on /\ Own(p) = {}
      BY <1>2, <2>6 DEF On, PanelStage
    <3>2. Own(p)' = {Msg(req'[h].msg, PanelChan(req[h]), p, {p})}
      BY <2>1, <2>4, <3>1
    <3>3. UNCHANGED <<row, stored>>
      BY DEF SendPanel, panelTable
    <3>4. QED
      BY <1>2, <2>1, <2>6, <3>2, <3>3 DEF PanelStage, Untouched, AfterSend, PanelChan
  <2>7. \A m \in Multis : ~Touched(h, m) => SameMulti(m) /\ stored \subseteq stored'
    BY <1>1, <1>2, <1>5, <2>4, PanelMessagesAssumption DEF Touched, Touches, SameMulti, SendPanel,
       multiTable, panelTable, MultisOK
  <2>8. ASSUME Few, NEW m \in Multis \ raced, Touched(h, m), MultiStage(req[h], m)
        PROVE  MultiStage(req[h], m)'
    <3>1. MultiRests(m)' /\ req[h].op = "UpdatePanel" /\ LoopStage(req[h], m)
      BY <1>2, <2>4, <2>8, PanelMessagesAssumption
         DEF Touched, Touches, MultiStage, PanelOps, LoopStage, Late, MultiRests, MultiMsg, SendPanel, multiTable
    <3>2. QED
      BY <1>2, <2>1, <3>1 DEF MultiStage, PanelOps, LoopStage, InLoop, Turn, Late, AfterSend
  <2>9. QED
    BY <1>1, <2>1, <2>2, <2>3, <2>5, <2>6, <2>7, <2>8, AloneFollows, PanelsFollow, MultisFollow
<1>6. QED
  BY <1>4, <1>5, SendPanelStep

LEMMA LoadMultisSettles ==
    ASSUME BaseInv, OwnInv, SettleInv, NEW h \in Handlers, LoadMultis(h)
    PROVE  Alone' /\ PanelsInv' /\ MultisInv'
<1>1. /\ Alone /\ PanelsInv /\ MultisInv /\ LiveOwn /\ RowsOwn /\ HandlerOwn(req[h])
      /\ req \in [Handlers -> Reqs] /\ req[h] \in Reqs /\ InPlace(req[h]) /\ Equipped(req[h])
      /\ PanelsOK /\ MultisOK /\ BookOK
  BY DEF SettleInv, OwnInv, HandlersOwn, BaseInv, ReqInv
<1>2. /\ req[h].at = "multis" /\ req[h].op \in {"UpdatePanel", "DeletePanel"}
      /\ req[h].on \in Panels
  BY <1>1, Whereabouts DEF LoadMultis, At, InPlace, PanelOps, MultiOps
<1>3. raced' = raced
  BY DEF LoadMultis, book
<1>4. ASSUME NEW T \in SUBSET mstored,
           /\ Loads(req[h], T) /\ Changed(h, {"todo", "mold", "at"}) /\ req'[h].todo = T
           /\ req'[h].mold = [m \in T |-> mrow[m]]
           /\ req'[h].at = (IF req[h].op = "DeletePanel" THEN "delete" ELSE "next")
     PROVE  Alone' /\ PanelsInv' /\ MultisInv'
  <2>1. /\ req'[h].op = req[h].op /\ req'[h].on = req[h].on /\ req'[h].chan = req[h].chan
        /\ req'[h].panels = req[h].panels /\ req'[h].old = req[h].old
        /\ req'[h].msg = req[h].msg /\ req'[h].embed = req[h].embed
        /\ req'[h].list = req[h].list /\ req'[h].todo = T
        /\ req'[h].mold = [m \in T |-> mrow[m]]
        /\ req'[h].at = (IF req[h].op = "DeletePanel" THEN "delete" ELSE "next")
    BY <1>4 DEF Changed, Fields
  <2>2. Follows(h) /\ req'[h] # Idle
    BY <1>1, <1>2, <1>3, <1>4, ChangedFollows
  <2>3. faults' = faults
    BY <1>1, <1>4 DEF LoadMultis, book
  <2>4. \A o : Own(o)' = Own(o)
    BY <1>4, OwnSame DEF LoadMultis
  <2>5. \A p \in Panels : ~On(h, p) => SamePanel(p)
    BY <1>1, <1>2, <1>4, <2>4, PanelMessagesAssumption DEF On, SamePanel, LoadMultis, panelTable,
       PanelsOK, PanelOps, MultiOps
  <2>6. ASSUME NEW p \in Panels \ raced, On(h, p), PanelStage(req[h], p)
        PROVE  PanelStage(req[h], p)'
    BY <1>2, <1>4, <2>1, <2>4, <2>6, PanelMessagesAssumption DEF On, PanelStage, PanelRests,
       Untouched, LoadMultis, panelTable
  <2>7. \A m \in Multis : ~Touched(h, m) => SameMulti(m) /\ stored \subseteq stored'
    BY <1>2 DEF Touched, Touches
  <2>8. ASSUME Few, NEW m \in Multis \ raced, Touched(h, m), MultiStage(req[h], m)
        PROVE  MultiStage(req[h], m)'
    <3>1. T = {n \in mstored : req[h].on \in targets[n]}
      BY <1>1, <1>4, <2>8, LoadsAll
    <3>2. UNCHANGED <<mstored, mrow, targets>>
      BY DEF LoadMultis, multiTable
    <3>3. LoopStage(req[h], m) /\ MultiRests(m)
      BY <1>2, <2>8 DEF MultiStage, PanelOps, LoopStage, Late, InLoop
    <3>4. MultiRests(m)'
      BY <2>4, <3>2, <3>3 DEF MultiRests, MultiMsg
    <3>5. QED
      BY <1>2, <2>1, <3>1, <3>2, <3>4 DEF MultiStage, PanelOps, LoopStage, InLoop, Turn, Late
  <2>9. QED
    BY <1>1, <2>1, <2>2, <2>3, <2>5, <2>6, <2>7, <2>8, AloneFollows, PanelsFollow, MultisFollow
<1>5. QED
  BY <1>4, LoadMultisStep

LEMMA NextMultiSettles ==
    ASSUME BaseInv, OwnInv, SettleInv, NEW h \in Handlers, NextMulti(h)
    PROVE  Alone' /\ PanelsInv' /\ MultisInv'
<1>1. /\ Alone /\ PanelsInv /\ MultisInv /\ LiveOwn /\ RowsOwn /\ HandlerOwn(req[h])
      /\ req \in [Handlers -> Reqs] /\ req[h] \in Reqs /\ InPlace(req[h]) /\ Equipped(req[h])
      /\ PanelsOK /\ MultisOK /\ BookOK
  BY DEF SettleInv, OwnInv, HandlersOwn, BaseInv, ReqInv
<1>2. /\ req[h].at = "next" /\ req[h].op \in {"UpdatePanel", "DeletePanel"}
      /\ req[h].on \in Panels
  BY <1>1, Whereabouts DEF NextMulti, At, InPlace, PanelOps, MultiOps
<1>3. raced' = raced
  BY DEF NextMulti, book
<1>4. ASSUME /\ req[h].todo = {} /\ Finish(h)
     PROVE  Alone' /\ PanelsInv' /\ MultisInv'
  <2>1. req'[h] = Idle /\ Follows(h)
    BY <1>1, <1>2, <1>3, <1>4, FinishFollows
  <2>2. faults' = faults
    BY <1>1, <1>4 DEF NextMulti, book
  <2>3. \A o : Own(o)' = Own(o)
    BY <1>4, OwnSame DEF NextMulti
  <2>4. \A p \in Panels : ~On(h, p) => SamePanel(p)
    BY <1>1, <1>2, <1>4, <2>3, PanelMessagesAssumption DEF On, SamePanel, NextMulti, panelTable,
       PanelsOK, PanelOps, MultiOps
  <2>5. ASSUME NEW p \in Panels \ raced, On(h, p), PanelStage(req[h], p)
        PROVE  PanelRests(p)'
    BY <1>2, <1>4, <2>1, <2>3, <2>5, PanelMessagesAssumption DEF On, PanelStage, PanelRests,
       Untouched, NextMulti, panelTable
  <2>6. \A m \in Multis : ~Touched(h, m) => SameMulti(m) /\ stored \subseteq stored'
    BY <1>2 DEF Touched, Touches
  <2>7. ASSUME Few, NEW m \in Multis \ raced, Touched(h, m), MultiStage(req[h], m)
        PROVE  MultiRests(m)'
    BY <1>2, <1>4, <2>1, <2>3, <2>7, PanelMessagesAssumption DEF Touched, Touches, MultiStage,
       PanelOps, MultiOps, LoopStage, InLoop, Turn, Late, MultiRests, MultiMsg, NextMulti,
       multiTable, panelTable
  <2>8. QED
    BY <1>1, <2>1, <2>2, <2>4, <2>5, <2>6, <2>7, AloneFollows, PanelsFollow, MultisFollow
<1>5. ASSUME NEW t \in req[h].todo,
           /\ Changed(h, {"todo", "list", "panels", "at"})
           /\ req'[h].todo = req[h].todo \ {t} /\ req'[h].list = targets[t]
           /\ req'[h].panels = {t}
           /\ req'[h].at = (IF req[h].op = "DeletePanel" THEN "sendMulti" ELSE "editMulti")
     PROVE  Alone' /\ PanelsInv' /\ MultisInv'
  <2>1. /\ req'[h].op = req[h].op /\ req'[h].on = req[h].on /\ req'[h].chan = req[h].chan
        /\ req'[h].old = req[h].old /\ req'[h].mold = req[h].mold
        /\ req'[h].msg = req[h].msg /\ req'[h].embed = req[h].embed
        /\ req'[h].todo = req[h].todo \ {t} /\ req'[h].list = targets[t]
        /\ req'[h].panels = {t}
        /\ req'[h].at = (IF req[h].op = "DeletePanel" THEN "sendMulti" ELSE "editMulti")
    BY <1>5 DEF Changed, Fields
  <2>2. Follows(h) /\ req'[h] # Idle
    BY <1>1, <1>2, <1>3, <1>5, ChangedFollows
  <2>3. faults' = faults
    BY <1>1, <1>5 DEF NextMulti, book
  <2>4. \A o : Own(o)' = Own(o)
    BY <1>5, OwnSame DEF NextMulti
  <2>5. \A p \in Panels : ~On(h, p) => SamePanel(p)
    BY <1>1, <1>2, <1>5, <2>4, PanelMessagesAssumption DEF On, SamePanel, NextMulti, panelTable,
       PanelsOK, PanelOps, MultiOps
  <2>6. ASSUME NEW p \in Panels \ raced, On(h, p), PanelStage(req[h], p)
        PROVE  PanelStage(req[h], p)'
    BY <1>2, <1>5, <2>1, <2>4, <2>6, PanelMessagesAssumption DEF On, PanelStage, PanelRests,
       Untouched, NextMulti, panelTable
  <2>7. \A m \in Multis : ~Touched(h, m) => SameMulti(m) /\ stored \subseteq stored'
    BY <1>2 DEF Touched, Touches
  <2>8. ASSUME Few, NEW m \in Multis \ raced, Touched(h, m), MultiStage(req[h], m)
        PROVE  MultiStage(req[h], m)'
    BY <1>2, <1>5, <2>1, <2>4, <2>8, PanelMessagesAssumption DEF Touched, Touches, MultiStage,
       PanelOps, MultiOps, LoopStage, InLoop, Turn, Late, MultiRests, MultiMsg, NextMulti,
       multiTable, panelTable
  <2>9. QED
    BY <1>1, <2>1, <2>2, <2>3, <2>5, <2>6, <2>7, <2>8, AloneFollows, PanelsFollow, MultisFollow
<1>6. QED
  BY <1>4, <1>5, NextMultiStep

LEMMA EditMultiSettles ==
    ASSUME BaseInv, OwnInv, SettleInv, NEW h \in Handlers, EditMulti(h)
    PROVE  Alone' /\ PanelsInv' /\ MultisInv'
<1>1. /\ Alone /\ PanelsInv /\ MultisInv /\ LiveOwn /\ RowsOwn /\ HandlerOwn(req[h])
      /\ req \in [Handlers -> Reqs] /\ req[h] \in Reqs /\ InPlace(req[h]) /\ Equipped(req[h])
      /\ PanelsOK /\ MultisOK /\ BookOK
  BY DEF SettleInv, OwnInv, HandlersOwn, BaseInv, ReqInv
<1>2. /\ req[h].at = "editMulti" /\ req[h].op = "UpdatePanel" /\ req[h].on \in Panels
  BY <1>1, Whereabouts DEF EditMulti, At, InPlace, PanelOps, MultiOps
<1>3. raced' = raced
  BY DEF EditMulti, book
<1>4. ASSUME /\ IsLive(OldMulti(req[h]).chan, OldMulti(req[h]).msg)
             /\ EditMessage(OldMulti(req[h]).chan, OldMulti(req[h]).msg, req[h].list)
             /\ Changed(h, {"at"}) /\ req'[h].at = "next"
     PROVE  Alone' /\ PanelsInv' /\ MultisInv'
  <2>1. /\ req'[h].op = req[h].op /\ req'[h].on = req[h].on /\ req'[h].chan = req[h].chan
        /\ req'[h].panels = req[h].panels /\ req'[h].old = req[h].old
        /\ req'[h].mold = req[h].mold /\ req'[h].msg = req[h].msg
        /\ req'[h].embed = req[h].embed /\ req'[h].todo = req[h].todo
        /\ req'[h].list = req[h].list /\ req'[h].at = "next"
    BY <1>4 DEF Changed, Fields
  <2>2. Follows(h) /\ req'[h] # Idle
    BY <1>1, <1>2, <1>3, <1>4, ChangedFollows
  <2>3. PICK t \in DOMAIN req[h].mold : req[h].panels = {t}
    BY <1>1, <1>2 DEF Equipped
  <2>4. /\ Multi(req[h]) = t /\ OldMulti(req[h]) = req[h].mold[t] /\ t \in Multis /\ t \notin Panels
        /\ Of(req[h].mold[t].msg, t) /\ t # req[h].on
    BY <1>1, <1>2, <2>3, TheMulti, PanelMessagesAssumption DEF Reqs, Molds, HandlerOwn
  <2>5. faults' = faults
    BY <1>1, <1>4 DEF EditMulti, book
  <2>6. /\ \A q : q # t => Own(q)' = Own(q)
        /\ \A T : Own(t) = {Msg(req[h].mold[t].msg, req[h].mold[t].chan, t, T)} =>
             Own(t)' = {Msg(req[h].mold[t].msg, req[h].mold[t].chan, t, req[h].list)}
    <3>1. ASSUME NEW id, NEW c, NEW S, id = req[h].mold[t].msg, c = req[h].mold[t].chan, S = req[h].list
          PROVE  /\ \A q : q # t => Own(q)' = Own(q)
                 /\ \A T : Own(t) = {Msg(id, c, t, T)} => Own(t)' = {Msg(id, c, t, S)}
      <4>1. OldMulti(req[h]).chan = c /\ OldMulti(req[h]).msg = id
        BY <2>4, <3>1
      <4>2. EditMessage(c, id, S)
        BY <1>4, <3>1, <4>1
      <4>3. Of(id, t) /\ LiveOwn
        BY <1>1, <2>4, <3>1
      <4>4. QED
        BY <4>2, <4>3, OwnEdited
    <3>2. QED
      BY <3>1
  <2>7. \A p \in Panels : ~On(h, p) => SamePanel(p)
    BY <1>1, <1>2, <1>4, <2>4, <2>6, PanelMessagesAssumption DEF On, SamePanel, EditMulti,
       panelTable, PanelsOK, PanelOps, MultiOps
  <2>8. ASSUME NEW p \in Panels \ raced, On(h, p), PanelStage(req[h], p)
        PROVE  PanelStage(req[h], p)'
    BY <1>2, <1>4, <2>1, <2>4, <2>6, <2>8, PanelMessagesAssumption DEF On, PanelStage, PanelRests,
       Untouched, EditMulti, panelTable
  <2>9. \A m \in Multis : ~Touched(h, m) => SameMulti(m) /\ stored \subseteq stored'
    BY <1>2 DEF Touched, Touches
  <2>10. ASSUME Few, NEW m \in Multis \ raced, Touched(h, m), MultiStage(req[h], m)
        PROVE  MultiStage(req[h], m)'
    <3>1. CASE m # t
      <4>1. LoopStage(req[h], m) /\ ~Turn(req[h], m) /\ ~Turn(req'[h], m)
        BY <1>2, <2>1, <2>3, <2>10, <3>1 DEF MultiStage, PanelOps, Turn
      <4>2. Own(m)' = Own(m) /\ mrow'[m] = mrow[m] /\ UNCHANGED <<mstored, targets>>
        BY <1>1, <2>6, <2>3, <2>4, <2>10, <3>1 DEF EditMulti, multiTable, SetMultiMessage,
           MultisOK
      <4>3. LoopStage(req[h], m)'
        BY <1>2, <2>1, <4>1, <4>2 DEF LoopStage, InLoop, Late, Turn, MultiRests, MultiMsg
      <4>4. QED
        BY <1>2, <2>1, <4>3 DEF MultiStage, PanelOps
    <3>2. CASE m = t
      <4>1. LoopStage(req[h], m) /\ Turn(req[h], m)
        BY <1>2, <2>3, <2>10, <3>2 DEF MultiStage, PanelOps, Turn
      <4>2. /\ m \in mstored /\ req[h].list = targets[m] /\ req[h].mold[m] = mrow[m]
            /\ Own(m) = {Msg(req[h].mold[m].msg, req[h].mold[m].chan, m, targets[m])}
        BY <1>2, <4>1 DEF LoopStage, Late, MultiRests, MultiMsg
      <4>3. MultiRests(m)'
        BY <2>6, <3>2, <4>2 DEF EditMulti, multiTable, MultiRests, MultiMsg
      <4>4. QED
        BY <1>2, <2>1, <4>1, <4>3 DEF MultiStage, PanelOps, LoopStage, InLoop, Late, Turn,
           EditMulti, multiTable
    <3>3. QED
      BY <3>1, <3>2
  <2>11. QED
    BY <1>1, <2>1, <2>2, <2>5, <2>7, <2>8, <2>9, <2>10, AloneFollows, PanelsFollow, MultisFollow
<1>5. ASSUME /\ ~IsLive(OldMulti(req[h]).chan, OldMulti(req[h]).msg) /\ UNCHANGED discord
             /\ Changed(h, {"at"}) /\ req'[h].at = "sendMulti"
     PROVE  Alone' /\ PanelsInv' /\ MultisInv'
  <2>1. /\ req'[h].op = req[h].op /\ req'[h].on = req[h].on /\ req'[h].chan = req[h].chan
        /\ req'[h].panels = req[h].panels /\ req'[h].old = req[h].old
        /\ req'[h].mold = req[h].mold /\ req'[h].msg = req[h].msg
        /\ req'[h].embed = req[h].embed /\ req'[h].todo = req[h].todo
        /\ req'[h].list = req[h].list /\ req'[h].at = "sendMulti"
    BY <1>5 DEF Changed, Fields
  <2>2. Follows(h) /\ req'[h] # Idle
    BY <1>1, <1>2, <1>3, <1>5, ChangedFollows
  <2>3. PICK t \in DOMAIN req[h].mold : req[h].panels = {t}
    BY <1>1, <1>2 DEF Equipped
  <2>4. /\ Multi(req[h]) = t /\ OldMulti(req[h]) = req[h].mold[t] /\ t \in Multis /\ t \notin Panels
        /\ Of(req[h].mold[t].msg, t) /\ t # req[h].on
    BY <1>1, <1>2, <2>3, TheMulti, PanelMessagesAssumption DEF Reqs, Molds, HandlerOwn
  <2>5. faults' = faults
    BY <1>1, <1>5 DEF EditMulti, book
  <2>6. \A o : Own(o)' = Own(o)
    BY <1>5, OwnSame DEF EditMulti
  <2>7. \A p \in Panels : ~On(h, p) => SamePanel(p)
    BY <1>1, <1>2, <1>5, <2>4, <2>6, PanelMessagesAssumption DEF On, SamePanel, EditMulti,
       panelTable, PanelsOK, PanelOps, MultiOps
  <2>8. ASSUME NEW p \in Panels \ raced, On(h, p), PanelStage(req[h], p)
        PROVE  PanelStage(req[h], p)'
    BY <1>2, <1>5, <2>1, <2>4, <2>6, <2>8, PanelMessagesAssumption DEF On, PanelStage, PanelRests,
       Untouched, EditMulti, panelTable
  <2>9. \A m \in Multis : ~Touched(h, m) => SameMulti(m) /\ stored \subseteq stored'
    BY <1>2 DEF Touched, Touches
  <2>10. ASSUME Few, NEW m \in Multis \ raced, Touched(h, m), MultiStage(req[h], m)
        PROVE  MultiStage(req[h], m)'
    <3>1. CASE m # t
      <4>1. LoopStage(req[h], m) /\ ~Turn(req[h], m) /\ ~Turn(req'[h], m)
        BY <1>2, <2>1, <2>3, <2>10, <3>1 DEF MultiStage, PanelOps, Turn
      <4>2. Own(m)' = Own(m) /\ mrow'[m] = mrow[m] /\ UNCHANGED <<mstored, targets>>
        BY <1>1, <2>6, <2>3, <2>4, <2>10, <3>1 DEF EditMulti, multiTable, SetMultiMessage,
           MultisOK
      <4>3. LoopStage(req[h], m)'
        BY <1>2, <2>1, <4>1, <4>2 DEF LoopStage, InLoop, Late, Turn, MultiRests, MultiMsg
      <4>4. QED
        BY <1>2, <2>1, <4>3 DEF MultiStage, PanelOps
    <3>2. CASE m = t
      <4>1. LoopStage(req[h], m) /\ Turn(req[h], m)
        BY <1>2, <2>3, <2>10, <3>2 DEF MultiStage, PanelOps, Turn
      <4>2. Own(m) = {Msg(req[h].mold[m].msg, req[h].mold[m].chan, m, targets[m])}
        BY <1>2, <4>1 DEF LoopStage, Late, MultiRests, MultiMsg
      <4>3. QED
        BY <1>5, <2>4, <3>2, <4>2, OwnIsLive
    <3>3. QED
      BY <3>1, <3>2
  <2>11. QED
    BY <1>1, <2>1, <2>2, <2>5, <2>7, <2>8, <2>9, <2>10, AloneFollows, PanelsFollow, MultisFollow
<1>6. QED
  BY <1>4, <1>5, EditMultiStep

LEMMA SendMultiSettles ==
    ASSUME BaseInv, OwnInv, SettleInv, NEW h \in Handlers, SendMulti(h)
    PROVE  Alone' /\ PanelsInv' /\ MultisInv'
<1>1. /\ Alone /\ PanelsInv /\ MultisInv /\ LiveOwn /\ RowsOwn /\ HandlerOwn(req[h])
      /\ req \in [Handlers -> Reqs] /\ req[h] \in Reqs /\ InPlace(req[h]) /\ Equipped(req[h])
      /\ PanelsOK /\ MultisOK /\ BookOK
  BY DEF SettleInv, OwnInv, HandlersOwn, BaseInv, ReqInv
<1>2. /\ req[h].at = "sendMulti" /\ req[h].op \in {"UpdatePanel", "DeletePanel"}
      /\ req[h].on \in Panels
  BY <1>1, Whereabouts DEF SendMulti, At, InPlace, PanelOps, MultiOps
<1>3. raced' = raced
  BY DEF SendMulti, book
<1>4. ASSUME /\ faults' = faults + 1 /\ Finish(h)
     PROVE  Alone' /\ PanelsInv' /\ MultisInv'
  <2>1. req'[h] = Idle /\ Follows(h)
    BY <1>1, <1>2, <1>3, <1>4, FinishFollows
  <2>2. QED
    BY <1>1, <1>4, <2>1, AloneFollows, Faulty
<1>5. ASSUME /\ UNCHANGED faults
             /\ Send(h, Multi(req[h]), OldMulti(req[h]).chan, req[h].list, "recordMulti")
             /\ Changed(h, {"msg", "at"}) /\ req'[h].msg = Len(sentBy) + 1
             /\ req'[h].at = "recordMulti"
     PROVE  Alone' /\ PanelsInv' /\ MultisInv'
  <2>1. /\ req'[h].op = req[h].op /\ req'[h].on = req[h].on /\ req'[h].chan = req[h].chan
        /\ req'[h].panels = req[h].panels /\ req'[h].old = req[h].old
        /\ req'[h].mold = req[h].mold /\ req'[h].embed = req[h].embed
        /\ req'[h].todo = req[h].todo /\ req'[h].list = req[h].list
        /\ req'[h].msg = Len(sentBy) + 1 /\ req'[h].at = "recordMulti"
    BY <1>5 DEF Changed, Fields
  <2>2. Follows(h) /\ req'[h] # Idle
    BY <1>1, <1>2, <1>3, <1>5, ChangedFollows
  <2>3. PICK t \in DOMAIN req[h].mold : req[h].panels = {t}
    BY <1>1, <1>2 DEF Equipped
  <2>4. /\ Multi(req[h]) = t /\ OldMulti(req[h]) = req[h].mold[t] /\ t \in Multis /\ t \notin Panels
        /\ Of(req[h].mold[t].msg, t) /\ t # req[h].on
    BY <1>1, <1>2, <2>3, TheMulti, PanelMessagesAssumption DEF Reqs, Molds, HandlerOwn
  <2>5. faults' = faults
    BY <1>1, <1>5 DEF SendMulti, book
  <2>6. /\ \A q : q # t => Own(q)' = Own(q)
        /\ Own(t)' = Own(t) \union {Msg(Len(sentBy) + 1, req[h].mold[t].chan, t, req[h].list)}
    <3>1. ASSUME NEW id, NEW c, NEW S, id = Len(sentBy) + 1, c = req[h].mold[t].chan, S = req[h].list
          PROVE  /\ \A q : q # t => Own(q)' = Own(q)
                 /\ Own(t)' = Own(t) \union {Msg(id, c, t, S)}
      <4>1. live' = live \union {Msg(id, c, t, S)}
        BY <1>5, <2>4, <3>1 DEF Send, Msg
      <4>2. QED
        BY <4>1, OwnSent
    <3>2. QED
      BY <3>1
  <2>7. \A p \in Panels : ~On(h, p) => SamePanel(p)
    BY <1>1, <1>2, <1>5, <2>4, <2>6, PanelMessagesAssumption DEF On, SamePanel, SendMulti,
       panelTable, PanelsOK, PanelOps, MultiOps
  <2>8. ASSUME NEW p \in Panels \ raced, On(h, p), PanelStage(req[h], p)
        PROVE  PanelStage(req[h], p)'
    BY <1>2, <1>5, <2>1, <2>4, <2>6, <2>8, PanelMessagesAssumption DEF On, PanelStage, PanelRests,
       Untouched, SendMulti, panelTable
  <2>9. \A m \in Multis : ~Touched(h, m) => SameMulti(m) /\ stored \subseteq stored'
    BY <1>2 DEF Touched, Touches
  <2>10. ASSUME Few, NEW m \in Multis \ raced, Touched(h, m), MultiStage(req[h], m)
        PROVE  MultiStage(req[h], m)'
    <3>1. CASE m # t
      <4>1. LoopStage(req[h], m) /\ ~Turn(req[h], m) /\ ~Turn(req'[h], m)
        BY <1>2, <2>1, <2>3, <2>10, <3>1 DEF MultiStage, PanelOps, Turn
      <4>2. Own(m)' = Own(m) /\ mrow'[m] = mrow[m] /\ UNCHANGED <<mstored, targets>>
        BY <1>1, <2>6, <2>3, <2>4, <2>10, <3>1 DEF SendMulti, multiTable, SetMultiMessage,
           MultisOK
      <4>3. LoopStage(req[h], m)'
        BY <1>2, <2>1, <4>1, <4>2 DEF LoopStage, InLoop, Late, Turn, MultiRests, MultiMsg
      <4>4. QED
        BY <1>2, <2>1, <4>3 DEF MultiStage, PanelOps
    <3>2. CASE m = t
      <4>1. LoopStage(req[h], m) /\ Turn(req[h], m)
        BY <1>2, <2>3, <2>10, <3>2 DEF MultiStage, PanelOps, Turn
      <4>2. /\ m \in mstored /\ req[h].op = "DeletePanel" /\ req[h].list = targets[m]
            /\ req[h].mold[m] = mrow[m] /\ m \notin req[h].todo /\ req[h].on \notin targets[m]
            /\ Own(m) = {MultiMsg(m, targets[m] \union {req[h].on})}
        BY <1>2, <4>1 DEF LoopStage, Late, InLoop
      <4>3. req'[h].msg # mrow[m].msg
        BY <1>1, <2>1, <2>10 DEF RowsOwn, Of, BaseInv, DiscordOK
      <4>4. /\ UNCHANGED <<mstored, mrow, targets>>
            /\ Own(m)' = {MultiMsg(m, targets[m] \union {req[h].on}), Msg(req'[h].msg, mrow[m].chan, m, targets[m])}
        BY <2>1, <2>6, <3>2, <4>2 DEF SendMulti, multiTable
      <4>5. QED
        BY <1>2, <2>1, <2>3, <3>2, <4>2, <4>3, <4>4 DEF MultiStage, PanelOps, LoopStage, InLoop,
           Late, Turn, MultiMsg
    <3>3. QED
      BY <3>1, <3>2
  <2>11. QED
    BY <1>1, <2>1, <2>2, <2>5, <2>7, <2>8, <2>9, <2>10, AloneFollows, PanelsFollow, MultisFollow
<1>6. ASSUME /\ faults' = faults + 1 /\ UNCHANGED discord /\ Changed(h, {"at"})
             /\ req'[h].at = "next"
     PROVE  Alone' /\ PanelsInv' /\ MultisInv'
  <2>1. /\ req'[h].op = req[h].op /\ req'[h].on = req[h].on /\ req'[h].chan = req[h].chan
        /\ req'[h].panels = req[h].panels /\ req'[h].old = req[h].old
        /\ req'[h].mold = req[h].mold /\ req'[h].msg = req[h].msg
        /\ req'[h].embed = req[h].embed /\ req'[h].todo = req[h].todo
        /\ req'[h].list = req[h].list /\ req'[h].at = "next"
    BY <1>6 DEF Changed, Fields
  <2>2. Follows(h) /\ req'[h] # Idle
    BY <1>1, <1>2, <1>3, <1>6, ChangedFollows
  <2>3. QED
    BY <1>1, <1>6, <2>2, AloneFollows, Faulty
<1>7. QED
  BY <1>4, <1>5, <1>6, SendMultiStep

LEMMA RecordMultiSettles ==
    ASSUME BaseInv, OwnInv, SettleInv, NEW h \in Handlers, RecordMulti(h)
    PROVE  Alone' /\ PanelsInv' /\ MultisInv'
<1>1. /\ Alone /\ PanelsInv /\ MultisInv /\ LiveOwn /\ RowsOwn /\ HandlerOwn(req[h])
      /\ req \in [Handlers -> Reqs] /\ req[h] \in Reqs /\ InPlace(req[h]) /\ Equipped(req[h])
      /\ PanelsOK /\ MultisOK /\ BookOK
  BY DEF SettleInv, OwnInv, HandlersOwn, BaseInv, ReqInv
<1>2. /\ req[h].at = "recordMulti" /\ req[h].op \in {"UpdatePanel", "DeletePanel"}
      /\ req[h].on \in Panels
  BY <1>1, Whereabouts DEF RecordMulti, At, InPlace, PanelOps, MultiOps
<1>3. raced' = raced
  BY DEF RecordMulti, book
<1>4. ASSUME /\ Changed(h, {"at"})
             /\ req'[h].at = (IF req[h].op = "DeletePanel" THEN "deleteMulti" ELSE "next")
     PROVE  Alone' /\ PanelsInv' /\ MultisInv'
  <2>1. /\ req'[h].op = req[h].op /\ req'[h].on = req[h].on /\ req'[h].chan = req[h].chan
        /\ req'[h].panels = req[h].panels /\ req'[h].old = req[h].old
        /\ req'[h].mold = req[h].mold /\ req'[h].msg = req[h].msg
        /\ req'[h].embed = req[h].embed /\ req'[h].todo = req[h].todo
        /\ req'[h].list = req[h].list
        /\ req'[h].at = (IF req[h].op = "DeletePanel" THEN "deleteMulti" ELSE "next")
    BY <1>4 DEF Changed, Fields
  <2>2. Follows(h) /\ req'[h] # Idle
    BY <1>1, <1>2, <1>3, <1>4, ChangedFollows
  <2>3. PICK t \in DOMAIN req[h].mold : req[h].panels = {t}
    BY <1>1, <1>2 DEF Equipped
  <2>4. /\ Multi(req[h]) = t /\ OldMulti(req[h]) = req[h].mold[t] /\ t \in Multis /\ t \notin Panels
        /\ Of(req[h].mold[t].msg, t) /\ t # req[h].on
    BY <1>1, <1>2, <2>3, TheMulti, PanelMessagesAssumption DEF Reqs, Molds, HandlerOwn
  <2>5. faults' = faults
    BY <1>1, <1>4 DEF RecordMulti, book
  <2>6. \A o : Own(o)' = Own(o)
    BY <1>4, OwnSame DEF RecordMulti
  <2>7. \A p \in Panels : ~On(h, p) => SamePanel(p)
    BY <1>1, <1>2, <1>4, <2>4, <2>6, PanelMessagesAssumption DEF On, SamePanel, RecordMulti,
       panelTable, PanelsOK, PanelOps, MultiOps
  <2>8. ASSUME NEW p \in Panels \ raced, On(h, p), PanelStage(req[h], p)
        PROVE  PanelStage(req[h], p)'
    BY <1>2, <1>4, <2>1, <2>4, <2>6, <2>8, PanelMessagesAssumption DEF On, PanelStage, PanelRests,
       Untouched, RecordMulti, panelTable
  <2>9. \A m \in Multis : ~Touched(h, m) => SameMulti(m) /\ stored \subseteq stored'
    BY <1>2 DEF Touched, Touches
  <2>10. ASSUME Few, NEW m \in Multis \ raced, Touched(h, m), MultiStage(req[h], m)
        PROVE  MultiStage(req[h], m)'
    <3>1. CASE m # t
      <4>1. LoopStage(req[h], m) /\ ~Turn(req[h], m) /\ ~Turn(req'[h], m)
        BY <1>2, <2>1, <2>3, <2>10, <3>1 DEF MultiStage, PanelOps, Turn
      <4>2. Own(m)' = Own(m) /\ mrow'[m] = mrow[m] /\ UNCHANGED <<mstored, targets>>
        BY <1>1, <2>6, <2>3, <2>4, <2>10, <3>1 DEF RecordMulti, multiTable, SetMultiMessage,
           MultisOK
      <4>3. LoopStage(req[h], m)'
        BY <1>2, <2>1, <4>1, <4>2 DEF LoopStage, InLoop, Late, Turn, MultiRests, MultiMsg
      <4>4. QED
        BY <1>2, <2>1, <4>3 DEF MultiStage, PanelOps
    <3>2. CASE m = t
      <4>1. LoopStage(req[h], m) /\ Turn(req[h], m)
        BY <1>2, <2>3, <2>10, <3>2 DEF MultiStage, PanelOps, Turn
      <4>2. /\ m \in mstored /\ req[h].op = "DeletePanel" /\ req[h].list = targets[m]
            /\ req[h].mold[m] = mrow[m] /\ m \notin req[h].todo /\ req[h].on \notin targets[m]
            /\ req[h].msg # mrow[m].msg
            /\ Own(m) = {MultiMsg(m, targets[m] \union {req[h].on}), Msg(req[h].msg, mrow[m].chan, m, targets[m])}
        BY <1>2, <4>1 DEF LoopStage, Late, InLoop
      <4>3. mrow'[m] = With(mrow[m], [msg |-> req[h].msg]) /\ UNCHANGED <<mstored, targets>>
        BY <1>1, <2>4, <3>2, <4>2 DEF RecordMulti, SetMultiMessage, MultisOK
      <4>4. mrow'[m].chan = mrow[m].chan /\ mrow'[m].msg = req[h].msg
        BY <1>1, <4>2, <4>3 DEF MultisOK, MRow, With
      <4>5. Own(m)' = {Msg(req[h].mold[m].msg, mrow'[m].chan, m, targets'[m] \union {req[h].on}),
                       Msg(mrow'[m].msg, mrow'[m].chan, m, targets'[m])}
        BY <2>6, <4>2, <4>3, <4>4 DEF MultiMsg
      <4>6. QED
        BY <1>2, <2>1, <2>3, <3>2, <4>2, <4>3, <4>4, <4>5 DEF MultiStage, PanelOps, LoopStage,
           InLoop, Late, Turn, MultiMsg
    <3>3. QED
      BY <3>1, <3>2
  <2>11. QED
    BY <1>1, <2>1, <2>2, <2>5, <2>7, <2>8, <2>9, <2>10, AloneFollows, PanelsFollow, MultisFollow
<1>5. QED
  BY <1>4, RecordMultiStep

LEMMA DeleteMultiSettles ==
    ASSUME BaseInv, OwnInv, SettleInv, NEW h \in Handlers, DeleteMulti(h)
    PROVE  Alone' /\ PanelsInv' /\ MultisInv'
<1>1. /\ Alone /\ PanelsInv /\ MultisInv /\ LiveOwn /\ RowsOwn /\ HandlerOwn(req[h])
      /\ req \in [Handlers -> Reqs] /\ req[h] \in Reqs /\ InPlace(req[h]) /\ Equipped(req[h])
      /\ PanelsOK /\ MultisOK /\ BookOK
  BY DEF SettleInv, OwnInv, HandlersOwn, BaseInv, ReqInv
<1>2. /\ req[h].at = "deleteMulti" /\ req[h].op = "DeletePanel" /\ req[h].on \in Panels
  BY <1>1, Whereabouts DEF DeleteMulti, At, InPlace, PanelOps, MultiOps
<1>3. raced' = raced
  BY DEF DeleteMulti, book
<1>4. ASSUME /\ faults' = faults + 1 /\ Changed(h, {"at"}) /\ req'[h].at = "next"
     PROVE  Alone' /\ PanelsInv' /\ MultisInv'
  <2>1. /\ req'[h].op = req[h].op /\ req'[h].on = req[h].on /\ req'[h].chan = req[h].chan
        /\ req'[h].panels = req[h].panels /\ req'[h].old = req[h].old
        /\ req'[h].mold = req[h].mold /\ req'[h].msg = req[h].msg
        /\ req'[h].embed = req[h].embed /\ req'[h].todo = req[h].todo
        /\ req'[h].list = req[h].list /\ req'[h].at = "next"
    BY <1>4 DEF Changed, Fields
  <2>2. Follows(h) /\ req'[h] # Idle
    BY <1>1, <1>2, <1>3, <1>4, ChangedFollows
  <2>3. QED
    BY <1>1, <1>4, <2>2, AloneFollows, Faulty
<1>5. ASSUME /\ faults' = faults
             /\ DeleteMessage(OldMulti(req[h]).chan, OldMulti(req[h]).msg)
             /\ Changed(h, {"at"}) /\ req'[h].at = "next"
     PROVE  Alone' /\ PanelsInv' /\ MultisInv'
  <2>1. /\ req'[h].op = req[h].op /\ req'[h].on = req[h].on /\ req'[h].chan = req[h].chan
        /\ req'[h].panels = req[h].panels /\ req'[h].old = req[h].old
        /\ req'[h].mold = req[h].mold /\ req'[h].msg = req[h].msg
        /\ req'[h].embed = req[h].embed /\ req'[h].todo = req[h].todo
        /\ req'[h].list = req[h].list /\ req'[h].at = "next"
    BY <1>5 DEF Changed, Fields
  <2>2. Follows(h) /\ req'[h] # Idle
    BY <1>1, <1>2, <1>3, <1>5, ChangedFollows
  <2>3. PICK t \in DOMAIN req[h].mold : req[h].panels = {t}
    BY <1>1, <1>2 DEF Equipped
  <2>4. /\ Multi(req[h]) = t /\ OldMulti(req[h]) = req[h].mold[t] /\ t \in Multis /\ t \notin Panels
        /\ Of(req[h].mold[t].msg, t) /\ t # req[h].on
    BY <1>1, <1>2, <2>3, TheMulti, PanelMessagesAssumption DEF Reqs, Molds, HandlerOwn
  <2>5. faults' = faults
    BY <1>1, <1>5 DEF DeleteMulti, book
  <2>6. /\ \A q : q # t => Own(q)' = Own(q)
        /\ Own(t)' = {x \in Own(t) : ~(x.chan = req[h].mold[t].chan /\ x.id = req[h].mold[t].msg)}
    <3>1. ASSUME NEW id, NEW c, id = req[h].mold[t].msg, c = req[h].mold[t].chan
          PROVE  /\ \A q : q # t => Own(q)' = Own(q)
                 /\ Own(t)' = {x \in Own(t) : ~(x.chan = c /\ x.id = id)}
      <4>1. DeleteMessage(c, id)
        BY <1>5, <2>4, <3>1
      <4>2. QED
        BY <1>1, <2>4, <3>1, <4>1, OwnDeleted
    <3>2. QED
      BY <3>1
  <2>7. \A p \in Panels : ~On(h, p) => SamePanel(p)
    BY <1>1, <1>2, <1>5, <2>4, <2>6, PanelMessagesAssumption DEF On, SamePanel, DeleteMulti,
       panelTable, PanelsOK, PanelOps, MultiOps
  <2>8. ASSUME NEW p \in Panels \ raced, On(h, p), PanelStage(req[h], p)
        PROVE  PanelStage(req[h], p)'
    BY <1>2, <1>5, <2>1, <2>4, <2>6, <2>8, PanelMessagesAssumption DEF On, PanelStage, PanelRests,
       Untouched, DeleteMulti, panelTable
  <2>9. \A m \in Multis : ~Touched(h, m) => SameMulti(m) /\ stored \subseteq stored'
    BY <1>2 DEF Touched, Touches
  <2>10. ASSUME Few, NEW m \in Multis \ raced, Touched(h, m), MultiStage(req[h], m)
        PROVE  MultiStage(req[h], m)'
    <3>1. CASE m # t
      <4>1. LoopStage(req[h], m) /\ ~Turn(req[h], m) /\ ~Turn(req'[h], m)
        BY <1>2, <2>1, <2>3, <2>10, <3>1 DEF MultiStage, PanelOps, Turn
      <4>2. Own(m)' = Own(m) /\ mrow'[m] = mrow[m] /\ UNCHANGED <<mstored, targets>>
        BY <1>1, <2>6, <2>3, <2>4, <2>10, <3>1 DEF DeleteMulti, multiTable, SetMultiMessage,
           MultisOK
      <4>3. LoopStage(req[h], m)'
        BY <1>2, <2>1, <4>1, <4>2 DEF LoopStage, InLoop, Late, Turn, MultiRests, MultiMsg
      <4>4. QED
        BY <1>2, <2>1, <4>3 DEF MultiStage, PanelOps
    <3>2. CASE m = t
      <4>1. LoopStage(req[h], m) /\ Turn(req[h], m)
        BY <1>2, <2>3, <2>10, <3>2 DEF MultiStage, PanelOps, Turn
      <4>2. /\ m \in mstored /\ req[h].mold[m].chan = mrow[m].chan /\ req[h].mold[m].msg # mrow[m].msg
            /\ Own(m) = {Msg(req[h].mold[m].msg, mrow[m].chan, m, targets[m] \union {req[h].on}), MultiMsg(m, targets[m])}
            /\ m \notin req[h].todo /\ req[h].on \notin targets[m]
        BY <1>2, <4>1 DEF LoopStage, Late, InLoop
      <4>3. Own(m)' = {MultiMsg(m, targets[m])}
        BY <2>6, <3>2, <4>2, TheOnlyOne DEF MultiMsg
      <4>4. MultiRests(m)' /\ UNCHANGED <<mstored, mrow, targets>>
        BY <4>2, <4>3 DEF DeleteMulti, multiTable, MultiRests, MultiMsg
      <4>5. QED
        BY <1>2, <2>1, <4>2, <4>4 DEF MultiStage, PanelOps, LoopStage, InLoop, Late, Turn
    <3>3. QED
      BY <3>1, <3>2
  <2>11. QED
    BY <1>1, <2>1, <2>2, <2>5, <2>7, <2>8, <2>9, <2>10, AloneFollows, PanelsFollow, MultisFollow
<1>6. QED
  BY <1>4, <1>5, DeleteMultiStep DEF DeleteMulti

LEMMA LoadMultiSettles ==
    ASSUME BaseInv, OwnInv, SettleInv, NEW h \in Handlers, LoadMulti(h)
    PROVE  Alone' /\ PanelsInv' /\ MultisInv'
<1>1. /\ Alone /\ PanelsInv /\ MultisInv /\ LiveOwn /\ RowsOwn /\ HandlerOwn(req[h])
      /\ req \in [Handlers -> Reqs] /\ req[h] \in Reqs /\ InPlace(req[h]) /\ Equipped(req[h])
      /\ PanelsOK /\ MultisOK /\ BookOK
  BY DEF SettleInv, OwnInv, HandlersOwn, BaseInv, ReqInv
<1>2. /\ req[h].at = "load"
      /\ req[h].op \in {"MultiPanelCreate", "MultiPanelUpdate", "MultiPanelResend", "MultiPanelDelete"}
      /\ req[h].on \in Multis
  BY <1>1, Whereabouts DEF LoadMulti, At, InPlace, PanelOps, MultiOps
<1>3. raced' = raced
  BY DEF LoadMulti, book
<1>4. ASSUME /\ Finish(h)
     PROVE  Alone' /\ PanelsInv' /\ MultisInv'
  <2>1. req'[h] = Idle /\ Follows(h)
    BY <1>1, <1>2, <1>3, <1>4, FinishFollows
  <2>2. faults' = faults
    BY <1>1, <1>4 DEF LoadMulti, book
  <2>3. \A o : Own(o)' = Own(o)
    BY <1>4, OwnSame DEF LoadMulti
  <2>4. \A p \in Panels : ~On(h, p) => SamePanel(p)
    BY <1>1, <1>2, <1>4, <2>3, PanelMessagesAssumption DEF On, SamePanel, LoadMulti, panelTable,
       PanelsOK, PanelOps, MultiOps
  <2>5. ASSUME NEW p \in Panels \ raced, On(h, p), PanelStage(req[h], p)
        PROVE  PanelRests(p)'
    BY <1>2, <2>5, PanelMessagesAssumption DEF On
  <2>6. \A m \in Multis : ~Touched(h, m) => SameMulti(m) /\ stored \subseteq stored'
    BY <1>1, <1>2, <1>4, <2>3, PanelMessagesAssumption DEF Touched, Touches, SameMulti, LoadMulti,
       multiTable, panelTable, MultisOK
  <2>7. ASSUME Few, NEW m \in Multis \ raced, Touched(h, m), MultiStage(req[h], m)
        PROVE  MultiRests(m)'
    BY <1>2, <1>4, <2>1, <2>3, <2>7, PanelMessagesAssumption DEF Touched, Touches, MultiStage,
       PanelOps, MultiOps, OwnStage, MultiRests, MultiMsg, LoadMulti, multiTable, panelTable
  <2>8. QED
    BY <1>1, <2>1, <2>2, <2>4, <2>5, <2>6, <2>7, AloneFollows, PanelsFollow, MultisFollow
<1>5. ASSUME /\ (req[h].op # "MultiPanelCreate" => req[h].on \in mstored)
             /\ (req[h].op \in {"MultiPanelCreate", "MultiPanelUpdate"} => ValidPanels(req[h].panels))
             /\ Changed(h, {"mold", "list", "at"}) /\ req'[h].mold = mrow
             /\ req'[h].list = req[h].panels
             /\ req'[h].at = (IF req[h].op = "MultiPanelCreate" THEN "sendOwn" ELSE "oldOwn")
     PROVE  Alone' /\ PanelsInv' /\ MultisInv'
  <2>1. /\ req'[h].op = req[h].op /\ req'[h].on = req[h].on /\ req'[h].chan = req[h].chan
        /\ req'[h].panels = req[h].panels /\ req'[h].old = req[h].old
        /\ req'[h].msg = req[h].msg /\ req'[h].embed = req[h].embed
        /\ req'[h].todo = req[h].todo /\ req'[h].mold = mrow /\ req'[h].list = req[h].panels
        /\ req'[h].at = (IF req[h].op = "MultiPanelCreate" THEN "sendOwn" ELSE "oldOwn")
    BY <1>5 DEF Changed, Fields
  <2>2. Follows(h) /\ req'[h] # Idle
    BY <1>1, <1>2, <1>3, <1>5, ChangedFollows
  <2>3. faults' = faults
    BY <1>1, <1>5 DEF LoadMulti, book
  <2>4. \A o : Own(o)' = Own(o)
    BY <1>5, OwnSame DEF LoadMulti
  <2>5. \A p \in Panels : ~On(h, p) => SamePanel(p)
    BY <1>1, <1>2, <1>5, <2>4, PanelMessagesAssumption DEF On, SamePanel, LoadMulti, panelTable,
       PanelsOK, PanelOps, MultiOps
  <2>6. ASSUME NEW p \in Panels \ raced, On(h, p), PanelStage(req[h], p)
        PROVE  PanelStage(req[h], p)'
    BY <1>2, <2>6, PanelMessagesAssumption DEF On
  <2>7. \A m \in Multis : ~Touched(h, m) => SameMulti(m) /\ stored \subseteq stored'
    BY <1>1, <1>2, <1>5, <2>4, PanelMessagesAssumption DEF Touched, Touches, SameMulti, LoadMulti,
       multiTable, panelTable, MultisOK
  <2>8. ASSUME Few, NEW m \in Multis \ raced, Touched(h, m), MultiStage(req[h], m)
        PROVE  MultiStage(req[h], m)'
    <3>1. m = req[h].on /\ OwnStage(req[h], m) /\ req[h].op \notin PanelOps
      BY <1>2, <2>8 DEF Touched, Touches, MultiStage, PanelOps
    <3>2. UNCHANGED <<stored, mstored, mrow, targets>>
      BY DEF LoadMulti, multiTable, panelTable
    <3>3. req[h].op \in {"MultiPanelCreate", "MultiPanelUpdate"} => req[h].panels \subseteq stored
      BY <1>5 DEF ValidPanels
    <3>4. req[h].op # "MultiPanelCreate" => MultiRests(m)'
      BY <1>2, <2>4, <3>1, <3>2 DEF OwnStage, MultiRests, MultiMsg
    <3>5. QED
      BY <1>2, <1>5, <2>1, <2>4, <3>1, <3>2, <3>3, <3>4 DEF MultiStage, PanelOps, OwnStage
  <2>9. QED
    BY <1>1, <2>1, <2>2, <2>3, <2>5, <2>6, <2>7, <2>8, AloneFollows, PanelsFollow, MultisFollow
<1>6. QED
  BY <1>4, <1>5, LoadMultiStep

LEMMA ListOwnSettles ==
    ASSUME BaseInv, OwnInv, SettleInv, NEW h \in Handlers, ListOwn(h)
    PROVE  Alone' /\ PanelsInv' /\ MultisInv'
<1>1. /\ Alone /\ PanelsInv /\ MultisInv /\ LiveOwn /\ RowsOwn /\ HandlerOwn(req[h])
      /\ req \in [Handlers -> Reqs] /\ req[h] \in Reqs /\ InPlace(req[h]) /\ Equipped(req[h])
      /\ PanelsOK /\ MultisOK /\ BookOK
  BY DEF SettleInv, OwnInv, HandlersOwn, BaseInv, ReqInv
<1>2. /\ req[h].at = "listOwn" /\ req[h].op = "MultiPanelResend" /\ req[h].on \in Multis
  BY <1>1, Whereabouts DEF ListOwn, At, InPlace, PanelOps, MultiOps
<1>3. raced' = raced
  BY DEF ListOwn, book
<1>4. ASSUME /\ Changed(h, {"list", "at"}) /\ req'[h].list = targets[req[h].on]
             /\ req'[h].at = "sendOwn"
     PROVE  Alone' /\ PanelsInv' /\ MultisInv'
  <2>1. /\ req'[h].op = req[h].op /\ req'[h].on = req[h].on /\ req'[h].chan = req[h].chan
        /\ req'[h].panels = req[h].panels /\ req'[h].old = req[h].old
        /\ req'[h].mold = req[h].mold /\ req'[h].msg = req[h].msg
        /\ req'[h].embed = req[h].embed /\ req'[h].todo = req[h].todo
        /\ req'[h].list = targets[req[h].on] /\ req'[h].at = "sendOwn"
    BY <1>4 DEF Changed, Fields
  <2>2. Follows(h) /\ req'[h] # Idle
    BY <1>1, <1>2, <1>3, <1>4, ChangedFollows
  <2>3. faults' = faults
    BY <1>1, <1>4 DEF ListOwn, book
  <2>4. \A o : Own(o)' = Own(o)
    BY <1>4, OwnSame DEF ListOwn
  <2>5. \A p \in Panels : ~On(h, p) => SamePanel(p)
    BY <1>1, <1>2, <1>4, <2>4, PanelMessagesAssumption DEF On, SamePanel, ListOwn, panelTable,
       PanelsOK, PanelOps, MultiOps
  <2>6. ASSUME NEW p \in Panels \ raced, On(h, p), PanelStage(req[h], p)
        PROVE  PanelStage(req[h], p)'
    BY <1>2, <2>6, PanelMessagesAssumption DEF On
  <2>7. \A m \in Multis : ~Touched(h, m) => SameMulti(m) /\ stored \subseteq stored'
    BY <1>1, <1>2, <1>4, <2>4, PanelMessagesAssumption DEF Touched, Touches, SameMulti, ListOwn,
       multiTable, panelTable, MultisOK
  <2>8. ASSUME Few, NEW m \in Multis \ raced, Touched(h, m), MultiStage(req[h], m)
        PROVE  MultiStage(req[h], m)'
    BY <1>2, <1>4, <2>1, <2>4, <2>8, PanelMessagesAssumption DEF Touched, Touches, MultiStage,
       PanelOps, MultiOps, OwnStage, MultiRests, MultiMsg, ListOwn, multiTable, panelTable
  <2>9. QED
    BY <1>1, <2>1, <2>2, <2>3, <2>5, <2>6, <2>7, <2>8, AloneFollows, PanelsFollow, MultisFollow
<1>5. QED
  BY <1>4, ListOwnStep

LEMMA SendOwnSettles ==
    ASSUME BaseInv, OwnInv, SettleInv, NEW h \in Handlers, SendOwn(h)
    PROVE  Alone' /\ PanelsInv' /\ MultisInv'
<1>1. /\ Alone /\ PanelsInv /\ MultisInv /\ LiveOwn /\ RowsOwn /\ HandlerOwn(req[h])
      /\ req \in [Handlers -> Reqs] /\ req[h] \in Reqs /\ InPlace(req[h]) /\ Equipped(req[h])
      /\ PanelsOK /\ MultisOK /\ BookOK
  BY DEF SettleInv, OwnInv, HandlersOwn, BaseInv, ReqInv
<1>2. /\ req[h].at = "sendOwn"
      /\ req[h].op \in {"MultiPanelCreate", "MultiPanelUpdate", "MultiPanelResend"}
      /\ req[h].on \in Multis
  BY <1>1, Whereabouts DEF SendOwn, At, InPlace, PanelOps, MultiOps
<1>3. raced' = raced
  BY DEF SendOwn, book
<1>4. ASSUME /\ faults' = faults + 1 /\ Finish(h)
     PROVE  Alone' /\ PanelsInv' /\ MultisInv'
  <2>1. req'[h] = Idle /\ Follows(h)
    BY <1>1, <1>2, <1>3, <1>4, FinishFollows
  <2>2. QED
    BY <1>1, <1>4, <2>1, AloneFollows, Faulty
<1>5. ASSUME /\ UNCHANGED faults /\ Changed(h, {"msg", "at"})
             /\ req'[h].msg = Len(sentBy) + 1 /\ req'[h].at = "storeOwn"
     PROVE  Alone' /\ PanelsInv' /\ MultisInv'
  <2>1. /\ req'[h].op = req[h].op /\ req'[h].on = req[h].on /\ req'[h].chan = req[h].chan
        /\ req'[h].panels = req[h].panels /\ req'[h].old = req[h].old
        /\ req'[h].mold = req[h].mold /\ req'[h].embed = req[h].embed
        /\ req'[h].todo = req[h].todo /\ req'[h].list = req[h].list
        /\ req'[h].msg = Len(sentBy) + 1 /\ req'[h].at = "storeOwn"
    BY <1>5 DEF Changed, Fields
  <2>2. Follows(h) /\ req'[h] # Idle
    BY <1>1, <1>2, <1>3, <1>5, ChangedFollows
  <2>3. faults' = faults
    BY <1>1, <1>5 DEF SendOwn, book
  <2>4. /\ \A q : q # req[h].on => Own(q)' = Own(q)
        /\ \A q, c : q = req[h].on /\ c = (IF req[h].op = "MultiPanelResend" THEN req[h].mold[q].chan ELSE req[h].chan) =>
             Own(q)' = Own(q) \union {Msg(Len(sentBy) + 1, c, q, req[h].list)}
    <3>1. Send(h, req[h].on, IF req[h].op = "MultiPanelResend" THEN req[h].mold[req[h].on].chan ELSE req[h].chan,
               req[h].list, "storeOwn")
      BY <1>1, <1>5 DEF SendOwn, SendLost, BookOK
    <3>2. ASSUME NEW id, NEW c, NEW o, NEW S, id = Len(sentBy) + 1, o = req[h].on, S = req[h].list,
                 c = (IF req[h].op = "MultiPanelResend" THEN req[h].mold[o].chan ELSE req[h].chan)
          PROVE  /\ \A q : q # o => Own(q)' = Own(q)
                 /\ Own(o)' = Own(o) \union {Msg(id, c, o, S)}
      <4>1. live' = live \union {Msg(id, c, o, S)}
        BY <3>1, <3>2 DEF Send, Msg
      <4>2. QED
        BY <4>1, OwnSent
    <3>3. QED
      BY <3>2
  <2>5. \A p \in Panels : ~On(h, p) => SamePanel(p)
    BY <1>1, <1>2, <1>5, <2>4, PanelMessagesAssumption DEF On, SamePanel, SendOwn, panelTable,
       PanelsOK, PanelOps, MultiOps
  <2>6. ASSUME NEW p \in Panels \ raced, On(h, p), PanelStage(req[h], p)
        PROVE  PanelStage(req[h], p)'
    BY <1>2, <2>6, PanelMessagesAssumption DEF On
  <2>7. \A m \in Multis : ~Touched(h, m) => SameMulti(m) /\ stored \subseteq stored'
    BY <1>1, <1>2, <1>5, <2>4, PanelMessagesAssumption DEF Touched, Touches, SameMulti, SendOwn,
       multiTable, panelTable, MultisOK
  <2>8. ASSUME Few, NEW m \in Multis \ raced, Touched(h, m), MultiStage(req[h], m)
        PROVE  MultiStage(req[h], m)'
    <3>1. m = req[h].on /\ OwnStage(req[h], m) /\ req[h].op \notin PanelOps
      BY <1>2, <2>8 DEF Touched, Touches, MultiStage, PanelOps
    <3>2. UNCHANGED <<stored, mstored, mrow, targets>>
      BY DEF SendOwn, multiTable, panelTable
    <3>3. Own(m) = {}
      BY <1>2, <3>1 DEF OwnStage
    <3>4. \A c : c = (IF req[h].op = "MultiPanelResend" THEN req[h].mold[m].chan ELSE req[h].chan) =>
            Own(m)' = {Msg(req'[h].msg, c, m, req[h].list)}
      BY <2>1, <2>4, <3>1, <3>3
    <3>5. QED
      BY <1>2, <2>1, <3>1, <3>2, <3>4 DEF MultiStage, PanelOps, OwnStage
  <2>9. QED
    BY <1>1, <2>1, <2>2, <2>3, <2>5, <2>6, <2>7, <2>8, AloneFollows, PanelsFollow, MultisFollow
<1>6. QED
  BY <1>4, <1>5, SendOwnStep

LEMMA CreateMultiRowSettles ==
    ASSUME BaseInv, OwnInv, SettleInv, NEW h \in Handlers, CreateMultiRow(h)
    PROVE  Alone' /\ PanelsInv' /\ MultisInv'
<1>1. /\ Alone /\ PanelsInv /\ MultisInv /\ LiveOwn /\ RowsOwn /\ HandlerOwn(req[h])
      /\ req \in [Handlers -> Reqs] /\ req[h] \in Reqs /\ InPlace(req[h]) /\ Equipped(req[h])
      /\ PanelsOK /\ MultisOK /\ BookOK
  BY DEF SettleInv, OwnInv, HandlersOwn, BaseInv, ReqInv
<1>2. /\ req[h].at = "storeOwn" /\ req[h].op = "MultiPanelCreate" /\ req[h].on \in Multis
  BY <1>1, Whereabouts DEF CreateMultiRow, At, InPlace, PanelOps, MultiOps
<1>3. raced' = raced
  BY DEF CreateMultiRow, book
<1>4. ASSUME /\ Changed(h, {"at"}) /\ req'[h].at = "insert"
     PROVE  Alone' /\ PanelsInv' /\ MultisInv'
  <2>1. /\ req'[h].op = req[h].op /\ req'[h].on = req[h].on /\ req'[h].chan = req[h].chan
        /\ req'[h].panels = req[h].panels /\ req'[h].old = req[h].old
        /\ req'[h].mold = req[h].mold /\ req'[h].msg = req[h].msg
        /\ req'[h].embed = req[h].embed /\ req'[h].todo = req[h].todo
        /\ req'[h].list = req[h].list /\ req'[h].at = "insert"
    BY <1>4 DEF Changed, Fields
  <2>2. Follows(h) /\ req'[h] # Idle
    BY <1>1, <1>2, <1>3, <1>4, ChangedFollows
  <2>3. faults' = faults
    BY <1>1, <1>4 DEF CreateMultiRow, book
  <2>4. \A o : Own(o)' = Own(o)
    BY <1>4, OwnSame DEF CreateMultiRow
  <2>5. \A p \in Panels : ~On(h, p) => SamePanel(p)
    BY <1>1, <1>2, <1>4, <2>4, PanelMessagesAssumption DEF On, SamePanel, CreateMultiRow,
       panelTable, PanelsOK, PanelOps, MultiOps
  <2>6. ASSUME NEW p \in Panels \ raced, On(h, p), PanelStage(req[h], p)
        PROVE  PanelStage(req[h], p)'
    BY <1>2, <2>6, PanelMessagesAssumption DEF On
  <2>7. \A m \in Multis : ~Touched(h, m) => SameMulti(m) /\ stored \subseteq stored'
    BY <1>1, <1>2, <1>4, <2>4, PanelMessagesAssumption DEF Touched, Touches, SameMulti,
       CreateMultiRow, multiTable, panelTable, MultisOK
  <2>8. ASSUME Few, NEW m \in Multis \ raced, Touched(h, m), MultiStage(req[h], m)
        PROVE  MultiStage(req[h], m)'
    <3>1. m = req[h].on /\ OwnStage(req[h], m) /\ req[h].op \notin PanelOps
      BY <1>2, <2>8 DEF Touched, Touches, MultiStage, PanelOps
    <3>2. mrow'[m].chan = req[h].chan /\ mrow'[m].msg = req[h].msg
      BY <1>1, <1>2, <3>1 DEF CreateMultiRow, MultisOK, OwnStage
    <3>3. Own(m)' = {Msg(req[h].msg, req[h].chan, m, req[h].list)}
      BY <1>2, <2>4, <3>1 DEF OwnStage
    <3>4. targets[m] = {} /\ targets' = targets /\ m \in mstored' /\ stored' = stored
      BY <1>2, <2>8, <3>1 DEF SettleInv, Inserted, OwnStage, CreateMultiRow, panelTable
    <3>5. targets'[m] \union req'[h].list = req[h].list
      BY <2>1, <3>4
    <3>6. Own(m)' = {Msg(mrow'[m].msg, mrow'[m].chan, m, targets'[m] \union req'[h].list)}
      BY <3>2, <3>3, <3>5
    <3>7. req[h].list \subseteq stored
      BY <1>2, <3>1 DEF OwnStage
    <3>8. QED
      BY <1>2, <2>1, <3>1, <3>4, <3>6, <3>7 DEF MultiStage, PanelOps, OwnStage, MultiMsg
  <2>9. QED
    BY <1>1, <2>1, <2>2, <2>3, <2>5, <2>6, <2>7, <2>8, AloneFollows, PanelsFollow, MultisFollow
<1>5. QED
  BY <1>4, CreateMultiRowStep

LEMMA UpdateMultiRowSettles ==
    ASSUME BaseInv, OwnInv, SettleInv, NEW h \in Handlers, UpdateMultiRow(h)
    PROVE  Alone' /\ PanelsInv' /\ MultisInv'
<1>1. /\ Alone /\ PanelsInv /\ MultisInv /\ LiveOwn /\ RowsOwn /\ HandlerOwn(req[h])
      /\ req \in [Handlers -> Reqs] /\ req[h] \in Reqs /\ InPlace(req[h]) /\ Equipped(req[h])
      /\ PanelsOK /\ MultisOK /\ BookOK
  BY DEF SettleInv, OwnInv, HandlersOwn, BaseInv, ReqInv
<1>2. /\ req[h].at = "storeOwn" /\ req[h].op = "MultiPanelUpdate" /\ req[h].on \in Multis
  BY <1>1, Whereabouts DEF UpdateMultiRow, At, InPlace, PanelOps, MultiOps
<1>3. raced' = raced
  BY DEF UpdateMultiRow, book
<1>4. ASSUME /\ Changed(h, {"at"}) /\ req'[h].at = "clear"
     PROVE  Alone' /\ PanelsInv' /\ MultisInv'
  <2>1. /\ req'[h].op = req[h].op /\ req'[h].on = req[h].on /\ req'[h].chan = req[h].chan
        /\ req'[h].panels = req[h].panels /\ req'[h].old = req[h].old
        /\ req'[h].mold = req[h].mold /\ req'[h].msg = req[h].msg
        /\ req'[h].embed = req[h].embed /\ req'[h].todo = req[h].todo
        /\ req'[h].list = req[h].list /\ req'[h].at = "clear"
    BY <1>4 DEF Changed, Fields
  <2>2. Follows(h) /\ req'[h] # Idle
    BY <1>1, <1>2, <1>3, <1>4, ChangedFollows
  <2>3. faults' = faults
    BY <1>1, <1>4 DEF UpdateMultiRow, book
  <2>4. \A o : Own(o)' = Own(o)
    BY <1>4, OwnSame DEF UpdateMultiRow
  <2>5. \A p \in Panels : ~On(h, p) => SamePanel(p)
    BY <1>1, <1>2, <1>4, <2>4, PanelMessagesAssumption DEF On, SamePanel, UpdateMultiRow,
       panelTable, PanelsOK, PanelOps, MultiOps
  <2>6. ASSUME NEW p \in Panels \ raced, On(h, p), PanelStage(req[h], p)
        PROVE  PanelStage(req[h], p)'
    BY <1>2, <2>6, PanelMessagesAssumption DEF On
  <2>7. \A m \in Multis : ~Touched(h, m) => SameMulti(m) /\ stored \subseteq stored'
    BY <1>1, <1>2, <1>4, <2>4, PanelMessagesAssumption DEF Touched, Touches, SameMulti,
       UpdateMultiRow, multiTable, panelTable, MultisOK
  <2>8. ASSUME Few, NEW m \in Multis \ raced, Touched(h, m), MultiStage(req[h], m)
        PROVE  MultiStage(req[h], m)'
    <3>1. m = req[h].on /\ OwnStage(req[h], m) /\ req[h].op \notin PanelOps
      BY <1>2, <2>8 DEF Touched, Touches, MultiStage, PanelOps
    <3>2. mrow'[m].chan = req[h].chan /\ mrow'[m].msg = req[h].msg
      BY <1>1, <1>2, <3>1 DEF UpdateMultiRow, MultisOK, OwnStage
    <3>3. Own(m)' = {Msg(req[h].msg, req[h].chan, m, req[h].list)}
      BY <1>2, <2>4, <3>1 DEF OwnStage
    <3>4. UNCHANGED <<stored, mstored>>
      BY DEF UpdateMultiRow, panelTable
    <3>5. QED
      BY <1>2, <2>1, <3>1, <3>2, <3>3, <3>4 DEF MultiStage, PanelOps, OwnStage, MultiMsg
  <2>9. QED
    BY <1>1, <2>1, <2>2, <2>3, <2>5, <2>6, <2>7, <2>8, AloneFollows, PanelsFollow, MultisFollow
<1>5. QED
  BY <1>4, UpdateMultiRowStep

LEMMA RecordResentMultiSettles ==
    ASSUME BaseInv, OwnInv, SettleInv, NEW h \in Handlers, RecordResentMulti(h)
    PROVE  Alone' /\ PanelsInv' /\ MultisInv'
<1>1. /\ Alone /\ PanelsInv /\ MultisInv /\ LiveOwn /\ RowsOwn /\ HandlerOwn(req[h])
      /\ req \in [Handlers -> Reqs] /\ req[h] \in Reqs /\ InPlace(req[h]) /\ Equipped(req[h])
      /\ PanelsOK /\ MultisOK /\ BookOK
  BY DEF SettleInv, OwnInv, HandlersOwn, BaseInv, ReqInv
<1>2. /\ req[h].at = "storeOwn" /\ req[h].op = "MultiPanelResend" /\ req[h].on \in Multis
  BY <1>1, Whereabouts DEF RecordResentMulti, At, InPlace, PanelOps, MultiOps
<1>3. raced' = raced
  BY DEF RecordResentMulti, book
<1>4. ASSUME /\ Finish(h)
     PROVE  Alone' /\ PanelsInv' /\ MultisInv'
  <2>1. req'[h] = Idle /\ Follows(h)
    BY <1>1, <1>2, <1>3, <1>4, FinishFollows
  <2>2. faults' = faults
    BY <1>1, <1>4 DEF RecordResentMulti, book
  <2>3. \A o : Own(o)' = Own(o)
    BY <1>4, OwnSame DEF RecordResentMulti
  <2>4. \A p \in Panels : ~On(h, p) => SamePanel(p)
    BY <1>1, <1>2, <1>4, <2>3, PanelMessagesAssumption DEF On, SamePanel, RecordResentMulti,
       panelTable, PanelsOK, PanelOps, MultiOps
  <2>5. ASSUME NEW p \in Panels \ raced, On(h, p), PanelStage(req[h], p)
        PROVE  PanelRests(p)'
    BY <1>2, <2>5, PanelMessagesAssumption DEF On
  <2>6. \A m \in Multis : ~Touched(h, m) => SameMulti(m) /\ stored \subseteq stored'
    <3>1. ASSUME NEW m \in Multis, m # req[h].on PROVE mrow'[m] = mrow[m]
      BY <1>1, <3>1 DEF RecordResentMulti, SetMultiMessage, MultisOK
    <3>2. QED
      BY <1>2, <2>3, <3>1 DEF Touched, Touches, SameMulti, RecordResentMulti, panelTable
  <2>7. ASSUME Few, NEW m \in Multis \ raced, Touched(h, m), MultiStage(req[h], m)
        PROVE  MultiRests(m)'
    <3>1. m = req[h].on /\ OwnStage(req[h], m) /\ req[h].op \notin PanelOps
      BY <1>2, <2>7 DEF Touched, Touches, MultiStage, PanelOps
    <3>2. m \in mstored /\ req[h].list = targets[m] /\ Own(m)' = {Msg(req[h].msg, mrow[m].chan, m, req[h].list)}
      BY <1>2, <2>3, <3>1 DEF OwnStage
    <3>3. mrow'[m] = With(mrow[m], [msg |-> req[h].msg]) /\ UNCHANGED <<mstored, targets>>
      BY <1>1, <3>1, <3>2 DEF RecordResentMulti, SetMultiMessage, MultisOK
    <3>4. mrow'[m].chan = mrow[m].chan /\ mrow'[m].msg = req[h].msg
      BY <1>1, <3>2, <3>3 DEF MultisOK, MRow, With
    <3>5. QED
      BY <3>2, <3>3, <3>4 DEF MultiRests, MultiMsg
  <2>8. QED
    BY <1>1, <2>1, <2>2, <2>4, <2>5, <2>6, <2>7, AloneFollows, PanelsFollow, MultisFollow
<1>5. QED
  BY <1>4, RecordResentMultiStep

LEMMA DeleteMultiRowSettles ==
    ASSUME BaseInv, OwnInv, SettleInv, NEW h \in Handlers, DeleteMultiRow(h)
    PROVE  Alone' /\ PanelsInv' /\ MultisInv'
<1>1. /\ Alone /\ PanelsInv /\ MultisInv /\ LiveOwn /\ RowsOwn /\ HandlerOwn(req[h])
      /\ req \in [Handlers -> Reqs] /\ req[h] \in Reqs /\ InPlace(req[h]) /\ Equipped(req[h])
      /\ PanelsOK /\ MultisOK /\ BookOK
  BY DEF SettleInv, OwnInv, HandlersOwn, BaseInv, ReqInv
<1>2. /\ req[h].at = "storeOwn" /\ req[h].op = "MultiPanelDelete" /\ req[h].on \in Multis
  BY <1>1, Whereabouts DEF DeleteMultiRow, At, InPlace, PanelOps, MultiOps
<1>3. raced' = raced
  BY DEF DeleteMultiRow, book
<1>4. ASSUME /\ Finish(h)
     PROVE  Alone' /\ PanelsInv' /\ MultisInv'
  <2>1. req'[h] = Idle /\ Follows(h)
    BY <1>1, <1>2, <1>3, <1>4, FinishFollows
  <2>2. faults' = faults
    BY <1>1, <1>4 DEF DeleteMultiRow, book
  <2>3. \A o : Own(o)' = Own(o)
    BY <1>4, OwnSame DEF DeleteMultiRow
  <2>4. \A p \in Panels : ~On(h, p) => SamePanel(p)
    BY <1>1, <1>2, <1>4, <2>3, PanelMessagesAssumption DEF On, SamePanel, DeleteMultiRow,
       panelTable, PanelsOK, PanelOps, MultiOps
  <2>5. ASSUME NEW p \in Panels \ raced, On(h, p), PanelStage(req[h], p)
        PROVE  PanelRests(p)'
    BY <1>2, <2>5, PanelMessagesAssumption DEF On
  <2>6. \A m \in Multis : ~Touched(h, m) => SameMulti(m) /\ stored \subseteq stored'
    BY <1>1, <1>2, <1>4, <2>3, PanelMessagesAssumption DEF Touched, Touches, SameMulti,
       DeleteMultiRow, multiTable, panelTable, MultisOK
  <2>7. ASSUME Few, NEW m \in Multis \ raced, Touched(h, m), MultiStage(req[h], m)
        PROVE  MultiRests(m)'
    BY <1>2, <1>4, <2>1, <2>3, <2>7, PanelMessagesAssumption DEF Touched, Touches, MultiStage,
       PanelOps, MultiOps, OwnStage, MultiRests, MultiMsg, DeleteMultiRow, multiTable, panelTable
  <2>8. QED
    BY <1>1, <2>1, <2>2, <2>4, <2>5, <2>6, <2>7, AloneFollows, PanelsFollow, MultisFollow
<1>5. QED
  BY <1>4, DeleteMultiRowStep

LEMMA ClearTargetsSettles ==
    ASSUME BaseInv, OwnInv, SettleInv, NEW h \in Handlers, ClearTargets(h)
    PROVE  Alone' /\ PanelsInv' /\ MultisInv'
<1>1. /\ Alone /\ PanelsInv /\ MultisInv /\ LiveOwn /\ RowsOwn /\ HandlerOwn(req[h])
      /\ req \in [Handlers -> Reqs] /\ req[h] \in Reqs /\ InPlace(req[h]) /\ Equipped(req[h])
      /\ PanelsOK /\ MultisOK /\ BookOK
  BY DEF SettleInv, OwnInv, HandlersOwn, BaseInv, ReqInv
<1>2. /\ req[h].at = "clear" /\ req[h].op = "MultiPanelUpdate" /\ req[h].on \in Multis
  BY <1>1, Whereabouts DEF ClearTargets, At, InPlace, PanelOps, MultiOps
<1>3. raced' = raced
  BY DEF ClearTargets, book
<1>4. ASSUME /\ Changed(h, {"at"}) /\ req'[h].at = "insert"
     PROVE  Alone' /\ PanelsInv' /\ MultisInv'
  <2>1. /\ req'[h].op = req[h].op /\ req'[h].on = req[h].on /\ req'[h].chan = req[h].chan
        /\ req'[h].panels = req[h].panels /\ req'[h].old = req[h].old
        /\ req'[h].mold = req[h].mold /\ req'[h].msg = req[h].msg
        /\ req'[h].embed = req[h].embed /\ req'[h].todo = req[h].todo
        /\ req'[h].list = req[h].list /\ req'[h].at = "insert"
    BY <1>4 DEF Changed, Fields
  <2>2. Follows(h) /\ req'[h] # Idle
    BY <1>1, <1>2, <1>3, <1>4, ChangedFollows
  <2>3. faults' = faults
    BY <1>1, <1>4 DEF ClearTargets, book
  <2>4. \A o : Own(o)' = Own(o)
    BY <1>4, OwnSame DEF ClearTargets
  <2>5. \A p \in Panels : ~On(h, p) => SamePanel(p)
    BY <1>1, <1>2, <1>4, <2>4, PanelMessagesAssumption DEF On, SamePanel, ClearTargets,
       panelTable, PanelsOK, PanelOps, MultiOps
  <2>6. ASSUME NEW p \in Panels \ raced, On(h, p), PanelStage(req[h], p)
        PROVE  PanelStage(req[h], p)'
    BY <1>2, <2>6, PanelMessagesAssumption DEF On
  <2>7. \A m \in Multis : ~Touched(h, m) => SameMulti(m) /\ stored \subseteq stored'
    BY <1>1, <1>2, <1>4, <2>4, PanelMessagesAssumption DEF Touched, Touches, SameMulti,
       ClearTargets, multiTable, panelTable, MultisOK
  <2>8. ASSUME Few, NEW m \in Multis \ raced, Touched(h, m), MultiStage(req[h], m)
        PROVE  MultiStage(req[h], m)'
    <3>1. m = req[h].on /\ OwnStage(req[h], m) /\ req[h].op \notin PanelOps
      BY <1>2, <2>8 DEF Touched, Touches, MultiStage, PanelOps
    <3>2. targets'[m] = {} /\ UNCHANGED <<stored, mstored, mrow>>
      BY <1>1, <2>8, <3>1 DEF ClearTargets, MultisOK, panelTable
    <3>3. Own(m)' = {Msg(mrow[m].msg, mrow[m].chan, m, req[h].list)}
      BY <1>2, <2>4, <3>1 DEF OwnStage, MultiMsg
    <3>4. targets'[m] \union req'[h].list = req[h].list
      BY <2>1, <3>2
    <3>5. Own(m)' = {Msg(mrow'[m].msg, mrow'[m].chan, m, targets'[m] \union req'[h].list)}
      BY <3>2, <3>3, <3>4
    <3>6. QED
      BY <1>2, <2>1, <3>1, <3>2, <3>5 DEF MultiStage, PanelOps, OwnStage, MultiMsg
  <2>9. QED
    BY <1>1, <2>1, <2>2, <2>3, <2>5, <2>6, <2>7, <2>8, AloneFollows, PanelsFollow, MultisFollow
<1>5. QED
  BY <1>4, ClearTargetsStep

LEMMA InsertTargetSettles ==
    ASSUME BaseInv, OwnInv, SettleInv, NEW h \in Handlers, InsertTarget(h)
    PROVE  Alone' /\ PanelsInv' /\ MultisInv'
<1>1. /\ Alone /\ PanelsInv /\ MultisInv /\ LiveOwn /\ RowsOwn /\ HandlerOwn(req[h])
      /\ req \in [Handlers -> Reqs] /\ req[h] \in Reqs /\ InPlace(req[h]) /\ Equipped(req[h])
      /\ PanelsOK /\ MultisOK /\ BookOK
  BY DEF SettleInv, OwnInv, HandlersOwn, BaseInv, ReqInv
<1>2. /\ req[h].at = "insert" /\ req[h].op \in {"MultiPanelCreate", "MultiPanelUpdate"}
      /\ req[h].on \in Multis
  BY <1>1, Whereabouts DEF InsertTarget, At, InPlace, PanelOps, MultiOps
<1>3. raced' = raced
  BY DEF InsertTarget, book
<1>4. ASSUME /\ req[h].list = {} /\ UNCHANGED targets /\ Finish(h)
     PROVE  Alone' /\ PanelsInv' /\ MultisInv'
  <2>1. req'[h] = Idle /\ Follows(h)
    BY <1>1, <1>2, <1>3, <1>4, FinishFollows
  <2>2. faults' = faults
    BY <1>1, <1>4 DEF InsertTarget, book
  <2>3. \A o : Own(o)' = Own(o)
    BY <1>4, OwnSame DEF InsertTarget
  <2>4. \A p \in Panels : ~On(h, p) => SamePanel(p)
    BY <1>1, <1>2, <1>4, <2>3, PanelMessagesAssumption DEF On, SamePanel, InsertTarget,
       panelTable, PanelsOK, PanelOps, MultiOps
  <2>5. ASSUME NEW p \in Panels \ raced, On(h, p), PanelStage(req[h], p)
        PROVE  PanelRests(p)'
    BY <1>2, <2>5, PanelMessagesAssumption DEF On
  <2>6. \A m \in Multis : ~Touched(h, m) => SameMulti(m) /\ stored \subseteq stored'
    BY <1>1, <1>2, <1>4, <2>3, PanelMessagesAssumption DEF Touched, Touches, SameMulti,
       InsertTarget, multiTable, panelTable, MultisOK
  <2>7. ASSUME Few, NEW m \in Multis \ raced, Touched(h, m), MultiStage(req[h], m)
        PROVE  MultiRests(m)'
    BY <1>2, <1>4, <2>1, <2>3, <2>7, PanelMessagesAssumption DEF Touched, Touches, MultiStage,
       PanelOps, MultiOps, OwnStage, MultiRests, MultiMsg, InsertTarget, multiTable, panelTable
  <2>8. QED
    BY <1>1, <2>1, <2>2, <2>4, <2>5, <2>6, <2>7, AloneFollows, PanelsFollow, MultisFollow
<1>5. ASSUME NEW t \in req[h].list,
           /\ targets' = (IF t \in stored /\ req[h].on \in mstored THEN [targets EXCEPT ![req[h].on] = @ \union {t}] ELSE targets)
           /\ Changed(h, {"list"}) /\ req'[h].list = req[h].list \ {t}
     PROVE  Alone' /\ PanelsInv' /\ MultisInv'
  <2>1. /\ req'[h].op = req[h].op /\ req'[h].at = req[h].at /\ req'[h].on = req[h].on
        /\ req'[h].chan = req[h].chan /\ req'[h].panels = req[h].panels
        /\ req'[h].old = req[h].old /\ req'[h].mold = req[h].mold
        /\ req'[h].msg = req[h].msg /\ req'[h].embed = req[h].embed
        /\ req'[h].todo = req[h].todo /\ req'[h].list = req[h].list \ {t}
    BY <1>5 DEF Changed, Fields
  <2>2. Follows(h) /\ req'[h] # Idle
    BY <1>1, <1>2, <1>3, <1>5, ChangedFollows
  <2>3. faults' = faults
    BY <1>1, <1>5 DEF InsertTarget, book
  <2>4. \A o : Own(o)' = Own(o)
    BY <1>5, OwnSame DEF InsertTarget
  <2>5. \A p \in Panels : ~On(h, p) => SamePanel(p)
    BY <1>1, <1>2, <1>5, <2>4, PanelMessagesAssumption DEF On, SamePanel, InsertTarget,
       panelTable, PanelsOK, PanelOps, MultiOps
  <2>6. ASSUME NEW p \in Panels \ raced, On(h, p), PanelStage(req[h], p)
        PROVE  PanelStage(req[h], p)'
    BY <1>2, <2>6, PanelMessagesAssumption DEF On
  <2>7. \A m \in Multis : ~Touched(h, m) => SameMulti(m) /\ stored \subseteq stored'
    BY <1>1, <1>2, <1>5, <2>4, PanelMessagesAssumption DEF Touched, Touches, SameMulti,
       InsertTarget, multiTable, panelTable, MultisOK
  <2>8. ASSUME Few, NEW m \in Multis \ raced, Touched(h, m), MultiStage(req[h], m)
        PROVE  MultiStage(req[h], m)'
    <3>1. m = req[h].on /\ OwnStage(req[h], m) /\ req[h].op \notin PanelOps
      BY <1>2, <2>8 DEF Touched, Touches, MultiStage, PanelOps
    <3>2. m \in mstored /\ req[h].list \subseteq stored /\ UNCHANGED <<stored, mstored, mrow>>
      BY <1>2, <3>1 DEF OwnStage, InsertTarget, panelTable
    <3>3. targets'[m] = targets[m] \union {t}
      BY <1>1, <1>5, <2>8, <3>1, <3>2 DEF MultisOK
    <3>4. targets'[m] \union req'[h].list = targets[m] \union req[h].list
      BY <1>5, <2>1, <3>3
    <3>5. Own(m) = {Msg(mrow[m].msg, mrow[m].chan, m, targets[m] \union req[h].list)}
      BY <1>2, <3>1 DEF OwnStage, MultiMsg
    <3>6. Own(m)' = {Msg(mrow'[m].msg, mrow'[m].chan, m, targets'[m] \union req'[h].list)}
      BY <2>4, <3>2, <3>4, <3>5
    <3>7. QED
      BY <1>2, <1>5, <2>1, <3>1, <3>2, <3>6 DEF MultiStage, PanelOps, OwnStage, MultiMsg
  <2>9. QED
    BY <1>1, <2>1, <2>2, <2>3, <2>5, <2>6, <2>7, <2>8, AloneFollows, PanelsFollow, MultisFollow
<1>6. QED
  BY <1>4, <1>5, InsertTargetStep

LEMMA OldMultiMessageSettles ==
    ASSUME BaseInv, OwnInv, SettleInv, NEW h \in Handlers, OldMultiMessage(h)
    PROVE  Alone' /\ PanelsInv' /\ MultisInv'
<1>1. /\ Alone /\ PanelsInv /\ MultisInv /\ LiveOwn /\ RowsOwn /\ HandlerOwn(req[h])
      /\ req \in [Handlers -> Reqs] /\ req[h] \in Reqs /\ InPlace(req[h]) /\ Equipped(req[h])
      /\ PanelsOK /\ MultisOK /\ BookOK
  BY DEF SettleInv, OwnInv, HandlersOwn, BaseInv, ReqInv
<1>2. /\ req[h].at = "oldOwn"
      /\ req[h].op \in {"MultiPanelUpdate", "MultiPanelResend", "MultiPanelDelete"}
      /\ req[h].on \in Multis
  BY <1>1, Whereabouts DEF OldMultiMessage, At, InPlace, PanelOps, MultiOps
<1>3. raced' = raced
  BY DEF OldMultiMessage, book
<1>4. ASSUME /\ req[h].op = "MultiPanelUpdate" /\ req[h].mold[req[h].on].chan = req[h].chan
             /\ IsLive(req[h].mold[req[h].on].chan, req[h].mold[req[h].on].msg)
             /\ EditMessage(req[h].mold[req[h].on].chan, req[h].mold[req[h].on].msg, req[h].list)
             /\ Changed(h, {"msg", "at"}) /\ req'[h].msg = req[h].mold[req[h].on].msg
             /\ req'[h].at = "storeOwn"
     PROVE  Alone' /\ PanelsInv' /\ MultisInv'
  <2>1. /\ req'[h].op = req[h].op /\ req'[h].on = req[h].on /\ req'[h].chan = req[h].chan
        /\ req'[h].panels = req[h].panels /\ req'[h].old = req[h].old
        /\ req'[h].mold = req[h].mold /\ req'[h].embed = req[h].embed
        /\ req'[h].todo = req[h].todo /\ req'[h].list = req[h].list
        /\ req'[h].msg = req[h].mold[req[h].on].msg /\ req'[h].at = "storeOwn"
    BY <1>4 DEF Changed, Fields
  <2>2. Follows(h) /\ req'[h] # Idle
    BY <1>1, <1>2, <1>3, <1>4, ChangedFollows
  <2>3. req[h].on \in DOMAIN req[h].mold /\ Of(req[h].mold[req[h].on].msg, req[h].on) /\ req[h].list \in SUBSET Panels
    BY <1>1, <1>2 DEF Equipped, HandlerOwn, MultiOps, Reqs
  <2>4. faults' = faults
    BY <1>1, <1>4 DEF OldMultiMessage, book
  <2>5. /\ \A q : q # req[h].on => Own(q)' = Own(q)
        /\ \A q, T : q = req[h].on /\ Own(q) = {Msg(req[h].mold[q].msg, req[h].mold[q].chan, q, T)} =>
             Own(q)' = {Msg(req[h].mold[q].msg, req[h].mold[q].chan, q, req[h].list)}
    <3>1. ASSUME NEW t, NEW id, NEW c, NEW S, t = req[h].on, id = req[h].mold[t].msg,
                 c = req[h].mold[t].chan, S = req[h].list
          PROVE  /\ \A q : q # t => Own(q)' = Own(q)
                 /\ \A T : Own(t) = {Msg(id, c, t, T)} => Own(t)' = {Msg(id, c, t, S)}
      <4>1. Of(id, t) /\ LiveOwn
        BY <1>1, <2>3, <3>1
      <4>2. req[h].mold[req[h].on].chan = c /\ req[h].mold[req[h].on].msg = id
        BY <3>1
      <4>3. EditMessage(req[h].mold[req[h].on].chan, req[h].mold[req[h].on].msg, req[h].list)
        BY <1>4
      <4>4. EditMessage(c, id, S)
        BY <3>1, <4>2, <4>3
      <4>5. \A q : q # t => Own(q)' = Own(q)
        BY <4>1, <4>4, OwnEdited
      <4>6. \A T : Own(t) = {Msg(id, c, t, T)} => Own(t)' = {Msg(id, c, t, S)}
        BY <4>1, <4>4, OwnEdited
      <4>7. QED
        BY <4>5, <4>6
    <3>2. QED
      BY <3>1
  <2>6. \A p \in Panels : ~On(h, p) => SamePanel(p)
    BY <1>1, <1>2, <1>4, <2>3, <2>5, PanelMessagesAssumption DEF On, SamePanel, OldMultiMessage,
       panelTable, PanelsOK, PanelOps, MultiOps
  <2>7. ASSUME NEW p \in Panels \ raced, On(h, p), PanelStage(req[h], p)
        PROVE  PanelStage(req[h], p)'
    BY <1>2, <2>7, PanelMessagesAssumption DEF On
  <2>8. \A m \in Multis : ~Touched(h, m) => SameMulti(m) /\ stored \subseteq stored'
    BY <1>1, <1>2, <1>4, <2>5, PanelMessagesAssumption DEF Touched, Touches, SameMulti,
       OldMultiMessage, multiTable, panelTable, MultisOK
  <2>9. ASSUME Few, NEW m \in Multis \ raced, Touched(h, m), MultiStage(req[h], m)
        PROVE  MultiStage(req[h], m)'
    <3>1. m = req[h].on /\ OwnStage(req[h], m) /\ req[h].op \notin PanelOps
      BY <1>2, <2>9 DEF Touched, Touches, MultiStage, PanelOps
    <3>2. UNCHANGED <<stored, mstored, mrow, targets>>
      BY DEF OldMultiMessage, multiTable, panelTable
    <3>3. /\ m \in mstored /\ req[h].mold[m] = mrow[m] /\ Own(m) = {Msg(mrow[m].msg, mrow[m].chan, m, targets[m])}
      BY <1>2, <3>1 DEF OwnStage, MultiRests, MultiMsg
    <3>4. Own(m)' = {Msg(req'[h].msg, req[h].chan, m, req[h].list)}
      BY <1>4, <2>1, <2>5, <3>1, <3>3
    <3>5. QED
      BY <1>2, <1>4, <2>1, <3>1, <3>2, <3>3, <3>4 DEF MultiStage, PanelOps, OwnStage
  <2>10. QED
    BY <1>1, <2>1, <2>2, <2>4, <2>6, <2>7, <2>8, <2>9, AloneFollows, PanelsFollow, MultisFollow
<1>5. ASSUME /\ req[h].op = "MultiPanelUpdate" /\ req[h].mold[req[h].on].chan = req[h].chan
             /\ ~IsLive(req[h].mold[req[h].on].chan, req[h].mold[req[h].on].msg)
             /\ UNCHANGED discord /\ Changed(h, {"at"}) /\ req'[h].at = "sendOwn"
     PROVE  Alone' /\ PanelsInv' /\ MultisInv'
  <2>1. /\ req'[h].op = req[h].op /\ req'[h].on = req[h].on /\ req'[h].chan = req[h].chan
        /\ req'[h].panels = req[h].panels /\ req'[h].old = req[h].old
        /\ req'[h].mold = req[h].mold /\ req'[h].msg = req[h].msg
        /\ req'[h].embed = req[h].embed /\ req'[h].todo = req[h].todo
        /\ req'[h].list = req[h].list /\ req'[h].at = "sendOwn"
    BY <1>5 DEF Changed, Fields
  <2>2. Follows(h) /\ req'[h] # Idle
    BY <1>1, <1>2, <1>3, <1>5, ChangedFollows
  <2>3. req[h].on \in DOMAIN req[h].mold /\ Of(req[h].mold[req[h].on].msg, req[h].on) /\ req[h].list \in SUBSET Panels
    BY <1>1, <1>2 DEF Equipped, HandlerOwn, MultiOps, Reqs
  <2>4. faults' = faults
    BY <1>1, <1>5 DEF OldMultiMessage, book
  <2>5. \A o : Own(o)' = Own(o)
    BY <1>5, OwnSame DEF OldMultiMessage
  <2>6. \A p \in Panels : ~On(h, p) => SamePanel(p)
    BY <1>1, <1>2, <1>5, <2>3, <2>5, PanelMessagesAssumption DEF On, SamePanel, OldMultiMessage,
       panelTable, PanelsOK, PanelOps, MultiOps
  <2>7. ASSUME NEW p \in Panels \ raced, On(h, p), PanelStage(req[h], p)
        PROVE  PanelStage(req[h], p)'
    BY <1>2, <2>7, PanelMessagesAssumption DEF On
  <2>8. \A m \in Multis : ~Touched(h, m) => SameMulti(m) /\ stored \subseteq stored'
    BY <1>1, <1>2, <1>5, <2>5, PanelMessagesAssumption DEF Touched, Touches, SameMulti,
       OldMultiMessage, multiTable, panelTable, MultisOK
  <2>9. ASSUME Few, NEW m \in Multis \ raced, Touched(h, m), MultiStage(req[h], m)
        PROVE  MultiStage(req[h], m)'
    <3>1. m = req[h].on /\ OwnStage(req[h], m) /\ req[h].op \notin PanelOps
      BY <1>2, <2>9 DEF Touched, Touches, MultiStage, PanelOps
    <3>2. UNCHANGED <<stored, mstored, mrow, targets>>
      BY DEF OldMultiMessage, multiTable, panelTable
    <3>3. /\ m \in mstored /\ req[h].mold[m] = mrow[m] /\ Own(m) = {Msg(mrow[m].msg, mrow[m].chan, m, targets[m])}
      BY <1>2, <3>1 DEF OwnStage, MultiRests, MultiMsg
    <3>4. QED
      BY <1>5, <3>1, <3>3, OwnIsLive
  <2>10. QED
    BY <1>1, <2>1, <2>2, <2>4, <2>6, <2>7, <2>8, <2>9, AloneFollows, PanelsFollow, MultisFollow
<1>6. ASSUME /\ ~(req[h].op = "MultiPanelUpdate" /\ req[h].mold[req[h].on].chan = req[h].chan)
             /\ DeleteMessage(req[h].mold[req[h].on].chan, req[h].mold[req[h].on].msg)
             /\ Changed(h, {"at"}) /\ req'[h].at = AfterDelete(req[h].op)
     PROVE  Alone' /\ PanelsInv' /\ MultisInv'
  <2>1. /\ req'[h].op = req[h].op /\ req'[h].on = req[h].on /\ req'[h].chan = req[h].chan
        /\ req'[h].panels = req[h].panels /\ req'[h].old = req[h].old
        /\ req'[h].mold = req[h].mold /\ req'[h].msg = req[h].msg
        /\ req'[h].embed = req[h].embed /\ req'[h].todo = req[h].todo
        /\ req'[h].list = req[h].list /\ req'[h].at = AfterDelete(req[h].op)
    BY <1>6 DEF Changed, Fields
  <2>2. Follows(h) /\ req'[h] # Idle
    BY <1>1, <1>2, <1>3, <1>6, ChangedFollows
  <2>3. req[h].on \in DOMAIN req[h].mold /\ Of(req[h].mold[req[h].on].msg, req[h].on) /\ req[h].list \in SUBSET Panels
    BY <1>1, <1>2 DEF Equipped, HandlerOwn, MultiOps, Reqs
  <2>4. faults' = faults
    BY <1>1, <1>6 DEF OldMultiMessage, book
  <2>5. /\ \A q : q # req[h].on => Own(q)' = Own(q)
        /\ \A q, S : q = req[h].on /\ Own(q) = {Msg(req[h].mold[q].msg, req[h].mold[q].chan, q, S)} => Own(q)' = {}
    <3>1. ASSUME NEW o, NEW id, NEW c, o = req[h].on, id = req[h].mold[o].msg, c = req[h].mold[o].chan
          PROVE  /\ \A q : q # o => Own(q)' = Own(q)
                 /\ \A S : Own(o) = {Msg(id, c, o, S)} => Own(o)' = {}
      <4>1. Of(id, o) /\ LiveOwn
        BY <1>1, <2>3, <3>1
      <4>2. DeleteMessage(c, id)
        BY <1>6, <3>1
      <4>3. QED
        BY <4>1, <4>2, OwnDeleted, TheOnlyOne
    <3>2. QED
      BY <3>1
  <2>6. \A p \in Panels : ~On(h, p) => SamePanel(p)
    BY <1>1, <1>2, <1>6, <2>3, <2>5, PanelMessagesAssumption DEF On, SamePanel, OldMultiMessage,
       panelTable, PanelsOK, PanelOps, MultiOps
  <2>7. ASSUME NEW p \in Panels \ raced, On(h, p), PanelStage(req[h], p)
        PROVE  PanelStage(req[h], p)'
    BY <1>2, <2>7, PanelMessagesAssumption DEF On
  <2>8. \A m \in Multis : ~Touched(h, m) => SameMulti(m) /\ stored \subseteq stored'
    BY <1>1, <1>2, <1>6, <2>5, PanelMessagesAssumption DEF Touched, Touches, SameMulti,
       OldMultiMessage, multiTable, panelTable, MultisOK
  <2>9. ASSUME Few, NEW m \in Multis \ raced, Touched(h, m), MultiStage(req[h], m)
        PROVE  MultiStage(req[h], m)'
    <3>1. m = req[h].on /\ OwnStage(req[h], m) /\ req[h].op \notin PanelOps
      BY <1>2, <2>9 DEF Touched, Touches, MultiStage, PanelOps
    <3>2. UNCHANGED <<stored, mstored, mrow, targets>>
      BY DEF OldMultiMessage, multiTable, panelTable
    <3>3. /\ m \in mstored /\ req[h].mold[m] = mrow[m] /\ Own(m) = {Msg(mrow[m].msg, mrow[m].chan, m, targets[m])}
      BY <1>2, <3>1 DEF OwnStage, MultiRests, MultiMsg
    <3>4. Own(m)' = {}
      BY <2>5, <3>1, <3>3
    <3>5. QED
      BY <1>2, <1>6, <2>1, <3>1, <3>2, <3>3, <3>4 DEF MultiStage, PanelOps, OwnStage, AfterDelete
  <2>10. QED
    BY <1>1, <2>1, <2>2, <2>4, <2>6, <2>7, <2>8, <2>9, AloneFollows, PanelsFollow, MultisFollow
<1>7. QED
  BY <1>4, <1>5, <1>6, OldMultiMessageStep
(* Requests that fail, that arrive, and the first states. *)

LEMMA FaultsSettle ==
    ASSUME BaseInv, SettleInv, NEW h \in Handlers, Follows(h), faults' = faults + 1
    PROVE  Alone' /\ PanelsInv' /\ MultisInv'
  BY AloneFollows, Faulty DEF SettleInv

LEMMA OldMessageStaysSettles ==
    ASSUME BaseInv, OwnInv, SettleInv, NEW h \in Handlers, OldMessageStays(h)
    PROVE  Alone' /\ PanelsInv' /\ MultisInv'
<1>1. req[h].op # "idle"
  <2>1. req[h] \in Reqs /\ InPlace(req[h])
    BY DEF BaseInv, ReqInv
  <2>2. QED
    BY <2>1, Whereabouts DEF OldMessageStays, At, InPlace
<1>2. req \in [Handlers -> Reqs] /\ raced' = raced /\ faults' = faults + 1
  BY DEF BaseInv, ReqInv, OldMessageStays
<1>3. Follows(h)
  BY <1>1, <1>2, OldMessageStaysStep, ChangedFollows
<1>4. QED
  BY <1>2, <1>3, FaultsSettle

LEMMA SendToMissingChannelSettles ==
    ASSUME BaseInv, OwnInv, SettleInv, NEW h \in Handlers, SendToMissingChannel(h)
    PROVE  Alone' /\ PanelsInv' /\ MultisInv'
<1>1. req[h].op # "idle"
  <2>1. req[h] \in Reqs /\ InPlace(req[h])
    BY DEF BaseInv, ReqInv
  <2>2. QED
    BY <2>1, Whereabouts DEF SendToMissingChannel, At, InPlace
<1>2. req \in [Handlers -> Reqs] /\ raced' = raced /\ faults' = faults + 1
  BY DEF BaseInv, ReqInv, SendToMissingChannel
<1>3. Follows(h)
  BY <1>1, <1>2, SendToMissingChannelStep, ChangedFollows
<1>4. QED
  BY <1>2, <1>3, FaultsSettle

LEMMA OldMultiMessageStaysSettles ==
    ASSUME BaseInv, OwnInv, SettleInv, NEW h \in Handlers, OldMultiMessageStays(h)
    PROVE  Alone' /\ PanelsInv' /\ MultisInv'
<1>1. req[h].op # "idle"
  <2>1. req[h] \in Reqs /\ InPlace(req[h])
    BY DEF BaseInv, ReqInv
  <2>2. QED
    BY <2>1, Whereabouts DEF OldMultiMessageStays, At, InPlace
<1>2. req \in [Handlers -> Reqs] /\ raced' = raced /\ faults' = faults + 1
  BY DEF BaseInv, ReqInv, OldMultiMessageStays
<1>3. Follows(h)
  BY <1>1, <1>2, OldMultiMessageStaysStep, ChangedFollows
<1>4. QED
  BY <1>2, <1>3, FaultsSettle

LEMMA FailSettles ==
    ASSUME BaseInv, OwnInv, SettleInv, NEW h \in Handlers, Fail(h)
    PROVE  Alone' /\ PanelsInv' /\ MultisInv'
<1>1. req[h].op # "idle"
  <2>1. req[h] \in Reqs /\ InPlace(req[h])
    BY DEF BaseInv, ReqInv
  <2>2. QED
    BY <2>1, Whereabouts DEF Fail, At, InPlace
<1>2. req \in [Handlers -> Reqs] /\ raced' = raced /\ faults' = faults + 1
  BY DEF BaseInv, ReqInv, Fail
<1>3. Follows(h)
  BY <1>1, <1>2, FailStep, FinishFollows
<1>4. QED
  BY <1>2, <1>3, FaultsSettle

LEMMA PanelStepInserted ==
    ASSUME BaseInv, SettleInv, NEW h \in Handlers, PanelStep(h)
    PROVE  Inserted'
<1>1. ASSUME LoadPanel(h) PROVE UNCHANGED <<mstored, targets>>
  BY <1>1 DEF LoadPanel, multiTable
<1>2. ASSUME CheckQuota(h) PROVE UNCHANGED <<mstored, targets>>
  BY <1>2 DEF CheckQuota, multiTable
<1>3. ASSUME OldMessage(h) PROVE UNCHANGED <<mstored, targets>>
  BY <1>3 DEF OldMessage, multiTable
<1>4. ASSUME OldMessageStays(h) PROVE UNCHANGED <<mstored, targets>>
  BY <1>4 DEF OldMessageStays, multiTable
<1>5. ASSUME SendPanel(h) PROVE UNCHANGED <<mstored, targets>>
  BY <1>5 DEF SendPanel, multiTable
<1>6. ASSUME SendToMissingChannel(h) PROVE UNCHANGED <<mstored, targets>>
  BY <1>6 DEF SendToMissingChannel, multiTable
<1>7. ASSUME RecordResent(h) PROVE UNCHANGED <<mstored, targets>>
  BY <1>7 DEF RecordResent, multiTable
<1>8. ASSUME WriteEmbed(h) PROVE UNCHANGED <<mstored, targets>>
  BY <1>8 DEF WriteEmbed, multiTable
<1>9. ASSUME CreateRow(h) PROVE UNCHANGED <<mstored, targets>>
  BY <1>9 DEF CreateRow, multiTable
<1>10. ASSUME UpdateRow(h) PROVE UNCHANGED <<mstored, targets>>
  BY <1>10 DEF UpdateRow, multiTable
<1>11. ASSUME LoadMultis(h) PROVE UNCHANGED <<mstored, targets>>
  BY <1>11 DEF LoadMultis, multiTable
<1>12. ASSUME DeleteEmbed(h) PROVE UNCHANGED <<mstored, targets>>
  BY <1>12 DEF DeleteEmbed, multiTable
<1>13. ASSUME DeleteRow(h) PROVE Inserted'
  BY <1>13 DEF DeleteRow, SettleInv, Inserted
<1>14. ASSUME DeletePanelMessage(h) PROVE UNCHANGED <<mstored, targets>>
  BY <1>14 DEF DeletePanelMessage, multiTable
<1>15. ASSUME NextMulti(h) PROVE UNCHANGED <<mstored, targets>>
  BY <1>15 DEF NextMulti, multiTable
<1>16. ASSUME EditMulti(h) PROVE UNCHANGED <<mstored, targets>>
  BY <1>16 DEF EditMulti, multiTable
<1>17. ASSUME SendMulti(h) PROVE UNCHANGED <<mstored, targets>>
  BY <1>17 DEF SendMulti, multiTable
<1>18. ASSUME RecordMulti(h) PROVE UNCHANGED <<mstored, targets>>
  BY <1>18 DEF RecordMulti, multiTable
<1>19. ASSUME DeleteMulti(h) PROVE UNCHANGED <<mstored, targets>>
  BY <1>19 DEF DeleteMulti, multiTable
<1>20. QED
  BY <1>1, <1>2, <1>3, <1>4, <1>5, <1>6, <1>7, <1>8, <1>9, <1>10, <1>11, <1>12, <1>13,
     <1>14, <1>15, <1>16, <1>17, <1>18, <1>19 DEF PanelStep, SettleInv, Inserted

LEMMA MultiStepInserted ==
    ASSUME BaseInv, SettleInv, NEW h \in Handlers, MultiStep(h)
    PROVE  Inserted'
<1>1. MultisOK /\ Inserted
  BY DEF BaseInv, SettleInv
<1>2. ASSUME LoadMulti(h) PROVE UNCHANGED <<mstored, targets>>
  BY <1>2 DEF LoadMulti, multiTable
<1>3. ASSUME OldMultiMessage(h) PROVE UNCHANGED <<mstored, targets>>
  BY <1>3 DEF OldMultiMessage, multiTable
<1>4. ASSUME OldMultiMessageStays(h) PROVE UNCHANGED <<mstored, targets>>
  BY <1>4 DEF OldMultiMessageStays, multiTable
<1>5. ASSUME ListOwn(h) PROVE UNCHANGED <<mstored, targets>>
  BY <1>5 DEF ListOwn, multiTable
<1>6. ASSUME SendOwn(h) PROVE UNCHANGED <<mstored, targets>>
  BY <1>6 DEF SendOwn, multiTable
<1>7. ASSUME CreateMultiRow(h) PROVE Inserted'
  BY <1>1, <1>7 DEF CreateMultiRow, MultisOK, Inserted
<1>8. ASSUME UpdateMultiRow(h) PROVE UNCHANGED <<mstored, targets>>
  BY <1>8 DEF UpdateMultiRow, multiTable
<1>9. ASSUME RecordResentMulti(h) PROVE UNCHANGED <<mstored, targets>>
  BY <1>9 DEF RecordResentMulti, multiTable
<1>10. ASSUME DeleteMultiRow(h) PROVE Inserted'
  BY <1>1, <1>10 DEF DeleteMultiRow, MultisOK, Inserted
<1>11. ASSUME ClearTargets(h) PROVE Inserted'
  BY <1>1, <1>11 DEF ClearTargets, MultisOK, Inserted
<1>12. ASSUME InsertTarget(h) PROVE Inserted'
  BY <1>1, <1>12 DEF InsertTarget, MultisOK, Inserted
<1>13. QED
  BY <1>1, <1>2, <1>3, <1>4, <1>5, <1>6, <1>7, <1>8, <1>9, <1>10, <1>11, <1>12 DEF MultiStep,
     Inserted

LEMMA PanelStepSettles ==
    ASSUME BaseInv, OwnInv, SettleInv, NEW h \in Handlers, PanelStep(h)
    PROVE  SettleInv'
<1>1. Alone' /\ PanelsInv' /\ MultisInv'
  BY LoadPanelSettles, CheckQuotaSettles, OldMessageSettles, OldMessageStaysSettles,
     SendPanelSettles, SendToMissingChannelSettles, RecordResentSettles, WriteEmbedSettles,
     CreateRowSettles, UpdateRowSettles, LoadMultisSettles, DeleteEmbedSettles,
     DeleteRowSettles, DeletePanelMessageSettles, NextMultiSettles, EditMultiSettles,
     SendMultiSettles, RecordMultiSettles, DeleteMultiSettles DEF PanelStep
<1>2. QED
  BY <1>1, PanelStepInserted DEF SettleInv

LEMMA MultiStepSettles ==
    ASSUME BaseInv, OwnInv, SettleInv, NEW h \in Handlers, MultiStep(h)
    PROVE  SettleInv'
<1>1. Alone' /\ PanelsInv' /\ MultisInv'
  BY LoadMultiSettles, OldMultiMessageSettles, OldMultiMessageStaysSettles, ListOwnSettles,
     SendOwnSettles, CreateMultiRowSettles, UpdateMultiRowSettles, RecordResentMultiSettles,
     DeleteMultiRowSettles, ClearTargetsSettles, InsertTargetSettles DEF MultiStep
<1>2. QED
  BY <1>1, MultiStepInserted DEF SettleInv

LEMMA FailsSettles ==
    ASSUME BaseInv, OwnInv, SettleInv, NEW h \in Handlers, Fail(h)
    PROVE  SettleInv'
<1>1. UNCHANGED <<mstored, targets>>
  BY DEF Fail, multiTable
<1>2. QED
  BY <1>1, FailSettles DEF SettleInv, Inserted

\* A request that arrives races with those that touch what it touches.
LEMMA NewRequestSettles ==
    ASSUME BaseInv, SettleInv, NEW h \in Handlers, Starts(h), InPlace(req[h])'
    PROVE  SettleInv'
<1>1. /\ Alone /\ PanelsInv /\ MultisInv /\ Inserted
      /\ req[h].op = "idle" /\ Touches(req[h]) = {} /\ req'[h].at = "load" /\ req'[h] \in Reqs
      /\ req'[h].op \in PanelOps \union MultiOps
      /\ \A g \in Handlers \ {h} : req'[g] = req[g]
      /\ raced' = raced \union UNION {Touches(req'[h]) \intersect Touches(req[g]) : g \in Handlers}
  BY IdleTouches DEF SettleInv, Starts
<1>2. /\ UNCHANGED <<stored, row, mstored, mrow, targets, faults>> /\ raced \subseteq raced'
      /\ \A o : Own(o)' = Own(o)
  BY <1>1, OwnSame DEF Starts, panelTable, multiTable
<1>3. \A g \in Handlers : Touches(req'[h]) \intersect Touches(req[g]) \subseteq raced'
  BY <1>1
<1>4. Alone'
  <2>1. ASSUME NEW f \in Handlers, NEW g \in Handlers, f # g
        PROVE  Touches(req'[f]) \intersect Touches(req'[g]) \subseteq raced'
    <3>1. CASE f = h
      BY <1>1, <1>3, <2>1, <3>1
    <3>2. CASE g = h
      BY <1>1, <1>3, <2>1, <3>2
    <3>3. CASE f # h /\ g # h
      BY <1>1, <1>2, <2>1, <3>3 DEF Alone
    <3>4. QED
      BY <3>1, <3>2, <3>3
  <2>2. QED
    BY <2>1 DEF Alone, Touches
<1>5. PanelsInv'
  <2> SUFFICES ASSUME faults = 0, NEW p \in Panels \ raced'
               PROVE  /\ (\A g \in Handlers : ~On(g, p)') => PanelRests(p)'
                      /\ \A g \in Handlers : On(g, p)' => PanelStage(req[g], p)'
    BY <1>2 DEF PanelsInv
  <2>1. \A g \in Handlers \ {h} : On(g, p)' <=> On(g, p)
    BY <1>1 DEF On
  <2>2. ~On(h, p)
    BY <1>1 DEF On
  <2>3. PanelRests(p) => PanelRests(p)'
    BY <1>2 DEF PanelRests
  <2>4. (\A g \in Handlers : ~On(g, p)') => PanelRests(p)'
    BY <1>1, <1>2, <2>1, <2>2, <2>3 DEF PanelsInv
  <2>5. ASSUME NEW g \in Handlers \ {h}, On(g, p)' PROVE PanelStage(req[g], p)'
    <3>1. PanelStage(req[g], p) /\ req'[g] = req[g]
      BY <1>1, <1>2, <2>1, <2>5 DEF PanelsInv
    <3>2. QED
      BY <1>2, <2>3, <3>1 DEF PanelStage, Untouched
  <2>6. ASSUME On(h, p)' PROVE PanelStage(req[h], p)'
    <3>1. p \in Touches(req'[h]) /\ req'[h].on = p
      BY <2>6 DEF On, Touches
    <3>2. \A g \in Handlers : ~On(g, p)
      BY <1>3, <3>1, TouchesOn DEF Touched
    <3>3. PanelRests(p) /\ PanelRests(p)'
      BY <1>1, <1>2, <2>3, <3>2 DEF PanelsInv
    <3>4. req'[h].op = "CreatePanel" => p \notin stored
      BY <3>1 DEF Starts
    <3>5. QED
      BY <1>1, <1>2, <3>1, <3>3, <3>4 DEF PanelStage, Untouched, PanelRests
  <2>7. QED
    BY <2>4, <2>5, <2>6
<1>6. MultisInv'
  <2> SUFFICES ASSUME faults = 0, Few, NEW m \in Multis \ raced'
               PROVE  /\ (\A g \in Handlers : ~Touched(g, m)') => MultiRests(m)'
                      /\ \A g \in Handlers : Touched(g, m)' => MultiStage(req[g], m)'
    BY <1>2 DEF MultisInv, Few
  <2>1. \A g \in Handlers \ {h} : Touched(g, m)' <=> Touched(g, m)
    BY <1>1 DEF Touched
  <2>2. ~Touched(h, m)
    BY <1>1 DEF Touched
  <2>3. MultiRests(m) => MultiRests(m)'
    BY <1>2 DEF MultiRests, MultiMsg
  <2>4. (\A g \in Handlers : ~Touched(g, m)') => MultiRests(m)'
    BY <1>1, <1>2, <2>1, <2>2, <2>3 DEF MultisInv
  <2>5. ASSUME NEW g \in Handlers \ {h}, Touched(g, m)' PROVE MultiStage(req[g], m)'
    <3>1. MultiStage(req[g], m) /\ req'[g] = req[g]
      BY <1>1, <1>2, <2>1, <2>5 DEF MultisInv
    <3>2. LoopStage(req[g], m) => LoopStage(req[g], m)'
      BY <1>2, <2>3, <3>1 DEF LoopStage, MultiMsg, InLoop, Turn, Late
    <3>3. OwnStage(req[g], m) => OwnStage(req[g], m)'
      BY <1>2, <2>3, <3>1 DEF OwnStage, MultiMsg
    <3>4. QED
      BY <3>1, <3>2, <3>3 DEF MultiStage
  <2>6. ASSUME Touched(h, m)' PROVE MultiStage(req[h], m)'
    <3>1. m \in Touches(req'[h])
      BY <2>6 DEF Touched
    <3>2. \A g \in Handlers : ~Touched(g, m)
      BY <1>3, <3>1 DEF Touched
    <3>3. MultiRests(m) /\ MultiRests(m)'
      BY <1>1, <1>2, <2>3, <3>2 DEF MultisInv
    <3>4. req'[h].op \in PanelOps => LoopStage(req[h], m)'
      BY <1>1, <3>3 DEF LoopStage, Late, InLoop, Turn, PanelOps
    <3>5. req'[h].op \notin PanelOps => req'[h].on = m
      BY <3>1 DEF Touches, PanelOps
    <3>6. req'[h].op = "MultiPanelCreate" => m \notin mstored
      BY <3>5 DEF Starts, PanelOps
    <3>7. req'[h].op \notin PanelOps => OwnStage(req[h], m)'
      BY <1>1, <1>2, <3>3, <3>6 DEF OwnStage, MultiRests
    <3>8. QED
      BY <3>4, <3>7 DEF MultiStage
  <2>7. QED
    BY <2>4, <2>5, <2>6
<1>7. QED
  BY <1>1, <1>2, <1>4, <1>5, <1>6 DEF SettleInv, Inserted

LEMMA InitSettles == Init => SettleInv
<1> SUFFICES ASSUME Init PROVE SettleInv
  OBVIOUS
<1>1. PICK P, M, c, id : First(P, M, c, id)
  BY FirstState
<1>2. \A h \in Handlers : req[h] = Idle
  BY DEF Init
<1>3. \A h \in Handlers : Touches(req[h]) = {} /\ req[h].op = "idle"
  BY <1>2, IdleTouches
<1> DEFINE Post(o) == [id |-> id[o], chan |-> c, of |-> o, shows |-> IF o \in M THEN P ELSE {o}]
<1>4. live = {Post(o) : o \in P \union M} /\ \A o : Post(o).of = o
  BY <1>1 DEF First
<1>5. \A o : Post(o) = Msg(id[o], c, o, IF o \in M THEN P ELSE {o})
  BY DEF Msg
<1> HIDE DEF Post
<1>6. \A o : Own(o) = IF o \in P \union M THEN {Post(o)} ELSE {}
  BY <1>4 DEF Own
<1>7. \A p \in Panels : PanelRests(p)
  <2> SUFFICES ASSUME NEW p \in Panels PROVE PanelRests(p)
    OBVIOUS
  <2>1. stored = P /\ p \notin M /\ (p \in P => row[p].msg = id[p] /\ row[p].chan = c)
    BY <1>1, PanelMessagesAssumption DEF First
  <2>2. QED
    BY <1>5, <1>6, <2>1 DEF PanelRests
<1>8. \A m \in Multis : MultiRests(m) /\ (targets[m] # {} => m \in mstored)
  <2> SUFFICES ASSUME NEW m \in Multis PROVE MultiRests(m) /\ (targets[m] # {} => m \in mstored)
    OBVIOUS
  <2>1. /\ mstored = M /\ m \notin P
        /\ m \in M => mrow[m].msg = id[m] /\ mrow[m].chan = c /\ targets[m] = P
        /\ m \notin M => targets[m] = {}
    BY <1>1, PanelMessagesAssumption DEF First
  <2>2. QED
    BY <1>5, <1>6, <2>1 DEF MultiRests, MultiMsg
<1>9. Alone
  BY <1>3 DEF Alone
<1>10. QED
  BY <1>3, <1>7, <1>8, <1>9 DEF SettleInv, PanelsInv, MultisInv, On, Touched, Inserted
(* Welcome messages. *)

\* With no other request at p.
LEMMA WelcomesHere ==
    ASSUME Alone, raced = {}, NEW h \in Handlers, NEW p \in Panels, On(h, p), Follows(h)
    PROVE  /\ \A e : Welcomes(p, e) <=>
                /\ e # 0
                /\ \/ req[h].at = "store" /\ req[h].embed = e
                   \/ p \in stored /\ row[p].embed = e /\ req[h].at \notin {"store", "deleteRow"}
           /\ \A e : Welcomes(p, e)' <=>
                /\ e # 0
                /\ \/ req'[h].at = "store" /\ req'[h].embed = e
                   \/ p \in stored' /\ row'[p].embed = e /\ req'[h].at \notin {"store", "deleteRow"}
<1>1. \A g \in Handlers \ {h} : ~On(g, p) /\ ~On(g, p)'
  <2>1. \A g \in Handlers \ {h} : ~On(g, p)
    BY TouchesOn DEF Alone, Touched
  <2>2. QED
    BY <2>1 DEF Follows, On
<1>2. On(h, p)' \/ req'[h].at = "idle"
  BY DEF Follows, On, Idle
<1>3. \A e : Welcomes(p, e) <=>
                /\ e # 0
                /\ \/ req[h].at = "store" /\ req[h].embed = e
                   \/ p \in stored /\ row[p].embed = e /\ req[h].at \notin {"store", "deleteRow"}
  BY <1>1 DEF Welcomes
<1>4. \A e : Welcomes(p, e)' <=>
                /\ e # 0
                /\ \/ req'[h].at = "store" /\ req'[h].embed = e
                   \/ p \in stored' /\ row'[p].embed = e /\ req'[h].at \notin {"store", "deleteRow"}
  <2>1. CASE On(h, p)'
    BY <1>1, <2>1 DEF Welcomes
  <2>2. CASE ~On(h, p)' /\ req'[h].at = "idle"
    BY <1>1, <2>2 DEF Welcomes
  <2>3. QED
    BY <1>2, <2>1, <2>2
<1>5. QED
  BY <1>3, <1>4

LEMMA WelcomesElsewhere ==
    ASSUME NEW h \in Handlers, Follows(h), NEW p \in Panels, ~On(h, p),
           p \in stored' <=> p \in stored, row'[p].embed = row[p].embed
    PROVE  \A e : Welcomes(p, e)' <=> Welcomes(p, e)
<1>1. \A g \in Handlers : On(g, p)' <=> On(g, p)
  BY IdleTouches DEF Follows, On
<1>2. \A g \in Handlers : On(g, p) => req'[g] = req[g]
  BY DEF Follows
<1>3. QED
  BY <1>1, <1>2 DEF Welcomes

\* A step that writes no welcome message and goes on as before.
LEMMA EmbedsFollow ==
    ASSUME SettleInv, EmbedsInv, NEW h \in Handlers, Follows(h), nextEmbed' = nextEmbed,
           req'[h].op = "CreatePanel" => req'[h].old.embed = 0,
           faults' # 0 \/ (/\ faults' = faults /\ embeds' = embeds
                           /\ raced = {} => \A p \in Panels : \A e : Welcomes(p, e)' <=> Welcomes(p, e))
    PROVE  EmbedsInv'
<1>1. nextEmbed' > 0 /\ \A g \in Handlers : req'[g].op = "CreatePanel" => req'[g].old.embed = 0
  BY DEF EmbedsInv, Follows
<1>2. CASE faults' # 0
  BY <1>1, <1>2 DEF EmbedsInv
<1>3. CASE /\ faults' = faults /\ embeds' = embeds
           /\ raced = {} => \A p \in Panels : \A e : Welcomes(p, e)' <=> Welcomes(p, e)
  BY <1>1, <1>3 DEF EmbedsInv, Follows
<1>4. QED
  BY <1>2, <1>3

LEMMA WelcomesSame ==
    ASSUME SettleInv, NEW h \in Handlers, Follows(h), stored' = stored,
           \A p \in Panels : row'[p].embed = row[p].embed,
           req[h].at \notin {"store", "deleteRow"}, req'[h].at \notin {"store", "deleteRow"}
    PROVE  raced = {} => \A p \in Panels : \A e : Welcomes(p, e)' <=> Welcomes(p, e)
<1> SUFFICES ASSUME raced = {}, NEW p \in Panels PROVE \A e : Welcomes(p, e)' <=> Welcomes(p, e)
  OBVIOUS
<1>1. CASE On(h, p)
  BY <1>1, WelcomesHere DEF SettleInv
<1>2. CASE ~On(h, p)
  BY <1>2, WelcomesElsewhere
<1>3. QED
  BY <1>1, <1>2

LEMMA LoadPanelEmbeds ==
    ASSUME BaseInv, SettleInv, EmbedsInv, NEW h \in Handlers, LoadPanel(h)
    PROVE  EmbedsInv'
<1>1. /\ req \in [Handlers -> Reqs] /\ req[h] \in Reqs /\ InPlace(req[h]) /\ PanelsOK /\ BookOK
      /\ req[h].op = "CreatePanel" => req[h].old.embed = 0
  BY DEF BaseInv, ReqInv, EmbedsInv
<1>2. req[h].at = "load" /\ req[h].op # "idle"
  BY <1>1, Whereabouts DEF LoadPanel, At, InPlace, PanelOps, MultiOps
<1>3. /\ UNCHANGED <<stored, embeds, nextEmbed, raced>>
      /\ \A p \in Panels : row'[p].embed = row[p].embed
      /\ faults' = faults \/ faults' = faults + 1
  BY DEF LoadPanel, panelTable, embedTable, book
<1>4. faults' # 0 \/ faults' = faults
  BY <1>1, <1>3 DEF BookOK
<1>5. ASSUME Finish(h)
      PROVE  /\ Follows(h) /\ req'[h].at \notin {"store", "deleteRow"}
             /\ req'[h].op = "CreatePanel" => req'[h].old.embed = 0
  BY <1>1, <1>2, <1>3, <1>5, FinishFollows, IdleTouches DEF Idle
<1>6. ASSUME Changed(h, {"old", "at"}) /\ req'[h].at = (IF req[h].op = "DeletePanel" THEN "multis" ELSE "old") /\ req[h].op # "CreatePanel"
      PROVE  /\ Follows(h) /\ req'[h].at \notin {"store", "deleteRow"}
             /\ req'[h].op = "CreatePanel" => req'[h].old.embed = 0
  BY <1>1, <1>2, <1>3, <1>6, ChangedFollows DEF Changed, Fields, AfterSend, AfterDelete
<1>7. /\ Follows(h) /\ req'[h].at \notin {"store", "deleteRow"}
      /\ req'[h].op = "CreatePanel" => req'[h].old.embed = 0
  BY <1>5, <1>6, LoadPanelStep DEF LoadPanel
<1>8. QED
  BY <1>2, <1>3, <1>4, <1>7, WelcomesSame, EmbedsFollow

LEMMA CheckQuotaEmbeds ==
    ASSUME BaseInv, SettleInv, EmbedsInv, NEW h \in Handlers, CheckQuota(h)
    PROVE  EmbedsInv'
<1>1. /\ req \in [Handlers -> Reqs] /\ req[h] \in Reqs /\ InPlace(req[h]) /\ PanelsOK /\ BookOK
      /\ req[h].op = "CreatePanel" => req[h].old.embed = 0
  BY DEF BaseInv, ReqInv, EmbedsInv
<1>2. req[h].at = "load" /\ req[h].op # "idle"
  BY <1>1, Whereabouts DEF CheckQuota, At, InPlace, PanelOps, MultiOps
<1>3. /\ UNCHANGED <<stored, embeds, nextEmbed, raced>>
      /\ \A p \in Panels : row'[p].embed = row[p].embed
      /\ faults' = faults \/ faults' = faults + 1
  BY DEF CheckQuota, panelTable, embedTable, book
<1>4. faults' # 0 \/ faults' = faults
  BY <1>1, <1>3 DEF BookOK
<1>5. ASSUME Finish(h)
      PROVE  /\ Follows(h) /\ req'[h].at \notin {"store", "deleteRow"}
             /\ req'[h].op = "CreatePanel" => req'[h].old.embed = 0
  BY <1>1, <1>2, <1>3, <1>5, FinishFollows, IdleTouches DEF Idle
<1>6. ASSUME Changed(h, {"at"}) /\ req'[h].at = "send"
      PROVE  /\ Follows(h) /\ req'[h].at \notin {"store", "deleteRow"}
             /\ req'[h].op = "CreatePanel" => req'[h].old.embed = 0
  BY <1>1, <1>2, <1>3, <1>6, ChangedFollows DEF Changed, Fields, AfterSend, AfterDelete
<1>7. /\ Follows(h) /\ req'[h].at \notin {"store", "deleteRow"}
      /\ req'[h].op = "CreatePanel" => req'[h].old.embed = 0
  BY <1>5, <1>6, CheckQuotaStep
<1>8. QED
  BY <1>2, <1>3, <1>4, <1>7, WelcomesSame, EmbedsFollow

LEMMA OldMessageEmbeds ==
    ASSUME BaseInv, SettleInv, EmbedsInv, NEW h \in Handlers, OldMessage(h)
    PROVE  EmbedsInv'
<1>1. /\ req \in [Handlers -> Reqs] /\ req[h] \in Reqs /\ InPlace(req[h]) /\ PanelsOK /\ BookOK
      /\ req[h].op = "CreatePanel" => req[h].old.embed = 0
  BY DEF BaseInv, ReqInv, EmbedsInv
<1>2. req[h].at = "old" /\ req[h].op # "idle"
  BY <1>1, Whereabouts DEF OldMessage, At, InPlace, PanelOps, MultiOps
<1>3. /\ UNCHANGED <<stored, embeds, nextEmbed, raced>>
      /\ \A p \in Panels : row'[p].embed = row[p].embed
      /\ faults' = faults \/ faults' = faults + 1
  BY DEF OldMessage, panelTable, embedTable, book
<1>4. faults' # 0 \/ faults' = faults
  BY <1>1, <1>3 DEF BookOK
<1>5. ASSUME Changed(h, {"at"}) /\ req'[h].at = "send"
      PROVE  /\ Follows(h) /\ req'[h].at \notin {"store", "deleteRow"}
             /\ req'[h].op = "CreatePanel" => req'[h].old.embed = 0
  BY <1>1, <1>2, <1>3, <1>5, ChangedFollows DEF Changed, Fields, AfterSend, AfterDelete
<1>6. ASSUME Changed(h, {"msg", "at"}) /\ req'[h].at = "embed"
      PROVE  /\ Follows(h) /\ req'[h].at \notin {"store", "deleteRow"}
             /\ req'[h].op = "CreatePanel" => req'[h].old.embed = 0
  BY <1>1, <1>2, <1>3, <1>6, ChangedFollows DEF Changed, Fields, AfterSend, AfterDelete
<1>7. ASSUME Changed(h, {"at"}) /\ req'[h].at = "send"
      PROVE  /\ Follows(h) /\ req'[h].at \notin {"store", "deleteRow"}
             /\ req'[h].op = "CreatePanel" => req'[h].old.embed = 0
  BY <1>1, <1>2, <1>3, <1>7, ChangedFollows DEF Changed, Fields, AfterSend, AfterDelete
<1>8. /\ Follows(h) /\ req'[h].at \notin {"store", "deleteRow"}
      /\ req'[h].op = "CreatePanel" => req'[h].old.embed = 0
  BY <1>5, <1>6, <1>7, OldMessageStep
<1>9. QED
  BY <1>2, <1>3, <1>4, <1>8, WelcomesSame, EmbedsFollow

LEMMA OldMessageStaysEmbeds ==
    ASSUME BaseInv, SettleInv, EmbedsInv, NEW h \in Handlers, OldMessageStays(h)
    PROVE  EmbedsInv'
<1>1. /\ req \in [Handlers -> Reqs] /\ req[h] \in Reqs /\ InPlace(req[h]) /\ PanelsOK /\ BookOK
      /\ req[h].op = "CreatePanel" => req[h].old.embed = 0
  BY DEF BaseInv, ReqInv, EmbedsInv
<1>2. req[h].at = "old" /\ req[h].op # "idle"
  BY <1>1, Whereabouts DEF OldMessageStays, At, InPlace, PanelOps, MultiOps
<1>3. /\ UNCHANGED <<stored, embeds, nextEmbed, raced>>
      /\ \A p \in Panels : row'[p].embed = row[p].embed
      /\ faults' = faults \/ faults' = faults + 1
  BY DEF OldMessageStays, panelTable, embedTable, book
<1>4. faults' # 0 \/ faults' = faults
  BY <1>1, <1>3 DEF BookOK
<1>5. ASSUME Changed(h, {"at"}) /\ req'[h].at = "send"
      PROVE  /\ Follows(h) /\ req'[h].at \notin {"store", "deleteRow"}
             /\ req'[h].op = "CreatePanel" => req'[h].old.embed = 0
  BY <1>1, <1>2, <1>3, <1>5, ChangedFollows DEF Changed, Fields, AfterSend, AfterDelete
<1>6. /\ Follows(h) /\ req'[h].at \notin {"store", "deleteRow"}
      /\ req'[h].op = "CreatePanel" => req'[h].old.embed = 0
  BY <1>5, OldMessageStaysStep
<1>7. QED
  BY <1>2, <1>3, <1>4, <1>6, WelcomesSame, EmbedsFollow

LEMMA SendPanelEmbeds ==
    ASSUME BaseInv, SettleInv, EmbedsInv, NEW h \in Handlers, SendPanel(h)
    PROVE  EmbedsInv'
<1>1. /\ req \in [Handlers -> Reqs] /\ req[h] \in Reqs /\ InPlace(req[h]) /\ PanelsOK /\ BookOK
      /\ req[h].op = "CreatePanel" => req[h].old.embed = 0
  BY DEF BaseInv, ReqInv, EmbedsInv
<1>2. req[h].at = "send" /\ req[h].op # "idle"
  BY <1>1, Whereabouts DEF SendPanel, At, InPlace, PanelOps, MultiOps
<1>3. /\ UNCHANGED <<stored, embeds, nextEmbed, raced>>
      /\ \A p \in Panels : row'[p].embed = row[p].embed
      /\ faults' = faults \/ faults' = faults + 1
  BY DEF SendPanel, SendLost, panelTable, embedTable, book
<1>4. faults' # 0 \/ faults' = faults
  BY <1>1, <1>3 DEF BookOK
<1>5. ASSUME Finish(h)
      PROVE  /\ Follows(h) /\ req'[h].at \notin {"store", "deleteRow"}
             /\ req'[h].op = "CreatePanel" => req'[h].old.embed = 0
  BY <1>1, <1>2, <1>3, <1>5, FinishFollows, IdleTouches DEF Idle
<1>6. ASSUME Changed(h, {"msg", "at"}) /\ req'[h].at = AfterSend(req[h])
      PROVE  /\ Follows(h) /\ req'[h].at \notin {"store", "deleteRow"}
             /\ req'[h].op = "CreatePanel" => req'[h].old.embed = 0
  BY <1>1, <1>2, <1>3, <1>6, ChangedFollows DEF Changed, Fields, AfterSend, AfterDelete
<1>7. /\ Follows(h) /\ req'[h].at \notin {"store", "deleteRow"}
      /\ req'[h].op = "CreatePanel" => req'[h].old.embed = 0
  BY <1>5, <1>6, SendPanelStep
<1>8. QED
  BY <1>2, <1>3, <1>4, <1>7, WelcomesSame, EmbedsFollow

LEMMA SendToMissingChannelEmbeds ==
    ASSUME BaseInv, SettleInv, EmbedsInv, NEW h \in Handlers, SendToMissingChannel(h)
    PROVE  EmbedsInv'
<1>1. /\ req \in [Handlers -> Reqs] /\ req[h] \in Reqs /\ InPlace(req[h]) /\ PanelsOK /\ BookOK
      /\ req[h].op = "CreatePanel" => req[h].old.embed = 0
  BY DEF BaseInv, ReqInv, EmbedsInv
<1>2. req[h].at = "send" /\ req[h].op # "idle"
  BY <1>1, Whereabouts DEF SendToMissingChannel, At, InPlace, PanelOps, MultiOps
<1>3. /\ UNCHANGED <<stored, embeds, nextEmbed, raced>>
      /\ \A p \in Panels : row'[p].embed = row[p].embed
      /\ faults' = faults \/ faults' = faults + 1
  BY DEF SendToMissingChannel, panelTable, embedTable, book
<1>4. faults' # 0 \/ faults' = faults
  BY <1>1, <1>3 DEF BookOK
<1>5. ASSUME Changed(h, {"msg", "at"}) /\ req'[h].at = "embed"
      PROVE  /\ Follows(h) /\ req'[h].at \notin {"store", "deleteRow"}
             /\ req'[h].op = "CreatePanel" => req'[h].old.embed = 0
  BY <1>1, <1>2, <1>3, <1>5, ChangedFollows DEF Changed, Fields, AfterSend, AfterDelete
<1>6. /\ Follows(h) /\ req'[h].at \notin {"store", "deleteRow"}
      /\ req'[h].op = "CreatePanel" => req'[h].old.embed = 0
  BY <1>5, SendToMissingChannelStep
<1>7. QED
  BY <1>2, <1>3, <1>4, <1>6, WelcomesSame, EmbedsFollow

LEMMA RecordResentEmbeds ==
    ASSUME BaseInv, SettleInv, EmbedsInv, NEW h \in Handlers, RecordResent(h)
    PROVE  EmbedsInv'
<1>1. /\ req \in [Handlers -> Reqs] /\ req[h] \in Reqs /\ InPlace(req[h]) /\ PanelsOK /\ BookOK
      /\ req[h].op = "CreatePanel" => req[h].old.embed = 0
  BY DEF BaseInv, ReqInv, EmbedsInv
<1>2. req[h].at = "record" /\ req[h].op # "idle"
  BY <1>1, Whereabouts DEF RecordResent, At, InPlace, PanelOps, MultiOps
<1>3. UNCHANGED <<stored, embeds, nextEmbed, raced, faults>> /\ \A p \in Panels : row'[p].embed = row[p].embed
  BY <1>1 DEF RecordResent, embedTable, book, PanelsOK, Row, With
<1>4. faults' # 0 \/ faults' = faults
  BY <1>1, <1>3 DEF BookOK
<1>5. ASSUME Finish(h)
      PROVE  /\ Follows(h) /\ req'[h].at \notin {"store", "deleteRow"}
             /\ req'[h].op = "CreatePanel" => req'[h].old.embed = 0
  BY <1>1, <1>2, <1>3, <1>5, FinishFollows, IdleTouches DEF Idle
<1>6. /\ Follows(h) /\ req'[h].at \notin {"store", "deleteRow"}
      /\ req'[h].op = "CreatePanel" => req'[h].old.embed = 0
  BY <1>5, RecordResentStep
<1>7. QED
  BY <1>2, <1>3, <1>4, <1>6, WelcomesSame, EmbedsFollow

LEMMA LoadMultisEmbeds ==
    ASSUME BaseInv, SettleInv, EmbedsInv, NEW h \in Handlers, LoadMultis(h)
    PROVE  EmbedsInv'
<1>1. /\ req \in [Handlers -> Reqs] /\ req[h] \in Reqs /\ InPlace(req[h]) /\ PanelsOK /\ BookOK
      /\ req[h].op = "CreatePanel" => req[h].old.embed = 0
  BY DEF BaseInv, ReqInv, EmbedsInv
<1>2. req[h].at = "multis" /\ req[h].op # "idle"
  BY <1>1, Whereabouts DEF LoadMultis, At, InPlace, PanelOps, MultiOps
<1>3. /\ UNCHANGED <<stored, embeds, nextEmbed, raced>>
      /\ \A p \in Panels : row'[p].embed = row[p].embed
      /\ faults' = faults \/ faults' = faults + 1
  BY DEF LoadMultis, panelTable, embedTable, book
<1>4. faults' # 0 \/ faults' = faults
  BY <1>1, <1>3 DEF BookOK
<1>5. ASSUME Changed(h, {"todo", "mold", "at"}) /\ req'[h].at = (IF req[h].op = "DeletePanel" THEN "delete" ELSE "next")
      PROVE  /\ Follows(h) /\ req'[h].at \notin {"store", "deleteRow"}
             /\ req'[h].op = "CreatePanel" => req'[h].old.embed = 0
  BY <1>1, <1>2, <1>3, <1>5, ChangedFollows DEF Changed, Fields, AfterSend, AfterDelete
<1>6. /\ Follows(h) /\ req'[h].at \notin {"store", "deleteRow"}
      /\ req'[h].op = "CreatePanel" => req'[h].old.embed = 0
  BY <1>5, LoadMultisStep
<1>7. QED
  BY <1>2, <1>3, <1>4, <1>6, WelcomesSame, EmbedsFollow

LEMMA DeletePanelMessageEmbeds ==
    ASSUME BaseInv, SettleInv, EmbedsInv, NEW h \in Handlers, DeletePanelMessage(h)
    PROVE  EmbedsInv'
<1>1. /\ req \in [Handlers -> Reqs] /\ req[h] \in Reqs /\ InPlace(req[h]) /\ PanelsOK /\ BookOK
      /\ req[h].op = "CreatePanel" => req[h].old.embed = 0
  BY DEF BaseInv, ReqInv, EmbedsInv
<1>2. req[h].at = "deleteMessage" /\ req[h].op # "idle"
  BY <1>1, Whereabouts DEF DeletePanelMessage, At, InPlace, PanelOps, MultiOps
<1>3. /\ UNCHANGED <<stored, embeds, nextEmbed, raced>>
      /\ \A p \in Panels : row'[p].embed = row[p].embed
      /\ faults' = faults \/ faults' = faults + 1
  BY DEF DeletePanelMessage, panelTable, embedTable, book
<1>4. faults' # 0 \/ faults' = faults
  BY <1>1, <1>3 DEF BookOK
<1>5. ASSUME Changed(h, {"at"}) /\ req'[h].at = "next"
      PROVE  /\ Follows(h) /\ req'[h].at \notin {"store", "deleteRow"}
             /\ req'[h].op = "CreatePanel" => req'[h].old.embed = 0
  BY <1>1, <1>2, <1>3, <1>5, ChangedFollows DEF Changed, Fields, AfterSend, AfterDelete
<1>6. /\ Follows(h) /\ req'[h].at \notin {"store", "deleteRow"}
      /\ req'[h].op = "CreatePanel" => req'[h].old.embed = 0
  BY <1>5, DeletePanelMessageStep
<1>7. QED
  BY <1>2, <1>3, <1>4, <1>6, WelcomesSame, EmbedsFollow

LEMMA NextMultiEmbeds ==
    ASSUME BaseInv, SettleInv, EmbedsInv, NEW h \in Handlers, NextMulti(h)
    PROVE  EmbedsInv'
<1>1. /\ req \in [Handlers -> Reqs] /\ req[h] \in Reqs /\ InPlace(req[h]) /\ PanelsOK /\ BookOK
      /\ req[h].op = "CreatePanel" => req[h].old.embed = 0
  BY DEF BaseInv, ReqInv, EmbedsInv
<1>2. req[h].at = "next" /\ req[h].op # "idle"
  BY <1>1, Whereabouts DEF NextMulti, At, InPlace, PanelOps, MultiOps
<1>3. /\ UNCHANGED <<stored, embeds, nextEmbed, raced>>
      /\ \A p \in Panels : row'[p].embed = row[p].embed
      /\ faults' = faults \/ faults' = faults + 1
  BY DEF NextMulti, panelTable, embedTable, book
<1>4. faults' # 0 \/ faults' = faults
  BY <1>1, <1>3 DEF BookOK
<1>5. ASSUME Finish(h)
      PROVE  /\ Follows(h) /\ req'[h].at \notin {"store", "deleteRow"}
             /\ req'[h].op = "CreatePanel" => req'[h].old.embed = 0
  BY <1>1, <1>2, <1>3, <1>5, FinishFollows, IdleTouches DEF Idle
<1>6. ASSUME Changed(h, {"todo", "list", "panels", "at"}) /\ req'[h].at = (IF req[h].op = "DeletePanel" THEN "sendMulti" ELSE "editMulti")
      PROVE  /\ Follows(h) /\ req'[h].at \notin {"store", "deleteRow"}
             /\ req'[h].op = "CreatePanel" => req'[h].old.embed = 0
  BY <1>1, <1>2, <1>3, <1>6, ChangedFollows DEF Changed, Fields, AfterSend, AfterDelete
<1>7. /\ Follows(h) /\ req'[h].at \notin {"store", "deleteRow"}
      /\ req'[h].op = "CreatePanel" => req'[h].old.embed = 0
  BY <1>5, <1>6, NextMultiStep
<1>8. QED
  BY <1>2, <1>3, <1>4, <1>7, WelcomesSame, EmbedsFollow

LEMMA EditMultiEmbeds ==
    ASSUME BaseInv, SettleInv, EmbedsInv, NEW h \in Handlers, EditMulti(h)
    PROVE  EmbedsInv'
<1>1. /\ req \in [Handlers -> Reqs] /\ req[h] \in Reqs /\ InPlace(req[h]) /\ PanelsOK /\ BookOK
      /\ req[h].op = "CreatePanel" => req[h].old.embed = 0
  BY DEF BaseInv, ReqInv, EmbedsInv
<1>2. req[h].at = "editMulti" /\ req[h].op # "idle"
  BY <1>1, Whereabouts DEF EditMulti, At, InPlace, PanelOps, MultiOps
<1>3. /\ UNCHANGED <<stored, embeds, nextEmbed, raced>>
      /\ \A p \in Panels : row'[p].embed = row[p].embed
      /\ faults' = faults \/ faults' = faults + 1
  BY DEF EditMulti, panelTable, embedTable, book
<1>4. faults' # 0 \/ faults' = faults
  BY <1>1, <1>3 DEF BookOK
<1>5. ASSUME Changed(h, {"at"}) /\ req'[h].at = "next"
      PROVE  /\ Follows(h) /\ req'[h].at \notin {"store", "deleteRow"}
             /\ req'[h].op = "CreatePanel" => req'[h].old.embed = 0
  BY <1>1, <1>2, <1>3, <1>5, ChangedFollows DEF Changed, Fields, AfterSend, AfterDelete
<1>6. ASSUME Changed(h, {"at"}) /\ req'[h].at = "sendMulti"
      PROVE  /\ Follows(h) /\ req'[h].at \notin {"store", "deleteRow"}
             /\ req'[h].op = "CreatePanel" => req'[h].old.embed = 0
  BY <1>1, <1>2, <1>3, <1>6, ChangedFollows DEF Changed, Fields, AfterSend, AfterDelete
<1>7. /\ Follows(h) /\ req'[h].at \notin {"store", "deleteRow"}
      /\ req'[h].op = "CreatePanel" => req'[h].old.embed = 0
  BY <1>5, <1>6, EditMultiStep
<1>8. QED
  BY <1>2, <1>3, <1>4, <1>7, WelcomesSame, EmbedsFollow

LEMMA SendMultiEmbeds ==
    ASSUME BaseInv, SettleInv, EmbedsInv, NEW h \in Handlers, SendMulti(h)
    PROVE  EmbedsInv'
<1>1. /\ req \in [Handlers -> Reqs] /\ req[h] \in Reqs /\ InPlace(req[h]) /\ PanelsOK /\ BookOK
      /\ req[h].op = "CreatePanel" => req[h].old.embed = 0
  BY DEF BaseInv, ReqInv, EmbedsInv
<1>2. req[h].at = "sendMulti" /\ req[h].op # "idle"
  BY <1>1, Whereabouts DEF SendMulti, At, InPlace, PanelOps, MultiOps
<1>3. /\ UNCHANGED <<stored, embeds, nextEmbed, raced>>
      /\ \A p \in Panels : row'[p].embed = row[p].embed
      /\ faults' = faults \/ faults' = faults + 1
  BY DEF SendMulti, SendLost, panelTable, embedTable, book
<1>4. faults' # 0 \/ faults' = faults
  BY <1>1, <1>3 DEF BookOK
<1>5. ASSUME Finish(h)
      PROVE  /\ Follows(h) /\ req'[h].at \notin {"store", "deleteRow"}
             /\ req'[h].op = "CreatePanel" => req'[h].old.embed = 0
  BY <1>1, <1>2, <1>3, <1>5, FinishFollows, IdleTouches DEF Idle
<1>6. ASSUME Changed(h, {"msg", "at"}) /\ req'[h].at = "recordMulti"
      PROVE  /\ Follows(h) /\ req'[h].at \notin {"store", "deleteRow"}
             /\ req'[h].op = "CreatePanel" => req'[h].old.embed = 0
  BY <1>1, <1>2, <1>3, <1>6, ChangedFollows DEF Changed, Fields, AfterSend, AfterDelete
<1>7. ASSUME Changed(h, {"at"}) /\ req'[h].at = "next"
      PROVE  /\ Follows(h) /\ req'[h].at \notin {"store", "deleteRow"}
             /\ req'[h].op = "CreatePanel" => req'[h].old.embed = 0
  BY <1>1, <1>2, <1>3, <1>7, ChangedFollows DEF Changed, Fields, AfterSend, AfterDelete
<1>8. /\ Follows(h) /\ req'[h].at \notin {"store", "deleteRow"}
      /\ req'[h].op = "CreatePanel" => req'[h].old.embed = 0
  BY <1>5, <1>6, <1>7, SendMultiStep
<1>9. QED
  BY <1>2, <1>3, <1>4, <1>8, WelcomesSame, EmbedsFollow

LEMMA RecordMultiEmbeds ==
    ASSUME BaseInv, SettleInv, EmbedsInv, NEW h \in Handlers, RecordMulti(h)
    PROVE  EmbedsInv'
<1>1. /\ req \in [Handlers -> Reqs] /\ req[h] \in Reqs /\ InPlace(req[h]) /\ PanelsOK /\ BookOK
      /\ req[h].op = "CreatePanel" => req[h].old.embed = 0
  BY DEF BaseInv, ReqInv, EmbedsInv
<1>2. req[h].at = "recordMulti" /\ req[h].op # "idle"
  BY <1>1, Whereabouts DEF RecordMulti, At, InPlace, PanelOps, MultiOps
<1>3. /\ UNCHANGED <<stored, embeds, nextEmbed, raced>>
      /\ \A p \in Panels : row'[p].embed = row[p].embed
      /\ faults' = faults \/ faults' = faults + 1
  BY DEF RecordMulti, panelTable, embedTable, book
<1>4. faults' # 0 \/ faults' = faults
  BY <1>1, <1>3 DEF BookOK
<1>5. ASSUME Changed(h, {"at"}) /\ req'[h].at = (IF req[h].op = "DeletePanel" THEN "deleteMulti" ELSE "next")
      PROVE  /\ Follows(h) /\ req'[h].at \notin {"store", "deleteRow"}
             /\ req'[h].op = "CreatePanel" => req'[h].old.embed = 0
  BY <1>1, <1>2, <1>3, <1>5, ChangedFollows DEF Changed, Fields, AfterSend, AfterDelete
<1>6. /\ Follows(h) /\ req'[h].at \notin {"store", "deleteRow"}
      /\ req'[h].op = "CreatePanel" => req'[h].old.embed = 0
  BY <1>5, RecordMultiStep
<1>7. QED
  BY <1>2, <1>3, <1>4, <1>6, WelcomesSame, EmbedsFollow

LEMMA DeleteMultiEmbeds ==
    ASSUME BaseInv, SettleInv, EmbedsInv, NEW h \in Handlers, DeleteMulti(h)
    PROVE  EmbedsInv'
<1>1. /\ req \in [Handlers -> Reqs] /\ req[h] \in Reqs /\ InPlace(req[h]) /\ PanelsOK /\ BookOK
      /\ req[h].op = "CreatePanel" => req[h].old.embed = 0
  BY DEF BaseInv, ReqInv, EmbedsInv
<1>2. req[h].at = "deleteMulti" /\ req[h].op # "idle"
  BY <1>1, Whereabouts DEF DeleteMulti, At, InPlace, PanelOps, MultiOps
<1>3. /\ UNCHANGED <<stored, embeds, nextEmbed, raced>>
      /\ \A p \in Panels : row'[p].embed = row[p].embed
      /\ faults' = faults \/ faults' = faults + 1
  BY DEF DeleteMulti, panelTable, embedTable, book
<1>4. faults' # 0 \/ faults' = faults
  BY <1>1, <1>3 DEF BookOK
<1>5. ASSUME Changed(h, {"at"}) /\ req'[h].at = "next"
      PROVE  /\ Follows(h) /\ req'[h].at \notin {"store", "deleteRow"}
             /\ req'[h].op = "CreatePanel" => req'[h].old.embed = 0
  BY <1>1, <1>2, <1>3, <1>5, ChangedFollows DEF Changed, Fields, AfterSend, AfterDelete
<1>6. /\ Follows(h) /\ req'[h].at \notin {"store", "deleteRow"}
      /\ req'[h].op = "CreatePanel" => req'[h].old.embed = 0
  BY <1>5, DeleteMultiStep
<1>7. QED
  BY <1>2, <1>3, <1>4, <1>6, WelcomesSame, EmbedsFollow

LEMMA LoadMultiEmbeds ==
    ASSUME BaseInv, SettleInv, EmbedsInv, NEW h \in Handlers, LoadMulti(h)
    PROVE  EmbedsInv'
<1>1. /\ req \in [Handlers -> Reqs] /\ req[h] \in Reqs /\ InPlace(req[h]) /\ PanelsOK /\ BookOK
      /\ req[h].op = "CreatePanel" => req[h].old.embed = 0
  BY DEF BaseInv, ReqInv, EmbedsInv
<1>2. req[h].at = "load" /\ req[h].op # "idle"
  BY <1>1, Whereabouts DEF LoadMulti, At, InPlace, PanelOps, MultiOps
<1>3. /\ UNCHANGED <<stored, embeds, nextEmbed, raced>>
      /\ \A p \in Panels : row'[p].embed = row[p].embed
      /\ faults' = faults \/ faults' = faults + 1
  BY DEF LoadMulti, panelTable, embedTable, book
<1>4. faults' # 0 \/ faults' = faults
  BY <1>1, <1>3 DEF BookOK
<1>5. ASSUME Finish(h)
      PROVE  /\ Follows(h) /\ req'[h].at \notin {"store", "deleteRow"}
             /\ req'[h].op = "CreatePanel" => req'[h].old.embed = 0
  BY <1>1, <1>2, <1>3, <1>5, FinishFollows, IdleTouches DEF Idle
<1>6. ASSUME Changed(h, {"mold", "list", "at"}) /\ req'[h].at = (IF req[h].op = "MultiPanelCreate" THEN "sendOwn" ELSE "oldOwn")
      PROVE  /\ Follows(h) /\ req'[h].at \notin {"store", "deleteRow"}
             /\ req'[h].op = "CreatePanel" => req'[h].old.embed = 0
  BY <1>1, <1>2, <1>3, <1>6, ChangedFollows DEF Changed, Fields, AfterSend, AfterDelete
<1>7. /\ Follows(h) /\ req'[h].at \notin {"store", "deleteRow"}
      /\ req'[h].op = "CreatePanel" => req'[h].old.embed = 0
  BY <1>5, <1>6, LoadMultiStep
<1>8. QED
  BY <1>2, <1>3, <1>4, <1>7, WelcomesSame, EmbedsFollow

LEMMA OldMultiMessageEmbeds ==
    ASSUME BaseInv, SettleInv, EmbedsInv, NEW h \in Handlers, OldMultiMessage(h)
    PROVE  EmbedsInv'
<1>1. /\ req \in [Handlers -> Reqs] /\ req[h] \in Reqs /\ InPlace(req[h]) /\ PanelsOK /\ BookOK
      /\ req[h].op = "CreatePanel" => req[h].old.embed = 0
  BY DEF BaseInv, ReqInv, EmbedsInv
<1>2. /\ req[h].at = "oldOwn" /\ req[h].op # "idle"
      /\ req[h].op \in {"MultiPanelUpdate", "MultiPanelResend", "MultiPanelDelete"}
  BY <1>1, Whereabouts DEF OldMultiMessage, At, InPlace, PanelOps, MultiOps
<1>3. /\ UNCHANGED <<stored, embeds, nextEmbed, raced>>
      /\ \A p \in Panels : row'[p].embed = row[p].embed
      /\ faults' = faults \/ faults' = faults + 1
  BY DEF OldMultiMessage, panelTable, embedTable, book
<1>4. faults' # 0 \/ faults' = faults
  BY <1>1, <1>3 DEF BookOK
<1>5. ASSUME Changed(h, {"msg", "at"}) /\ req'[h].at = "storeOwn"
      PROVE  /\ Follows(h) /\ req'[h].at \notin {"store", "deleteRow"}
             /\ req'[h].op = "CreatePanel" => req'[h].old.embed = 0
  BY <1>1, <1>2, <1>3, <1>5, ChangedFollows DEF Changed, Fields, AfterSend, AfterDelete
<1>6. ASSUME Changed(h, {"at"}) /\ req'[h].at = "sendOwn"
      PROVE  /\ Follows(h) /\ req'[h].at \notin {"store", "deleteRow"}
             /\ req'[h].op = "CreatePanel" => req'[h].old.embed = 0
  BY <1>1, <1>2, <1>3, <1>6, ChangedFollows DEF Changed, Fields, AfterSend, AfterDelete
<1>7. ASSUME Changed(h, {"at"}) /\ req'[h].at = AfterDelete(req[h].op)
      PROVE  /\ Follows(h) /\ req'[h].at \notin {"store", "deleteRow"}
             /\ req'[h].op = "CreatePanel" => req'[h].old.embed = 0
  BY <1>1, <1>2, <1>3, <1>7, ChangedFollows DEF Changed, Fields, AfterSend, AfterDelete
<1>8. /\ Follows(h) /\ req'[h].at \notin {"store", "deleteRow"}
      /\ req'[h].op = "CreatePanel" => req'[h].old.embed = 0
  BY <1>5, <1>6, <1>7, OldMultiMessageStep
<1>9. QED
  BY <1>2, <1>3, <1>4, <1>8, WelcomesSame, EmbedsFollow

LEMMA OldMultiMessageStaysEmbeds ==
    ASSUME BaseInv, SettleInv, EmbedsInv, NEW h \in Handlers, OldMultiMessageStays(h)
    PROVE  EmbedsInv'
<1>1. /\ req \in [Handlers -> Reqs] /\ req[h] \in Reqs /\ InPlace(req[h]) /\ PanelsOK /\ BookOK
      /\ req[h].op = "CreatePanel" => req[h].old.embed = 0
  BY DEF BaseInv, ReqInv, EmbedsInv
<1>2. /\ req[h].at = "oldOwn" /\ req[h].op # "idle"
      /\ req[h].op \in {"MultiPanelUpdate", "MultiPanelResend", "MultiPanelDelete"}
  BY <1>1, Whereabouts DEF OldMultiMessageStays, At, InPlace, PanelOps, MultiOps
<1>3. /\ UNCHANGED <<stored, embeds, nextEmbed, raced>>
      /\ \A p \in Panels : row'[p].embed = row[p].embed
      /\ faults' = faults \/ faults' = faults + 1
  BY DEF OldMultiMessageStays, panelTable, embedTable, book
<1>4. faults' # 0 \/ faults' = faults
  BY <1>1, <1>3 DEF BookOK
<1>5. ASSUME Changed(h, {"at"}) /\ req'[h].at = AfterDelete(req[h].op)
      PROVE  /\ Follows(h) /\ req'[h].at \notin {"store", "deleteRow"}
             /\ req'[h].op = "CreatePanel" => req'[h].old.embed = 0
  BY <1>1, <1>2, <1>3, <1>5, ChangedFollows DEF Changed, Fields, AfterSend, AfterDelete
<1>6. /\ Follows(h) /\ req'[h].at \notin {"store", "deleteRow"}
      /\ req'[h].op = "CreatePanel" => req'[h].old.embed = 0
  BY <1>5, OldMultiMessageStaysStep
<1>7. QED
  BY <1>2, <1>3, <1>4, <1>6, WelcomesSame, EmbedsFollow

LEMMA ListOwnEmbeds ==
    ASSUME BaseInv, SettleInv, EmbedsInv, NEW h \in Handlers, ListOwn(h)
    PROVE  EmbedsInv'
<1>1. /\ req \in [Handlers -> Reqs] /\ req[h] \in Reqs /\ InPlace(req[h]) /\ PanelsOK /\ BookOK
      /\ req[h].op = "CreatePanel" => req[h].old.embed = 0
  BY DEF BaseInv, ReqInv, EmbedsInv
<1>2. req[h].at = "listOwn" /\ req[h].op # "idle"
  BY <1>1, Whereabouts DEF ListOwn, At, InPlace, PanelOps, MultiOps
<1>3. /\ UNCHANGED <<stored, embeds, nextEmbed, raced>>
      /\ \A p \in Panels : row'[p].embed = row[p].embed
      /\ faults' = faults \/ faults' = faults + 1
  BY DEF ListOwn, panelTable, embedTable, book
<1>4. faults' # 0 \/ faults' = faults
  BY <1>1, <1>3 DEF BookOK
<1>5. ASSUME Changed(h, {"list", "at"}) /\ req'[h].at = "sendOwn"
      PROVE  /\ Follows(h) /\ req'[h].at \notin {"store", "deleteRow"}
             /\ req'[h].op = "CreatePanel" => req'[h].old.embed = 0
  BY <1>1, <1>2, <1>3, <1>5, ChangedFollows DEF Changed, Fields, AfterSend, AfterDelete
<1>6. /\ Follows(h) /\ req'[h].at \notin {"store", "deleteRow"}
      /\ req'[h].op = "CreatePanel" => req'[h].old.embed = 0
  BY <1>5, ListOwnStep
<1>7. QED
  BY <1>2, <1>3, <1>4, <1>6, WelcomesSame, EmbedsFollow

LEMMA SendOwnEmbeds ==
    ASSUME BaseInv, SettleInv, EmbedsInv, NEW h \in Handlers, SendOwn(h)
    PROVE  EmbedsInv'
<1>1. /\ req \in [Handlers -> Reqs] /\ req[h] \in Reqs /\ InPlace(req[h]) /\ PanelsOK /\ BookOK
      /\ req[h].op = "CreatePanel" => req[h].old.embed = 0
  BY DEF BaseInv, ReqInv, EmbedsInv
<1>2. req[h].at = "sendOwn" /\ req[h].op # "idle"
  BY <1>1, Whereabouts DEF SendOwn, At, InPlace, PanelOps, MultiOps
<1>3. /\ UNCHANGED <<stored, embeds, nextEmbed, raced>>
      /\ \A p \in Panels : row'[p].embed = row[p].embed
      /\ faults' = faults \/ faults' = faults + 1
  BY DEF SendOwn, SendLost, panelTable, embedTable, book
<1>4. faults' # 0 \/ faults' = faults
  BY <1>1, <1>3 DEF BookOK
<1>5. ASSUME Finish(h)
      PROVE  /\ Follows(h) /\ req'[h].at \notin {"store", "deleteRow"}
             /\ req'[h].op = "CreatePanel" => req'[h].old.embed = 0
  BY <1>1, <1>2, <1>3, <1>5, FinishFollows, IdleTouches DEF Idle
<1>6. ASSUME Changed(h, {"msg", "at"}) /\ req'[h].at = "storeOwn"
      PROVE  /\ Follows(h) /\ req'[h].at \notin {"store", "deleteRow"}
             /\ req'[h].op = "CreatePanel" => req'[h].old.embed = 0
  BY <1>1, <1>2, <1>3, <1>6, ChangedFollows DEF Changed, Fields, AfterSend, AfterDelete
<1>7. /\ Follows(h) /\ req'[h].at \notin {"store", "deleteRow"}
      /\ req'[h].op = "CreatePanel" => req'[h].old.embed = 0
  BY <1>5, <1>6, SendOwnStep
<1>8. QED
  BY <1>2, <1>3, <1>4, <1>7, WelcomesSame, EmbedsFollow

LEMMA CreateMultiRowEmbeds ==
    ASSUME BaseInv, SettleInv, EmbedsInv, NEW h \in Handlers, CreateMultiRow(h)
    PROVE  EmbedsInv'
<1>1. /\ req \in [Handlers -> Reqs] /\ req[h] \in Reqs /\ InPlace(req[h]) /\ PanelsOK /\ BookOK
      /\ req[h].op = "CreatePanel" => req[h].old.embed = 0
  BY DEF BaseInv, ReqInv, EmbedsInv
<1>2. req[h].at = "storeOwn" /\ req[h].op # "idle"
  BY <1>1, Whereabouts DEF CreateMultiRow, At, InPlace, PanelOps, MultiOps
<1>3. /\ UNCHANGED <<stored, embeds, nextEmbed, raced>>
      /\ \A p \in Panels : row'[p].embed = row[p].embed
      /\ faults' = faults \/ faults' = faults + 1
  BY DEF CreateMultiRow, panelTable, embedTable, book
<1>4. faults' # 0 \/ faults' = faults
  BY <1>1, <1>3 DEF BookOK
<1>5. ASSUME Changed(h, {"at"}) /\ req'[h].at = "insert"
      PROVE  /\ Follows(h) /\ req'[h].at \notin {"store", "deleteRow"}
             /\ req'[h].op = "CreatePanel" => req'[h].old.embed = 0
  BY <1>1, <1>2, <1>3, <1>5, ChangedFollows DEF Changed, Fields, AfterSend, AfterDelete
<1>6. /\ Follows(h) /\ req'[h].at \notin {"store", "deleteRow"}
      /\ req'[h].op = "CreatePanel" => req'[h].old.embed = 0
  BY <1>5, CreateMultiRowStep
<1>7. QED
  BY <1>2, <1>3, <1>4, <1>6, WelcomesSame, EmbedsFollow

LEMMA UpdateMultiRowEmbeds ==
    ASSUME BaseInv, SettleInv, EmbedsInv, NEW h \in Handlers, UpdateMultiRow(h)
    PROVE  EmbedsInv'
<1>1. /\ req \in [Handlers -> Reqs] /\ req[h] \in Reqs /\ InPlace(req[h]) /\ PanelsOK /\ BookOK
      /\ req[h].op = "CreatePanel" => req[h].old.embed = 0
  BY DEF BaseInv, ReqInv, EmbedsInv
<1>2. req[h].at = "storeOwn" /\ req[h].op # "idle"
  BY <1>1, Whereabouts DEF UpdateMultiRow, At, InPlace, PanelOps, MultiOps
<1>3. /\ UNCHANGED <<stored, embeds, nextEmbed, raced>>
      /\ \A p \in Panels : row'[p].embed = row[p].embed
      /\ faults' = faults \/ faults' = faults + 1
  BY DEF UpdateMultiRow, panelTable, embedTable, book
<1>4. faults' # 0 \/ faults' = faults
  BY <1>1, <1>3 DEF BookOK
<1>5. ASSUME Changed(h, {"at"}) /\ req'[h].at = "clear"
      PROVE  /\ Follows(h) /\ req'[h].at \notin {"store", "deleteRow"}
             /\ req'[h].op = "CreatePanel" => req'[h].old.embed = 0
  BY <1>1, <1>2, <1>3, <1>5, ChangedFollows DEF Changed, Fields, AfterSend, AfterDelete
<1>6. /\ Follows(h) /\ req'[h].at \notin {"store", "deleteRow"}
      /\ req'[h].op = "CreatePanel" => req'[h].old.embed = 0
  BY <1>5, UpdateMultiRowStep
<1>7. QED
  BY <1>2, <1>3, <1>4, <1>6, WelcomesSame, EmbedsFollow

LEMMA RecordResentMultiEmbeds ==
    ASSUME BaseInv, SettleInv, EmbedsInv, NEW h \in Handlers, RecordResentMulti(h)
    PROVE  EmbedsInv'
<1>1. /\ req \in [Handlers -> Reqs] /\ req[h] \in Reqs /\ InPlace(req[h]) /\ PanelsOK /\ BookOK
      /\ req[h].op = "CreatePanel" => req[h].old.embed = 0
  BY DEF BaseInv, ReqInv, EmbedsInv
<1>2. req[h].at = "storeOwn" /\ req[h].op # "idle"
  BY <1>1, Whereabouts DEF RecordResentMulti, At, InPlace, PanelOps, MultiOps
<1>3. /\ UNCHANGED <<stored, embeds, nextEmbed, raced>>
      /\ \A p \in Panels : row'[p].embed = row[p].embed
      /\ faults' = faults \/ faults' = faults + 1
  BY DEF RecordResentMulti, panelTable, embedTable, book
<1>4. faults' # 0 \/ faults' = faults
  BY <1>1, <1>3 DEF BookOK
<1>5. ASSUME Finish(h)
      PROVE  /\ Follows(h) /\ req'[h].at \notin {"store", "deleteRow"}
             /\ req'[h].op = "CreatePanel" => req'[h].old.embed = 0
  BY <1>1, <1>2, <1>3, <1>5, FinishFollows, IdleTouches DEF Idle
<1>6. /\ Follows(h) /\ req'[h].at \notin {"store", "deleteRow"}
      /\ req'[h].op = "CreatePanel" => req'[h].old.embed = 0
  BY <1>5, RecordResentMultiStep
<1>7. QED
  BY <1>2, <1>3, <1>4, <1>6, WelcomesSame, EmbedsFollow

LEMMA DeleteMultiRowEmbeds ==
    ASSUME BaseInv, SettleInv, EmbedsInv, NEW h \in Handlers, DeleteMultiRow(h)
    PROVE  EmbedsInv'
<1>1. /\ req \in [Handlers -> Reqs] /\ req[h] \in Reqs /\ InPlace(req[h]) /\ PanelsOK /\ BookOK
      /\ req[h].op = "CreatePanel" => req[h].old.embed = 0
  BY DEF BaseInv, ReqInv, EmbedsInv
<1>2. req[h].at = "storeOwn" /\ req[h].op # "idle"
  BY <1>1, Whereabouts DEF DeleteMultiRow, At, InPlace, PanelOps, MultiOps
<1>3. /\ UNCHANGED <<stored, embeds, nextEmbed, raced>>
      /\ \A p \in Panels : row'[p].embed = row[p].embed
      /\ faults' = faults \/ faults' = faults + 1
  BY DEF DeleteMultiRow, panelTable, embedTable, book
<1>4. faults' # 0 \/ faults' = faults
  BY <1>1, <1>3 DEF BookOK
<1>5. ASSUME Finish(h)
      PROVE  /\ Follows(h) /\ req'[h].at \notin {"store", "deleteRow"}
             /\ req'[h].op = "CreatePanel" => req'[h].old.embed = 0
  BY <1>1, <1>2, <1>3, <1>5, FinishFollows, IdleTouches DEF Idle
<1>6. /\ Follows(h) /\ req'[h].at \notin {"store", "deleteRow"}
      /\ req'[h].op = "CreatePanel" => req'[h].old.embed = 0
  BY <1>5, DeleteMultiRowStep
<1>7. QED
  BY <1>2, <1>3, <1>4, <1>6, WelcomesSame, EmbedsFollow

LEMMA ClearTargetsEmbeds ==
    ASSUME BaseInv, SettleInv, EmbedsInv, NEW h \in Handlers, ClearTargets(h)
    PROVE  EmbedsInv'
<1>1. /\ req \in [Handlers -> Reqs] /\ req[h] \in Reqs /\ InPlace(req[h]) /\ PanelsOK /\ BookOK
      /\ req[h].op = "CreatePanel" => req[h].old.embed = 0
  BY DEF BaseInv, ReqInv, EmbedsInv
<1>2. req[h].at = "clear" /\ req[h].op # "idle"
  BY <1>1, Whereabouts DEF ClearTargets, At, InPlace, PanelOps, MultiOps
<1>3. /\ UNCHANGED <<stored, embeds, nextEmbed, raced>>
      /\ \A p \in Panels : row'[p].embed = row[p].embed
      /\ faults' = faults \/ faults' = faults + 1
  BY DEF ClearTargets, panelTable, embedTable, book
<1>4. faults' # 0 \/ faults' = faults
  BY <1>1, <1>3 DEF BookOK
<1>5. ASSUME Changed(h, {"at"}) /\ req'[h].at = "insert"
      PROVE  /\ Follows(h) /\ req'[h].at \notin {"store", "deleteRow"}
             /\ req'[h].op = "CreatePanel" => req'[h].old.embed = 0
  BY <1>1, <1>2, <1>3, <1>5, ChangedFollows DEF Changed, Fields, AfterSend, AfterDelete
<1>6. /\ Follows(h) /\ req'[h].at \notin {"store", "deleteRow"}
      /\ req'[h].op = "CreatePanel" => req'[h].old.embed = 0
  BY <1>5, ClearTargetsStep
<1>7. QED
  BY <1>2, <1>3, <1>4, <1>6, WelcomesSame, EmbedsFollow

LEMMA InsertTargetEmbeds ==
    ASSUME BaseInv, SettleInv, EmbedsInv, NEW h \in Handlers, InsertTarget(h)
    PROVE  EmbedsInv'
<1>1. /\ req \in [Handlers -> Reqs] /\ req[h] \in Reqs /\ InPlace(req[h]) /\ PanelsOK /\ BookOK
      /\ req[h].op = "CreatePanel" => req[h].old.embed = 0
  BY DEF BaseInv, ReqInv, EmbedsInv
<1>2. req[h].at = "insert" /\ req[h].op # "idle"
  BY <1>1, Whereabouts DEF InsertTarget, At, InPlace, PanelOps, MultiOps
<1>3. /\ UNCHANGED <<stored, embeds, nextEmbed, raced>>
      /\ \A p \in Panels : row'[p].embed = row[p].embed
      /\ faults' = faults \/ faults' = faults + 1
  BY DEF InsertTarget, panelTable, embedTable, book
<1>4. faults' # 0 \/ faults' = faults
  BY <1>1, <1>3 DEF BookOK
<1>5. ASSUME Finish(h)
      PROVE  /\ Follows(h) /\ req'[h].at \notin {"store", "deleteRow"}
             /\ req'[h].op = "CreatePanel" => req'[h].old.embed = 0
  BY <1>1, <1>2, <1>3, <1>5, FinishFollows, IdleTouches DEF Idle
<1>6. ASSUME Changed(h, {"list"})
      PROVE  /\ Follows(h) /\ req'[h].at \notin {"store", "deleteRow"}
             /\ req'[h].op = "CreatePanel" => req'[h].old.embed = 0
  BY <1>1, <1>2, <1>3, <1>6, ChangedFollows DEF Changed, Fields, AfterSend, AfterDelete
<1>7. /\ Follows(h) /\ req'[h].at \notin {"store", "deleteRow"}
      /\ req'[h].op = "CreatePanel" => req'[h].old.embed = 0
  BY <1>5, <1>6, InsertTargetStep
<1>8. QED
  BY <1>2, <1>3, <1>4, <1>7, WelcomesSame, EmbedsFollow

LEMMA FailEmbeds ==
    ASSUME BaseInv, SettleInv, EmbedsInv, NEW h \in Handlers, Fail(h)
    PROVE  EmbedsInv'
<1>1. req[h] \in Reqs /\ InPlace(req[h]) /\ req \in [Handlers -> Reqs] /\ faults \in Nat
  BY DEF BaseInv, ReqInv, BookOK
<1>2. req[h].op # "idle" /\ raced' = raced /\ nextEmbed' = nextEmbed /\ faults' # 0
  BY <1>1 DEF Fail, InPlace, embedTable
<1>3. req'[h] = Idle /\ Follows(h)
  BY <1>1, <1>2, FailStep, FinishFollows
<1>4. QED
  BY <1>2, <1>3, IdleTouches, EmbedsFollow

\* The welcome message of the panel of h is written, deleted, or goes into its row.
LEMMA WriteEmbedEmbeds ==
    ASSUME BaseInv, SettleInv, EmbedsInv, NEW h \in Handlers, WriteEmbed(h)
    PROVE  EmbedsInv'
<1>1. /\ req \in [Handlers -> Reqs] /\ req[h] \in Reqs /\ InPlace(req[h]) /\ PanelsOK /\ EmbedsOK /\ Alone
      /\ req[h].op = "CreatePanel" => req[h].old.embed = 0
  BY DEF BaseInv, ReqInv, EmbedsInv, SettleInv
<1>2. req[h].at = "embed" /\ req[h].op \in {"CreatePanel", "UpdatePanel"} /\ req[h].on \in Panels
  BY <1>1, Whereabouts DEF WriteEmbed, InPlace, PanelOps
<1>3. /\ UNCHANGED <<stored, row, raced, faults>> /\ req'[h].at = "store" /\ req'[h].embed = EmbedOf(req[h])
      /\ req'[h].op = req[h].op /\ req'[h].old = req[h].old /\ Follows(h)
      /\ embeds' = IF ~req[h].welcome THEN embeds \ {req[h].old.embed}
                   ELSE IF req[h].old.embed = 0 THEN embeds \union {nextEmbed} ELSE embeds
      /\ nextEmbed' = IF req[h].welcome /\ req[h].old.embed = 0 THEN nextEmbed + 1 ELSE nextEmbed
  BY <1>1, <1>2, WriteEmbedStep, ChangedFollows DEF WriteEmbed, panelTable, book, Changed, Fields
<1>4. /\ nextEmbed > 0 /\ nextEmbed \in Nat /\ nextEmbed' > 0 /\ nextEmbed' >= nextEmbed
      /\ \A g \in Handlers : req'[g].op = "CreatePanel" => req'[g].old.embed = 0
  BY <1>1, <1>3 DEF EmbedsInv, EmbedsOK, Follows
<1>5. ASSUME faults = 0, raced = {}
      PROVE  /\ \A e \in Nat : e \in embeds' <=> \E p \in Panels : Welcomes(p, e)'
             /\ \A e \in Nat : \A p, q \in Panels : Welcomes(p, e)' /\ Welcomes(q, e)' => p = q
             /\ \A e \in Nat : \A p \in Panels : Welcomes(p, e)' => e < nextEmbed'
  <2>1. PICK o \in Panels : o = req[h].on
    BY <1>2
  <2>2. On(h, o)
    BY <1>2, <2>1 DEF On
  <2>3. PanelStage(req[h], o)
    BY <1>5, <2>2 DEF SettleInv, PanelsInv
  <2>4. req[h].op = "CreatePanel" => o \notin stored
    BY <2>3 DEF PanelStage
  <2>5. req[h].op = "UpdatePanel" => o \in stored /\ req[h].old = row[o]
    BY <1>2, <2>3 DEF PanelStage
  <2>6. \A e : Welcomes(o, e) <=> e # 0 /\ e = req[h].old.embed
    BY <1>1, <1>2, <1>3, <1>5, <2>2, <2>4, <2>5, WelcomesHere
  <2>7. \A e : Welcomes(o, e)' <=> e # 0 /\ e = EmbedOf(req[h])
    BY <1>1, <1>3, <1>5, <2>2, WelcomesHere
  <2>8. \A p \in Panels \ {o} : ~On(h, p)
    BY <2>1 DEF On
  <2>9. \A p \in Panels \ {o} : \A e : Welcomes(p, e)' <=> Welcomes(p, e)
    BY <1>3, <2>8, WelcomesElsewhere
  <2>10. /\ \A e \in Nat : e \in embeds <=> \E p \in Panels : Welcomes(p, e)
         /\ \A e \in Nat : \A p, q \in Panels : Welcomes(p, e) /\ Welcomes(q, e) => p = q
         /\ \A e \in Nat : \A p \in Panels : Welcomes(p, e) => e < nextEmbed
         /\ embeds \subseteq Nat
    BY <1>1, <1>5 DEF EmbedsInv, EmbedsOK
  <2>11. req[h].old.embed \in Nat
    BY <1>1 DEF Reqs, Row
  <2>12. CASE ~req[h].welcome
    <3>1. /\ embeds' = embeds \ {req[h].old.embed} /\ nextEmbed' = nextEmbed
          /\ \A e : ~Welcomes(o, e)'
      BY <1>3, <2>7, <2>12 DEF EmbedOf
    <3>2. \A e \in Nat : e \in embeds' <=> \E p \in Panels : Welcomes(p, e)'
      <4>1. ASSUME NEW e \in Nat, e \in embeds' PROVE \E p \in Panels : Welcomes(p, e)'
        <5>1. PICK p \in Panels : Welcomes(p, e)
          BY <2>10, <3>1, <4>1
        <5>2. p # o
          BY <2>6, <3>1, <4>1, <5>1
        <5>3. QED
          BY <2>9, <5>1, <5>2
      <4>2. ASSUME NEW e \in Nat, NEW p \in Panels, Welcomes(p, e)' PROVE e \in embeds'
        <5>1. p # o /\ Welcomes(p, e) /\ e # 0
          BY <2>9, <3>1, <4>2 DEF Welcomes
        <5>2. e # req[h].old.embed
          BY <2>6, <2>10, <5>1
        <5>3. QED
          BY <2>10, <3>1, <5>1, <5>2
      <4>3. QED
        BY <4>1, <4>2
    <3>3. QED
      BY <2>9, <2>10, <3>1, <3>2
  <2>13. CASE req[h].welcome /\ req[h].old.embed = 0
    <3>1. /\ embeds' = embeds \union {nextEmbed} /\ nextEmbed' = nextEmbed + 1 /\ nextEmbed \in Nat
          /\ \A e : Welcomes(o, e)' <=> e = nextEmbed
          /\ \A e : ~Welcomes(o, e)
      BY <1>3, <1>4, <2>6, <2>7, <2>13 DEF EmbedOf
    <3>2. \A e \in Nat : e \in embeds' <=> \E p \in Panels : Welcomes(p, e)'
      BY <2>9, <2>10, <3>1
    <3>3. \A e \in Nat : \A p \in Panels : Welcomes(p, e)' => e < nextEmbed' /\ (p # o => e < nextEmbed)
      BY <2>9, <2>10, <3>1
    <3>4. \A e \in Nat : \A p, q \in Panels : Welcomes(p, e)' /\ Welcomes(q, e)' => p = q
      <4>1. ASSUME NEW e \in Nat, NEW p \in Panels, NEW q \in Panels, Welcomes(p, e)', Welcomes(q, e)', p # q
            PROVE  FALSE
        <5>1. CASE p # o /\ q # o
          BY <2>9, <2>10, <4>1, <5>1
        <5>2. CASE p = o
          BY <3>1, <3>3, <4>1, <5>2
        <5>3. CASE q = o
          BY <3>1, <3>3, <4>1, <5>3
        <5>4. QED
          BY <5>1, <5>2, <5>3
      <4>2. QED
        BY <4>1
    <3>5. QED
      BY <3>2, <3>3, <3>4
  <2>14. CASE req[h].welcome /\ req[h].old.embed # 0
    <3>1. embeds' = embeds /\ nextEmbed' = nextEmbed /\ \A e : Welcomes(o, e)' <=> Welcomes(o, e)
      BY <1>3, <2>6, <2>7, <2>14 DEF EmbedOf
    <3>2. \A p \in Panels : \A e : Welcomes(p, e)' <=> Welcomes(p, e)
      BY <2>9, <3>1
    <3>3. QED
      BY <2>10, <3>1, <3>2
  <2>15. QED
    BY <1>1, <2>12, <2>13, <2>14 DEF Reqs
<1>6. QED
  BY <1>3, <1>4, <1>5 DEF EmbedsInv

LEMMA CreateRowEmbeds ==
    ASSUME BaseInv, SettleInv, EmbedsInv, NEW h \in Handlers, CreateRow(h)
    PROVE  EmbedsInv'
<1>1. req \in [Handlers -> Reqs] /\ req[h] \in Reqs /\ InPlace(req[h]) /\ PanelsOK /\ Alone
  BY DEF BaseInv, ReqInv, SettleInv
<1>2. req[h].at = "store" /\ req[h].op = "CreatePanel" /\ req[h].on \in Panels
  BY <1>1 DEF CreateRow, At, InPlace, PanelOps
<1>3. /\ UNCHANGED <<embeds, nextEmbed, raced, faults>> /\ req'[h] = Idle /\ Follows(h)
      /\ stored' = stored \union {req[h].on} /\ row' = [row EXCEPT ![req[h].on] = StoredRow(req[h])]
  BY <1>1, <1>2, CreateRowStep, FinishFollows DEF CreateRow, embedTable, book
<1>4. ASSUME raced = {}, NEW p \in Panels PROVE \A e : Welcomes(p, e)' <=> Welcomes(p, e)
  <2>1. CASE On(h, p)
    <3>1. p \in stored' /\ row'[p].embed = req[h].embed /\ req'[h].at = "idle"
      BY <1>1, <1>3, <2>1 DEF On, PanelsOK, StoredRow, Idle
    <3>2. QED
      BY <1>1, <1>2, <1>3, <1>4, <2>1, <3>1, WelcomesHere
  <2>2. CASE ~On(h, p)
    BY <1>1, <1>2, <1>3, <2>2, WelcomesElsewhere DEF On, PanelsOK
  <2>3. QED
    BY <2>1, <2>2
<1>5. QED
  BY <1>3, <1>4, IdleTouches, EmbedsFollow

LEMMA UpdateRowEmbeds ==
    ASSUME BaseInv, SettleInv, EmbedsInv, NEW h \in Handlers, UpdateRow(h)
    PROVE  EmbedsInv'
<1>1. req \in [Handlers -> Reqs] /\ req[h] \in Reqs /\ InPlace(req[h]) /\ PanelsOK /\ Alone
  BY DEF BaseInv, ReqInv, SettleInv
<1>2. req[h].at = "store" /\ req[h].op = "UpdatePanel" /\ req[h].on \in Panels
  BY <1>1 DEF UpdateRow, At, InPlace, PanelOps
<1>3. /\ UNCHANGED <<stored, embeds, nextEmbed, raced, faults>> /\ Follows(h)
      /\ req'[h].at = "multis" /\ req'[h].op = req[h].op
      /\ row' = IF req[h].on \in stored THEN [row EXCEPT ![req[h].on] = StoredRow(req[h])] ELSE row
  BY <1>1, <1>2, UpdateRowStep, ChangedFollows DEF UpdateRow, embedTable, book, Changed, Fields
<1>4. ASSUME faults = 0, raced = {}, NEW p \in Panels PROVE \A e : Welcomes(p, e)' <=> Welcomes(p, e)
  <2>1. CASE On(h, p)
    <3>1. p = req[h].on /\ p \in stored
      BY <1>2, <1>4, <2>1 DEF On, SettleInv, PanelsInv, PanelStage
    <3>2. p \in stored' /\ row'[p].embed = req[h].embed
      BY <1>1, <1>3, <3>1 DEF PanelsOK, StoredRow
    <3>3. QED
      BY <1>1, <1>2, <1>3, <1>4, <2>1, <3>2, WelcomesHere
  <2>2. CASE ~On(h, p)
    BY <1>1, <1>2, <1>3, <2>2, WelcomesElsewhere DEF On, PanelsOK
  <2>3. QED
    BY <2>1, <2>2
<1>5. QED
  BY <1>2, <1>3, <1>4, EmbedsFollow

LEMMA DeleteRowEmbeds ==
    ASSUME BaseInv, SettleInv, EmbedsInv, NEW h \in Handlers, DeleteRow(h)
    PROVE  EmbedsInv'
<1>1. req \in [Handlers -> Reqs] /\ req[h] \in Reqs /\ InPlace(req[h]) /\ PanelsOK /\ Alone
  BY DEF BaseInv, ReqInv, SettleInv
<1>2. req[h].at = "deleteRow" /\ req[h].op = "DeletePanel" /\ req[h].on \in Panels
  BY <1>1 DEF DeleteRow, At, InPlace, PanelOps
<1>3. /\ UNCHANGED <<embeds, nextEmbed, raced, faults>> /\ Follows(h)
      /\ req'[h].at = "deleteMessage" /\ req'[h].op = req[h].op
      /\ stored' = stored \ {req[h].on} /\ row' = [row EXCEPT ![req[h].on] = NoRow]
  BY <1>1, <1>2, DeleteRowStep, ChangedFollows DEF DeleteRow, embedTable, book, Changed, Fields
<1>4. ASSUME raced = {}, NEW p \in Panels PROVE \A e : Welcomes(p, e)' <=> Welcomes(p, e)
  <2>1. CASE On(h, p)
    <3>1. p \notin stored'
      BY <1>3, <2>1 DEF On
    <3>2. QED
      BY <1>1, <1>2, <1>3, <1>4, <2>1, <3>1, WelcomesHere
  <2>2. CASE ~On(h, p)
    BY <1>1, <1>2, <1>3, <2>2, WelcomesElsewhere DEF On, PanelsOK
  <2>3. QED
    BY <2>1, <2>2
<1>5. QED
  BY <1>2, <1>3, <1>4, EmbedsFollow

LEMMA DeleteEmbedEmbeds ==
    ASSUME BaseInv, SettleInv, EmbedsInv, NEW h \in Handlers, DeleteEmbed(h)
    PROVE  EmbedsInv'
<1>1. /\ req \in [Handlers -> Reqs] /\ req[h] \in Reqs /\ InPlace(req[h]) /\ EmbedsOK /\ Alone
  BY DEF BaseInv, ReqInv, SettleInv
<1>2. req[h].at = "delete" /\ req[h].op = "DeletePanel" /\ req[h].on \in Panels
  BY <1>1 DEF DeleteEmbed, At, InPlace, PanelOps
<1>3. /\ UNCHANGED <<stored, row, nextEmbed, raced, faults>> /\ Follows(h)
      /\ req'[h].at = "deleteRow" /\ req'[h].op = req[h].op /\ embeds' = embeds \ {req[h].old.embed}
  BY <1>1, <1>2, DeleteEmbedStep, ChangedFollows DEF DeleteEmbed, panelTable, book, Changed,
     Fields
<1>4. nextEmbed' > 0 /\ \A g \in Handlers : req'[g].op = "CreatePanel" => req'[g].old.embed = 0
  BY <1>2, <1>3 DEF EmbedsInv, Follows
<1>5. ASSUME faults = 0, raced = {}
      PROVE  /\ \A e \in Nat : e \in embeds' <=> \E p \in Panels : Welcomes(p, e)'
             /\ \A e \in Nat : \A p, q \in Panels : Welcomes(p, e)' /\ Welcomes(q, e)' => p = q
             /\ \A e \in Nat : \A p \in Panels : Welcomes(p, e)' => e < nextEmbed'
  <2>1. PICK o \in Panels : o = req[h].on
    BY <1>2
  <2>2. On(h, o)
    BY <1>2, <2>1 DEF On
  <2>3. o \in stored /\ req[h].old = row[o]
    BY <1>2, <1>5, <2>2 DEF SettleInv, PanelsInv, PanelStage
  <2>4. \A e : Welcomes(o, e) <=> e # 0 /\ e = req[h].old.embed
    BY <1>1, <1>2, <1>3, <1>5, <2>2, <2>3, WelcomesHere
  <2>5. \A e : ~Welcomes(o, e)'
    BY <1>1, <1>3, <1>5, <2>2, WelcomesHere
  <2>6. \A p \in Panels \ {o} : ~On(h, p)
    BY <2>1 DEF On
  <2>7. \A p \in Panels \ {o} : \A e : Welcomes(p, e)' <=> Welcomes(p, e)
    BY <1>3, <2>6, WelcomesElsewhere
  <2>8. /\ \A e \in Nat : e \in embeds <=> \E p \in Panels : Welcomes(p, e)
        /\ \A e \in Nat : \A p, q \in Panels : Welcomes(p, e) /\ Welcomes(q, e) => p = q
        /\ \A e \in Nat : \A p \in Panels : Welcomes(p, e) => e < nextEmbed
    BY <1>5 DEF EmbedsInv
  <2>9. \A e \in Nat : e \in embeds' <=> \E p \in Panels : Welcomes(p, e)'
    <3>1. ASSUME NEW e \in Nat, e \in embeds' PROVE \E p \in Panels : Welcomes(p, e)'
      <4>1. PICK p \in Panels : Welcomes(p, e)
        BY <1>3, <2>8, <3>1
      <4>2. p # o
        BY <1>3, <2>4, <3>1, <4>1
      <4>3. QED
        BY <2>7, <4>1, <4>2
    <3>2. ASSUME NEW e \in Nat, NEW p \in Panels, Welcomes(p, e)' PROVE e \in embeds'
      <4>1. p # o /\ Welcomes(p, e) /\ e # 0
        BY <2>5, <2>7, <3>2 DEF Welcomes
      <4>2. e # req[h].old.embed
        BY <2>4, <2>8, <4>1
      <4>3. QED
        BY <1>3, <2>8, <4>1, <4>2
    <3>3. QED
      BY <3>1, <3>2
  <2>10. QED
    BY <1>3, <2>5, <2>7, <2>8, <2>9
<1>6. QED
  BY <1>3, <1>4, <1>5 DEF EmbedsInv

LEMMA PanelStepEmbeds ==
    ASSUME BaseInv, SettleInv, EmbedsInv, NEW h \in Handlers, PanelStep(h)
    PROVE  EmbedsInv'
  BY LoadPanelEmbeds, CheckQuotaEmbeds, OldMessageEmbeds, OldMessageStaysEmbeds,
     SendPanelEmbeds, SendToMissingChannelEmbeds, RecordResentEmbeds, WriteEmbedEmbeds,
     CreateRowEmbeds, UpdateRowEmbeds, LoadMultisEmbeds, DeleteEmbedEmbeds,
     DeleteRowEmbeds, DeletePanelMessageEmbeds, NextMultiEmbeds, EditMultiEmbeds,
     SendMultiEmbeds, RecordMultiEmbeds, DeleteMultiEmbeds DEF PanelStep

LEMMA MultiStepEmbeds ==
    ASSUME BaseInv, SettleInv, EmbedsInv, NEW h \in Handlers, MultiStep(h)
    PROVE  EmbedsInv'
  BY LoadMultiEmbeds, OldMultiMessageEmbeds, OldMultiMessageStaysEmbeds, ListOwnEmbeds,
     SendOwnEmbeds, CreateMultiRowEmbeds, UpdateMultiRowEmbeds, RecordResentMultiEmbeds,
     DeleteMultiRowEmbeds, ClearTargetsEmbeds, InsertTargetEmbeds DEF MultiStep

\* A request that arrives has written and deleted nothing yet.
LEMMA NewRequestEmbeds ==
    ASSUME EmbedsInv, NEW h \in Handlers, Starts(h)
    PROVE  EmbedsInv'
<1>1. /\ req[h].op = "idle" /\ req[h].at = "idle" /\ req'[h].at = "load" /\ req'[h].old.embed = 0
      /\ \A g \in Handlers \ {h} : req'[g] = req[g]
      /\ UNCHANGED <<stored, row, embeds, nextEmbed, faults>> /\ (raced' = {} => raced = {})
  BY DEF Starts, Idle, NoRow, panelTable, embedTable
<1>2. \A g \in Handlers : req'[g].op = "CreatePanel" => req'[g].old.embed = 0
  BY <1>1 DEF EmbedsInv
<1>3. \A p \in Panels : \A e : Welcomes(p, e)' <=> Welcomes(p, e)
  <2> SUFFICES ASSUME NEW p \in Panels, NEW e PROVE Welcomes(p, e)' <=> Welcomes(p, e)
    OBVIOUS
  <2>1. ~On(h, p) /\ req'[h].at \notin {"store", "deleteRow"}
    BY <1>1 DEF On
  <2>2. \A g \in Handlers \ {h} : (On(g, p)' <=> On(g, p)) /\ req'[g] = req[g]
    BY <1>1 DEF On
  <2>3. QED
    BY <1>1, <2>1, <2>2 DEF Welcomes
<1>4. QED
  BY <1>1, <1>2, <1>3 DEF EmbedsInv

\* At first no panel has a welcome message.
LEMMA InitEmbeds == Init => EmbedsInv
<1> SUFFICES ASSUME Init PROVE EmbedsInv
  OBVIOUS
<1>1. PICK P, M, c, id : First(P, M, c, id)
  BY FirstState
<1>2. embeds = {} /\ nextEmbed = 1 /\ \A h \in Handlers : req[h].op = "idle"
  BY DEF Init, Idle
<1>3. \A p \in Panels : row[p].embed = 0
  BY <1>1 DEF First, NoRow
<1>4. \A p \in Panels : \A e : ~Welcomes(p, e)
  BY <1>2, <1>3 DEF Welcomes, On
<1>5. QED
  BY <1>2, <1>4 DEF EmbedsInv

LEMMA SettledStandsStill ==
    ASSUME SettleInv, EmbedsInv, UNCHANGED vars
    PROVE  SettleInv' /\ EmbedsInv'
<1>1. /\ UNCHANGED <<stored, row, mstored, mrow, targets, embeds, nextEmbed, raced, faults, req>>
      /\ \A o : Own(o)' = Own(o)
  BY OwnSame DEF vars, panelTable, multiTable, embedTable, book
<1>2. /\ \A h \in Handlers : \A o : (On(h, o)' <=> On(h, o)) /\ (Touched(h, o)' <=> Touched(h, o))
      /\ \A p : PanelRests(p)' <=> PanelRests(p)
      /\ \A m : MultiRests(m)' <=> MultiRests(m)
  BY <1>1 DEF On, Touched, PanelRests, MultiRests, MultiMsg
<1>3. Alone' /\ Inserted'
  BY <1>1 DEF SettleInv, Alone, Inserted
<1>4. PanelsInv'
  <2>1. ASSUME NEW h \in Handlers, NEW p \in Panels, PanelStage(req[h], p)
        PROVE  PanelStage(req[h], p)'
    BY <1>1, <1>2, <2>1 DEF PanelStage
  <2>2. QED
    BY <1>1, <1>2, <2>1 DEF SettleInv, PanelsInv
<1>5. MultisInv'
  <2>1. ASSUME NEW h \in Handlers, NEW m \in Multis
        PROVE  /\ LoopStage(req[h], m) => LoopStage(req[h], m)'
               /\ OwnStage(req[h], m) => OwnStage(req[h], m)'
    <3>1. LoopStage(req[h], m) => LoopStage(req[h], m)'
      BY <1>1, <1>2 DEF LoopStage, MultiMsg
    <3>2. OwnStage(req[h], m) => OwnStage(req[h], m)'
      BY <1>1, <1>2 DEF OwnStage, MultiMsg
    <3>3. QED
      BY <3>1, <3>2
  <2>2. QED
    BY <1>1, <1>2, <2>1 DEF SettleInv, MultisInv, MultiStage, Few
<1>6. EmbedsInv'
  <2>1. \A p \in Panels : \A e : Welcomes(p, e)' <=> Welcomes(p, e)
    BY <1>1, <1>2 DEF Welcomes
  <2>2. QED
    BY <1>1, <2>1 DEF EmbedsInv
<1>7. QED
  BY <1>3, <1>4, <1>5, <1>6 DEF SettleInv

LEMMA NextSettles ==
    ASSUME BaseInv, OwnInv, SettleInv, EmbedsInv, [Next]_vars
    PROVE  SettleInv' /\ EmbedsInv'
<1>1. CASE UNCHANGED vars
  BY <1>1, SettledStandsStill
<1>2. ASSUME NEW h \in Handlers, NewRequest(h) PROVE SettleInv' /\ EmbedsInv'
  <2>1. Starts(h) /\ InPlace(req[h])'
    BY <1>2, NewRequestStep DEF BaseInv, ReqInv
  <2>2. QED
    BY <2>1, NewRequestSettles, NewRequestEmbeds
<1>3. ASSUME NEW h \in Handlers, PanelStep(h) PROVE SettleInv' /\ EmbedsInv'
  BY <1>3, PanelStepSettles, PanelStepEmbeds
<1>4. ASSUME NEW h \in Handlers, MultiStep(h) PROVE SettleInv' /\ EmbedsInv'
  BY <1>4, MultiStepSettles, MultiStepEmbeds
<1>5. ASSUME NEW h \in Handlers, Fail(h) PROVE SettleInv' /\ EmbedsInv'
  BY <1>5, FailsSettles, FailEmbeds
<1>6. QED
  BY <1>1, <1>2, <1>3, <1>4, <1>5 DEF Next

LEMMA PanelsAtRest == BaseInv /\ SettleInv /\ EmbedsInv => SettledPanels
<1> SUFFICES ASSUME BaseInv, SettleInv, EmbedsInv, faults = 0
             PROVE  /\ \A p \in Panels \ raced : ~Busy(p) => PanelRests(p)
                    /\ raced = {} /\ ~(\E o \in Objects : Busy(o)) =>
                         embeds = {row[p].embed : p \in stored} \ {0}
  BY DEF SettledPanels, PanelRests, Msg
<1>1. \A o : ~Busy(o) => \A h \in Handlers : ~On(h, o)
  BY TouchesOn DEF Busy, Touched
<1>2. \A p \in Panels \ raced : ~Busy(p) => PanelRests(p)
  BY <1>1 DEF SettleInv, PanelsInv
<1>3. ASSUME raced = {}, ~(\E o \in Objects : Busy(o))
      PROVE  embeds = {row[p].embed : p \in stored} \ {0}
  <2>1. \A p \in Panels : \A e : Welcomes(p, e) <=> e # 0 /\ p \in stored /\ row[p].embed = e
    BY <1>1, <1>3 DEF Welcomes, Objects
  <2>2. \A e \in Nat : e \in embeds <=> \E p \in Panels : Welcomes(p, e)
    BY <1>3 DEF EmbedsInv
  <2>3. embeds \subseteq Nat /\ stored \subseteq Panels /\ \A p \in stored : row[p].embed \in Nat
    BY DEF BaseInv, EmbedsOK, PanelsOK, Row
  <2>4. \A e \in Nat : e \in embeds <=> \E p \in stored : row[p].embed = e /\ e # 0
    BY <2>1, <2>2, <2>3
  <2>5. QED
    BY <2>3, <2>4
<1>4. QED
  BY <1>2, <1>3

\* A panel that no two requests were at together and that no request is at has,
\* while no request has failed, the message that its row names and no other, or
\* none when it is deleted; and welcome messages are stored for exactly the
\* panels that have one.
THEOREM PanelsSettle == Spec => []SettledPanels
<1>1. Init => BaseInv /\ OwnInv /\ SettleInv /\ EmbedsInv
  BY InitBase, InitOwn, InitSettles, InitEmbeds
<1>2. BaseInv /\ OwnInv /\ SettleInv /\ EmbedsInv /\ [Next]_vars
        => (BaseInv /\ OwnInv /\ SettleInv /\ EmbedsInv)'
  BY NextBase, NextSettles
<1>3. BaseInv /\ SettleInv /\ EmbedsInv => SettledPanels
  BY PanelsAtRest
<1>4. QED
  BY <1>1, <1>2, <1>3, PTL DEF Spec

\* The same of multi-panels, whose message offers exactly the panels that the
\* database lists: so a deleted panel is on no multi-panel's message, as long as
\* no panel is on more multi-panels than a deletion brings up to date.
THEOREM MultisSettle ==
    ASSUME Cardinality(Multis) <= MultiLimit
    PROVE  Spec => []SettledMultis
<1>1. Init => BaseInv /\ OwnInv /\ SettleInv /\ EmbedsInv
  BY InitBase, InitOwn, InitSettles, InitEmbeds
<1>2. BaseInv /\ OwnInv /\ SettleInv /\ EmbedsInv /\ [Next]_vars
        => (BaseInv /\ OwnInv /\ SettleInv /\ EmbedsInv)'
  BY NextBase, NextSettles
<1>3. SettleInv => SettledMultis
  <2> SUFFICES ASSUME SettleInv, faults = 0, NEW m \in Multis \ raced, ~Busy(m)
               PROVE  MultiRests(m)
    BY DEF SettledMultis, MultiRests, MultiMsg, Msg
  <2>1. Few /\ \A h \in Handlers : ~Touched(h, m)
    BY DEF Few, Busy, Touched
  <2>2. QED
    BY <2>1 DEF SettleInv, MultisInv
<1>4. QED
  BY <1>1, <1>2, <1>3, PTL DEF Spec

====
