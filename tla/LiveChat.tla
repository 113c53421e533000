---- MODULE LiveChat ----
(***************************************************************************)
(* The live-chat relay of app/http/endpoints/api/ticket/livechat: one      *)
(* socket manager goroutine, one relay goroutine (ListenChat), and for     *)
(* each websocket an HTTP handler, a read loop and a write loop.  They     *)
(* only meet on unbuffered channels (register, unregister, messages and,   *)
(* per client, tx and flush), so a send and its receive are one step that  *)
(* needs both goroutines to stand at it.                                   *)
(***************************************************************************)
EXTENDS Integers, Sequences, FiniteSets

CONSTANTS
    Clients,      \* websocket connections
    Guilds,
    Tickets,
    Room,         \* the [guild, ticket] that a connection's URL names
    Permitted,    \* connections whose token, ticket, permission and premium checks can pass
    Frames,       \* kinds of frames a peer may send
    MaxFrames,    \* bound: frames the peers send, all together
    MaxPings,     \* bound: keepalive pings that are modelled
    MaxMessages,  \* bound: messages published
    PeersLeave    \* TRUE when peers and networks may go away

Rooms == [guild : Guilds, ticket : Tickets]

FrameKinds == {"auth", "malformed", "other", "garbage"}

ASSUME RoomAssumption == Room \in [Clients -> Rooms]
ASSUME PermittedAssumption == Permitted \subseteq Clients
ASSUME BoundsAssumption ==
    /\ MaxFrames \in Nat /\ MaxPings \in Nat /\ MaxMessages \in Nat
    /\ Frames \subseteq FrameKinds
    /\ PeersLeave \in BOOLEAN
ASSUME ClientsAssumption == IsFiniteSet(Clients)

VARIABLES
    published,      \* external: rooms of the messages on the Redis channel, in order
    relay,          \* message ListenChat holds for sm.messages, 0 when it waits
    registered,     \* the clients in sm.clients, every guild's list together
    gauge,          \* activeWebsockets
    cur,            \* message Run is handing out, 0 when it is at its select
    todo,           \* the clients Run has yet to consider for cur
    reader,         \* where each handler, then its read loop, stands
    writer,         \* where each write loop stands
    out,            \* what the write loop took from tx and is writing
    authenticated,  \* client.Authenticated
    txClosed,       \* close(c.tx) was called
    ws,             \* "open", "lost" (peer or network gone), "closed" (by us)
    frames, pings,  \* counts for MaxFrames and MaxPings
    delivered,      \* messages written to each websocket, as positions in published
    told            \* other frames written to each websocket

managerVars == <<registered, gauge, cur, todo>>
historyVars == <<delivered, told>>
vars == <<published, relay, managerVars, reader, writer, out, authenticated,
          txClosed, ws, frames, pings, historyVars>>

Readers == {"idle", "register", "start", "read", "direct", "authWrite",
            "malWrite", "malClose", "malFlush", "malWait",
            "errWrite", "errFlush", "errWait", "errClose",
            "unregister", "close", "done"}
Writers == {"off", "select", "write", "ping", "reply", "done"}
Texts   == {"authenticated", "malformed", "error", "unauthorized"}
NoFrame == [kind |-> "none", id |-> 0]
Frame   == [kind : {"message", "none"} \union Texts, id : Nat]

TypeOK ==
    /\ published \in Seq(Rooms)
    /\ relay \in Nat /\ cur \in Nat /\ gauge \in Nat
    /\ registered \subseteq Clients
    /\ todo \subseteq Clients
    /\ reader \in [Clients -> Readers]
    /\ writer \in [Clients -> Writers]
    /\ out \in [Clients -> Frame]
    /\ authenticated \in [Clients -> BOOLEAN]
    /\ txClosed \in [Clients -> BOOLEAN]
    /\ ws \in [Clients -> {"open", "lost", "closed"}]
    /\ frames \in Nat /\ pings \in Nat
    /\ delivered \in [Clients -> SUBSET Nat]
    /\ told \in [Clients -> SUBSET Texts]

Init ==
    /\ published = <<>> /\ relay = 0
    /\ registered = {} /\ gauge = 0 /\ cur = 0 /\ todo = {}
    /\ reader = [c \in Clients |-> "idle"]
    /\ writer = [c \in Clients |-> "off"]
    /\ out = [c \in Clients |-> NoFrame]
    /\ authenticated = [c \in Clients |-> FALSE]
    /\ txClosed = [c \in Clients |-> FALSE]
    /\ ws = [c \in Clients |-> "open"]
    /\ frames = 0 /\ pings = 0
    /\ delivered = [c \in Clients |-> {}]
    /\ told = [c \in Clients |-> {}]
----
(* The environment, and ListenChat *)

\* chatrelay.Listen puts the next Redis message on ListenChat's channel.
Publish(r) ==
    /\ relay = 0
    /\ Len(published) < MaxMessages
    /\ published' = Append(published, r)
    /\ relay' = Len(published) + 1
    /\ UNCHANGED <<managerVars, reader, writer, out, authenticated, txClosed, ws,
                   frames, pings, historyVars>>

\* The browser closes the page, or the network drops the connection.
PeerLeaves(c) ==
    /\ PeersLeave
    /\ reader[c] # "idle" /\ ws[c] = "open"
    /\ ws' = [ws EXCEPT ![c] = "lost"]
    /\ UNCHANGED <<published, relay, managerVars, reader, writer, out, authenticated,
                   txClosed, frames, pings, historyVars>>
----
(* GetLiveChatHandler *)

\* A step of c's handler or read loop alone, from one place to the next.
Read(c, from, to) ==
    /\ reader[c] = from
    /\ reader' = [reader EXCEPT ![c] = to]

\* The upgrade succeeded and the URL parsed (a URL that does not parse ends the
\* handler before anything here knows the connection).
Connect(c) ==
    /\ Read(c, "idle", "register")
    /\ UNCHANGED <<published, relay, managerVars, writer, out, authenticated,
                   txClosed, ws, frames, pings, historyVars>>

\* go client.StartReadLoop(): the goroutine reaches its first read.
StartReadLoop(c) ==
    /\ Read(c, "start", "read")
    /\ UNCHANGED <<published, relay, managerVars, writer, out, authenticated,
                   txClosed, ws, frames, pings, historyVars>>

\* A plausible bug: the second go statement is lost.
StartWriteLoopNever(c) == FALSE /\ UNCHANGED vars

\* go client.StartWriteLoop(): the handler runs on, so it may come late.
StartWriteLoop(c) ==
    /\ reader[c] \notin {"idle", "register", "start"}
    /\ writer[c] = "off"
    /\ writer' = [writer EXCEPT ![c] = "select"]
    /\ UNCHANGED <<published, relay, managerVars, reader, out, authenticated,
                   txClosed, ws, frames, pings, historyVars>>
----
(* SocketManager.Run *)

\* A plausible bug: the gauge is not incremented.
RegisterUncounted(c) ==
    /\ cur = 0
    /\ Read(c, "register", "start")
    /\ registered' = registered \union {c}
    /\ UNCHANGED <<published, relay, gauge, cur, todo, writer, out, authenticated,
                   txClosed, ws, frames, pings, historyVars>>

Register(c) ==
    /\ cur = 0
    /\ Read(c, "register", "start")
    /\ registered' = registered \union {c}
    /\ gauge' = gauge + 1
    /\ UNCHANGED <<published, relay, cur, todo, writer, out, authenticated,
                   txClosed, ws, frames, pings, historyVars>>

\* sm.clients[g]
GuildClients(g) == {c \in registered : Room[c].guild = g}

\* A plausible bug: the entry is looked up under the wrong key and stays.
UnregisterKeepsEntry(c) ==
    /\ cur = 0
    /\ Read(c, "unregister", "close")
    /\ gauge' = gauge - 1
    /\ UNCHANGED <<published, relay, registered, cur, todo, writer, out, authenticated,
                   txClosed, ws, frames, pings, historyVars>>

\* The receive lets c's read loop run on whatever Run does with its list; the
\* gauge is left alone only when the guild has no client at all.
Unregister(c) ==
    /\ cur = 0
    /\ Read(c, "unregister", "close")
    /\ registered' = registered \ {c}
    /\ gauge' = IF GuildClients(Room[c].guild) = {} THEN gauge ELSE gauge - 1
    /\ UNCHANGED <<published, relay, cur, todo, writer, out, authenticated,
                   txClosed, ws, frames, pings, historyVars>>

\* Run takes the message from BroadcastMessage and starts its loop over the
\* guild's clients, if there is any.
TakeMessage ==
    /\ cur = 0 /\ relay # 0
    /\ relay' = 0
    /\ todo' = GuildClients(published[relay].guild)
    /\ cur' = IF todo' = {} THEN 0 ELSE relay
    /\ UNCHANGED <<published, registered, gauge, reader, writer, out, authenticated,
                   txClosed, ws, frames, pings, historyVars>>

\* A plausible bug: the guild is compared and the ticket is not.
WantsGuild(c) == authenticated[c] /\ Room[c].guild = published[cur].guild

\* A plausible bug: "A client might not be authenticated!" is forgotten.
WantsAnyone(c) == Room[c] = published[cur]

\* The two tests of the loop body, authenticated and same guild and ticket.  Run
\* reads client.Authenticated without synchronisation: a read that misses a
\* write just made is the same behaviour with Authenticate after the read.
Wants(c) == authenticated[c] /\ Room[c] = published[cur]

\* Run moves to the next client, or back to the select after the last one.
Considered(c) ==
    /\ cur # 0 /\ c \in todo
    /\ todo' = todo \ {c}
    /\ cur' = IF todo' = {} THEN 0 ELSE cur

Skip(c) ==
    /\ Considered(c)
    /\ ~Wants(c)
    /\ UNCHANGED <<published, relay, registered, gauge, reader, writer, out,
                   authenticated, txClosed, ws, frames, pings, historyVars>>

\* A plausible bug: a send that gives up when the write loop is busy.
HandOrDrop(c) ==
    /\ Considered(c)
    /\ Wants(c)
    /\ IF writer[c] = "select"
       THEN /\ writer' = [writer EXCEPT ![c] = "write"]
            /\ out' = [out EXCEPT ![c] = [kind |-> "message", id |-> cur]]
       ELSE UNCHANGED <<writer, out>>
    /\ UNCHANGED <<published, relay, registered, gauge, reader, authenticated,
                   txClosed, ws, frames, pings, historyVars>>

\* client.Write from Run: blocks Run until c's write loop is at its select.
\* Which client of the list comes next is left open.
Hand(c) ==
    /\ Considered(c)
    /\ Wants(c)
    /\ writer[c] = "select" /\ ~txClosed[c]
    /\ writer' = [writer EXCEPT ![c] = "write"]
    /\ out' = [out EXCEPT ![c] = [kind |-> "message", id |-> cur]]
    /\ UNCHANGED <<published, relay, registered, gauge, reader, authenticated,
                   txClosed, ws, frames, pings, historyVars>>
----
(* StartReadLoop and HandleEvent *)

\* What Ws.Close leaves behind; closing again changes nothing.
CloseSocket(c) == ws' = [ws EXCEPT ![c] = "closed"]

\* A plausible bug: an error on the closed socket is retried.
ReadFailsOnLossOnly(c) ==
    /\ ws[c] = "lost"
    /\ Read(c, "read", "unregister")
    /\ UNCHANGED <<published, relay, managerVars, writer, out, authenticated,
                   txClosed, ws, frames, pings, historyVars>>

\* ReadJSON fails: the peer is gone, the deadline passed or we closed the socket.
ReadFails(c) ==
    /\ ws[c] # "open"
    /\ Read(c, "read", "unregister")
    /\ UNCHANGED <<published, relay, managerVars, writer, out, authenticated,
                   txClosed, ws, frames, pings, historyVars>>

\* The next frame, which may have arrived before the peer left, sends the read loop from "read" to `to`.
ReceiveFrame(c, kind, to) ==
    /\ ws[c] # "closed" /\ kind \in Frames
    /\ frames < MaxFrames
    /\ Read(c, "read", to)
    /\ frames' = frames + 1
    /\ UNCHANGED <<published, relay, managerVars, writer, out, txClosed, ws, pings,
                   historyVars>>

\* ReadJSON fails on a frame that is not JSON.
ReceiveGarbage(c) ==
    /\ ReceiveFrame(c, "garbage", "unregister")
    /\ UNCHANGED authenticated

\* Any event before authentication ends the connection, any other event after
\* it is ignored.
ReceiveOther(c) ==
    /\ ReceiveFrame(c, "other", IF authenticated[c] THEN "read" ELSE "direct")
    /\ UNCHANGED authenticated

\* An auth event whose data does not unmarshal.
ReceiveMalformed(c) ==
    /\ ReceiveFrame(c, "malformed", "malWrite")
    /\ UNCHANGED authenticated

\* handleAuthEvent passes the token, ticket, permission and premium checks.
Authenticate(c) ==
    /\ ReceiveFrame(c, "auth", "authWrite")
    /\ ~authenticated[c]
    /\ c \in Permitted
    /\ authenticated' = [authenticated EXCEPT ![c] = TRUE]

\* handleAuthEvent fails one of them, or cannot reach what it asks, or the
\* client is authenticated already.
RefuseAuth(c) ==
    /\ ReceiveFrame(c, "auth", "errWrite")
    /\ UNCHANGED authenticated

\* A frame was written to the socket, if it is still open; a write to a peer
\* that is gone may succeed or fail.
Wrote(c, f) ==
    IF f.kind = "message"
    THEN /\ delivered' = [delivered EXCEPT ![c] = @ \union {f.id}]
         /\ UNCHANGED told
    ELSE /\ told' = [told EXCEPT ![c] = @ \union {f.kind}]
         /\ UNCHANGED delivered

\* "Unauthorized" is written by the read loop itself, beside the write loop.
WriteDirect(c) ==
    /\ Read(c, "direct", "unregister")
    /\ \/ ws[c] # "closed" /\ Wrote(c, [kind |-> "unauthorized", id |-> 0])
       \/ ws[c] # "open" /\ UNCHANGED historyVars
    /\ UNCHANGED <<published, relay, managerVars, writer, out, authenticated,
                   txClosed, ws, frames, pings>>

\* client.Write from the read loop: a rendezvous on tx.
SendFrom(c, from, to, kind) ==
    /\ Read(c, from, to)
    /\ writer[c] = "select"
    /\ writer' = [writer EXCEPT ![c] = "write"]
    /\ out' = [out EXCEPT ![c] = [kind |-> kind, id |-> 0]]
    /\ UNCHANGED <<published, relay, managerVars, authenticated, txClosed, ws,
                   frames, pings, historyVars>>

SendAuthenticated(c) == SendFrom(c, "authWrite", "read", "authenticated")
SendMalformed(c) == SendFrom(c, "malWrite", "malClose", "malformed")

\* A plausible bug: the socket is closed before the flush, as HandleEvent does.
SendErrorThenClose(c) == SendFrom(c, "errWrite", "errClose", "error")

SendError(c) == SendFrom(c, "errWrite", "errFlush", "error")

\* Ws.Close, before the flush in HandleEvent and after it in StartReadLoop.
CloseFrom(c, from, to) ==
    /\ Read(c, from, to)
    /\ CloseSocket(c)
    /\ UNCHANGED <<published, relay, managerVars, writer, out, authenticated,
                   txClosed, frames, pings, historyVars>>

CloseMalformed(c) == CloseFrom(c, "malClose", "malFlush")
CloseAfterError(c) == CloseFrom(c, "errClose", "unregister")

\* Flush hands its channel to the write loop: a rendezvous on flush with no
\* timeout.
FlushFrom(c, from, to) ==
    /\ Read(c, from, to)
    /\ writer[c] = "select"
    /\ writer' = [writer EXCEPT ![c] = "reply"]
    /\ UNCHANGED <<published, relay, managerVars, out, authenticated, txClosed, ws,
                   frames, pings, historyVars>>

Flush(c) == FlushFrom(c, "malFlush", "malWait") \/ FlushFrom(c, "errFlush", "errWait")

\* Flush returns: the write loop answered, or a second went by, and then the
\* write loop's answer finds nobody.
AfterFlush(c) ==
    Read(c, "malWait", "errWrite") \/ Read(c, "errWait", "errClose")

FlushAnswered(c) ==
    /\ AfterFlush(c)
    /\ writer[c] = "reply"
    /\ writer' = [writer EXCEPT ![c] = "select"]
    /\ UNCHANGED <<published, relay, managerVars, out, authenticated, txClosed, ws,
                   frames, pings, historyVars>>

FlushTimesOut(c) ==
    /\ AfterFlush(c)
    /\ UNCHANGED <<published, relay, managerVars, writer, out, authenticated,
                   txClosed, ws, frames, pings, historyVars>>

\* The rest of the deferred call, once unregister was taken.
CloseClient(c) ==
    /\ Read(c, "close", "done")
    /\ CloseSocket(c)
    /\ txClosed' = [txClosed EXCEPT ![c] = TRUE]
    /\ UNCHANGED <<published, relay, managerVars, writer, out, authenticated,
                   frames, pings, historyVars>>
----
(* StartWriteLoop *)

\* A failed write ends the loop, and its deferred call closes the socket.
WriteFails(c) ==
    /\ ws[c] # "open"
    /\ writer' = [writer EXCEPT ![c] = "done"]
    /\ CloseSocket(c)

WriteOut(c) ==
    /\ writer[c] = "write"
    /\ \/ /\ ws[c] # "closed"
          /\ Wrote(c, out[c])
          /\ writer' = [writer EXCEPT ![c] = "select"]
          /\ UNCHANGED ws
       \/ WriteFails(c) /\ UNCHANGED historyVars
    /\ out' = [out EXCEPT ![c] = NoFrame]
    /\ UNCHANGED <<published, relay, managerVars, reader, authenticated, txClosed,
                   frames, pings>>

\* The keepalive ticker fires.
Ping(c) ==
    /\ writer[c] = "select"
    /\ pings < MaxPings
    /\ writer' = [writer EXCEPT ![c] = "ping"]
    /\ pings' = pings + 1
    /\ UNCHANGED <<published, relay, managerVars, reader, out, authenticated, txClosed,
                   ws, frames, historyVars>>

PingWritten(c) ==
    /\ writer[c] = "ping"
    /\ \/ ws[c] # "closed" /\ writer' = [writer EXCEPT ![c] = "select"] /\ UNCHANGED ws
       \/ WriteFails(c)
    /\ UNCHANGED <<published, relay, managerVars, reader, out, authenticated, txClosed,
                   frames, pings, historyVars>>

\* tx is closed: a close frame, then the loop ends.
WriteClose(c) ==
    /\ writer[c] = "select" /\ txClosed[c]
    /\ writer' = [writer EXCEPT ![c] = "done"]
    /\ CloseSocket(c)
    /\ UNCHANGED <<published, relay, managerVars, reader, out, authenticated, txClosed,
                   frames, pings, historyVars>>
----
ManagerStep == TakeMessage \/ \E c \in Clients : Register(c) \/ Unregister(c) \/ Skip(c) \/ Hand(c)

\* What a read loop does of its own accord; frames and peers are not in it.
ReaderStep(c) ==
    \/ StartReadLoop(c) \/ ReadFails(c) \/ WriteDirect(c)
    \/ SendAuthenticated(c) \/ SendMalformed(c) \/ SendError(c)
    \/ CloseMalformed(c) \/ CloseAfterError(c)
    \/ Flush(c) \/ FlushAnswered(c) \/ FlushTimesOut(c)
    \/ CloseClient(c)

WriterStep(c) == StartWriteLoop(c) \/ WriteOut(c) \/ PingWritten(c) \/ WriteClose(c)

EnvironmentStep(c) ==
    \/ Connect(c) \/ PeerLeaves(c) \/ Ping(c)
    \/ ReceiveGarbage(c) \/ ReceiveOther(c) \/ ReceiveMalformed(c)
    \/ Authenticate(c) \/ RefuseAuth(c)

Next ==
    \/ ManagerStep
    \/ \E r \in Rooms : Publish(r)
    \/ \E c \in Clients : ReaderStep(c) \/ WriterStep(c) \/ EnvironmentStep(c)

\* The Go scheduler runs every goroutine that can take a step.  A select that
\* finds several channels ready picks any of them, and messages, frames and
\* pings are finite here, so weak fairness of each client's share is enough.
Fairness ==
    /\ WF_vars(TakeMessage)
    /\ \A c \in Clients :
         /\ WF_vars(Register(c)) /\ WF_vars(Unregister(c))
         /\ WF_vars(Skip(c)) /\ WF_vars(Hand(c))
         /\ WF_vars(ReaderStep(c)) /\ WF_vars(WriterStep(c))

Spec == Init /\ [][Next]_vars /\ Fairness
----
(* Safety *)

\* Run or the read loop stands at a send on c's tx.
ManagerSendsTo(c) == cur # 0 /\ c \in todo /\ Wants(c)
ReaderSends(c) == reader[c] \in {"authWrite", "malWrite", "errWrite"}

\* Nobody sends on a tx that is closed (a send on a closed channel panics and
\* takes the whole API process down): the unregister handshake comes before
\* the close, and Run is not in its loop when it takes part in the handshake.
NoSendOnClosedTx ==
    \A c \in Clients : txClosed[c] => ~ManagerSendsTo(c) /\ ~ReaderSends(c)

\* The registry and the gauge agree, and hold exactly the connections whose
\* read loop has not been through unregister: no entry is lost or leaked.
RegistryTracksReadLoops ==
    /\ gauge = Cardinality(registered)
    /\ registered = {c \in Clients : reader[c] \notin {"idle", "register", "close", "done"}}

\* gorilla/websocket allows one writing goroutine at a time.  The read loop's
\* own "Unauthorized" write can overlap a keepalive ping but never a frame of
\* the write loop, because nothing is queued for a client that is not yet
\* authenticated.
DirectWriteMeetsNoFrame ==
    \A c \in Clients : reader[c] = "direct" => writer[c] # "write"

\* The comment in StartWriteLoop fears a race of tx and flush.  For the read
\* loop's error reply there is none: when Flush has returned, by answer or by
\* timeout, and the socket is still open, the error frame is on the wire.
ErrorWrittenBeforeClose ==
    \A c \in Clients : reader[c] = "errClose" /\ ws[c] = "open" => "error" \in told[c]

\* Every message reaches only permitted connections of its own room, each at
\* most once and in the order of publication.
Feed == INSTANCE LiveFeed WITH member <- {c \in Clients : authenticated[c]}, feed <- delivered
FeedSpec == Feed!Spec
----
(* Liveness *)

\* The write loop will take nothing from tx or flush again: it has returned,
\* or it answers a Flush that has timed out.
WriterGone(c) ==
    \/ writer[c] = "done"
    \/ writer[c] = "reply" /\ reader[c] \notin {"malWait", "errWait"}

\* Run stands at a send that will never be taken.
ManagerHung == \E c \in todo : cur # 0 /\ Wants(c) /\ WriterGone(c)

\* Run stays live, unless it comes to stand at a send to a client whose write
\* loop is gone: that is the only way the relay of every guild can hang.
ManagerHangsOnlyOnGoneWriter == []<>(cur = 0) \/ <>[]ManagerHung

\* Once a socket is closed its read loop unregisters and ends, unless it stands
\* at a Write or Flush that a gone write loop will never take, or Run hangs.
ClosedSocketsEnd ==
    \A c \in Clients :
        (ws[c] = "closed") ~>
            \/ reader[c] = "done"
            \/ reader[c] \in {"authWrite", "malWrite", "malFlush", "errWrite", "errFlush"}
               /\ WriterGone(c)
            \/ ManagerHung

\* A client that is authenticated when Run takes a message of its room gets
\* that message, unless its own socket ends first or Run hangs.
AuthenticatedClientsAreServed ==
    \A c \in Clients : \A m \in 1 .. MaxMessages :
        (cur = m /\ c \in todo /\ Wants(c)) ~>
            (m \in delivered[c] \/ ws[c] # "open" \/ ManagerHung)

\* The help text of activeWebsockets: "The number of open live-chat websockets".
\* Once a socket is closed the gauge eventually stops counting it.
GaugeForgetsClosedSockets ==
    \A c \in Clients : (ws[c] = "closed") ~> (c \notin registered)
====
