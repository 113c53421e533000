---- MODULE LiveChatProofs ----
(***************************************************************************)
(* Proofs about LiveChat for every set of connections, rooms and bounds.   *)
(* The inductive invariant has four parts, each proved on its own from the *)
(* ones before it: the registry, the closing protocol, what is in flight,  *)
(* and the order of messages.                                              *)
(***************************************************************************)
EXTENDS LiveChat, FiniteSetTheorems, TLAPS

\* The registry part, without the set of read loops being spelt out twice.
Unregistered == {"idle", "register", "close", "done"}

Registry ==
    /\ gauge = Cardinality(registered)
    /\ registered = {c \in Clients : reader[c] \notin Unregistered}

\* A write loop holds a frame exactly while it is writing.
Pending ==
    \A c \in Clients : IF writer[c] = "write" THEN out[c].kind # "none" ELSE out[c] = NoFrame

\* One step of the system, by the goroutine that takes it.
StepOf(c) ==
    \/ Register(c) \/ Unregister(c) \/ Skip(c) \/ Hand(c)
    \/ ReaderStep(c) \/ WriterStep(c) \/ EnvironmentStep(c)

\* Every step is one of these, or stutters.
LEMMA NextCases ==
    ASSUME [Next]_vars
    PROVE  \/ TakeMessage
           \/ \E r \in Rooms : Publish(r)
           \/ \E c \in Clients : StepOf(c)
           \/ UNCHANGED vars
  BY DEF Next, ManagerStep, StepOf

\* Every step keeps the types.
LEMMA TypeStep ==
    ASSUME TypeOK, Registry, Pending, [Next]_vars
    PROVE  TypeOK'
<1>1. CASE TakeMessage
  BY <1>1 DEF TakeMessage, TypeOK, GuildClients, historyVars
<1>2. CASE \E r \in Rooms : Publish(r)
  BY <1>2 DEF Publish, TypeOK, managerVars, historyVars
<1>3. CASE UNCHANGED vars
  BY <1>3 DEF vars, TypeOK, managerVars, historyVars
<1>4. ASSUME NEW c \in Clients, StepOf(c) PROVE TypeOK'
  <2> USE DEF TypeOK, Read, Readers, Writers
  <2>1. CASE Register(c)
    BY <2>1 DEF Register, historyVars
  <2>2. CASE Unregister(c)
    <3>1. IsFiniteSet(registered) /\ c \in registered
      BY <2>2, FS_Subset, ClientsAssumption DEF Unregister, Registry, Unregistered
    <3>2. gauge' = gauge - 1 /\ gauge # 0
      BY <2>2, <3>1, FS_EmptySet DEF Unregister, GuildClients, Registry
    <3> QED BY <2>2, <3>2 DEF Unregister, historyVars
  <2>3. CASE Skip(c)
    BY <2>3 DEF Skip, Considered, historyVars
  <2>4. CASE Hand(c)
    BY <2>4 DEF Hand, Considered, historyVars, Frame, Texts
  <2>5. CASE ReaderStep(c)
    <3> USE DEF managerVars, historyVars
    <3>1. CASE StartReadLoop(c)    BY <3>1 DEF StartReadLoop
    <3>2. CASE ReadFails(c)        BY <3>2 DEF ReadFails
    <3>3. CASE WriteDirect(c)
      BY <3>3 DEF WriteDirect, Wrote, Texts
    <3>4. CASE SendAuthenticated(c)
      BY <3>4 DEF SendAuthenticated, SendFrom, Frame, Texts
    <3>5. CASE SendMalformed(c)
      BY <3>5 DEF SendMalformed, SendFrom, Frame, Texts
    <3>6. CASE SendError(c)
      BY <3>6 DEF SendError, SendFrom, Frame, Texts
    <3>7. CASE CloseMalformed(c)
      BY <3>7 DEF CloseMalformed, CloseFrom, CloseSocket
    <3>8. CASE CloseAfterError(c)
      BY <3>8 DEF CloseAfterError, CloseFrom, CloseSocket
    <3>9. CASE Flush(c)            BY <3>9 DEF Flush, FlushFrom
    <3>10. CASE FlushAnswered(c)   BY <3>10 DEF FlushAnswered, AfterFlush
    <3>11. CASE FlushTimesOut(c)   BY <3>11 DEF FlushTimesOut, AfterFlush
    <3>12. CASE CloseClient(c)     BY <3>12 DEF CloseClient, CloseSocket
    <3> QED BY <2>5, <3>1, <3>2, <3>3, <3>4, <3>5, <3>6, <3>7, <3>8, <3>9, <3>10,
               <3>11, <3>12 DEF ReaderStep
  <2>6. CASE WriterStep(c)
    <3> USE DEF managerVars, historyVars
    <3>1. CASE StartWriteLoop(c)   BY <3>1 DEF StartWriteLoop
    <3>2. CASE WriteOut(c)
      <4>1. out' \in [Clients -> Frame] /\ writer' \in [Clients -> Writers]
        BY <3>2 DEF WriteOut, WriteFails, NoFrame, Frame
      <4>2. delivered' \in [Clients -> SUBSET Nat] /\ told' \in [Clients -> SUBSET Texts]
        <5>1. out[c] \in Frame
          OBVIOUS
        <5>2. CASE Wrote(c, out[c])
          <6>1. out[c].kind # "none" /\ out[c].id \in Nat
            BY <3>2, <5>1 DEF WriteOut, Pending, Frame
          <6>2. CASE out[c].kind = "message"
            BY <5>2, <6>1, <6>2 DEF Wrote
          <6>3. CASE out[c].kind # "message"
            <7>1. out[c].kind \in Texts
              BY <5>1, <6>1, <6>3 DEF Frame
            <7> QED BY <5>2, <6>3, <7>1 DEF Wrote
          <6> QED BY <6>2, <6>3
        <5>3. CASE UNCHANGED historyVars
          BY <5>3
        <5> QED BY <3>2, <5>2, <5>3 DEF WriteOut
      <4> QED BY <3>2, <4>1, <4>2 DEF WriteOut, WriteFails, CloseSocket
    <3>3. CASE PingWritten(c)      BY <3>3 DEF PingWritten, WriteFails, CloseSocket
    <3>4. CASE WriteClose(c)       BY <3>4 DEF WriteClose, CloseSocket
    <3> QED BY <2>6, <3>1, <3>2, <3>3, <3>4 DEF WriterStep
  <2>7. CASE EnvironmentStep(c)
    <3> USE DEF managerVars, historyVars, ReceiveFrame
    <3>1. CASE Connect(c)          BY <3>1 DEF Connect
    <3>2. CASE PeerLeaves(c)       BY <3>2 DEF PeerLeaves
    <3>3. CASE Ping(c)             BY <3>3 DEF Ping
    <3>4. CASE ReceiveGarbage(c)   BY <3>4 DEF ReceiveGarbage
    <3>5. CASE ReceiveOther(c)     BY <3>5 DEF ReceiveOther
    <3>6. CASE ReceiveMalformed(c) BY <3>6 DEF ReceiveMalformed
    <3>7. CASE Authenticate(c)     BY <3>7 DEF Authenticate
    <3>8. CASE RefuseAuth(c)       BY <3>8 DEF RefuseAuth
    <3> QED BY <2>7, <3>1, <3>2, <3>3, <3>4, <3>5, <3>6, <3>7, <3>8 DEF EnvironmentStep
  <2> QED BY <1>4, <2>1, <2>2, <2>3, <2>4, <2>5, <2>6, <2>7 DEF StepOf
<1> QED BY <1>1, <1>2, <1>3, <1>4, NextCases
----
\* Registry is preserved: only Register and Unregister touch the registry, and
\* they are the read loop's own steps over its border.
LEMMA RegistryStep ==
    ASSUME TypeOK, Registry, [Next]_vars
    PROVE  Registry'
<1> DEFINE Same(c) == (reader'[c] \in Unregistered) <=> (reader[c] \in Unregistered)
<1>same. ASSUME UNCHANGED <<registered, gauge>>, \A c \in Clients : Same(c)
         PROVE  Registry'
  BY <1>same DEF Registry
<1>1. CASE TakeMessage
  BY <1>1, <1>same DEF TakeMessage
<1>2. CASE \E r \in Rooms : Publish(r)
  BY <1>2, <1>same DEF Publish, managerVars
<1>3. CASE UNCHANGED vars
  BY <1>3, <1>same DEF vars, managerVars
<1>4. ASSUME NEW c \in Clients, StepOf(c) PROVE Registry'
  <2>fin. IsFiniteSet(registered)
    BY FS_Subset, ClientsAssumption DEF TypeOK
  <2> USE DEF TypeOK, Unregistered, Read
  <2>1. CASE Register(c)
    <3>1. c \notin registered
      BY <2>1 DEF Register, Registry
    <3>2. Cardinality(registered \union {c}) = Cardinality(registered) + 1
      BY <2>fin, <3>1, FS_AddElement
    <3>3. registered' = {d \in Clients : reader'[d] \notin Unregistered}
      BY <2>1 DEF Register, Registry
    <3> QED BY <2>1, <3>2, <3>3 DEF Register, Registry
  <2>2. CASE Unregister(c)
    <3>1. c \in registered
      BY <2>2 DEF Unregister, Registry
    <3>2. Cardinality(registered \ {c}) = Cardinality(registered) - 1
      BY <2>fin, <3>1, FS_RemoveElement
    <3>3. gauge' = gauge - 1
      BY <2>2, <3>1 DEF Unregister, GuildClients
    <3>4. registered' = {d \in Clients : reader'[d] \notin Unregistered}
      BY <2>2 DEF Unregister, Registry
    <3> QED BY <2>2, <3>2, <3>3, <3>4 DEF Unregister, Registry
  <2>3. CASE Skip(c) \/ Hand(c)
    BY <2>3, <1>same DEF Skip, Hand
  <2>4. CASE ReaderStep(c)
    BY <2>4, <1>same DEF ReaderStep, StartReadLoop, ReadFails, WriteDirect, SendAuthenticated,
       SendMalformed, SendError, SendFrom, CloseMalformed, CloseAfterError, CloseFrom, Flush,
       FlushFrom, FlushAnswered, FlushTimesOut, AfterFlush, CloseClient, managerVars
  <2>5. CASE WriterStep(c)
    BY <2>5, <1>same DEF WriterStep, StartWriteLoop, WriteOut, PingWritten, WriteClose, managerVars
  <2>6. CASE EnvironmentStep(c)
    BY <2>6, <1>same DEF EnvironmentStep, Connect, PeerLeaves, Ping, ReceiveGarbage, ReceiveOther, ReceiveMalformed, Authenticate, RefuseAuth, ReceiveFrame, managerVars
  <2> QED BY <1>4, <2>1, <2>2, <2>3, <2>4, <2>5, <2>6 DEF StepOf
<1> QED BY <1>1, <1>2, <1>3, <1>4, NextCases

\* Pending is preserved: whoever sets writer to "write" sets out, and back.
LEMMA PendingStep ==
    ASSUME TypeOK, Pending, [Next]_vars
    PROVE  Pending'
<1>same. ASSUME UNCHANGED <<writer, out>> PROVE Pending'
  BY <1>same DEF Pending
<1>1. CASE TakeMessage
  BY <1>1, <1>same DEF TakeMessage
<1>2. CASE \E r \in Rooms : Publish(r)
  BY <1>2, <1>same DEF Publish
<1>3. CASE UNCHANGED vars
  BY <1>3, <1>same DEF vars
<1>4. ASSUME NEW c \in Clients, StepOf(c) PROVE Pending'
  <2> USE DEF TypeOK, NoFrame
  <2>1. CASE Register(c) \/ Unregister(c) \/ Skip(c)
    BY <2>1, <1>same DEF Register, Unregister, Skip
  <2>2. CASE Hand(c)
    BY <2>2 DEF Hand, Pending
  <2>3. CASE ReaderStep(c)
    <3>1. CASE SendAuthenticated(c) \/ SendMalformed(c) \/ SendError(c)
      BY <3>1 DEF SendAuthenticated, SendMalformed, SendError, SendFrom, Pending
    <3>2. CASE Flush(c) \/ FlushAnswered(c)
      BY <3>2 DEF Flush, FlushFrom, FlushAnswered, Pending
    <3> QED BY <2>3, <3>1, <3>2, <1>same DEF ReaderStep, StartReadLoop, ReadFails, WriteDirect,
               CloseMalformed, CloseAfterError, CloseFrom, FlushTimesOut, CloseClient
  <2>4. CASE WriterStep(c)
    BY <2>4 DEF WriterStep, StartWriteLoop, WriteOut, WriteFails, PingWritten, WriteClose, Pending
  <2>5. CASE EnvironmentStep(c)
    <3>1. CASE Ping(c)
      BY <3>1 DEF Ping, Pending
    <3> QED BY <2>5, <3>1, <1>same DEF EnvironmentStep, Connect, PeerLeaves, ReceiveGarbage, ReceiveOther, ReceiveMalformed, Authenticate, RefuseAuth, ReceiveFrame
  <2> QED BY <1>4, <2>1, <2>2, <2>3, <2>4, <2>5 DEF StepOf
<1> QED BY <1>1, <1>2, <1>3, <1>4, NextCases

\* The first part of the inductive invariant.
Base == TypeOK /\ Registry /\ Pending

\* Base holds always.
LEMMA BaseInvariant == Spec => []Base
<1>1. Init => Base
  BY FS_EmptySet DEF Init, Base, TypeOK, Registry, Pending, Unregistered, Readers, Writers,
     Frame, NoFrame, Texts
<1>2. Base /\ [Next]_vars => Base'
  BY TypeStep, RegistryStep, PendingStep DEF Base
<1> QED BY <1>1, <1>2, PTL DEF Spec

\* Every variable keeps its type.
THEOREM TypeCorrect == Spec => []TypeOK
  BY BaseInvariant, PTL DEF Base

\* The gauge counts the registry, and the registry is the set of connections
\* between their register and unregister handshakes.
THEOREM RegistryCorrect == Spec => []RegistryTracksReadLoops
<1>1. Base => RegistryTracksReadLoops
  BY DEF Base, Registry, RegistryTracksReadLoops, Unregistered
<1> QED BY <1>1, BaseInvariant, PTL
----
\* The closing protocol: tx is closed only by a read loop that has been through
\* unregister, and Run hands out messages only to clients it has registered.
Closing ==
    /\ todo \subseteq registered
    /\ cur = 0 => todo = {}
    /\ \A c \in Clients : txClosed[c] => reader[c] = "done"

\* Closing is preserved: Run takes part in unregister only when todo is empty.
LEMMA ClosingStep ==
    ASSUME Base, Base', Closing, [Next]_vars
    PROVE  Closing'
<1> USE DEF Base, TypeOK, Closing
<1>1. CASE TakeMessage
  BY <1>1 DEF TakeMessage, historyVars, GuildClients
<1>2. CASE \E r \in Rooms : Publish(r)
  BY <1>2 DEF Publish, managerVars, historyVars
<1>3. CASE UNCHANGED vars
  BY <1>3 DEF vars, managerVars, historyVars
<1>4. ASSUME NEW c \in Clients, StepOf(c) PROVE Closing'
  <2> USE DEF Read, managerVars, historyVars
  <2>1. CASE Register(c) \/ Unregister(c)
    BY <2>1 DEF Register, Unregister
  <2>2. CASE Skip(c)
    BY <2>2 DEF Skip, Considered
  <2>3. CASE Hand(c)
    BY <2>3 DEF Hand, Considered, Wants
  <2>4. CASE ReaderStep(c)
    BY <2>4 DEF ReaderStep, StartReadLoop, ReadFails, WriteDirect, SendAuthenticated,
       SendMalformed, SendError, SendFrom, CloseMalformed, CloseAfterError, CloseFrom, Flush,
       FlushFrom, FlushAnswered, FlushTimesOut, AfterFlush, CloseClient
  <2>5. CASE WriterStep(c)
    BY <2>5 DEF WriterStep, StartWriteLoop, WriteOut, WriteFails, PingWritten, WriteClose
  <2>6. CASE EnvironmentStep(c)
    BY <2>6 DEF EnvironmentStep, Connect, PeerLeaves, Ping, ReceiveGarbage, ReceiveOther, ReceiveMalformed, Authenticate, RefuseAuth, ReceiveFrame
  <2> QED BY <1>4, <2>1, <2>2, <2>3, <2>4, <2>5, <2>6 DEF StepOf
<1> QED BY <1>1, <1>2, <1>3, <1>4, NextCases

\* Before a client is authenticated nothing is queued for its write loop.
Quiet ==
    \A c \in Clients :
        /\ reader[c] = "direct" => ~authenticated[c]
        /\ reader[c] = "authWrite" => authenticated[c]
        /\ ~authenticated[c] /\ reader[c] \in {"idle", "register", "start", "read", "direct"}
              => writer[c] # "write"

\* Quiet is preserved: Run and a read loop write only past authentication or
\* on the way out.
LEMMA QuietStep ==
    ASSUME Base, Base', Quiet, [Next]_vars
    PROVE  Quiet'
<1> USE DEF Base, TypeOK, Quiet
<1>1. CASE TakeMessage
  BY <1>1 DEF TakeMessage, historyVars
<1>2. CASE \E r \in Rooms : Publish(r)
  BY <1>2 DEF Publish, managerVars, historyVars
<1>3. CASE UNCHANGED vars
  BY <1>3 DEF vars, managerVars, historyVars
<1>4. ASSUME NEW c \in Clients, StepOf(c) PROVE Quiet'
  <2> USE DEF Read, managerVars, historyVars
  <2>1. CASE Register(c) \/ Unregister(c)
    BY <2>1 DEF Register, Unregister
  <2>2. CASE Skip(c)
    BY <2>2 DEF Skip, Considered
  <2>3. CASE Hand(c)
    BY <2>3 DEF Hand, Considered, Wants
  <2>4. CASE ReaderStep(c)
    BY <2>4 DEF ReaderStep, StartReadLoop, ReadFails, WriteDirect, SendAuthenticated,
       SendMalformed, SendError, SendFrom, CloseMalformed, CloseAfterError, CloseFrom, Flush,
       FlushFrom, FlushAnswered, FlushTimesOut, AfterFlush, CloseClient
  <2>5. CASE WriterStep(c)
    BY <2>5 DEF WriterStep, StartWriteLoop, WriteOut, WriteFails, PingWritten, WriteClose
  <2>6. CASE EnvironmentStep(c)
    BY <2>6 DEF EnvironmentStep, Connect, PeerLeaves, Ping, ReceiveGarbage, ReceiveOther, ReceiveMalformed, Authenticate, RefuseAuth, ReceiveFrame
  <2> QED BY <1>4, <2>1, <2>2, <2>3, <2>4, <2>5, <2>6 DEF StepOf
<1> QED BY <1>1, <1>2, <1>3, <1>4, NextCases

\* On its way from an error to the close, the read loop's error frame is with
\* the write loop or on the wire, as long as the socket is open.
Told ==
    \A c \in Clients :
        reader[c] \in {"errFlush", "errWait", "errClose"} /\ ws[c] = "open" =>
            \/ "error" \in told[c]
            \/ reader[c] = "errFlush" /\ writer[c] = "write" /\ out[c].kind = "error"

\* Told is preserved: the write loop accepts a flush only when it has written
\* what it took before.
LEMMA ToldStep ==
    ASSUME Base, Base', Told, [Next]_vars
    PROVE  Told'
<1> USE DEF Base, TypeOK, Told
<1>1. CASE TakeMessage
  BY <1>1 DEF TakeMessage, historyVars
<1>2. CASE \E r \in Rooms : Publish(r)
  BY <1>2 DEF Publish, managerVars, historyVars
<1>3. CASE UNCHANGED vars
  BY <1>3 DEF vars, managerVars, historyVars
<1>4. ASSUME NEW c \in Clients, StepOf(c) PROVE Told'
  <2> USE DEF Read, managerVars, historyVars
  <2>1. CASE Register(c) \/ Unregister(c)
    BY <2>1 DEF Register, Unregister
  <2>2. CASE Skip(c)
    BY <2>2 DEF Skip, Considered
  <2>3. CASE Hand(c)
    BY <2>3 DEF Hand, Considered, Wants
  <2>4. CASE ReaderStep(c)
    BY <2>4 DEF ReaderStep, StartReadLoop, ReadFails, WriteDirect, SendAuthenticated,
       SendMalformed, SendError, SendFrom, CloseMalformed, CloseAfterError, CloseFrom, Flush,
       FlushFrom, FlushAnswered, FlushTimesOut, AfterFlush, CloseClient, Wrote, CloseSocket
  <2>5. CASE WriterStep(c)
    BY <2>5 DEF WriterStep, StartWriteLoop, WriteOut, WriteFails, PingWritten, WriteClose, Wrote, CloseSocket
  <2>6. CASE EnvironmentStep(c)
    BY <2>6 DEF EnvironmentStep, Connect, PeerLeaves, Ping, ReceiveGarbage, ReceiveOther, ReceiveMalformed, Authenticate, RefuseAuth, ReceiveFrame
  <2> QED BY <1>4, <2>1, <2>2, <2>3, <2>4, <2>5, <2>6 DEF StepOf
<1> QED BY <1>1, <1>2, <1>3, <1>4, NextCases
----

\* The whole inductive invariant of the channel protocol: who may stand where
\* when a socket is being unregistered, written to or flushed.
THEOREM ProtocolInvariant == Spec => [](Base /\ Closing /\ Quiet /\ Told)
<1>1. Init => Closing /\ Quiet /\ Told
  BY DEF Init, Closing, Quiet, Told
<1>2. Base /\ Base' /\ Closing /\ Quiet /\ Told /\ [Next]_vars => (Closing /\ Quiet /\ Told)'
  BY ClosingStep, QuietStep, ToldStep
<1> QED BY <1>1, <1>2, BaseInvariant, PTL DEF Spec

\* No goroutine ever sends on a closed tx, which would panic the process.
THEOREM NeverSendsOnClosedTx == Spec => []NoSendOnClosedTx
<1>1. Base /\ Closing => NoSendOnClosedTx
  BY DEF Base, Registry, Closing, NoSendOnClosedTx, ManagerSendsTo, ReaderSends, Unregistered
<1> QED BY <1>1, ProtocolInvariant, PTL

\* The read loop's own write never overlaps a frame of the write loop.
THEOREM DirectWriteIsAlone == Spec => []DirectWriteMeetsNoFrame
<1>1. Quiet => DirectWriteMeetsNoFrame
  BY DEF Quiet, DirectWriteMeetsNoFrame
<1> QED BY <1>1, ProtocolInvariant, PTL

\* Flush does what it is there for: an open socket is closed after the error.
THEOREM FlushFlushes == Spec => []ErrorWrittenBeforeClose
<1>1. Told => ErrorWrittenBeforeClose
  BY DEF Told, ErrorWrittenBeforeClose
<1> QED BY <1>1, ProtocolInvariant, PTL
----
\* The messages on their way to c or already written to it.
Sent(c) == delivered[c] \union (IF out[c].kind = "message" THEN {out[c].id} ELSE {})

\* Message m may be among those sent to c.
Due(c, m) ==
    /\ m \in 1 .. Len(published) /\ published[m] = Room[c] /\ authenticated[c]
    /\ relay # 0 => m < relay
    /\ c \in todo => m < cur

\* The order of messages: what Run hands out is older than what ListenChat holds,
\* and what a client of todo was sent is older than what Run hands out.
Order ==
    /\ relay \in 0 .. Len(published) /\ cur \in 0 .. Len(published)
    /\ relay # 0 => cur < relay
    /\ \A c \in Clients : \A m \in Sent(c) : Due(c, m)
    /\ \A c \in Clients : out[c].kind = "message" => \A k \in delivered[c] : k < out[c].id

\* A step that changes none of the variables Order speaks of, except that it may
\* authenticate someone, preserves it.
LEMMA OrderQuiet ==
    ASSUME Base, Order,
           UNCHANGED <<published, relay, cur, todo, out, delivered>>,
           \A c \in Clients : authenticated[c] => authenticated'[c]
    PROVE  Order'
  BY DEF Order, Sent, Due

\* A step of c's write loop only: what it was writing is written or dropped.
LEMMA OrderWriteOut ==
    ASSUME Base, Order, NEW c \in Clients, WriteOut(c)
    PROVE  Order'
<1> USE DEF Base, TypeOK
<1>1. /\ UNCHANGED <<published, relay, cur, todo, authenticated>>
      /\ out' = [out EXCEPT ![c] = NoFrame]
  BY DEF WriteOut, managerVars
<1>2. \A d \in Clients : Sent(d)' \subseteq Sent(d)
  <2>1. CASE UNCHANGED delivered
    BY <1>1, <2>1 DEF Sent, NoFrame
  <2>2. CASE /\ out[c].kind = "message"
             /\ delivered' = [delivered EXCEPT ![c] = @ \union {out[c].id}]
    BY <1>1, <2>2 DEF Sent, NoFrame
  <2> QED BY <2>1, <2>2 DEF WriteOut, Wrote, historyVars
<1>3. \A d \in Clients : out'[d].kind = "message" => d # c /\ out'[d] = out[d] /\ delivered'[d] = delivered[d]
  BY <1>1 DEF WriteOut, Wrote, historyVars, NoFrame
<1> QED BY <1>1, <1>2, <1>3 DEF Order, Due

\* Run hands cur to a client of todo, which was sent nothing as new as cur.
LEMMA OrderHand ==
    ASSUME Base, Closing, Order, NEW c \in Clients, Hand(c)
    PROVE  Order'
<1> USE DEF Base, TypeOK
<1>1. /\ UNCHANGED <<published, relay, delivered, authenticated>>
      /\ out' = [out EXCEPT ![c] = [kind |-> "message", id |-> cur]]
      /\ todo' = todo \ {c} /\ cur' \in {0, cur} /\ (cur' = 0 => todo' = {})
      /\ cur # 0 /\ c \in todo /\ authenticated[c] /\ Room[c] = published[cur]
      /\ out[c] = NoFrame
  BY DEF Hand, Considered, Wants, Pending, historyVars
<1>2. \A d \in Clients : d # c => Sent(d)' = Sent(d)
  BY <1>1 DEF Sent
<1>3. Sent(c)' = Sent(c) \union {cur}
  BY <1>1 DEF Sent, NoFrame
<1>4. \A k \in delivered[c] : k < cur
  BY <1>1 DEF Order, Sent, Due
<1>5. \A d \in Clients : \A m \in Sent(d)' : Due(d, m)'
  <2> SUFFICES ASSUME NEW d \in Clients, NEW m \in Sent(d)' PROVE Due(d, m)'
    OBVIOUS
  <2>1. CASE m \in Sent(d)
    BY <1>1, <2>1 DEF Order, Due
  <2>2. CASE d = c /\ m = cur
    BY <1>1, <2>2 DEF Order, Due
  <2> QED BY <1>2, <1>3, <2>1, <2>2
<1> QED BY <1>1, <1>4, <1>5 DEF Order

\* Every step preserves Order.
LEMMA OrderStep ==
    ASSUME Base, Closing, Order, [Next]_vars
    PROVE  Order'
<1> USE DEF Base, TypeOK
<1>1. CASE TakeMessage
  <2>1. /\ UNCHANGED <<published, out, delivered, authenticated>>
        /\ cur = 0 /\ relay # 0 /\ relay' = 0 /\ cur' \in {0, relay}
        /\ (cur' = 0 => todo' = {})
    BY <1>1 DEF TakeMessage, historyVars
  <2>2. \A c \in Clients : Sent(c)' = Sent(c)
    BY <2>1 DEF Sent
  <2>3. \A c \in Clients : \A m \in Sent(c) : Due(c, m)'
    BY <2>1 DEF Order, Due
  <2> QED BY <2>1, <2>2, <2>3 DEF Order
<1>2. CASE \E r \in Rooms : Publish(r)
  <2> PICK r \in Rooms : Publish(r)
    BY <1>2
  <2>1. /\ UNCHANGED <<cur, todo, out, delivered, authenticated>>
        /\ published' = Append(published, r) /\ relay' = Len(published) + 1
    BY DEF Publish, managerVars, historyVars
  <2>2. /\ Len(published) \in Nat /\ Len(published') = Len(published) + 1
        /\ \A m \in 1 .. Len(published) : published'[m] = published[m]
    BY <2>1
  <2>3. \A c \in Clients : Sent(c)' = Sent(c)
    BY <2>1 DEF Sent
  <2> QED BY <2>1, <2>2, <2>3 DEF Order, Due
<1>3. CASE UNCHANGED vars
  BY <1>3, OrderQuiet DEF vars, managerVars, historyVars
<1>4. ASSUME NEW c \in Clients, StepOf(c) PROVE Order'
  <2> USE DEF Read, managerVars, historyVars
  <2>1. CASE Register(c) \/ Unregister(c)
    BY <2>1, OrderQuiet DEF Register, Unregister
  <2>2. CASE Skip(c)
    <3>1. /\ UNCHANGED <<published, relay, out, delivered, authenticated>>
          /\ todo' = todo \ {c} /\ cur' \in {0, cur} /\ (cur' = 0 => todo' = {})
      BY <2>2 DEF Skip, Considered
    <3> QED BY <3>1 DEF Order, Sent, Due
  <2>3. CASE Hand(c)
    BY <2>3, OrderHand
  <2>4. CASE ReaderStep(c)
    <3>1. CASE WriteDirect(c)
      BY <3>1, OrderQuiet DEF WriteDirect, Wrote
    <3>2. CASE SendAuthenticated(c) \/ SendMalformed(c) \/ SendError(c)
      <4>1. /\ UNCHANGED <<published, relay, cur, todo, delivered, authenticated>>
            /\ writer[c] = "select"
            /\ \E kind \in Texts : out' = [out EXCEPT ![c] = [kind |-> kind, id |-> 0]]
        BY <3>2 DEF SendAuthenticated, SendMalformed, SendError, SendFrom, Texts
      <4>2. \A d \in Clients : out'[d].kind = "message" => out'[d] = out[d]
        BY <4>1 DEF Texts
      <4>3. \A d \in Clients : Sent(d)' \subseteq Sent(d)
        BY <4>1, <4>2 DEF Sent
      <4> QED BY <4>1, <4>2, <4>3 DEF Order, Due
    <3> QED BY <2>4, <3>1, <3>2, OrderQuiet DEF ReaderStep, StartReadLoop, ReadFails,
               CloseMalformed, CloseAfterError, CloseFrom, Flush, FlushFrom, FlushAnswered,
               FlushTimesOut, CloseClient
  <2>5. CASE WriterStep(c)
    BY <2>5, OrderQuiet, OrderWriteOut DEF WriterStep, StartWriteLoop, PingWritten, WriteClose
  <2>6. CASE EnvironmentStep(c)
    BY <2>6, OrderQuiet DEF EnvironmentStep, Connect, PeerLeaves, Ping, ReceiveGarbage,
       ReceiveOther, ReceiveMalformed, Authenticate, RefuseAuth, ReceiveFrame
  <2> QED BY <1>4, <2>1, <2>2, <2>3, <2>4, <2>5, <2>6 DEF StepOf
<1> QED BY <1>1, <1>2, <1>3, <1>4, NextCases

\* Order holds always.
LEMMA OrderInvariant == Spec => []Order
<1>1. Init => Order
  BY DEF Init, Order, Sent, NoFrame
<1>2. Base /\ Closing /\ Order /\ [Next]_vars => Order'
  BY OrderStep
<1> QED BY <1>1, <1>2, ProtocolInvariant, PTL DEF Spec
----
\* Initially nothing is published, nobody is a member and every feed is empty.
LEMMA FeedInit == Init => Feed!Init
  BY DEF Init, Feed!Init

\* Every step of the goroutines is a step of LiveFeed or leaves it unchanged.
LEMMA FeedStep ==
    ASSUME Base, Closing, Order, [Next]_vars
    PROVE  [Feed!Next]_Feed!vars
<1> USE DEF Base, TypeOK
<1>quiet. ASSUME UNCHANGED <<published, authenticated, delivered>>
          PROVE  UNCHANGED Feed!vars
  BY <1>quiet DEF Feed!vars
<1>1. CASE TakeMessage
  BY <1>1, <1>quiet DEF TakeMessage, historyVars
<1>2. CASE \E r \in Rooms : Publish(r)
  BY <1>2 DEF Publish, historyVars, Feed!Next, Feed!Publish
<1>3. CASE UNCHANGED vars
  BY <1>3, <1>quiet DEF vars, historyVars
<1>4. ASSUME NEW c \in Clients, StepOf(c) PROVE [Feed!Next]_Feed!vars
  <2> USE DEF historyVars
  <2>1. CASE Register(c) \/ Unregister(c) \/ Skip(c) \/ Hand(c)
    BY <2>1, <1>quiet DEF Register, Unregister, Skip, Hand
  <2>2. CASE ReaderStep(c)
    <3>1. CASE WriteDirect(c)
      BY <3>1, <1>quiet DEF WriteDirect, Wrote
    <3> QED BY <2>2, <3>1, <1>quiet DEF ReaderStep, StartReadLoop, ReadFails, SendAuthenticated,
               SendMalformed, SendError, SendFrom, CloseMalformed, CloseAfterError, CloseFrom,
               Flush, FlushFrom, FlushAnswered, FlushTimesOut, CloseClient
  <2>3. CASE WriterStep(c)
    <3>1. CASE WriteOut(c) /\ delivered' # delivered
      <4>1. /\ UNCHANGED <<published, authenticated>>
            /\ out[c].kind = "message"
            /\ delivered' = [delivered EXCEPT ![c] = @ \union {out[c].id}]
        BY <3>1 DEF WriteOut, Wrote
      <4>2. /\ out[c].id \in 1 .. Len(published)
            /\ published[out[c].id] = Room[c]
            /\ authenticated[c]
            /\ \A k \in delivered[c] : k < out[c].id
        BY <4>1 DEF Order, Sent, Due
      <4>3. Feed!Deliver(c, out[c].id)
        BY <4>1, <4>2 DEF Feed!Deliver
      <4> QED BY <4>2, <4>3 DEF Feed!Next
    <3> QED BY <2>3, <3>1, <1>quiet DEF WriterStep, StartWriteLoop, WriteOut, PingWritten, WriteClose
  <2>4. CASE EnvironmentStep(c)
    <3>1. CASE Authenticate(c)
      <4>1. /\ UNCHANGED <<published, delivered>> /\ c \in Permitted
            /\ authenticated' = [authenticated EXCEPT ![c] = TRUE]
        BY <3>1 DEF Authenticate, ReceiveFrame
      <4>2. {d \in Clients : authenticated'[d]} = {d \in Clients : authenticated[d]} \union {c}
        BY <4>1
      <4>3. Feed!Admit(c)
        BY <4>1, <4>2 DEF Feed!Admit
      <4> QED BY <4>3 DEF Feed!Next
    <3> QED BY <2>4, <3>1, <1>quiet DEF EnvironmentStep, Connect, PeerLeaves, Ping,
               ReceiveGarbage, ReceiveOther, ReceiveMalformed, RefuseAuth, ReceiveFrame
  <2> QED BY <1>4, <2>1, <2>2, <2>3, <2>4 DEF StepOf
<1> QED BY <1>1, <1>2, <1>3, <1>4, NextCases

\* Live-chat keeps its promise: only permitted connections get messages, of
\* their own room only, each at most once and in the order of publication.
THEOREM ImplementsLiveFeed == Spec => FeedSpec
<1>1. Base /\ Closing /\ Order /\ [Next]_vars => [Feed!Next]_Feed!vars
  BY FeedStep
<1> QED BY FeedInit, <1>1, ProtocolInvariant, OrderInvariant, PTL DEF Spec, FeedSpec, Feed!Spec
====
