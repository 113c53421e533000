---- MODULE ServicesProofs ----
(***************************************************************************)
(* Proofs about the components of Services, for any number of requests at  *)
(* a time and any sets of bots, tags and statuses.  Every component has an *)
(* inductive invariant of its own, which says what each place of its       *)
(* handlers has read or done; the steps of the others leave it alone.      *)
(***************************************************************************)
EXTENDS Services, FiniteSetTheorems, TLAPS

\* A behaviour is about one component from the first step to the last.
BaseInv == about \in Components /\ requests \in 0 .. MaxRequests

LEMMA NextCases ==
    ASSUME [Next]_vars
    PROVE  \/ about = "bot" /\ WhitelabelNext
              /\ UNCHANGED <<tagVars, messageVars, integrationVars, sessionVars>>
           \/ about = "tags" /\ TagsNext
              /\ UNCHANGED <<whitelabelVars, messageVars, integrationVars, sessionVars>>
           \/ about = "messages" /\ MessagesNext
              /\ UNCHANGED <<whitelabelVars, tagVars, integrationVars, sessionVars>>
           \/ about = "integrations" /\ IntegrationsNext
              /\ UNCHANGED <<whitelabelVars, tagVars, messageVars, sessionVars>>
           \/ about = "sessions" /\ SessionsNext
              /\ UNCHANGED <<whitelabelVars, tagVars, messageVars, integrationVars>>
           \/ UNCHANGED vars
  BY DEF Next

\* Requests are counted, and no step takes up another component.
Counts == BaseInv' /\ about' = about /\ requests' >= requests

\* The ways a handler moves on, each of which counts.
LEMMA Moving ==
    ASSUME BaseInv, NEW h \in Handlers
    PROVE  /\ \A r : Begin(h, r) => Counts
           /\ \A at : Goto(h, at) => Counts
           /\ End(h) => Counts
           /\ about' = about /\ requests' = requests => Counts
  BY RequestsAssumption DEF BaseInv, Counts, Begin, Goto, End

LEMMA BaseStep == BaseInv /\ [Next]_vars => Counts
<1> SUFFICES ASSUME BaseInv, [Next]_vars PROVE Counts
  OBVIOUS
<1>0. about' = about /\ requests' = requests => Counts
  BY DEF BaseInv, Counts
<1>1. CASE WhitelabelNext
  <2>1. ASSUME NEW h \in Handlers,
               \/ \E b \in Bots : BeginPost(h, b)
               \/ TakeOffline(h) \/ SetBot(h) \/ EditCurrentApplication(h) \/ RefuseApplication(h)
               \/ PublishTokenChange(h) \/ CreateInteractions(h) \/ FailPost(h)
        PROVE  Counts
    BY <2>1, Moving DEF BeginPost, TakeOffline, SetBot, EditCurrentApplication, RefuseApplication,
                        PublishTokenChange, CreateInteractions, FailPost
  <2>2. ASSUME NEW h \in Handlers,
               \/ WhitelabelDelete(h) \/ \E s \in Statuses \union {None} : BeginStatus(h, s)
               \/ WriteStatus(h) \/ FailStatus(h)
        PROVE  Counts
    BY <2>2, Moving DEF WhitelabelDelete, BeginStatus, WriteStatus, FailStatus
  <2>3. CASE PublishDetached \/ Sharder
    BY <2>3, <1>0 DEF PublishDetached, Sharder, base
  <2>4. QED
    BY <1>1, <2>1, <2>2, <2>3 DEF WhitelabelNext
<1>2. CASE TagsNext
  <2>1. ASSUME NEW h \in Handlers, NEW t \in TagIds, BeginDeleteTag(h, t) \/ \E c \in BOOLEAN : BeginCreateTag(h, t, c)
        PROVE  Counts
    BY <2>1, Moving DEF BeginDeleteTag, BeginCreateTag
  <2>2. ASSUME NEW h \in Handlers, SetTag(h) \/ DeleteGuildCommand(h) \/ RemoveTag(h) \/ FailTag(h)
        PROVE  Counts
    BY <2>2, Moving DEF SetTag, DeleteGuildCommand, RemoveTag, FailTag
  <2>3. ASSUME NEW h \in Handlers, CreateGuildCommand(h)
        PROVE  Counts
    BY <2>3, <1>0 DEF CreateGuildCommand
  <2>4. CASE SwitchBot \/ PremiumEnds
    BY <2>4, <1>0 DEF SwitchBot, PremiumEnds, base
  <2>5. QED
    BY <1>2, <2>1, <2>2, <2>3, <2>4 DEF TagsNext
<1>3. CASE MessagesNext
  <2>1. ASSUME NEW h \in Handlers,
               \/ BeginSend(h) \/ GetWebhook(h) \/ ExecuteWebhook(h) \/ WebhookRefused(h) \/ WebhookFails(h)
               \/ CreateMessage(h) \/ MessageFails(h) \/ SendFails(h)
        PROVE  Counts
    BY <2>1, Moving DEF BeginSend, GetWebhook, ExecuteWebhook, WebhookRefused, WebhookFails,
                        CreateMessage, MessageFails, SendFails, AnswerRequest, Turn
  <2>2. CASE DropWebhook \/ Surroundings
    BY <2>2, <1>0 DEF DropWebhook, Surroundings, base
  <2>3. QED
    BY <1>3, <2>1, <2>2 DEF MessagesNext
<1>4. CASE IntegrationsNext
  <2>1. ASSUME NEW h \in Handlers,
               \/ BeginUpdate(h) \/ AnswerUpdate(h) \/ RefuseUpdate(h)
               \/ BeginSetPublic(h) \/ RequestPublication(h) \/ SetPublic(h)
        PROVE  Counts
    BY <2>1, Moving DEF BeginUpdate, AnswerUpdate, RefuseUpdate, BeginSetPublic, RequestPublication, SetPublic
  <2>2. ASSUME NEW h \in Handlers, UpdateRow(h) \/ UpdatePart(h)
        PROVE  Counts
    BY <2>2, <1>0 DEF UpdateRow, UpdatePart
  <2>3. CASE Approve
    BY <2>3, <1>0 DEF Approve, base
  <2>4. QED
    BY <1>4, <2>1, <2>2, <2>3 DEF IntegrationsNext
<1>5. CASE SessionsNext
  <2>1. ASSUME NEW h \in Handlers,
               \/ BeginCallback(h) \/ SaveSession(h) \/ Logout(h)
               \/ BeginReload(h) \/ RefuseToken(h) \/ StoreSession(h) \/ FailSession(h)
        PROVE  Counts
    BY <2>1, Moving DEF BeginCallback, SaveSession, Logout, BeginReload, RefuseToken, StoreSession, FailSession
  <2>2. ASSUME NEW h \in Handlers, GetSession(h) \/ RefreshToken(h)
        PROVE  Counts
    BY <2>2, <1>0, Moving DEF GetSession, RefreshToken
  <2>3. CASE KeyExpires \/ SessionExpires
    BY <2>3, <1>0 DEF KeyExpires, SessionExpires, base
  <2>4. QED
    BY <1>5, <2>1, <2>2, <2>3 DEF SessionsNext
<1>6. CASE UNCHANGED vars
  BY <1>6, <1>0 DEF vars, base
<1>7. QED
  BY <1>1, <1>2, <1>3, <1>4, <1>5, <1>6, NextCases

LEMMA BaseStart == ServicesInit => BaseInv
  BY RequestsAssumption DEF ServicesInit, Init, BaseInv

\* What a step does to the components that it is not about, and to the followed one.
LEMMA Following ==
    ASSUME BaseInv, [Next]_vars
    PROVE  /\ BaseInv' /\ about' = about /\ requests' >= requests
           /\ \/ about = "bot" /\ WhitelabelNext
              \/ UNCHANGED whitelabelVars /\ (about = "bot" => UNCHANGED base)
           /\ \/ about = "tags" /\ TagsNext
              \/ UNCHANGED tagVars /\ (about = "tags" => UNCHANGED base)
           /\ \/ about = "messages" /\ MessagesNext
              \/ UNCHANGED messageVars /\ (about = "messages" => UNCHANGED base)
           /\ \/ about = "integrations" /\ IntegrationsNext
              \/ UNCHANGED integrationVars /\ (about = "integrations" => UNCHANGED base)
           /\ \/ about = "sessions" /\ SessionsNext
              \/ UNCHANGED sessionVars /\ (about = "sessions" => UNCHANGED base)
<1>1. BaseInv' /\ about' = about /\ requests' >= requests
  BY BaseStep DEF Counts
<1>3. ASSUME UNCHANGED vars
      PROVE  UNCHANGED <<base, whitelabelVars, tagVars, messageVars, integrationVars, sessionVars>>
  BY <1>3 DEF vars
<1>4. CASE UNCHANGED vars
  BY <1>1, <1>3, <1>4
<1>5. CASE about = "bot" /\ WhitelabelNext /\ UNCHANGED <<tagVars, messageVars, integrationVars, sessionVars>>
  BY <1>1, <1>5
<1>6. CASE about = "tags" /\ TagsNext /\ UNCHANGED <<whitelabelVars, messageVars, integrationVars, sessionVars>>
  BY <1>1, <1>6
<1>7. CASE about = "messages" /\ MessagesNext
             /\ UNCHANGED <<whitelabelVars, tagVars, integrationVars, sessionVars>>
  BY <1>1, <1>7
<1>8. CASE about = "integrations" /\ IntegrationsNext
             /\ UNCHANGED <<whitelabelVars, tagVars, messageVars, sessionVars>>
  BY <1>1, <1>8
<1>9. CASE about = "sessions" /\ SessionsNext
             /\ UNCHANGED <<whitelabelVars, tagVars, messageVars, integrationVars>>
  BY <1>1, <1>9
<1>10. QED
  BY <1>4, <1>5, <1>6, <1>7, <1>8, <1>9, NextCases

\* The handler h is at r afterwards, and the others are where they were.
Gone(q, at) == [q EXCEPT !.at = at]
Moved(h, r) == req' = [g \in Handlers |-> IF g = h THEN r ELSE req[g]]

LEMMA IdleIsIdle == Idle.at = "idle"
  BY DEF Idle

LEMMA Moves ==
    ASSUME NEW S, req \in [Handlers -> S], NEW h \in Handlers
    PROVE  /\ \A r : Begin(h, r) => /\ req[h] = Idle /\ requests < MaxRequests
                                    /\ Moved(h, r) /\ requests' = requests + 1 /\ about' = about
           /\ \A at : Goto(h, at) => /\ Moved(h, Gone(req[h], at))
                                     /\ requests' = requests /\ about' = about
           /\ End(h) => Moved(h, Idle) /\ requests' = requests /\ about' = about
           /\ \A r : req' = [req EXCEPT ![h] = r] => Moved(h, r)
  BY DEF Begin, Goto, End, Moved, Gone

\* Sets of handlers grow and shrink by one.
LEMMA HandlerSets ==
    ASSUME NEW S \in SUBSET Handlers, NEW T \in SUBSET Handlers
    PROVE  /\ Cardinality(S) \in Nat
           /\ T \subseteq S => Cardinality(T) <= Cardinality(S)
           /\ \A h \in Handlers : T \subseteq S \union {h} => Cardinality(T) <= Cardinality(S) + 1
           /\ \A h \in S : T \subseteq S \ {h} => Cardinality(T) <= Cardinality(S) - 1
<1>1. IsFiniteSet(S) /\ IsFiniteSet(T)
  BY RequestsAssumption, FS_Subset
<1>2. Cardinality(S) \in Nat /\ Cardinality(T) \in Nat
  BY <1>1, FS_CardinalityType
<1>3. T \subseteq S => Cardinality(T) <= Cardinality(S)
  BY <1>1, FS_Subset
<1>4. ASSUME NEW h \in Handlers, T \subseteq S \union {h} PROVE Cardinality(T) <= Cardinality(S) + 1
  <2>1. /\ IsFiniteSet(S \union {h})
        /\ Cardinality(S \union {h}) = IF h \in S THEN Cardinality(S) ELSE Cardinality(S) + 1
    BY <1>1, FS_AddElement
  <2>2. Cardinality(T) <= Cardinality(S \union {h})
    BY <2>1, <1>4, FS_Subset
  <2>3. QED
    BY <2>1, <2>2, <1>2
<1>5. ASSUME NEW h \in S, T \subseteq S \ {h} PROVE Cardinality(T) <= Cardinality(S) - 1
  <2>1. IsFiniteSet(S \ {h}) /\ Cardinality(S \ {h}) = Cardinality(S) - 1
    BY <1>1, FS_RemoveElement
  <2>2. Cardinality(T) <= Cardinality(S \ {h})
    BY <2>1, <1>5, FS_Subset
  <2>3. QED
    BY <2>1, <2>2
<1>6. QED
  BY <1>2, <1>3, <1>4, <1>5
----
(* Sessions *)

SessionReq ==
    {Idle} \union [at : {"get"}] \union [at : {"save", "refresh", "store"}, token : Nat \ {0}]

\* Reloads that have yet to trade their token.
ToTrade == {h \in Handlers : At(h, "get") \/ At(h, "refresh")}

\* A token that was issued to a request and not stored yet is the request's alone.
Holds(h) == At(h, "save") \/ At(h, "store")

FreshTokens ==
    \A h \in Handlers : Holds(h) =>
      /\ req[h].token \in 1 .. issued /\ req[h].token \notin spent /\ req[h].token # session
      /\ \A g \in Handlers : (Holds(g) \/ At(g, "refresh")) /\ req[g].token = req[h].token => g = h

SessionsTypes ==
    /\ session \in {None} \union (1 .. issued)
    /\ spent \subseteq 1 .. issued
    /\ issued \in Nat
    /\ locked \in BOOLEAN /\ holdup \in BOOLEAN /\ lostToken \in BOOLEAN /\ turnedAway \in BOOLEAN

SessionsTokens ==
    /\ req \in [Handlers -> SessionReq]
    /\ \A h \in Handlers : At(h, "refresh") => req[h].token \in 1 .. issued
    /\ FreshTokens

\* A request is issued one token at most.
TokensCounted == issued + Cardinality(ToTrade) <= requests

SessionsInv ==
    /\ SessionsTypes
    /\ issued <= MaxRequests
    /\ about = "sessions" => SessionsTokens /\ TokensCounted

\* With the key, and without a trade that was lost, one reload at a time has a token
\* that nobody has traded, and the stored one is good but for the moment of the trade.
Unspent ==
    /\ Reloading => locked
    /\ \A g, h \in Handlers : {req[g].at, req[h].at} \subseteq {"get", "refresh", "store"} => g = h
    /\ \A h \in Handlers : At(h, "refresh") => req[h].token \notin spent
    /\ session \in spent => \E h \in Handlers : At(h, "store")
    /\ ~turnedAway

ReloadsInv == about = "sessions" /\ ~holdup /\ ~lostToken => Unspent
TurnedAwayInv == about # "sessions" => ~turnedAway

LEMMA SessionsStep == SessionsInv /\ BaseInv /\ [Next]_vars => SessionsInv'
<1> SUFFICES ASSUME SessionsInv, BaseInv, [Next]_vars PROVE SessionsInv'
  OBVIOUS
<1>1. CASE UNCHANGED sessionVars /\ (about = "sessions" => UNCHANGED base)
  BY <1>1, Following DEF SessionsInv, SessionsTypes, SessionsTokens, TokensCounted, FreshTokens, Holds, ToTrade, At,
                         sessionVars, base
<1>2. CASE about = "sessions" /\ SessionsNext
  <2> USE DEF At
  <2>0. /\ SessionsTypes /\ SessionsTokens /\ TokensCounted
        /\ requests \in Nat /\ requests <= MaxRequests /\ MaxRequests \in Nat /\ about' = "sessions"
    BY <1>2, Following, RequestsAssumption DEF SessionsInv, BaseInv
  <2>1. ToTrade \subseteq Handlers /\ ToTrade' \subseteq Handlers
    BY DEF ToTrade
  <2>2. CASE KeyExpires \/ SessionExpires
    <3>1. SessionsTypes'
      BY <2>2, <2>0 DEF KeyExpires, SessionExpires, SessionsTypes, Reloading
    <3>2. TokensCounted'
      BY <2>2, <2>0 DEF KeyExpires, SessionExpires, ToTrade, TokensCounted, base
    <3>3. req' = req /\ issued' = issued /\ spent' = spent /\ session' \in {session, None}
      BY <2>2 DEF KeyExpires, SessionExpires, base
    <3>4. FreshTokens'
      BY <2>0, <3>3, NoneAssumption DEF SessionsTypes, SessionsTokens, FreshTokens, Holds
    <3>5. SessionsTokens'
      BY <2>0, <3>3, <3>4 DEF SessionsTokens
    <3>6. QED
      BY <3>1, <3>2, <3>3, <3>5 DEF SessionsInv
  <2>3. ASSUME NEW h \in Handlers, BeginCallback(h) PROVE SessionsTypes' /\ SessionsTokens' /\ TokensCounted'
    <3>1. Moved(h, [at |-> "save", token |-> issued + 1]) /\ req[h] = Idle
      BY <2>0, <2>3, Moves DEF SessionsTokens, BeginCallback
    <3>2. SessionsTypes'
      BY <2>0, <2>3 DEF BeginCallback, SessionsTypes
    <3>3. req' \in [Handlers -> SessionReq]
      BY <2>0, <3>1 DEF Moved, SessionsTypes, SessionsTokens, SessionReq
    <3>4. \A g \in Handlers : At(g, "refresh")' => req'[g].token \in 1 .. issued'
      BY <2>0, <2>3, <3>1 DEF BeginCallback, Moved, SessionsTypes, SessionsTokens
    <3>5. FreshTokens'
      BY <2>0, <2>3, <3>1, NoneAssumption DEF BeginCallback, Moved, SessionsTypes, SessionsTokens, FreshTokens, Holds
    <3>6. TokensCounted'
      <4>1. ToTrade' \subseteq ToTrade
        BY <3>1 DEF Moved, ToTrade
      <4>2. QED
        BY <4>1, <2>0, <2>1, <2>3, HandlerSets DEF TokensCounted, SessionsTypes, BeginCallback, Begin
    <3>7. QED
      BY <3>2, <3>3, <3>4, <3>5, <3>6 DEF SessionsTokens
  <2>4. ASSUME NEW h \in Handlers, BeginReload(h) PROVE SessionsTypes' /\ SessionsTokens' /\ TokensCounted'
    <3>1. Moved(h, [at |-> "get"]) /\ req[h] = Idle
      BY <2>0, <2>4, Moves DEF SessionsTokens, BeginReload
    <3>2. SessionsTypes'
      BY <2>0, <2>4 DEF BeginReload, TakeKey, SessionsTypes
    <3>3. req' \in [Handlers -> SessionReq]
      BY <2>0, <3>1 DEF Moved, SessionsTokens, SessionReq
    <3>4. FreshTokens' /\ \A g \in Handlers : At(g, "refresh")' => req'[g].token \in 1 .. issued'
      BY <2>0, <2>4, <3>1 DEF BeginReload, Moved, SessionsTypes, SessionsTokens, FreshTokens, Holds
    <3>5. TokensCounted'
      <4>1. ToTrade' \subseteq ToTrade \union {h}
        BY <3>1 DEF Moved, ToTrade
      <4>2. QED
        BY <4>1, <2>0, <2>1, <2>4, HandlerSets DEF TokensCounted, SessionsTypes, BeginReload, Begin
    <3>6. QED
      BY <3>2, <3>3, <3>4, <3>5 DEF SessionsTokens
  <2>5. ASSUME NEW h \in Handlers, RefreshToken(h) PROVE SessionsTypes' /\ SessionsTokens' /\ TokensCounted'
    <3>1. Moved(h, [at |-> "store", token |-> issued + 1]) /\ req[h].at = "refresh" /\ issued' = issued + 1
      BY <2>0, <2>5, Moves DEF SessionsTokens, RefreshToken
    <3>2. SessionsTypes'
      <4>1. issued \in Nat /\ issued' = issued + 1 /\ 1 .. issued \subseteq 1 .. issued'
        BY <2>0, <3>1 DEF SessionsTypes
      <4>2. spent' = spent \union {req[h].token} /\ req[h].token \in 1 .. issued
        BY <2>0, <2>5, <3>1 DEF RefreshToken, SessionsTokens
      <4>3. session' \in {None} \union (1 .. issued') /\ spent' \subseteq 1 .. issued' /\ issued' \in Nat
        <5>1. session' = session
          BY <2>5 DEF RefreshToken
        <5>2. session \in {None} \union (1 .. issued) /\ spent \subseteq 1 .. issued
          BY <2>0 DEF SessionsTypes
        <5>3. issued' \in Nat
          BY <4>1
        <5>4. QED
          BY <5>1, <5>2, <5>3, <4>1, <4>2, Zenon
      <4>4. locked' \in BOOLEAN /\ holdup' \in BOOLEAN /\ lostToken' \in BOOLEAN /\ turnedAway' \in BOOLEAN
        BY <2>0, <2>5 DEF RefreshToken, SessionsTypes
      <4>5. QED
        BY <4>3, <4>4 DEF SessionsTypes
    <3>3. req' \in [Handlers -> SessionReq]
      BY <2>0, <3>1 DEF Moved, SessionsTypes, SessionsTokens, SessionReq
    <3>4. \A g \in Handlers : At(g, "refresh")' => req'[g].token \in 1 .. issued'
      BY <2>0, <3>1 DEF Moved, SessionsTypes, SessionsTokens
    <3>5. FreshTokens'
      <4>1. SUFFICES ASSUME NEW f \in Handlers, Holds(f)'
                     PROVE  /\ req'[f].token \in 1 .. issued' /\ req'[f].token \notin spent' /\ req'[f].token # session'
                            /\ \A g \in Handlers : (Holds(g) \/ At(g, "refresh"))' /\ req'[g].token = req'[f].token
                                                     => g = f
        BY DEF FreshTokens, Holds
      <4>2. CASE f = h
        BY <4>2, <2>0, <2>5, <3>1, NoneAssumption
        DEF RefreshToken, Moved, SessionsTypes, SessionsTokens, FreshTokens, Holds
      <4>3. CASE f # h
        BY <4>1, <4>3, <2>0, <2>5, <3>1 DEF RefreshToken, Moved, SessionsTypes, SessionsTokens, FreshTokens, Holds
      <4>4. QED
        BY <4>2, <4>3
    <3>6. TokensCounted'
      <4>1. ToTrade' \subseteq ToTrade \ {h} /\ h \in ToTrade
        BY <3>1 DEF Moved, ToTrade
      <4>2. QED
        BY <4>1, <3>1, <2>0, <2>1, <2>5, HandlerSets DEF TokensCounted, SessionsTypes, RefreshToken
    <3>7. QED
      BY <3>2, <3>3, <3>4, <3>5, <3>6 DEF SessionsTokens
  \* A handler reads the session.
  <2>6. ASSUME NEW h \in Handlers, At(h, "get"), session # None,
               Moved(h, [at |-> "refresh", token |-> session]), requests' = requests, UNCHANGED sessionVars
        PROVE  SessionsTypes' /\ SessionsTokens' /\ TokensCounted'
    <3>1. SessionsTypes' /\ session \in 1 .. issued
      BY <2>0, <2>6 DEF sessionVars, SessionsTypes
    <3>2. req' \in [Handlers -> SessionReq]
      BY <2>0, <2>6, <3>1 DEF Moved, SessionsTypes, SessionsTokens, SessionReq
    <3>3. FreshTokens' /\ \A g \in Handlers : At(g, "refresh")' => req'[g].token \in 1 .. issued'
      BY <2>0, <2>6, <3>1 DEF sessionVars, Moved, SessionsTokens, FreshTokens, Holds
    <3>4. TokensCounted'
      <4>1. ToTrade' \subseteq ToTrade
        BY <2>6 DEF Moved, ToTrade
      <4>2. QED
        BY <4>1, <2>0, <2>1, <2>6, HandlerSets DEF TokensCounted, SessionsTypes, sessionVars
    <3>5. QED
      BY <3>1, <3>2, <3>3, <3>4 DEF SessionsTokens
  \* A handler ends, and may have stored the token it had or done away with the session.
  <2>7. ASSUME NEW h \in Handlers, Moved(h, Idle), requests' \in {requests, requests + 1},
               session' \in {session, None} \union {req[g].token : g \in {g \in {h} : Holds(g)}},
               UNCHANGED <<spent, issued>>
        PROVE  SessionsTokens' /\ TokensCounted' /\ session' \in {None} \union (1 .. issued)
    <3>1. req' \in [Handlers -> SessionReq]
      BY <2>0, <2>7 DEF Moved, SessionsTokens, SessionReq
    <3>2. FreshTokens' /\ \A g \in Handlers : At(g, "refresh")' => req'[g].token \in 1 .. issued'
      BY <2>0, <2>7, IdleIsIdle, NoneAssumption DEF Moved, SessionsTypes, SessionsTokens, FreshTokens, Holds
    <3>3. TokensCounted'
      <4>1. ToTrade' \subseteq ToTrade
        BY <2>7, IdleIsIdle DEF Moved, ToTrade
      <4>2. QED
        BY <4>1, <2>0, <2>1, <2>7, HandlerSets DEF TokensCounted, SessionsTypes
    <3>4. session' \in {None} \union (1 .. issued)
      BY <2>0, <2>7 DEF SessionsTypes, SessionsTokens, FreshTokens, Holds
    <3>5. QED
      BY <3>1, <3>2, <3>3, <3>4 DEF SessionsTokens
  <2>8. ASSUME NEW h \in Handlers,
               \/ SaveSession(h) \/ Logout(h) \/ RefuseToken(h) \/ StoreSession(h) \/ FailSession(h)
        PROVE  SessionsTypes' /\ SessionsTokens' /\ TokensCounted'
    <3>1. Moved(h, Idle) /\ requests' \in {requests, requests + 1}
      BY <2>0, <2>8, Moves DEF SaveSession, Logout, RefuseToken, StoreSession, FailSession, SessionsTokens
    <3>2. /\ session' \in {session, None} \union {req[g].token : g \in {g \in {h} : Holds(g)}}
          /\ UNCHANGED <<spent, issued>>
      BY <2>8 DEF SaveSession, Logout, RefuseToken, StoreSession, FailSession, Holds
    <3>3. locked' \in BOOLEAN /\ holdup' \in BOOLEAN /\ lostToken' \in BOOLEAN /\ turnedAway' \in BOOLEAN
      BY <2>0, <2>8 DEF SaveSession, Logout, RefuseToken, StoreSession, FailSession, SessionsTypes
    <3>4. QED
      BY <3>1, <3>2, <3>3, <2>0, <2>7 DEF SessionsTypes
  <2>9. ASSUME NEW h \in Handlers, GetSession(h) PROVE SessionsTypes' /\ SessionsTokens' /\ TokensCounted'
    <3>1. CASE End(h)
      <4>1. Moved(h, Idle) /\ requests' = requests
        BY <2>0, <3>1, Moves DEF SessionsTokens
      <4>2. UNCHANGED sessionVars
        BY <2>9 DEF GetSession
      <4>3. QED
        BY <4>1, <4>2, <2>0, <2>7 DEF SessionsTypes, sessionVars
    <3>2. CASE ~End(h)
      <4>1. /\ At(h, "get") /\ session # None /\ UNCHANGED sessionVars
            /\ req' = [req EXCEPT ![h] = [at |-> "refresh", token |-> session]] /\ requests' = requests
        BY <2>9, <3>2 DEF GetSession
      <4>2. Moved(h, [at |-> "refresh", token |-> session])
        BY <4>1, <2>0, Moves DEF SessionsTokens
      <4>3. QED
        BY <4>1, <4>2, <2>6
    <3>3. QED
      BY <3>1, <3>2
  <2>10. ASSUME SessionsTypes', SessionsTokens', TokensCounted' PROVE SessionsInv'
    BY <2>10, <2>0, <2>1, HandlerSets, Following DEF SessionsInv, SessionsTypes, TokensCounted, BaseInv
  <2>11. QED
    BY <1>2, <2>2, <2>3, <2>4, <2>5, <2>8, <2>9, <2>10 DEF SessionsNext
<1>3. QED
  BY <1>1, <1>2, Following

LEMMA ReloadsStep == ReloadsInv /\ SessionsInv /\ BaseInv /\ [Next]_vars => ReloadsInv'
<1> SUFFICES ASSUME ReloadsInv, SessionsInv, BaseInv, [Next]_vars, about' = "sessions", ~holdup', ~lostToken'
             PROVE  Unspent'
  BY DEF ReloadsInv
<1> USE DEF At
<1>1. CASE UNCHANGED sessionVars /\ (about = "sessions" => UNCHANGED base)
  BY <1>1, Following DEF ReloadsInv, Unspent, Reloading, sessionVars, base
<1>2. CASE about = "sessions" /\ SessionsNext
  <2>0. /\ SessionsTypes /\ SessionsTokens /\ None \notin spent
        /\ \A h \in Handlers : Holds(h) => req[h].token \notin spent
    <3>1. SessionsTypes /\ SessionsTokens
      BY <1>2 DEF SessionsInv
    <3>2. None \notin spent
      <4>1. spent \subseteq 1 .. issued /\ None \notin 1 .. issued
        BY <3>1, NoneAssumption DEF SessionsTypes
      <4>2. QED
        BY <4>1
    <3>3. ASSUME NEW h \in Handlers, Holds(h) PROVE req[h].token \notin spent
      BY <3>1, <3>3 DEF SessionsTokens, FreshTokens
    <3>4. QED
      BY <3>1, <3>2, <3>3
  <2> HIDE DEF At
  <2>1. CASE KeyExpires
    <3>1. ~Reloading /\ ~holdup /\ ~lostToken
      BY <2>1 DEF KeyExpires
    <3>2. Unspent
      BY <3>1, <1>2 DEF ReloadsInv
    <3>3. QED
      BY <2>1, <3>1, <3>2 DEF KeyExpires, Unspent, Reloading, At, base
  <2>2. CASE SessionExpires
    BY <2>0, <2>2, <1>2 DEF SessionExpires, ReloadsInv, Unspent, Reloading, At, base
  <2>3. ASSUME NEW h \in Handlers, BeginCallback(h) PROVE Unspent'
    <3>1. Moved(h, [at |-> "save", token |-> issued + 1]) /\ req[h] = Idle
      BY <2>0, <2>3, Moves DEF SessionsTokens, BeginCallback
    <3>2. QED
      BY <2>0, <2>3, <3>1, <1>2, IdleIsIdle DEF BeginCallback, ReloadsInv, Unspent, Reloading, At, Moved
  <2>4. ASSUME NEW h \in Handlers, BeginReload(h) PROVE Unspent'
    <3>1. Moved(h, [at |-> "get"]) /\ req[h] = Idle
      BY <2>0, <2>4, Moves DEF SessionsTokens, BeginReload
    <3>2. Unspent /\ ~Reloading
      BY <2>4, <1>2 DEF BeginReload, TakeKey, ReloadsInv, Unspent
    <3>3. QED
      BY <2>0, <2>4, <3>1, <3>2, <1>2, IdleIsIdle DEF BeginReload, TakeKey, Unspent, Reloading, At, Moved
  <2>5. ASSUME NEW h \in Handlers, RefreshToken(h) PROVE Unspent'
    <3>1. Moved(h, [at |-> "store", token |-> issued + 1]) /\ req[h].at = "refresh"
      BY <2>0, <2>5, Moves DEF SessionsTokens, RefreshToken, At
    <3>2. Unspent
      BY <2>5, <1>2 DEF RefreshToken, ReloadsInv
    <3>3. QED
      BY <2>0, <2>5, <3>1, <3>2 DEF RefreshToken, Unspent, Reloading, At, Moved
  <2>6. ASSUME NEW h \in Handlers, At(h, "get"), Moved(h, [at |-> "refresh", token |-> session]),
               UNCHANGED sessionVars
        PROVE  Unspent'
    <3>1. Unspent
      BY <2>6, <1>2 DEF ReloadsInv, sessionVars
    <3>2. session \notin spent
      BY <3>1, <2>6 DEF Unspent, At
    <3>3. QED
      BY <2>6, <3>1, <3>2 DEF Unspent, Reloading, At, Moved, sessionVars
  \* A handler ends, but not between its trade and the store.
  <2>7. ASSUME NEW h \in Handlers, Moved(h, Idle), Unspent,
               session' \in {session, None} \union {req[g].token : g \in {g \in {h} : Holds(g)}},
               At(h, "store") => session' # session \/ session' \notin spent,
               UNCHANGED <<spent, locked>>, ~turnedAway'
        PROVE  Unspent'
    <3>1. session' \in spent => \E g \in Handlers : At(g, "store")'
      BY <2>0, <2>7 DEF Unspent, At, Moved
    <3>2. QED
      BY <2>7, <3>1, IdleIsIdle DEF Unspent, Reloading, At, Moved
  <2>8. ASSUME NEW h \in Handlers,
               \/ SaveSession(h) \/ Logout(h) \/ RefuseToken(h) \/ StoreSession(h) \/ FailSession(h)
        PROVE  Unspent'
    <3>1. Moved(h, Idle)
      BY <2>0, <2>8, Moves DEF SaveSession, Logout, RefuseToken, StoreSession, FailSession, SessionsTokens
    <3>2. /\ session' \in {session, None} \union {req[g].token : g \in {g \in {h} : Holds(g)}}
          /\ UNCHANGED <<spent, locked>>
      BY <2>8 DEF SaveSession, Logout, RefuseToken, StoreSession, FailSession, Holds
    <3>3. Unspent
      BY <2>8, <1>2 DEF SaveSession, Logout, RefuseToken, StoreSession, FailSession, ReloadsInv
    <3>4. ~turnedAway'
      BY <2>8, <3>3 DEF SaveSession, Logout, RefuseToken, StoreSession, FailSession, Unspent, At
    <3>5. At(h, "store") => session' # session \/ session' \notin spent
      BY <2>0, <2>8, <1>2, IdleIsIdle
      DEF SaveSession, Logout, RefuseToken, StoreSession, FailSession, At, Holds, Begin
    <3>6. QED
      BY <3>1, <3>2, <3>3, <3>4, <3>5, <2>7
  <2>9. ASSUME NEW h \in Handlers, GetSession(h) PROVE Unspent'
    <3>1. At(h, "get") /\ UNCHANGED sessionVars /\ Unspent
      BY <2>9, <1>2 DEF GetSession, ReloadsInv, sessionVars
    <3>2. CASE End(h)
      <4>1. Moved(h, Idle)
        BY <2>0, <3>2, Moves DEF SessionsTokens
      <4>2. QED
        BY <4>1, <3>1, <2>7 DEF Unspent, sessionVars, At
    <3>3. CASE ~End(h)
      <4>1. req' = [req EXCEPT ![h] = [at |-> "refresh", token |-> session]]
        BY <2>9, <3>3 DEF GetSession
      <4>2. Moved(h, [at |-> "refresh", token |-> session])
        BY <4>1, <2>0, Moves DEF SessionsTokens
      <4>3. QED
        BY <4>2, <3>1, <2>6
    <3>4. QED
      BY <3>2, <3>3
  <2>10. QED
    BY <1>2, <2>1, <2>2, <2>3, <2>4, <2>5, <2>8, <2>9 DEF SessionsNext
<1>3. QED
  BY <1>1, <1>2, Following

LEMMA TurnedAwayStep == TurnedAwayInv /\ BaseInv /\ [Next]_vars => TurnedAwayInv'
  BY Following DEF TurnedAwayInv, sessionVars

LEMMA SessionsStart == ServicesInit => SessionsInv /\ ReloadsInv /\ TurnedAwayInv
<1> SUFFICES ASSUME ServicesInit PROVE SessionsInv /\ ReloadsInv /\ TurnedAwayInv
  OBVIOUS
<1> USE IdleIsIdle DEF ServicesInit, Init, SessionsInit, At
<1>1. SessionsTypes
  BY DEF SessionsTypes
<1>2. SessionsTokens
  BY DEF SessionsTokens, SessionReq, FreshTokens, Holds
<1>3. ToTrade = {}
  BY DEF ToTrade
<1>4. TokensCounted
  BY <1>3, FS_EmptySet DEF TokensCounted
<1>5. ReloadsInv
  BY NoneAssumption DEF ReloadsInv, Unspent, Reloading
<1>6. QED
  BY <1>1, <1>2, <1>4, <1>5, RequestsAssumption DEF SessionsInv, TurnedAwayInv

\* Nobody logs in again in vain, however many reloads, logins and expiries there are: the
\* key that ReloadGuilds sets holds off the second trade of a token, unless it ran out or
\* what was traded for was lost (reloadguilds.go).
THEOREM NobodyIsTurnedAway == Spec => []NobodyReauthenticatesInVain
<1>1. ServicesInit => BaseInv /\ SessionsInv /\ ReloadsInv /\ TurnedAwayInv
  BY SessionsStart, BaseStart
<1>2. /\ BaseInv /\ SessionsInv /\ ReloadsInv /\ TurnedAwayInv /\ [Next]_vars
      => (BaseInv /\ SessionsInv /\ ReloadsInv /\ TurnedAwayInv)'
  BY BaseStep, SessionsStep, ReloadsStep, TurnedAwayStep DEF Counts
<1>3. SessionsInv /\ ReloadsInv /\ TurnedAwayInv => NobodyReauthenticatesInVain
  BY DEF SessionsInv, SessionsTypes, ReloadsInv, TurnedAwayInv, Unspent, NobodyReauthenticatesInVain
<1>4. QED
  BY <1>1, <1>2, <1>3, PTL DEF Spec
----
(* Messages *)

MessageReq ==
    {Idle} \union [op : {"Send"}, at : {"webhook row", "webhook", "channel"}, id : Ids,
                   channel : {"open", "deleted", None}, hook : Webhooks \union {None}]

\* Requests that may still find the webhook unknown.
ToDrop == {h \in Handlers : At(h, "webhook row") \/ At(h, "webhook")}

MessagesTypes ==
    /\ webhook \in Webhooks \union {None} /\ live \subseteq Webhooks
    /\ channel \in {"open", "deleted", None}
    /\ dropping \in Nat
    /\ posted \in [Ids -> 0 .. 2]
    /\ answers \subseteq [id : Ids, ok : BOOLEAN] /\ unheard \subseteq Ids

\* A request drops one webhook at most.
DropsCounted == dropping + Cardinality(ToDrop) <= requests

MessagesInv ==
    /\ MessagesTypes
    /\ dropping <= MaxRequests
    /\ about = "messages" => req \in [Handlers -> MessageReq] /\ DropsCounted

\* What has become of the message of each request: of those that were answered, of those
\* that are to come, and of those that are under way.
AnswersTrue ==
    \A a \in answers : /\ a.id <= requests
                       /\ a.id \notin unheard => posted[a.id] = IF a.ok THEN 1 ELSE 0

NothingAhead == \A i \in Ids : i > requests => posted[i] = 0 /\ i \notin unheard

UnderWay(h) ==
    /\ req[h].id <= requests
    /\ \A a \in answers : a.id # req[h].id
    /\ \A g \in Handlers : req[g] # Idle /\ req[g].id = req[h].id => g = h
    /\ posted[req[h].id] = IF req[h].id \in unheard THEN 1 ELSE 0
    /\ req[h].at # "channel" => req[h].id \notin unheard

Sent == AnswersTrue /\ NothingAhead /\ \A h \in Handlers : req[h] # Idle => UnderWay(h)

SentInv == (about = "messages" => Sent) /\ (about # "messages" => answers = {})

LEMMA NextId ==
    ASSUME requests \in Nat, MaxRequests \in Nat, requests < MaxRequests
    PROVE  requests + 1 \in Ids /\ requests + 1 \in Nat /\ requests + 1 > requests
  BY DEF Ids

Turned(q, at, w) == [q EXCEPT !.at = at, !.hook = w]

LEMMA TurnMoves ==
    ASSUME req \in [Handlers -> MessageReq], NEW h \in Handlers, NEW at, NEW w, Turn(h, at, w)
    PROVE  Moved(h, Turned(req[h], at, w)) /\ requests' = requests /\ about' = about
  BY DEF Moved, Turned, Turn

LEMMA MessagesStep == MessagesInv /\ SentInv /\ BaseInv /\ [Next]_vars => MessagesInv' /\ SentInv'
<1> SUFFICES ASSUME MessagesInv, SentInv, BaseInv, [Next]_vars PROVE MessagesInv' /\ SentInv'
  OBVIOUS
<1>1. CASE UNCHANGED messageVars /\ (about = "messages" => UNCHANGED base)
  <2>1. MessagesInv'
    BY <1>1, Following DEF MessagesInv, MessagesTypes, DropsCounted, ToDrop, At, messageVars, base
  <2>2. SentInv'
    BY <1>1, Following DEF SentInv, Sent, AnswersTrue, NothingAhead, UnderWay, messageVars, base
  <2>3. QED
    BY <2>1, <2>2
<1>2. CASE about = "messages" /\ MessagesNext
  <2>0. /\ MessagesTypes /\ req \in [Handlers -> MessageReq] /\ DropsCounted /\ Sent
        /\ requests \in Nat /\ requests <= MaxRequests /\ MaxRequests \in Nat /\ about' = "messages"
    BY <1>2, Following, RequestsAssumption DEF MessagesInv, SentInv, BaseInv
  <2>00. requests' \in Nat
    BY Following, RequestsAssumption DEF BaseInv
  <2>1. ToDrop \subseteq Handlers /\ ToDrop' \subseteq Handlers
    BY DEF ToDrop
  <2>2. ASSUME NEW h \in Handlers, req[h] # Idle
        PROVE  /\ req[h].at \in {"webhook row", "webhook", "channel"} /\ req[h].id \in Ids
               /\ req[h].channel \in {"open", "deleted", None} /\ UnderWay(h)
    BY <2>0, <2>2 DEF MessageReq, Sent
  <2>a. ASSUME NEW a \in answers PROVE a.id \in Nat /\ a.id <= requests
    <3>1. a.id \in Ids
      BY <2>0 DEF MessagesTypes
    <3>2. QED
      BY <3>1, <2>0 DEF Sent, AnswersTrue, Ids
  <2>b. ASSUME NEW h \in Handlers, req[h] # Idle PROVE req[h].id \in Nat /\ req[h].id <= requests
    <3>1. req[h].id \in Ids /\ UnderWay(h)
      BY <2>b, <2>2
    <3>2. QED
      BY <3>1 DEF UnderWay, Ids
  <2>3. ASSUME MessagesTypes', req' \in [Handlers -> MessageReq], DropsCounted', Sent'
        PROVE  MessagesInv' /\ SentInv'
    BY <2>3, <2>0, <2>1, HandlerSets, Following DEF MessagesInv, SentInv, MessagesTypes, DropsCounted, BaseInv
  \* The webhook, the channel and the goroutines that drop the row.
  <2>4. CASE DropWebhook \/ Surroundings
    <3>1. /\ req' = req /\ requests' = requests /\ posted' = posted /\ answers' = answers /\ unheard' = unheard
          /\ webhook' \in Webhooks \union {None} /\ live' \subseteq Webhooks
          /\ channel' \in {channel, "deleted"} /\ dropping' \in Nat /\ dropping' <= dropping
      BY <2>0, <2>4 DEF DropWebhook, Surroundings, NewWebhooks, MessagesTypes, base
    <3>2. MessagesTypes' /\ ToDrop' = ToDrop
      BY <2>0, <3>1 DEF MessagesTypes, ToDrop, At
    <3>3. DropsCounted'
      BY <2>0, <2>1, <3>1, <3>2, HandlerSets DEF DropsCounted, MessagesTypes
    <3>4. Sent'
      BY <2>0, <3>1 DEF Sent, AnswersTrue, NothingAhead, UnderWay
    <3>5. QED
      BY <3>1, <3>2, <3>3, <3>4, <2>0, <2>3
  <2>5. ASSUME NEW h \in Handlers, BeginSend(h) PROVE MessagesInv' /\ SentInv'
    <3> DEFINE r == [op |-> "Send", at |-> "webhook row", id |-> requests + 1, channel |-> channel,
                 hook |-> None]
    <3>1. /\ Moved(h, r) /\ req[h] = Idle /\ requests < MaxRequests /\ requests' = requests + 1
          /\ UNCHANGED <<webhook, live, channel, dropping, posted, answers, unheard>>
      BY <2>0, <2>5, Moves DEF BeginSend, messageVars
    <3>2. r \in MessageReq /\ r # Idle /\ r.id = requests + 1 /\ r.at = "webhook row" /\ r.id \in Ids
      <4>1. requests + 1 \in Ids
        BY <2>0, <3>1, NextId
      <4>2. channel \in {"open", "deleted", None}
        BY <2>0 DEF MessagesTypes
      <4>3. r.id = requests + 1 /\ r.at = "webhook row" /\ r.id \in Ids
        BY <4>1
      <4>4. r \in MessageReq
        BY <4>1, <4>2 DEF MessageReq
      <4> HIDE DEF r
      <4>5. QED
        BY <4>3, <4>4, IdleIsIdle
    <3> HIDE DEF r
    <3>3. MessagesTypes' /\ req' \in [Handlers -> MessageReq]
      BY <2>0, <3>1, <3>2 DEF MessagesTypes, Moved
    <3>4. DropsCounted'
      <4>1. ToDrop' \subseteq ToDrop \union {h}
        BY <3>1 DEF ToDrop, Moved, At
      <4>2. QED
        BY <4>1, <2>0, <2>1, <3>1, HandlerSets DEF DropsCounted, MessagesTypes
    <3>5. AnswersTrue' /\ NothingAhead'
      <4>1. AnswersTrue'
        BY <2>a, <2>0, <3>1 DEF Sent, AnswersTrue
      <4>2. NothingAhead'
        BY <2>0, <3>1 DEF Sent, NothingAhead, Ids
      <4>3. QED
        BY <4>1, <4>2
    <3>6. ASSUME NEW g \in Handlers, req'[g] # Idle PROVE UnderWay(g)'
      <4>1. CASE g = h
        <5>1. \A a \in answers : a.id # requests + 1
          BY <2>a, <2>0
        <5>2. \A f \in Handlers : req[f] # Idle => req[f].id # requests + 1
          BY <2>b, <2>0
        <5>3. posted[requests + 1] = 0 /\ requests + 1 \notin unheard
          <6>1. requests + 1 \in Ids /\ requests + 1 > requests
            BY <2>0, <3>1, NextId
          <6>2. QED
            BY <6>1, <2>0 DEF Sent, NothingAhead
        <5>4. req'[h] = r /\ \A f \in Handlers : f # h => req'[f] = req[f]
          BY <3>1 DEF Moved
        <5>5. r.id = requests' /\ r.id <= requests' /\ r.id = requests + 1 /\ r.at = "webhook row"
          <6>1. r.id = requests + 1 /\ requests' = requests + 1 /\ r.at = "webhook row"
            BY <3>1, <3>2
          <6>3. r.id = requests'
            BY <6>1, Zenon
          <6>4. requests' <= requests'
            BY <2>00
          <6>5. QED
            BY <6>1, <6>3, <6>4, Zenon
        <5>6. /\ posted' = posted /\ answers' = answers /\ unheard' = unheard
              /\ \A a \in answers : a.id # r.id
              /\ \A f \in Handlers : req'[f] # Idle /\ req'[f].id = r.id => f = h
              /\ posted[r.id] = 0 /\ r.id \notin unheard
          BY <5>1, <5>2, <5>3, <5>4, <5>5, <3>1
        <5>7. QED
          BY <4>1, <5>4, <5>5, <5>6 DEF UnderWay
      <4>2. CASE g # h
        <5>1. req'[g] = req[g] /\ req[g] # Idle
          BY <4>2, <3>1, <3>6 DEF Moved
        <5>2. UnderWay(g)
          BY <5>1, <2>2
        <5>3. req[g].id \in Nat /\ req[g].id <= requests
          BY <5>1, <2>b
        <5>4. req[g].id # r.id /\ req[g].id <= requests'
          <6>1. r.id = requests + 1 /\ requests' = requests + 1 /\ requests \in Nat
            BY <3>1, <3>2, <2>0
          <6>2. QED
            BY <6>1, <5>3
        <5>5. req'[h] = r /\ \A f \in Handlers : f # h => req'[f] = req[f]
          BY <3>1 DEF Moved
        <5>6. QED
          BY <4>2, <5>1, <5>2, <5>4, <5>5, <3>1, <3>2 DEF UnderWay
      <4>3. QED
        BY <4>1, <4>2
    <3>7. QED
      BY <3>3, <3>4, <3>5, <3>6, <2>3 DEF Sent
  \* A request goes on to the webhook or to the channel.
  <2>6. ASSUME NEW h \in Handlers, NEW at \in {"webhook", "channel"}, NEW w \in Webhooks \union {None},
               req[h] # Idle, req[h].at # "channel", Turn(h, at, w), UNCHANGED <<webhook, live, channel, answers>>,
               \/ UNCHANGED <<posted, unheard>>
               \/ Post(h) /\ unheard' = unheard \union {req[h].id} /\ at = "channel",
               \/ dropping' = dropping
               \/ dropping' = dropping + 1 /\ at = "channel"
        PROVE  MessagesInv' /\ SentInv'
    <3> DEFINE id == req[h].id
               r == Turned(req[h], at, w)
    <3>1. Moved(h, r) /\ requests' = requests
      BY <2>0, <2>6, TurnMoves
    <3>2. r \in MessageReq /\ r # Idle /\ r.id = id /\ r.at = at
      <4>1. req[h] \in MessageReq /\ req[h] # Idle /\ at \in {"webhook row", "webhook", "channel"}
        BY <2>0, <2>6
      <4>2. w \in Webhooks \union {None}
        OBVIOUS
      <4>3. QED
        BY <4>1, <4>2, IdleIsIdle DEF MessageReq, Turned
    <3>3. id \in Ids /\ id \in Nat /\ id <= requests /\ UnderWay(h) /\ posted[id] = 0 /\ id \notin unheard
      <4>1. UnderWay(h) /\ id \in Ids /\ id \in Nat /\ id <= requests
        BY <2>2, <2>b, <2>6
      <4>2. QED
        BY <4>1, <2>6 DEF UnderWay
    <3> HIDE DEF r
    <3>4. /\ \A i \in Ids : i # id => posted'[i] = posted[i] /\ (i \in unheard' <=> i \in unheard)
          /\ posted'[id] = IF id \in unheard' THEN 1 ELSE 0
          /\ at # "channel" => id \notin unheard'
          /\ posted' \in [Ids -> 0 .. 2] /\ unheard' \subseteq Ids
      <4>1. CASE UNCHANGED <<posted, unheard>>
        BY <4>1, <2>0, <3>3 DEF MessagesTypes
      <4>2. CASE Post(h) /\ unheard' = unheard \union {id} /\ at = "channel"
        <5>1. posted' = [posted EXCEPT ![id] = 1] /\ posted \in [Ids -> 0 .. 2]
          BY <4>2, <2>0, <3>3 DEF MessagesTypes, Post
        <5>2. QED
          BY <5>1, <4>2, <2>0, <3>3 DEF MessagesTypes
      <4>3. QED
        BY <4>1, <4>2, <2>6
    <3> HIDE DEF id
    <3>5. MessagesTypes' /\ req' \in [Handlers -> MessageReq]
      BY <2>0, <2>6, <3>1, <3>2, <3>4 DEF MessagesTypes, Moved
    <3>6. DropsCounted'
      <4>1. CASE dropping' = dropping
        <5>1. ToDrop' \subseteq ToDrop
          BY <2>2, <2>6, <3>1 DEF ToDrop, Moved, At
        <5>2. QED
          BY <4>1, <5>1, <2>0, <2>1, <3>1, HandlerSets DEF DropsCounted, MessagesTypes
      <4>2. CASE dropping' = dropping + 1 /\ at = "channel"
        <5>1. ToDrop' \subseteq ToDrop \ {h} /\ h \in ToDrop
          BY <4>2, <2>2, <2>6, <3>1, <3>2 DEF ToDrop, Moved, At
        <5>2. QED
          BY <4>2, <5>1, <2>0, <2>1, <3>1, HandlerSets DEF DropsCounted, MessagesTypes
      <4>3. QED
        BY <4>1, <4>2, <2>6
    <3>7. AnswersTrue'
      <4>1. SUFFICES ASSUME NEW a \in answers
                     PROVE  a.id <= requests /\ (a.id \notin unheard' => posted'[a.id] = IF a.ok THEN 1 ELSE 0)
        BY <2>6, <3>1 DEF AnswersTrue
      <4>2. a.id \in Ids /\ a.id # id
        BY <2>0, <3>3 DEF MessagesTypes, UnderWay, id
      <4>3. QED
        BY <4>2, <2>0, <3>4 DEF Sent, AnswersTrue
    <3>8. NothingAhead'
      BY <2>0, <3>1, <3>3, <3>4 DEF Sent, NothingAhead
    <3>9. ASSUME NEW g \in Handlers, req'[g] # Idle PROVE UnderWay(g)'
      <4>1. req'[h] = r /\ \A f \in Handlers : f # h => req'[f] = req[f]
        BY <3>1 DEF Moved
      <4>2. CASE g = h
        BY <4>1, <4>2, <2>6, <3>1, <3>2, <3>3, <3>4 DEF UnderWay, id
      <4>3. CASE g # h
        <5>1. UnderWay(g) /\ req'[g] = req[g] /\ req[g].id \in Ids /\ req[g] # Idle
          BY <4>1, <4>3, <3>9, <2>2
        <5>2. req[g].id # id
          BY <5>1, <3>3, <4>3 DEF UnderWay, id
        <5>3. QED
          BY <5>1, <5>2, <4>1, <4>3, <2>6, <3>1, <3>2, <3>4 DEF UnderWay
      <4>4. QED
        BY <4>2, <4>3
    <3>10. QED
      BY <3>5, <3>6, <3>7, <3>8, <3>9, <2>3 DEF Sent
  \* A request is answered.
  <2>7. ASSUME NEW h \in Handlers, NEW ok \in BOOLEAN, req[h] # Idle, AnswerRequest(h, ok),
               UNCHANGED <<webhook, live, channel, dropping>>,
               \/ UNCHANGED <<posted, unheard>> /\ ~ok
               \/ Post(h) /\ unheard' = unheard /\ ok
               \/ Post(h) /\ unheard' = unheard \union {req[h].id} /\ ~ok
        PROVE  MessagesInv' /\ SentInv'
    <3> DEFINE id == req[h].id
    <3>1. Moved(h, Idle) /\ requests' = requests /\ answers' = answers \union {[id |-> id, ok |-> ok]}
      BY <2>0, <2>7, Moves DEF AnswerRequest
    <3>2. /\ id \in Ids /\ id \in Nat /\ id <= requests /\ UnderWay(h)
          /\ posted[id] = IF id \in unheard THEN 1 ELSE 0
      <4>1. UnderWay(h) /\ id \in Ids /\ id \in Nat /\ id <= requests
        BY <2>2, <2>b, <2>7
      <4>2. QED
        BY <4>1 DEF UnderWay
    <3>3. /\ \A i \in Ids : i # id => posted'[i] = posted[i] /\ (i \in unheard' <=> i \in unheard)
          /\ id \notin unheard' => posted'[id] = IF ok THEN 1 ELSE 0
          /\ posted' \in [Ids -> 0 .. 2] /\ unheard' \subseteq Ids
      <4>1. CASE UNCHANGED <<posted, unheard>> /\ ~ok
        BY <4>1, <2>0, <3>2 DEF MessagesTypes
      <4>2. CASE Post(h) /\ unheard' \in {unheard, unheard \union {id}} /\ (ok => unheard' = unheard)
                   /\ (~ok => id \in unheard')
        <5>1. posted \in [Ids -> 0 .. 2] /\ posted[id] \in {0, 1} /\ posted' = [posted EXCEPT ![id] = posted[id] + 1]
          BY <4>2, <2>0, <3>2 DEF MessagesTypes, Post
        <5>2. posted' \in [Ids -> 0 .. 2] /\ posted'[id] = posted[id] + 1
          BY <5>1, <3>2
        <5>3. \A i \in Ids : i # id => posted'[i] = posted[i] /\ (i \in unheard' <=> i \in unheard)
          BY <5>1, <4>2, <3>2
        <5>4. id \notin unheard' => posted'[id] = IF ok THEN 1 ELSE 0
          BY <5>2, <4>2, <3>2
        <5>5. QED
          BY <5>2, <5>3, <5>4, <4>2, <2>0, <3>2 DEF MessagesTypes
      <4>3. QED
        BY <4>1, <4>2, <2>7
    <3> HIDE DEF id
    <3>4. MessagesTypes' /\ req' \in [Handlers -> MessageReq]
      <4>1. [id |-> id, ok |-> ok] \in [id : Ids, ok : BOOLEAN]
        BY <3>2
      <4>2. QED
        BY <4>1, <2>0, <2>7, <3>1, <3>3 DEF MessagesTypes, Moved, MessageReq
    <3>5. DropsCounted'
      <4>1. ToDrop' \subseteq ToDrop
        BY <3>1, IdleIsIdle DEF ToDrop, Moved, At
      <4>2. QED
        BY <4>1, <2>0, <2>1, <2>7, <3>1, HandlerSets DEF DropsCounted, MessagesTypes
    <3>6. AnswersTrue'
      <4>1. SUFFICES ASSUME NEW a \in answers'
                     PROVE  a.id <= requests /\ (a.id \notin unheard' => posted'[a.id] = IF a.ok THEN 1 ELSE 0)
        BY <3>1 DEF AnswersTrue
      <4>2. CASE a \in answers
        <5>1. a.id \in Ids /\ a.id # id
          BY <4>2, <2>0, <3>2 DEF MessagesTypes, UnderWay, id
        <5>2. QED
          BY <4>2, <5>1, <2>0, <3>3 DEF Sent, AnswersTrue
      <4>3. CASE a = [id |-> id, ok |-> ok]
        BY <4>3, <3>2, <3>3
      <4>4. QED
        BY <4>2, <4>3, <3>1
    <3>7. NothingAhead'
      BY <2>0, <3>1, <3>2, <3>3 DEF Sent, NothingAhead
    <3>8. ASSUME NEW g \in Handlers, req'[g] # Idle PROVE UnderWay(g)'
      <4>1. req'[h] = Idle /\ \A f \in Handlers : f # h => req'[f] = req[f]
        BY <3>1 DEF Moved
      <4>2. g # h /\ UnderWay(g) /\ req'[g] = req[g] /\ req[g].id \in Ids /\ req[g] # Idle
        BY <4>1, <3>8, <2>2
      <4>3. req[g].id # id
        BY <4>2, <3>2 DEF UnderWay, id
      <4>4. \A a \in answers' : a.id # req[g].id
        BY <4>2, <4>3, <3>1 DEF UnderWay
      <4>5. QED
        BY <4>1, <4>2, <4>3, <4>4, <3>1, <3>3 DEF UnderWay
    <3>9. QED
      BY <3>4, <3>5, <3>6, <3>7, <3>8, <2>3 DEF Sent
  <2>8. ASSUME NEW h \in Handlers,
               GetWebhook(h) \/ WebhookRefused(h) \/ WebhookFails(h)
        PROVE  MessagesInv' /\ SentInv'
    <3>1. CASE GetWebhook(h)
      BY <3>1, <2>0, <2>6, IdleIsIdle DEF GetWebhook, At, messageVars, MessagesTypes
    <3>2. CASE WebhookRefused(h)
      BY <3>2, <2>6, IdleIsIdle DEF WebhookRefused, At
    <3>3. CASE WebhookFails(h)
      BY <3>3, <2>6, IdleIsIdle DEF WebhookFails, At
    <3>4. QED
      BY <2>8, <3>1, <3>2, <3>3
  <2>9. ASSUME NEW h \in Handlers,
               ExecuteWebhook(h) \/ CreateMessage(h) \/ MessageFails(h) \/ SendFails(h)
        PROVE  MessagesInv' /\ SentInv'
    <3>1. CASE ExecuteWebhook(h) \/ CreateMessage(h)
      BY <3>1, <2>7, IdleIsIdle DEF ExecuteWebhook, CreateMessage, At
    <3>2. CASE MessageFails(h) \/ SendFails(h)
      BY <3>2, <2>7, IdleIsIdle DEF MessageFails, SendFails, At
    <3>3. QED
      BY <2>9, <3>1, <3>2
  <2>10. QED
    BY <1>2, <2>4, <2>5, <2>8, <2>9 DEF MessagesNext
<1>3. QED
  BY <1>1, <1>2, Following

LEMMA MessagesStart == ServicesInit => MessagesInv /\ SentInv
<1> SUFFICES ASSUME ServicesInit PROVE MessagesInv /\ SentInv
  OBVIOUS
<1> USE IdleIsIdle DEF ServicesInit, Init, MessagesInit, At
<1>1. MessagesTypes /\ req \in [Handlers -> MessageReq]
  BY DEF MessagesTypes, MessageReq
<1>2. ToDrop = {}
  BY DEF ToDrop
<1>3. DropsCounted
  BY <1>2, FS_EmptySet DEF DropsCounted
<1>4. SentInv
  BY DEF SentInv, Sent, AnswersTrue, NothingAhead
<1>5. QED
  BY <1>1, <1>3, <1>4, RequestsAssumption DEF MessagesInv

\* A message that was answered with success is in the ticket once, and one that was
\* answered with an error is not, whatever becomes of the webhook, of its row and of the
\* channel while requests are under way (sendmessage.go, sendtag.go).
THEOREM AnswersAreTrue == Spec => []MessagesArePostedOnce
<1>1. ServicesInit => BaseInv /\ MessagesInv /\ SentInv
  BY MessagesStart, BaseStart
<1>2. BaseInv /\ MessagesInv /\ SentInv /\ [Next]_vars => (BaseInv /\ MessagesInv /\ SentInv)'
  BY BaseStep, MessagesStep DEF Counts
<1>3. SentInv => MessagesArePostedOnce
  BY DEF SentInv, Sent, AnswersTrue, MessagesArePostedOnce
<1>4. QED
  BY <1>1, <1>2, <1>3, PTL DEF Spec
----
(* Integrations *)

IntegrationType == [public : BOOLEAN, approved : BOOLEAN, of : {0} \union Ids]

IntegrationReq ==
    {Idle} \union [op : {"UpdateIntegration"}, at : {"row"}, id : Ids, was : IntegrationType]
           \union [op : {"UpdateIntegration"}, at : {"part"}, id : Ids, part : 1 .. 4]
           \union [op : {"SetPublic"}, at : {"request", "public"}]

IntegrationsInv ==
    /\ IntegrationsTypeOK
    /\ unsettled \in BOOLEAN
    /\ about = "integrations" => req \in [Handlers -> IntegrationReq]

\* An update that meets nobody stands on what it read, part by part.
GrantsStand ==
    /\ "public" \in granted => integration.public
    /\ "approved" \in granted => integration.approved

Whole == (\A p \in 1 .. 3 : parts[p] = answeredUpdate) /\ integration.of = answeredUpdate

Updates(h) == req[h] # Idle /\ req[h].op = "UpdateIntegration"

PartWay(h) ==
    /\ \A g \in Handlers : req[g] # Idle => g = h
    /\ req[h].at = "row" => req[h].was = integration /\ Whole
    /\ req[h].at = "part" =>
         integration.of = req[h].id /\ \A p \in 1 .. 3 : p < req[h].part => parts[p] = req[h].id

Settled ==
    /\ GrantsStand
    /\ ~Updating => Whole
    /\ \A h \in Handlers : Updates(h) => PartWay(h)

SettledInv == about = "integrations" /\ ~unsettled => Settled

LEMMA ThreeParts == Len(Parts) = 3
  BY DEF Parts

\* The requests there are: updates at their row or at a part, publications at two places.
LEMMA IntegrationReqs ==
    ASSUME NEW q \in IntegrationReq
    PROVE  /\ q.at \in {"idle", "row", "part", "request", "public"}
           /\ q = Idle <=> q.at = "idle"
           /\ q.at \in {"row", "part"} => q.op = "UpdateIntegration" /\ q.id \in Ids
           /\ q.at \in {"request", "public"} => q.op = "SetPublic"
           /\ q.at = "row" => q.was \in IntegrationType
           /\ q.at = "part" => q.part \in 1 .. 4
<1>1. CASE q = Idle
  BY <1>1, IdleIsIdle
<1>2. CASE q \in [op : {"UpdateIntegration"}, at : {"row"}, id : Ids, was : IntegrationType]
  BY <1>2, IdleIsIdle
<1>3. CASE q \in [op : {"UpdateIntegration"}, at : {"part"}, id : Ids, part : 1 .. 4]
  BY <1>3, IdleIsIdle
<1>4. CASE q \in [op : {"SetPublic"}, at : {"request", "public"}]
  BY <1>4, IdleIsIdle
<1>5. QED
  BY <1>1, <1>2, <1>3, <1>4 DEF IntegrationReq

LEMMA IntegrationsStep == IntegrationsInv /\ BaseInv /\ [Next]_vars => IntegrationsInv'
<1> SUFFICES ASSUME IntegrationsInv, BaseInv, [Next]_vars PROVE IntegrationsInv'
  OBVIOUS
<1>1. CASE UNCHANGED integrationVars /\ (about = "integrations" => UNCHANGED base)
  BY <1>1, Following DEF IntegrationsInv, IntegrationsTypeOK, integrationVars, base
<1>2. CASE about = "integrations" /\ IntegrationsNext
  <2>0. /\ IntegrationsTypeOK /\ unsettled \in BOOLEAN /\ req \in [Handlers -> IntegrationReq]
        /\ integration \in IntegrationType /\ parts \in [1 .. 3 -> {0} \union Ids]
        /\ requests \in Nat /\ MaxRequests \in Nat /\ about' = "integrations"
    BY <1>2, Following, RequestsAssumption DEF IntegrationsInv, BaseInv, IntegrationsTypeOK, IntegrationType
  <2>1. SUFFICES integration' \in IntegrationType /\ parts' \in [1 .. 3 -> {0} \union Ids]
                   /\ req' \in [Handlers -> IntegrationReq]
    <3>1. unsettled' \in BOOLEAN
      BY <1>2, <2>0
      DEF IntegrationsNext, BeginUpdate, UpdateRow, UpdatePart, AnswerUpdate, RefuseUpdate, BeginSetPublic,
          RequestPublication, SetPublic, Approve, integrationVars, Updating, Quiet, At
    <3>2. QED
      BY <2>1, <3>1, <2>0 DEF IntegrationsInv, IntegrationsTypeOK, IntegrationType
  <2>2. ASSUME NEW h \in Handlers, NEW r \in IntegrationReq, Moved(h, r) PROVE req' \in [Handlers -> IntegrationReq]
    BY <2>0, <2>2 DEF Moved
  <2>3. Idle \in IntegrationReq
    BY DEF IntegrationReq
  <2>4. CASE Approve
    BY <2>0, <2>4 DEF Approve, IntegrationType, base
  <2>5. ASSUME NEW h \in Handlers, BeginUpdate(h) PROVE req' \in [Handlers -> IntegrationReq]
    <3> DEFINE r == [op |-> "UpdateIntegration", at |-> "row", id |-> requests + 1, was |-> integration]
    <3>1. Moved(h, r) /\ requests < MaxRequests
      BY <2>0, <2>5, Moves DEF BeginUpdate
    <3>2. requests + 1 \in Ids
      BY <2>0, <3>1, NextId
    <3>3. r \in IntegrationReq
      BY <2>0, <3>2 DEF IntegrationReq
    <3>4. QED
      BY <3>1, <3>3, <2>2
  <2>6. ASSUME NEW h \in Handlers, UpdateRow(h)
        PROVE  integration' \in IntegrationType /\ req' \in [Handlers -> IntegrationReq]
    <3> DEFINE r == [op |-> req[h].op, at |-> "part", id |-> req[h].id, part |-> 1]
    <3>1. req[h] \in IntegrationReq /\ req[h].at = "row" /\ Moved(h, r)
      BY <2>0, <2>6, Moves DEF UpdateRow, At
    <3>2. req[h].op = "UpdateIntegration" /\ req[h].id \in Ids /\ req[h].was \in IntegrationType
      BY <3>1, IntegrationReqs
    <3>3. r \in IntegrationReq
      BY <3>2 DEF IntegrationReq
    <3>4. integration' \in IntegrationType
      BY <2>6, <3>2 DEF UpdateRow, Updated, IntegrationType
    <3>5. QED
      BY <3>1, <3>3, <3>4, <2>2
  <2>7. ASSUME NEW h \in Handlers, UpdatePart(h)
        PROVE  parts' \in [1 .. 3 -> {0} \union Ids] /\ req' \in [Handlers -> IntegrationReq]
    <3> DEFINE r == [req[h] EXCEPT !.part = @ + 1]
    <3>1. req[h] \in IntegrationReq /\ req[h].at = "part" /\ Moved(h, r) /\ req[h].part <= 3
      BY <2>0, <2>7, Moves, ThreeParts DEF UpdatePart, At
    <3>2. req[h].id \in Ids /\ req[h].part \in 1 .. 3 /\ req[h].part + 1 \in 1 .. 4
      BY <3>1, IntegrationReqs
    <3>3. req[h] \in [op : {"UpdateIntegration"}, at : {"part"}, id : Ids, part : 1 .. 4]
      BY <3>1, IdleIsIdle DEF IntegrationReq
    <3>4. r \in [op : {"UpdateIntegration"}, at : {"part"}, id : Ids, part : 1 .. 4]
      BY <3>2, <3>3
    <3>5. r \in IntegrationReq
      BY <3>4 DEF IntegrationReq
    <3>6. parts' \in [1 .. 3 -> {0} \union Ids]
      BY <2>0, <2>7, <3>2 DEF UpdatePart
    <3> HIDE DEF r
    <3>7. QED
      BY <3>1, <3>5, <3>6, <2>2
  <2>8. ASSUME NEW h \in Handlers, BeginSetPublic(h) PROVE req' \in [Handlers -> IntegrationReq]
    <3>1. Moved(h, [op |-> "SetPublic", at |-> "request"])
      BY <2>0, <2>8, Moves DEF BeginSetPublic
    <3>2. [op |-> "SetPublic", at |-> "request"] \in IntegrationReq
      BY DEF IntegrationReq
    <3>3. QED
      BY <3>1, <3>2, <2>2
  <2>9. ASSUME NEW h \in Handlers, RequestPublication(h) PROVE req' \in [Handlers -> IntegrationReq]
    <3>1. CASE End(h)
      BY <2>0, <2>2, <2>3, <3>1, Moves
    <3>2. CASE Goto(h, "public")
      <4>1. Moved(h, Gone(req[h], "public")) /\ req[h] \in IntegrationReq /\ req[h].at = "request"
        BY <2>0, <2>9, <3>2, Moves DEF RequestPublication, At
      <4>2. req[h] \in [op : {"SetPublic"}, at : {"request", "public"}]
        BY <4>1, IdleIsIdle DEF IntegrationReq
      <4>3. Gone(req[h], "public") \in [op : {"SetPublic"}, at : {"request", "public"}]
        BY <4>2 DEF Gone
      <4>4. Gone(req[h], "public") \in IntegrationReq
        BY <4>3 DEF IntegrationReq
      <4>5. QED
        BY <4>1, <4>4, <2>2
    <3>3. QED
      BY <2>9, <3>1, <3>2 DEF RequestPublication
  <2>10. ASSUME NEW h \in Handlers, AnswerUpdate(h) \/ RefuseUpdate(h) \/ SetPublic(h)
         PROVE  integration' \in IntegrationType /\ parts' = parts /\ req' \in [Handlers -> IntegrationReq]
    <3>1. End(h) /\ parts' = parts
      BY <2>10 DEF AnswerUpdate, RefuseUpdate, SetPublic
    <3>2. req' \in [Handlers -> IntegrationReq]
      BY <2>0, <2>2, <2>3, <3>1, Moves
    <3>3. integration' \in IntegrationType
      BY <2>0, <2>10 DEF AnswerUpdate, RefuseUpdate, SetPublic, IntegrationType
    <3>4. QED
      BY <3>1, <3>2, <3>3
  <2>11. QED
    <3>1. ASSUME NEW h \in Handlers, BeginUpdate(h) \/ BeginSetPublic(h) \/ RequestPublication(h)
          PROVE  UNCHANGED <<integration, parts>>
      BY <3>1 DEF BeginUpdate, BeginSetPublic, RequestPublication, integrationVars
    <3>2. ASSUME NEW h \in Handlers, UpdateRow(h) PROVE parts' = parts
      BY <3>2 DEF UpdateRow
    <3>3. ASSUME NEW h \in Handlers, UpdatePart(h) PROVE integration' = integration
      BY <3>3 DEF UpdatePart
    <3>4. CASE Approve
      BY <3>4, <2>0, <2>4 DEF Approve, base
    <3>5. ASSUME NEW h \in Handlers,
                 \/ BeginUpdate(h) \/ UpdateRow(h) \/ UpdatePart(h) \/ AnswerUpdate(h) \/ RefuseUpdate(h)
                 \/ BeginSetPublic(h) \/ RequestPublication(h) \/ SetPublic(h)
          PROVE  integration' \in IntegrationType /\ parts' \in [1 .. 3 -> {0} \union Ids]
                   /\ req' \in [Handlers -> IntegrationReq]
      BY <3>1, <3>2, <3>3, <3>5, <2>0, <2>5, <2>6, <2>7, <2>8, <2>9, <2>10
    <3>6. QED
      BY <1>2, <3>4, <3>5 DEF IntegrationsNext
<1>3. QED
  BY <1>1, <1>2, Following

LEMMA SettledStep == SettledInv /\ IntegrationsInv /\ BaseInv /\ [Next]_vars => SettledInv'
<1> SUFFICES ASSUME SettledInv, IntegrationsInv, BaseInv, [Next]_vars, about' = "integrations", ~unsettled'
             PROVE  Settled'
  BY DEF SettledInv
<1>1. CASE UNCHANGED integrationVars /\ (about = "integrations" => UNCHANGED base)
  BY <1>1, Following
  DEF SettledInv, Settled, GrantsStand, Updating, Updates, PartWay, Whole, integrationVars, base
<1>2. CASE about = "integrations" /\ IntegrationsNext
  <2>0. /\ req \in [Handlers -> IntegrationReq] /\ integration \in IntegrationType
        /\ parts \in [1 .. 3 -> {0} \union Ids]
    BY <1>2 DEF IntegrationsInv, IntegrationsTypeOK, IntegrationType
  <2>1. Updating <=> \E h \in Handlers : Updates(h)
    BY DEF Updating, Updates
  <2>2. Updating' <=> \E h \in Handlers : Updates(h)'
    BY DEF Updating, Updates
  <2>3. ASSUME NEW h \in Handlers
        PROVE  Updates(h) <=> req[h].at \in {"row", "part"}
    BY <2>0, IntegrationReqs DEF Updates
  \* A request that is not an update, beside no update.
  <2>4. ASSUME NEW h \in Handlers, NEW r, Moved(h, r), r # Idle => r.op # "UpdateIntegration",
               ~Updating, Whole', GrantsStand'
        PROVE  Settled'
    <3>1. ~Updating'
      BY <2>1, <2>2, <2>4 DEF Updates, Moved
    <3>2. QED
      BY <2>2, <2>4, <3>1 DEF Settled
  <2>5. CASE Approve
    <3>1. Settled /\ ~Updating /\ req' = req
      BY <1>2, <2>5 DEF Approve, SettledInv, base
    <3>2. GrantsStand'
      BY <2>0, <2>5, <3>1 DEF Approve, Settled, GrantsStand, IntegrationType
    <3>3. Whole'
      BY <2>0, <2>5, <3>1 DEF Approve, Settled, Whole, IntegrationType
    <3>4. ~Updating'
      BY <3>1 DEF Updating
    <3>5. QED
      BY <2>2, <3>2, <3>3, <3>4 DEF Settled
  <2>6. ASSUME NEW h \in Handlers, BeginUpdate(h) PROVE Settled'
    <3> DEFINE r == [op |-> "UpdateIntegration", at |-> "row", id |-> requests + 1, was |-> integration]
    <3>1. Moved(h, r) /\ Quiet /\ Settled /\ UNCHANGED <<integration, parts, granted, answeredUpdate>>
      BY <2>0, <2>6, <1>2, Moves DEF BeginUpdate, SettledInv
    <3>2. ~Updating
      BY <3>1 DEF Updating, Quiet
    <3>3. GrantsStand' /\ Whole /\ Whole'
      BY <3>1, <3>2 DEF Settled, GrantsStand, Whole
    <3>4. r # Idle /\ r.at = "row" /\ r.was = integration /\ r.op = "UpdateIntegration"
      <4>1. r.at = "row" /\ r.was = integration /\ r.op = "UpdateIntegration"
        OBVIOUS
      <4> HIDE DEF r
      <4>2. QED
        BY <4>1, IdleIsIdle
    <3> HIDE DEF r
    <3>5. req'[h] = r /\ \A g \in Handlers : g # h => req'[g] = Idle
      BY <3>1 DEF Moved, Quiet
    <3>6. ASSUME NEW g \in Handlers, Updates(g)' PROVE PartWay(g)'
      <4>1. g = h
        BY <3>5, <3>6 DEF Updates
      <4>2. QED
        BY <4>1, <3>1, <3>3, <3>4, <3>5 DEF PartWay
    <3>7. Updating'
      BY <3>4, <3>5 DEF Updating
    <3>8. QED
      BY <3>3, <3>6, <3>7 DEF Settled
  \* An update is alone; so it is on its way to the next part, or ends and leaves nobody.
  <2>7. ASSUME NEW h \in Handlers, Settled, req[h].at \in {"row", "part"}
        PROVE  Updates(h) /\ PartWay(h) /\ \A g \in Handlers : g # h => req[g] = Idle
    BY <2>3, <2>7 DEF Settled, PartWay
  <2>8. ASSUME NEW h \in Handlers, NEW r, Settled, req[h].at \in {"row", "part"}, Moved(h, r),
               r = Idle \/ r.op = "UpdateIntegration", r # Idle => PartWay(h)', r = Idle => Whole', GrantsStand'
        PROVE  Settled'
    <3>1. req'[h] = r /\ \A g \in Handlers : g # h => req'[g] = Idle
      BY <2>7, <2>8 DEF Moved
    <3>2. Updating' <=> r # Idle
      BY <2>8, <3>1 DEF Updating
    <3>3. ASSUME NEW g \in Handlers, Updates(g)' PROVE PartWay(g)'
      BY <2>8, <3>1, <3>3 DEF Updates
    <3>4. QED
      BY <2>8, <3>2, <3>3 DEF Settled
  <2>9. ASSUME NEW h \in Handlers, UpdateRow(h) PROVE Settled'
    <3> DEFINE r == [op |-> req[h].op, at |-> "part", id |-> req[h].id, part |-> 1]
    <3>1. /\ Settled /\ req[h].at = "row" /\ Moved(h, r) /\ UNCHANGED <<parts, granted, answeredUpdate>>
          /\ integration' = [req[h].was EXCEPT !.of = req[h].id]
      BY <1>2, <2>0, <2>9, Moves DEF UpdateRow, Updated, At, SettledInv
    <3>2. req[h].was = integration /\ \A g \in Handlers : g # h => req[g] = Idle
      BY <2>7, <3>1 DEF PartWay
    <3>3. GrantsStand' /\ integration'.of = req[h].id
      BY <2>0, <3>1, <3>2 DEF Settled, GrantsStand, IntegrationType
    <3>4. r.op = "UpdateIntegration" /\ r.at = "part" /\ r.id = req[h].id /\ r.part = 1
      BY <2>7, <3>1 DEF Updates
    <3>5. req'[h] = r /\ \A g \in Handlers : g # h => req'[g] = Idle
      BY <3>1, <3>2 DEF Moved
    <3> HIDE DEF r
    <3>6. \A p \in 1 .. 3 : ~(p < r.part)
      BY <3>4
    <3>7. PartWay(h)'
      BY <3>3, <3>4, <3>5, <3>6 DEF PartWay
    <3>8. r # Idle
      BY <3>4, IdleIsIdle
    <3>9. QED
      BY <2>8, <3>1, <3>3, <3>4, <3>7, <3>8
  <2>10. ASSUME NEW h \in Handlers, UpdatePart(h) PROVE Settled'
    <3> DEFINE r == [req[h] EXCEPT !.part = @ + 1]
    <3>1. /\ Settled /\ req[h].at = "part" /\ Moved(h, r) /\ UNCHANGED <<integration, granted, answeredUpdate>>
          /\ parts' = [parts EXCEPT ![req[h].part] = req[h].id]
      BY <1>2, <2>0, <2>10, Moves DEF UpdatePart, At, SettledInv
    <3>2. req[h] \in [op : {"UpdateIntegration"}, at : {"part"}, id : Ids, part : 1 .. 4]
      BY <2>0, <3>1, IdleIsIdle DEF IntegrationReq
    <3>3. r.op = "UpdateIntegration" /\ r.at = "part" /\ r.id = req[h].id /\ r.part = req[h].part + 1
      BY <3>2
    <3> HIDE DEF r
    <3>4. GrantsStand' /\ integration'.of = req[h].id
      BY <2>7, <3>1 DEF Settled, GrantsStand, PartWay
    <3>5. req'[h] = r /\ \A g \in Handlers : g # h => req'[g] = Idle
      BY <2>7, <3>1 DEF Moved
    <3>6. ASSUME NEW p \in 1 .. 3, p < r.part PROVE parts'[p] = req[h].id
      <4>1. CASE p = req[h].part
        BY <2>0, <3>1, <4>1
      <4>2. CASE p # req[h].part
        <5>1. p < req[h].part
          BY <3>2, <3>3, <3>6, <4>2
        <5>2. parts[p] = req[h].id
          BY <2>7, <3>1, <5>1 DEF PartWay
        <5>3. QED
          BY <2>0, <3>1, <4>2, <5>2
      <4>3. QED
        BY <4>1, <4>2
    <3>7. PartWay(h)'
      BY <3>1, <3>3, <3>4, <3>5, <3>6 DEF PartWay
    <3>8. r # Idle
      <4>1. r.at = "part"
        BY <3>3
      <4>2. QED
        BY <4>1, IdleIsIdle
    <3>9. QED
      BY <2>8, <3>1, <3>3, <3>4, <3>7, <3>8
  <2>11. ASSUME NEW h \in Handlers, AnswerUpdate(h) PROVE Settled'
    <3>1. /\ Settled /\ req[h].at = "part" /\ Moved(h, Idle) /\ UNCHANGED <<integration, parts, granted>>
          /\ answeredUpdate' = req[h].id /\ req[h].part > 3
      BY <1>2, <2>0, <2>11, Moves, ThreeParts DEF AnswerUpdate, At, SettledInv
    <3>2. req[h].part = 4
      BY <2>0, <3>1, IntegrationReqs
    <3>3. integration.of = req[h].id /\ \A p \in 1 .. 3 : parts[p] = req[h].id
      BY <2>7, <3>1, <3>2 DEF PartWay
    <3>4. Whole' /\ GrantsStand'
      BY <3>1, <3>3 DEF Whole, Settled, GrantsStand
    <3>5. QED
      BY <2>8, <3>1, <3>4
  <2>12. ASSUME NEW h \in Handlers, RefuseUpdate(h) PROVE Settled'
    <3>1. /\ Settled /\ Updates(h) /\ req[h].at # "part" /\ Moved(h, Idle)
          /\ UNCHANGED <<integration, parts, granted, answeredUpdate>>
      BY <1>2, <2>0, <2>12, Moves DEF RefuseUpdate, At, SettledInv, Updates
    <3>2. req[h].at = "row"
      BY <2>3, <3>1
    <3>3. Whole /\ Whole' /\ GrantsStand'
      BY <2>7, <3>1, <3>2 DEF PartWay, Whole, Settled, GrantsStand
    <3>4. QED
      BY <2>8, <3>1, <3>2, <3>3
  <2>13. ASSUME NEW h \in Handlers, BeginSetPublic(h) PROVE Settled'
    <3>1. /\ Settled /\ ~Updating /\ Moved(h, [op |-> "SetPublic", at |-> "request"])
          /\ UNCHANGED <<integration, parts, granted, answeredUpdate>>
      BY <1>2, <2>0, <2>13, Moves DEF BeginSetPublic, SettledInv
    <3>2. Whole' /\ GrantsStand'
      BY <3>1 DEF Settled, Whole, GrantsStand
    <3>3. QED
      BY <2>4, <3>1, <3>2
  \* Beside a publication that is under way there is no update.
  <2>14. ASSUME NEW h \in Handlers, Settled, req[h].at \in {"request", "public"} PROVE ~Updating
    <3>1. req[h] # Idle /\ ~Updates(h)
      BY <2>0, <2>3, <2>14, IdleIsIdle
    <3>2. QED
      BY <2>1, <2>14, <3>1 DEF Settled, PartWay
  <2>15. ASSUME NEW h \in Handlers, RequestPublication(h) PROVE Settled'
    <3>1. /\ Settled /\ req[h].at = "request" /\ UNCHANGED <<integration, parts, granted, answeredUpdate>>
      BY <1>2, <2>15 DEF RequestPublication, At, SettledInv, integrationVars
    <3>2. ~Updating
      BY <2>14, <3>1
    <3>3. Whole' /\ GrantsStand'
      BY <3>1, <3>2 DEF Settled, Whole, GrantsStand
    <3>4. CASE End(h)
      <4>1. Moved(h, Idle)
        BY <2>0, <3>4, Moves
      <4>2. QED
        BY <2>4, <3>2, <3>3, <4>1
    <3>5. CASE Goto(h, "public")
      <4>1. Moved(h, Gone(req[h], "public"))
        BY <2>0, <3>5, Moves
      <4>2. req[h] \in [op : {"SetPublic"}, at : {"request", "public"}]
        BY <2>0, <3>1, IdleIsIdle DEF IntegrationReq
      <4>3. Gone(req[h], "public").op # "UpdateIntegration"
        BY <4>2 DEF Gone
      <4>4. QED
        BY <2>4, <3>2, <3>3, <4>1, <4>3
    <3>6. QED
      BY <2>15, <3>4, <3>5 DEF RequestPublication
  <2>16. ASSUME NEW h \in Handlers, SetPublic(h) PROVE Settled'
    <3>1. /\ Settled /\ req[h].at = "public" /\ Moved(h, Idle) /\ UNCHANGED <<parts, answeredUpdate>>
          /\ integration' = [integration EXCEPT !.public = TRUE] /\ granted' = granted \union {"public"}
      BY <1>2, <2>0, <2>16, Moves DEF SetPublic, At, SettledInv
    <3>2. ~Updating
      BY <2>14, <3>1
    <3>3. Whole' /\ GrantsStand'
      BY <2>0, <3>1, <3>2 DEF Settled, Whole, GrantsStand, IntegrationType
    <3>4. QED
      BY <2>4, <3>1, <3>2, <3>3
  <2>17. QED
    BY <1>2, <2>5, <2>6, <2>9, <2>10, <2>11, <2>12, <2>13, <2>15, <2>16 DEF IntegrationsNext
<1>3. QED
  BY <1>1, <1>2, Following

LEMMA IntegrationsStart == ServicesInit => IntegrationsInv /\ SettledInv
<1> SUFFICES ASSUME ServicesInit PROVE IntegrationsInv /\ SettledInv
  OBVIOUS
<1> USE DEF ServicesInit, Init, IntegrationsInit
<1>1. IntegrationsInv
  BY DEF IntegrationsInv, IntegrationsTypeOK, IntegrationReq
<1>2. ~Updating /\ \A h \in Handlers : ~Updates(h)
  BY DEF Updating, Updates
<1>3. SettledInv
  BY <1>2 DEF SettledInv, Settled, GrantsStand, Whole
<1>4. QED
  BY <1>1, <1>3

\* No update takes back a publication or an approval, and an answered one is whole, unless
\* it met another request or an approval, or ended half way (updateintegration.go).
THEOREM UpdatesStand == Spec => []AnsweredIntegrationStands
<1>1. ServicesInit => BaseInv /\ IntegrationsInv /\ SettledInv
  BY IntegrationsStart, BaseStart
<1>2. BaseInv /\ IntegrationsInv /\ SettledInv /\ [Next]_vars => (BaseInv /\ IntegrationsInv /\ SettledInv)'
  BY BaseStep, IntegrationsStep, SettledStep DEF Counts
<1>3. SettledInv => AnsweredIntegrationStands
  BY DEF SettledInv, Settled, GrantsStand, Whole, AnsweredIntegrationStands
<1>4. QED
  BY <1>1, <1>2, <1>3, PTL DEF Spec
----
(* Tags *)

Creates == [op : {"CreateTag"}, at : {"create command", "set"}, tag : TagIds,
            bot : GuildBots \union {None}, command : {None} \union (Nat \ {0})]
Deletes == [op : {"DeleteTag"}, at : {"delete command", "delete"}, tag : TagIds,
            command : {None} \union (Nat \ {0})]
TagReq == {Idle} \union Creates \union Deletes

Numbers == {None} \union (1 .. made)

TagsTypes ==
    /\ guildBot \in GuildBots \union {None}
    /\ made \in Nat
    /\ tags \in [TagIds -> {None} \union [command : Numbers]]
    /\ commands \subseteq [bot : GuildBots, tag : TagIds, id : 1 .. made]
    /\ astray \subseteq TagIds

\* A command has a number of its own, and no namesake with its bot.
CommandsDiffer == \A c, d \in commands : c.id = d.id \/ (c.bot = d.bot /\ c.tag = d.tag) => c = d

\* The number that a request or a row has is of a command of its own tag, if there is one.
NumbersOwn ==
    \A c \in commands :
      /\ \A h \in Handlers : req[h] # Idle /\ req[h].command = c.id => req[h].tag = c.tag
      /\ \A t \in TagIds : tags[t] # None /\ tags[t].command = c.id => t = c.tag

TagRequests ==
    /\ req \in [Handlers -> TagReq]
    /\ \A h \in Handlers : req[h] # Idle => req[h].command \in Numbers

TagsInv ==
    /\ TagsTypes /\ CommandsDiffer
    /\ about = "tags" => TagRequests /\ NumbersOwn
    /\ about # "tags" => commands = {} /\ tags = [t \in TagIds |-> None]

CommandsOf(t) == {c \in commands : c.tag = t}
IdsOf(t) == {c.id : c \in CommandsOf(t)}
RowCommand(t) == IF tags[t] = None THEN {} ELSE {tags[t].command} \ {None}
Agree(t) == IdsOf(t) = RowCommand(t)

\* What a request that is at a tag alone has seen of it or done to it.
Midway(h) ==
    LET t == req[h].tag
        k == req[h].command
    IN
    /\ req[h].at \in {"create command", "delete command"} => Agree(t)
    /\ req[h].at = "create command" => k = None /\ req[h].bot = guildBot
    /\ req[h].at = "delete command" => tags[t] # None /\ k = tags[t].command /\ k # None
    /\ req[h].at = "set" /\ k = None => Agree(t)
    /\ req[h].at = "set" /\ k # None => IdsOf(t) = {k} /\ RowCommand(t) \subseteq {k}
    /\ req[h].at = "delete" => CommandsOf(t) = {}
    /\ req[h].at = "delete" /\ k = None => Agree(t)

IsAt(h, t) == req[h] # Idle /\ req[h].tag = t

CurrentBot(t) == \A c \in CommandsOf(t) : c.bot = guildBot

InStep(t) ==
    /\ CurrentBot(t)
    /\ \A g, h \in Handlers : IsAt(g, t) /\ IsAt(h, t) => g = h
    /\ \A h \in Handlers : IsAt(h, t) => Midway(h)
    /\ (\A h \in Handlers : ~IsAt(h, t)) => Agree(t)

InStepInv == about = "tags" => \A t \in TagIds \ astray : InStep(t)

LEMMA TagReqs ==
    ASSUME NEW q \in TagReq
    PROVE  /\ q = Idle <=> q.at = "idle"
           /\ q # Idle => q.tag \in TagIds /\ q.command \in {None} \union (Nat \ {0})
           /\ q.at \in {"create command", "set"} => q \in Creates
           /\ q.at \in {"delete command", "delete"} => q \in Deletes
           /\ q.at \in {"idle", "create command", "set", "delete command", "delete"}
<1>1. CASE q = Idle
  BY <1>1, IdleIsIdle
<1>2. CASE q \in Creates
  BY <1>2, IdleIsIdle DEF Creates
<1>3. CASE q \in Deletes
  BY <1>3, IdleIsIdle DEF Deletes
<1>4. QED
  BY <1>1, <1>2, <1>3 DEF TagReq

\* A request that has made its command, and one that has deleted it.
Made(q, k) == [q EXCEPT !.command = k, !.at = "set"]

LEMMA MadeOn ==
    ASSUME NEW q \in Creates, NEW k \in Nat \ {0}
    PROVE  /\ Made(q, k) \in TagReq /\ Made(q, k) # Idle /\ Made(q, k).at = "set"
           /\ Made(q, k).command = k /\ Made(q, k).tag = q.tag /\ Made(q, k).bot = q.bot
<1>1. /\ Made(q, k) \in Creates /\ Made(q, k).at = "set"
      /\ Made(q, k).command = k /\ Made(q, k).tag = q.tag /\ Made(q, k).bot = q.bot
  BY DEF Creates, Made
<1>2. QED
  BY <1>1, IdleIsIdle DEF TagReq

LEMMA DeletedOn ==
    ASSUME NEW q \in Deletes
    PROVE  /\ Gone(q, "delete") \in TagReq /\ Gone(q, "delete") # Idle /\ Gone(q, "delete").at = "delete"
           /\ Gone(q, "delete").command = q.command /\ Gone(q, "delete").tag = q.tag
<1>1. /\ Gone(q, "delete") \in Deletes /\ Gone(q, "delete").at = "delete"
      /\ Gone(q, "delete").command = q.command /\ Gone(q, "delete").tag = q.tag
  BY DEF Deletes, Gone
<1>2. QED
  BY <1>1, IdleIsIdle DEF TagReq

\* What the steps of a request are, but for what they do to the rows and the commands.
LEMMA TagMoves ==
    ASSUME req \in [Handlers -> TagReq], NEW h \in Handlers
    PROVE  /\ \A t, c : BeginCreateTag(h, t, c) =>
                req[h] = Idle /\ Moved(h, [op |-> "CreateTag", tag |-> t, bot |-> guildBot, command |-> None,
                                           at |-> IF c THEN "create command" ELSE "set"])
           /\ \A t : BeginDeleteTag(h, t) =>
                req[h] = Idle /\ Moved(h, [op |-> "DeleteTag", tag |-> t, command |-> tags[t].command,
                                           at |-> IF tags[t].command = None THEN "delete" ELSE "delete command"])
           /\ CreateGuildCommand(h) =>
                /\ req[h].at = "create command" /\ req[h] \in Creates
                /\ \/ /\ {c \in commands : c.bot = req[h].bot /\ c.tag = req[h].tag} = {}
                      /\ made' = made + 1 /\ Moved(h, Made(req[h], made'))
                      /\ commands' = commands \union {[bot |-> req[h].bot, tag |-> req[h].tag, id |-> made']}
                   \/ \E c \in commands : /\ c.bot = req[h].bot /\ c.tag = req[h].tag
                                          /\ Moved(h, Made(req[h], c.id)) /\ UNCHANGED <<made, commands>>
           /\ DeleteGuildCommand(h) =>
                req[h].at = "delete command" /\ req[h] \in Deletes /\ Moved(h, Gone(req[h], "delete"))
           /\ SetTag(h) \/ RemoveTag(h) \/ FailTag(h) => req[h] # Idle /\ Moved(h, Idle)
<1>1. \A t, c : BeginCreateTag(h, t, c) =>
         req[h] = Idle /\ Moved(h, [op |-> "CreateTag", tag |-> t, bot |-> guildBot, command |-> None,
                                    at |-> IF c THEN "create command" ELSE "set"])
  BY Moves DEF BeginCreateTag
<1>2. \A t : BeginDeleteTag(h, t) =>
         req[h] = Idle /\ Moved(h, [op |-> "DeleteTag", tag |-> t, command |-> tags[t].command,
                                    at |-> IF tags[t].command = None THEN "delete" ELSE "delete command"])
  BY Moves DEF BeginDeleteTag
<1>3. ASSUME CreateGuildCommand(h)
      PROVE  /\ req[h].at = "create command" /\ req[h] \in Creates
             /\ \/ /\ {c \in commands : c.bot = req[h].bot /\ c.tag = req[h].tag} = {}
                   /\ made' = made + 1 /\ Moved(h, Made(req[h], made'))
                   /\ commands' = commands \union {[bot |-> req[h].bot, tag |-> req[h].tag, id |-> made']}
                \/ \E c \in commands : /\ c.bot = req[h].bot /\ c.tag = req[h].tag
                                       /\ Moved(h, Made(req[h], c.id)) /\ UNCHANGED <<made, commands>>
  <2>1. req[h].at = "create command" /\ req[h] \in Creates
    BY <1>3, TagReqs DEF CreateGuildCommand, At
  <2>2. \A k : req' = [req EXCEPT ![h].command = k, ![h].at = "set"] => Moved(h, Made(req[h], k))
    BY DEF Moved, Made
  <2>3. QED
    BY <1>3, <2>1, <2>2 DEF CreateGuildCommand
<1>4. DeleteGuildCommand(h) =>
        req[h].at = "delete command" /\ req[h] \in Deletes /\ Moved(h, Gone(req[h], "delete"))
  BY Moves, TagReqs DEF DeleteGuildCommand, At
<1>5. SetTag(h) \/ RemoveTag(h) \/ FailTag(h) => req[h] # Idle /\ Moved(h, Idle)
  BY Moves, TagReqs DEF SetTag, RemoveTag, FailTag, At
<1>6. QED
  BY <1>1, <1>2, <1>3, <1>4, <1>5

LEMMA TagsStep == TagsInv /\ BaseInv /\ [Next]_vars => TagsInv'
<1> SUFFICES ASSUME TagsInv, BaseInv, [Next]_vars PROVE TagsInv'
  OBVIOUS
<1>1. CASE UNCHANGED tagVars /\ (about = "tags" => UNCHANGED base)
  BY <1>1, Following
  DEF TagsInv, TagsTypes, CommandsDiffer, TagRequests, NumbersOwn, Numbers, tagVars, base
<1>2. CASE about = "tags" /\ TagsNext
  <2>0. TagsTypes /\ CommandsDiffer /\ TagRequests /\ NumbersOwn /\ about' = "tags" /\ req \in [Handlers -> TagReq]
    BY <1>2, Following DEF TagsInv, TagRequests
  <2>1. SUFFICES TagsTypes' /\ CommandsDiffer' /\ TagRequests' /\ NumbersOwn'
    BY <2>0 DEF TagsInv
  \* Nothing is made: requests move, rows and commands go or follow the requests.
  <2>2. ASSUME made' = made, commands' \subseteq commands
        PROVE  CommandsDiffer' /\ Numbers' = Numbers
    BY <2>0, <2>2 DEF CommandsDiffer, Numbers
  <2>3. ASSUME NEW h \in Handlers, NEW r \in TagReq, Moved(h, r), made' = made, commands' \subseteq commands,
               r # Idle => /\ r.command \in Numbers
                           /\ \A c \in commands : r.command = c.id => r.tag = c.tag
        PROVE  TagRequests' /\ \A c \in commands', g \in Handlers : req'[g] # Idle /\ req'[g].command = c.id
                                                                      => req'[g].tag = c.tag
    BY <2>0, <2>2, <2>3 DEF TagRequests, NumbersOwn, Moved
  <2>4. None \notin 1 .. made /\ Idle \in TagReq
    BY <2>0, NoneAssumption DEF TagsTypes, TagReq
  <2>5. \A c \in commands : c.id # None
    BY <2>0, <2>4 DEF TagsTypes
  <2>6. CASE SwitchBot \/ PremiumEnds
    <3>1. UNCHANGED <<made, tags, commands>> /\ req' = req /\ guildBot' \in GuildBots \union {None}
      BY <2>0, <2>6 DEF SwitchBot, PremiumEnds, TagsTypes, base
    <3>2. astray' \subseteq TagIds
      <4>1. CASE PremiumEnds
        BY <4>1, <2>0 DEF PremiumEnds, TagsTypes
      <4>2. CASE SwitchBot
        <5>1. \A c \in commands : c.tag \in TagIds
          BY <2>0 DEF TagsTypes
        <5>2. \A g \in Handlers : req[g] # Idle => req[g].tag \in TagIds
          BY <2>0, TagReqs
        <5>3. QED
          BY <4>2, <5>1, <5>2, <2>0 DEF SwitchBot, TagsTypes
      <4>3. QED
        BY <2>6, <4>1, <4>2
    <3>3. QED
      BY <2>0, <3>1, <3>2 DEF TagsTypes, CommandsDiffer, TagRequests, NumbersOwn, Numbers
  <2>7. ASSUME NEW h \in Handlers, NEW t \in TagIds, NEW c \in BOOLEAN, BeginCreateTag(h, t, c)
        PROVE  TagsTypes' /\ CommandsDiffer' /\ TagRequests' /\ NumbersOwn'
    <3> DEFINE r == [op |-> "CreateTag", tag |-> t, bot |-> guildBot, command |-> None,
                     at |-> IF c THEN "create command" ELSE "set"]
    <3>1. Moved(h, r)
      BY <2>0, <2>7, TagMoves
    <3>2. r \in TagReq /\ r.command = None /\ r.tag = t
      BY <2>0 DEF TagReq, Creates, TagsTypes
    <3>3. UNCHANGED <<guildBot, made, tags, commands>> /\ astray' \subseteq TagIds
      BY <2>0, <2>7 DEF BeginCreateTag, TagsTypes
    <3> HIDE DEF r
    <3>4. TagRequests' /\ \A d \in commands', g \in Handlers : req'[g] # Idle /\ req'[g].command = d.id
                                                                      => req'[g].tag = d.tag
      BY <2>3, <2>5, <3>1, <3>2, <3>3 DEF Numbers
    <3>5. QED
      BY <2>0, <2>2, <3>3, <3>4 DEF TagsTypes, NumbersOwn
  <2>8. ASSUME NEW h \in Handlers, NEW t \in TagIds, BeginDeleteTag(h, t)
        PROVE  TagsTypes' /\ CommandsDiffer' /\ TagRequests' /\ NumbersOwn'
    <3> DEFINE r == [op |-> "DeleteTag", tag |-> t, command |-> tags[t].command,
                     at |-> IF tags[t].command = None THEN "delete" ELSE "delete command"]
    <3>1. Moved(h, r) /\ tags[t] # None
      BY <2>0, <2>8, TagMoves DEF BeginDeleteTag
    <3>2. tags[t].command \in Numbers
      BY <2>0, <3>1 DEF TagsTypes
    <3>3. r \in TagReq /\ r.command = tags[t].command /\ r.tag = t
      <4>1. tags[t].command \in {None} \union (Nat \ {0})
        BY <2>0, <3>2 DEF TagsTypes, Numbers
      <4>2. QED
        BY <4>1 DEF TagReq, Deletes
    <3>4. UNCHANGED <<guildBot, made, tags, commands>> /\ astray' \subseteq TagIds
      BY <2>0, <2>8 DEF BeginDeleteTag, TagsTypes
    <3> HIDE DEF r
    <3>5. \A d \in commands : r.command = d.id => r.tag = d.tag
      BY <2>0, <3>1, <3>3 DEF NumbersOwn
    <3>6. TagRequests' /\ \A d \in commands', g \in Handlers : req'[g] # Idle /\ req'[g].command = d.id
                                                                      => req'[g].tag = d.tag
      BY <2>3, <3>1, <3>2, <3>3, <3>4, <3>5
    <3>7. QED
      BY <2>0, <2>2, <3>4, <3>6 DEF TagsTypes, NumbersOwn
  <2>9. ASSUME NEW h \in Handlers, SetTag(h) \/ RemoveTag(h) \/ FailTag(h)
        PROVE  TagsTypes' /\ CommandsDiffer' /\ TagRequests' /\ NumbersOwn'
    <3>1. Moved(h, Idle) /\ req[h] # Idle /\ UNCHANGED <<guildBot, made, commands>>
      BY <2>0, <2>9, TagMoves DEF SetTag, RemoveTag, FailTag
    <3>2. req[h].tag \in TagIds /\ req[h].command \in Numbers
      BY <2>0, <3>1, TagReqs DEF TagRequests
    <3>3. tags' \in [TagIds -> {None} \union [command : Numbers]] /\ astray' \subseteq TagIds
      BY <2>0, <2>9, <3>2 DEF SetTag, Wrapped, RemoveTag, FailTag, TagsTypes
    <3>4. TagRequests' /\ \A d \in commands', g \in Handlers : req'[g] # Idle /\ req'[g].command = d.id
                                                                      => req'[g].tag = d.tag
      BY <2>3, <2>4, <3>1
    <3>5. ASSUME NEW d \in commands', NEW t \in TagIds, tags'[t] # None, tags'[t].command = d.id PROVE t = d.tag
      <4>1. CASE SetTag(h) /\ t = req[h].tag
        <5>1. tags'[t].command = req[h].command
          BY <4>1, <2>0, <3>2 DEF SetTag, Wrapped, TagsTypes
        <5>2. QED
          BY <4>1, <5>1, <2>0, <3>1, <3>5 DEF NumbersOwn
      <4>2. CASE ~(SetTag(h) /\ t = req[h].tag)
        <5>1. tags[t] = tags'[t]
          BY <4>2, <2>0, <2>9, <3>5 DEF SetTag, RemoveTag, FailTag, TagsTypes
        <5>2. QED
          BY <5>1, <2>0, <3>1, <3>5 DEF NumbersOwn
      <4>3. QED
        BY <4>1, <4>2
    <3>6. Numbers' = Numbers /\ CommandsDiffer'
      BY <2>2, <3>1
    <3>7. QED
      BY <2>0, <3>1, <3>3, <3>4, <3>5, <3>6 DEF TagsTypes, NumbersOwn
  <2>10. ASSUME NEW h \in Handlers, DeleteGuildCommand(h)
         PROVE  TagsTypes' /\ CommandsDiffer' /\ TagRequests' /\ NumbersOwn'
    <3>1. /\ Moved(h, Gone(req[h], "delete")) /\ req[h] \in Deletes /\ req[h] # Idle
          /\ UNCHANGED <<guildBot, made, tags, astray>> /\ commands' \subseteq commands
      BY <2>0, <2>10, TagMoves, IdleIsIdle DEF DeleteGuildCommand
    <3>2. /\ Gone(req[h], "delete") \in TagReq /\ Gone(req[h], "delete").command = req[h].command
          /\ Gone(req[h], "delete").tag = req[h].tag
      BY <3>1, DeletedOn
    <3>3. req[h].command \in Numbers /\ \A d \in commands : req[h].command = d.id => req[h].tag = d.tag
      BY <2>0, <3>1 DEF TagRequests, NumbersOwn
    <3>4. TagRequests' /\ \A d \in commands', g \in Handlers : req'[g] # Idle /\ req'[g].command = d.id
                                                                      => req'[g].tag = d.tag
      BY <2>3, <3>1, <3>2, <3>3
    <3>5. Numbers' = Numbers /\ CommandsDiffer'
      BY <2>2, <3>1
    <3>6. QED
      BY <2>0, <3>1, <3>4, <3>5 DEF TagsTypes, NumbersOwn
  <2>11. ASSUME NEW h \in Handlers, CreateGuildCommand(h)
         PROVE  TagsTypes' /\ CommandsDiffer' /\ TagRequests' /\ NumbersOwn'
    <3> DEFINE same == {c \in commands : c.bot = req[h].bot /\ c.tag = req[h].tag}
               n == made + 1
               new == [bot |-> req[h].bot, tag |-> req[h].tag, id |-> n]
    <3>1. /\ req[h].at = "create command" /\ req[h] \in Creates /\ req[h] # Idle
          /\ UNCHANGED <<guildBot, tags, astray>> /\ req[h].bot \in GuildBots /\ req[h].tag \in TagIds
      BY <2>0, <2>11, TagMoves, IdleIsIdle DEF CreateGuildCommand, Creates
    <3>2. CASE \E c \in commands : /\ c.bot = req[h].bot /\ c.tag = req[h].tag
                                   /\ Moved(h, Made(req[h], c.id)) /\ UNCHANGED <<made, commands>>
      <4>1. PICK c \in commands : /\ c.bot = req[h].bot /\ c.tag = req[h].tag
                                  /\ Moved(h, Made(req[h], c.id)) /\ UNCHANGED <<made, commands>>
        BY <3>2
      <4>2. c.id \in 1 .. made /\ c.id \in Nat \ {0}
        BY <2>0 DEF TagsTypes
      <4>3. Made(req[h], c.id) \in TagReq /\ Made(req[h], c.id).command = c.id /\ Made(req[h], c.id).tag = req[h].tag
        BY <3>1, <4>2, MadeOn
      <4>4. c.id \in Numbers /\ \A d \in commands : c.id = d.id => req[h].tag = d.tag
        BY <2>0, <4>1, <4>2 DEF CommandsDiffer, Numbers
      <4>5. TagRequests' /\ \A d \in commands', g \in Handlers : req'[g] # Idle /\ req'[g].command = d.id
                                                                        => req'[g].tag = d.tag
        BY <2>3, <4>1, <4>3, <4>4
      <4>6. Numbers' = Numbers /\ CommandsDiffer'
        BY <2>2, <4>1
      <4>7. QED
        BY <2>0, <3>1, <4>1, <4>5, <4>6 DEF TagsTypes, NumbersOwn
    <3>3. CASE same = {} /\ made' = n /\ Moved(h, Made(req[h], made')) /\ commands' = commands \union {new}
      <4>1. made \in Nat /\ n \in Nat \ {0} /\ n \notin 1 .. made /\ n \in 1 .. n /\ 1 .. made \subseteq 1 .. n
        BY <2>0 DEF TagsTypes
      <4>2. \A d \in commands : d.id \in 1 .. made /\ d.id # n
        BY <2>0, <4>1 DEF TagsTypes
      <4>3. n \notin Numbers
        BY <4>1, NoneAssumption DEF Numbers
      <4>4. Numbers' = Numbers \union {n} /\ Numbers \subseteq Numbers'
        BY <3>3, <4>1 DEF Numbers
      <4>5. new.id = n /\ new.tag = req[h].tag /\ new.bot = req[h].bot /\ new \in [bot : GuildBots, tag : TagIds, id : 1 .. n]
        BY <3>1, <4>1
      <4>6. Made(req[h], n) \in TagReq /\ Made(req[h], n).command = n /\ Made(req[h], n).tag = req[h].tag
        BY <3>1, <4>1, MadeOn
      <4>7. Moved(h, Made(req[h], n))
        BY <3>3
      <4> HIDE DEF n, new
      <4>8. commands' \subseteq [bot : GuildBots, tag : TagIds, id : 1 .. made']
        <5>1. commands \subseteq [bot : GuildBots, tag : TagIds, id : 1 .. n]
          BY <2>0, <4>1 DEF TagsTypes
        <5>2. QED
          BY <5>1, <3>3, <4>5
      <4>9. tags' \in [TagIds -> {None} \union [command : Numbers']]
        BY <2>0, <3>1, <4>4 DEF TagsTypes
      <4>10. TagsTypes'
        BY <2>0, <3>1, <3>3, <4>1, <4>8, <4>9 DEF TagsTypes
      <4>11. CommandsDiffer'
        BY <2>0, <3>3, <4>2, <4>5 DEF CommandsDiffer
      <4>12. TagRequests'
        BY <2>0, <4>4, <4>6, <4>7 DEF TagRequests, Moved
      <4>13. ASSUME NEW d \in commands', NEW g \in Handlers, req'[g] # Idle, req'[g].command = d.id
             PROVE  req'[g].tag = d.tag
        <5>1. CASE g = h
          <6>1. req'[g] = Made(req[h], n)
            BY <4>7, <5>1 DEF Moved
          <6>2. d.id = n
            BY <4>6, <4>13, <6>1
          <6>3. d = new
            BY <3>3, <4>2, <6>2
          <6>4. QED
            BY <4>5, <4>6, <6>1, <6>3
        <5>2. CASE g # h
          <6>1. req'[g] = req[g] /\ req[g].command # n
            BY <2>0, <4>3, <4>7, <4>13, <5>2 DEF TagRequests, Moved
          <6>2. d \in commands
            BY <3>3, <4>5, <4>13, <6>1
          <6>3. QED
            BY <2>0, <4>13, <6>1, <6>2 DEF NumbersOwn
        <5>3. QED
          BY <5>1, <5>2
      <4>14. ASSUME NEW d \in commands', NEW t \in TagIds, tags'[t] # None, tags'[t].command = d.id PROVE t = d.tag
        <5>1. tags[t] # None /\ tags[t].command = d.id /\ tags[t].command \in Numbers
          BY <2>0, <3>1, <4>14 DEF TagsTypes
        <5>2. d \in commands
          BY <3>3, <4>3, <4>5, <5>1
        <5>3. QED
          BY <2>0, <5>1, <5>2 DEF NumbersOwn
      <4>15. QED
        BY <4>10, <4>11, <4>12, <4>13, <4>14 DEF NumbersOwn
    <3>4. QED
      BY <2>0, <2>11, <3>2, <3>3, TagMoves
  <2>12. QED
    BY <1>2, <2>6, <2>7, <2>8, <2>9, <2>10, <2>11 DEF TagsNext
<1>3. QED
  BY <1>1, <1>2, Following

\* What a tag and its commands are, as far as being in step goes.
Same(t) == CommandsOf(t)' = CommandsOf(t) /\ tags'[t] = tags[t] /\ guildBot' = guildBot

LEMMA SameAgrees ==
    ASSUME NEW t \in TagIds, Same(t)
    PROVE  /\ Agree(t)' <=> Agree(t)
           /\ IdsOf(t)' = IdsOf(t) /\ RowCommand(t)' = RowCommand(t)
           /\ CurrentBot(t)' <=> CurrentBot(t)
  BY DEF Same, Agree, IdsOf, RowCommand, CurrentBot

\* A step of a request that neither was nor is at the tag, nor does anything to it.
LEMMA StepElsewhere ==
    ASSUME NEW t \in TagIds, InStep(t), Same(t), NEW h \in Handlers, NEW r, Moved(h, r),
           ~IsAt(h, t), r = Idle \/ r.tag # t
    PROVE  InStep(t)'
<1>1. \A g \in Handlers : (IsAt(g, t)' <=> IsAt(g, t)) /\ (IsAt(g, t) => req'[g] = req[g])
  BY DEF IsAt, Moved
<1>2. ASSUME NEW g \in Handlers, IsAt(g, t) PROVE Midway(g)'
  <2>1. Midway(g) /\ req'[g] = req[g] /\ req[g].tag = t
    BY <1>1, <1>2 DEF InStep, IsAt
  <2>2. QED
    BY <2>1, SameAgrees DEF Midway, Same
<1>3. QED
  BY <1>1, <1>2, SameAgrees DEF InStep

LEMMA StandsStill ==
    ASSUME NEW t \in TagIds, InStep(t), UNCHANGED <<req, tags, commands, guildBot>>
    PROVE  InStep(t)'
<1>1. Same(t)
  BY DEF Same, CommandsOf
<1>2. \A g \in Handlers : IsAt(g, t)' <=> IsAt(g, t)
  BY DEF IsAt
<1>3. ASSUME NEW g \in Handlers, IsAt(g, t) PROVE Midway(g)'
  <2>1. Midway(g) /\ req'[g] = req[g] /\ req[g].tag = t
    BY <1>3 DEF InStep, IsAt
  <2>2. QED
    BY <1>1, <2>1, SameAgrees DEF Midway, Same
<1>4. QED
  BY <1>1, <1>2, <1>3, SameAgrees DEF InStep

\* The only request at the tag ends.
LEMMA StepAway ==
    ASSUME NEW t \in TagIds, InStep(t), NEW h \in Handlers, IsAt(h, t), Moved(h, Idle),
           Agree(t)', CurrentBot(t)'
    PROVE  InStep(t)'
<1>1. \A g \in Handlers : ~IsAt(g, t)'
  BY DEF IsAt, Moved, InStep
<1>2. QED
  BY <1>1 DEF InStep

\* A request comes to the tag, or goes on, and nobody else is there.
LEMMA StepAt ==
    ASSUME NEW t \in TagIds, NEW h \in Handlers, NEW r, Moved(h, r), r # Idle, r.tag = t,
           \A g \in Handlers : IsAt(g, t) => g = h, Midway(h)', CurrentBot(t)'
    PROVE  InStep(t)'
<1>1. \A g \in Handlers : IsAt(g, t)' <=> g = h
  BY DEF IsAt, Moved
<1>2. QED
  BY <1>1 DEF InStep

LEMMA InStepStep == InStepInv /\ TagsInv /\ BaseInv /\ [Next]_vars => InStepInv'
<1> SUFFICES ASSUME InStepInv, TagsInv, BaseInv, [Next]_vars, about' = "tags", NEW t \in TagIds, t \notin astray'
             PROVE  InStep(t)'
  BY DEF InStepInv
<1>1. CASE UNCHANGED tagVars /\ (about = "tags" => UNCHANGED base)
  <2>1. InStep(t) /\ UNCHANGED <<req, tags, commands, guildBot>>
    BY <1>1, Following DEF InStepInv, tagVars, base
  <2>2. QED
    BY <2>1, StandsStill
<1>2. CASE about = "tags" /\ TagsNext
  <2>0. TagsTypes /\ CommandsDiffer /\ TagRequests /\ NumbersOwn /\ req \in [Handlers -> TagReq]
    BY <1>2 DEF TagsInv, TagRequests
  <2>1. t \notin astray => InStep(t)
    BY <1>2 DEF InStepInv
  <2>2. ASSUME NEW h \in Handlers, req[h] # Idle
        PROVE  /\ req[h].tag \in TagIds /\ req[h].command \in Numbers
               /\ req[h].at \in {"create command", "set", "delete command", "delete"}
    BY <2>0, <2>2, TagReqs DEF TagRequests
  <2>3. ASSUME UNCHANGED <<tags, commands, guildBot>> PROVE Same(t)
    BY <2>3 DEF Same, CommandsOf
  <2>4. CASE SwitchBot
    <3>1. /\ \A c \in commands : c.tag # t
          /\ \A h \in Handlers : ~IsAt(h, t)
          /\ UNCHANGED <<tags, commands, req>> /\ InStep(t)
      BY <2>1, <2>4 DEF SwitchBot, IsAt, base
    <3>2. CurrentBot(t)' /\ (Agree(t)' <=> Agree(t))
      BY <3>1 DEF CurrentBot, CommandsOf, Agree, IdsOf, RowCommand
    <3>3. QED
      BY <3>1, <3>2 DEF InStep, IsAt
  <2>5. CASE PremiumEnds
    <3>1. InStep(t) /\ UNCHANGED <<req, tags, commands, guildBot>>
      BY <2>1, <2>5 DEF PremiumEnds, base
    <3>2. QED
      BY <3>1, StandsStill
  <2>6. ASSUME NEW h \in Handlers, NEW u \in TagIds, NEW c \in BOOLEAN, BeginCreateTag(h, u, c) PROVE InStep(t)'
    <3> DEFINE r == [op |-> "CreateTag", tag |-> u, bot |-> guildBot, command |-> None,
                     at |-> IF c THEN "create command" ELSE "set"]
    <3>1. Moved(h, r) /\ req[h] = Idle /\ InStep(t) /\ UNCHANGED <<tags, commands, guildBot>>
      BY <2>0, <2>1, <2>6, TagMoves DEF BeginCreateTag
    <3>2. r.tag = u /\ r.command = None /\ r.bot = guildBot /\ r.at \in {"create command", "set"}
      OBVIOUS
    <3> HIDE DEF r
    <3>3. ~IsAt(h, t) /\ Same(t)
      BY <2>3, <3>1 DEF IsAt
    <3>4. CASE u # t
      BY <3>1, <3>2, <3>3, <3>4, StepElsewhere
    <3>5. CASE u = t
      <4>1. \A g \in Handlers : ~IsAt(g, t)
        BY <2>6, <3>3, <3>5 DEF BeginCreateTag, Meets, Others, IsAt
      <4>2. Agree(t)' /\ CurrentBot(t)'
        BY <3>1, <3>3, <4>1, SameAgrees DEF InStep
      <4>3. Midway(h)'
        BY <3>1, <3>2, <3>5, <4>2 DEF Midway, Moved
      <4>4. r # Idle
        BY <3>2, IdleIsIdle
      <4>5. QED
        BY <3>1, <3>2, <3>5, <4>1, <4>2, <4>3, <4>4, StepAt
    <3>6. QED
      BY <3>4, <3>5
  <2>7. ASSUME NEW h \in Handlers, NEW u \in TagIds, BeginDeleteTag(h, u) PROVE InStep(t)'
    <3> DEFINE r == [op |-> "DeleteTag", tag |-> u, command |-> tags[u].command,
                     at |-> IF tags[u].command = None THEN "delete" ELSE "delete command"]
    <3>1. Moved(h, r) /\ req[h] = Idle /\ InStep(t) /\ UNCHANGED <<tags, commands, guildBot>> /\ tags[u] # None
      BY <2>0, <2>1, <2>7, TagMoves DEF BeginDeleteTag
    <3>2. /\ r.tag = u /\ r.command = tags[u].command
          /\ r.at = IF tags[u].command = None THEN "delete" ELSE "delete command"
      OBVIOUS
    <3> HIDE DEF r
    <3>3. ~IsAt(h, t) /\ Same(t)
      BY <2>3, <3>1 DEF IsAt
    <3>4. CASE u # t
      BY <3>1, <3>2, <3>3, <3>4, StepElsewhere
    <3>5. CASE u = t
      <4>1. \A g \in Handlers : ~IsAt(g, t)
        BY <2>7, <3>3, <3>5 DEF BeginDeleteTag, Meets, Others, IsAt
      <4>2. Agree(t) /\ Agree(t)' /\ CurrentBot(t)'
        BY <3>1, <3>3, <4>1, SameAgrees DEF InStep
      <4>3. tags[t].command = None => CommandsOf(t)' = {}
        BY <3>1, <3>5, <4>2 DEF Agree, IdsOf, RowCommand, CommandsOf
      <4>4. Midway(h)'
        <5>1. req'[h] = r /\ tags' = tags
          BY <3>1 DEF Moved
        <5>2. CASE tags[t].command = None
          <6>1. r.at = "delete" /\ r.command = None /\ r.tag = t
            BY <3>2, <3>5, <5>2
          <6>2. QED
            BY <4>2, <4>3, <5>1, <5>2, <6>1 DEF Midway
        <5>3. CASE tags[t].command # None
          <6>1. r.at = "delete command" /\ r.command = tags[t].command /\ r.tag = t
            BY <3>2, <3>5, <5>3
          <6>2. QED
            BY <3>1, <3>5, <4>2, <5>1, <5>3, <6>1 DEF Midway
        <5>4. QED
          BY <5>2, <5>3
      <4>5. r # Idle
        BY <3>2, IdleIsIdle
      <4>6. QED
        BY <3>1, <3>2, <3>5, <4>1, <4>2, <4>4, <4>5, StepAt
    <3>6. QED
      BY <3>4, <3>5
  \* A request ends whose tag is another.
  <2>8. ASSUME NEW h \in Handlers, Moved(h, Idle), req[h].tag # t, InStep(t), Same(t) PROVE InStep(t)'
    BY <2>8, StepElsewhere DEF IsAt
  <2>9. ASSUME NEW h \in Handlers, SetTag(h) PROVE InStep(t)'
    <3> DEFINE k == req[h].command
    <3>1. /\ Moved(h, Idle) /\ req[h] # Idle /\ req[h].at = "set" /\ InStep(t)
          /\ tags' = [tags EXCEPT ![req[h].tag] = [command |-> k]] /\ UNCHANGED <<commands, guildBot>>
      BY <2>0, <2>1, <2>9, TagMoves DEF SetTag, Wrapped, At
    <3>2. CommandsOf(t)' = CommandsOf(t)
      BY <3>1 DEF CommandsOf
    <3>3. CASE req[h].tag # t
      BY <2>0, <2>8, <3>1, <3>2, <3>3 DEF Same, TagsTypes
    <3>4. CASE req[h].tag = t
      <4>1. Midway(h) /\ IsAt(h, t)
        BY <3>1, <3>4 DEF InStep, IsAt
      <4>2. tags'[t] = [command |-> k] /\ tags'[t] # None
        <5>1. tags'[t] = [command |-> k]
          BY <2>0, <3>1, <3>4 DEF TagsTypes
        <5>2. k \in Nat \union {None}
          BY <2>0, <3>1, TagReqs
        <5>3. QED
          BY <5>1, <5>2, TagsAssumption
      <4>3. RowCommand(t)' = {k} \ {None} /\ IdsOf(t)' = IdsOf(t)
        BY <3>2, <4>2 DEF RowCommand, IdsOf
      <4>4. IdsOf(t) = {k} \ {None}
        <5>1. CASE k # None
          BY <3>1, <3>4, <4>1, <5>1 DEF Midway
        <5>2. CASE k = None
          <6>1. tags[t] # None => tags[t].command = None
            BY <2>9, <3>4, <5>2 DEF SetTag
          <6>2. QED
            BY <3>1, <3>4, <4>1, <5>2, <6>1 DEF Midway, Agree, RowCommand
        <5>3. QED
          BY <5>1, <5>2
      <4>5. Agree(t)' /\ CurrentBot(t)'
        BY <3>1, <3>2, <4>3, <4>4 DEF Agree, CurrentBot, InStep
      <4>6. QED
        BY <3>1, <4>1, <4>5, StepAway
    <3>5. QED
      BY <3>3, <3>4
  <2>10. ASSUME NEW h \in Handlers, RemoveTag(h) PROVE InStep(t)'
    <3>1. /\ Moved(h, Idle) /\ req[h] # Idle /\ req[h].at = "delete" /\ InStep(t)
          /\ tags' = [tags EXCEPT ![req[h].tag] = None] /\ UNCHANGED <<commands, guildBot>>
      BY <2>0, <2>1, <2>10, TagMoves DEF RemoveTag, At
    <3>2. CommandsOf(t)' = CommandsOf(t)
      BY <3>1 DEF CommandsOf
    <3>3. CASE req[h].tag # t
      BY <2>0, <2>8, <3>1, <3>2, <3>3 DEF Same, TagsTypes
    <3>4. CASE req[h].tag = t
      <4>1. CommandsOf(t)' = {} /\ IsAt(h, t)
        BY <3>1, <3>2, <3>4 DEF InStep, IsAt, Midway
      <4>2. tags'[t] = None
        BY <2>0, <3>1, <3>4 DEF TagsTypes
      <4>3. Agree(t)' /\ CurrentBot(t)'
        BY <4>1, <4>2 DEF Agree, IdsOf, RowCommand, CurrentBot
      <4>4. QED
        BY <3>1, <4>1, <4>3, StepAway
    <3>5. QED
      BY <3>3, <3>4
  <2>11. ASSUME NEW h \in Handlers, FailTag(h) PROVE InStep(t)'
    <3>1. /\ Moved(h, Idle) /\ req[h] # Idle /\ InStep(t) /\ UNCHANGED <<tags, commands, guildBot>>
          /\ req[h].tag = t /\ req[h].at \in {"set", "delete"} => req[h].command = None
      BY <2>0, <2>1, <2>11, TagMoves DEF FailTag
    <3>2. Same(t)
      BY <2>3, <3>1
    <3>3. CASE req[h].tag # t
      BY <2>8, <3>1, <3>2, <3>3
    <3>4. CASE req[h].tag = t
      <4>1. Midway(h) /\ IsAt(h, t)
        BY <3>1, <3>4 DEF InStep, IsAt
      <4>2. Agree(t)
        BY <2>2, <3>1, <3>4, <4>1 DEF Midway
      <4>3. Agree(t)' /\ CurrentBot(t)'
        BY <3>1, <3>2, <4>2, SameAgrees DEF InStep
      <4>4. QED
        BY <3>1, <4>1, <4>3, StepAway
    <3>5. QED
      BY <3>3, <3>4
  <2>12. ASSUME NEW h \in Handlers, DeleteGuildCommand(h) PROVE InStep(t)'
    <3> DEFINE r == Gone(req[h], "delete")
               k == req[h].command
    <3>1. /\ Moved(h, r) /\ req[h] # Idle /\ req[h].at = "delete command" /\ req[h] \in Deletes
          /\ InStep(t) /\ UNCHANGED <<tags, guildBot>>
      BY <2>0, <2>1, <2>12, TagMoves, IdleIsIdle DEF DeleteGuildCommand
    <3>2. r # Idle /\ r.at = "delete" /\ r.command = k /\ r.tag = req[h].tag
      BY <3>1, DeletedOn
    <3>3. PICK c \in commands : c.bot = guildBot /\ c.id = k /\ commands' = commands \ {c}
      BY <2>12 DEF DeleteGuildCommand
    <3>4. c.tag = req[h].tag
      BY <2>0, <3>1, <3>3 DEF NumbersOwn
    <3> HIDE DEF r
    <3>5. CASE req[h].tag # t
      <4>1. CommandsOf(t)' = CommandsOf(t)
        BY <3>3, <3>4, <3>5 DEF CommandsOf
      <4>2. QED
        BY <3>1, <3>2, <3>5, <4>1, StepElsewhere DEF Same, IsAt
    <3>6. CASE req[h].tag = t
      <4>1. Midway(h) /\ IsAt(h, t)
        BY <3>1, <3>6 DEF InStep, IsAt
      <4>2. IdsOf(t) = {k} /\ k # None
        BY <3>1, <3>6, <4>1 DEF Midway, Agree, RowCommand
      <4>3. ASSUME NEW d \in CommandsOf(t) PROVE d = c
        <5>1. d \in commands /\ d.id = k
          BY <4>2 DEF IdsOf, CommandsOf
        <5>2. QED
          BY <2>0, <3>3, <5>1 DEF CommandsDiffer
      <4>4. CommandsOf(t)' = {}
        BY <3>3, <4>3 DEF CommandsOf
      <4>5. CurrentBot(t)'
        BY <4>4 DEF CurrentBot
      <4>6. Midway(h)'
        <5>1. req'[h] = r
          BY <3>1 DEF Moved
        <5>2. QED
          BY <3>2, <3>6, <4>2, <4>4, <5>1 DEF Midway
      <4>7. QED
        BY <3>1, <3>2, <3>6, <4>1, <4>5, <4>6, StepAt DEF InStep
    <3>7. QED
      BY <3>5, <3>6
  <2>13. ASSUME NEW h \in Handlers, CreateGuildCommand(h) PROVE InStep(t)'
    <3> DEFINE same == {c \in commands : c.bot = req[h].bot /\ c.tag = req[h].tag}
               new == [bot |-> req[h].bot, tag |-> req[h].tag, id |-> made']
    <3>1. /\ req[h].at = "create command" /\ req[h] \in Creates /\ req[h] # Idle /\ InStep(t)
          /\ UNCHANGED <<tags, guildBot>>
      BY <2>0, <2>1, <2>13, TagMoves, IdleIsIdle DEF CreateGuildCommand, Creates
    <3>2. PICK k \in Nat \ {0} :
            /\ Moved(h, Made(req[h], k))
            /\ \/ \E c \in same : k = c.id /\ UNCHANGED commands
               \/ same = {} /\ k = made' /\ commands' = commands \union {new}
      <4>1. made \in Nat /\ \A c \in commands : c.id \in 1 .. made
        BY <2>0 DEF TagsTypes
      <4>2. CASE \E c \in commands : /\ c.bot = req[h].bot /\ c.tag = req[h].tag
                                     /\ Moved(h, Made(req[h], c.id)) /\ UNCHANGED <<made, commands>>
        <5>1. PICK c \in commands : /\ c.bot = req[h].bot /\ c.tag = req[h].tag
                                    /\ Moved(h, Made(req[h], c.id)) /\ UNCHANGED <<made, commands>>
          BY <4>2
        <5>2. c.id \in Nat \ {0}
          BY <4>1
        <5>3. QED
          BY <5>1, <5>2
      <4>3. CASE same = {} /\ made' = made + 1 /\ Moved(h, Made(req[h], made')) /\ commands' = commands \union {new}
        <5>1. made' \in Nat \ {0}
          BY <4>1, <4>3
        <5>2. QED
          BY <4>3, <5>1
      <4>4. QED
        BY <2>0, <2>13, <4>2, <4>3, TagMoves
    <3> DEFINE r == Made(req[h], k)
    <3>3. r # Idle /\ r.at = "set" /\ r.command = k /\ r.tag = req[h].tag
      BY <3>1, MadeOn
    <3> HIDE DEF r
    <3>4. CASE req[h].tag # t
      <4>1. CommandsOf(t)' = CommandsOf(t)
        BY <3>2, <3>4 DEF CommandsOf
      <4>2. QED
        BY <3>1, <3>2, <3>3, <3>4, <4>1, StepElsewhere DEF Same, IsAt, r
    <3>5. CASE req[h].tag = t
      <4>1. Midway(h) /\ IsAt(h, t) /\ CurrentBot(t)
        BY <3>1, <3>5 DEF InStep, IsAt
      <4>2. Agree(t) /\ req[h].bot = guildBot
        BY <3>1, <3>5, <4>1 DEF Midway
      <4>3. same = CommandsOf(t)
        BY <3>5, <4>1, <4>2 DEF CurrentBot, CommandsOf
      <4>4. IdsOf(t)' = {k} /\ CurrentBot(t)' /\ RowCommand(t) \subseteq {k}
        <5>1. CASE \E c \in same : k = c.id /\ UNCHANGED commands
          <6>1. PICK c \in same : k = c.id /\ UNCHANGED commands
            BY <5>1
          <6>2. CommandsOf(t) = {c}
            BY <2>0, <4>3 DEF CommandsDiffer
          <6>3. CommandsOf(t)' = {c} /\ IdsOf(t) = {k}
            BY <6>1, <6>2 DEF CommandsOf, IdsOf
          <6>4. QED
            BY <3>1, <4>1, <4>2, <6>1, <6>2, <6>3 DEF IdsOf, CurrentBot, Agree
        <5>2. CASE same = {} /\ k = made' /\ commands' = commands \union {new}
          <6>1. new.id = k /\ new.tag = t /\ new.bot = guildBot
            BY <3>5, <4>2, <5>2
          <6> HIDE DEF new
          <6>2. CommandsOf(t) = {} /\ CommandsOf(t)' = {new}
            BY <4>3, <5>2, <6>1 DEF CommandsOf
          <6>3. RowCommand(t) = {}
            BY <4>2, <6>2 DEF Agree, IdsOf
          <6>4. QED
            BY <3>1, <6>1, <6>2, <6>3 DEF IdsOf, CurrentBot
        <5>3. QED
          BY <3>2, <5>1, <5>2
      <4>5. RowCommand(t)' = RowCommand(t)
        BY <3>1 DEF RowCommand
      <4>6. Midway(h)'
        <5>1. req'[h] = r /\ k # None
          BY <3>2, NoneAssumption DEF Moved, r
        <5>2. QED
          BY <3>3, <3>5, <4>4, <4>5, <5>1 DEF Midway
      <4>7. QED
        BY <3>1, <3>2, <3>3, <3>5, <4>1, <4>4, <4>6, StepAt DEF InStep, r
    <3>6. QED
      BY <3>4, <3>5
  <2>14. QED
    BY <1>2, <2>4, <2>5, <2>6, <2>7, <2>9, <2>10, <2>11, <2>12, <2>13 DEF TagsNext
<1>3. QED
  BY <1>1, <1>2, Following

LEMMA TagsStart == ServicesInit => TagsInv /\ InStepInv
<1> SUFFICES ASSUME ServicesInit PROVE TagsInv /\ InStepInv
  OBVIOUS
<1> USE DEF ServicesInit, Init, TagsInit
<1>1. TagsTypes /\ CommandsDiffer
  BY DEF TagsTypes, CommandsDiffer
<1>2. TagRequests /\ NumbersOwn
  BY DEF TagRequests, TagReq, NumbersOwn
<1>3. ASSUME NEW t \in TagIds PROVE InStep(t)
  BY DEF InStep, CurrentBot, CommandsOf, IsAt, Agree, IdsOf, RowCommand
<1>4. QED
  BY <1>1, <1>2, <1>3 DEF TagsInv, InStepInv

\* While nobody is at a tag, its row and the one command of its name name each other, so
\* that the tag can be deleted and leaves no command behind, for any number of tags,
\* commands and requests that did not meet (createtag.go, deletetag.go).
THEOREM TagsKeepCommands == Spec => []TagsAndCommandsAgree
<1>1. ServicesInit => BaseInv /\ TagsInv /\ InStepInv
  BY TagsStart, BaseStart
<1>2. BaseInv /\ TagsInv /\ InStepInv /\ [Next]_vars => (BaseInv /\ TagsInv /\ InStepInv)'
  BY BaseStep, TagsStep, InStepStep DEF Counts
<1>3. InStepInv => TagsAndCommandsAgree
  BY DEF InStepInv, InStep, IsAt, Agree, IdsOf, CommandsOf, RowCommand, TagsAndCommandsAgree
<1>4. QED
  BY <1>1, <1>2, <1>3, PTL DEF Spec
----
(* Whitelabel *)

PostReqs ==
    {q \in [op : {"WhitelabelPost"}, bot : Bots, existing : Bots \union {None},
            at : {"take offline", "set", "endpoint", "token", "interactions"}] :
       q.at = "take offline" => q.existing \in Bots}
StatusReqs == [op : {"WhitelabelStatus"}, bot : Bots, status : Statuses \union {None}, at : {"status"}]
BotReq == {Idle} \union PostReqs \union StatusReqs

Message == [kind : {"token", "delete", "status"}, bot : Bots]

BotTypes ==
    /\ bot \in Bots \union {None}
    /\ status \in [Bots -> Statuses \union {None}] /\ shows \in [Bots -> Statuses \union {None}]
    /\ bus \in Seq(Message) /\ running \subseteq Bots
    /\ detached \subseteq [kind : {"delete", "status"}, bot : Bots, id : Nat]
    /\ cut \in BOOLEAN /\ unordered \in BOOLEAN

BotInv ==
    /\ BotTypes
    /\ about = "bot" => req \in [Handlers -> BotReq]
    /\ about # "bot" => bot = None /\ running = {}

\* None of the publications starts or stops the bot.
Undecided(s, x) == \A i \in 1 .. Len(s) : s[i].bot = x => s[i].kind = "status"

\* The publication that decides whether a bot runs, among those that are still unread.
Decides(s, i, x) ==
    /\ i \in 1 .. Len(s) /\ s[i].bot = x /\ s[i].kind # "status"
    /\ \A j \in 1 .. Len(s) : j > i /\ s[j].bot = x => s[j].kind = "status"

\* Whether a bot runs once the sharder has read all of them.
WillRun(s, r, x) ==
    \/ \E i \in 1 .. Len(s) : Decides(s, i, x) /\ s[i].kind = "token"
    \/ x \in r /\ Undecided(s, x)

\* The bots that run then, and those whose deletion is still to be published.
Started == {x \in Bots : WillRun(bus, running, x)}
Stopping == {d.bot : d \in {e \in detached : e.kind = "delete"}}

Posts(h) == req[h] # Idle /\ req[h].op = "WhitelabelPost"

\* What a save of a bot has read and done: the row's bot runs but between its two
\* publications.
PostStands(h) ==
    /\ req[h].bot \notin Stopping
    /\ req[h].at \in {"take offline", "set"} => req[h].existing = bot
    /\ req[h].at = "take offline" => bot # None /\ bot # req[h].bot
    /\ req[h].at \in {"endpoint", "token", "interactions"} => bot = req[h].bot
    /\ req[h].at = "set" /\ bot # None /\ bot # req[h].bot => bot \notin Started
    /\ req[h].at = "set" /\ bot = req[h].bot => bot \in Started
    /\ req[h].at \in {"take offline", "interactions"} => bot \in Started

\* Saves come one at a time and not beside a deletion, and a bot that is deleted stops
\* when its publication is out.
RowStands ==
    /\ bot # None => bot \notin Stopping
    /\ Started \ {bot} \subseteq Stopping

BotsInOrder ==
    /\ \A g, h \in Handlers : Posts(g) /\ Posts(h) => g = h
    /\ \A h \in Handlers : Posts(h) => PostStands(h)
    /\ (\A h \in Handlers : ~Posts(h)) /\ bot # None => bot \in Started
    /\ RowStands

BotsInv == about = "bot" /\ ~cut /\ ~unordered => BotsInOrder

\* A status that is not shown is on its way.
Coming(x) ==
    \/ \E i \in 1 .. Len(bus) : bus[i].bot = x /\ bus[i].kind \in {"token", "status"}
    \/ \E d \in detached : d.kind = "status" /\ d.bot = x

StatusesArrive == \A x \in Bots : shows[x] # status[x] => Coming(x)

\* A publication at the end decides for its bot, and for no other.
LEMMA WillAppend ==
    ASSUME NEW s \in Seq(Message), NEW m \in Message, NEW r, NEW x
    PROVE  WillRun(Append(s, m), r, x) <=>
             IF m.bot = x /\ m.kind # "status" THEN m.kind = "token" ELSE WillRun(s, r, x)
<1> DEFINE t == Append(s, m)
           n == Len(s)
<1>1. n \in Nat /\ Len(t) = n + 1 /\ t[n + 1] = m /\ \A i \in 1 .. n : t[i] = s[i]
  OBVIOUS
<1>2. \A i : i \in 1 .. n + 1 <=> i \in 1 .. n \/ i = n + 1
  BY <1>1
<1>3. \A i \in 1 .. n : n + 1 > i /\ i # n + 1
  BY <1>1
<1>4. \A i \in 1 .. n + 1 : ~(i > n + 1)
  BY <1>1
<1> HIDE DEF t, n
<1>5. Undecided(t, x) <=> Undecided(s, x) /\ (m.bot = x => m.kind = "status")
  BY <1>1, <1>2, <1>3 DEF Undecided, n
<1>6. Decides(t, n + 1, x) <=> m.bot = x /\ m.kind # "status"
  BY <1>1, <1>2, <1>4 DEF Decides
<1>7. ASSUME NEW i \in 1 .. n
      PROVE  Decides(t, i, x) <=> Decides(s, i, x) /\ (m.bot = x => m.kind = "status")
  <2>1. i \in 1 .. n + 1 /\ n + 1 > i /\ t[i] = s[i]
    BY <1>1, <1>2, <1>3
  <2>2. (\A j \in 1 .. n + 1 : j > i /\ t[j].bot = x => t[j].kind = "status")
          <=> /\ \A j \in 1 .. n : j > i /\ s[j].bot = x => s[j].kind = "status"
              /\ m.bot = x => m.kind = "status"
    BY <1>1, <1>2, <2>1
  <2>3. QED
    BY <1>1, <1>7, <2>1, <2>2 DEF Decides, n
<1>8. WillRun(t, r, x) <=>
        \/ Decides(t, n + 1, x) /\ m.kind = "token"
        \/ \E i \in 1 .. n : Decides(t, i, x) /\ s[i].kind = "token"
        \/ x \in r /\ Undecided(t, x)
  BY <1>1, <1>2 DEF WillRun
<1>9. WillRun(t, r, x) <=> IF m.bot = x /\ m.kind # "status" THEN m.kind = "token" ELSE WillRun(s, r, x)
  BY <1>5, <1>6, <1>7, <1>8 DEF WillRun, n
<1>10. QED
  BY <1>9 DEF t

\* Reading the next publication, and doing what it says, leaves what will run as it was.
Read(m, r) ==
    CASE m.kind = "token"  -> r \union {m.bot}
      [] m.kind = "delete" -> r \ {m.bot}
      [] OTHER             -> r

LEMMA WillTail ==
    ASSUME NEW s \in Seq(Message), s # <<>>, NEW r, NEW x
    PROVE  WillRun(Tail(s), Read(Head(s), r), x) <=> WillRun(s, r, x)
<1> DEFINE t == Tail(s)
           m == Head(s)
           n == Len(t)
<1>1. n \in Nat /\ Len(s) = n + 1 /\ s[1] = m /\ (\A i \in 1 .. n : t[i] = s[i + 1]) /\ m \in Message
  OBVIOUS
<1>2. \A i : i \in 1 .. n + 1 <=> i = 1 \/ \E j \in 1 .. n : i = j + 1
  BY <1>1
<1>3. \A i, j \in 1 .. n : (j + 1 > i + 1 <=> j > i) /\ i + 1 > 1 /\ ~(1 > i + 1)
  BY <1>1
<1> DEFINE Next1(i) == i + 1
<1>11. \A i \in 1 .. n : Next1(i) \in 1 .. n + 1 /\ t[i] = s[Next1(i)] /\ Next1(i) > 1 /\ ~(1 > Next1(i))
  BY <1>1
<1>12. \A i \in 1 .. n + 1 : i = 1 \/ \E j \in 1 .. n : i = Next1(j)
  BY <1>2
<1>13. \A i, j \in 1 .. n : Next1(j) > Next1(i) <=> j > i
  BY <1>1
<1>14. 1 \in 1 .. n + 1 /\ s[1] = m /\ Len(s) = n + 1 /\ Len(t) = n /\ ~(1 > 1)
  BY <1>1
<1> HIDE DEF t, n, m, Next1
<1>4. Undecided(s, x) <=> Undecided(t, x) /\ (m.bot = x => m.kind = "status")
  <2>1. Undecided(s, x) <=> \A i \in 1 .. n + 1 : s[i].bot = x => s[i].kind = "status"
    BY <1>14 DEF Undecided
  <2>2. Undecided(t, x) <=> \A i \in 1 .. n : s[Next1(i)].bot = x => s[Next1(i)].kind = "status"
    BY <1>14, <1>11 DEF Undecided
  <2>3. QED
    BY <2>1, <2>2, <1>11, <1>12, <1>14, Zenon
<1>5. Decides(s, 1, x) <=> m.bot = x /\ m.kind # "status" /\ Undecided(t, x)
  <2>1. Decides(s, 1, x) <=> /\ m.bot = x /\ m.kind # "status"
                             /\ \A j \in 1 .. n + 1 : j > 1 /\ s[j].bot = x => s[j].kind = "status"
    BY <1>14 DEF Decides
  <2>2. Undecided(t, x) <=> \A i \in 1 .. n : s[Next1(i)].bot = x => s[Next1(i)].kind = "status"
    BY <1>14, <1>11 DEF Undecided
  <2>3. QED
    BY <2>1, <2>2, <1>11, <1>12, <1>14, Zenon
<1>6. ASSUME NEW i \in 1 .. n PROVE Decides(s, Next1(i), x) <=> Decides(t, i, x)
  <2>1. Decides(s, Next1(i), x) <=> /\ s[Next1(i)].bot = x /\ s[Next1(i)].kind # "status"
                                 /\ \A j \in 1 .. n + 1 : j > Next1(i) /\ s[j].bot = x => s[j].kind = "status"
    BY <1>11, <1>14 DEF Decides
  <2>2. Decides(t, i, x) <=> /\ s[Next1(i)].bot = x /\ s[Next1(i)].kind # "status"
                             /\ \A j \in 1 .. n : j > i /\ s[Next1(j)].bot = x => s[Next1(j)].kind = "status"
    BY <1>14, <1>11, <1>6 DEF Decides
  <2>3. ASSUME \A j \in 1 .. n + 1 : j > Next1(i) /\ s[j].bot = x => s[j].kind = "status"
        PROVE  \A j \in 1 .. n : j > i /\ s[Next1(j)].bot = x => s[Next1(j)].kind = "status"
    BY <2>3, <1>6, <1>11, <1>13
  <2>4. ASSUME \A j \in 1 .. n : j > i /\ s[Next1(j)].bot = x => s[Next1(j)].kind = "status"
        PROVE  \A j \in 1 .. n + 1 : j > Next1(i) /\ s[j].bot = x => s[j].kind = "status"
    BY <2>4, <1>6, <1>11, <1>12, <1>13
  <2>5. QED
    BY <2>1, <2>2, <2>3, <2>4
<1>7. WillRun(s, r, x) <=>
        \/ Decides(s, 1, x) /\ m.kind = "token"
        \/ \E i \in 1 .. n : Decides(s, Next1(i), x) /\ t[i].kind = "token"
        \/ x \in r /\ Undecided(s, x)
  <2>1. WillRun(s, r, x) <=> \/ \E i \in 1 .. n + 1 : Decides(s, i, x) /\ s[i].kind = "token"
                             \/ x \in r /\ Undecided(s, x)
    BY <1>14 DEF WillRun
  <2>2. ASSUME NEW j \in 1 .. n
        PROVE  Decides(s, Next1(j), x) /\ t[j].kind = "token"
                 => \E i \in 1 .. n + 1 : Decides(s, i, x) /\ s[i].kind = "token"
    BY <2>2, <1>11
  <2>3. ASSUME NEW i \in 1 .. n + 1, Decides(s, i, x), s[i].kind = "token"
        PROVE  \/ Decides(s, 1, x) /\ m.kind = "token"
               \/ \E j \in 1 .. n : Decides(s, Next1(j), x) /\ t[j].kind = "token"
    BY <2>3, <1>11, <1>12, <1>14
  <2>4. QED
    BY <2>1, <2>2, <2>3, <1>14
<1>8. x \in Read(m, r) <=> IF m.bot = x /\ m.kind # "status" THEN m.kind = "token" ELSE x \in r
  BY <1>1 DEF Read, Message
<1>9. WillRun(t, Read(m, r), x) <=> WillRun(s, r, x)
  BY <1>4, <1>5, <1>6, <1>7, <1>8 DEF WillRun, n
<1>10. QED
  BY <1>9 DEF t, m

LEMMA BotReqs ==
    ASSUME NEW q \in BotReq
    PROVE  /\ q = Idle <=> q.at = "idle"
           /\ q # Idle /\ q.op = "WhitelabelPost" => q \in PostReqs
           /\ q.at \in {"take offline", "set", "endpoint", "token", "interactions"} => q \in PostReqs
           /\ q.at = "status" => q \in StatusReqs
<1>1. CASE q = Idle
  BY <1>1, IdleIsIdle
<1>2. CASE q \in PostReqs
  BY <1>2, IdleIsIdle DEF PostReqs
<1>3. CASE q \in StatusReqs
  BY <1>3, IdleIsIdle DEF StatusReqs
<1>4. QED
  BY <1>1, <1>2, <1>3 DEF BotReq

LEMMA PostOn ==
    ASSUME NEW q \in PostReqs
    PROVE  /\ q \in BotReq /\ q # Idle /\ q.op = "WhitelabelPost" /\ q.bot \in Bots
           /\ \A at \in {"set", "endpoint", "token", "interactions"} :
                /\ Gone(q, at) \in PostReqs /\ Gone(q, at).at = at
                /\ Gone(q, at).bot = q.bot /\ Gone(q, at).existing = q.existing
<1>1. \A at \in {"set", "endpoint", "token", "interactions"} :
        /\ Gone(q, at) \in PostReqs /\ Gone(q, at).at = at
        /\ Gone(q, at).bot = q.bot /\ Gone(q, at).existing = q.existing
  BY DEF PostReqs, Gone
<1>2. q.at # "idle" /\ q.op = "WhitelabelPost" /\ q.bot \in Bots
  BY DEF PostReqs
<1>3. QED
  BY <1>1, <1>2, IdleIsIdle DEF BotReq

\* A save of the bot b begins, when the row names the bot e.
Save(b, e) == [op |-> "WhitelabelPost", bot |-> b, existing |-> e,
               at |-> IF TakesOffline(e, b) THEN "take offline" ELSE "set"]
StatusOf(b, s) == [op |-> "WhitelabelStatus", bot |-> b, status |-> s, at |-> "status"]

LEMMA Begun ==
    ASSUME NEW b \in Bots
    PROVE  /\ \A e \in Bots \union {None} :
                /\ Save(b, e) \in PostReqs /\ Save(b, e).bot = b /\ Save(b, e).existing = e
                /\ Save(b, e).at = IF e # None /\ e # b THEN "take offline" ELSE "set"
           /\ \A s \in Statuses \union {None} :
                StatusOf(b, s) \in StatusReqs /\ StatusOf(b, s).op # "WhitelabelPost"
  BY DEF Save, StatusOf, PostReqs, StatusReqs, TakesOffline

\* Where the steps of a request leave it.
LEMMA BotMoves ==
    ASSUME req \in [Handlers -> BotReq], NEW h \in Handlers
    PROVE  /\ \A b \in Bots : BeginPost(h, b) => req[h] = Idle /\ Moved(h, Save(b, bot))
           /\ TakeOffline(h) => /\ req[h] \in PostReqs /\ req[h].at = "take offline"
                                /\ Moved(h, Gone(req[h], "set"))
           /\ SetBot(h) => /\ req[h] \in PostReqs /\ req[h].at = "set"
                           /\ Moved(h, Gone(req[h], "endpoint"))
           /\ EditCurrentApplication(h) => /\ req[h] \in PostReqs /\ req[h].at = "endpoint"
                                           /\ Moved(h, Gone(req[h], "token"))
           /\ RefuseApplication(h) => req[h] \in PostReqs /\ Moved(h, Idle)
           /\ PublishTokenChange(h) => /\ req[h] \in PostReqs /\ req[h].at = "token"
                                       /\ Moved(h, Gone(req[h], "interactions"))
           /\ CreateInteractions(h) => req[h] \in PostReqs /\ req[h].at = "interactions" /\ Moved(h, Idle)
           /\ FailPost(h) => req[h] \in PostReqs /\ Moved(h, Idle)
           /\ WhitelabelDelete(h) => req[h] = Idle /\ Moved(h, Idle)
           /\ \A s \in Statuses \union {None} : BeginStatus(h, s) => req[h] = Idle /\ Moved(h, StatusOf(bot, s))
           /\ WriteStatus(h) \/ FailStatus(h) => req[h] \in StatusReqs /\ Moved(h, Idle)
<1>1. req[h] \in BotReq
  OBVIOUS
<1>2. \A b \in Bots : BeginPost(h, b) => req[h] = Idle /\ Moved(h, Save(b, bot))
  BY Moves DEF BeginPost, Save
<1>3. /\ TakeOffline(h) => /\ req[h] \in PostReqs /\ req[h].at = "take offline"
                           /\ Moved(h, Gone(req[h], "set"))
      /\ SetBot(h) => /\ req[h] \in PostReqs /\ req[h].at = "set"
                      /\ Moved(h, Gone(req[h], "endpoint"))
      /\ EditCurrentApplication(h) => /\ req[h] \in PostReqs /\ req[h].at = "endpoint"
                                      /\ Moved(h, Gone(req[h], "token"))
      /\ PublishTokenChange(h) => /\ req[h] \in PostReqs /\ req[h].at = "token"
                                  /\ Moved(h, Gone(req[h], "interactions"))
  BY <1>1, BotReqs, Moves DEF TakeOffline, SetBot, EditCurrentApplication, PublishTokenChange, At
<1>4. /\ RefuseApplication(h) => req[h] \in PostReqs /\ Moved(h, Idle)
      /\ CreateInteractions(h) => req[h] \in PostReqs /\ req[h].at = "interactions" /\ Moved(h, Idle)
      /\ FailPost(h) => req[h] \in PostReqs /\ Moved(h, Idle)
  BY <1>1, BotReqs, Moves DEF RefuseApplication, CreateInteractions, FailPost, At
<1>5. /\ WhitelabelDelete(h) => req[h] = Idle /\ Moved(h, Idle)
      /\ \A s \in Statuses \union {None} : BeginStatus(h, s) => req[h] = Idle /\ Moved(h, StatusOf(bot, s))
  BY Moves DEF WhitelabelDelete, BeginStatus, StatusOf
<1>6. WriteStatus(h) \/ FailStatus(h) => req[h] \in StatusReqs /\ Moved(h, Idle)
  BY <1>1, BotReqs, Moves DEF WriteStatus, FailStatus, At
<1>7. QED
  BY <1>2, <1>3, <1>4, <1>5, <1>6

LEMMA BotStep == BotInv /\ BaseInv /\ [Next]_vars => BotInv'
<1> SUFFICES ASSUME BotInv, BaseInv, [Next]_vars PROVE BotInv'
  OBVIOUS
<1>1. CASE UNCHANGED whitelabelVars /\ (about = "bot" => UNCHANGED base)
  BY <1>1, Following DEF BotInv, BotTypes, whitelabelVars, sharderVars, base
<1>2. CASE about = "bot" /\ WhitelabelNext
  <2>0. BotTypes /\ about' = "bot" /\ req \in [Handlers -> BotReq] /\ requests \in Nat
    BY <1>2, Following DEF BotInv, BaseInv
  <2>1. SUFFICES BotTypes' /\ req' \in [Handlers -> BotReq]
    BY <2>0 DEF BotInv
  <2>2. ASSUME NEW h \in Handlers, NEW r \in BotReq, Moved(h, r)
        PROVE  req' \in [Handlers -> BotReq]
    BY <2>0, <2>2 DEF Moved
  <2>3. Idle \in BotReq
    BY DEF BotReq
  <2>4. \A k \in {"token", "delete", "status"}, b \in Bots : Publish(k, b) => bus' \in Seq(Message)
    BY <2>0 DEF Publish, Message, BotTypes
  <2>5. \A k \in {"delete", "status"}, b \in Bots :
          Detach(k, b) => detached' \subseteq [kind : {"delete", "status"}, bot : Bots, id : Nat]
    BY <2>0 DEF Detach, BotTypes
  <2>6. ASSUME NEW h \in Handlers, NEW b \in Bots, BeginPost(h, b)
        PROVE  BotTypes' /\ req' \in [Handlers -> BotReq]
    <3>1. Save(b, bot) \in BotReq /\ Moved(h, Save(b, bot))
      BY <2>0, <2>6, Begun, PostOn, BotMoves DEF BotTypes
    <3>2. QED
      BY <2>0, <2>2, <2>6, <3>1 DEF BeginPost, BotTypes, sharderVars
  <2>7. ASSUME NEW h \in Handlers,
               TakeOffline(h) \/ SetBot(h) \/ EditCurrentApplication(h) \/ PublishTokenChange(h)
        PROVE  BotTypes' /\ req' \in [Handlers -> BotReq]
    <3>1. req[h] \in PostReqs /\ \E at \in {"set", "endpoint", "token", "interactions"} : Moved(h, Gone(req[h], at))
      BY <2>0, <2>7, BotMoves
    <3>2. req' \in [Handlers -> BotReq]
      BY <2>2, <3>1, PostOn
    <3>3. req[h].bot \in Bots
      BY <3>1, PostOn
    <3>4. CASE TakeOffline(h)
      <4>1. Publish("delete", req[h].existing) /\ UNCHANGED <<bot, status, detached, sharderVars, cut, unordered>>
        BY <3>4 DEF TakeOffline
      <4>2. req[h].existing \in Bots
        BY <2>0, <3>4, BotMoves DEF PostReqs
      <4>3. QED
        BY <4>1, <4>2, <2>0, <2>4, <3>2 DEF BotTypes, sharderVars
    <3>5. CASE SetBot(h) \/ EditCurrentApplication(h)
      BY <2>0, <3>2, <3>3, <3>5 DEF SetBot, EditCurrentApplication, BotTypes, sharderVars, whitelabelVars
    <3>6. CASE PublishTokenChange(h)
      BY <2>0, <2>4, <3>2, <3>3, <3>6 DEF PublishTokenChange, BotTypes, sharderVars
    <3>7. QED
      BY <2>7, <3>4, <3>5, <3>6
  <2>8. ASSUME NEW h \in Handlers, RefuseApplication(h) \/ CreateInteractions(h) \/ FailPost(h) \/ FailStatus(h)
        PROVE  BotTypes' /\ req' \in [Handlers -> BotReq]
    <3>1. req' \in [Handlers -> BotReq]
      BY <2>0, <2>2, <2>3, <2>8, BotMoves
    <3>2. QED
      BY <2>0, <2>8, <3>1
      DEF RefuseApplication, CreateInteractions, FailPost, FailStatus, BotTypes, sharderVars, whitelabelVars
  <2>9. ASSUME NEW h \in Handlers, WhitelabelDelete(h) \/ WriteStatus(h)
        PROVE  BotTypes' /\ req' \in [Handlers -> BotReq]
    <3>1. req' \in [Handlers -> BotReq]
      BY <2>0, <2>2, <2>3, <2>9, BotMoves
    <3>2. CASE WhitelabelDelete(h)
      <4>1. bot \in Bots /\ Detach("delete", bot)
        BY <2>0, <3>2 DEF WhitelabelDelete, BotTypes
      <4>2. QED
        BY <2>0, <2>5, <3>1, <3>2, <4>1 DEF WhitelabelDelete, BotTypes, sharderVars
    <3>3. CASE WriteStatus(h)
      <4>1. req[h] \in StatusReqs
        BY <2>0, <3>3, BotMoves
      <4>2. req[h].bot \in Bots /\ req[h].status \in Statuses \union {None}
        BY <4>1 DEF StatusReqs
      <4>3. status' \in [Bots -> Statuses \union {None}]
        BY <2>0, <3>3, <4>2 DEF WriteStatus, BotTypes
      <4>4. QED
        BY <2>0, <2>5, <3>1, <3>3, <4>2, <4>3 DEF WriteStatus, BotTypes, sharderVars
    <3>4. QED
      BY <2>9, <3>2, <3>3
  <2>10. ASSUME NEW h \in Handlers, NEW s \in Statuses \union {None}, BeginStatus(h, s)
         PROVE  BotTypes' /\ req' \in [Handlers -> BotReq]
    <3>1. bot \in Bots
      BY <2>0, <2>10 DEF BeginStatus, BotTypes
    <3>2. StatusOf(bot, s) \in BotReq /\ Moved(h, StatusOf(bot, s))
      BY <2>0, <2>10, <3>1, Begun, BotMoves DEF BotReq
    <3>3. QED
      BY <2>0, <2>2, <2>10, <3>2 DEF BeginStatus, BotTypes, sharderVars, whitelabelVars
  <2>11. CASE PublishDetached
    <3>1. PICK d \in detached : Publish(d.kind, d.bot) /\ detached' = detached \ {d}
      BY <2>11 DEF PublishDetached
    <3>2. d.kind \in {"delete", "status"} /\ d.bot \in Bots
      BY <2>0 DEF BotTypes
    <3>3. bus' \in Seq(Message)
      BY <2>4, <3>1, <3>2
    <3>4. QED
      BY <2>0, <2>11, <3>1, <3>3 DEF PublishDetached, BotTypes, sharderVars, base
  <2>12. CASE Sharder
    <3>1. Head(bus) \in Message /\ bus' \in Seq(Message)
      BY <2>0, <2>12 DEF Sharder, BotTypes
    <3>2. Head(bus).bot \in Bots
      BY <3>1 DEF Message
    <3>3. running' \subseteq Bots
      BY <2>0, <2>12, <3>2 DEF Sharder, BotTypes
    <3>4. shows' \in [Bots -> Statuses \union {None}]
      BY <2>0, <2>12, <3>2 DEF Sharder, BotTypes
    <3>5. QED
      BY <2>0, <2>12, <3>1, <3>3, <3>4 DEF Sharder, BotTypes, base
  <2>13. QED
    BY <1>2, <2>6, <2>7, <2>8, <2>9, <2>10, <2>11, <2>12 DEF WhitelabelNext
<1>3. QED
  BY <1>1, <1>2, Following

\* What a publication, and the sharder's reading one, do to what will run.
LEMMA RunsOn ==
    ASSUME BotTypes
    PROVE  /\ UNCHANGED <<bus, running>> => Started' = Started
           /\ \A b \in Bots : running' = running =>
                /\ Publish("token", b) => Started' = Started \union {b}
                /\ Publish("delete", b) => Started' = Started \ {b}
                /\ Publish("status", b) => Started' = Started
           /\ Sharder => Started' = Started
<1>1. UNCHANGED <<bus, running>> => Started' = Started
  BY DEF Started
<1>2. ASSUME NEW k \in {"token", "delete", "status"}, NEW b \in Bots, Publish(k, b), running' = running, NEW x
      PROVE  WillRun(bus', running', x)
               <=> IF b = x /\ k # "status" THEN k = "token" ELSE WillRun(bus, running, x)
  <2> DEFINE m == [kind |-> k, bot |-> b]
  <2>1. m \in Message /\ m.kind = k /\ m.bot = b /\ bus' = Append(bus, m) /\ bus \in Seq(Message)
    BY <1>2 DEF Publish, Message, BotTypes
  <2> HIDE DEF m
  <2>2. WillRun(Append(bus, m), running, x)
          <=> IF m.bot = x /\ m.kind # "status" THEN m.kind = "token" ELSE WillRun(bus, running, x)
    BY <2>1, WillAppend
  <2>3. QED
    BY <1>2, <2>1, <2>2
<1>3. ASSUME NEW b \in Bots, running' = running
      PROVE  /\ Publish("token", b) => Started' = Started \union {b}
             /\ Publish("delete", b) => Started' = Started \ {b}
             /\ Publish("status", b) => Started' = Started
  <2>1. ASSUME Publish("token", b), NEW x \in Bots
        PROVE  WillRun(bus', running', x) <=> WillRun(bus, running, x) \/ x = b
    BY <1>2, <1>3, <2>1
  <2>2. ASSUME Publish("delete", b), NEW x \in Bots
        PROVE  WillRun(bus', running', x) <=> WillRun(bus, running, x) /\ x # b
    BY <1>2, <1>3, <2>2
  <2>3. ASSUME Publish("status", b), NEW x \in Bots
        PROVE  WillRun(bus', running', x) <=> WillRun(bus, running, x)
    BY <1>2, <1>3, <2>3
  <2>4. QED
    BY <2>1, <2>2, <2>3 DEF Started
<1>4. ASSUME Sharder, NEW x PROVE WillRun(bus', running', x) <=> WillRun(bus, running, x)
  <2>1. bus # <<>> /\ bus' = Tail(bus) /\ running' = Read(Head(bus), running) /\ bus \in Seq(Message)
    BY <1>4 DEF Sharder, Read, BotTypes
  <2>2. WillRun(Tail(bus), Read(Head(bus), running), x) <=> WillRun(bus, running, x)
    BY <2>1, WillTail
  <2>3. QED
    BY <2>1, <2>2
<1>5. QED
  BY <1>1, <1>3, <1>4 DEF Started

\* Steps that are not of a save.
LEMMA BotsKept ==
    ASSUME BotsInOrder, bot \in Bots \union {None}, bot' = bot,
           \A h \in Handlers : /\ Posts(h)' <=> Posts(h)
                               /\ Posts(h) => req'[h] = req[h] /\ req[h].bot \in Bots,
           Stopping' \subseteq Stopping, Started' \subseteq Started,
           Started \ Stopping \subseteq Started', Started' \ Stopping' \subseteq Started \ Stopping
    PROVE  BotsInOrder'
<1>1. RowStands'
  BY DEF BotsInOrder, RowStands
<1>2. bot # None => (bot \in Started' <=> bot \in Started)
  BY DEF BotsInOrder, RowStands
<1>3. ASSUME NEW h \in Handlers, Posts(h) PROVE PostStands(h)'
  <2>1. PostStands(h) /\ req'[h] = req[h] /\ req[h].bot \in Bots
    BY <1>3 DEF BotsInOrder
  <2>2. req[h].bot # None
    BY <2>1, WhitelabelAssumption
  <2>3. bot = None \/ (bot \in Started' <=> bot \in Started)
    BY <1>2
  <2>4. QED
    BY <2>1, <2>2, <2>3 DEF PostStands
<1>4. QED
  BY <1>1, <1>2, <1>3 DEF BotsInOrder

\* What goroutines are left to publish.
LEMMA StoppingOn ==
    /\ \A b : Detach("delete", b) => Stopping' = Stopping \union {b}
    /\ \A b : Detach("status", b) => Stopping' = Stopping
    /\ UNCHANGED detached => Stopping' = Stopping
    /\ \A b : b \in Stopping =>
         [kind |-> "delete", bot |-> b] \in {[kind |-> d.kind, bot |-> d.bot] : d \in detached}
<1>1. /\ \A b : Detach("status", b) => Stopping' = Stopping
      /\ UNCHANGED detached => Stopping' = Stopping
  BY DEF Stopping, Detach
<1>2. ASSUME NEW b, Detach("delete", b) PROVE Stopping' = Stopping \union {b}
  <2> DEFINE d == [kind |-> "delete", bot |-> b, id |-> requests]
  <2>1. detached' = detached \union {d} /\ d.kind = "delete" /\ d.bot = b
    BY <1>2 DEF Detach
  <2> HIDE DEF d
  <2>2. ASSUME NEW x \in Stopping \union {b} PROVE x \in Stopping'
    <3>1. \E e \in detached' : e.kind = "delete" /\ e.bot = x
      BY <2>1, <2>2 DEF Stopping
    <3>2. QED
      BY <3>1 DEF Stopping
  <2>3. QED
    BY <2>1, <2>2 DEF Stopping
<1>3. ASSUME NEW b \in Stopping
      PROVE  [kind |-> "delete", bot |-> b] \in {[kind |-> d.kind, bot |-> d.bot] : d \in detached}
  <2>1. PICK d \in detached : d.kind = "delete" /\ d.bot = b
    BY DEF Stopping
  <2>2. QED
    BY <2>1
<1>4. QED
  BY <1>1, <1>2, <1>3

\* Who saves a bot, before a step of h and after it.
LEMMA PostsOn ==
    ASSUME req \in [Handlers -> BotReq], NEW h \in Handlers, NEW r, Moved(h, r)
    PROVE  /\ req'[h] = r
           /\ \A g \in Handlers \ {h} : req'[g] = req[g]
           /\ Posts(h)' <=> r # Idle /\ r.op = "WhitelabelPost"
           /\ \A g \in Handlers \ {h} : Posts(g)' <=> Posts(g)
           /\ \A g \in Handlers : Posts(g) => req[g] \in PostReqs
           /\ Writing <=> \E g \in Handlers : Posts(g)
<1>1. req'[h] = r /\ \A g \in Handlers \ {h} : req'[g] = req[g]
  BY DEF Moved
<1>2. /\ Posts(h)' <=> r # Idle /\ r.op = "WhitelabelPost"
      /\ \A g \in Handlers \ {h} : Posts(g)' <=> Posts(g)
  BY <1>1 DEF Posts
<1>3. /\ \A g \in Handlers : Posts(g) => req[g] \in PostReqs
      /\ Writing <=> \E g \in Handlers : Posts(g)
  BY BotReqs DEF Posts, Writing
<1>4. QED
  BY <1>1, <1>2, <1>3

\* A step of the only save, at the end of which the save stands or is over.
LEMMA OneSaves ==
    ASSUME req \in [Handlers -> BotReq], NEW h \in Handlers, NEW r, Moved(h, r),
           \A g \in Handlers \ {h} : ~Posts(g),
           IF r # Idle /\ r.op = "WhitelabelPost" THEN PostStands(h)' ELSE bot' # None => bot' \in Started',
           RowStands'
    PROVE  BotsInOrder'
<1>1. \A g \in Handlers \ {h} : ~Posts(g)'
  BY PostsOn
<1>2. Posts(h)' <=> r # Idle /\ r.op = "WhitelabelPost"
  BY PostsOn
<1>3. QED
  BY <1>1, <1>2 DEF BotsInOrder

LEMMA BotsStep == BotsInv /\ BotInv /\ BaseInv /\ [Next]_vars => BotsInv'
<1> SUFFICES ASSUME BotsInv, BotInv, BaseInv, [Next]_vars PROVE BotsInv'
  OBVIOUS
<1>1. CASE UNCHANGED whitelabelVars /\ (about = "bot" => UNCHANGED base)
  BY <1>1, Following
  DEF BotsInv, BotsInOrder, RowStands, PostStands, Posts, Started, Stopping, whitelabelVars, sharderVars, base
<1>2. CASE about = "bot" /\ WhitelabelNext
  <2>0. BotTypes /\ req \in [Handlers -> BotReq] /\ bot \in Bots \union {None}
    BY <1>2 DEF BotInv, BotTypes
  <2>1. SUFFICES ASSUME ~cut', ~unordered', ~cut /\ ~unordered => BotsInOrder PROVE BotsInOrder'
    BY <1>2 DEF BotsInv
  <2>2. None \notin Bots
    BY WhitelabelAssumption
  \* A save is the only one, and the bot of the row runs unless there is one.
  <2>3. ASSUME ~cut, ~unordered, NEW h \in Handlers, Posts(h)
        PROVE  /\ PostStands(h) /\ RowStands /\ req[h] \in PostReqs
               /\ \A g \in Handlers \ {h} : ~Posts(g)
    BY <2>0, <2>1, <2>3, PostsOn, BotReqs DEF BotsInOrder, Posts
  <2>4. ASSUME ~cut, ~unordered, ~Writing
        PROVE  /\ bot # None => bot \in Started
               /\ RowStands /\ \A g \in Handlers : ~Posts(g)
    BY <2>1, <2>4 DEF BotsInOrder, Posts, Writing
  <2>5. ASSUME NEW h \in Handlers, NEW b \in Bots, BeginPost(h, b) PROVE BotsInOrder'
    <3>1. ~cut /\ ~unordered /\ ~Writing /\ b \notin Stopping
          /\ UNCHANGED <<bot, bus, detached, running>> /\ Moved(h, Save(b, bot))
      BY <2>0, <2>1, <2>5, BotMoves, StoppingOn DEF BeginPost, sharderVars
    <3>2. Started' = Started /\ Stopping' = Stopping
      BY <2>0, <3>1, RunsOn, StoppingOn
    <3>3. /\ Save(b, bot) # Idle /\ Save(b, bot).op = "WhitelabelPost"
          /\ Save(b, bot).bot = b /\ Save(b, bot).existing = bot
          /\ Save(b, bot).at = IF bot # None /\ bot # b THEN "take offline" ELSE "set"
      BY <2>0, Begun, PostOn
    <3>4. req'[h] = Save(b, bot)
      BY <2>0, <3>1, PostsOn
    <3>5. RowStands' /\ PostStands(h)'
      BY <2>2, <2>4, <3>1, <3>2, <3>3, <3>4 DEF RowStands, PostStands
    <3>6. QED
      BY <2>0, <2>4, <3>1, <3>3, <3>5, OneSaves
  <2>6. ASSUME NEW h \in Handlers, TakeOffline(h) PROVE BotsInOrder'
    <3> DEFINE r == Gone(req[h], "set")
    <3>1. /\ ~cut /\ ~unordered /\ UNCHANGED <<bot, detached, running>>
          /\ req[h] \in PostReqs /\ req[h].at = "take offline" /\ Moved(h, r)
          /\ Publish("delete", req[h].existing)
      BY <2>0, <2>1, <2>6, BotMoves DEF TakeOffline, sharderVars
    <3>2. /\ r # Idle /\ r.op = "WhitelabelPost" /\ r.at = "set"
          /\ r.bot = req[h].bot /\ r.existing = req[h].existing
      BY <3>1, PostOn
    <3>3. req'[h] = r
      BY <3>1 DEF Moved
    <3>10. Posts(h)
      BY <3>1, PostOn DEF Posts
    <3> HIDE DEF r
    <3>4. PostStands(h) /\ RowStands /\ \A g \in Handlers \ {h} : ~Posts(g)
      BY <2>3, <3>1, <3>10
    <3>5. req[h].existing = bot /\ bot # None /\ bot # req[h].bot
      BY <3>1, <3>4 DEF PostStands
    <3>6. Started' = Started \ {bot} /\ Stopping' = Stopping
      BY <2>0, <3>1, <3>5, RunsOn, StoppingOn
    <3>7. RowStands' /\ PostStands(h)'
      BY <3>1, <3>2, <3>3, <3>4, <3>5, <3>6 DEF RowStands, PostStands
    <3>8. QED
      BY <2>0, <3>1, <3>2, <3>4, <3>7, OneSaves
  <2>7. ASSUME NEW h \in Handlers, SetBot(h) PROVE BotsInOrder'
    <3> DEFINE r == Gone(req[h], "endpoint")
    <3>1. /\ ~cut /\ ~unordered /\ UNCHANGED <<bus, detached, running>> /\ bot' = req[h].bot
          /\ req[h] \in PostReqs /\ req[h].at = "set" /\ Moved(h, r)
      BY <2>0, <2>1, <2>7, BotMoves DEF SetBot, sharderVars
    <3>2. r # Idle /\ r.op = "WhitelabelPost" /\ r.at = "endpoint" /\ r.bot = req[h].bot
      BY <3>1, PostOn
    <3>3. req'[h] = r
      BY <3>1 DEF Moved
    <3>10. Posts(h)
      BY <3>1, PostOn DEF Posts
    <3> HIDE DEF r
    <3>4. PostStands(h) /\ RowStands /\ \A g \in Handlers \ {h} : ~Posts(g)
      BY <2>3, <3>1, <3>10
    <3>5. Started' = Started /\ Stopping' = Stopping
      BY <2>0, <3>1, RunsOn, StoppingOn
    <3>6. bot = req[h].bot \/ bot = None \/ bot \notin Started
      BY <3>1, <3>4 DEF PostStands
    <3>7. Started \ {req[h].bot} \subseteq Stopping
      BY <2>2, <3>4, <3>6 DEF RowStands, Started
    <3>8. RowStands' /\ PostStands(h)'
      BY <3>1, <3>2, <3>3, <3>4, <3>5, <3>7 DEF RowStands, PostStands
    <3>9. QED
      BY <2>0, <3>1, <3>2, <3>4, <3>8, OneSaves
  <2>8. ASSUME NEW h \in Handlers, EditCurrentApplication(h) PROVE BotsInOrder'
    <3> DEFINE r == Gone(req[h], "token")
    <3>1. /\ ~cut /\ ~unordered /\ UNCHANGED <<bot, bus, detached, running>>
          /\ req[h] \in PostReqs /\ req[h].at = "endpoint" /\ Moved(h, r)
      BY <2>0, <2>1, <2>8, BotMoves DEF EditCurrentApplication, whitelabelVars, sharderVars
    <3>2. r # Idle /\ r.op = "WhitelabelPost" /\ r.at = "token" /\ r.bot = req[h].bot
      BY <3>1, PostOn
    <3>3. req'[h] = r
      BY <3>1 DEF Moved
    <3>10. Posts(h)
      BY <3>1, PostOn DEF Posts
    <3> HIDE DEF r
    <3>4. PostStands(h) /\ RowStands /\ \A g \in Handlers \ {h} : ~Posts(g)
      BY <2>3, <3>1, <3>10
    <3>5. Started' = Started /\ Stopping' = Stopping
      BY <2>0, <3>1, RunsOn, StoppingOn
    <3>6. RowStands' /\ PostStands(h)'
      BY <3>1, <3>2, <3>3, <3>4, <3>5 DEF RowStands, PostStands
    <3>7. QED
      BY <2>0, <3>1, <3>2, <3>4, <3>6, OneSaves
  <2>9. ASSUME NEW h \in Handlers, PublishTokenChange(h) PROVE BotsInOrder'
    <3> DEFINE r == Gone(req[h], "interactions")
    <3>1. /\ ~cut /\ ~unordered /\ UNCHANGED <<bot, detached, running>>
          /\ req[h] \in PostReqs /\ req[h].at = "token" /\ Moved(h, r) /\ Publish("token", req[h].bot)
      BY <2>0, <2>1, <2>9, BotMoves DEF PublishTokenChange, sharderVars
    <3>2. /\ r # Idle /\ r.op = "WhitelabelPost" /\ r.at = "interactions" /\ r.bot = req[h].bot
          /\ req[h].bot \in Bots
      BY <3>1, PostOn
    <3>3. req'[h] = r
      BY <3>1 DEF Moved
    <3>10. Posts(h)
      BY <3>1, PostOn DEF Posts
    <3> HIDE DEF r
    <3>4. PostStands(h) /\ RowStands /\ \A g \in Handlers \ {h} : ~Posts(g)
      BY <2>3, <3>1, <3>10
    <3>5. Started' = Started \union {req[h].bot} /\ Stopping' = Stopping /\ bot = req[h].bot
      BY <2>0, <3>1, <3>2, <3>4, RunsOn, StoppingOn DEF PostStands
    <3>6. RowStands' /\ PostStands(h)'
      BY <3>1, <3>2, <3>3, <3>4, <3>5 DEF RowStands, PostStands
    <3>7. QED
      BY <2>0, <3>1, <3>2, <3>4, <3>6, OneSaves
  <2>10. ASSUME NEW h \in Handlers, RefuseApplication(h) \/ CreateInteractions(h) \/ FailPost(h) PROVE BotsInOrder'
    <3>1. ~RefuseApplication(h)
      BY <2>1 DEF RefuseApplication
    <3>2. /\ ~cut /\ ~unordered /\ UNCHANGED <<bot, bus, detached, running>>
          /\ req[h] \in PostReqs /\ Moved(h, Idle)
      <4>1. req[h] \in PostReqs /\ Moved(h, Idle)
        BY <2>0, <2>10, BotMoves
      <4>2. CASE CreateInteractions(h)
        BY <2>1, <4>1, <4>2 DEF CreateInteractions, whitelabelVars, sharderVars
      <4>3. CASE FailPost(h)
        <5>1. cut => cut'
          BY <4>3 DEF FailPost
        <5>2. QED
          BY <2>1, <4>1, <4>3, <5>1 DEF FailPost, sharderVars
      <4>4. QED
        BY <2>10, <3>1, <4>2, <4>3
    <3>3. Posts(h)
      BY <3>2, PostOn DEF Posts
    <3>4. PostStands(h) /\ RowStands /\ \A g \in Handlers \ {h} : ~Posts(g)
      BY <2>3, <3>2, <3>3
    <3>5. Started' = Started /\ Stopping' = Stopping
      BY <2>0, <3>2, RunsOn, StoppingOn
    <3>6. bot # None => bot \in Started
      <4>1. req[h].at \in {"take offline", "set", "endpoint", "token", "interactions"}
        BY <3>2 DEF PostReqs
      <4>2. CASE CreateInteractions(h)
        BY <4>2, <3>4 DEF CreateInteractions, At, PostStands
      <4>3. CASE FailPost(h)
        BY <2>1, <4>1, <4>3, <3>4 DEF FailPost, At, PostStands, TakesOffline
      <4>4. QED
        BY <2>10, <3>1, <4>2, <4>3
    <3>7. RowStands'
      BY <3>2, <3>4, <3>5 DEF RowStands
    <3>8. QED
      BY <2>0, <3>2, <3>4, <3>5, <3>6, <3>7, OneSaves
  <2>11. ASSUME NEW h \in Handlers, WhitelabelDelete(h) PROVE BotsInOrder'
    <3>1. /\ ~cut /\ ~unordered /\ ~Writing /\ UNCHANGED <<bus, running>> /\ bot # None /\ bot' = None
          /\ Detach("delete", bot) /\ Moved(h, Idle)
      BY <2>0, <2>1, <2>11, BotMoves DEF WhitelabelDelete, sharderVars
    <3>2. Started' = Started /\ Stopping' = Stopping \union {bot}
      BY <2>0, <3>1, RunsOn, StoppingOn
    <3>3. RowStands'
      BY <2>4, <3>1, <3>2 DEF RowStands
    <3>4. QED
      BY <2>0, <2>4, <3>1, <3>3, OneSaves
  <2>12. ASSUME NEW h \in Handlers,
                \/ \E s \in Statuses \union {None} : BeginStatus(h, s)
                \/ WriteStatus(h) \/ FailStatus(h)
         PROVE  BotsInOrder'
    <3>1. PICK r : Moved(h, r) /\ ~(r # Idle /\ r.op = "WhitelabelPost")
      <4>1. ASSUME NEW s \in Statuses \union {None}, BeginStatus(h, s)
            PROVE  Moved(h, StatusOf(bot, s)) /\ StatusOf(bot, s).op # "WhitelabelPost"
        <5>1. bot \in Bots
          BY <2>0, <4>1 DEF BeginStatus
        <5>2. Moved(h, StatusOf(bot, s))
          BY <2>0, <4>1, BotMoves
        <5>3. StatusOf(bot, s).op # "WhitelabelPost"
          BY DEF StatusOf
        <5>4. QED
          BY <5>2, <5>3
      <4>2. WriteStatus(h) \/ FailStatus(h) => Moved(h, Idle)
        BY <2>0, BotMoves
      <4>3. QED
        BY <2>12, <4>1, <4>2
    <3>2. ~Posts(h)
      <4>1. req[h] = Idle \/ req[h] \in StatusReqs
        BY <2>0, <2>12, BotMoves
      <4>2. QED
        BY <4>1 DEF Posts, StatusReqs
    <3>3. UNCHANGED <<bot, bus, running, cut, unordered>>
      BY <2>12 DEF BeginStatus, WriteStatus, FailStatus, whitelabelVars, sharderVars
    <3>4. Stopping' = Stopping
      BY <2>12, StoppingOn DEF BeginStatus, WriteStatus, FailStatus, whitelabelVars
    <3>5. Started' = Started
      BY <2>0, <3>3, RunsOn
    <3>6. \A g \in Handlers : /\ Posts(g)' <=> Posts(g)
                              /\ Posts(g) => req'[g] = req[g] /\ req[g].bot \in Bots
      BY <2>0, <3>1, <3>2, PostsOn, PostOn
    <3>7. QED
      BY <2>0, <2>1, <3>3, <3>4, <3>5, <3>6, BotsKept
  <2>13. CASE PublishDetached \/ Sharder
    <3>1. UNCHANGED <<req, bot>> /\ ~cut /\ ~unordered
      BY <2>1, <2>13 DEF PublishDetached, Sharder, base
    <3>2. \A g \in Handlers : /\ Posts(g)' <=> Posts(g)
                              /\ Posts(g) => req'[g] = req[g] /\ req[g].bot \in Bots
      BY <2>0, <3>1, BotReqs, PostOn DEF Posts
    <3>3. /\ Stopping' \subseteq Stopping /\ Started' \subseteq Started
          /\ Started \ Stopping \subseteq Started' /\ Started' \ Stopping' \subseteq Started \ Stopping
      <4>1. CASE Sharder
        <5>1. Stopping' = Stopping /\ Started' = Started
          BY <2>0, <4>1, RunsOn, StoppingOn DEF Sharder
        <5>2. QED
          BY <5>1
      <4>2. CASE PublishDetached
        <5>1. PICK d \in detached : Publish(d.kind, d.bot) /\ detached' = detached \ {d}
          BY <4>2 DEF PublishDetached
        <5>2. d.kind \in {"delete", "status"} /\ d.bot \in Bots /\ running' = running
          BY <2>0, <4>2 DEF PublishDetached, BotTypes, sharderVars
        <5>3. Stopping' \subseteq Stopping /\ Stopping \subseteq Stopping' \union {d.bot}
          BY <5>1 DEF Stopping
        <5>4. CASE d.kind = "status"
          <6>1. Stopping' = Stopping
            BY <5>1, <5>4 DEF Stopping
          <6>2. QED
            BY <2>0, <5>1, <5>2, <5>4, <6>1, RunsOn
        <5>5. CASE d.kind = "delete"
          <6>1. Started' = Started \ {d.bot}
            BY <2>0, <5>1, <5>2, <5>5, RunsOn
          <6>2. d.bot \in Stopping
            BY <5>5 DEF Stopping
          <6>3. QED
            BY <5>3, <6>1, <6>2
        <5>6. QED
          BY <5>2, <5>4, <5>5
      <4>3. QED
        BY <2>13, <4>1, <4>2
    <3>4. QED
      BY <2>0, <2>1, <3>1, <3>2, <3>3, BotsKept
  <2>14. QED
    BY <1>2, <2>5, <2>6, <2>7, <2>8, <2>9, <2>10, <2>11, <2>12, <2>13 DEF WhitelabelNext
<1>3. QED
  BY <1>1, <1>2, Following

LEMMA StatusesStep == StatusesArrive /\ BotInv /\ BaseInv /\ [Next]_vars => StatusesArrive'
<1> SUFFICES ASSUME StatusesArrive, BotInv, BaseInv, [Next]_vars PROVE StatusesArrive'
  OBVIOUS
<1>1. CASE UNCHANGED whitelabelVars /\ (about = "bot" => UNCHANGED base)
  BY <1>1 DEF StatusesArrive, Coming, whitelabelVars, sharderVars
<1>2. CASE about = "bot" /\ WhitelabelNext
  <2>0. BotTypes /\ req \in [Handlers -> BotReq]
    BY <1>2 DEF BotInv
  <2>1. ASSUME UNCHANGED <<status, shows>>, \A x \in Bots : Coming(x) => Coming(x)'
        PROVE  StatusesArrive'
    BY <2>1 DEF StatusesArrive
  \* What is published comes behind what is there.
  <2>2. ASSUME NEW k \in {"token", "delete", "status"}, NEW b \in Bots, Publish(k, b), NEW x \in Bots
        PROVE  /\ (\E i \in 1 .. Len(bus) : bus[i].bot = x /\ bus[i].kind \in {"token", "status"})
                    => \E i \in 1 .. Len(bus') : bus'[i].bot = x /\ bus'[i].kind \in {"token", "status"}
               /\ k = "status" /\ b = x
                    => \E i \in 1 .. Len(bus') : bus'[i].bot = x /\ bus'[i].kind \in {"token", "status"}
    <3> DEFINE m == [kind |-> k, bot |-> b]
    <3>1. bus' = Append(bus, m) /\ bus \in Seq(Message) /\ m.kind = k /\ m.bot = b /\ m \in Message
      BY <2>0, <2>2 DEF Publish, BotTypes, Message
    <3> HIDE DEF m
    <3>2. /\ Len(bus') = Len(bus) + 1 /\ Len(bus) \in Nat
          /\ bus'[Len(bus) + 1] = m /\ \A i \in 1 .. Len(bus) : bus'[i] = bus[i]
      BY <3>1
    <3>3. 1 .. Len(bus) \subseteq 1 .. Len(bus') /\ Len(bus) + 1 \in 1 .. Len(bus')
      BY <3>2
    <3>4. QED
      BY <3>1, <3>2, <3>3
  <2>3. ASSUME NEW h \in Handlers,
               \/ \E b \in Bots : BeginPost(h, b)
               \/ SetBot(h) \/ EditCurrentApplication(h) \/ RefuseApplication(h)
               \/ CreateInteractions(h) \/ FailPost(h)
               \/ \E s \in Statuses \union {None} : BeginStatus(h, s)
               \/ FailStatus(h)
        PROVE  StatusesArrive'
    <3>1. UNCHANGED <<status, shows, bus, detached>>
      BY <2>3 DEF BeginPost, SetBot, EditCurrentApplication, RefuseApplication, CreateInteractions, FailPost,
                  BeginStatus, FailStatus, whitelabelVars, sharderVars
    <3>2. QED
      BY <3>1 DEF StatusesArrive, Coming
  <2>4. ASSUME NEW h \in Handlers, TakeOffline(h) \/ PublishTokenChange(h) PROVE StatusesArrive'
    <3>1. PICK k \in {"token", "delete"}, b \in Bots : Publish(k, b)
      <4>1. CASE TakeOffline(h)
        <5>1. req[h].existing \in Bots
          BY <2>0, <4>1, BotMoves DEF PostReqs
        <5>2. QED
          BY <4>1, <5>1 DEF TakeOffline
      <4>2. CASE PublishTokenChange(h)
        <5>1. req[h].bot \in Bots
          BY <2>0, <4>2, BotMoves, PostOn
        <5>2. QED
          BY <4>2, <5>1 DEF PublishTokenChange
      <4>3. QED
        BY <2>4, <4>1, <4>2
    <3>2. UNCHANGED <<status, shows, detached>>
      BY <2>4 DEF TakeOffline, PublishTokenChange, sharderVars
    <3>3. QED
      BY <2>1, <2>2, <3>1, <3>2 DEF Coming
  <2>5. ASSUME NEW h \in Handlers, WhitelabelDelete(h) PROVE StatusesArrive'
    <3>1. UNCHANGED <<status, shows, bus>> /\ detached \subseteq detached'
      BY <2>5 DEF WhitelabelDelete, Detach, sharderVars
    <3>2. QED
      BY <2>1, <3>1 DEF Coming
  <2>6. ASSUME NEW h \in Handlers, WriteStatus(h) PROVE StatusesArrive'
    <3> DEFINE d == [kind |-> "status", bot |-> req[h].bot, id |-> requests]
    <3>1. UNCHANGED <<shows, bus>> /\ detached' = detached \union {d} /\ d.kind = "status" /\ d.bot = req[h].bot
      BY <2>6 DEF WriteStatus, Detach, sharderVars
    <3> HIDE DEF d
    <3>2. \A x \in Bots : x # req[h].bot => status'[x] = status[x]
      BY <2>0, <2>6 DEF WriteStatus, BotTypes
    <3>3. \A x \in Bots : x = req[h].bot \/ Coming(x) => Coming(x)'
      BY <3>1 DEF Coming
    <3>4. QED
      BY <3>1, <3>2, <3>3 DEF StatusesArrive
  <2>7. CASE PublishDetached
    <3>1. PICK d \in detached : Publish(d.kind, d.bot) /\ detached' = detached \ {d}
      BY <2>7 DEF PublishDetached
    <3>2. d.kind \in {"delete", "status"} /\ d.bot \in Bots /\ UNCHANGED <<status, shows>>
      BY <2>0, <2>7 DEF PublishDetached, BotTypes, sharderVars
    <3>3. ASSUME NEW x \in Bots, Coming(x) PROVE Coming(x)'
      BY <2>2, <3>1, <3>2, <3>3 DEF Coming
    <3>4. QED
      BY <2>1, <3>2, <3>3
  <2>8. CASE Sharder
    <3> DEFINE m == Head(bus)
    <3>1. /\ bus # <<>> /\ bus' = Tail(bus) /\ UNCHANGED <<status, detached>> /\ bus \in Seq(Message)
          /\ shows' = IF m.kind = "delete" THEN shows ELSE [shows EXCEPT ![m.bot] = status[m.bot]]
      BY <2>0, <2>8 DEF Sharder, BotTypes
    <3>2. /\ Len(bus') \in Nat /\ Len(bus) = Len(bus') + 1 /\ bus[1] = m
          /\ \A i \in 1 .. Len(bus') : bus'[i] = bus[i + 1]
      BY <3>1
    <3>3. \A i \in 1 .. Len(bus) : i = 1 \/ \E j \in 1 .. Len(bus') : bus[i] = bus'[j]
      <4>1. \A i \in 1 .. Len(bus) : i = 1 \/ (i - 1 \in 1 .. Len(bus') /\ i = (i - 1) + 1)
        BY <3>2
      <4>2. QED
        BY <3>2, <4>1
    <3> HIDE DEF m
    <3>4. ASSUME NEW x \in Bots, shows'[x] # status[x] PROVE Coming(x)'
      <4>1. shows[x] # status[x] /\ ~(m.bot = x /\ m.kind # "delete")
        BY <2>0, <3>1, <3>4 DEF BotTypes
      <4>2. Coming(x)
        BY <4>1 DEF StatusesArrive
      <4>3. ASSUME NEW i \in 1 .. Len(bus), bus[i].bot = x, bus[i].kind \in {"token", "status"}
            PROVE  \E j \in 1 .. Len(bus') : bus'[j].bot = x /\ bus'[j].kind \in {"token", "status"}
        BY <3>2, <3>3, <4>1, <4>3
      <4>4. QED
        BY <3>1, <4>2, <4>3 DEF Coming
    <3>5. QED
      BY <3>1, <3>4 DEF StatusesArrive
  <2>9. QED
    BY <1>2, <2>3, <2>4, <2>5, <2>6, <2>7, <2>8 DEF WhitelabelNext
<1>3. QED
  BY <1>1, <1>2, Following

LEMMA BotStart == ServicesInit => BotInv /\ BotsInv /\ StatusesArrive
<1> SUFFICES ASSUME ServicesInit PROVE BotInv /\ BotsInv /\ StatusesArrive
  OBVIOUS
<1>1. /\ bot \in Bots \union {None} /\ (about # "bot" => bot = None) /\ running = {bot} \ {None}
      /\ status = [b \in Bots |-> None] /\ shows = status /\ bus = <<>> /\ detached = {}
      /\ cut = FALSE /\ unordered = FALSE /\ req = [h \in Handlers |-> Idle]
  BY DEF ServicesInit, Init, WhitelabelInit
<1>2. BotInv
  <2>1. bus \in Seq(Message) /\ req \in [Handlers -> BotReq] /\ running \subseteq Bots
    BY <1>1 DEF BotReq
  <2>2. status \in [Bots -> Statuses \union {None}] /\ (bot = None => running = {})
    BY <1>1
  <2>3. QED
    BY <1>1, <2>1, <2>2 DEF BotInv, BotTypes
<1>3. BotsInv
  <2>1. Stopping = {} /\ \A h \in Handlers : ~Posts(h)
    BY <1>1 DEF Stopping, Posts
  <2>2. 1 .. Len(bus) = {}
    BY <1>1
  <2>3. \A x : WillRun(bus, running, x) <=> x \in running
    BY <2>2 DEF WillRun, Undecided
  <2>4. Started = {bot} \ {None}
    BY <1>1, <2>3, WhitelabelAssumption DEF Started
  <2>5. QED
    BY <1>1, <2>1, <2>4 DEF BotsInv, BotsInOrder, RowStands
<1>4. StatusesArrive
  BY <1>1 DEF StatusesArrive
<1>5. QED
  BY <1>2, <1>3, <1>4

\* The bot of the account's row runs with its stored status, and no other does, once all
\* that was published has been read and no save was cut short or met another request.
THEOREM TheStoredBotRuns == Spec => []StoredBotRuns
<1>1. ServicesInit => BaseInv /\ BotInv /\ BotsInv /\ StatusesArrive
  BY BotStart, BaseStart
<1>2. BaseInv /\ BotInv /\ BotsInv /\ StatusesArrive /\ [Next]_vars
        => (BaseInv /\ BotInv /\ BotsInv /\ StatusesArrive)'
  BY BaseStep, BotStep, BotsStep, StatusesStep DEF Counts
<1>3. ASSUME BotInv, BotsInv, StatusesArrive PROVE StoredBotRuns
  <2>1. SUFFICES ASSUME Quiet, bus = <<>>, detached = {}, ~cut, ~unordered
                 PROVE  running = {bot} \ {None} /\ \A b \in running : shows[b] = status[b]
    BY DEF StoredBotRuns
  <2>2. running \subseteq Bots /\ bot \in Bots \union {None} /\ None \notin Bots
    BY <1>3, WhitelabelAssumption DEF BotInv, BotTypes
  <2>3. 1 .. Len(bus) = {}
    BY <2>1
  <2>4. \A x \in Bots : ~Coming(x)
    BY <2>1, <2>3 DEF Coming
  <2>5. \A x : WillRun(bus, running, x) <=> x \in running
    BY <2>3 DEF WillRun, Undecided
  <2>6. Started = running
    BY <2>2, <2>5 DEF Started
  <2>7. Stopping = {} /\ \A h \in Handlers : ~Posts(h)
    BY <2>1 DEF Stopping, Posts, Quiet
  <2>8. CASE about = "bot"
    <3>1. BotsInOrder
      BY <1>3, <2>1, <2>8 DEF BotsInv
    <3>2. QED
      BY <1>3, <2>2, <2>4, <2>6, <2>7, <3>1 DEF BotsInOrder, RowStands, StatusesArrive
  <2>9. CASE about # "bot"
    BY <1>3, <2>2, <2>4, <2>9 DEF BotInv, StatusesArrive
  <2>10. QED
    BY <2>8, <2>9
<1>4. QED
  BY <1>1, <1>2, <1>3, PTL DEF Spec
----
(* The types of all five *)

\* Only the behaviours that are about sessions trade refresh tokens.
SpentInv == about # "sessions" => spent = {}

LEMMA SpentStep == SpentInv /\ BaseInv /\ [Next]_vars => SpentInv'
<1> SUFFICES ASSUME SpentInv, BaseInv, [Next]_vars PROVE SpentInv'
  OBVIOUS
<1>1. about' = about /\ (about = "sessions" \/ UNCHANGED sessionVars)
  BY Following
<1>2. QED
  BY <1>1 DEF SpentInv, sessionVars

\* Rows, requests and publications of the five components are what the code makes them,
\* for any number of handlers, bots, statuses and tags.
THEOREM ServicesTypes == Spec => []TypeOK
<1> DEFINE Inv == /\ BaseInv /\ BotInv /\ SessionsInv /\ SpentInv /\ MessagesInv /\ SentInv
                  /\ IntegrationsInv /\ TagsInv
<1>1. ServicesInit => Inv
  <2>1. ServicesInit => SpentInv
    BY DEF ServicesInit, SessionsInit, SpentInv
  <2>2. QED
    BY <2>1, BaseStart, BotStart, SessionsStart, MessagesStart, IntegrationsStart, TagsStart
<1>2. Inv /\ [Next]_vars => Inv'
  BY BaseStep, BotStep, SessionsStep, SpentStep, MessagesStep, IntegrationsStep, TagsStep DEF Counts
<1>3. Inv => TypeOK
  <2> SUFFICES ASSUME Inv PROVE TypeOK
    OBVIOUS
  <2>1. WhitelabelTypeOK
    <3>1. \A i \in DOMAIN bus : bus[i] \in Message
      BY DEF BotInv, BotTypes
    <3>2. QED
      BY <3>1 DEF BotInv, BotTypes, Message, WhitelabelTypeOK
  <2>2. TagsTypeOK
    <3>1. \A t \in TagIds : tags[t] # None => tags[t] \in [command : {None} \union (1 .. made)]
      BY DEF TagsInv, TagsTypes, Numbers
    <3>2. QED
      BY <3>1 DEF TagsInv, TagsTypes, CommandsDiffer, TagsTypeOK
  <2>3. MessagesTypeOK
    <3>1. dropping \in 0 .. MaxRequests
      BY RequestsAssumption DEF MessagesInv, MessagesTypes
    <3>2. QED
      BY <3>1 DEF MessagesInv, MessagesTypes, MessagesTypeOK
  <2>4. IntegrationsTypeOK
    BY DEF IntegrationsInv
  <2>5. SessionsTypeOK
    <3>1. \A h \in Handlers : At(h, "store") => req[h].token \notin spent
      BY DEF SessionsInv, SessionsTokens, FreshTokens, Holds, SpentInv
    <3>2. issued <= 2 * MaxRequests
      BY RequestsAssumption DEF SessionsInv, SessionsTypes
    <3>3. QED
      BY <3>1, <3>2 DEF SessionsInv, SessionsTypes, SessionsTypeOK
  <2>6. QED
    BY <2>1, <2>2, <2>3, <2>4, <2>5 DEF TypeOK
<1>4. QED
  <2> HIDE DEF Inv
  <2>1. QED
    BY <1>1, <1>2, <1>3, PTL DEF Spec
====
