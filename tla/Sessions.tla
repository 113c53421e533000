---- MODULE Sessions ----
(***************************************************************************)
(* The session of one account (app/http/session, root/callback.go,         *)
(* root/logout.go, api/reloadguilds.go): the OAuth tokens in Redis, until  *)
(* they expire.  ReloadGuilds trades the refresh token for a new one, after*)
(* which Discord takes the old one no more; a key that Redis drops after   *)
(* ten seconds keeps two of them apart.                                    *)
(***************************************************************************)
EXTENDS Requests

VARIABLES
    session,     \* the refresh token that is stored, or None
    spent,       \* refresh tokens that were traded for new ones
    issued,      \* how many were ever issued
    locked,      \* the key of ReloadGuilds is in Redis
    holdup,      \* a reload was still at its tokens when the key ran out
    lostToken,   \* a request ended between a trade and storing what it got
    turnedAway   \* an account was told to log in again because its token was spent

sessionVars == <<session, spent, issued, locked, holdup, lostToken, turnedAway>>

SessionsInit ==
    /\ session = None /\ spent = {} /\ issued = 0
    /\ locked = FALSE /\ holdup = FALSE /\ lostToken = FALSE /\ turnedAway = FALSE

Reloading == \E h \in Handlers : At(h, "get") \/ At(h, "refresh") \/ At(h, "store")
----
\* CallbackHandler: the code is exchanged, guilds are loaded, the session is stored.
BeginCallback(h) ==
    /\ about = "sessions"
    /\ Begin(h, [at |-> "save", token |-> issued + 1])
    /\ issued' = issued + 1
    /\ UNCHANGED <<session, spent, locked, holdup, lostToken, turnedAway>>

SaveSession(h) ==
    /\ At(h, "save")
    /\ session' = req[h].token
    /\ End(h)
    /\ UNCHANGED <<spent, issued, locked, holdup, lostToken, turnedAway>>

Logout(h) ==
    /\ about = "sessions" /\ session # None
    /\ Begin(h, Idle)
    /\ session' = None
    /\ UNCHANGED <<spent, issued, locked, holdup, lostToken, turnedAway>>
----
\* A plausible bug: the key is set and whether it was there is not looked at.
TakeKeyAnyway == locked' = TRUE

\* SetNX: whoever finds the key is told to try later.
TakeKey == ~locked /\ locked' = TRUE

BeginReload(h) ==
    /\ about = "sessions"
    /\ Begin(h, [at |-> "get"])
    /\ TakeKey
    /\ UNCHANGED <<session, spent, issued, holdup, lostToken, turnedAway>>

\* Without a session the account is told to log in.  A session that is found has not
\* expired, so its token is always traded, but for the second in which it expires.
GetSession(h) ==
    /\ At(h, "get")
    /\ IF session = None THEN End(h)
       ELSE \/ req' = [req EXCEPT ![h] = [at |-> "refresh", token |-> session]] /\ UNCHANGED <<about, requests>>
            \/ End(h)
    /\ UNCHANGED sessionVars

\* A plausible bug: the session keeps the token that was traded.
RefreshTokenKeeps(h) ==
    /\ At(h, "refresh") /\ req[h].token \notin spent
    /\ spent' = spent \union {req[h].token}
    /\ issued' = issued + 1
    /\ Goto(h, "store")
    /\ UNCHANGED <<session, locked, holdup, lostToken, turnedAway>>

RefreshToken(h) ==
    /\ At(h, "refresh") /\ req[h].token \notin spent
    /\ spent' = spent \union {req[h].token}
    /\ issued' = issued + 1
    /\ req' = [req EXCEPT ![h] = [at |-> "store", token |-> issued']]
    /\ UNCHANGED <<about, requests, session, locked, holdup, lostToken, turnedAway>>

\* Discord does not take the token: the client is told to authenticate again.
RefuseToken(h) ==
    /\ At(h, "refresh")
    /\ turnedAway' = (turnedAway \/ req[h].token \in spent)
    /\ End(h)
    /\ UNCHANGED <<session, spent, issued, locked, holdup, lostToken>>

StoreSession(h) ==
    /\ At(h, "store")
    /\ session' = req[h].token
    /\ End(h)
    /\ UNCHANGED <<spent, issued, locked, holdup, lostToken, turnedAway>>

\* A call fails, or the process ends.
FailSession(h) ==
    /\ req[h] # Idle
    /\ lostToken' = (lostToken \/ At(h, "store"))
    /\ End(h)
    /\ UNCHANGED <<session, spent, issued, locked, holdup, turnedAway>>
----
\* Redis drops the key after ten seconds, done or not, and the session when it expires.
KeyExpires ==
    /\ locked
    /\ locked' = FALSE
    /\ holdup' = (holdup \/ Reloading)
    /\ UNCHANGED <<base, session, spent, issued, lostToken, turnedAway>>

SessionExpires ==
    /\ session # None
    /\ session' = None
    /\ UNCHANGED <<base, spent, issued, locked, holdup, lostToken, turnedAway>>

SessionsNext ==
    \/ \E h \in Handlers :
         \/ BeginCallback(h) \/ SaveSession(h) \/ Logout(h)
         \/ BeginReload(h) \/ GetSession(h) \/ RefreshToken(h) \/ RefuseToken(h) \/ StoreSession(h)
         \/ FailSession(h)
    \/ KeyExpires \/ SessionExpires

SessionsTypeOK ==
    /\ session \in {None} \union (1 .. issued)
    /\ spent \subseteq 1 .. issued
    /\ issued <= 2 * MaxRequests
    /\ \A h \in Handlers : At(h, "store") => req[h].token \notin spent

\* Nobody logs in again in vain: no reload finds its refresh token spent by another one,
\* unless a reload outlived its ten seconds, or one ended between the trade and the store.
NobodyReauthenticatesInVain ==
    turnedAway => holdup \/ lostToken
====
