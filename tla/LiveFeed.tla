---- MODULE LiveFeed ----
(***************************************************************************)
(* What live-chat promises to the people who watch a ticket, whatever the  *)
(* goroutines of the socket manager do: messages are published to rooms,   *)
(* a connection becomes a member of the room its URL names only when it is *)
(* permitted to view it, and a member's feed grows by messages of its own  *)
(* room, each newer than everything the feed holds.  LiveChat implements   *)
(* this specification.                                                     *)
(***************************************************************************)
EXTENDS Naturals, Sequences

CONSTANTS
    Clients,    \* websocket connections
    Rooms,      \* the tickets of the guilds, one room each
    Room,       \* the room that a connection's URL names
    Permitted   \* connections that may view their room

VARIABLES
    published,  \* the rooms of the messages published so far, in order
    member,     \* connections admitted to their room
    feed        \* the messages each connection got, as positions in published

vars == <<published, member, feed>>

Init ==
    /\ published = <<>>
    /\ member = {}
    /\ feed = [c \in Clients |-> {}]

Publish(r) ==
    /\ published' = Append(published, r)
    /\ UNCHANGED <<member, feed>>

Admit(c) ==
    /\ c \in Permitted
    /\ member' = member \union {c}
    /\ UNCHANGED <<published, feed>>

Deliver(c, m) ==
    /\ c \in member
    /\ m \in 1 .. Len(published)
    /\ published[m] = Room[c]
    /\ \A k \in feed[c] : k < m
    /\ feed' = [feed EXCEPT ![c] = @ \union {m}]
    /\ UNCHANGED <<published, member>>

Next ==
    \/ \E r \in Rooms : Publish(r)
    \/ \E c \in Clients : Admit(c)
    \/ \E c \in Clients : \E m \in 1 .. Len(published) : Deliver(c, m)

Spec == Init /\ [][Next]_vars
====
