---- MODULE MCLiveChat ----
(* Instances of LiveChat: two connections of one guild, to different tickets *)
(* in the first run and to one ticket in the others.                         *)
EXTENDS LiveChat

CONSTANTS c1, c2

MCGuilds == {1}
MCTickets == {1, 2}
MCOneTicket == {1}
MCRoom == [c \in Clients |-> [guild |-> 1, ticket |-> IF c = c1 THEN 1 ELSE 2]]
MCSameRoom == [c \in Clients |-> [guild |-> 1, ticket |-> 1]]
====
