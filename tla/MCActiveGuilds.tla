---- MODULE MCActiveGuilds ----
(* A subscription for one server and one for two, three guilds to choose   *)
(* from, two requests at a time.                                           *)
EXTENDS ActiveGuilds

CONSTANTS g1, g2, g3, h1, h2

MCGuilds == {g1, g2, g3}
MCHandlers == {h1, h2}
MCSkus == {"one", "two"}
MCLimit == [s \in MCSkus |-> IF s = "one" THEN 1 ELSE 2]
====
