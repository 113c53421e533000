---- MODULE MCGuildQuotas ----
(* Three requests at a time for quotas of one and two rows.  Five keys: the *)
(* most rows that the overshoot allows, and one more.                       *)
EXTENDS GuildQuotas, TLC

CONSTANTS k1, k2, k3, k4, k5, h1, h2, h3

MCKeys == {k1, k2, k3, k4, k5}
MCHandlers == {h1, h2, h3}
MCLimit == [k \in Kinds |-> IF k = "owned" THEN 1 ELSE 2]
MCSymmetry == Permutations(MCKeys) \union Permutations(MCHandlers)
====
