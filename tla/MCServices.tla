---- MODULE MCServices ----
(* Two requests at a time, four in all, about one component each. *)
EXTENDS Services, TLC

CONSTANTS h1, h2, b1, b2, n1, n2, w1, w2, public

MCHandlers == {h1, h2}
MCBots == {b1, b2}
MCTagIds == {n1, n2}
MCGuildBots == {public, b1}
MCWebhooks == {w1, w2}
MCStatuses == {"playing", "watching"}
MCSymmetry == Permutations(MCHandlers) \union Permutations(MCTagIds)
              \union Permutations(MCWebhooks)
====
