---- MODULE MCPanelMessages ----
(* Two requests at a time on two panels and a multi-panel over them.  All    *)
(* properties are invariants, so panels and handlers may be permuted.        *)
EXTENDS PanelMessages, TLC

CONSTANTS p1, p2, m1, h1, h2

MCPanels == {p1, p2}
MCMultis == {m1}
MCHandlers == {h1, h2}
MCChannels == {1, 2}
MCSymmetry == Permutations(MCPanels) \union Permutations(MCHandlers)
====
