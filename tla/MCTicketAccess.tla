---- MODULE MCTicketAccess ----
(* The on-call role of one team with two removals at a time; or a list of one   *)
(* account's tickets, with any rows of one user and one role beforehand and one *)
(* change while it is made.                                                     *)
EXTENDS TicketAccess, TLC

CONSTANTS u1, u2, owner, r1, t1, t2, p1, p2, h1, h2

MCUsers == {u1, u2, owner}
MCRoles == {r1}
MCTeams == {t1, t2}
MCPanels == {p1, p2}
MCHandlers == {h1, h2}
MCStaff == {u1}
MCBotStaff == {u1}
MCBotAdmins == {u2}
MCTickets == [opener : {u1, u2}, panel : MCPanels \union {None}]
MCSymmetry == Permutations(MCTeams) \union Permutations(MCPanels) \union Permutations(MCHandlers)
====
