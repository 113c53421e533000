---- MODULE MCGuildSettings ----
(* Two requests that may overlap: any value of any settings table, one panel  *)
(* with every body that differs from a plain one in at most one field, beside *)
(* every choice of threads and channel; or schedules of two panels.           *)
EXTENDS SupportHours, TLC

CONSTANTS p1, p2, h1, h2

MCPanels == {p1, p2}
MCHandlers == {h1, h2}

Plain == [title |-> "text", content |-> "text", image |-> None, thumbnail |-> None,
          naming |-> None, channel |-> "text", category |-> "category", emoji |-> "unicode",
          style |-> 1, label |-> "text", form |-> None, exitForm |-> None, teams |-> {},
          welcome |-> [text |-> "text", image |-> None, thumbnail |-> None],
          acl |-> {[role |-> "everyone", action |-> "allow"]}, pending |-> None,
          transcript |-> None, useThreads |-> FALSE, notify |-> None, cooldown |-> 0,
          limit |-> None, mentions |-> <<>>]

Rule(r, a) == [role |-> r, action |-> a]

Values == [title |-> {"", "long"}, content |-> {"", "long"}, image |-> Urls, thumbnail |-> Urls,
           naming |-> {"", "known", "unknown", "malformed", "long"}, channel |-> Channels,
           category |-> Channels,
           emoji |-> {"", "blank", "custom", "custom without id", "custom unknown", "custom renamed"},
           style |-> {0, 5}, label |-> {"", "long"}, form |-> {"own", "other guild's", "missing"},
           exitForm |-> {"own", "other guild's", "missing"},
           teams |-> {{"own"}, {"own", "other guild's"}},
           welcome |-> {None, [text |-> None, image |-> None, thumbnail |-> None],
                        [text |-> "long", image |-> None, thumbnail |-> None],
                        [text |-> None, image |-> "%avatar_url%", thumbnail |-> "bad"],
                        [text |-> None, image |-> "url", thumbnail |-> "%avatar_url%"],
                        [text |-> "text", image |-> None, thumbnail |-> "bad"]},
           acl |-> {{}, {Rule("mod", "allow")}, {Rule("everyone", "other")},
                    {Rule("everyone", "deny"), Rule("mod", "allow")},
                    {Rule("everyone", "deny"), Rule("gone", "allow")},
                    {Rule("everyone", "deny"), Rule("mod", "allow"), Rule("vip", "allow")}},
           pending |-> {"category", "text"}, transcript |-> {"text", "news", "category", "gone"},
           cooldown |-> {-1, 1}, limit |-> {0, 1, 10, 11},
           mentions |-> {<<"user">>, <<"here", "user", "mod">>, <<"mod", "vip">>, <<"gone">>,
                         <<"garbage">>}]

\* The bodies that differ from Plain in threads and channel, and those that do in another field.
InThreads == {[Plain EXCEPT !.useThreads = u, !.notify = c] : u \in BOOLEAN, c \in {None, "text", "news"}}
InAField  == UNION {{[Plain EXCEPT ![f] = v] : v \in Values[f]} : f \in DOMAIN Values}
MCBodies  == InThreads \union InAField

MCEntries == {[day |-> 0, times |-> "ok"], [day |-> 6, times |-> "ok"],
              [day |-> 7, times |-> "ok"], [day |-> 6, times |-> "bad"]}
MCSymmetry == Permutations(MCHandlers) \union Permutations(MCPanels)
====
