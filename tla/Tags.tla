---- MODULE Tags ----
(***************************************************************************)
(* Tags and their guild commands (app/http/endpoints/api/tags).  A tag of  *)
(* the premium kind has a slash command on Discord, made before its row and*)
(* deleted before it, with the bot that ContextForGuild names at the time. *)
(***************************************************************************)
EXTENDS Requests

CONSTANTS
    TagIds,
    GuildBots,   \* bots that the guild can have: the public one and whitelabel ones
    MaxTags      \* bound: the code's 200

ASSUME TagsAssumption == MaxTags \in Nat /\ None \notin GuildBots \union [command : Nat \union {None}]

VARIABLES
    guildBot,   \* what ContextForGuild gives; None for a whitelabel bot without a row
    premium,    \* the tier lets the guild have commands
    tags,       \* row of each id: [command], or None; command None without one
    commands,   \* the guild commands Discord has for tags: [bot, tag, id]
    made,
    astray      \* ids whose row and command may differ: a request ended between its
                \* two calls, two met, a row was replaced by one without its command,
                \* or the guild's bot was another

tagVars == <<guildBot, premium, tags, commands, made, astray>>

TagsInit ==
    /\ guildBot \in IF about = "tags" THEN GuildBots ELSE {None}
    /\ premium = (about = "tags")
    /\ tags = [t \in TagIds |-> None]
    /\ commands = {} /\ made = 0 /\ astray = {}

ExistingTags == {t \in TagIds : tags[t] # None}
Meets(h, t) == \E g \in Others(h) : req[g].tag = t
----
\* CreateTag: the count, the body and the tier are checked.
BeginCreateTag(h, t, guildCommand) ==
    /\ Cardinality(ExistingTags) < MaxTags
    /\ guildCommand => premium
    /\ Begin(h, [op |-> "CreateTag", tag |-> t, bot |-> guildBot, command |-> None,
                 at |-> IF guildCommand THEN "create command" ELSE "set"])
    /\ astray' = astray \union (IF Meets(h, t) THEN {t} ELSE {})
    /\ UNCHANGED <<guildBot, premium, tags, commands, made>>

\* A command of the same name is overwritten, and keeps its id.
CreateGuildCommand(h) ==
    LET r == req[h]
        same == {c \in commands : c.bot = r.bot /\ c.tag = r.tag}
    IN
    /\ At(h, "create command") /\ r.bot # None
    /\ \/ /\ same = {}
          /\ made' = made + 1
          /\ commands' = commands \union {[bot |-> r.bot, tag |-> r.tag, id |-> made']}
          /\ req' = [req EXCEPT ![h].command = made', ![h].at = "set"]
       \/ \E c \in same : /\ req' = [req EXCEPT ![h].command = c.id, ![h].at = "set"]
                          /\ UNCHANGED <<made, commands>>
    /\ UNCHANGED <<about, requests, guildBot, premium, tags, astray>>

\* A plausible bug: the row does not keep the id of the command.
WrappedForgets(command) == [command |-> None]

Wrapped(command) == [command |-> command]

\* The row of the id is replaced, if there is one.
SetTag(h) ==
    LET r == req[h]
        former == tags[r.tag]
    IN
    /\ At(h, "set")
    /\ tags' = [tags EXCEPT ![r.tag] = Wrapped(r.command)]
    /\ astray' = astray \union (IF former # None /\ former.command \notin {None, r.command}
                                THEN {r.tag} ELSE {})
    /\ End(h)
    /\ UNCHANGED <<guildBot, premium, commands, made>>
----
BeginDeleteTag(h, t) ==
    /\ tags[t] # None
    /\ Begin(h, [op |-> "DeleteTag", tag |-> t, command |-> tags[t].command,
                 at |-> IF tags[t].command = None THEN "delete" ELSE "delete command"])
    /\ astray' = astray \union (IF Meets(h, t) THEN {t} ELSE {})
    /\ UNCHANGED <<guildBot, premium, tags, commands, made>>

\* Discord takes it from the bot that made it only; another's is unknown, an error
\* that ends the request (FailTag) as it does when it was deleted before.
DeleteGuildCommand(h) ==
    /\ At(h, "delete command")
    /\ \E c \in commands : /\ c.bot = guildBot /\ c.id = req[h].command
                           /\ commands' = commands \ {c}
    /\ Goto(h, "delete")
    /\ UNCHANGED <<guildBot, premium, tags, made, astray>>

RemoveTag(h) ==
    /\ At(h, "delete")
    /\ tags' = [tags EXCEPT ![req[h].tag] = None]
    /\ End(h)
    /\ UNCHANGED <<guildBot, premium, commands, made, astray>>

\* A call fails, or the process ends: only between the two calls does it matter.
FailTag(h) ==
    /\ req[h] # Idle
    /\ astray' = astray \union (IF req[h].at \in {"set", "delete"} /\ req[h].command # None
                                THEN {req[h].tag} ELSE {})
    /\ End(h)
    /\ UNCHANGED <<guildBot, premium, tags, commands, made>>
----
\* A whitelabel bot joins, leaves or loses its row.
SwitchBot ==
    /\ about = "tags"
    /\ \E b \in GuildBots \union {None} : guildBot' = b
    /\ guildBot' # guildBot
    /\ astray' = astray \union {c.tag : c \in commands}
                        \union {req[h].tag : h \in {g \in Handlers : req[g] # Idle}}
    /\ UNCHANGED <<base, premium, tags, commands, made>>

PremiumEnds ==
    /\ about = "tags" /\ premium
    /\ premium' = FALSE
    /\ UNCHANGED <<base, guildBot, tags, commands, made, astray>>

TagsNext ==
    \/ \E h \in Handlers :
         \/ \E t \in TagIds : BeginDeleteTag(h, t) \/ \E c \in BOOLEAN : BeginCreateTag(h, t, c)
         \/ CreateGuildCommand(h) \/ SetTag(h) \/ DeleteGuildCommand(h) \/ RemoveTag(h) \/ FailTag(h)
    \/ SwitchBot \/ PremiumEnds

TagsTypeOK ==
    /\ guildBot \in GuildBots \union {None}
    /\ \A t \in TagIds : tags[t] # None => tags[t].command \in {None} \union (1 .. made)
    /\ commands \subseteq [bot : GuildBots, tag : TagIds, id : 1 .. made]
    /\ \A c, d \in commands : c.bot = d.bot /\ c.tag = d.tag => c = d

\* A tag can be deleted, and leaves no command behind: while nobody is at it, the one
\* command of its name is the one its row names, and a row names no command that is not
\* there, which DeleteTag would fail on for ever.
TagsAndCommandsAgree ==
    about = "tags" =>
    \A t \in TagIds \ astray :
      (\A h \in Handlers : req[h] # Idle => req[h].tag # t) =>
        {c.id : c \in {c \in commands : c.tag = t}} =
          (IF tags[t] = None THEN {} ELSE {tags[t].command} \ {None})
====
