---- MODULE PanelBody ----
(***************************************************************************)
(* The body of CreatePanel and UpdatePanel: its defaults, its validators   *)
(* (app/http/endpoints/api/panel/validation.go), the row that each handler *)
(* makes of it, and the body that ListPanels makes of a row again.  Values *)
(* stand for the classes that the code tells apart: "long" is one rune too *)
(* long, "blank" is white space, a channel is named by its type.           *)
(***************************************************************************)
EXTENDS Integers, Sequences, FiniteSets

CONSTANTS
    None,     \* a nil pointer
    AclLimit  \* rules in an access control list: 10

ASSUME PanelBodyAssumption == AclLimit \in Nat \ {0}

TextTypes  == {"text", "news"}
Channels   == {"text", "news", "category", "gone"}   \* "gone" is not in the guild
GuildRoles == {"everyone", "mod", "vip"}             \* @everyone has the guild's id
Urls       == {None, "", "url", "bad", "%avatar_url%"}

Embeds == [text : {None, "text", "long"}, image : Urls, thumbnail : Urls]
Rules  == [role : GuildRoles \union {"gone"}, action : {"allow", "deny", "other"}]

\* What a body may say, field by field.
Body == [
    title      : {"", "default", "text", "long"},
    content    : {"", "default", "text", "long"},
    image      : Urls,
    thumbnail  : Urls,
    naming     : {None, "", "known", "unknown", "malformed", "long"},
    channel    : Channels,
    category   : Channels,
    emoji      : {"", "blank", "unicode", "custom", "custom without id", "custom unknown",
                  "custom renamed"},
    style      : 0 .. 5,
    label      : {"", "blank", "text", "long"},
    form       : {None, "own", "other guild's", "missing"},
    exitForm   : {None, "own", "other guild's", "missing"},
    teams      : SUBSET {"own", "other guild's"},
    welcome    : {None} \union Embeds,
    acl        : SUBSET Rules,
    pending    : Channels \union {None},
    transcript : Channels \union {None},
    useThreads : BOOLEAN,
    notify     : Channels \union {None},             \* TicketNotificationChannel
    cooldown   : -1 .. 1,
    limit      : {None, 0, 1, 10, 11},
    mentions   : Seq({"user", "here", "gone", "garbage"} \union GuildRoles)]
----
(* ApplyPanelDefaults, and what both handlers do after validation *)

EmptyToNone(v) == IF v = "" THEN None ELSE v

Defaults(b) ==
    [f \in DOMAIN b |->
       CASE f \in {"title", "content"} /\ b[f] = ""  -> "default"
         [] f \in {"image", "thumbnail", "naming"} -> EmptyToNone(b[f])
         [] OTHER                                 -> b[f]]

\* A plausible bug: the channel of a panel without threads is kept.
NormalisedKeepsChannel(b) == b

Normalised(b) == [b EXCEPT !.notify = IF b.useThreads THEN @ ELSE None]
----
(* The validators, which run beside each other and must all accept *)

ValidTitle(b)     == b.title # "long"
ValidContent(b)   == b.content # "long"
ValidChannelId(b) == b.channel \in TextTypes
ValidCategory(b)  == b.category = "category"

\* A custom emoji needs an id, of an emoji of the guild by that name.
ValidEmoji(b) == b.emoji \in {"", "blank", "unicode", "custom"}

ValidUrl(u) == u \in {None, "url"}
ValidImageUrl(b)     == ValidUrl(b.image)
ValidThumbnailUrl(b) == ValidUrl(b.thumbnail)

\* Both bounds in one conjunction: no style is refused.
ValidButtonStyle(b) == ~(b.style < 1 /\ b.style > 4)
ValidButtonLabel(b) == b.label # "long"

\* Both are trimmed before they are looked at.
ValidButtonLabelOrEmoji(b) == b.label \notin {"", "blank"} \/ b.emoji \notin {"", "blank"}

ValidNullableForm(f) == f \in {None, "own"}
ValidForms(b) == ValidNullableForm(b.form) /\ ValidNullableForm(b.exitForm)
ValidTeams(b) == b.teams \subseteq {"own"}

\* Every %...% is a known simple placeholder or a well-formed date.
ValidNamingScheme(b) == b.naming \in {None, "known"}

\* validateEmbed, and the tags on the embed's fields.  The placeholder for an
\* avatar ends the check, so a thumbnail after such an image goes unchecked; a
\* missing message does not get through, since the check reads its image.
ValidWelcomeMessage(b) ==
    /\ b.welcome # None
    /\ LET e == b.welcome IN
       /\ e.text # "long"
       /\ e.text # None \/ e.image # None \/ e.thumbnail # None
       /\ \/ e.image = "%avatar_url%"
          \/ ValidUrl(e.image) /\ (ValidUrl(e.thumbnail) \/ e.thumbnail = "%avatar_url%")

ValidAccessControlList(b) ==
    /\ Cardinality(b.acl) <= AclLimit
    /\ \A rule \in b.acl : rule.action \in {"allow", "deny"} /\ rule.role \in GuildRoles
    /\ \E rule \in b.acl : rule.role = "everyone"

ValidPendingCategory(b, premium) == b.pending = None \/ (premium /\ b.pending = "category")
ValidTranscriptChannel(b) == b.transcript \in TextTypes \union {None}

\* The panel's own channel is checked when there is one, threads or not; without
\* one, threads need the channel of the guild's settings.
ValidNotificationChannel(b, global) ==
    /\ b.notify \in {None, "text"}
    /\ b.useThreads /\ b.notify = None => global # None

ValidCooldown(b) == b.cooldown >= 0
ValidTicketLimit(b) == b.limit \in {None} \union (0 .. 10)

Accepts(b, premium, global) ==
    /\ ValidTitle(b) /\ ValidContent(b) /\ ValidChannelId(b) /\ ValidCategory(b)
    /\ ValidEmoji(b) /\ ValidImageUrl(b) /\ ValidThumbnailUrl(b)
    /\ ValidButtonStyle(b) /\ ValidButtonLabel(b) /\ ValidButtonLabelOrEmoji(b)
    /\ ValidForms(b) /\ ValidTeams(b) /\ ValidNamingScheme(b) /\ ValidWelcomeMessage(b)
    /\ ValidAccessControlList(b) /\ ValidPendingCategory(b, premium)
    /\ ValidTranscriptChannel(b) /\ ValidNotificationChannel(b, global)
    /\ ValidCooldown(b) /\ ValidTicketLimit(b)
----
(* Rows *)

Says(b, m) == \E i \in DOMAIN b.mentions : b.mentions[i] = m
RoleMentions(b) == {i \in DOMAIN b.mentions : b.mentions[i] \in GuildRoles}

\* A mention that is neither a word nor a number ends the request.
ValidMentions(b) == ~Says(b, "garbage")

\* The columns, and the rows of the panel's other tables.  A limit of 0 stays:
\* it is compared with a fresh pointer.
RowOf(b, roles) ==
    [b EXCEPT !.mentions = [user |-> Says(b, "user"), here |-> Says(b, "here"), roles |-> roles]]

\* CreatePanel appends each role to the list it began with, and keeps the last;
\* UpdatePanel keeps them all.
CreatedRow(b) ==
    LET last == {i \in RoleMentions(b) : \A j \in RoleMentions(b) : j <= i} IN
    RowOf(b, {b.mentions[i] : i \in last})
UpdatedRow(b) == RowOf(b, {b.mentions[i] : i \in RoleMentions(b)})

Listed(S) == CHOOSE s \in [1 .. Cardinality(S) -> S] : \A x \in S : \E i \in DOMAIN s : s[i] = x

\* A plausible bug: the mention of the user who opens the ticket is not listed.
ReadBackForgetsUser(row) ==
    LET m == row.mentions IN
    [row EXCEPT !.mentions = (IF m.here THEN <<"here">> ELSE <<>>) \o Listed(m.roles)]

\* ListPanels: a row as the body that the form is filled with.
ReadBack(row) ==
    LET m == row.mentions IN
    [row EXCEPT !.mentions = (IF m.user THEN <<"user">> ELSE <<>>)
                          \o (IF m.here THEN <<"here">> ELSE <<>>) \o Listed(m.roles)]
====
