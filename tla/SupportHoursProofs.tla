---- MODULE SupportHoursProofs ----
(***************************************************************************)
(* Proofs about guild settings, the panels that depend on them, and the    *)
(* support hours of panels, for any sets of panels, handlers and bodies.   *)
(***************************************************************************)
EXTENDS SupportHours, FiniteSetTheorems, TLAPS

RequestIds == 0 .. MaxRequests - 1

\* Requests about support hours.
Saves == [op : {"SetSupportHours"}, at : {"quota", "delete", "next"}, panel : Panels, list : Seq(Entries),
          ok : BOOLEAN, id : RequestIds, todo : SUBSET Panels, found : SUBSET Panels]
Deletions == [op : {"DeleteSupportHours"}, at : {"delete", "next"}, panel : Panels, list : {<<>>}]
HoursReq == {Idle} \union Saves \union Deletions

\* Requests about settings and panels.
Values == {Normal(about, v) : v \in Asked[about]}
Updates == [op : {"UpdateSettings"}, at : {"write", "answer"}, value : Values, alone : BOOLEAN, id : RequestIds]

\* The bodies that a handler has let through, whatever the guild's channel was then.
Kept ==
    {b \in Body : /\ Defaults(b) = b /\ Normalised(b) = b
                  /\ \E global : Accepts(b, about # "hours" /\ tier # "none", global)
                  /\ ValidMentions(b)}

PanelReqs == [op : {"CreatePanel", "UpdatePanel"}, at : {"store"}, panel : Panels, body : Kept]
SettingsReq == {Idle} \union Updates \union (IF about = "settings" THEN PanelReqs ELSE {})

BaseInv ==
    /\ about \in Waited \union Detached \union {"hours"}
    /\ requests \in 0 .. MaxRequests
    /\ tier \in {"none", "vote", "premium"}
    /\ IF about = "hours" THEN req \in [Handlers -> HoursReq] /\ pending = {}
                          ELSE req \in [Handlers -> SettingsReq]

\* The handler h is at r afterwards, and the others are where they were.
Gone(q, at) == [q EXCEPT !.at = at]
Moved(h, r) == req' = [g \in Handlers |-> IF g = h THEN r ELSE req[g]]

LEMMA IdleIsIdle == Idle.op = "idle"
  BY DEF Idle

\* The places of a request about support hours.
LEMMA HoursReqs ==
    ASSUME NEW q \in HoursReq
    PROVE  /\ q = Idle <=> q.op = "idle"
           /\ q.op \in HoursOps <=> q # Idle
           /\ q.op \in {"idle", "SetSupportHours", "DeleteSupportHours"}
           /\ q.op = "SetSupportHours" => q \in Saves
           /\ q.op = "DeleteSupportHours" => q \in Deletions
           /\ q # Idle => q.panel \in Panels
<1>1. CASE q = Idle
  BY <1>1, IdleIsIdle DEF HoursOps
<1>2. CASE q \in Saves
  BY <1>2, IdleIsIdle DEF Saves, HoursOps
<1>3. CASE q \in Deletions
  BY <1>3, IdleIsIdle DEF Deletions, HoursOps
<1>4. QED
  BY <1>1, <1>2, <1>3 DEF HoursReq

\* The places of a request about settings or a panel.
LEMMA SettingsReqs ==
    ASSUME NEW q \in SettingsReq
    PROVE  /\ q = Idle <=> q.op = "idle"
           /\ q.op \in {"idle", "UpdateSettings", "CreatePanel", "UpdatePanel"}
           /\ q.op = "UpdateSettings" => q \in Updates
           /\ q.op \in {"CreatePanel", "UpdatePanel"} => q \in PanelReqs /\ about = "settings"
<1>1. CASE q = Idle
  BY <1>1, IdleIsIdle
<1>2. CASE q \in Updates
  BY <1>2, IdleIsIdle DEF Updates
<1>3. CASE q \in PanelReqs /\ about = "settings"
  BY <1>3, IdleIsIdle DEF PanelReqs
<1>4. QED
  BY <1>1, <1>2, <1>3 DEF SettingsReq

\* A save of hours begins, and goes on with the rest of its list.
Save(p, list, ok) ==
    [op |-> "SetSupportHours", at |-> "quota", panel |-> p, list |-> list, ok |-> ok, id |-> requests,
     todo |-> IF tier = "premium" THEN {} ELSE Panels \ {p}, found |-> {}]
LookedAt(r, q) == [r EXCEPT !.todo = @ \ {q}, !.found = @ \union {p \in {q} : hours[p] # {}}]
Deletion(p) == [op |-> "DeleteSupportHours", at |-> "delete", panel |-> p, list |-> <<>>]
Rest(q) == [q EXCEPT !.list = Tail(@)]

\* Where the steps of a request about support hours leave it.
LEMMA HoursMoves ==
    ASSUME req \in [Handlers -> HoursReq], NEW h \in Handlers
    PROVE  /\ \A p, list, ok : BeginSet(h, p, list, ok) => req[h] = Idle /\ Moved(h, Save(p, list, ok))
           /\ \A p : BeginDelete(h, p) => req[h] = Idle /\ Moved(h, Deletion(p))
           /\ GetOtherHours(h) => /\ req[h] \in Saves /\ req[h].at = "quota"
                                  /\ \E q \in req[h].todo : Moved(h, LookedAt(req[h], q))
           /\ PassQuota(h) => req[h] \in Saves /\ req[h].at = "quota" /\ Moved(h, Gone(req[h], "delete"))
           /\ RefuseSet(h) => req[h] \in Saves /\ req[h].at = "quota" /\ Moved(h, Idle)
           /\ DeleteByPanelId(h) =>
                req[h] \in Saves \union Deletions /\ req[h].at = "delete" /\ Moved(h, Gone(req[h], "next"))
           /\ Upsert(h) => /\ req[h] \in Saves /\ req[h].at = "next" /\ req[h].list # <<>>
                           /\ Moved(h, Rest(req[h]))
           /\ RefuseEntry(h) \/ RefuseSettings(h) \/ WriteHoursSettings(h) =>
                req[h] \in Saves /\ req[h].at = "next" /\ Moved(h, Idle)
           /\ DeleteHoursSettings(h) => req[h] \in Deletions /\ req[h].at = "next" /\ Moved(h, Idle)
           /\ HoursFail(h) => req[h] \in Saves \union Deletions /\ Moved(h, Idle)
<1>1. req[h] \in HoursReq /\ (req[h].op \in HoursOps => req[h] \in Saves \union Deletions)
  BY HoursReqs DEF HoursOps
<1>2. /\ \A p, list, ok : BeginSet(h, p, list, ok) => req[h] = Idle /\ Moved(h, Save(p, list, ok))
      /\ \A p : BeginDelete(h, p) => req[h] = Idle /\ Moved(h, Deletion(p))
  BY DEF BeginSet, BeginDelete, Save, Deletion, Moved
<1>3. DeleteByPanelId(h) =>
        req[h] \in Saves \union Deletions /\ req[h].at = "delete" /\ Moved(h, Gone(req[h], "next"))
  BY <1>1 DEF DeleteByPanelId, Gone, Moved
<1>4. Upsert(h) => /\ req[h] \in Saves /\ req[h].at = "next" /\ req[h].list # <<>>
                   /\ Moved(h, Rest(req[h]))
  BY <1>1, HoursReqs DEF Upsert, Rest, Moved, At
<1>5. Return(h) => Moved(h, Idle)
  BY DEF Return, Moved
<1>6. RefuseEntry(h) \/ RefuseSettings(h) \/ WriteHoursSettings(h) =>
        req[h] \in Saves /\ req[h].at = "next" /\ Moved(h, Idle)
  BY <1>1, <1>5, HoursReqs DEF RefuseEntry, RefuseSettings, WriteHoursSettings, ReturnEarly, ReturnDone, At
<1>7. DeleteHoursSettings(h) => req[h] \in Deletions /\ req[h].at = "next" /\ Moved(h, Idle)
  BY <1>1, <1>5, HoursReqs DEF DeleteHoursSettings, ReturnDone, At
<1>8. HoursFail(h) => req[h] \in Saves \union Deletions /\ Moved(h, Idle)
  BY <1>1, <1>5 DEF HoursFail, ReturnEarly
<1>9. /\ GetOtherHours(h) => /\ req[h] \in Saves /\ req[h].at = "quota"
                             /\ \E q \in req[h].todo : Moved(h, LookedAt(req[h], q))
      /\ PassQuota(h) => req[h] \in Saves /\ req[h].at = "quota" /\ Moved(h, Gone(req[h], "delete"))
      /\ RefuseSet(h) => req[h] \in Saves /\ req[h].at = "quota" /\ Moved(h, Idle)
  BY <1>1, HoursReqs DEF GetOtherHours, PassQuota, RefuseSet, LookedAt, Gone, Moved, At
<1>10. QED
  BY <1>2, <1>3, <1>4, <1>6, <1>7, <1>8, <1>9

LEMMA HoursOn ==
    ASSUME NEW q \in Saves \union Deletions
    PROVE  /\ q \in HoursReq /\ q # Idle /\ q.op \in HoursOps /\ q.panel \in Panels
           /\ Gone(q, "next") \in HoursReq /\ Gone(q, "next") # Idle
           /\ Gone(q, "next").op = q.op /\ Gone(q, "next").panel = q.panel /\ Gone(q, "next").at = "next"
           /\ q \in Saves => Gone(q, "next").id = q.id
           /\ q \in Saves =>
                /\ Gone(q, "delete") \in HoursReq /\ Gone(q, "delete").op = q.op
                /\ Gone(q, "delete").panel = q.panel /\ Gone(q, "delete").at = "delete"
                /\ \A p \in q.todo : /\ LookedAt(q, p) \in HoursReq /\ LookedAt(q, p).op = q.op
                                     /\ LookedAt(q, p).panel = q.panel /\ LookedAt(q, p).at = q.at
           /\ q \in Saves /\ q.list # <<>> =>
                /\ Rest(q) \in HoursReq /\ Rest(q) # Idle /\ Rest(q).op = q.op /\ Rest(q).panel = q.panel
                /\ Rest(q).at = q.at /\ Rest(q).id = q.id
<1>1. /\ q \in HoursReq /\ q # Idle /\ q.op \in HoursOps /\ q.panel \in Panels
  BY IdleIsIdle DEF HoursReq, Saves, Deletions, HoursOps
<1>2. /\ Gone(q, "next") \in Saves \union Deletions
      /\ Gone(q, "next").op = q.op /\ Gone(q, "next").panel = q.panel /\ Gone(q, "next").at = "next"
      /\ q \in Saves => Gone(q, "next").id = q.id
  BY DEF Gone, Saves, Deletions
<1>3. ASSUME q \in Saves, q.list # <<>>
      PROVE  /\ Rest(q) \in Saves /\ Rest(q).op = q.op /\ Rest(q).panel = q.panel
             /\ Rest(q).at = q.at /\ Rest(q).id = q.id
  <2>1. q.list \in Seq(Entries) /\ Tail(q.list) \in Seq(Entries)
    BY <1>3 DEF Saves
  <2>2. QED
    BY <1>3, <2>1 DEF Rest, Saves
<1>4. \A r \in Saves \union Deletions : r \in HoursReq /\ r # Idle
  BY IdleIsIdle DEF HoursReq, Saves, Deletions
<1>5. ASSUME q \in Saves
      PROVE  /\ Gone(q, "delete") \in Saves /\ Gone(q, "delete").op = q.op
             /\ Gone(q, "delete").panel = q.panel /\ Gone(q, "delete").at = "delete"
             /\ \A p \in q.todo : /\ LookedAt(q, p) \in Saves /\ LookedAt(q, p).op = q.op
                                  /\ LookedAt(q, p).panel = q.panel /\ LookedAt(q, p).at = q.at
  BY <1>5 DEF Gone, LookedAt, Saves
<1>6. QED
  BY <1>1, <1>2, <1>3, <1>4, <1>5

LEMMA HoursBegun ==
    ASSUME requests \in 0 .. MaxRequests, requests < MaxRequests, NEW p \in Panels
    PROVE  /\ \A list \in Lists, ok \in BOOLEAN :
                /\ Save(p, list, ok) \in HoursReq /\ Save(p, list, ok) # Idle
                /\ Save(p, list, ok).op = "SetSupportHours" /\ Save(p, list, ok).panel = p
                /\ Save(p, list, ok).at = "quota"
           /\ Deletion(p) \in HoursReq /\ Deletion(p) # Idle /\ Deletion(p).op = "DeleteSupportHours"
           /\ Deletion(p).panel = p /\ Deletion(p).at = "delete"
<1>1. requests \in RequestIds
  BY GuildSettingsAssumption DEF RequestIds
<1>2. \A list \in Lists : list \in Seq(Entries)
  BY HoursAssumption DEF Lists
<1>3. ASSUME NEW list \in Lists, NEW ok \in BOOLEAN
      PROVE  /\ Save(p, list, ok) \in Saves /\ Save(p, list, ok).op = "SetSupportHours"
             /\ Save(p, list, ok).panel = p /\ Save(p, list, ok).at = "quota"
  BY <1>1, <1>2 DEF Save, Saves
<1>4. Deletion(p) \in Deletions /\ Deletion(p).op = "DeleteSupportHours" /\ Deletion(p).panel = p
      /\ Deletion(p).at = "delete"
  BY DEF Deletion, Deletions
<1>5. QED
  BY <1>3, <1>4, HoursOn
----
(* Bodies *)

\* Two bodies that differ in their mentions at most, and in that the second has
\* no channel without threads.
Fields == {"title", "content", "image", "thumbnail", "naming", "channel", "category", "emoji", "style", "label",
           "form", "exitForm", "teams", "welcome", "acl", "pending", "transcript", "useThreads",
           "cooldown", "limit"}
Alike(b, c) ==
    /\ \A f \in Fields : c[f] = b[f]
    /\ c.notify = b.notify \/ (c.notify = None /\ ~b.useThreads)

\* The validators do not look at mentions, what premium is wanted for is accepted
\* with more of it, and the guild's channel matters when there is no other.
LEMMA AlikeAccepted ==
    ASSUME NEW b, NEW c, Alike(b, c), NEW premium \in BOOLEAN, NEW more \in BOOLEAN, premium => more,
           NEW global, NEW other, c.useThreads /\ c.notify = None => other \in {global} \/ other # None
    PROVE  Accepts(b, premium, global) => Accepts(c, more, other)
<1>1. /\ c.title = b.title /\ c.content = b.content /\ c.image = b.image /\ c.thumbnail = b.thumbnail
      /\ c.naming = b.naming /\ c.channel = b.channel /\ c.category = b.category /\ c.emoji = b.emoji
      /\ c.style = b.style /\ c.label = b.label /\ c.form = b.form /\ c.exitForm = b.exitForm
      /\ c.teams = b.teams /\ c.welcome = b.welcome /\ c.acl = b.acl /\ c.pending = b.pending
      /\ c.transcript = b.transcript /\ c.useThreads = b.useThreads
      /\ c.cooldown = b.cooldown /\ c.limit = b.limit
      /\ c.notify = b.notify \/ (c.notify = None /\ ~b.useThreads)
  BY DEF Alike, Fields
<1>2. /\ ValidTitle(b) => ValidTitle(c)
      /\ ValidContent(b) => ValidContent(c)
      /\ ValidChannelId(b) => ValidChannelId(c)
      /\ ValidCategory(b) => ValidCategory(c)
      /\ ValidEmoji(b) => ValidEmoji(c)
      /\ ValidImageUrl(b) => ValidImageUrl(c)
      /\ ValidThumbnailUrl(b) => ValidThumbnailUrl(c)
      /\ ValidButtonStyle(b) => ValidButtonStyle(c)
      /\ ValidButtonLabel(b) => ValidButtonLabel(c)
      /\ ValidButtonLabelOrEmoji(b) => ValidButtonLabelOrEmoji(c)
  BY <1>1 DEF ValidTitle, ValidContent, ValidChannelId, ValidCategory, ValidEmoji, ValidImageUrl,
              ValidThumbnailUrl, ValidButtonStyle, ValidButtonLabel, ValidButtonLabelOrEmoji
<1>3. /\ ValidForms(b) => ValidForms(c)
      /\ ValidTeams(b) => ValidTeams(c)
      /\ ValidNamingScheme(b) => ValidNamingScheme(c)
      /\ ValidWelcomeMessage(b) => ValidWelcomeMessage(c)
      /\ ValidAccessControlList(b) => ValidAccessControlList(c)
      /\ ValidPendingCategory(b, premium) => ValidPendingCategory(c, more)
      /\ ValidTranscriptChannel(b) => ValidTranscriptChannel(c)
      /\ ValidNotificationChannel(b, global) => ValidNotificationChannel(c, other)
      /\ ValidCooldown(b) => ValidCooldown(c)
      /\ ValidTicketLimit(b) => ValidTicketLimit(c)
  BY <1>1 DEF ValidForms, ValidTeams, ValidNamingScheme, ValidWelcomeMessage, ValidAccessControlList,
              ValidPendingCategory, ValidTranscriptChannel, ValidNotificationChannel, ValidCooldown,
              ValidTicketLimit
<1>4. QED
  BY <1>2, <1>3 DEF Accepts

\* A body field by field, and what can be put in the place of some.
AllFields == Fields \union {"notify", "mentions"}
Mentionings == Seq({"user", "here", "gone", "garbage"} \union GuildRoles)

LEMMA BodyFields ==
    ASSUME NEW b \in Body
    PROVE  /\ b = [f \in AllFields |-> b[f]]
           /\ b.mentions \in Mentionings /\ b.useThreads \in BOOLEAN
<1>1. b = [f \in AllFields |-> b[f]]
  BY DEF Body, AllFields, Fields
<1>2. b.mentions \in Mentionings /\ b.useThreads \in BOOLEAN
  BY DEF Body, Mentionings
<1>3. QED
  BY <1>1, <1>2

LEMMA BodyMade ==
    ASSUME NEW b \in Body, NEW c, c = [f \in AllFields |-> c[f]], c.mentions \in Mentionings,
           \A f \in {"title", "content"} : c[f] \in {b[f], "default"},
           \A f \in {"image", "thumbnail", "naming", "notify"} : c[f] \in {b[f], None},
           \A f \in Fields \ {"title", "content", "image", "thumbnail", "naming"} : c[f] = b[f]
    PROVE  c \in Body
<1>1. /\ c.title \in {b.title, "default"} /\ c.content \in {b.content, "default"}
      /\ c.image \in {b.image, None} /\ c.thumbnail \in {b.thumbnail, None} /\ c.naming \in {b.naming, None}
      /\ c.notify \in {b.notify, None}
  OBVIOUS
<1>2. /\ c.channel = b.channel /\ c.category = b.category /\ c.emoji = b.emoji /\ c.style = b.style
      /\ c.label = b.label /\ c.form = b.form /\ c.exitForm = b.exitForm /\ c.teams = b.teams
      /\ c.welcome = b.welcome /\ c.acl = b.acl /\ c.pending = b.pending /\ c.transcript = b.transcript
      /\ c.useThreads = b.useThreads /\ c.cooldown = b.cooldown /\ c.limit = b.limit
  BY DEF Fields
<1>3. None \in Urls
  BY DEF Urls
<1>4. /\ c.title \in {"", "default", "text", "long"} /\ c.content \in {"", "default", "text", "long"}
      /\ c.image \in Urls /\ c.thumbnail \in Urls
      /\ c.naming \in {None, "", "known", "unknown", "malformed", "long"}
      /\ c.notify \in Channels \union {None}
  BY <1>1, <1>3 DEF Body
<1>5. c \in Body
  BY <1>2, <1>4, ZenonT(60) DEF Body, AllFields, Fields, Mentionings
<1>6. QED
  BY <1>5

\* What a handler makes of a body, and that doing so again changes nothing.
LEMMA DefaultsFields ==
    ASSUME NEW b, b = [f \in AllFields |-> b[f]]
    PROVE  /\ Defaults(b) = [f \in AllFields |-> Defaults(b)[f]]
           /\ \A f \in {"title", "content"} : Defaults(b)[f] = IF b[f] = "" THEN "default" ELSE b[f]
           /\ \A f \in {"image", "thumbnail", "naming"} : Defaults(b)[f] = EmptyToNone(b[f])
           /\ \A f \in AllFields \ {"title", "content", "image", "thumbnail", "naming"} : Defaults(b)[f] = b[f]
<1>1. DOMAIN b = AllFields
  OBVIOUS
<1>2. Defaults(b) = [f \in AllFields |-> Defaults(b)[f]]
  BY <1>1 DEF Defaults
<1>3. /\ \A f \in {"title", "content"} : Defaults(b)[f] = IF b[f] = "" THEN "default" ELSE b[f]
      /\ \A f \in {"image", "thumbnail", "naming"} : Defaults(b)[f] = EmptyToNone(b[f])
      /\ \A f \in AllFields \ {"title", "content", "image", "thumbnail", "naming"} : Defaults(b)[f] = b[f]
  BY <1>1 DEF Defaults, AllFields, Fields
<1>4. QED
  BY <1>2, <1>3

LEMMA NormalisedFields ==
    ASSUME NEW b, b = [f \in AllFields |-> b[f]]
    PROVE  /\ Normalised(b) = [f \in AllFields |-> Normalised(b)[f]]
           /\ Normalised(b).notify = IF b.useThreads THEN b.notify ELSE None
           /\ \A f \in AllFields \ {"notify"} : Normalised(b)[f] = b[f]
  BY DEF Normalised, AllFields

LEMMA DefaultsKeep ==
    ASSUME NEW b \in Body
    PROVE  /\ Defaults(b) \in Body /\ Defaults(Defaults(b)) = Defaults(b)
           /\ Normalised(b) \in Body /\ Normalised(Normalised(b)) = Normalised(b)
           /\ Defaults(b) = b => Defaults(Normalised(b)) = Normalised(b)
           /\ Defaults(b).mentions = b.mentions /\ Normalised(b).mentions = b.mentions
<1> DEFINE d == Defaults(b)
           n == Normalised(b)
<1>1. b = [f \in AllFields |-> b[f]] /\ b.mentions \in Mentionings /\ b.useThreads \in BOOLEAN
  BY BodyFields
<1>2. /\ d = [f \in AllFields |-> d[f]]
      /\ \A f \in {"title", "content"} : d[f] = IF b[f] = "" THEN "default" ELSE b[f]
      /\ \A f \in {"image", "thumbnail", "naming"} : d[f] = EmptyToNone(b[f])
      /\ \A f \in AllFields \ {"title", "content", "image", "thumbnail", "naming"} : d[f] = b[f]
  BY <1>1, DefaultsFields
<1>3. /\ n = [f \in AllFields |-> n[f]]
      /\ n.notify = IF b.useThreads THEN b.notify ELSE None
      /\ \A f \in AllFields \ {"notify"} : n[f] = b[f]
  BY <1>1, NormalisedFields
<1>4. /\ Defaults(d) = [f \in AllFields |-> Defaults(d)[f]]
      /\ \A f \in {"title", "content"} : Defaults(d)[f] = IF d[f] = "" THEN "default" ELSE d[f]
      /\ \A f \in {"image", "thumbnail", "naming"} : Defaults(d)[f] = EmptyToNone(d[f])
      /\ \A f \in AllFields \ {"title", "content", "image", "thumbnail", "naming"} : Defaults(d)[f] = d[f]
  BY <1>2, DefaultsFields
<1>5. /\ Defaults(n) = [f \in AllFields |-> Defaults(n)[f]]
      /\ \A f \in {"title", "content"} : Defaults(n)[f] = IF n[f] = "" THEN "default" ELSE n[f]
      /\ \A f \in {"image", "thumbnail", "naming"} : Defaults(n)[f] = EmptyToNone(n[f])
      /\ \A f \in AllFields \ {"title", "content", "image", "thumbnail", "naming"} : Defaults(n)[f] = n[f]
  BY <1>3, DefaultsFields
<1>6. /\ Normalised(n) = [f \in AllFields |-> Normalised(n)[f]]
      /\ Normalised(n).notify = IF n.useThreads THEN n.notify ELSE None
      /\ \A f \in AllFields \ {"notify"} : Normalised(n)[f] = n[f]
  BY <1>3, NormalisedFields
<1> HIDE DEF d, n
<1>7. d \in Body /\ d.mentions = b.mentions
  <2>1. d.mentions = b.mentions /\ d.notify = b.notify
    BY <1>2 DEF AllFields
  <2>2. /\ \A f \in {"title", "content"} : d[f] \in {b[f], "default"}
        /\ \A f \in {"image", "thumbnail", "naming", "notify"} : d[f] \in {b[f], None}
        /\ \A f \in Fields \ {"title", "content", "image", "thumbnail", "naming"} : d[f] = b[f]
    BY <1>2, <2>1 DEF EmptyToNone, AllFields
  <2>3. QED
    BY <1>1, <1>2, <2>1, <2>2, BodyMade
<1>8. n \in Body /\ n.mentions = b.mentions
  <2>1. n.mentions = b.mentions
    BY <1>3 DEF AllFields
  <2>2. /\ \A f \in {"title", "content"} : n[f] \in {b[f], "default"}
        /\ \A f \in {"image", "thumbnail", "naming", "notify"} : n[f] \in {b[f], None}
        /\ \A f \in Fields \ {"title", "content", "image", "thumbnail", "naming"} : n[f] = b[f]
    BY <1>3 DEF AllFields, Fields
  <2>3. QED
    BY <1>1, <1>3, <2>1, <2>2, BodyMade
<1>9. Defaults(d) = d
  <2>1. \A f \in AllFields : Defaults(d)[f] = d[f]
    BY <1>2, <1>4 DEF EmptyToNone
  <2>2. QED
    BY <1>2, <1>4, <2>1
<1>10. Normalised(n) = n
  <2>1. n.useThreads = b.useThreads
    BY <1>3 DEF AllFields, Fields
  <2>2. \A f \in AllFields : Normalised(n)[f] = n[f]
    BY <1>3, <1>6, <2>1
  <2>3. QED
    BY <1>3, <1>6, <2>2
<1>11. d = b => Defaults(n) = n
  <2> SUFFICES ASSUME d = b PROVE Defaults(n) = n
    OBVIOUS
  <2>1. \A f \in {"title", "content", "image", "thumbnail", "naming"} : n[f] = b[f]
    BY <1>3 DEF AllFields, Fields
  <2>2. \A f \in AllFields : Defaults(n)[f] = n[f]
    BY <1>2, <1>5, <2>1
  <2>3. QED
    BY <1>3, <1>5, <2>2
<1>12. QED
  BY <1>7, <1>8, <1>9, <1>10, <1>11 DEF d, n

\* Without threads there is no channel, and that is the only difference.
LEMMA NormalisedIsAccepted ==
    ASSUME NEW b \in Body, NEW premium \in BOOLEAN, NEW more \in BOOLEAN, premium => more, NEW global,
           Accepts(b, premium, global), ValidMentions(b)
    PROVE  Accepts(Normalised(b), more, global) /\ ValidMentions(Normalised(b))
<1>1. Alike(b, Normalised(b)) /\ Normalised(b).mentions = b.mentions
  <2>1. b = [f \in AllFields |-> b[f]] /\ b.useThreads \in BOOLEAN
    BY BodyFields
  <2>2. /\ Normalised(b).notify = IF b.useThreads THEN b.notify ELSE None
        /\ \A f \in AllFields \ {"notify"} : Normalised(b)[f] = b[f]
    BY <2>1, NormalisedFields
  <2>3. QED
    BY <2>1, <2>2 DEF Alike, AllFields, Fields
<1>2. Accepts(Normalised(b), more, global)
  BY <1>1, AlikeAccepted
<1>3. ValidMentions(Normalised(b))
  BY <1>1 DEF ValidMentions, Says
<1>4. QED
  BY <1>2, <1>3
----
(* Steps *)

HoursNext == (\E h \in Handlers : HoursStep(h)) \/ ChangeTier

\* A behaviour about hours leaves the settings alone, and one about settings the hours.
LEMMA Apart ==
    ASSUME BaseInv, [Next]_vars
    PROVE  /\ about' = about
           /\ \/ about = "hours" /\ HoursNext /\ UNCHANGED <<stored, row, pending, latest, raced, lost>>
              \/ about # "hours" /\ SettingsNext /\ UNCHANGED <<tier, hoursVars>>
              \/ UNCHANGED vars
<1>1. CASE UNCHANGED vars
  BY <1>1 DEF vars, settingsVars
<1>2. CASE about = "hours" /\ SettingsNext
  <2>1. req \in [Handlers -> HoursReq] /\ pending = {}
    BY <1>2 DEF BaseInv
  <2>2. \A h \in Handlers : req[h].op \in {"idle", "SetSupportHours", "DeleteSupportHours"}
    BY <2>1, HoursReqs
  <2>3. ASSUME NEW h \in Handlers PROVE ~UpdateSettings(h) /\ ~ChangePanel(h)
    BY <1>2, <2>2 DEF UpdateSettings, ChangePanel, WriteWaited, GroupFails, Answer, ValidatePanel, StorePanel,
                      PanelFails, At
  <2>4. QED
    BY <1>2, <2>1, <2>3 DEF SettingsNext
<1>3. CASE about = "hours" /\ HoursNext
  <2>1. ASSUME NEW h \in Handlers, HoursStep(h) PROVE SettingsUntouched
    BY <2>1 DEF HoursStep, BeginSet, GetOtherHours, PassQuota, RefuseSet, DeleteByPanelId, Upsert, RefuseEntry,
                RefuseSettings, WriteHoursSettings,
                BeginDelete, DeleteHoursSettings, HoursFail, ReturnEarly, ReturnDone, Return, SettingsUntouched
  <2>2. ChangeTier => UNCHANGED <<about, stored, row, pending, latest, raced, lost>>
    BY DEF ChangeTier
  <2>3. QED
    BY <1>3, <2>1, <2>2 DEF HoursNext, SettingsUntouched
<1>4. CASE about # "hours" /\ HoursNext
  <2>1. req \in [Handlers -> SettingsReq]
    BY <1>4 DEF BaseInv
  <2>2. \A h \in Handlers : req[h].op \notin HoursOps
    BY <2>1, SettingsReqs DEF HoursOps
  <2>3. ASSUME NEW h \in Handlers PROVE ~HoursStep(h)
    BY <1>4, <2>2 DEF HoursStep, BeginSet, GetOtherHours, PassQuota, RefuseSet, DeleteByPanelId, Upsert, RefuseEntry,
                RefuseSettings, WriteHoursSettings,
                BeginDelete, DeleteHoursSettings, HoursFail, At, HoursOps
  <2>4. QED
    BY <1>4, <2>3 DEF HoursNext, ChangeTier
<1>5. CASE about # "hours" /\ SettingsNext /\ UNCHANGED hoursVars
  <2>1. about' = about /\ tier' = tier
    BY <1>5 DEF SettingsNext, UpdateSettings, ChangePanel, ValidateSettings, WriteWaited, GroupFails, Answer,
                ValidatePanel, StorePanel, PanelFails, DetachedWrite, DetachedWriteFails
  <2>2. QED
    BY <1>5, <2>1
<1>6. QED
  BY <1>1, <1>2, <1>3, <1>4, <1>5 DEF Next, HoursNext

\* An update of settings begins, one goes on beside another, and a panel is let through.
Update(v, alone) == [op |-> "UpdateSettings", at |-> "write", value |-> v, alone |-> alone, id |-> requests]
Beside(q) == [q EXCEPT !.alone = FALSE]
PanelReq(op, p, b) == [op |-> op, at |-> "store", panel |-> p, body |-> Normalised(Defaults(b))]

\* Where the steps of a request about settings or a panel leave it.
LEMMA SettingsMoves ==
    ASSUME req \in [Handlers -> SettingsReq], NEW h \in Handlers
    PROVE  /\ \A v : ValidateSettings(h, v) =>
                /\ req[h] = Idle
                /\ req' = [g \in Handlers |-> IF g = h THEN Update(Normal(about, v), Quiet)
                                             ELSE IF g \in Updating THEN Beside(req[g]) ELSE req[g]]
           /\ WriteWaited(h) => /\ req[h] \in Updates /\ req[h].at = "write"
                                /\ Moved(h, Gone(req[h], "answer"))
           /\ GroupFails(h) => req[h] \in Updates /\ Moved(h, Idle)
           /\ Answer(h) => req[h] \in Updates /\ req[h].at = "answer" /\ Moved(h, Idle)
           /\ \A op, p, b : ValidatePanel(h, op, p, b) => req[h] = Idle /\ Moved(h, PanelReq(op, p, b))
           /\ StorePanel(h) \/ PanelFails(h) => req[h] \in PanelReqs /\ about = "settings" /\ Moved(h, Idle)
<1>1. /\ req[h] \in SettingsReq
      /\ req[h].op = "UpdateSettings" => req[h] \in Updates
      /\ req[h].op \in {"CreatePanel", "UpdatePanel"} => req[h] \in PanelReqs /\ about = "settings"
  BY SettingsReqs
<1>2. \A v : ValidateSettings(h, v) =>
        /\ req[h] = Idle
        /\ req' = [g \in Handlers |-> IF g = h THEN Update(Normal(about, v), Quiet)
                                     ELSE IF g \in Updating THEN Beside(req[g]) ELSE req[g]]
  BY DEF ValidateSettings, Update, Beside
<1>3. WriteWaited(h) => req[h] \in Updates /\ req[h].at = "write" /\ Moved(h, Gone(req[h], "answer"))
  BY <1>1 DEF WriteWaited, At, Moved, Gone
<1>4. GroupFails(h) => req[h] \in Updates /\ Moved(h, Idle)
  BY <1>1 DEF GroupFails, Moved
<1>5. Answer(h) => req[h] \in Updates /\ req[h].at = "answer" /\ Moved(h, Idle)
  BY <1>1 DEF Answer, At, Moved
<1>6. \A op, p, b : ValidatePanel(h, op, p, b) => req[h] = Idle /\ Moved(h, PanelReq(op, p, b))
  BY DEF ValidatePanel, PanelReq, Moved
<1>7. StorePanel(h) \/ PanelFails(h) => req[h] \in PanelReqs /\ about = "settings" /\ Moved(h, Idle)
  BY <1>1 DEF StorePanel, PanelFails, Moved
<1>8. QED
  BY <1>2, <1>3, <1>4, <1>5, <1>6, <1>7

LEMMA UpdatesGoOn ==
    ASSUME NEW q \in Updates
    PROVE  /\ q \in SettingsReq /\ q # Idle
           /\ Gone(q, "answer") \in Updates /\ Gone(q, "answer").at = "answer"
           /\ Gone(q, "answer").value = q.value /\ Gone(q, "answer").alone = q.alone
           /\ Beside(q) \in Updates /\ Beside(q).at = q.at /\ Beside(q).value = q.value /\ ~Beside(q).alone
<1>1. q \in SettingsReq /\ q # Idle
  BY IdleIsIdle DEF SettingsReq, Updates
<1>2. /\ Gone(q, "answer") \in Updates /\ Gone(q, "answer").at = "answer"
      /\ Gone(q, "answer").value = q.value /\ Gone(q, "answer").alone = q.alone
  BY DEF Gone, Updates
<1>3. /\ Beside(q) \in Updates /\ Beside(q).at = q.at /\ Beside(q).value = q.value /\ ~Beside(q).alone
  BY DEF Beside, Updates
<1>4. QED
  BY <1>1, <1>2, <1>3

\* What ValidatePanel lets through is kept.
LEMMA PanelsAreKept ==
    ASSUME BaseInv, NEW h \in Handlers, NEW op \in {"CreatePanel", "UpdatePanel"}, NEW p \in Panels,
           NEW b \in Bodies, ValidatePanel(h, op, p, b)
    PROVE  PanelReq(op, p, b) \in PanelReqs
<1> DEFINE d == Defaults(b)
<1>1. b \in Body
  BY GuildSettingsAssumption
<1>2. /\ d \in Body /\ Normalised(d) \in Body /\ Normalised(Normalised(d)) = Normalised(d)
      /\ Defaults(Normalised(d)) = Normalised(d)
  <2>1. d \in Body /\ Defaults(d) = d
    BY <1>1, DefaultsKeep
  <2>2. QED
    BY <2>1, DefaultsKeep
<1>3. /\ about = "settings" /\ Accepts(d, PanelPremium(op), GlobalChannel) /\ ValidMentions(d)
  BY DEF ValidatePanel
<1>4. PanelPremium(op) \in BOOLEAN /\ (PanelPremium(op) => about # "hours" /\ tier # "none")
  BY <1>3 DEF PanelPremium
<1> DEFINE more == about # "hours" /\ tier # "none"
<1> HIDE DEF d
<1>5. Accepts(Normalised(d), more, GlobalChannel) /\ ValidMentions(Normalised(d))
  <2>1. more \in BOOLEAN /\ (PanelPremium(op) => more)
    BY <1>4
  <2> HIDE DEF more
  <2>2. QED
    BY <2>1, <1>2, <1>3, <1>4, NormalisedIsAccepted
<1>6. Normalised(d) \in Kept
  BY <1>2, <1>5 DEF Kept
<1>7. QED
  BY <1>6 DEF PanelReq, PanelReqs, d

\* What is asked of settings is among the values, and these do not change.
LEMMA SameReqs ==
    ASSUME about' = about, tier' = tier
    PROVE  Values' = Values /\ Updates' = Updates /\ Kept' = Kept /\ SettingsReq' = SettingsReq
<1>1. Values' = Values
  BY DEF Values, Normal
<1>2. Kept' = Kept
  BY DEF Kept
<1>3. QED
  BY <1>1, <1>2 DEF Updates, PanelReqs, SettingsReq

\* The requests of a behaviour about hours, and of one about settings.
LEMMA HoursReqsStep ==
    ASSUME BaseInv, about = "hours", HoursNext
    PROVE  req' \in [Handlers -> HoursReq] /\ requests' \in 0 .. MaxRequests
                                          /\ tier' \in {"none", "vote", "premium"}
<1>1. req \in [Handlers -> HoursReq] /\ requests \in 0 .. MaxRequests /\ tier \in {"none", "vote", "premium"}
  BY DEF BaseInv
<1>2. ASSUME NEW h \in Handlers, NEW r \in HoursReq, Moved(h, r) PROVE req' \in [Handlers -> HoursReq]
  BY <1>1, <1>2 DEF Moved
<1>3. Idle \in HoursReq
  BY DEF HoursReq
<1>4. CASE ChangeTier
  BY <1>1, <1>4 DEF ChangeTier
<1>5. ASSUME NEW h \in Handlers, HoursStep(h)
      PROVE  req' \in [Handlers -> HoursReq] /\ requests' \in 0 .. MaxRequests /\ tier' = tier
  <2>1. ASSUME NEW p \in Panels, NEW list \in Lists, NEW ok \in BOOLEAN, BeginSet(h, p, list, ok)
        PROVE  req' \in [Handlers -> HoursReq] /\ requests' \in 0 .. MaxRequests /\ tier' = tier
    <3>1. requests < MaxRequests /\ requests' = requests + 1 /\ tier' = tier
      BY <2>1 DEF BeginSet, SettingsUntouched
    <3>2. Moved(h, Save(p, list, ok)) /\ Save(p, list, ok) \in HoursReq
      BY <1>1, <2>1, <3>1, HoursMoves, HoursBegun
    <3>3. QED
      BY <1>1, <1>2, <3>1, <3>2, GuildSettingsAssumption
  <2>2. ASSUME NEW p \in Panels, BeginDelete(h, p)
        PROVE  req' \in [Handlers -> HoursReq] /\ requests' \in 0 .. MaxRequests /\ tier' = tier
    <3>1. requests < MaxRequests /\ requests' = requests + 1 /\ tier' = tier
      BY <2>2 DEF BeginDelete, SettingsUntouched
    <3>2. Moved(h, Deletion(p)) /\ Deletion(p) \in HoursReq
      BY <1>1, <2>2, <3>1, HoursMoves, HoursBegun
    <3>3. QED
      BY <1>1, <1>2, <3>1, <3>2, GuildSettingsAssumption
  <2>3. CASE DeleteByPanelId(h)
    <3>1. Moved(h, Gone(req[h], "next")) /\ Gone(req[h], "next") \in HoursReq
      BY <1>1, <2>3, HoursMoves, HoursOn
    <3>2. QED
      BY <1>1, <1>2, <2>3, <3>1 DEF DeleteByPanelId, SettingsUntouched
  <2>4. CASE Upsert(h)
    <3>1. Moved(h, Rest(req[h])) /\ Rest(req[h]) \in HoursReq
      BY <1>1, <2>4, HoursMoves, HoursOn
    <3>2. requests' = requests /\ tier' = tier
      BY <2>4 DEF Upsert, SettingsUntouched
    <3>3. QED
      BY <1>1, <1>2, <3>1, <3>2
  <2>5. CASE Return(h)
    <3>1. Moved(h, Idle)
      BY <1>1, <2>5 DEF Return, Moved
    <3>2. requests' = requests /\ tier' = tier
      BY <2>5 DEF Return, SettingsUntouched
    <3>3. QED
      BY <1>1, <1>2, <1>3, <3>1, <3>2
  <2>6. CASE GetOtherHours(h) \/ PassQuota(h) \/ RefuseSet(h)
    <3>1. \E r \in HoursReq : Moved(h, r)
      BY <1>1, <1>3, <2>6, HoursMoves, HoursOn
    <3>2. requests' = requests /\ tier' = tier
      BY <2>6 DEF GetOtherHours, PassQuota, RefuseSet, SettingsUntouched
    <3>3. QED
      BY <1>1, <1>2, <3>1, <3>2
  <2>7. QED
    BY <1>5, <2>1, <2>2, <2>3, <2>4, <2>5, <2>6
       DEF HoursStep, RefuseEntry, RefuseSettings, WriteHoursSettings, DeleteHoursSettings, HoursFail,
           ReturnEarly, ReturnDone
<1>6. QED
  BY <1>1, <1>4, <1>5 DEF HoursNext, ChangeTier

LEMMA SettingsReqsStep ==
    ASSUME BaseInv, about # "hours", SettingsNext, about' = about, tier' = tier
    PROVE  req' \in [Handlers -> SettingsReq] /\ requests' \in 0 .. MaxRequests
<1>1. req \in [Handlers -> SettingsReq] /\ requests \in 0 .. MaxRequests
  BY DEF BaseInv
<1>2. ASSUME NEW h \in Handlers, NEW r \in SettingsReq, Moved(h, r) PROVE req' \in [Handlers -> SettingsReq]
  BY <1>1, <1>2 DEF Moved
<1>3. Idle \in SettingsReq
  BY DEF SettingsReq
<1>4. ASSUME NEW h \in Handlers, UpdateSettings(h)
      PROVE  req' \in [Handlers -> SettingsReq] /\ requests' \in 0 .. MaxRequests
  <2>1. ASSUME NEW v \in Asked[about], ValidateSettings(h, v)
        PROVE  req' \in [Handlers -> SettingsReq] /\ requests' \in 0 .. MaxRequests
    <3>1. requests < MaxRequests /\ requests' = requests + 1
      BY <2>1 DEF ValidateSettings
    <3>2. Update(Normal(about, v), Quiet) \in SettingsReq
      <4>1. Normal(about, v) \in Values /\ Quiet \in BOOLEAN
        BY <2>1 DEF Values, Quiet
      <4>2. requests \in RequestIds
        BY <1>1, <3>1, GuildSettingsAssumption DEF RequestIds
      <4>3. QED
        BY <4>1, <4>2 DEF Update, Updates, SettingsReq
    <3>3. ASSUME NEW g \in Updating PROVE Beside(req[g]) \in SettingsReq
      <4>1. req[g] \in Updates
        BY <1>1, SettingsReqs DEF Updating
      <4>2. Beside(req[g]) \in Updates
        BY <4>1, UpdatesGoOn
      <4>3. QED
        BY <4>2 DEF SettingsReq
    <3>4. req' \in [Handlers -> SettingsReq]
      BY <1>1, <2>1, <3>2, <3>3, SettingsMoves
    <3>5. QED
      BY <1>1, <3>1, <3>4, GuildSettingsAssumption
  <2>2. CASE WriteWaited(h)
    <3>1. Moved(h, Gone(req[h], "answer")) /\ Gone(req[h], "answer") \in SettingsReq
      BY <1>1, <2>2, SettingsMoves, UpdatesGoOn DEF SettingsReq
    <3>2. QED
      BY <1>1, <1>2, <2>2, <3>1 DEF WriteWaited
  <2>3. CASE GroupFails(h) \/ Answer(h)
    <3>1. Moved(h, Idle)
      BY <1>1, <2>3, SettingsMoves
    <3>2. QED
      BY <1>1, <1>2, <1>3, <2>3, <3>1 DEF GroupFails, Answer
  <2>4. QED
    BY <1>4, <2>1, <2>2, <2>3 DEF UpdateSettings
<1>5. ASSUME NEW h \in Handlers, ChangePanel(h)
      PROVE  req' \in [Handlers -> SettingsReq] /\ requests' \in 0 .. MaxRequests
  <2>1. ASSUME NEW op \in {"CreatePanel", "UpdatePanel"}, NEW p \in Panels, NEW b \in Bodies,
               ValidatePanel(h, op, p, b)
        PROVE  req' \in [Handlers -> SettingsReq] /\ requests' \in 0 .. MaxRequests
    <3>1. requests < MaxRequests /\ requests' = requests + 1 /\ about = "settings"
      BY <2>1 DEF ValidatePanel
    <3>2. Moved(h, PanelReq(op, p, b)) /\ PanelReq(op, p, b) \in SettingsReq
      BY <1>1, <2>1, <3>1, SettingsMoves, PanelsAreKept DEF SettingsReq
    <3>3. QED
      BY <1>1, <1>2, <3>1, <3>2, GuildSettingsAssumption
  <2>2. CASE StorePanel(h) \/ PanelFails(h)
    <3>1. Moved(h, Idle)
      BY <1>1, <2>2, SettingsMoves
    <3>2. QED
      BY <1>1, <1>2, <1>3, <2>2, <3>1 DEF StorePanel, PanelFails
  <2>3. QED
    BY <1>5, <2>1, <2>2 DEF ChangePanel
<1>6. ASSUME NEW w \in pending, DetachedWrite(w) \/ DetachedWriteFails(w)
      PROVE  req' \in [Handlers -> SettingsReq] /\ requests' \in 0 .. MaxRequests
  BY <1>1, <1>6 DEF DetachedWrite, DetachedWriteFails
<1>7. QED
  BY <1>4, <1>5, <1>6 DEF SettingsNext

LEMMA BaseStart == Init => BaseInv
<1> SUFFICES ASSUME Init PROVE BaseInv
  OBVIOUS
<1>1. Idle \in HoursReq /\ Idle \in SettingsReq
  BY DEF HoursReq, SettingsReq
<1>2. /\ about \in Waited \union Detached \union {"hours"}
      /\ req = [h \in Handlers |-> Idle] /\ requests = 0 /\ pending = {}
      /\ tier \in {"none", "vote", "premium"}
  BY DEF Init, SettingsInit
<1>3. QED
  BY <1>1, <1>2, GuildSettingsAssumption DEF BaseInv

LEMMA BaseStep == BaseInv /\ [Next]_vars => BaseInv'
<1> SUFFICES ASSUME BaseInv, [Next]_vars PROVE BaseInv'
  OBVIOUS
<1>1. CASE about = "hours" /\ HoursNext /\ UNCHANGED <<stored, row, pending, latest, raced, lost>> /\ about' = about
  <2>1. HoursReq' = HoursReq
    BY DEF HoursReq, Saves, Deletions, RequestIds
  <2>2. QED
    BY <1>1, <2>1, HoursReqsStep DEF BaseInv
<1>2. CASE about # "hours" /\ SettingsNext /\ UNCHANGED <<tier, hoursVars>> /\ about' = about
  <2>1. SettingsReq' = SettingsReq
    BY <1>2, SameReqs
  <2>2. QED
    BY <1>2, <2>1, SettingsReqsStep DEF BaseInv
<1>3. CASE UNCHANGED vars
  <2>1. UNCHANGED <<about, requests, tier, req, pending>>
    BY <1>3 DEF vars, settingsVars
  <2>2. SettingsReq' = SettingsReq
    BY <2>1, SameReqs
  <2>3. QED
    BY <2>1, <2>2 DEF BaseInv, HoursReq, Saves, Deletions, RequestIds
<1>4. QED
  BY <1>1, <1>2, <1>3, Apart
----
(* Hours *)

Hour == [day : Days7, of : RequestIds]

\* A panel that no two requests were at together has at most one request at it,
\* which sees after its deletion only the hours it has put there itself; and when
\* none has come to that, and the last one did not end early, what was answered is there.
Schedules ==
    \A p \in Panels \ overlap :
      /\ \A g, h \in Handlers : req[g].op \in HoursOps /\ req[h].op \in HoursOps
                                /\ req[g].panel = p /\ req[h].panel = p => g = h
      /\ \A x, y \in hours[p] : x.of = y.of
      /\ \A h \in Handlers : req[h].op = "SetSupportHours" /\ req[h].panel = p /\ req[h].at = "next" =>
           \A x \in hours[p] : x.of = req[h].id
      /\ \A h \in Handlers : req[h].op = "DeleteSupportHours" /\ req[h].panel = p /\ req[h].at = "next" =>
           hours[p] = {}
      /\ p \notin half
         /\ (\A h \in Handlers : req[h].op \in HoursOps /\ req[h].at = "next" => req[h].panel # p) =>
           conf[p] = answered[p] /\ \A x \in hours[p] : x.of = answered[p]

HoursInv ==
    /\ hours \in [Panels -> SUBSET Hour]
    /\ \A p \in Panels : \A x, y \in hours[p] : x.day = y.day => x = y
    /\ conf \in [Panels -> {None} \union RequestIds]
    /\ answered \in [Panels -> {None} \union RequestIds]
    /\ Schedules

\* A guild that never had premium has hours on one panel; the saves under way are
\* for one panel, and the other panels have no hours but those that such a save has
\* found, or has yet to look at.
KeepsToOne ==
    /\ tier # "premium"
    /\ \A g, h \in Handlers : req[g].op = "SetSupportHours" /\ req[h].op = "SetSupportHours" =>
                               req[g].panel = req[h].panel
    /\ \A h \in Handlers : req[h].op = "SetSupportHours" =>
         \A q \in Panels : hours[q] # {} =>
           q = req[h].panel \/ (req[h].at = "quota" /\ q \in req[h].todo \union req[h].found)
    /\ \A p, q \in Panels : hours[p] # {} /\ hours[q] # {} => p = q

OneSchedule ==
    /\ about # "hours" => \A p \in Panels : hours[p] = {}
    /\ about = "hours" /\ ~everPaid /\ ~crowded => KeepsToOne

\* A request for a panel begins: it is alone there, or the panel is one where two overlapped.
LEMMA SchedulesBegin ==
    ASSUME req \in [Handlers -> HoursReq], Schedules, NEW h \in Handlers, NEW p0 \in Panels, NEW r,
           req[h] = Idle, r.panel = p0, r.at # "next", Moved(h, r),
           overlap' = overlap \union ({p0} \intersect Others(h)),
           UNCHANGED <<hours, conf, answered, half>>
    PROVE  Schedules'
<1>1. req'[h] = r /\ \A g \in Handlers \ {h} : req'[g] = req[g]
  BY DEF Moved
<1>2. req[h].op \notin HoursOps
  BY IdleIsIdle DEF HoursOps
<1> SUFFICES ASSUME NEW p \in Panels \ overlap'
             PROVE
      /\ \A g, k \in Handlers : req'[g].op \in HoursOps /\ req'[k].op \in HoursOps
                                /\ req'[g].panel = p /\ req'[k].panel = p => g = k
      /\ \A x, y \in hours'[p] : x.of = y.of
      /\ \A g \in Handlers : req'[g].op = "SetSupportHours" /\ req'[g].panel = p /\ req'[g].at = "next" =>
           \A x \in hours'[p] : x.of = req'[g].id
      /\ \A g \in Handlers : req'[g].op = "DeleteSupportHours" /\ req'[g].panel = p /\ req'[g].at = "next" =>
           hours'[p] = {}
      /\ p \notin half'
         /\ (\A g \in Handlers : req'[g].op \in HoursOps /\ req'[g].at = "next" => req'[g].panel # p) =>
           conf'[p] = answered'[p] /\ \A x \in hours'[p] : x.of = answered'[p]
  BY DEF Schedules
<1>3. p \in Panels \ overlap /\ (p = p0 => p \notin Others(h))
  OBVIOUS
<1>4. p = p0 => \A g \in Handlers \ {h} : req[g].op \in HoursOps => req[g].panel # p
  BY <1>3 DEF Others
<1>5. \A g, k \in Handlers : req'[g].op \in HoursOps /\ req'[k].op \in HoursOps
                             /\ req'[g].panel = p /\ req'[k].panel = p => g = k
  BY <1>1, <1>3, <1>4 DEF Schedules
<1>6. \A g \in Handlers : req'[g].at = "next" => g # h /\ req'[g] = req[g]
  BY <1>1
<1>7. p \notin half'
      /\ (\A g \in Handlers : req'[g].op \in HoursOps /\ req'[g].at = "next" => req'[g].panel # p) =>
        conf'[p] = answered'[p] /\ \A x \in hours'[p] : x.of = answered'[p]
  <2> SUFFICES ASSUME p \notin half,
                      \A g \in Handlers : req'[g].op \in HoursOps /\ req'[g].at = "next" => req'[g].panel # p
               PROVE  conf[p] = answered[p] /\ \A x \in hours[p] : x.of = answered[p]
    OBVIOUS
  <2>1. \A g \in Handlers : req[g].op \in HoursOps /\ req[g].at = "next" => req[g].panel # p
    BY <1>1, <1>2
  <2>2. QED
    BY <1>3, <2>1 DEF Schedules
<1>8. QED
  BY <1>3, <1>5, <1>6, <1>7 DEF Schedules, HoursOps

\* It goes on before its deletion, or is refused there.
LEMMA SchedulesBefore ==
    ASSUME Schedules, req \in [Handlers -> HoursReq], NEW h \in Handlers, NEW r,
           req[h].op \in HoursOps, req[h].at # "next", Moved(h, r),
           r = Idle \/ (r.op = req[h].op /\ r.panel = req[h].panel /\ r.at # "next"),
           UNCHANGED <<hours, conf, answered, half, overlap>>
    PROVE  Schedules'
<1>1. req'[h] = r /\ \A g \in Handlers \ {h} : req'[g] = req[g]
  BY DEF Moved
<1>2. \A g \in Handlers : req'[g].op \in HoursOps =>
                            req[g].op \in HoursOps /\ req'[g].op = req[g].op /\ req'[g].panel = req[g].panel
  BY <1>1, IdleIsIdle DEF HoursOps
<1>3. \A g \in Handlers : req'[g].op \in HoursOps /\ req'[g].at = "next" => req'[g] = req[g]
  BY <1>1, IdleIsIdle DEF HoursOps
<1>4. \A g \in Handlers : req[g].op \in HoursOps /\ req[g].at = "next" => req'[g] = req[g]
  BY <1>1
<1>5. QED
  BY <1>2, <1>3, <1>4 DEF Schedules, HoursOps

\* It goes on: the hours of the panel are its own, or none.
LEMMA SchedulesOn ==
    ASSUME req \in [Handlers -> HoursReq], Schedules, NEW h \in Handlers, NEW r, NEW H,
           req[h].op \in HoursOps, r.op = req[h].op, r.panel = req[h].panel, r.at = "next", Moved(h, r),
           hours \in [Panels -> SUBSET Hour], hours' = [hours EXCEPT ![req[h].panel] = H],
           req[h].panel \notin overlap =>
             /\ \A x, y \in H : x.of = y.of
             /\ req[h].op = "SetSupportHours" => \A x \in H : x.of = r.id
             /\ req[h].op = "DeleteSupportHours" => H = {},
           UNCHANGED <<conf, answered, half, overlap>>
    PROVE  Schedules'
<1>1. req'[h] = r /\ \A g \in Handlers \ {h} : req'[g] = req[g]
  BY DEF Moved
<1> SUFFICES ASSUME NEW p \in Panels \ overlap
             PROVE
      /\ \A g, k \in Handlers : req'[g].op \in HoursOps /\ req'[k].op \in HoursOps
                                /\ req'[g].panel = p /\ req'[k].panel = p => g = k
      /\ \A x, y \in hours'[p] : x.of = y.of
      /\ \A g \in Handlers : req'[g].op = "SetSupportHours" /\ req'[g].panel = p /\ req'[g].at = "next" =>
           \A x \in hours'[p] : x.of = req'[g].id
      /\ \A g \in Handlers : req'[g].op = "DeleteSupportHours" /\ req'[g].panel = p /\ req'[g].at = "next" =>
           hours'[p] = {}
      /\ p \notin half'
         /\ (\A g \in Handlers : req'[g].op \in HoursOps /\ req'[g].at = "next" => req'[g].panel # p) =>
           conf'[p] = answered'[p] /\ \A x \in hours'[p] : x.of = answered'[p]
  BY DEF Schedules
<1>2. \A g \in Handlers : req'[g].op = req[g].op /\ req'[g].panel = req[g].panel
  BY <1>1
<1>3. \A g, k \in Handlers : req'[g].op \in HoursOps /\ req'[k].op \in HoursOps
                             /\ req'[g].panel = p /\ req'[k].panel = p => g = k
  BY <1>2 DEF Schedules
<1>4. CASE p = req[h].panel
  <2>1. hours'[p] = H
    BY <1>4
  <2>2. \A g \in Handlers : req'[g].op \in HoursOps /\ req'[g].panel = p => g = h
    BY <1>2, <1>3, <1>4
  <2>3. ~ \A g \in Handlers : req'[g].op \in HoursOps /\ req'[g].at = "next" => req'[g].panel # p
    BY <1>1, <1>2, <1>4
  <2>4. QED
    BY <1>1, <1>3, <1>4, <2>1, <2>2, <2>3 DEF HoursOps
<1>5. CASE p # req[h].panel
  <2>1. hours'[p] = hours[p]
    BY <1>5
  <2>2. \A g \in Handlers : req'[g].panel = p => req'[g] = req[g]
    BY <1>1, <1>5
  <2>3. (\A g \in Handlers : req'[g].op \in HoursOps /\ req'[g].at = "next" => req'[g].panel # p)
          => \A g \in Handlers : req[g].op \in HoursOps /\ req[g].at = "next" => req[g].panel # p
    BY <1>1, <1>2, <1>5
  <2>4. QED
    BY <1>3, <2>1, <2>2, <2>3 DEF Schedules
<1>6. QED
  BY <1>4, <1>5

\* It ends: early, or with hours and settings of one request.
LEMMA SchedulesEnd ==
    ASSUME req \in [Handlers -> HoursReq], Schedules, NEW h \in Handlers, req[h].op \in HoursOps, Moved(h, Idle),
           NEW id, conf \in [Panels -> {None} \union RequestIds], answered \in [Panels -> {None} \union RequestIds],
           \/ half' = half \union {req[h].panel} /\ UNCHANGED <<conf, answered>>
           \/ /\ half' = half \ {req[h].panel}
              /\ conf' = [conf EXCEPT ![req[h].panel] = id]
              /\ answered' = [answered EXCEPT ![req[h].panel] = id]
              /\ req[h].panel \notin overlap => \A x \in hours[req[h].panel] : x.of = id,
           UNCHANGED <<hours, overlap>>
    PROVE  Schedules'
<1>1. req'[h] = Idle /\ \A g \in Handlers \ {h} : req'[g] = req[g]
  BY DEF Moved
<1>2. \A g \in Handlers : req'[g].op \in HoursOps => g # h /\ req'[g] = req[g]
  BY <1>1, IdleIsIdle DEF HoursOps
<1> SUFFICES ASSUME NEW p \in Panels \ overlap
             PROVE
      /\ \A g, k \in Handlers : req'[g].op \in HoursOps /\ req'[k].op \in HoursOps
                                /\ req'[g].panel = p /\ req'[k].panel = p => g = k
      /\ \A x, y \in hours'[p] : x.of = y.of
      /\ \A g \in Handlers : req'[g].op = "SetSupportHours" /\ req'[g].panel = p /\ req'[g].at = "next" =>
           \A x \in hours'[p] : x.of = req'[g].id
      /\ \A g \in Handlers : req'[g].op = "DeleteSupportHours" /\ req'[g].panel = p /\ req'[g].at = "next" =>
           hours'[p] = {}
      /\ p \notin half'
         /\ (\A g \in Handlers : req'[g].op \in HoursOps /\ req'[g].at = "next" => req'[g].panel # p) =>
           conf'[p] = answered'[p] /\ \A x \in hours'[p] : x.of = answered'[p]
  BY DEF Schedules
<1>3. p \notin half'
      /\ (\A g \in Handlers : req'[g].op \in HoursOps /\ req'[g].at = "next" => req'[g].panel # p) =>
        conf'[p] = answered'[p] /\ \A x \in hours'[p] : x.of = answered'[p]
  <2>1. CASE p = req[h].panel
    BY <2>1
  <2>2. CASE p # req[h].panel
    <3>1. conf'[p] = conf[p] /\ answered'[p] = answered[p] /\ (p \notin half' => p \notin half)
      BY <2>2
    <3>2. (\A g \in Handlers : req'[g].op \in HoursOps /\ req'[g].at = "next" => req'[g].panel # p)
            => \A g \in Handlers : req[g].op \in HoursOps /\ req[g].at = "next" => req[g].panel # p
      BY <1>1, <2>2
    <3>3. QED
      BY <3>1, <3>2 DEF Schedules
  <2>3. QED
    BY <2>1, <2>2
<1>4. QED
  BY <1>2, <1>3 DEF Schedules, HoursOps

\* What is done with the rows of a panel and with its settings, step by step.
HoursTypes ==
    /\ hours \in [Panels -> SUBSET Hour]
    /\ \A p \in Panels : \A x, y \in hours[p] : x.day = y.day => x = y
    /\ conf \in [Panels -> {None} \union RequestIds]
    /\ answered \in [Panels -> {None} \union RequestIds]

LEMMA HoursStart == Init => HoursInv
<1> SUFFICES ASSUME Init PROVE HoursInv
  OBVIOUS
<1>1. /\ hours = [p \in Panels |-> {}] /\ conf = [p \in Panels |-> None] /\ answered = conf
      /\ req = [h \in Handlers |-> Idle]
  BY DEF Init, SettingsInit
<1>2. \A h \in Handlers : req[h].op \notin HoursOps
  BY <1>1, IdleIsIdle DEF HoursOps
<1>3. Schedules
  BY <1>1, <1>2 DEF Schedules, HoursOps
<1>4. QED
  BY <1>1, <1>3 DEF HoursInv

LEMMA HoursStepKeeps ==
    ASSUME BaseInv, HoursInv, about = "hours", NEW h \in Handlers, HoursStep(h)
    PROVE  HoursTypes' /\ Schedules'
<1> USE DEF HoursTypes
<1>1. /\ req \in [Handlers -> HoursReq] /\ requests \in 0 .. MaxRequests
      /\ HoursTypes /\ Schedules
  BY DEF BaseInv, HoursInv
<1>2. ASSUME NEW p \in Panels, NEW list \in Lists, NEW ok \in BOOLEAN, BeginSet(h, p, list, ok)
      PROVE  HoursTypes' /\ Schedules'
  <2>1. /\ req[h] = Idle /\ Moved(h, Save(p, list, ok)) /\ Save(p, list, ok).panel = p
        /\ Save(p, list, ok).at # "next"
    BY <1>1, <1>2, HoursMoves DEF Save
  <2>2. overlap' = overlap \union ({p} \intersect Others(h)) /\ UNCHANGED <<hours, conf, answered, half>>
    BY <1>2 DEF BeginSet
  <2>3. Schedules'
    BY <1>1, <2>1, <2>2, SchedulesBegin
  <2>4. QED
    BY <1>1, <2>2, <2>3 DEF Hour, RequestIds
<1>3. ASSUME NEW p \in Panels, BeginDelete(h, p)
      PROVE  HoursTypes' /\ Schedules'
  <2>1. /\ req[h] = Idle /\ Moved(h, Deletion(p)) /\ Deletion(p).panel = p
        /\ Deletion(p).at # "next"
    BY <1>1, <1>3, HoursMoves DEF Deletion
  <2>2. overlap' = overlap \union ({p} \intersect Others(h)) /\ UNCHANGED <<hours, conf, answered, half>>
    BY <1>3 DEF BeginDelete
  <2>3. Schedules'
    BY <1>1, <2>1, <2>2, SchedulesBegin
  <2>4. QED
    BY <1>1, <2>2, <2>3 DEF Hour, RequestIds
<1>4. CASE DeleteByPanelId(h)
  <2>1. /\ req[h] \in Saves \union Deletions /\ Moved(h, Gone(req[h], "next"))
        /\ req[h].op \in HoursOps /\ req[h].panel \in Panels
        /\ Gone(req[h], "next").op = req[h].op /\ Gone(req[h], "next").panel = req[h].panel
        /\ Gone(req[h], "next").at = "next"
    BY <1>1, <1>4, HoursMoves, HoursOn
  <2>2. hours' = [hours EXCEPT ![req[h].panel] = {}] /\ UNCHANGED <<conf, answered, half, overlap>>
    BY <1>4 DEF DeleteByPanelId
  <2>3. Schedules'
    BY <1>1, <2>1, <2>2, SchedulesOn
  <2>4. QED
    BY <1>1, <2>1, <2>2, <2>3 DEF Hour, RequestIds
<1>5. CASE Upsert(h)
  <2> DEFINE p == req[h].panel
             new == [day |-> Head(req[h].list).day, of |-> req[h].id]
             H == {x \in hours[p] : x.day # new.day} \union {new}
  <2>1. /\ req[h] \in Saves /\ req[h].at = "next" /\ req[h].list # <<>> /\ Moved(h, Rest(req[h]))
        /\ req[h].op \in HoursOps /\ p \in Panels
        /\ Rest(req[h]).op = req[h].op /\ Rest(req[h]).panel = p
        /\ Rest(req[h]).id = req[h].id /\ Rest(req[h]).at = "next"
    BY <1>1, <1>5, HoursMoves, HoursOn
  <2>2. req[h].op = "SetSupportHours" /\ req[h].id \in RequestIds
    BY <2>1 DEF Saves
  <2>3. /\ hours' = [hours EXCEPT ![p] = H] /\ UNCHANGED <<conf, answered, half, overlap>>
        /\ new.day \in Days7
    BY <1>5 DEF Upsert
  <2>4. new \in Hour /\ new.of = req[h].id
    BY <2>2, <2>3 DEF Hour
  <2> HIDE DEF new
  <2>5. H \in SUBSET Hour /\ \A x, y \in H : x.day = y.day => x = y
    BY <1>1, <2>1, <2>4
  <2>6. p \notin overlap => \A x \in H : x.of = req[h].id
    <3>1. p \notin overlap => \A x \in hours[p] : x.of = req[h].id
      BY <1>1, <2>1, <2>2 DEF Schedules
    <3>2. QED
      BY <2>4, <3>1
  <2> HIDE DEF p, H
  <2>7. Schedules'
    <3>1. p = req[h].panel
      BY DEF p
    <3>2. p \notin overlap =>
             /\ \A x, y \in H : x.of = y.of
             /\ req[h].op = "SetSupportHours" => \A x \in H : x.of = Rest(req[h]).id
             /\ req[h].op = "DeleteSupportHours" => H = {}
      BY <2>1, <2>2, <2>6
    <3>3. QED
      BY <1>1, <2>1, <2>3, <3>1, <3>2, SchedulesOn
  <2>8. HoursTypes'
    BY <1>1, <2>1, <2>3, <2>5 DEF Hour, RequestIds
  <2>9. QED
    BY <2>7, <2>8
<1>6. CASE ReturnEarly(h) /\ req[h].op \in HoursOps
  <2>1. Moved(h, Idle)
    BY <1>1, <1>6 DEF ReturnEarly, Return, Moved
  <2>2. half' = half \union {req[h].panel} /\ UNCHANGED <<hours, conf, answered, overlap>>
    BY <1>6 DEF ReturnEarly, Return
  <2>3. Schedules'
    BY <1>1, <1>6, <2>1, <2>2, SchedulesEnd
  <2>4. QED
    BY <1>1, <2>2, <2>3 DEF Hour, RequestIds
<1>7. ASSUME NEW id \in {None} \union RequestIds, ReturnDone(h, id), req[h].op \in HoursOps, req[h].panel \in Panels,
             req[h].panel \notin overlap => \A x \in hours[req[h].panel] : x.of = id
      PROVE  HoursTypes' /\ Schedules'
  <2>1. Moved(h, Idle)
    BY <1>1, <1>7 DEF ReturnDone, Return, Moved
  <2>2. /\ half' = half \ {req[h].panel} /\ UNCHANGED <<hours, overlap>>
        /\ conf' = [conf EXCEPT ![req[h].panel] = id]
        /\ answered' = [answered EXCEPT ![req[h].panel] = id]
    BY <1>7 DEF ReturnDone, Return
  <2>3. Schedules'
    BY <1>1, <1>7, <2>1, <2>2, SchedulesEnd
  <2>4. QED
    BY <1>1, <1>7, <2>2, <2>3 DEF Hour, RequestIds
<1>8. CASE WriteHoursSettings(h)
  <2>1. req[h] \in Saves /\ req[h].at = "next"
    BY <1>1, <1>8, HoursMoves
  <2>2. /\ req[h].op = "SetSupportHours" /\ req[h].id \in RequestIds /\ req[h].panel \in Panels
        /\ req[h].op \in HoursOps
    BY <2>1 DEF Saves, HoursOps
  <2>3. req[h].panel \notin overlap => \A x \in hours[req[h].panel] : x.of = req[h].id
    BY <1>1, <2>1, <2>2 DEF Schedules
  <2>4. QED
    BY <1>7, <1>8, <2>2, <2>3 DEF WriteHoursSettings
<1>9. CASE DeleteHoursSettings(h)
  <2>1. req[h] \in Deletions /\ req[h].at = "next"
    BY <1>1, <1>9, HoursMoves
  <2>2. /\ req[h].op = "DeleteSupportHours" /\ req[h].panel \in Panels
        /\ req[h].op \in HoursOps
    BY <2>1 DEF Deletions, HoursOps
  <2>3. req[h].panel \notin overlap => \A x \in hours[req[h].panel] : x.of = None
    BY <1>1, <2>1, <2>2 DEF Schedules
  <2>4. QED
    BY <1>7, <1>9, <2>2, <2>3 DEF DeleteHoursSettings
<1>10. RefuseEntry(h) \/ RefuseSettings(h) \/ HoursFail(h) => ReturnEarly(h) /\ req[h].op \in HoursOps
  BY DEF RefuseEntry, RefuseSettings, HoursFail, At, HoursOps
<1>11. CASE GetOtherHours(h) \/ PassQuota(h) \/ RefuseSet(h)
  <2>1. UNCHANGED hoursVars
    BY <1>11 DEF GetOtherHours, PassQuota, RefuseSet
  <2>2. req[h] \in Saves /\ req[h].at = "quota" /\ req[h].op \in HoursOps
    BY <1>1, <1>11, HoursMoves, HoursOn
  <2>3. \E r : /\ Moved(h, r)
               /\ r = Idle \/ (r.op = req[h].op /\ r.panel = req[h].panel /\ r.at # "next")
    BY <1>1, <1>11, <2>2, HoursMoves, HoursOn
  <2>4. Schedules'
    BY <1>1, <2>1, <2>2, <2>3, SchedulesBefore DEF hoursVars
  <2>5. QED
    BY <1>1, <2>1, <2>4 DEF hoursVars, Hour, RequestIds
<1>12. QED
  BY <1>2, <1>3, <1>4, <1>5, <1>6, <1>8, <1>9, <1>10, <1>11 DEF HoursStep

LEMMA HoursInvStep == BaseInv /\ HoursInv /\ [Next]_vars => HoursInv'
<1> SUFFICES ASSUME BaseInv, HoursInv, [Next]_vars PROVE HoursInv'
  OBVIOUS
<1>1. CASE UNCHANGED vars
  BY <1>1 DEF vars, settingsVars, hoursVars, HoursInv, Schedules, Hour, RequestIds
<1>2. CASE about = "hours" /\ ChangeTier
  BY <1>2 DEF ChangeTier, HoursInv, Schedules, Hour, RequestIds
<1>3. CASE about = "hours" /\ \E h \in Handlers : HoursStep(h)
  BY <1>3, HoursStepKeeps DEF HoursInv, HoursTypes
<1>4. CASE about # "hours" /\ SettingsNext /\ UNCHANGED <<tier, hoursVars>> /\ about' = about
  <2>1. req' \in [Handlers -> SettingsReq] /\ req \in [Handlers -> SettingsReq]
    BY <1>4, SettingsReqsStep DEF BaseInv
  <2>2. \A h \in Handlers : req[h].op \notin HoursOps /\ req'[h].op \notin HoursOps
    BY <2>1, SettingsReqs DEF HoursOps
  <2>3. UNCHANGED <<hours, conf, answered, half, overlap>>
    BY <1>4 DEF hoursVars
  <2>4. Schedules'
    BY <2>2, <2>3 DEF HoursInv, Schedules, HoursOps
  <2>5. QED
    BY <2>3, <2>4 DEF HoursInv, Hour, RequestIds
<1>5. QED
  BY <1>1, <1>2, <1>3, <1>4, Apart DEF HoursNext

LEMMA OneScheduleStart == Init => OneSchedule
<1> SUFFICES ASSUME Init PROVE OneSchedule
  OBVIOUS
<1>1. /\ hours = [p \in Panels |-> {}] /\ req = [h \in Handlers |-> Idle] /\ everPaid = (tier = "premium")
  BY DEF Init, SettingsInit
<1>2. \A h \in Handlers : req[h].op \notin HoursOps
  BY <1>1, IdleIsIdle DEF HoursOps
<1>3. QED
  BY <1>1, <1>2 DEF OneSchedule, KeepsToOne, HoursOps

\* What MayHaveHours asks of the panels that were looked at, and that nobody saves
\* hours of another panel meanwhile, is what keeps the hours of a free guild on one.
LEMMA OneScheduleStepHours ==
    ASSUME BaseInv, HoursInv, OneSchedule, about = "hours", NEW h \in Handlers, HoursStep(h),
           ~everPaid', ~crowded'
    PROVE  KeepsToOne'
<1>1. /\ req \in [Handlers -> HoursReq] /\ requests \in 0 .. MaxRequests
      /\ hours \in [Panels -> SUBSET Hour]
  BY DEF BaseInv, HoursInv
<1>2. everPaid' = everPaid /\ tier' = tier /\ (crowded => crowded')
  <2>1. /\ \A p, list, ok : BeginSet(h, p, list, ok) => everPaid' = everPaid /\ tier' = tier /\ (crowded => crowded')
        /\ \A p : BeginDelete(h, p) => everPaid' = everPaid /\ tier' = tier /\ (crowded => crowded')
    <3>1. \A p, list, ok : BeginSet(h, p, list, ok) => everPaid' = everPaid /\ tier' = tier /\ (crowded => crowded')
      BY DEF BeginSet, SettingsUntouched
    <3>2. \A p : BeginDelete(h, p) => UNCHANGED <<everPaid, tier, crowded>>
      BY DEF BeginDelete, SettingsUntouched
    <3>3. \A p : BeginDelete(h, p) => everPaid' = everPaid /\ tier' = tier /\ (crowded => crowded')
      BY <3>2
    <3>4. QED
      BY <3>1, <3>3
  <2>2. GetOtherHours(h) \/ PassQuota(h) \/ RefuseSet(h) \/ DeleteByPanelId(h) \/ Upsert(h) \/ Return(h)
          => UNCHANGED <<everPaid, tier, crowded>>
    BY DEF GetOtherHours, PassQuota, RefuseSet, DeleteByPanelId, Upsert, Return, SettingsUntouched, hoursVars
  <2>3. GetOtherHours(h) \/ PassQuota(h) \/ RefuseSet(h) \/ DeleteByPanelId(h) \/ Upsert(h) \/ Return(h)
          => everPaid' = everPaid /\ tier' = tier /\ (crowded => crowded')
    BY <2>2
  <2>4. QED
    BY <2>1, <2>3
       DEF HoursStep, RefuseEntry, RefuseSettings, WriteHoursSettings, DeleteHoursSettings, HoursFail,
           ReturnEarly, ReturnDone
<1>3. KeepsToOne
  BY <1>2 DEF OneSchedule
<1>4. req[h] = Idle => req[h].op \notin HoursOps
  BY IdleIsIdle DEF HoursOps
<1>5. ASSUME NEW p \in Panels, NEW list \in Lists, NEW ok \in BOOLEAN, BeginSet(h, p, list, ok)
      PROVE  KeepsToOne'
  <2>1. /\ req[h] = Idle /\ Moved(h, Save(p, list, ok)) /\ Save(p, list, ok).panel = p
        /\ Save(p, list, ok).at = "quota" /\ Save(p, list, ok).todo = Panels \ {p}
    BY <1>1, <1>3, <1>5, HoursMoves DEF Save, KeepsToOne
  <2>2. /\ crowded' = (crowded \/ \E g \in Handlers \ {h} : req[g].op = "SetSupportHours" /\ req[g].panel # p)
        /\ hours' = hours
    BY <1>5 DEF BeginSet
  <2>3. \A g \in Handlers \ {h} : req[g].op = "SetSupportHours" => req[g].panel = p
    BY <2>2
  <2>4. /\ req'[h] = Save(p, list, ok)
        /\ \A g \in Handlers \ {h} : req'[g] = req[g]
    BY <2>1 DEF Moved
  <2>5. \A g \in Handlers : req'[g].op = "SetSupportHours" => req'[g].panel = p
    BY <2>1, <2>3, <2>4
  <2>6. \A q \in Panels : q = p \/ q \in Save(p, list, ok).todo
    BY <2>1
  <2>7. \A g \in Handlers : req'[g].op = "SetSupportHours" =>
          \A q \in Panels : hours'[q] # {} =>
            q = req'[g].panel \/ (req'[g].at = "quota" /\ q \in req'[g].todo \union req'[g].found)
    <3>1. ASSUME NEW g \in Handlers \ {h}, req'[g].op = "SetSupportHours", NEW q \in Panels, hours'[q] # {}
          PROVE  q = req'[g].panel \/ (req'[g].at = "quota" /\ q \in req'[g].todo \union req'[g].found)
      BY <1>3, <2>2, <2>4, <3>1 DEF KeepsToOne
    <3>2. \A q \in Panels : q = req'[h].panel \/ (req'[h].at = "quota" /\ q \in req'[h].todo \union req'[h].found)
      BY <2>1, <2>4, <2>6
    <3>3. QED
      BY <3>1, <3>2
  <2>8. QED
    BY <1>2, <1>3, <2>2, <2>5, <2>7 DEF KeepsToOne
<1>6. ASSUME NEW p \in Panels, BeginDelete(h, p)
      PROVE  KeepsToOne'
  <2>1. req[h] = Idle /\ Moved(h, Deletion(p)) /\ Deletion(p).op = "DeleteSupportHours"
    BY <1>1, <1>6, HoursMoves DEF Deletion
  <2>2. hours' = hours
    BY <1>6 DEF BeginDelete
  <2>3. \A g \in Handlers : req'[g].op = "SetSupportHours" => req'[g] = req[g]
    BY <2>1 DEF Moved
  <2>4. QED
    BY <1>2, <1>3, <2>2, <2>3 DEF KeepsToOne
<1>7. CASE GetOtherHours(h)
  <2>1. PICK q \in req[h].todo : Moved(h, LookedAt(req[h], q))
    BY <1>1, <1>7, HoursMoves
  <2>2. req[h] \in Saves /\ req[h].at = "quota" /\ req[h].op = "SetSupportHours"
    BY <1>1, <1>7, HoursMoves DEF Saves
  <2>3. /\ LookedAt(req[h], q).op = req[h].op /\ LookedAt(req[h], q).panel = req[h].panel
        /\ LookedAt(req[h], q).at = req[h].at
    BY <2>1, <2>2, HoursOn
  <2>4. \A p \in req[h].todo \union req[h].found : hours[p] # {} =>
          p \in LookedAt(req[h], q).todo \union LookedAt(req[h], q).found
    BY <2>2 DEF LookedAt, Saves
  <2>5. hours' = hours
    BY <1>7 DEF GetOtherHours, hoursVars
  <2>6. /\ req'[h] = LookedAt(req[h], q)
        /\ \A g \in Handlers \ {h} : req'[g] = req[g]
    BY <2>1 DEF Moved
  <2>7. \A g \in Handlers : req'[g].op = req[g].op /\ req'[g].panel = req[g].panel /\ req'[g].at = req[g].at
    BY <2>3, <2>6
  <2>8. \A g \in Handlers : req'[g].op = "SetSupportHours" =>
          \A p \in req[g].todo \union req[g].found : hours[p] # {} => p \in req'[g].todo \union req'[g].found
    BY <2>4, <2>6
  <2>9. QED
    BY <1>2, <1>3, <2>5, <2>7, <2>8 DEF KeepsToOne
<1>8. CASE PassQuota(h)
  <2>1. req[h] \in Saves /\ req[h].op = "SetSupportHours" /\ Moved(h, Gone(req[h], "delete"))
    BY <1>1, <1>8, HoursMoves DEF Saves
  <2>2. Gone(req[h], "delete").panel = req[h].panel /\ Gone(req[h], "delete").op = req[h].op
    BY <2>1, HoursOn
  <2>3. req[h].todo \union req[h].found = {} /\ hours' = hours
    BY <1>8 DEF PassQuota, MayHaveHours, hoursVars
  <2>4. /\ req'[h] = Gone(req[h], "delete")
        /\ \A g \in Handlers \ {h} : req'[g] = req[g]
    BY <2>1 DEF Moved
  <2>5. \A q \in Panels : hours[q] # {} => q = req[h].panel
    BY <1>3, <2>1, <2>3 DEF KeepsToOne
  <2>6. \A g \in Handlers : req'[g].op = req[g].op /\ req'[g].panel = req[g].panel
    BY <2>2, <2>4
  <2>7. \A g \in Handlers \ {h} : req'[g] = req[g]
    BY <2>4
  <2>8. QED
    BY <1>2, <1>3, <2>3, <2>5, <2>6, <2>7 DEF KeepsToOne
<1>9. CASE DeleteByPanelId(h)
  <2>1. /\ req[h] \in Saves \union Deletions /\ req[h].at = "delete" /\ Moved(h, Gone(req[h], "next"))
        /\ Gone(req[h], "next").op = req[h].op /\ Gone(req[h], "next").panel = req[h].panel
    BY <1>1, <1>9, HoursMoves, HoursOn
  <2>2. \A g \in Handlers : /\ req'[g].op = req[g].op /\ req'[g].panel = req[g].panel
                            /\ req[g].at = "quota" => req'[g] = req[g]
    BY <2>1 DEF Moved
  <2>3. hours' = [hours EXCEPT ![req[h].panel] = {}]
    BY <1>9 DEF DeleteByPanelId
  <2>4. \A q \in Panels : hours'[q] # {} => hours[q] # {}
    BY <1>1, <2>3
  <2>5. QED
    BY <1>2, <1>3, <2>2, <2>4 DEF KeepsToOne
<1>10. CASE Upsert(h)
  <2>1. /\ req[h] \in Saves /\ req[h].at = "next" /\ Moved(h, Rest(req[h])) /\ req[h].panel \in Panels
        /\ Rest(req[h]).op = req[h].op /\ Rest(req[h]).panel = req[h].panel
    BY <1>1, <1>10, HoursMoves, HoursOn
  <2>2. \A g \in Handlers : req'[g].op = req[g].op /\ req'[g].panel = req[g].panel
    BY <2>1 DEF Moved
  <2>3. req[h].op = "SetSupportHours"
    BY <2>1 DEF Saves
  <2>4. \A q \in Panels : hours'[q] # {} => hours[q] # {} \/ q = req[h].panel
    BY <1>1, <1>10 DEF Upsert
  <2>5. \A q \in Panels : hours'[q] # {} => q = req[h].panel
    BY <1>3, <2>1, <2>3, <2>4 DEF KeepsToOne
  <2>6. \A g \in Handlers : req'[g].op = "SetSupportHours" => req'[g].panel = req[h].panel
    BY <1>3, <2>2, <2>3 DEF KeepsToOne
  <2>7. QED
    BY <1>2, <1>3, <2>5, <2>6 DEF KeepsToOne
<1>11. ASSUME Moved(h, Idle), hours' = hours
       PROVE  KeepsToOne'
  <2>1. \A g \in Handlers : req'[g].op = "SetSupportHours" => req'[g] = req[g]
    BY <1>11, IdleIsIdle DEF Moved
  <2>2. QED
    BY <1>2, <1>3, <1>11, <2>1 DEF KeepsToOne
<1>12. RefuseSet(h) \/ (Return(h) /\ hours' = hours) => Moved(h, Idle) /\ hours' = hours
  BY <1>1 DEF RefuseSet, Return, Moved, hoursVars
<1>13. QED
  BY <1>5, <1>6, <1>7, <1>8, <1>9, <1>10, <1>11, <1>12
     DEF HoursStep, RefuseEntry, RefuseSettings, WriteHoursSettings, DeleteHoursSettings, HoursFail,
         ReturnEarly, ReturnDone

LEMMA OneScheduleStep == BaseInv /\ HoursInv /\ OneSchedule /\ [Next]_vars => OneSchedule'
<1> SUFFICES ASSUME BaseInv, HoursInv, OneSchedule, [Next]_vars PROVE OneSchedule'
  OBVIOUS
<1>1. CASE UNCHANGED vars
  BY <1>1 DEF vars, settingsVars, hoursVars, OneSchedule, KeepsToOne
<1>2. CASE about = "hours" /\ about' = about /\ ChangeTier
  BY <1>2 DEF ChangeTier, OneSchedule
<1>3. CASE about = "hours" /\ about' = about /\ \E h \in Handlers : HoursStep(h)
  BY <1>3, OneScheduleStepHours DEF OneSchedule
<1>4. CASE about # "hours" /\ SettingsNext /\ UNCHANGED <<tier, hoursVars>> /\ about' = about
  <2>1. req' \in [Handlers -> SettingsReq]
    BY <1>4, SettingsReqsStep DEF BaseInv
  <2>2. \A h \in Handlers : req'[h].op \notin HoursOps
    BY <2>1, SettingsReqs DEF HoursOps
  <2>3. UNCHANGED <<hours, everPaid, crowded>>
    BY <1>4 DEF hoursVars
  <2>4. QED
    BY <1>4, <2>3 DEF OneSchedule
<1>5. QED
  BY <1>1, <1>2, <1>3, <1>4, Apart DEF HoursNext

\* What holds of every behaviour of settings, panels and hours.
LEMMA HoursInvariant == Spec => [](BaseInv /\ HoursInv /\ OneSchedule)
<1>1. Init => BaseInv /\ HoursInv /\ OneSchedule
  BY BaseStart, HoursStart, OneScheduleStart
<1>2. BaseInv /\ HoursInv /\ OneSchedule /\ [Next]_vars => (BaseInv /\ HoursInv /\ OneSchedule)'
  BY BaseStep, HoursInvStep, OneScheduleStep
<1>3. QED
  BY <1>1, <1>2, PTL DEF Spec

\* The hours of a panel are of one request, whatever entry is refused or call of
\* SetSupportHours or DeleteSupportHours fails, unless two requests overlapped there.
THEOREM HoursAgree == Spec => []HoursAreOfOneRequest
<1>1. HoursInv => HoursAreOfOneRequest
  BY DEF HoursInv, Schedules, HoursAreOfOneRequest
<1>2. QED
  BY <1>1, HoursInvariant, PTL

\* What SetSupportHours or DeleteSupportHours answered with success is there as a
\* whole, rows and settings, until another request for that panel begins.
THEOREM SchedulesStand == Spec => []AnsweredScheduleIsWhole
<1>1. HoursInv => AnsweredScheduleIsWhole
  BY DEF HoursInv, Schedules, AnsweredScheduleIsWhole
<1>2. QED
  BY <1>1, HoursInvariant, PTL

\* The quota of one panel with hours, which SetSupportHours checks before it
\* deletes and inserts, holds in a free guild as long as no saves of two panels
\* overlap, whatever else does and whatever fails.
THEOREM FreeGuildsKeepToOne == Spec => []FreeGuildHasOneSchedule
<1>1. OneSchedule => FreeGuildHasOneSchedule
  <2> SUFFICES ASSUME OneSchedule, ~everPaid, ~crowded
               PROVE  Cardinality({p \in Panels : hours[p] # {}}) <= 1
    BY DEF FreeGuildHasOneSchedule
  <2> DEFINE S == {p \in Panels : hours[p] # {}}
  <2>1. \A p, q \in S : p = q
    BY DEF OneSchedule, KeepsToOne
  <2>2. CASE S = {}
    BY <2>2, FS_EmptySet
  <2>3. ASSUME NEW p \in S PROVE Cardinality(S) <= 1
    <3>1. S = {p}
      BY <2>1
    <3>2. QED
      BY <3>1, FS_Singleton
  <2>4. QED
    BY <2>2, <2>3
<1>2. QED
  BY <1>1, HoursInvariant, PTL
----
(* Settings *)

\* The values that are written when their turn comes.
Writable == {v \in Values : Writes(about, v)}

\* Whatever is on its way is among the latest values; a request that met no other
\* is the only one under way, with nothing detached before it; and the table has
\* one of these values, or will have it when a detached write arrives.
LatestInv ==
    /\ \A h \in Updating : req[h].value \in Writable => req[h].value \in latest
    /\ \A h \in Updating : req[h].alone =>
         /\ \A g \in Updating : g = h
         /\ pending = {}
         /\ req[h].at = "answer" /\ about \in Waited /\ req[h].value \in Writable => stored = req[h].value
    /\ \A w \in pending : w.value \in latest
    /\ about \in Waited => pending = {}
    /\ ~lost => stored \in latest \/ pending # {}

LEMMA SameWritable ==
    ASSUME about' = about, tier' = tier
    PROVE  Writable' = Writable
<1>1. Values' = Values
  BY SameReqs
<1>2. QED
  BY <1>1 DEF Writable, Writes, ValidFlag

LEMMA LatestStart == Init => LatestInv
<1> SUFFICES ASSUME Init PROVE LatestInv
  OBVIOUS
<1>1. req = [h \in Handlers |-> Idle] /\ pending = {} /\ latest = {stored}
  BY DEF Init, SettingsInit
<1>2. Updating = {}
  BY <1>1, IdleIsIdle DEF Updating
<1>3. QED
  BY <1>1, <1>2 DEF LatestInv

\* A request is validated: those beside it are no longer alone.
LEMMA LatestValidated ==
    ASSUME BaseInv, LatestInv, about # "hours", NEW h \in Handlers, NEW v \in Asked[about], ValidateSettings(h, v)
    PROVE  LatestInv'
<1> DEFINE n == Normal(about, v)
           u == Update(n, Quiet)
<1>1. req \in [Handlers -> SettingsReq]
  BY DEF BaseInv
<1>2. /\ req[h] = Idle
      /\ req' = [g \in Handlers |-> IF g = h THEN u ELSE IF g \in Updating THEN Beside(req[g]) ELSE req[g]]
  BY <1>1, SettingsMoves
<1>3. n \in Values
  BY DEF Values
<1>4. /\ latest' = (IF Quiet THEN {stored} ELSE latest) \union (IF n \in Writable THEN {n} ELSE {})
      /\ UNCHANGED <<about, stored, tier, pending, lost>>
  BY <1>3 DEF ValidateSettings, Writable
<1>5. Writable' = Writable
  BY <1>4, SameWritable
<1>6. u.op = "UpdateSettings" /\ u.value = n /\ u.alone = Quiet /\ u.at = "write"
  BY DEF Update
<1> HIDE DEF n, u
<1>7. \A g \in Updating : /\ g # h /\ req'[g].value = req[g].value /\ ~req'[g].alone
                          /\ req'[g].op = "UpdateSettings"
  <2> SUFFICES ASSUME NEW g \in Updating
               PROVE  g # h /\ req'[g].value = req[g].value /\ ~req'[g].alone /\ req'[g].op = "UpdateSettings"
    OBVIOUS
  <2>1. g \in Handlers /\ g # h /\ req[g] \in Updates
    BY <1>1, <1>2, SettingsReqs, IdleIsIdle DEF Updating
  <2>2. req'[g] = Beside(req[g])
    BY <1>2, <2>1
  <2>3. Beside(req[g]) \in Updates /\ Beside(req[g]).value = req[g].value /\ ~Beside(req[g]).alone
    BY <2>1, UpdatesGoOn
  <2>4. QED
    BY <2>1, <2>2, <2>3 DEF Updates
<1>8. /\ req'[h] = u
      /\ Updating' = Updating \union {h}
  BY <1>2, <1>6, <1>7 DEF Updating
<1>9. \A g \in Updating' : req'[g].value \in Writable => req'[g].value \in latest'
  <2>1. CASE Quiet
    BY <1>4, <1>6, <1>8, <2>1 DEF Quiet
  <2>2. CASE ~Quiet
    BY <1>4, <1>6, <1>7, <1>8, <2>2 DEF LatestInv
  <2>3. QED
    BY <2>1, <2>2
<1>10. \A g \in Updating' : req'[g].alone =>
         /\ \A k \in Updating' : k = g
         /\ pending = {}
         /\ req'[g].at = "answer" /\ about \in Waited /\ req'[g].value \in Writable => stored = req'[g].value
  BY <1>6, <1>7, <1>8 DEF Quiet
<1>11. /\ \A w \in pending : w.value \in latest'
       /\ ~lost => stored \in latest' \/ pending # {}
  BY <1>4 DEF LatestInv, Quiet
<1>12. QED
  BY <1>4, <1>5, <1>9, <1>10, <1>11 DEF LatestInv

\* The write of the group, the answer, and the end of a group that fails.
LEMMA LatestWritten ==
    ASSUME BaseInv, LatestInv, about # "hours", NEW h \in Handlers, WriteWaited(h)
    PROVE  LatestInv'
<1> DEFINE r == Gone(req[h], "answer")
<1>1. req \in [Handlers -> SettingsReq]
  BY DEF BaseInv
<1>2. /\ req[h] \in Updates /\ Moved(h, r) /\ h \in Updating
      /\ r \in Updates /\ r.value = req[h].value /\ r.alone = req[h].alone
  BY <1>1, SettingsMoves, UpdatesGoOn DEF Updating, Updates
<1>3. req[h].value \in Values
  BY <1>2 DEF Updates
<1>4. /\ stored' = IF about \in Waited /\ req[h].value \in Writable THEN req[h].value ELSE stored
      /\ UNCHANGED <<about, tier, pending, latest, lost>>
  BY <1>3 DEF WriteWaited, Writable
<1>5. Writable' = Writable
  BY <1>4, SameWritable
<1> HIDE DEF r
<1>6. /\ req'[h] = r /\ \A g \in Handlers \ {h} : req'[g] = req[g]
      /\ r.op = "UpdateSettings" /\ req[h].op = "UpdateSettings"
  BY <1>2 DEF Moved, Updates
<1>7. Updating' = Updating /\ \A g \in Updating : req'[g].value = req[g].value /\ req'[g].alone = req[g].alone
  BY <1>2, <1>6 DEF Updating
<1>8. ASSUME NEW g \in Updating, req'[g].alone
      PROVE  /\ \A k \in Updating : k = g
             /\ pending = {}
             /\ req'[g].at = "answer" /\ about \in Waited /\ req'[g].value \in Writable => stored' = req'[g].value
  <2>1. g = h /\ (\A k \in Updating : k = g) /\ pending = {}
    BY <1>2, <1>7, <1>8 DEF LatestInv
  <2>2. QED
    BY <1>4, <1>7, <2>1
<1>9. ~lost => stored' \in latest \/ pending # {}
  BY <1>2, <1>4 DEF LatestInv
<1>10. QED
  BY <1>4, <1>5, <1>7, <1>8, <1>9 DEF LatestInv

LEMMA LatestAnswered ==
    ASSUME BaseInv, LatestInv, about # "hours", NEW h \in Handlers, Answer(h)
    PROVE  LatestInv'
<1> DEFINE v == req[h].value
<1>1. req \in [Handlers -> SettingsReq] /\ about \in Waited \union Detached
  BY DEF BaseInv
<1>2. req[h] \in Updates /\ req[h].at = "answer" /\ Moved(h, Idle) /\ h \in Updating
  BY <1>1, SettingsMoves DEF Updating, Updates
<1>3. v \in Values /\ req[h].alone \in BOOLEAN
  BY <1>2 DEF Updates
<1>4. /\ pending' = pending \union (IF about \in Detached /\ v \in Writable
                                   THEN {[of |-> req[h].id, value |-> v]} ELSE {})
      /\ latest' = IF req[h].alone /\ v \in Writable THEN {v} ELSE latest
      /\ UNCHANGED <<about, stored, tier, lost>>
  BY <1>3 DEF Answer, Writable
<1>5. Writable' = Writable
  BY <1>4, SameWritable
<1>6. Updating' = Updating \ {h} /\ \A g \in Updating' : req'[g] = req[g]
  BY <1>2, IdleIsIdle DEF Moved, Updating
<1>7. /\ v \in Writable => v \in latest
      /\ req[h].alone => (\A g \in Updating : g = h) /\ pending = {}
      /\ req[h].alone /\ about \in Waited /\ v \in Writable => stored = v
  BY <1>2 DEF LatestInv
<1> HIDE DEF v
<1>8. CASE req[h].alone
  <2>1. Updating' = {} /\ pending = {}
    BY <1>6, <1>7, <1>8
  <2>2. \A w \in pending' : w.value \in latest'
    BY <1>4, <1>8, <2>1
  <2>3. about \in Waited => pending' = {}
    BY <1>4, <2>1 DEF Waited, Detached
  <2>4. ~lost => stored \in latest' \/ pending' # {}
    <3>1. CASE v \in Writable
      BY <1>1, <1>4, <1>7, <1>8, <3>1
    <3>2. CASE v \notin Writable
      BY <1>4, <3>2 DEF LatestInv
    <3>3. QED
      BY <3>1, <3>2
  <2>5. QED
    BY <1>4, <2>1, <2>2, <2>3, <2>4 DEF LatestInv
<1>9. CASE ~req[h].alone
  <2>1. latest' = latest /\ pending \subseteq pending'
    BY <1>4, <1>9
  <2>2. \A w \in pending' : w.value \in latest
    BY <1>4, <1>7 DEF LatestInv
  <2>3. about \in Waited => pending' = {}
    BY <1>4 DEF LatestInv, Waited, Detached
  <2>4. ASSUME NEW g \in Updating', req'[g].alone PROVE FALSE
    BY <1>2, <1>6, <1>9, <2>4 DEF LatestInv
  <2>5. \A g \in Updating' : req'[g].value \in Writable => req'[g].value \in latest
    BY <1>6 DEF LatestInv
  <2>6. ~lost => stored \in latest \/ pending' # {}
    BY <2>1 DEF LatestInv
  <2>7. QED
    BY <1>4, <1>5, <2>1, <2>2, <2>3, <2>4, <2>5, <2>6 DEF LatestInv
<1>10. QED
  BY <1>3, <1>8, <1>9

\* A request ends otherwise, or is about a panel; nothing else changes.
LEMMA LatestEnded ==
    ASSUME LatestInv, Updating' \subseteq Updating, \A g \in Updating' : req'[g] = req[g],
           UNCHANGED <<about, stored, tier, pending, latest, lost>>
    PROVE  LatestInv'
<1>1. Writable' = Writable
  BY SameWritable
<1>2. QED
  BY <1>1 DEF LatestInv

LEMMA LatestStep == BaseInv /\ LatestInv /\ [Next]_vars => LatestInv'
<1> SUFFICES ASSUME BaseInv, LatestInv, [Next]_vars PROVE LatestInv'
  OBVIOUS
<1>1. CASE UNCHANGED vars
  <2>1. UNCHANGED <<about, stored, tier, req, pending, latest, lost>>
    BY <1>1 DEF vars, settingsVars
  <2>2. Updating' = Updating
    BY <2>1 DEF Updating
  <2>3. QED
    BY <2>1, <2>2, LatestEnded
<1>2. CASE about = "hours" /\ about' = about /\ HoursNext
           /\ UNCHANGED <<stored, row, pending, latest, raced, lost>>
  <2>1. \A q \in HoursReq : q.op # "UpdateSettings"
    BY HoursReqs
  <2>2. Updating = {} /\ Updating' = {}
    BY <1>2, <2>1, HoursReqsStep DEF BaseInv, Updating
  <2>3. about \notin Waited /\ about' \notin Waited
    BY <1>2 DEF Waited
  <2>4. QED
    BY <1>2, <2>2, <2>3 DEF LatestInv
<1>3. CASE about # "hours" /\ SettingsNext /\ UNCHANGED <<tier, hoursVars>> /\ about' = about
  <2>1. req \in [Handlers -> SettingsReq]
    BY <1>3 DEF BaseInv
  <2>2. ASSUME NEW h \in Handlers, Moved(h, Idle) PROVE Updating' \subseteq Updating /\ \A g \in Updating' : req'[g] = req[g]
    BY <2>2, IdleIsIdle DEF Moved, Updating
  <2>3. ASSUME NEW h \in Handlers, UpdateSettings(h) PROVE LatestInv'
    <3>1. CASE GroupFails(h)
      <4>1. Moved(h, Idle) /\ UNCHANGED <<about, stored, tier, pending, latest, lost>>
        BY <2>1, <3>1, SettingsMoves DEF GroupFails
      <4>2. QED
        BY <2>2, <4>1, LatestEnded
    <3>2. QED
      BY <1>3, <2>3, <3>1, LatestValidated, LatestWritten, LatestAnswered DEF UpdateSettings
  <2>4. ASSUME NEW h \in Handlers, ChangePanel(h) PROVE LatestInv'
    <3>1. ASSUME NEW op \in {"CreatePanel", "UpdatePanel"}, NEW p \in Panels, NEW b \in Bodies,
                 ValidatePanel(h, op, p, b)
          PROVE  LatestInv'
      <4>1. Moved(h, PanelReq(op, p, b)) /\ UNCHANGED <<about, stored, tier, pending, latest, lost>>
        BY <2>1, <3>1, SettingsMoves DEF ValidatePanel
      <4>2. PanelReq(op, p, b).op # "UpdateSettings"
        BY DEF PanelReq
      <4>3. Updating' \subseteq Updating /\ \A g \in Updating' : req'[g] = req[g]
        BY <4>1, <4>2 DEF Moved, Updating
      <4>4. QED
        BY <4>1, <4>3, LatestEnded
    <3>2. CASE StorePanel(h) \/ PanelFails(h)
      <4>1. Moved(h, Idle)
        BY <2>1, <3>2, SettingsMoves
      <4>2. UNCHANGED <<about, stored, tier, pending, latest, lost>>
        BY <3>2 DEF StorePanel, PanelFails
      <4>3. QED
        BY <2>2, <4>1, <4>2, LatestEnded
    <3>3. QED
      BY <2>4, <3>1, <3>2 DEF ChangePanel
  <2>5. ASSUME NEW w \in pending, DetachedWrite(w) \/ DetachedWriteFails(w) PROVE LatestInv'
    <3>1. Updating' = Updating /\ UNCHANGED <<about, tier, req, latest>> /\ pending' = pending \ {w}
      BY <2>5 DEF DetachedWrite, DetachedWriteFails, Updating
    <3>2. Writable' = Writable
      BY <3>1, SameWritable
    <3>3. \A g \in Updating : ~req[g].alone
      BY <2>5 DEF LatestInv
    <3>4. ~lost' => stored' \in latest
      BY <2>5 DEF DetachedWrite, DetachedWriteFails, LatestInv
    <3>5. QED
      BY <3>1, <3>2, <3>3, <3>4 DEF LatestInv
  <2>6. QED
    BY <1>3, <2>3, <2>4, <2>5 DEF SettingsNext
<1>4. QED
  BY <1>1, <1>2, <1>3, Apart

\* Once no write is under way, a table has a value of the last requests; so the
\* answer of UpdateSettings and the detached writes behind it leave nothing older.
THEOREM SettingsStand == Spec => []SettingsComeFromLastRequests
<1>1. Init => BaseInv /\ LatestInv
  BY BaseStart, LatestStart
<1>2. BaseInv /\ LatestInv /\ [Next]_vars => (BaseInv /\ LatestInv)'
  BY BaseStep, LatestStep
<1>3. LatestInv => SettingsComeFromLastRequests
  BY DEF LatestInv, SettingsComeFromLastRequests, Quiet
<1>4. QED
  BY <1>1, <1>2, <1>3, PTL DEF Spec
----
(* Rows *)

\* The rows of the bodies that were let through.
Rows == {RowOf(b, R) : b \in Kept, R \in SUBSET GuildRoles}

RowsInv ==
    /\ row \in [Panels -> {None} \union Rows]
    /\ about \notin {"settings", "hours"} => \A p \in Panels : row[p] = None

\* A row is its body but for the mentions, and so is the body that is made of a row.
Mentioning(b, m) == [b EXCEPT !.mentions = m]

LEMMA Mentions ==
    ASSUME NEW b, b = [f \in AllFields |-> b[f]], NEW m
    PROVE  /\ Alike(b, Mentioning(b, m)) /\ Mentioning(b, m).notify = b.notify
           /\ Mentioning(b, m).mentions = m
           /\ Mentioning(b, m) = [f \in AllFields |-> Mentioning(b, m)[f]]
           /\ \A n : Mentioning(Mentioning(b, m), n) = Mentioning(b, n)
           /\ Mentioning(b, b.mentions) = b
  BY DEF Mentioning, AllFields, Fields, Alike

LEMMA MentioningIsBody ==
    ASSUME NEW b \in Body, NEW m \in Mentionings
    PROVE  Mentioning(b, m) \in Body
<1> DEFINE c == Mentioning(b, m)
<1>1. c = [f \in AllFields |-> c[f]] /\ Alike(b, c) /\ c.notify = b.notify /\ c.mentions = m
  BY BodyFields, Mentions
<1> HIDE DEF c
<1>2. \A f \in Fields : c[f] = b[f]
  BY <1>1 DEF Alike
<1>3. /\ \A f \in {"title", "content"} : c[f] \in {b[f], "default"}
      /\ \A f \in {"image", "thumbnail", "naming", "notify"} : c[f] \in {b[f], None}
      /\ \A f \in Fields \ {"title", "content", "image", "thumbnail", "naming"} : c[f] = b[f]
  BY <1>1, <1>2 DEF Fields
<1>4. c \in Body
  BY <1>1, <1>3, BodyMade
<1>5. QED
  BY <1>4 DEF c

\* The mentions of a row.
Columns(b, R) == [user |-> Says(b, "user"), here |-> Says(b, "here"), roles |-> R]

LEMMA ColumnFields ==
    ASSUME NEW b, NEW R
    PROVE  /\ Columns(b, R).user = Says(b, "user") /\ Columns(b, R).here = Says(b, "here")
           /\ Columns(b, R).roles = R /\ RowOf(b, R) = Mentioning(b, Columns(b, R))
  BY DEF Columns, RowOf, Mentioning

LEMMA RowFields ==
    ASSUME NEW b \in Body, NEW R
    PROVE  /\ Alike(b, RowOf(b, R)) /\ RowOf(b, R).notify = b.notify
           /\ RowOf(b, R).useThreads = b.useThreads
           /\ RowOf(b, R).mentions = Columns(b, R)
           /\ RowOf(b, R) = [f \in AllFields |-> RowOf(b, R)[f]]
           /\ \A n : Mentioning(RowOf(b, R), n) = Mentioning(b, n)
<1>1. RowOf(b, R) = Mentioning(b, Columns(b, R))
  BY ColumnFields
<1>2. b = [f \in AllFields |-> b[f]]
  BY BodyFields
<1>3. Alike(b, RowOf(b, R)) => RowOf(b, R).useThreads = b.useThreads
  BY DEF Alike, Fields
<1>4. QED
  BY <1>1, <1>2, <1>3, Mentions

LEMMA StoredRows ==
    ASSUME NEW b \in Kept
    PROVE  CreatedRow(b) \in Rows /\ UpdatedRow(b) \in Rows
<1>1. \A S \in SUBSET RoleMentions(b) : {b.mentions[i] : i \in S} \in SUBSET GuildRoles
  BY DEF RoleMentions
<1>2. \A R \in SUBSET GuildRoles : RowOf(b, R) \in Rows
  BY DEF Rows
<1> DEFINE last == {i \in RoleMentions(b) : \A j \in RoleMentions(b) : j <= i}
<1>3. last \in SUBSET RoleMentions(b) /\ RoleMentions(b) \in SUBSET RoleMentions(b)
  OBVIOUS
<1>4. /\ CreatedRow(b) = RowOf(b, {b.mentions[i] : i \in last})
      /\ UpdatedRow(b) = RowOf(b, {b.mentions[i] : i \in RoleMentions(b)})
  BY DEF CreatedRow, UpdatedRow
<1> HIDE DEF last
<1>5. {b.mentions[i] : i \in last} \in SUBSET GuildRoles /\ {b.mentions[i] : i \in RoleMentions(b)} \in SUBSET GuildRoles
  BY <1>1, <1>3
<1>6. QED
  BY <1>2, <1>4, <1>5

LEMMA SameRows == BaseInv /\ [Next]_vars => Kept' = Kept /\ Rows' = Rows
<1> SUFFICES ASSUME BaseInv, [Next]_vars PROVE Kept' = Kept
  BY DEF Rows
<1>1. CASE about' = about /\ tier' = tier
  BY <1>1, SameReqs
<1>2. CASE about' = about /\ about = "hours"
  BY <1>2 DEF Kept
<1>3. QED
  BY <1>1, <1>2, Apart DEF vars, settingsVars

\* The panels that a behaviour about hours begins with.
LEMMA PlainRows ==
    ASSUME Init, about = "hours"
    PROVE  \E b \in Kept : /\ row = [p \in Panels |-> CreatedRow(b)]
                           /\ ~(b.useThreads /\ b.notify = None)
<1> DEFINE b == CHOOSE c \in Bodies : Plainly(Defaults(c))
           d == Defaults(b)
<1>1. about \notin Waited \union Detached
  BY DEF Waited, Detached
<1>2. row = [p \in Panels |-> CreatedRow(Normalised(d))]
  BY <1>1 DEF Init, SettingsInit
<1>3. b \in Body /\ Plainly(d)
  BY HoursAssumption, GuildSettingsAssumption
<1> HIDE DEF b
<1>4. /\ d \in Body /\ Normalised(d) \in Body /\ Normalised(Normalised(d)) = Normalised(d)
      /\ Defaults(Normalised(d)) = Normalised(d)
  <2>1. d \in Body /\ Defaults(d) = d
    BY <1>3, DefaultsKeep
  <2>2. QED
    BY <2>1, DefaultsKeep
<1> HIDE DEF d
<1>5. Accepts(Normalised(d), FALSE, None) /\ ValidMentions(Normalised(d))
  BY <1>3, <1>4, NormalisedIsAccepted DEF Plainly
<1>6. Normalised(d) \in Kept
  <2>1. (about # "hours" /\ tier # "none") = FALSE
    OBVIOUS
  <2>2. QED
    BY <1>4, <1>5, <2>1 DEF Kept
<1>7. ~(Normalised(d).useThreads /\ Normalised(d).notify = None)
  BY <1>5 DEF Accepts, ValidNotificationChannel
<1>8. QED
  BY <1>2, <1>6, <1>7

LEMMA RowsStart == Init => RowsInv
<1> SUFFICES ASSUME Init PROVE RowsInv
  OBVIOUS
<1>1. CASE about = "hours"
  <2>1. PICK b \in Kept : row = [p \in Panels |-> CreatedRow(b)]
    BY <1>1, PlainRows
  <2>2. CreatedRow(b) \in Rows
    BY StoredRows
  <2>3. QED
    BY <1>1, <2>1, <2>2 DEF RowsInv
<1>2. CASE about # "hours"
  <2>1. row = [p \in Panels |-> None]
    BY <1>2 DEF Init, SettingsInit
  <2>2. QED
    BY <2>1 DEF RowsInv
<1>3. QED
  BY <1>1, <1>2

\* Only StorePanel changes rows, in the panel of its request.
LEMMA RowsChange ==
    ASSUME BaseInv, [Next]_vars
    PROVE  \/ row' = row
           \/ /\ about = "settings"
              /\ \E h \in Handlers :
                   /\ req[h] \in PanelReqs /\ StorePanel(h)
                   /\ \E r \in {CreatedRow(req[h].body), UpdatedRow(req[h].body)} :
                        row' = [row EXCEPT ![req[h].panel] = r]
<1>1. CASE about # "hours" /\ SettingsNext
  <2>1. req \in [Handlers -> SettingsReq]
    BY <1>1 DEF BaseInv
  <2>2. ASSUME NEW h \in Handlers, StorePanel(h)
        PROVE  /\ about = "settings" /\ req[h] \in PanelReqs
               /\ \E r \in {CreatedRow(req[h].body), UpdatedRow(req[h].body)} :
                    row' = [row EXCEPT ![req[h].panel] = r]
    <3>1. about = "settings" /\ req[h] \in PanelReqs
      BY <2>1, <2>2, SettingsMoves
    <3>2. QED
      BY <2>2, <3>1 DEF StorePanel
  <2>3. ASSUME NEW h \in Handlers, UpdateSettings(h) \/ ChangePanel(h), ~StorePanel(h)
        PROVE  row' = row
    BY <2>3 DEF UpdateSettings, ChangePanel, ValidateSettings, WriteWaited, GroupFails, Answer,
                ValidatePanel, PanelFails
  <2>4. QED
    BY <1>1, <2>2, <2>3 DEF SettingsNext, DetachedWrite, DetachedWriteFails
<1>2. CASE UNCHANGED vars
  BY <1>2 DEF vars, settingsVars
<1>3. QED
  BY <1>1, <1>2, Apart

LEMMA RowsStep == BaseInv /\ RowsInv /\ [Next]_vars => RowsInv'
<1> SUFFICES ASSUME BaseInv, RowsInv, [Next]_vars PROVE RowsInv'
  OBVIOUS
<1>1. about' = about /\ Rows' = Rows
  BY Apart, SameRows
<1>2. CASE row' = row
  BY <1>1, <1>2 DEF RowsInv
<1>3. ASSUME about = "settings", NEW h \in Handlers, req[h] \in PanelReqs,
             NEW r \in {CreatedRow(req[h].body), UpdatedRow(req[h].body)},
             row' = [row EXCEPT ![req[h].panel] = r]
      PROVE  RowsInv'
  <2>1. req[h].body \in Kept /\ req[h].panel \in Panels
    BY <1>3 DEF PanelReqs
  <2>2. r \in Rows
    BY <2>1, StoredRows
  <2>3. QED
    BY <1>1, <1>3, <2>1, <2>2 DEF RowsInv
<1>4. QED
  BY <1>2, <1>3, RowsChange

\* Panels in thread mode that have no channel of their own.
Dependent == {p \in Panels : row[p] # None /\ row[p].useThreads /\ row[p].notify = None}
PanelOps == {"CreatePanel", "UpdatePanel"}

\* As long as no update of the settings was beside a request about a panel, each
\* still stands on what it was validated against: an update that turns threads off
\* on there being no such panel, a panel without a channel on the guild's.
ChannelInv ==
    /\ about = "hours" => Dependent = {}
    /\ about = "settings" /\ ~raced =>
         /\ \A g, h \in Handlers : req[g].op = "UpdateSettings" => req[h].op \notin PanelOps
         /\ \A h \in Updating : IF req[h].value.useThreads THEN req[h].value.channel # None ELSE Dependent = {}
         /\ \A h \in Handlers : req[h].op \in PanelOps /\ req[h].body.useThreads /\ req[h].body.notify = None =>
              stored.channel # None
         /\ Dependent # {} => stored.channel # None

LEMMA ChannelStart == Init => ChannelInv
<1> SUFFICES ASSUME Init PROVE ChannelInv
  OBVIOUS
<1>1. req = [h \in Handlers |-> Idle]
  BY DEF Init, SettingsInit
<1>2. \A h \in Handlers : req[h].op = "idle"
  BY <1>1, IdleIsIdle
<1>3. CASE about = "hours"
  <2>1. PICK b \in Kept : /\ row = [p \in Panels |-> CreatedRow(b)]
                         /\ ~(b.useThreads /\ b.notify = None)
    BY <1>3, PlainRows
  <2>2. CreatedRow(b).useThreads = b.useThreads /\ CreatedRow(b).notify = b.notify
    <3>1. b \in Body
      BY DEF Kept
    <3>2. QED
      BY <3>1, RowFields DEF CreatedRow
  <2>3. Dependent = {}
    BY <2>1, <2>2 DEF Dependent
  <2>4. QED
    BY <1>3, <2>3 DEF ChannelInv
<1>4. CASE about # "hours"
  <2>1. row = [p \in Panels |-> None]
    BY <1>4 DEF Init, SettingsInit
  <2>2. Dependent = {}
    BY <2>1 DEF Dependent
  <2>3. QED
    BY <1>2, <1>4, <2>2 DEF ChannelInv, Updating, PanelOps
<1>5. QED
  BY <1>3, <1>4

LEMMA ChannelUpdate ==
    ASSUME BaseInv, RowsInv, ChannelInv, LatestInv, about = "settings", ~raced', NEW h \in Handlers, UpdateSettings(h)
    PROVE  ChannelInv'
<1>1. req \in [Handlers -> SettingsReq] /\ about' = about /\ Dependent' = Dependent
  BY DEF BaseInv, UpdateSettings, ValidateSettings, WriteWaited, GroupFails, Answer, Dependent
<1>2. ASSUME NEW v \in Asked[about], ValidateSettings(h, v) PROVE ChannelInv'
  <2> DEFINE n == Normal(about, v)
             u == Update(n, Quiet)
  <2>1. /\ req[h] = Idle
        /\ req' = [g \in Handlers |-> IF g = h THEN u ELSE IF g \in Updating THEN Beside(req[g]) ELSE req[g]]
    BY <1>1, <1>2, SettingsMoves
  <2>2. IF n.useThreads THEN n.channel # None ELSE Dependent = {}
    BY <1>2 DEF ValidateSettings, Acceptable, ThreadModeOk, DependsOnGlobal, Dependent, Stored
  <2>3. ~raced /\ stored' = stored /\ \A g \in Handlers : req[g].op \notin PanelOps
    BY <1>2 DEF ValidateSettings, PanelOps
  <2>4. u.op = "UpdateSettings" /\ u.value = n
    BY DEF Update
  <2> HIDE DEF n, u
  <2>5. \A g \in Updating : /\ g # h /\ req'[g].value = req[g].value /\ req'[g].op = "UpdateSettings"
    <3> SUFFICES ASSUME NEW g \in Updating
                 PROVE  g # h /\ req'[g].value = req[g].value /\ req'[g].op = "UpdateSettings"
      OBVIOUS
    <3>1. g \in Handlers /\ g # h /\ req[g] \in Updates
      BY <1>1, <2>1, SettingsReqs, IdleIsIdle DEF Updating
    <3>2. req'[g] = Beside(req[g]) /\ Beside(req[g]) \in Updates /\ Beside(req[g]).value = req[g].value
      BY <2>1, <3>1, UpdatesGoOn
    <3>3. QED
      BY <3>1, <3>2 DEF Updates
  <2>6. Updating' = Updating \union {h} /\ req'[h] = u
    BY <2>1, <2>4, <2>5 DEF Updating
  <2>7. \A g \in Handlers : req'[g].op \notin PanelOps
    <3>1. \A g \in Handlers : g \in Updating' => req'[g].op = "UpdateSettings"
      BY DEF Updating
    <3>2. \A g \in Handlers : g \notin Updating' => req'[g] = req[g]
      BY <2>1, <2>6
    <3>3. QED
      BY <2>3, <3>1, <3>2 DEF PanelOps
  <2>8. \A g \in Updating' : IF req'[g].value.useThreads THEN req'[g].value.channel # None ELSE Dependent = {}
    BY <2>2, <2>3, <2>4, <2>5, <2>6 DEF ChannelInv
  <2>9. QED
    BY <1>1, <2>3, <2>7, <2>8 DEF ChannelInv
<1>3. CASE WriteWaited(h)
  <2> DEFINE r == Gone(req[h], "answer")
  <2>1. req[h] \in Updates /\ Moved(h, r) /\ r.value = req[h].value /\ r \in Updates /\ ~raced
    BY <1>1, <1>3, SettingsMoves, UpdatesGoOn DEF WriteWaited
  <2> HIDE DEF r
  <2>2. \A g \in Handlers : req'[g].op = req[g].op /\ (g # h => req'[g] = req[g])
    BY <2>1 DEF Moved, Updates
  <2>3. h \in Updating /\ Updating' = Updating /\ \A g \in Updating : req'[g].value = req[g].value
    BY <2>1, <2>2 DEF Updating, Moved, Updates
  <2>4. stored' = stored \/ stored' = req[h].value
    BY <1>3 DEF WriteWaited
  <2>5. Dependent # {} => stored'.channel # None
    BY <2>1, <2>3, <2>4 DEF ChannelInv
  <2>6. \A g, k \in Handlers : req'[g].op = "UpdateSettings" => req'[k].op \notin PanelOps
    BY <2>1, <2>2 DEF ChannelInv
  <2>7. \A k \in Handlers : req'[k].op \notin PanelOps
    BY <2>3, <2>6 DEF Updating
  <2>8. \A g \in Updating' : IF req'[g].value.useThreads THEN req'[g].value.channel # None ELSE Dependent = {}
    BY <2>1, <2>3 DEF ChannelInv
  <2>9. QED
    BY <1>1, <2>5, <2>6, <2>7, <2>8 DEF ChannelInv
<1>4. CASE GroupFails(h) \/ Answer(h)
  <2>1. Moved(h, Idle) /\ stored' = stored /\ ~raced
    BY <1>1, <1>4, SettingsMoves DEF GroupFails, Answer
  <2>2. \A g \in Handlers : req'[g] = req[g] \/ req'[g].op = "idle"
    BY <2>1, IdleIsIdle DEF Moved
  <2>3. Updating' \subseteq Updating /\ \A g \in Updating' : req'[g] = req[g]
    BY <2>2 DEF Updating
  <2>4. \A g, k \in Handlers : req'[g].op = "UpdateSettings" => req'[k].op \notin PanelOps
    BY <2>1, <2>2 DEF ChannelInv, PanelOps
  <2>5. \A g \in Handlers : req'[g].op \in PanelOps => req'[g] = req[g]
    BY <2>2 DEF PanelOps
  <2>6. QED
    BY <1>1, <2>1, <2>3, <2>4, <2>5 DEF ChannelInv
<1>5. QED
  BY <1>2, <1>3, <1>4 DEF UpdateSettings

LEMMA ChannelPanel ==
    ASSUME BaseInv, RowsInv, ChannelInv, about = "settings", about' = about, ~raced', NEW h \in Handlers, ChangePanel(h)
    PROVE  ChannelInv'
<1>1. req \in [Handlers -> SettingsReq] /\ stored' = stored
  BY DEF BaseInv, ChangePanel, ValidatePanel, StorePanel, PanelFails
<1>2. ASSUME NEW op \in {"CreatePanel", "UpdatePanel"}, NEW p \in Panels, NEW b \in Bodies,
             ValidatePanel(h, op, p, b)
      PROVE  ChannelInv'
  <2> DEFINE r == PanelReq(op, p, b)
             d == Defaults(b)
  <2>1. Moved(h, r) /\ req[h] = Idle
    BY <1>1, <1>2, SettingsMoves
  <2>2. ~raced /\ Updating = {} /\ Dependent' = Dependent
    BY <1>2 DEF ValidatePanel, Dependent
  <2>3. r.op = op /\ r.body = Normalised(d)
    BY DEF PanelReq
  <2>4. d \in Body
    BY DefaultsKeep, GuildSettingsAssumption
  <2>5. d.useThreads /\ d.notify = None => stored.channel # None
    BY <1>2 DEF ValidatePanel, Accepts, ValidNotificationChannel, GlobalChannel
  <2> HIDE DEF r, d
  <2>6. Normalised(d).useThreads /\ Normalised(d).notify = None => stored.channel # None
    <3>1. d = [f \in AllFields |-> d[f]]
      BY <2>4, BodyFields
    <3>2. /\ Normalised(d).notify = IF d.useThreads THEN d.notify ELSE None
          /\ Normalised(d).useThreads = d.useThreads
      BY <3>1, NormalisedFields DEF AllFields, Fields
    <3>3. QED
      BY <2>5, <3>2
  <2>7. req'[h] = r /\ \A g \in Handlers \ {h} : req'[g] = req[g]
    BY <2>1 DEF Moved
  <2>8. \A g \in Handlers : req'[g].op # "UpdateSettings"
    BY <2>2, <2>3, <2>7 DEF Updating
  <2>9. QED
    BY <1>1, <2>2, <2>3, <2>6, <2>7, <2>8 DEF ChannelInv, Updating
<1>3. CASE StorePanel(h) \/ PanelFails(h)
  <2> DEFINE b == req[h].body
             p == req[h].panel
  <2>1. req[h] \in PanelReqs /\ Moved(h, Idle) /\ ~raced
    BY <1>1, <1>3, SettingsMoves DEF StorePanel, PanelFails
  <2>2. req[h].op \in PanelOps /\ b \in Body /\ p \in Panels
    BY <2>1 DEF PanelReqs, PanelOps, Kept
  <2>3. \A R : RowOf(b, R).useThreads = b.useThreads /\ RowOf(b, R).notify = b.notify
    BY <2>2, RowFields DEF Alike, Fields
  <2>4. \/ row' = row
        \/ \E R : row' = [row EXCEPT ![p] = RowOf(b, R)]
    BY <1>3 DEF StorePanel, PanelFails, CreatedRow, UpdatedRow
  <2>5. b.useThreads /\ b.notify = None => stored.channel # None
    BY <2>1, <2>2 DEF ChannelInv
  <2>6. Dependent' \subseteq Dependent \union (IF b.useThreads /\ b.notify = None THEN {p} ELSE {})
    <3>1. CASE row' = row
      BY <3>1 DEF Dependent
    <3>2. ASSUME NEW R, row' = [row EXCEPT ![p] = RowOf(b, R)]
          PROVE  Dependent' \subseteq Dependent \union (IF b.useThreads /\ b.notify = None THEN {p} ELSE {})
      BY <2>2, <2>3, <3>2 DEF Dependent, RowsInv
    <3>3. QED
      BY <2>4, <3>1, <3>2
  <2>7. Dependent' # {} => stored.channel # None
    BY <2>1, <2>5, <2>6 DEF ChannelInv
  <2>8. \A g \in Handlers : req'[g] = req[g] \/ req'[g].op = "idle"
    BY <2>1, IdleIsIdle DEF Moved
  <2>9. \A g \in Handlers : req'[g].op # "UpdateSettings"
    BY <2>1, <2>2, <2>8 DEF ChannelInv
  <2>10. \A g \in Handlers : req'[g].op \in PanelOps => req'[g] = req[g]
    BY <2>8 DEF PanelOps
  <2>11. QED
    BY <1>1, <2>1, <2>7, <2>9, <2>10 DEF ChannelInv, Updating
<1>4. QED
  BY <1>2, <1>3 DEF ChangePanel

LEMMA ChannelStep == BaseInv /\ RowsInv /\ LatestInv /\ ChannelInv /\ [Next]_vars => ChannelInv'
<1> SUFFICES ASSUME BaseInv, RowsInv, LatestInv, ChannelInv, [Next]_vars PROVE ChannelInv'
  OBVIOUS
<1>1. about' = about
  BY Apart
<1>2. CASE about = "hours"
  <2>1. row' = row
    BY <1>2, RowsChange
  <2>2. QED
    BY <1>1, <1>2, <2>1 DEF ChannelInv, Dependent
<1>3. CASE about = "settings" /\ ~raced'
  <2>1. CASE UNCHANGED vars
    BY <2>1 DEF vars, settingsVars, ChannelInv, Dependent, Updating
  <2>2. CASE SettingsNext
    <3>1. pending = {}
      BY <1>3 DEF LatestInv, Waited
    <3>2. QED
      BY <1>1, <1>3, <2>2, <3>1, ChannelUpdate, ChannelPanel DEF SettingsNext
  <2>3. QED
    BY <1>3, <2>1, <2>2, Apart
<1>4. QED
  BY <1>1, <1>2, <1>3 DEF ChannelInv

LEMMA SettingsInvariant == Spec => [](BaseInv /\ RowsInv /\ LatestInv /\ ChannelInv)
<1>1. Init => BaseInv /\ RowsInv /\ LatestInv /\ ChannelInv
  BY BaseStart, RowsStart, LatestStart, ChannelStart
<1>2. BaseInv /\ RowsInv /\ LatestInv /\ ChannelInv /\ [Next]_vars => (BaseInv /\ RowsInv /\ LatestInv /\ ChannelInv)'
  BY BaseStep, RowsStep, LatestStep, ChannelStep
<1>3. QED
  BY <1>1, <1>2, PTL DEF Spec

\* No panel in thread mode is left without a channel: what UpdateSettings checks
\* of the panels and CreatePanel and UpdatePanel of the settings guard each other
\* for any number of requests, unless one of each is under way together.
THEOREM ThreadsHaveChannels == Spec => []ThreadPanelsHaveChannel
<1>1. BaseInv /\ RowsInv /\ ChannelInv => ThreadPanelsHaveChannel
  <2> SUFFICES ASSUME BaseInv, RowsInv, ChannelInv, ~raced, NEW p \in Stored, DependsOnGlobal(p)
               PROVE  GlobalChannel # None
    BY DEF ThreadPanelsHaveChannel
  <2>1. p \in Dependent /\ row[p] # None /\ p \in Panels
    BY DEF Stored, Dependent, DependsOnGlobal
  <2>2. about = "settings"
    BY <2>1 DEF RowsInv, ChannelInv
  <2>3. QED
    BY <2>1, <2>2 DEF ChannelInv, GlobalChannel
<1>2. QED
  BY <1>1, SettingsInvariant, PTL
----
(* Panels that are saved again *)

LEMMA ListedLists ==
    ASSUME NEW S, IsFiniteSet(S)
    PROVE  /\ Listed(S) \in Seq(S)
           /\ \A x \in S : \E i \in DOMAIN Listed(S) : Listed(S)[i] = x
<1> DEFINE n == Cardinality(S)
<1>1. n \in Nat /\ ExistsBijection(1 .. n, S)
  BY FS_CardinalityType
<1>2. PICK f \in [1 .. n -> S] : \A x \in S : \E i \in 1 .. n : f[i] = x
  BY <1>1 DEF ExistsBijection, Bijection, Surjection
<1>3. \E s \in [1 .. n -> S] : \A x \in S : \E i \in DOMAIN s : s[i] = x
  BY <1>2
<1>4. Listed(S) \in [1 .. n -> S] /\ \A x \in S : \E i \in DOMAIN Listed(S) : Listed(S)[i] = x
  BY <1>3 DEF Listed
<1>5. QED
  BY <1>1, <1>4

LEMMA RolesAreFinite == \A R \in SUBSET GuildRoles : IsFiniteSet(R)
<1>1. IsFiniteSet({"everyone"}) /\ IsFiniteSet({"mod"}) /\ IsFiniteSet({"vip"})
  BY FS_Singleton
<1>2. IsFiniteSet({"everyone"} \union {"mod"})
  BY <1>1, FS_Union
<1>3. IsFiniteSet({"everyone"} \union {"mod"} \union {"vip"})
  BY <1>1, <1>2, FS_Union
<1>4. GuildRoles = {"everyone"} \union {"mod"} \union {"vip"}
  BY DEF GuildRoles
<1>5. QED
  BY <1>3, <1>4, FS_Subset

\* The mentions that ListPanels makes of a row's.
Back(m) == (IF m.user THEN <<"user">> ELSE <<>>) \o (IF m.here THEN <<"here">> ELSE <<>>) \o Listed(m.roles)

\* They say what the columns say, and nothing else.
LEMMA BackSays ==
    ASSUME NEW m, m.user \in BOOLEAN, m.here \in BOOLEAN, m.roles \in SUBSET GuildRoles
    PROVE  /\ Back(m) \in Seq({"user", "here"} \union GuildRoles)
           /\ (\E i \in DOMAIN Back(m) : Back(m)[i] = "user") <=> m.user
           /\ (\E i \in DOMAIN Back(m) : Back(m)[i] = "here") <=> m.here
           /\ {x \in GuildRoles : \E i \in DOMAIN Back(m) : Back(m)[i] = x} = m.roles
<1> DEFINE L == Listed(m.roles)
           u == IF m.user THEN <<"user">> ELSE <<>>
           k == IF m.here THEN <<"here">> ELSE <<>>
           all == {"user", "here"} \union GuildRoles
<1>1. L \in Seq(m.roles) /\ \A x \in m.roles : \E i \in DOMAIN L : L[i] = x
  BY ListedLists, RolesAreFinite
<1> HIDE DEF L
<1>2. /\ L \in Seq(all) /\ \A i \in 1 .. Len(L) : L[i] \in m.roles
      /\ \A x \in m.roles : \E i \in 1 .. Len(L) : L[i] = x
      /\ Len(L) \in Nat
  BY <1>1
<1>3. /\ u \in Seq(all) /\ \A i \in 1 .. Len(u) : u[i] = "user"
      /\ m.user => Len(u) = 1
      /\ ~m.user => Len(u) = 0
  <2>1. CASE m.user
    <3>1. u = <<"user">>
      BY <2>1
    <3>2. QED
      BY <2>1, <3>1
  <2>2. CASE ~m.user
    <3>1. u = <<>>
      BY <2>2
    <3>2. QED
      BY <2>2, <3>1
  <2>3. QED
    BY <2>1, <2>2
<1>4. /\ k \in Seq(all) /\ \A i \in 1 .. Len(k) : k[i] = "here"
      /\ m.here => Len(k) = 1
      /\ ~m.here => Len(k) = 0
  <2>1. CASE m.here
    <3>1. k = <<"here">>
      BY <2>1
    <3>2. QED
      BY <2>1, <3>1
  <2>2. CASE ~m.here
    <3>1. k = <<>>
      BY <2>2
    <3>2. QED
      BY <2>2, <3>1
  <2>3. QED
    BY <2>1, <2>2
<1> HIDE DEF u, k
<1>5. /\ u \o k \o L \in Seq(all)
      /\ Len(u \o k \o L) = Len(u) + Len(k) + Len(L)
      /\ \A i \in 1 .. Len(u) : (u \o k \o L)[i] = u[i]
      /\ \A i \in 1 .. Len(k) : (u \o k \o L)[Len(u) + i] = k[i]
      /\ \A i \in 1 .. Len(L) : (u \o k \o L)[Len(u) + Len(k) + i] = L[i]
  BY <1>2, <1>3, <1>4
<1> DEFINE b == u \o k \o L
<1>6. Back(m) = b
  BY DEF Back, u, k, L
<1>7. DOMAIN b = 1 .. Len(u) + Len(k) + Len(L)
  BY <1>5
<1>8. Len(u) \in Nat /\ Len(k) \in Nat
  BY <1>3, <1>4
<1>9. ASSUME NEW i \in DOMAIN b
      PROVE  (b[i] = "user" /\ m.user) \/ (b[i] = "here" /\ m.here) \/ b[i] \in m.roles
  <2>1. CASE i <= Len(u)
    <3>1. i \in 1 .. Len(u)
      BY <1>2, <1>7, <1>8, <2>1
    <3>2. b[i] = "user" /\ Len(u) # 0
      BY <1>3, <1>5, <1>8, <3>1
    <3>3. QED
      BY <1>3, <3>2
  <2>2. CASE i > Len(u) /\ i <= Len(u) + Len(k)
    <3>1. i - Len(u) \in 1 .. Len(k) /\ Len(u) + (i - Len(u)) = i
      BY <1>2, <1>7, <1>8, <2>2
    <3>2. b[i] = "here" /\ Len(k) # 0
      BY <1>4, <1>5, <1>8, <3>1
    <3>3. QED
      BY <1>4, <3>2
  <2>3. CASE i > Len(u) + Len(k)
    <3> DEFINE j == i - (Len(u) + Len(k))
    <3>1. j \in 1 .. Len(L) /\ Len(u) + Len(k) + j = i
      BY <1>2, <1>7, <1>8, <2>3
    <3> HIDE DEF j
    <3>2. b[i] = L[j]
      BY <1>5, <3>1
    <3>3. QED
      BY <1>2, <3>1, <3>2
  <2>4. QED
    BY <1>2, <1>7, <1>8, <2>1, <2>2, <2>3
<1>10. m.user => \E i \in DOMAIN b : b[i] = "user"
  <2> SUFFICES ASSUME m.user PROVE 1 \in DOMAIN b /\ b[1] = "user"
    OBVIOUS
  <2>1. Len(u) = 1
    BY <1>3
  <2>2. QED
    BY <1>2, <1>3, <1>5, <1>7, <1>8, <2>1
<1>11. m.here => \E i \in DOMAIN b : b[i] = "here"
  <2> SUFFICES ASSUME m.here PROVE Len(u) + 1 \in DOMAIN b /\ b[Len(u) + 1] = "here"
    OBVIOUS
  <2>1. Len(k) = 1
    BY <1>4
  <2>2. QED
    BY <1>2, <1>4, <1>5, <1>7, <1>8, <2>1
<1>12. ASSUME NEW x \in m.roles PROVE \E i \in DOMAIN b : b[i] = x
  <2>1. PICK j \in 1 .. Len(L) : L[j] = x
    BY <1>2
  <2> DEFINE i == Len(u) + Len(k) + j
  <2>2. i \in DOMAIN b
    BY <1>2, <1>7, <1>8, <2>1
  <2>3. b[i] = x
    BY <1>5, <2>1
  <2>4. QED
    BY <2>2, <2>3
<1>13. "user" \notin GuildRoles /\ "here" \notin GuildRoles
  BY DEF GuildRoles
<1> HIDE DEF b
<1>14. /\ (\E i \in DOMAIN b : b[i] = "user") <=> m.user
       /\ (\E i \in DOMAIN b : b[i] = "here") <=> m.here
  BY <1>9, <1>10, <1>11, <1>13
<1>15. {x \in GuildRoles : \E i \in DOMAIN b : b[i] = x} = m.roles
  BY <1>9, <1>12, <1>13
<1>16. QED
  BY <1>5, <1>6, <1>14, <1>15 DEF b

\* A row of a body that was let through, as a body again: it is one, its defaults
\* are in place, and it makes the same row.
LEMMA RowsComeBack ==
    ASSUME NEW b \in Kept, NEW R \in SUBSET GuildRoles, NEW c, c = ReadBack(RowOf(b, R))
    PROVE  /\ c \in Body /\ Alike(b, c) /\ c.notify = b.notify /\ c.useThreads = b.useThreads
           /\ Defaults(c) = c /\ Normalised(c) = c /\ ValidMentions(c)
           /\ UpdatedRow(c) = RowOf(b, R)
<1> DEFINE r == RowOf(b, R)
           m == Columns(b, R)
           s == Back(m)
<1>1. b \in Body /\ Defaults(b) = b /\ Normalised(b) = b /\ ValidMentions(b)
  BY DEF Kept
<1>2. m.user = Says(b, "user") /\ m.here = Says(b, "here") /\ m.roles = R
  BY ColumnFields
<1>3. /\ r.mentions = m /\ r = Mentioning(b, m)
      /\ \A n : Mentioning(r, n) = Mentioning(b, n)
  BY <1>1, RowFields, ColumnFields
<1>4. m.user \in BOOLEAN /\ m.here \in BOOLEAN /\ m.roles \in SUBSET GuildRoles
  BY <1>2 DEF Says
<1> HIDE DEF m
<1>5. /\ s \in Seq({"user", "here"} \union GuildRoles)
      /\ (\E i \in DOMAIN s : s[i] = "user") <=> m.user
      /\ (\E i \in DOMAIN s : s[i] = "here") <=> m.here
      /\ {x \in GuildRoles : \E i \in DOMAIN s : s[i] = x} = m.roles
  BY <1>4, BackSays
<1>6. c = Mentioning(b, s)
  <2>1. c = Mentioning(r, Back(r.mentions))
    BY DEF ReadBack, Mentioning, Back
  <2>2. QED
    BY <1>3, <2>1
<1> HIDE DEF r, s
<1>7. c.mentions = s /\ c = [f \in AllFields |-> c[f]] /\ Alike(b, c) /\ c.notify = b.notify
  <2>1. b = [f \in AllFields |-> b[f]]
    BY <1>1, BodyFields
  <2>2. QED
    BY <1>6, <2>1, Mentions
<1>8. c \in Body
  <2>1. s \in Mentionings
    BY <1>5 DEF Mentionings
  <2>2. QED
    BY <1>1, <1>6, <2>1, MentioningIsBody
<1>9. c.useThreads = b.useThreads
  BY <1>7 DEF Alike, Fields
<1>10. Defaults(c) = c
  <2>1. b = [f \in AllFields |-> b[f]]
    BY <1>1, BodyFields
  <2>2. /\ \A f \in {"title", "content"} : b[f] = IF b[f] = "" THEN "default" ELSE b[f]
        /\ \A f \in {"image", "thumbnail", "naming"} : b[f] = EmptyToNone(b[f])
    BY <1>1, <2>1, DefaultsFields
  <2>3. /\ Defaults(c) = [f \in AllFields |-> Defaults(c)[f]]
        /\ \A f \in {"title", "content"} : Defaults(c)[f] = IF c[f] = "" THEN "default" ELSE c[f]
        /\ \A f \in {"image", "thumbnail", "naming"} : Defaults(c)[f] = EmptyToNone(c[f])
        /\ \A f \in AllFields \ {"title", "content", "image", "thumbnail", "naming"} : Defaults(c)[f] = c[f]
    BY <1>7, DefaultsFields
  <2>4. \A f \in {"title", "content", "image", "thumbnail", "naming"} : c[f] = b[f]
    BY <1>7 DEF Alike, Fields
  <2>5. \A f \in AllFields : Defaults(c)[f] = c[f]
    BY <2>2, <2>3, <2>4
  <2>6. QED
    BY <1>7, <2>3, <2>5
<1>11. Normalised(c) = c
  <2>1. b.useThreads \/ b.notify = None
    <3>1. b = [f \in AllFields |-> b[f]]
      BY <1>1, BodyFields
    <3>2. Normalised(b).notify = IF b.useThreads THEN b.notify ELSE None
      BY <3>1, NormalisedFields
    <3>3. QED
      BY <1>1, <3>2
  <2>2. /\ Normalised(c) = [f \in AllFields |-> Normalised(c)[f]]
        /\ Normalised(c).notify = IF c.useThreads THEN c.notify ELSE None
        /\ \A f \in AllFields \ {"notify"} : Normalised(c)[f] = c[f]
    BY <1>7, NormalisedFields
  <2>3. \A f \in AllFields : Normalised(c)[f] = c[f]
    BY <1>7, <1>9, <2>1, <2>2
  <2>4. QED
    BY <1>7, <2>2, <2>3
<1>12. ValidMentions(c)
  <2>1. "garbage" \notin {"user", "here"} \union GuildRoles
    BY DEF GuildRoles
  <2>2. QED
    BY <1>5, <1>7, <2>1 DEF ValidMentions, Says
<1>13. UpdatedRow(c) = r
  <2>1. {c.mentions[i] : i \in RoleMentions(c)} = R
    BY <1>2, <1>5, <1>7 DEF RoleMentions
  <2>2. UpdatedRow(c) = RowOf(c, R)
    BY <2>1 DEF UpdatedRow
  <2>3. (Says(c, "user") <=> Says(b, "user")) /\ (Says(c, "here") <=> Says(b, "here"))
    BY <1>2, <1>5, <1>7 DEF Says
  <2>4. Columns(c, R) = m
    <3>1. Says(c, "user") = Says(b, "user") /\ Says(c, "here") = Says(b, "here")
      BY <2>3 DEF Says
    <3>2. QED
      BY <3>1 DEF Columns, m
  <2>5. RowOf(c, R) = Mentioning(c, m)
    BY <2>4, ColumnFields
  <2>6. Mentioning(c, m) = Mentioning(b, m)
    <3>1. b = [f \in AllFields |-> b[f]]
      BY <1>1, BodyFields
    <3>2. QED
      BY <1>6, <3>1, Mentions
  <2>7. QED
    BY <1>3, <2>2, <2>5, <2>6
<1>14. QED
  BY <1>7, <1>8, <1>9, <1>10, <1>11, <1>12, <1>13 DEF r

\* What ListPanels fills the form with passes the validators of UpdatePanel again
\* and makes the same row, for every body that CreatePanel or UpdatePanel let
\* through and however the settings changed since, unless they changed beside it.
THEOREM PanelsCanBeSavedAgain == Spec => []StoredPanelsCanBeSaved
<1>1. BaseInv /\ RowsInv /\ ChannelInv => StoredPanelsCanBeSaved
  <2> SUFFICES ASSUME BaseInv, RowsInv, ChannelInv, ~raced, NEW p \in Stored
               PROVE  LET b == Defaults(ReadBack(row[p])) IN
                      /\ Accepts(b, PanelPremium("UpdatePanel"), GlobalChannel) /\ ValidMentions(b)
                      /\ UpdatedRow(Normalised(b)) = row[p]
    BY DEF StoredPanelsCanBeSaved
  <2>1. p \in Panels /\ row[p] # None /\ row[p] \in Rows
    BY DEF Stored, RowsInv
  <2>2. PICK b \in Kept, R \in SUBSET GuildRoles : row[p] = RowOf(b, R)
    BY <2>1 DEF Rows
  <2> DEFINE c == ReadBack(row[p])
             may == about # "hours" /\ tier # "none"
  <2>3. /\ c \in Body /\ Alike(b, c) /\ c.notify = b.notify /\ c.useThreads = b.useThreads
        /\ Defaults(c) = c /\ Normalised(c) = c /\ ValidMentions(c)
        /\ UpdatedRow(c) = row[p]
    BY <2>2, RowsComeBack
  <2>4. PICK global : Accepts(b, may, global)
    BY DEF Kept
  <2>5. c.useThreads /\ c.notify = None => GlobalChannel # None
    <3>1. row[p].useThreads = b.useThreads /\ row[p].notify = b.notify
      BY <2>2, RowFields DEF Kept
    <3>2. c.useThreads /\ c.notify = None => p \in Dependent
      BY <2>1, <2>3, <3>1 DEF Dependent
    <3>3. about \in {"settings", "hours"}
      BY <2>1 DEF RowsInv
    <3>4. QED
      BY <3>2, <3>3 DEF ChannelInv, GlobalChannel
  <2>6. PanelPremium("UpdatePanel") \in BOOLEAN /\ (may => PanelPremium("UpdatePanel")) /\ may \in BOOLEAN
    BY DEF PanelPremium, BaseInv
  <2> HIDE DEF c, may
  <2>7. Accepts(c, PanelPremium("UpdatePanel"), GlobalChannel)
    BY <2>3, <2>4, <2>5, <2>6, AlikeAccepted
  <2>8. QED
    BY <2>3, <2>7 DEF c
<1>2. QED
  BY <1>1, SettingsInvariant, PTL
----
(* Types *)

\* What Validate makes of a request can be asked for as well; colours apart, for
\* which it makes up defaults.
LEMMA NormalIsAsked ==
    ASSUME about \in Waited \union Detached, about # "colours"
    PROVE  Values \subseteq Asked[about]
<1> SUFFICES ASSUME NEW v \in Asked[about] PROVE Normal(about, v) \in Asked[about]
  BY DEF Values
<1>1. CASE about = "settings"
  <2>1. Asked[about] = [useThreads : BOOLEAN, channel : {None, "text", "news"}, archive : {60, 61},
                        panel : Panels \union {None, "other guild's"}, overflow : {None, "category", "text"}]
    BY <1>1 DEF Asked
  <2>2. Normal(about, v) = [v EXCEPT !.channel = IF v.useThreads THEN v.channel ELSE None]
    BY <1>1 DEF Normal
  <2> DEFINE P == Panels \union {None, "other guild's"}
             C == {None, "text", "news"}
             O == {None, "category", "text"}
             T == [useThreads : BOOLEAN, channel : C, archive : {60, 61}, panel : P, overflow : O]
  <2>3. v \in T /\ None \in C
    BY <2>1
  <2> HIDE DEF P, C, O
  <2>4. [v EXCEPT !.channel = IF v.useThreads THEN v.channel ELSE None] \in T
    BY <2>3
  <2>5. QED
    BY <2>1, <2>2, <2>4 DEF P, C, O
<1>2. CASE about = "autoClose"
  <2>1. Asked[about] = [enabled : BOOLEAN, sinceOpen : Days, sinceLast : Days, onLeave : BOOLEAN]
    BY <1>2 DEF Asked
  <2> DEFINE days(d) == IF tier # "none" /\ v.enabled THEN Clamp(d) ELSE 0
  <2>2. Normal(about, v) = [enabled |-> v.enabled, sinceOpen |-> days(v.sinceOpen),
                            sinceLast |-> days(v.sinceLast), onLeave |-> v.onLeave /\ v.enabled]
    BY <1>2 DEF Normal
  <2>3. \A d \in Days : days(d) \in Days
    BY DEF Days, Clamp
  <2>4. v.enabled \in BOOLEAN /\ v.sinceOpen \in Days /\ v.sinceLast \in Days /\ (v.onLeave /\ v.enabled) \in BOOLEAN
    BY <2>1
  <2> HIDE DEF days
  <2>5. QED
    BY <2>1, <2>2, <2>3, <2>4
<1>3. CASE about \notin {"settings", "autoClose"}
  <2>1. Normal(about, v) = v
    BY <1>3 DEF Normal
  <2>2. QED
    BY <2>1
<1>4. QED
  BY <1>1, <1>2, <1>3

\* What is stored or on its way was asked for, or was there at first.
ValuesInv ==
    /\ about \notin {"hours", "colours"} => stored \in Asked[about] \union {Unset[about]}
    /\ \A w \in pending : w.value \in Values

LEMMA ValuesStart == Init => ValuesInv
<1> SUFFICES ASSUME Init PROVE ValuesInv
  OBVIOUS
<1>1. pending = {}
  BY DEF Init, SettingsInit
<1>2. ASSUME about \notin {"hours", "colours"} PROVE stored \in Asked[about] \union {Unset[about]}
  <2>1. CASE stored = Unset[about]
    BY <2>1
  <2>2. CASE about = "settings" /\ stored = [Unset.settings EXCEPT !.useThreads = TRUE, !.channel = "text"]
    <3>1. Asked.settings = [useThreads : BOOLEAN, channel : {None, "text", "news"}, archive : {60, 61},
                            panel : Panels \union {None, "other guild's"}, overflow : {None, "category", "text"}]
      BY DEF Asked
    <3>2. stored = [useThreads |-> TRUE, channel |-> "text", archive |-> 60, panel |-> None, overflow |-> None]
      BY <2>2 DEF Unset
    <3>3. stored \in Asked.settings
      BY <3>1, <3>2
    <3>4. QED
      BY <2>2, <3>3
  <2>3. QED
    BY <1>2, <2>1, <2>2 DEF Init, SettingsInit
<1>3. QED
  BY <1>1, <1>2 DEF ValuesInv

LEMMA ValuesStep == BaseInv /\ ValuesInv /\ [Next]_vars => ValuesInv'
<1> SUFFICES ASSUME BaseInv, ValuesInv, [Next]_vars PROVE ValuesInv'
  OBVIOUS
<1>1. CASE UNCHANGED vars
  <2>1. UNCHANGED <<about, tier, stored, pending>>
    BY <1>1 DEF vars, settingsVars
  <2>2. Values' = Values
    BY <2>1, SameReqs
  <2>3. QED
    BY <2>1, <2>2 DEF ValuesInv, Asked, Unset
<1>2. CASE about = "hours" /\ about' = about /\ UNCHANGED <<stored, row, pending, latest, raced, lost>>
  BY <1>2 DEF ValuesInv, BaseInv
<1>3. CASE about # "hours" /\ SettingsNext /\ UNCHANGED <<tier, hoursVars>> /\ about' = about
  <2>1. Values' = Values /\ req \in [Handlers -> SettingsReq] /\ about \in Waited \union Detached
    BY <1>3, SameReqs DEF BaseInv
  <2>2. \A h \in Handlers : req[h].op = "UpdateSettings" => req[h].value \in Values
    BY <2>1, SettingsReqs DEF Updates
  <2>3. (stored' = stored \/ stored' \in Values) /\ \A w \in pending' : w.value \in Values
    <3>1. ASSUME NEW h \in Handlers, UpdateSettings(h)
          PROVE  (stored' = stored \/ stored' \in Values) /\ \A w \in pending' : w.value \in Values
      <4>1. CASE WriteWaited(h)
        BY <2>2, <4>1 DEF WriteWaited, At, ValuesInv
      <4>2. CASE Answer(h)
        <5>1. req[h].value \in Values /\ stored' = stored
          BY <2>2, <4>2 DEF Answer, At
        <5>2. pending' = pending \/ pending' = pending \union {[of |-> req[h].id, value |-> req[h].value]}
          BY <4>2 DEF Answer
        <5>3. QED
          BY <5>1, <5>2 DEF ValuesInv
      <4>3. QED
        BY <3>1, <4>1, <4>2 DEF UpdateSettings, ValidateSettings, GroupFails, ValuesInv
    <3>2. ASSUME NEW h \in Handlers, ChangePanel(h)
          PROVE  stored' = stored /\ pending' = pending
      BY <3>2 DEF ChangePanel, ValidatePanel, StorePanel, PanelFails
    <3>3. ASSUME NEW w \in pending, DetachedWrite(w) \/ DetachedWriteFails(w)
          PROVE  (stored' = stored \/ stored' \in Values) /\ pending' \subseteq pending
      BY <3>3 DEF DetachedWrite, DetachedWriteFails, ValuesInv
    <3>4. QED
      BY <1>3, <3>1, <3>2, <3>3 DEF SettingsNext, ValuesInv
  <2>4. about # "colours" => Values \subseteq Asked[about]
    BY <2>1, NormalIsAsked
  <2>5. Asked' = Asked /\ Unset' = Unset
    BY DEF Asked, Unset
  <2>6. QED
    BY <1>3, <2>1, <2>3, <2>4, <2>5 DEF ValuesInv
<1>4. QED
  BY <1>1, <1>2, <1>3, Apart

\* The types of settings, rows and hours: every row can be read as a body, and a
\* panel has a channel of its own in thread mode only.
THEOREM SettingsTypes == Spec => []TypeOK
<1>1. Init => ValuesInv /\ BaseInv
  BY ValuesStart, BaseStart
<1>2. ValuesInv /\ BaseInv /\ [Next]_vars => (ValuesInv /\ BaseInv)'
  BY ValuesStep, BaseStep
<1>3. Spec => [](ValuesInv /\ BaseInv)
  BY <1>1, <1>2, PTL DEF Spec
<1>4. BaseInv /\ RowsInv /\ ValuesInv => SettingsTypeOK
  <2> SUFFICES ASSUME BaseInv, RowsInv, ValuesInv PROVE SettingsTypeOK
    OBVIOUS
  <2>1. /\ about \in Waited \union Detached \union {"hours"}
        /\ about # "hours" => stored \in Asked[about] \union {Unset[about]} \/ about = "colours"
    BY DEF BaseInv, ValuesInv
  <2>2. ASSUME NEW p \in Stored
        PROVE  ReadBack(row[p]) \in Body /\ (row[p].notify # None => row[p].useThreads)
    <3>1. row[p] \in Rows
      BY DEF Stored, RowsInv
    <3>2. PICK b \in Kept, R \in SUBSET GuildRoles : row[p] = RowOf(b, R)
      BY <3>1 DEF Rows
    <3>3. ReadBack(row[p]) \in Body
      BY <3>2, RowsComeBack
    <3>4. b \in Body /\ Normalised(b) = b
      BY DEF Kept
    <3>5. b.notify # None => b.useThreads
      <4>1. Normalised(b).notify = IF b.useThreads THEN b.notify ELSE None
        BY <3>4, BodyFields, NormalisedFields
      <4>2. QED
        BY <3>4, <4>1
    <3>6. row[p].useThreads = b.useThreads /\ row[p].notify = b.notify
      BY <3>2, <3>4, RowFields
    <3>7. QED
      BY <3>3, <3>5, <3>6
  <2>3. \A h \in Handlers : req[h].op \in {"idle", "UpdateSettings", "CreatePanel", "UpdatePanel", "SetSupportHours",
                                        "DeleteSupportHours"}
    <3>1. \A q \in HoursReq : q.op \in {"idle", "SetSupportHours", "DeleteSupportHours"}
      BY HoursReqs
    <3>2. \A q \in SettingsReq : q.op \in {"idle", "UpdateSettings", "CreatePanel", "UpdatePanel"}
      BY SettingsReqs
    <3>3. QED
      BY <3>1, <3>2 DEF BaseInv
  <2>4. QED
    BY <2>1, <2>2, <2>3 DEF SettingsTypeOK
<1>5. HoursInv /\ SettingsTypeOK => TypeOK
  BY DEF HoursInv, TypeOK, Hour, RequestIds
<1>6. QED
  BY <1>3, <1>4, <1>5, HoursInvariant, SettingsInvariant, PTL
====
