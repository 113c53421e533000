---- MODULE SupportHours ----
(***************************************************************************)
(* Support hours of panels (app/http/endpoints/api/panel/supporthours.go). *)
(* A schedule is rows of panel_support_hours, one per day and each with    *)
(* its own timezone, beside a row of settings.  Saving one deletes the     *)
(* rows, inserts the new ones call by call, checking each as it comes to   *)
(* it, and then checks and writes the settings; nothing is undone.         *)
(***************************************************************************)
EXTENDS GuildSettings

CONSTANTS
    Days7,      \* days of the week that exist: 0 to 6
    Entries,    \* entries a request can list: [day, times], times "ok" or "bad"
    MaxEntries  \* bound: entries of a request

\* What a guild without premium and without thread mode can make a panel of.
Plainly(b) == Accepts(b, FALSE, None) /\ ValidMentions(b)

ASSUME HoursAssumption == MaxEntries \in Nat /\ \E b \in Bodies : Plainly(Defaults(b))

VARIABLES
    hours,      \* the rows of each panel: [day, of], `of` the request whose timezone
                \* and times they have
    conf,       \* its settings row: the request that wrote it, or None
    answered,   \* its last request that was answered without an error, None if it deleted
    half,       \* panels whose last request ended early
    everPaid,   \* the guild has had premium
    overlap,    \* panels that two requests were at together
    crowded     \* saves of two panels were under way together

hoursVars == <<hours, conf, answered, half, everPaid, overlap, crowded>>
vars == <<settingsVars, hoursVars>>

HoursOps == {"SetSupportHours", "DeleteSupportHours"}
Others(h) == {req[g].panel : g \in {g \in Handlers \ {h} : req[g].op \in HoursOps}}

SettingsUntouched == UNCHANGED <<about, stored, tier, row, pending, latest, raced, lost>>

Init ==
    /\ \/ SettingsInit
       \/ /\ about = "hours" /\ stored = None
          /\ LET b == CHOOSE b \in Bodies : Plainly(Defaults(b))
             IN  row = [p \in Panels |-> CreatedRow(Normalised(Defaults(b)))]
          /\ tier \in {"none", "premium"}
          /\ req = [h \in Handlers |-> Idle]
          /\ pending = {} /\ latest = {stored} /\ raced = FALSE /\ lost = FALSE /\ requests = 0
    /\ hours = [p \in Panels |-> {}]
    /\ conf = [p \in Panels |-> None] /\ answered = conf /\ half = {}
    /\ everPaid = (tier = "premium")
    /\ overlap = {} /\ crowded = FALSE
----
(* SetSupportHours *)

\* A plausible bug: one other panel is let through.
MayHaveHoursTwo(found) == Cardinality(found) <= 1

\* "Free users can only configure support hours on one panel": none of the other
\* panels was found with hours.
MayHaveHours(found) == found = {}

\* The hours of every other panel have to be looked at; votes do not count, and
\* with premium no panel is.  `ok` is whether the settings in the body are valid.
BeginSet(h, p, list, ok) ==
    /\ about = "hours" /\ req[h] = Idle /\ requests < MaxRequests
    /\ p \in Stored
    /\ req' = [req EXCEPT ![h] = [op |-> "SetSupportHours", at |-> "quota", panel |-> p,
                                  list |-> list, ok |-> ok, id |-> requests,
                                  todo |-> IF tier = "premium" THEN {} ELSE Panels \ {p}, found |-> {}]]
    /\ overlap' = overlap \union ({p} \intersect Others(h))
    /\ crowded' = (crowded \/ \E g \in Handlers \ {h} : req[g].op = "SetSupportHours" /\ req[g].panel # p)
    /\ requests' = requests + 1
    /\ SettingsUntouched /\ UNCHANGED <<hours, conf, answered, half, everPaid>>

\* One other panel after the other, each by a call of its own.
GetOtherHours(h) ==
    /\ At(h, "SetSupportHours", "quota")
    /\ \E q \in req[h].todo :
         req' = [req EXCEPT ![h].todo = @ \ {q},
                            ![h].found = @ \union {p \in {q} : hours[p] # {}}]
    /\ SettingsUntouched /\ UNCHANGED <<requests, hoursVars>>

\* The quota, the panel and the timezone are found in order, and the old rows have
\* been read for the audit log.
PassQuota(h) ==
    /\ At(h, "SetSupportHours", "quota") /\ req[h].todo = {} /\ MayHaveHours(req[h].found)
    /\ req' = [req EXCEPT ![h].at = "delete"]
    /\ SettingsUntouched /\ UNCHANGED <<requests, hoursVars>>

\* The quota is used up, the timezone is unknown or a read fails: nothing was done.
RefuseSet(h) ==
    /\ At(h, "SetSupportHours", "quota")
    /\ req' = [req EXCEPT ![h] = Idle]
    /\ SettingsUntouched /\ UNCHANGED <<requests, hoursVars>>

\* A plausible bug: only the days that the request lists are deleted.
DeleteByPanelIdListed(h) ==
    /\ req[h].op \in HoursOps /\ req[h].at = "delete"
    /\ hours' = [hours EXCEPT ![req[h].panel] =
                   {x \in @ : \A i \in DOMAIN req[h].list : x.day # req[h].list[i].day}]
    /\ req' = [req EXCEPT ![h].at = "next"]
    /\ SettingsUntouched /\ UNCHANGED <<requests, conf, answered, half, everPaid, overlap, crowded>>

DeleteByPanelId(h) ==
    /\ req[h].op \in HoursOps /\ req[h].at = "delete"
    /\ hours' = [hours EXCEPT ![req[h].panel] = {}]
    /\ req' = [req EXCEPT ![h].at = "next"]
    /\ SettingsUntouched /\ UNCHANGED <<requests, conf, answered, half, everPaid, overlap, crowded>>

\* The next entry is checked and upserted by its day.
Upsert(h) ==
    LET r == req[h]
        entry == Head(r.list)
    IN
    /\ At(h, "SetSupportHours", "next") /\ r.list # <<>>
    /\ entry.day \in Days7 /\ entry.times = "ok"
    /\ hours' = [hours EXCEPT ![r.panel] = {x \in @ : x.day # entry.day}
                                            \union {[day |-> entry.day, of |-> r.id]}]
    /\ req' = [req EXCEPT ![h].list = Tail(@)]
    /\ SettingsUntouched /\ UNCHANGED <<requests, conf, answered, half, everPaid, overlap, crowded>>

Return(h) ==
    /\ req' = [req EXCEPT ![h] = Idle]
    /\ SettingsUntouched /\ UNCHANGED <<requests, everPaid, overlap, crowded>>

\* The answer is an error, and what was done stays done.
ReturnEarly(h) ==
    /\ half' = half \union {req[h].panel}
    /\ Return(h) /\ UNCHANGED <<hours, conf, answered>>

\* The settings row is written and the answer is a success.
ReturnDone(h, id) ==
    /\ conf' = [conf EXCEPT ![req[h].panel] = id]
    /\ answered' = [answered EXCEPT ![req[h].panel] = id]
    /\ half' = half \ {req[h].panel}
    /\ Return(h) /\ UNCHANGED hours

\* It is invalid: the rows before it stay, those after it are not inserted, and
\* the settings keep their former row.
RefuseEntry(h) ==
    /\ At(h, "SetSupportHours", "next") /\ req[h].list # <<>>
    /\ LET entry == Head(req[h].list) IN entry.day \notin Days7 \/ entry.times # "ok"
    /\ ReturnEarly(h)

\* The settings are checked last.
RefuseSettings(h) ==
    /\ At(h, "SetSupportHours", "next") /\ req[h].list = <<>> /\ ~req[h].ok
    /\ ReturnEarly(h)

WriteHoursSettings(h) ==
    /\ At(h, "SetSupportHours", "next") /\ req[h].list = <<>> /\ req[h].ok
    /\ ReturnDone(h, req[h].id)
----
(* DeleteSupportHours *)

BeginDelete(h, p) ==
    /\ about = "hours" /\ req[h] = Idle /\ requests < MaxRequests
    /\ p \in Stored
    /\ req' = [req EXCEPT ![h] = [op |-> "DeleteSupportHours", at |-> "delete", panel |-> p,
                                  list |-> <<>>]]
    /\ overlap' = overlap \union ({p} \intersect Others(h))
    /\ requests' = requests + 1
    /\ SettingsUntouched /\ UNCHANGED <<hours, conf, answered, half, everPaid, crowded>>

\* A plausible bug: the settings row outlives the hours.
DeleteHoursSettingsNot(h) ==
    /\ At(h, "DeleteSupportHours", "next")
    /\ answered' = [answered EXCEPT ![req[h].panel] = None]
    /\ half' = half \ {req[h].panel}
    /\ Return(h) /\ UNCHANGED <<hours, conf>>

DeleteHoursSettings(h) ==
    /\ At(h, "DeleteSupportHours", "next")
    /\ ReturnDone(h, None)

\* A call that changes something fails.
HoursFail(h) ==
    /\ req[h].op \in HoursOps /\ req[h].at # "quota"
    /\ ReturnEarly(h)

\* Premium is bought or ends.
ChangeTier ==
    /\ about = "hours"
    /\ tier' = IF tier = "premium" THEN "none" ELSE "premium"
    /\ everPaid' = TRUE
    /\ UNCHANGED <<about, stored, row, req, pending, latest, raced, lost, requests, hours, conf,
                   answered, half, overlap, crowded>>
----
Lists == UNION {[1 .. n -> Entries] : n \in 0 .. MaxEntries}

HoursStep(h) ==
    \/ \E p \in Panels, list \in Lists, ok \in BOOLEAN : BeginSet(h, p, list, ok)
    \/ GetOtherHours(h) \/ PassQuota(h) \/ RefuseSet(h)
    \/ DeleteByPanelId(h) \/ Upsert(h) \/ RefuseEntry(h) \/ RefuseSettings(h) \/ WriteHoursSettings(h)
    \/ \E p \in Panels : BeginDelete(h, p)
    \/ DeleteHoursSettings(h) \/ HoursFail(h)

Next ==
    \/ SettingsNext /\ UNCHANGED hoursVars
    \/ \E h \in Handlers : HoursStep(h)
    \/ ChangeTier

Spec == Init /\ [][Next]_vars
----
TypeOK ==
    /\ SettingsTypeOK
    /\ \A p \in Panels :
         /\ hours[p] \subseteq [day : Days7, of : 0 .. MaxRequests - 1]
         /\ \A x, y \in hours[p] : x.day = y.day => x = y
         /\ conf[p] \in {None} \union (0 .. MaxRequests - 1)

\* A panel never mixes hours of two schedules, nor so two timezones, of which
\* GetSupportHours would show the first for all: whatever entry is refused or
\* call fails half way, and while one request is still at it, all the hours of a
\* panel are of one request, unless two requests for that panel overlapped.
HoursAreOfOneRequest ==
    \A p \in Panels \ overlap : \A x, y \in hours[p] : x.of = y.of

\* An answered request is done as a whole: hours and settings of a panel are both
\* of the last save that was answered with success, or both deleted, unless a
\* later request has deleted the hours and is under way, ended early, or overlapped.
AnsweredScheduleIsWhole ==
    \A p \in Panels \ (overlap \union half) :
      (\A h \in Handlers : req[h].op \in HoursOps /\ req[h].at = "next" => req[h].panel # p) =>
        conf[p] = answered[p] /\ \A x \in hours[p] : x.of = answered[p]

\* "Free users can only configure support hours on one panel": holds for a guild
\* that never had premium, however requests fail and deletions and saves of one
\* panel overlap, unless saves of two panels do.
FreeGuildHasOneSchedule ==
    ~everPaid /\ ~crowded => Cardinality({p \in Panels : hours[p] # {}}) <= 1
====
