--------------------------- MODULE Notifications ---------------------------
(***************************************************************************)
(* The in-app inbox, the preferences and the daily digest                  *)
(* (services/notifications.py).                                            *)
(*                                                                         *)
(* A row of the inbox is keyed by its dedup_key: receiver, source and      *)
(* business date (the scenario is part of the source here).  Digests are   *)
(* rows of the same table whose source is the date they cover.  The clock  *)
(* counts ticks; a day has DayTicks of them, the local hour 9 is tick      *)
(* NineTick of a receiver's day, and zone[r] is its offset in ticks.       *)
(***************************************************************************)
EXTENDS Integers, FiniteSets

CONSTANTS
    Receivers,    \* users
    Sources,      \* what is notified: scenario and source_id
    NotifyJobs,   \* sessions that send, and celery workers
    DayTicks,     \* ticks of a day
    NineTick,     \* the tick of a local day that stands for 9 o'clock
    LastTick,     \* bound: last tick of the clock
    Zones,        \* offsets of the timezones
    InitialPreferences, ChosenPreferences  \* before, and chosen by users

ASSUME NotificationsAssumption ==
    /\ DayTicks \in Nat \ {0} /\ NineTick \in 0..DayTicks - 1
    /\ LastTick \in Nat /\ Zones \subseteq 0..DayTicks - 1 /\ 0 \in Zones
    /\ "daily_digest" \notin Sources

VARIABLES
    inbox,      \* [dedup keys in use -> InboxRow]
    preference, \* [Receivers -> Preference]
    zone,       \* [Receivers -> Zones]
    clock,
    notifyJob,  \* what each session is doing, with what it has read
    external,   \* [keys -> messages handed to the external channels]
    silent,     \* keys sent to a receiver whose in-app channel was off
    movedZone   \* receivers who have changed their timezone

notifyVars == <<inbox, preference, zone, clock, notifyJob, external, silent, movedZone>>

\* StoredNotificationPreference: the in-app channel, an external channel
\* (email, WeCom or DingTalk) and the delivery mode.
Preference == [in_app : BOOLEAN, outside : BOOLEAN, mode : {"real_time", "daily_digest"}]

ASSUME PreferencesAssumption == InitialPreferences \cup ChosenPreferences \subseteq Preference

\* The stored value of enabled is the default of the in-app channel.
_default_preference == [in_app |-> TRUE, outside |-> FALSE, mode |-> "real_time"]

Dates == 0..((LastTick + DayTicks) \div DayTicks)
Digest == "daily_digest"
\* build_dedup_key
Keys == Receivers \X (Sources \cup {Digest}) \X Dates

\* A notification; items are the rows a digest lists.
InboxRow == [at : 0..LastTick, mode : {"real_time", "daily_digest"},
             digested : BOOLEAN, read : BOOLEAN, items : SUBSET Keys]

QuietJob == [op |-> "idle"]
business_date == clock \div DayTicks
LocalDate(r, t) == (t + zone[r]) \div DayTicks
AtNine(r) == (clock + zone[r]) % DayTicks = NineTick

_has_enabled_channel(p) == p.in_app \/ p.outside

-----------------------------------------------------------------------------
(* send *)

\* Preferences and existing dedup keys are read; receivers with no channel
\* are left out.
SendRead(s, source, receivers) ==
    LET reached == {r \in receivers : _has_enabled_channel(preference[r])}
        key(r) == <<r, source, business_date>>
    IN  /\ notifyJob[s] = QuietJob
        /\ reached # {}
        /\ notifyJob' = [notifyJob EXCEPT ![s] =
              [op |-> "insert", prefs |-> [r \in reached |-> preference[r]],
               keys |-> {key(r) : r \in {r \in reached : key(r) \notin DOMAIN inbox}},
               at |-> clock]]
        /\ UNCHANGED <<inbox, preference, zone, clock, external, silent, movedZone>>

\* Mutant of SendInsert: keys that are taken are sent outside too.
SendToAll(s) ==
    LET j == notifyJob[s]
    IN  /\ j.op = "insert"
        /\ external' = [k \in Keys |->
              IF k \in j.keys /\ j.prefs[k[1]].outside THEN external[k] + 1 ELSE external[k]]
        /\ inbox' = [k \in DOMAIN inbox \cup j.keys |->
              IF k \in DOMAIN inbox THEN inbox[k]
              ELSE [at |-> j.at, mode |-> "real_time", digested |-> FALSE,
                    read |-> FALSE, items |-> {}]]
        /\ notifyJob' = [notifyJob EXCEPT ![s] = QuietJob]
        /\ UNCHANGED <<preference, zone, clock, silent, movedZone>>

\* The rows are inserted in one commit; a key another session has inserted
\* meanwhile fails all of them and the call.
SendInsert(s) ==
    LET j == notifyJob[s]
        new == {k \in j.keys : j.prefs[k[1]].in_app}
    IN  /\ j.op = "insert"
        /\ \/ /\ new \cap DOMAIN inbox = {}
              /\ inbox' = [k \in DOMAIN inbox \cup new |->
                    IF k \in new
                    THEN [at |-> j.at, mode |-> j.prefs[k[1]].mode, digested |-> FALSE,
                          read |-> FALSE, items |-> {}]
                    ELSE inbox[k]]
              /\ notifyJob' = [notifyJob EXCEPT ![s].op = "external"]
              /\ silent' = silent \cup {k \in j.keys : ~j.prefs[k[1]].in_app}
           \/ /\ new \cap DOMAIN inbox # {}
              /\ notifyJob' = [notifyJob EXCEPT ![s] = QuietJob]
              /\ UNCHANGED <<inbox, silent>>
        /\ UNCHANGED <<preference, zone, clock, external, movedZone>>

\* _send_external_channels: a message for every new key whose receiver wants
\* one; the delivery itself is module NotificationDeliveries.
SendExternal(s) ==
    LET j == notifyJob[s]
    IN  /\ j.op = "external"
        /\ external' = [k \in Keys |->
              IF k \in j.keys /\ j.prefs[k[1]].outside /\ external[k] < 2
              THEN external[k] + 1 ELSE external[k]]
        /\ notifyJob' = [notifyJob EXCEPT ![s] = QuietJob]
        /\ UNCHANGED <<inbox, preference, zone, clock, silent, movedZone>>

-----------------------------------------------------------------------------
(* generate_daily_digest_for_due_timezones, one timezone of it *)

\* Rows of a local day in digest mode and not yet digested.
list_pending_digest_notifications(receivers, date) ==
    {k \in DOMAIN inbox : /\ k[1] \in receivers
                          /\ inbox[k].mode = "daily_digest" /\ ~inbox[k].digested
                          /\ LocalDate(k[1], inbox[k].at) = date}

\* The receivers of zone z whose local hour is 9, their rows of the day
\* before, and which digests of that day exist already.
DigestRead(s, z) ==
    LET due == {r \in Receivers : zone[r] = z /\ AtNine(r)}
        date == (clock + z) \div DayTicks - 1
        pending == list_pending_digest_notifications(due, date)
    IN  /\ notifyJob[s] = QuietJob
        /\ pending # {}
        /\ notifyJob' = [notifyJob EXCEPT ![s] =
              [op |-> "digest", pending |-> pending,
               new |-> {<<r, Digest, date>> : r \in {k[1] : k \in pending}} \ DOMAIN inbox]]
        /\ UNCHANGED <<inbox, preference, zone, clock, external, silent, movedZone>>

\* Insert the digests that do not exist and mark all pending rows as sent, in
\* one commit; a digest another worker has inserted meanwhile fails it.
MarkBeforeInsert(s) ==
    LET j == notifyJob[s]
    IN  /\ j.op = "digest"
        /\ notifyJob' = [notifyJob EXCEPT ![s] = QuietJob]
        /\ inbox' = [k \in DOMAIN inbox |->
              IF k \in j.pending THEN [inbox[k] EXCEPT !.digested = TRUE] ELSE inbox[k]]
        /\ UNCHANGED <<preference, zone, clock, external, silent, movedZone>>

DigestCommit(s) ==
    LET j == notifyJob[s]
    IN  /\ j.op = "digest"
        /\ notifyJob' = [notifyJob EXCEPT ![s] = QuietJob]
        /\ \/ /\ j.new \cap DOMAIN inbox = {}
              /\ inbox' = [k \in DOMAIN inbox \cup j.new |->
                    CASE k \in j.new ->
                            [at |-> clock, mode |-> "real_time", digested |-> FALSE,
                             read |-> FALSE, items |-> {i \in j.pending : i[1] = k[1]}]
                      [] k \in j.pending -> [inbox[k] EXCEPT !.digested = TRUE]
                      [] OTHER -> inbox[k]]
           \/ /\ j.new \cap DOMAIN inbox # {}
              /\ UNCHANGED inbox
        /\ UNCHANGED <<preference, zone, clock, external, silent, movedZone>>

-----------------------------------------------------------------------------
(* What the receiver does *)

\* update_preferences: the row of the scenario is inserted or overwritten.
UpdatePreferences(r, p) ==
    /\ preference[r] # p
    /\ preference' = [preference EXCEPT ![r] = p]
    /\ UNCHANGED <<inbox, zone, clock, notifyJob, external, silent, movedZone>>

\* mark_read, by id, whatever the delivery mode of the row.
MarkRead(k) ==
    /\ k \in DOMAIN inbox /\ ~inbox[k].read
    /\ inbox' = [inbox EXCEPT ![k].read = TRUE]
    /\ UNCHANGED <<preference, zone, clock, notifyJob, external, silent, movedZone>>

\* The rows list_notifications and count_unread show.
list_unread(r) ==
    {k \in DOMAIN inbox : k[1] = r /\ ~inbox[k].read /\ inbox[k].mode = "real_time"}

\* mark_all_read, on rows locked for update.
MarkAllRead(r) ==
    /\ list_unread(r) # {}
    /\ inbox' = [k \in DOMAIN inbox |->
          IF k \in list_unread(r) THEN [inbox[k] EXCEPT !.read = TRUE] ELSE inbox[k]]
    /\ UNCHANGED <<preference, zone, clock, notifyJob, external, silent, movedZone>>

\* The profile's timezone (PATCH /users/me).
ChangeZone(r, z) ==
    /\ z # zone[r]
    /\ zone' = [zone EXCEPT ![r] = z]
    /\ movedZone' = movedZone \cup {r}
    /\ UNCHANGED <<inbox, preference, clock, notifyJob, external, silent>>

\* Time passes; a call that has begun ends within its tick.
Tick ==
    /\ clock < LastTick
    /\ \A s \in NotifyJobs : notifyJob[s] = QuietJob
    /\ clock' = clock + 1
    /\ UNCHANGED <<inbox, preference, zone, notifyJob, external, silent, movedZone>>

NotifyInit ==
    /\ inbox = <<>>
    /\ preference \in [Receivers -> InitialPreferences]
    /\ zone = [r \in Receivers |-> 0]
    /\ clock = 0
    /\ notifyJob = [s \in NotifyJobs |-> QuietJob]
    /\ external = [k \in Keys |-> 0]
    /\ silent = {} /\ movedZone = {}

NotifyNext ==
    \/ \E s \in NotifyJobs :
          \/ \E source \in Sources, rs \in SUBSET Receivers : SendRead(s, source, rs)
          \/ SendInsert(s) \/ SendExternal(s)
          \/ \E z \in Zones : DigestRead(s, z)
          \/ DigestCommit(s)
    \/ \E r \in Receivers :
          \/ \E p \in ChosenPreferences : UpdatePreferences(r, p)
          \/ MarkAllRead(r)
          \/ \E z \in Zones : ChangeZone(r, z)
    \/ \E k \in Keys : MarkRead(k)
    \/ Tick

NotifySpec == NotifyInit /\ [][NotifyNext]_notifyVars

-----------------------------------------------------------------------------
(* Properties *)

\* Every variable keeps to its type.
NotifyTypeOK ==
    /\ DOMAIN inbox \subseteq Keys
    /\ \A k \in DOMAIN inbox : inbox[k] \in InboxRow
    /\ preference \in [Receivers -> Preference]
    /\ zone \in [Receivers -> Zones]
    /\ clock \in 0..LastTick
    /\ external \in [Keys -> 0..2]
    /\ silent \subseteq Keys /\ movedZone \subseteq Receivers

\* What the digest task marks as sent is listed in a digest of its receiver,
\* also when two workers run it at once, for every receiver whose timezone
\* has not changed meanwhile.
DigestedIsListed ==
    \A k \in DOMAIN inbox :
        inbox[k].digested /\ k[1] \notin movedZone =>
            \E d \in Dates : /\ <<k[1], Digest, d>> \in DOMAIN inbox
                             /\ k \in inbox[<<k[1], Digest, d>>].items

\* A notification goes to the external channels at most once a day, also when
\* two sessions send it at once: the unique key of the inbox row stops the
\* second one.  Without an in-app row nothing does.
SentOutsideOnce ==
    \A k \in Keys : external[k] <= 1 \/ k \in silent
=============================================================================
