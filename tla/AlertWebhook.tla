---------------------------- MODULE AlertWebhook ----------------------------
(***************************************************************************)
(* roles/grafana/templates/ons_webhook.py.j2: the threads of the HTTP      *)
(* server put alerts on alert_queue; alert_processing_daemon keeps the     *)
(* table of active alerts and puts notifications on notification_queue;    *)
(* notification_processing_daemon aggregates them into messages.  Both     *)
(* queues are bounded and block, and only the table survives a restart.    *)
(***************************************************************************)
EXTENDS Naturals, FiniteSets, SequencesExt

CONSTANTS Alerts,      \* fingerprints of alerts
          Ignored,     \* alerts named DatasourceNoData, or with an empty name
          Threads,     \* bound: the threads of the HTTP server
          MaxQueue,    \* maxsize of both queues
          Length,      \* bytes of an alert's notification, in some unit
          MaxLength,   \* max_notification_size in that unit
          MaxRequests, \* bound on the requests Grafana makes
          MaxPost,     \* bound on the alerts of a request
          MaxClock,    \* bound on the half days that go by
          MaxFaults,   \* bound on the messages OCI refuses for its own reasons
          MaxCrashes   \* bound on the restarts of the service

ASSUME QueueAssumption == MaxQueue \in Nat \ {0} /\ MaxLength \in Nat
ASSUME AlertsAssumption == Length \in [Alerts -> Nat] /\ Ignored \subseteq Alerts
ASSUME BoundsAssumption ==
    /\ MaxRequests \in Nat /\ MaxPost \in Nat /\ MaxClock \in Nat
    /\ MaxFaults \in Nat /\ MaxCrashes \in Nat

(* An alert is resolved if its status does not say that it fires and it    *)
(* ends after it has started; any other counts as firing.                  *)
Statuses == {"firing", "resolved"}
Event == [id : Alerts, status : Statuses]
Notification == [id : Alerts, kind : {"new", "resolved", "reminder"}]

VARIABLES
  post,      \* the alerts a thread of the server has still to queue
  alertQ,    \* alert_queue
  adp,       \* where alert_processing_daemon is
  event,     \* the alert it works on
  now,       \* its current_time
  todo,      \* alerts it is to send reminders for
  updated,   \* its db_updates
  lastDay,   \* its last_reminder_execution_day, 0 for None
  table,     \* active_alerts and alert_reminder, as its open transaction sees them
  disk,      \* the same, as committed
  notifQ,    \* notification_queue
  ndp,       \* where notification_processing_daemon is
  batch,     \* its notifications
  held,      \* notification_from_queue when it did not fit
  told,      \* history: the kind of the last notification delivered of an alert
  clock,     \* half days: odd from active_alerts_reminder_time to midnight
  requests, faults, crashes

adVars == <<adp, event, now, todo, updated, lastDay>>
ndVars == <<ndp, batch, held, told>>
boundVars == <<requests, faults, crashes>>
vars == <<post, alertQ, adVars, table, disk, notifQ, ndVars, clock, boundVars>>

NoEvent == <<>>

(* last_notified_at is 0 for an alert without a row. *)
Tables == [open : SUBSET Alerts, notified : [Alerts -> Nat], reminded : Nat]

(* The date of a half day, from 1, and whether it is past 11:00. *)
Date(t) == 1 + t \div 2
Afternoon(t) == t % 2 = 1

Notice(a, kind) == [id |-> a, kind |-> kind]
TotalLength(s) == SumFunctionOnSet([i \in DOMAIN s |-> Length[s[i].id]], DOMAIN s)

-----------------------------------------------------------------------------
(* The HTTP server *)

(* grafana_webhook: Grafana posts some alerts. *)
Receive(h) ==
    /\ post[h] = <<>> /\ requests < MaxRequests
    /\ requests' = requests + 1
    /\ \E n \in 1 .. MaxPost : \E r \in [1 .. n -> Event] : post' = [post EXCEPT ![h] = r]
    /\ UNCHANGED <<alertQ, adVars, table, disk, notifQ, ndVars, clock, faults, crashes>>

(* alert_queue.put, which blocks while the queue is full.  The thread      *)
(* answers with success when it has put them all.                          *)
Enqueue(h) ==
    /\ post[h] # <<>> /\ Len(alertQ) < MaxQueue
    /\ alertQ' = Append(alertQ, Head(post[h]))
    /\ post' = [post EXCEPT ![h] = Tail(@)]
    /\ UNCHANGED <<adVars, table, disk, notifQ, ndVars, clock, boundVars>>

-----------------------------------------------------------------------------
(* alert_processing_daemon *)

(* current_time is read before the queue is. *)
LoopTop ==
    /\ adp = "top"
    /\ now' = clock /\ adp' = "get"
    /\ UNCHANGED <<post, alertQ, event, todo, updated, lastDay, table, disk, notifQ, ndVars,
                   clock, boundVars>>

\* Mutant of GetAlert: alerts to be ignored are processed too.
GetAlertUnfiltered ==
    LET e == Head(alertQ) IN
    /\ adp = "get" /\ alertQ # <<>>
    /\ alertQ' = Tail(alertQ)
    /\ IF e.status = "firing" /\ e.id \in table.open
       THEN adp' = "commit" /\ UNCHANGED event
       ELSE adp' = "put" /\ event' = e
    /\ UNCHANGED <<post, now, todo, updated, lastDay, table, disk, notifQ, ndVars, clock,
                   boundVars>>

(* An alert that is ignored changes nothing; one that is known and still   *)
(* fires only its last_seen_at and fire_count.                             *)
GetAlert ==
    LET e == Head(alertQ) IN
    /\ adp = "get" /\ alertQ # <<>>
    /\ alertQ' = Tail(alertQ)
    /\ \/ e.id \in Ignored /\ adp' = "remind" /\ UNCHANGED event
       \/ /\ e.id \notin Ignored /\ e.status = "firing" /\ e.id \in table.open
          /\ adp' = "commit" /\ UNCHANGED event
       \/ /\ e.id \notin Ignored /\ ~(e.status = "firing" /\ e.id \in table.open)
          /\ adp' = "put" /\ event' = e
    /\ UNCHANGED <<post, now, todo, updated, lastDay, table, disk, notifQ, ndVars, clock,
                   boundVars>>

(* queue.Empty after 30 s. *)
GetNothing ==
    /\ adp = "get" /\ alertQ = <<>>
    /\ adp' = "remind"
    /\ UNCHANGED <<post, alertQ, event, now, todo, updated, lastDay, table, disk, notifQ, ndVars,
                   clock, boundVars>>

\* Mutant of PutNotification: the deletion of a resolved alert is not committed.
PutNotificationUncommitted ==
    LET a == event.id IN
    /\ adp = "put" /\ Len(notifQ) < MaxQueue
    /\ IF event.status = "firing"
       THEN /\ notifQ' = Append(notifQ, Notice(a, "new"))
            /\ table' = [table EXCEPT !.open = @ \union {a}, !.notified[a] = now]
            /\ adp' = "commit"
       ELSE /\ notifQ' = Append(notifQ, Notice(a, "resolved"))
            /\ table' = [table EXCEPT !.open = @ \ {a}, !.notified[a] = 0]
            /\ adp' = "remind"
    /\ event' = NoEvent
    /\ UNCHANGED <<post, alertQ, now, todo, updated, lastDay, disk, ndVars, clock, boundVars>>

(* A new alert is inserted and then put on notification_queue, a resolved  *)
(* one put and then deleted: no one else sees the transaction in between.  *)
PutNotification ==
    LET a == event.id IN
    /\ adp = "put" /\ Len(notifQ) < MaxQueue
    /\ IF event.status = "firing"
       THEN /\ notifQ' = Append(notifQ, Notice(a, "new"))
            /\ table' = [table EXCEPT !.open = @ \union {a}, !.notified[a] = now]
       ELSE /\ notifQ' = Append(notifQ, Notice(a, "resolved"))
            /\ table' = [table EXCEPT !.open = @ \ {a}, !.notified[a] = 0]
    /\ adp' = "commit" /\ event' = NoEvent
    /\ UNCHANGED <<post, alertQ, now, todo, updated, lastDay, disk, ndVars, clock, boundVars>>

Commit ==
    /\ adp = "commit"
    /\ disk' = table
    /\ adp' = "remind"
    /\ UNCHANGED <<post, alertQ, event, now, todo, updated, lastDay, table, notifQ, ndVars,
                   clock, boundVars>>

ReminderDue == Afternoon(now) /\ Date(now) > lastDay

NoReminder ==
    /\ adp = "remind" /\ ~ReminderDue
    /\ adp' = "top"
    /\ UNCHANGED <<post, alertQ, event, now, todo, updated, lastDay, table, disk, notifQ, ndVars,
                   clock, boundVars>>

(* The active alerts notified more than twelve hours ago: certainly those  *)
(* of three half days ago, possibly the later ones.                        *)
ReminderStart ==
    /\ adp = "remind" /\ ReminderDue
    /\ \E S \in SUBSET table.open :
         /\ {a \in table.open : now >= table.notified[a] + 3} \subseteq S
         /\ todo' = S
         /\ updated' = (S # {})
    /\ adp' = "reminding"
    /\ UNCHANGED <<post, alertQ, event, now, lastDay, table, disk, notifQ, ndVars, clock, boundVars>>

RemindOne ==
    /\ adp = "reminding" /\ Len(notifQ) < MaxQueue
    /\ \E a \in todo :
         /\ notifQ' = Append(notifQ, Notice(a, "reminder"))
         /\ table' = [table EXCEPT !.notified[a] = now]
         /\ todo' = todo \ {a}
    /\ UNCHANGED <<post, alertQ, adp, event, now, updated, lastDay, disk, ndVars, clock, boundVars>>

(* Without a reminder sent, alert_reminder is written but not committed.   *)
ReminderDone ==
    /\ adp = "reminding" /\ todo = {}
    /\ table' = [table EXCEPT !.reminded = Date(now)]
    /\ disk' = IF updated THEN table' ELSE disk
    /\ lastDay' = Date(now)
    /\ updated' = FALSE
    /\ adp' = "top"
    /\ UNCHANGED <<post, alertQ, event, now, todo, notifQ, ndVars, clock, boundVars>>

-----------------------------------------------------------------------------
(* notification_processing_daemon, with aggregate_notifications *)

\* Mutant of GetNotification: what does not fit is lost.
GetNotificationLoses ==
    LET n == Head(notifQ) IN
    /\ ndp = "get" /\ notifQ # <<>>
    /\ notifQ' = Tail(notifQ)
    /\ IF TotalLength(Append(batch, n)) > MaxLength
       THEN ndp' = "push" /\ UNCHANGED batch
       ELSE batch' = Append(batch, n) /\ ndp' = "sleep"
    /\ UNCHANGED <<post, alertQ, adVars, table, disk, held, told, clock, boundVars>>

\* Mutant of GetNotification: what does not fit is put back on the queue.
GetNotificationPutsBack ==
    LET n == Head(notifQ) IN
    /\ ndp = "get" /\ notifQ # <<>>
    /\ IF TotalLength(Append(batch, n)) > MaxLength
       THEN notifQ' = Append(Tail(notifQ), n) /\ ndp' = "push" /\ UNCHANGED batch
       ELSE notifQ' = Tail(notifQ) /\ batch' = Append(batch, n) /\ ndp' = "sleep"
    /\ UNCHANGED <<post, alertQ, adVars, table, disk, held, told, clock, boundVars>>

(* What no longer fits waits until the rest has been pushed. *)
GetNotification ==
    LET n == Head(notifQ) IN
    /\ ndp = "get" /\ notifQ # <<>>
    /\ notifQ' = Tail(notifQ)
    /\ IF TotalLength(Append(batch, n)) > MaxLength
       THEN held' = <<n>> /\ ndp' = "push" /\ UNCHANGED batch
       ELSE batch' = Append(batch, n) /\ ndp' = "sleep" /\ UNCHANGED held
    /\ UNCHANGED <<post, alertQ, adVars, table, disk, told, clock, boundVars>>

\* Mutant of GetTimeout: pushes without looking whether there is anything.
GetTimeoutAlways ==
    /\ ndp = "get" /\ notifQ = <<>>
    /\ ndp' = "push"
    /\ UNCHANGED <<post, alertQ, adVars, table, disk, notifQ, batch, held, told, clock, boundVars>>

\* Mutant of GetTimeout: waits for a second notification.
GetTimeoutSeveral ==
    /\ ndp = "get" /\ notifQ = <<>> /\ Len(batch) > 1
    /\ ndp' = "push"
    /\ UNCHANGED <<post, alertQ, adVars, table, disk, notifQ, batch, held, told, clock, boundVars>>

(* queue.Empty after push_to_oci_topic_interval_seconds. *)
GetTimeout ==
    /\ ndp = "get" /\ notifQ = <<>> /\ batch # <<>>
    /\ ndp' = "push"
    /\ UNCHANGED <<post, alertQ, adVars, table, disk, notifQ, batch, held, told, clock, boundVars>>

\* Mutant of SleepOver: goes on only when nothing else has come.
SleepOverWhenQuiet ==
    /\ ndp = "sleep" /\ notifQ = <<>>
    /\ ndp' = "push"
    /\ UNCHANGED <<post, alertQ, adVars, table, disk, notifQ, batch, held, told, clock, boundVars>>

(* Three seconds later: push if nothing else has come. *)
SleepOver ==
    /\ ndp = "sleep"
    /\ ndp' = IF notifQ = <<>> THEN "push" ELSE "get"
    /\ UNCHANGED <<post, alertQ, adVars, table, disk, notifQ, batch, held, told, clock, boundVars>>

(* The last thing a sequence of notifications says of an alert. *)
LastAbout(a, s, i) == s[i].id = a /\ \A k \in i + 1 .. Len(s) : s[k].id # a
LastTold(a, before, s) ==
    IF \E i \in 1 .. Len(s) : LastAbout(a, s, i)
    THEN s[CHOOSE i \in 1 .. Len(s) : LastAbout(a, s, i)].kind
    ELSE before

\* Mutant of Push: the notification that did not fit stays held as well.
PushKeepsHeld ==
    /\ ndp = "push" /\ TotalLength(batch) <= MaxLength
    /\ told' = [a \in Alerts |-> LastTold(a, told[a], batch)]
    /\ batch' = held
    /\ ndp' = "get"
    /\ UNCHANGED <<post, alertQ, adVars, table, disk, notifQ, held, clock, boundVars>>

Push ==
    /\ ndp = "push" /\ TotalLength(batch) <= MaxLength
    /\ told' = [a \in Alerts |-> LastTold(a, told[a], batch)]
    /\ batch' = held /\ held' = <<>>
    /\ ndp' = "get"
    /\ UNCHANGED <<post, alertQ, adVars, table, disk, notifQ, clock, boundVars>>

(* publish_message raises, for a message too long always: the thread ends. *)
PushFails ==
    /\ ndp = "push"
    /\ IF TotalLength(batch) > MaxLength THEN UNCHANGED faults
       ELSE faults < MaxFaults /\ faults' = faults + 1
    /\ ndp' = "dead"
    /\ UNCHANGED <<post, alertQ, adVars, table, disk, notifQ, batch, held, told, clock,
                   requests, crashes>>

-----------------------------------------------------------------------------
Tick ==
    /\ clock < MaxClock
    /\ clock' = clock + 1
    /\ UNCHANGED <<post, alertQ, adVars, table, disk, notifQ, ndVars, boundVars>>

(* The process dies and systemd starts it again: what was committed stays. *)
Restart ==
    /\ crashes < MaxCrashes
    /\ crashes' = crashes + 1
    /\ post' = [h \in Threads |-> <<>>] /\ alertQ' = <<>>
    /\ adp' = "top" /\ event' = NoEvent /\ now' = 0 /\ todo' = {} /\ updated' = FALSE
    /\ lastDay' = disk.reminded /\ table' = disk
    /\ notifQ' = <<>> /\ ndp' = "get" /\ batch' = <<>> /\ held' = <<>>
    /\ UNCHANGED <<disk, told, clock, requests, faults>>

NoAlerts == [open |-> {}, notified |-> [a \in Alerts |-> 0], reminded |-> 0]

Init ==
    /\ post = [h \in Threads |-> <<>>] /\ alertQ = <<>>
    /\ adp = "top" /\ event = NoEvent /\ now = 0 /\ todo = {} /\ updated = FALSE /\ lastDay = 0
    /\ table = NoAlerts /\ disk = NoAlerts
    /\ notifQ = <<>> /\ ndp = "get" /\ batch = <<>> /\ held = <<>>
    /\ told = [a \in Alerts |-> "none"]
    /\ clock = 0 /\ requests = 0 /\ faults = 0 /\ crashes = 0

AlertStep ==
    \/ LoopTop \/ GetAlert \/ GetNothing \/ PutNotification \/ Commit
    \/ NoReminder \/ ReminderStart \/ RemindOne \/ ReminderDone
NotificationStep == GetNotification \/ GetTimeout \/ SleepOver \/ Push

Next ==
    \/ \E h \in Threads : Receive(h) \/ Enqueue(h)
    \/ AlertStep
    \/ NotificationStep \/ PushFails
    \/ Tick
    \/ Restart

Spec == Init /\ [][Next]_vars

(* The daemons are threads of a process that runs: neither stops while it  *)
(* has something to do, and a blocked put goes on when there is room.      *)
FairSpec ==
    /\ Spec
    /\ WF_vars(AlertStep) /\ WF_vars(NotificationStep)
    /\ \A h \in Threads : WF_vars(Enqueue(h))

-----------------------------------------------------------------------------
(* Properties *)

(* TypeOK: the types of the variables, and what each place of a daemon     *)
(* tells of its locals.                                                    *)
AlertTypeOK ==
    /\ post \in [Threads -> Seq(Event)]
    /\ alertQ \in Seq(Event)
    /\ adp \in {"top", "get", "put", "commit", "remind", "reminding"}
    /\ event = NoEvent \/ event \in Event
    /\ adp = "put" <=> event # NoEvent
    /\ now \in Nat /\ lastDay \in Nat /\ clock \in Nat
    /\ todo \subseteq table.open /\ updated \in BOOLEAN
    /\ todo # {} => adp = "reminding"
    /\ table \in Tables /\ disk \in Tables
NotificationTypeOK ==
    /\ notifQ \in Seq(Notification) /\ batch \in Seq(Notification) /\ held \in Seq(Notification)
    /\ ndp \in {"get", "sleep", "push", "dead"}
    /\ held # <<>> => ndp \in {"push", "dead"}
    /\ told \in [Alerts -> {"none", "new", "resolved", "reminder"}]
BoundsTypeOK == requests \in Nat /\ faults \in Nat /\ crashes \in Nat
TypeOK == AlertTypeOK /\ NotificationTypeOK /\ BoundsTypeOK

(* The notifications still to be delivered, oldest first, and what will    *)
(* have been told of an alert last when the first n of them are.           *)
UnderWay == batch \o held \o notifQ
ToldAfter(a, n) == LastTold(a, told[a], SubSeq(UnderWay, 1, n))

(* Until a restart, an alert is in the database exactly when the last      *)
(* thing told of it, or about to be, is that it fires.                     *)
TableMatchesStory ==
    crashes = 0 =>
        \A a \in Alerts : a \in table.open <=> ToldAfter(a, Len(UnderWay)) \in {"new", "reminder"}

(* Nor is any alert told of as new while it is open, or reminded of when   *)
(* it is not, in the order people read it, until a restart: it may forget  *)
(* a notification that the database has, or the other way round.           *)
StoryMakesSense ==
    crashes = 0 =>
        \A i \in 1 .. Len(UnderWay) :
            LET before == ToldAfter(UnderWay[i].id, i - 1) IN
            CASE UnderWay[i].kind = "new"      -> before \in {"none", "resolved"}
              [] UnderWay[i].kind = "reminder" -> before \in {"new", "reminder"}
              [] UnderWay[i].kind = "resolved" -> TRUE

(* What the database keeps over a restart is what the daemon works with,   *)
(* but for the alert whose notification it has just queued (line 243).     *)
DiskFollows ==
    /\ adp # "commit" => disk.open = table.open
    /\ disk.open = table.open
       \/ \E a \in Alerts : disk.open \in {table.open \union {a}, table.open \ {a}}

(* While no notification is itself too long, no message to OCI is empty or *)
(* longer than max_notification_size, whatever order the notifications and *)
(* the timeouts come in (line 113).                                        *)
EveryPushFits ==
    ndp = "push" => batch # <<>> /\ TotalLength(batch) <= MaxLength

(* What GetAlert passes on is worth telling: an alert that is not ignored, *)
(* and not one that fires again.                                           *)
WorthTelling ==
    adp = "put" => event.id \notin Ignored /\ ~(event.status = "firing" /\ event.id \in table.open)

(* The inductive invariant under which every step is a step of the feed.   *)
FeedInv == TypeOK /\ DiskFollows /\ WorthTelling

(* Every post of Grafana is answered in the end: the put of its alerts     *)
(* does not block for ever, though both queues are bounded and the daemon  *)
(* that empties one fills the other (lines 210, 240, 265, 330).            *)
EveryPostAnswered == \A h \in Threads : post[h] # <<>> ~> post[h] = <<>>

(* The webhook implements the feed: the alert being worked on is the head  *)
(* of the inbox, the outbox goes from the batch to notification_queue.     *)
Inbox == (IF adp = "put" THEN <<event>> ELSE <<>>) \o alertQ
Feed == INSTANCE AlertFeed WITH inbox <- Inbox, open <- table.open, outbox <- UnderWay

(* The threads and queues keep the promise of AlertFeed at every step.     *)
ImplementsFeed == Feed!FeedSpec
(* Without failures they also keep it in the end: every alert queued is    *)
(* processed and every notification delivered.                             *)
ImplementsFairFeed == Feed!FairFeedSpec
=============================================================================
