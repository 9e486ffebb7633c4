------------------------- MODULE AlertWebhookProofs -------------------------
(***************************************************************************)
(* Theorems about AlertWebhook, for any alerts, threads and queue sizes:   *)
(* type correctness, what the database keeps over a restart, that the      *)
(* threads and their queues implement AlertFeed, that what is told of an   *)
(* alert makes sense in the order it is told, and that messages fit.       *)
(***************************************************************************)
EXTENDS AlertWebhook, FoldTheorems, SequenceTheorems, TLAPS

-----------------------------------------------------------------------------
(* Sequences *)

(* Removing the first part of a concatenation leaves the second. *)
LEMMA DropPrefix ==
  ASSUME NEW S, NEW s \in Seq(S), NEW t \in Seq(S)
  PROVE  SubSeq(s \o t, Len(s) + 1, Len(s \o t)) = t
<1> DEFINE u == s \o t
<1>1. Len(s) \in Nat /\ Len(t) \in Nat /\ Len(u) = Len(s) + Len(t)
  BY LenProperties, ConcatProperties
<1>2. CASE t = <<>>
  <2>1. Len(u) < Len(s) + 1
    BY <1>1, <1>2, EmptySeq
  <2> QED
    BY <1>1, <1>2, <2>1, SubSeqEmpty
<1>3. CASE t # <<>>
  <2>1. Len(t) \in Nat \ {0}
    BY <1>3, EmptySeq
  <2>2. SubSeq(u, Len(s) + 1, Len(u)) = SubSeq(t, 1, Len(t))
    <3>1. /\ Len(s) + 1 \in Len(s) + 1 .. Len(s) + Len(t)
          /\ Len(s) + Len(t) \in Len(s) + 1 .. Len(s) + Len(t)
      BY <1>1, <2>1
    <3>2. SubSeq(u, Len(s) + 1, Len(s) + Len(t))
            = SubSeq(t, (Len(s) + 1) - Len(s), (Len(s) + Len(t)) - Len(s))
      BY <3>1, SubSeqOfConcat2
    <3>3. (Len(s) + 1) - Len(s) = 1 /\ (Len(s) + Len(t)) - Len(s) = Len(t)
      BY <1>1
    <3> QED
      BY <1>1, <3>2, <3>3
  <2> QED
    BY <2>2, SubSeqFull
<1> QED
  BY <1>2, <1>3

(* A sequence is its head followed by its tail. *)
LEMMA HeadThenTail ==
  ASSUME NEW S, NEW s \in Seq(S), s # <<>>
  PROVE  Head(s) \in S /\ Tail(s) \in Seq(S) /\ <<Head(s)>> \o Tail(s) = s
<1>1. Len(s) \in Nat \ {0} /\ Head(s) = s[1]
  BY EmptySeq
<1>2. SubSeq(s, 1, Len(s)) = <<s[1]>> \o SubSeq(s, 1 + 1, Len(s))
  BY <1>1, SubSeqRecursiveFirst
<1>3. Tail(s) = SubSeq(s, 2, Len(s)) /\ SubSeq(s, 1, Len(s)) = s
  BY TailIsSubSeq, SubSeqFull
<1> QED
  BY <1>1, <1>2, <1>3, HeadTailProperties

(* What is put in front is the head, what it is put in front of the tail. *)
LEMMA HeadTailOfCons ==
  ASSUME NEW S, NEW e \in S, NEW s \in Seq(S)
  PROVE  <<e>> \o s # <<>> /\ Head(<<e>> \o s) = e /\ Tail(<<e>> \o s) = s
<1> DEFINE u == <<e>> \o s
<1>1. <<e>> \in Seq(S) /\ Len(<<e>>) = 1 /\ <<e>>[1] = e
  OBVIOUS
<1>2. u \in Seq(S) /\ Len(u) = 1 + Len(s) /\ Len(s) \in Nat
  BY <1>1, ConcatProperties, LenProperties
<1>3. u # <<>> /\ u[1] = e
  <2>1. 1 \in 1 .. Len(<<e>>) + Len(s)
    BY <1>1, <1>2
  <2>2. u[1] = <<e>>[1]
    BY <1>1, <2>1, ConcatProperties
  <2> QED
    BY <1>1, <1>2, <2>2, EmptySeq
<1>4. Tail(u) = SubSeq(u, Len(<<e>>) + 1, Len(u))
  BY <1>1, <1>2, <1>3, TailIsSubSeq
<1> QED
  BY <1>1, <1>3, <1>4, DropPrefix

(* Appending to the second part is appending to the whole. *)
LEMMA AppendToConcat ==
  ASSUME NEW S, NEW s \in Seq(S), NEW t \in Seq(S), NEW e \in S, NEW u, u = s \o t
  PROVE  Append(u, e) = s \o Append(t, e)
<1>1. u \in Seq(S) /\ <<e>> \in Seq(S)
  BY ConcatProperties
<1>2. Append(u, e) = u \o <<e>>
  BY <1>1, AppendIsConcat
<1>3. Append(t, e) = t \o <<e>>
  BY AppendIsConcat
<1>4. (s \o t) \o <<e>> = s \o (t \o <<e>>)
  BY <1>1, ConcatAssociative
<1> QED
  BY <1>2, <1>3, <1>4, Zenon

-----------------------------------------------------------------------------
(* The table of active alerts *)

(* Every write of the database leaves a table of the same shape. *)
LEMMA TableAdd ==
  ASSUME NEW t \in Tables, NEW a \in Alerts, NEW n \in Nat, NEW u,
         u = [t EXCEPT !.open = @ \union {a}, !.notified[a] = n]
  PROVE  u \in Tables /\ u.open = t.open \union {a}
  BY DEF Tables

LEMMA TableRemove ==
  ASSUME NEW t \in Tables, NEW a \in Alerts, NEW u,
         u = [t EXCEPT !.open = @ \ {a}, !.notified[a] = 0]
  PROVE  u \in Tables /\ u.open = t.open \ {a}
  BY DEF Tables

LEMMA TableNotified ==
  ASSUME NEW t \in Tables, NEW a \in Alerts, NEW n \in Nat, NEW u,
         u = [t EXCEPT !.notified[a] = n]
  PROVE  u \in Tables /\ u.open = t.open
  BY DEF Tables

LEMMA TableReminded ==
  ASSUME NEW t \in Tables, NEW n \in Nat
  PROVE  /\ [t EXCEPT !.reminded = n] \in Tables
         /\ [t EXCEPT !.reminded = n].open = t.open
         /\ t.open \subseteq Alerts /\ t.reminded \in Nat
  BY DEF Tables

LEMMA NoAlertsTable == NoAlerts \in Tables /\ NoAlerts.open = {}
  BY DEF NoAlerts, Tables

(* An event and a notification are of an alert. *)
LEMMA EventFields ==
  ASSUME NEW e \in Event
  PROVE  e.id \in Alerts /\ e.status \in {"firing", "resolved"} /\ e # NoEvent
  BY DEF Event, Statuses, NoEvent

LEMMA NoticeType ==
  ASSUME NEW a \in Alerts, NEW k \in {"new", "resolved", "reminder"}
  PROVE  Notice(a, k) \in Notification
  BY DEF Notice, Notification

LEMMA DateType == \A n \in Nat : Date(n) \in Nat
  BY DEF Date

(* What PutNotification writes. *)
LEMMA TableWritten ==
  ASSUME PutNotification, event.id \in Alerts, now \in Nat, table \in Tables
  PROVE  /\ table' \in Tables
         /\ \/ event.status = "firing" /\ table'.open = table.open \union {event.id}
            \/ event.status # "firing" /\ table'.open = table.open \ {event.id}
<1>1. CASE event.status = "firing"
  <2>1. table' = [table EXCEPT !.open = @ \union {event.id}, !.notified[event.id] = now]
    BY <1>1 DEF PutNotification
  <2>2. table' \in Tables /\ table'.open = table.open \union {event.id}
    BY <2>1, TableAdd
  <2> QED
    BY <1>1, <2>2
<1>2. CASE event.status # "firing"
  <2>1. table' = [table EXCEPT !.open = @ \ {event.id}, !.notified[event.id] = 0]
    BY <1>2 DEF PutNotification
  <2>2. table' \in Tables /\ table'.open = table.open \ {event.id}
    BY <2>1, TableRemove
  <2> QED
    BY <1>2, <2>2
<1> QED
  BY <1>1, <1>2

-----------------------------------------------------------------------------
(* Type correctness *)

LEMMA TypeInit == Init => TypeOK
<1> SUFFICES ASSUME Init PROVE TypeOK
  OBVIOUS
<1>1. AlertTypeOK
  BY NoAlertsTable, EmptySeq DEF Init, AlertTypeOK, NoEvent
<1>2. NotificationTypeOK
  BY EmptySeq DEF Init, NotificationTypeOK
<1> QED
  BY <1>1, <1>2 DEF Init, TypeOK, BoundsTypeOK

LEMMA ServerTypes ==
  ASSUME TypeOK, NEW h \in Threads, Receive(h) \/ Enqueue(h)
  PROVE  TypeOK'
<1>1. CASE Receive(h)
  <2>1. requests' \in Nat
    BY <1>1 DEF Receive, TypeOK, BoundsTypeOK
  <2>2. post' \in [Threads -> Seq(Event)]
    <3>1. PICK n \in 1 .. MaxPost : \E r \in [1 .. n -> Event] : post' = [post EXCEPT ![h] = r]
      BY <1>1 DEF Receive
    <3>2. PICK r \in [1 .. n -> Event] : post' = [post EXCEPT ![h] = r]
      BY <3>1
    <3>3. n \in Nat
      BY BoundsAssumption
    <3>4. r \in Seq(Event)
      BY <3>3
    <3> QED
      BY <3>2, <3>4 DEF TypeOK, AlertTypeOK
  <2> QED
    BY <1>1, <2>1, <2>2
       DEF Receive, TypeOK, AlertTypeOK, NotificationTypeOK, BoundsTypeOK, adVars, ndVars
<1>2. CASE Enqueue(h)
  <2>1. Head(post[h]) \in Event /\ Tail(post[h]) \in Seq(Event)
    BY <1>2, HeadTailProperties DEF Enqueue, TypeOK, AlertTypeOK
  <2>2. alertQ' \in Seq(Event)
    BY <1>2, <2>1, AppendProperties DEF Enqueue, TypeOK, AlertTypeOK
  <2>3. post' \in [Threads -> Seq(Event)]
    BY <1>2, <2>1 DEF Enqueue, TypeOK, AlertTypeOK
  <2> QED
    BY <1>2, <2>2, <2>3
       DEF Enqueue, TypeOK, AlertTypeOK, NotificationTypeOK, BoundsTypeOK, adVars, ndVars, boundVars
<1> QED
  BY <1>1, <1>2

(* What a step of alert_processing_daemon leaves alone. *)
LEMMA AlertStepFrame ==
  ASSUME TypeOK, AlertStep
  PROVE  /\ UNCHANGED <<post, ndVars, clock, boundVars>>
         /\ BoundsTypeOK' /\ clock' \in Nat /\ post' \in [Threads -> Seq(Event)]
         /\ notifQ' \in Seq(Notification) => NotificationTypeOK'
<1>1. UNCHANGED <<post, ndVars, clock, boundVars>>
  BY DEF AlertStep, LoopTop, GetAlert, GetNothing, PutNotification, Commit, NoReminder,
         ReminderStart, RemindOne, ReminderDone
<1> QED
  BY <1>1 DEF TypeOK, AlertTypeOK, NotificationTypeOK, BoundsTypeOK, ndVars, boundVars

LEMMA AlertStepTypes ==
  ASSUME TypeOK, AlertStep
  PROVE  TypeOK'
<1>1. notifQ' \in Seq(Notification) /\ AlertTypeOK' => TypeOK'
  BY AlertStepFrame DEF TypeOK
<1>2. CASE LoopTop
  BY <1>1, <1>2, AlertStepFrame DEF LoopTop, TypeOK, AlertTypeOK, NotificationTypeOK
<1>3. CASE GetAlert
  <2>1. Head(alertQ) \in Event /\ Tail(alertQ) \in Seq(Event)
    BY <1>3, HeadTailProperties DEF GetAlert, TypeOK, AlertTypeOK
  <2> QED
    BY <1>1, <1>3, <2>1, EventFields, AlertStepFrame
       DEF GetAlert, TypeOK, AlertTypeOK, NotificationTypeOK
<1>4. CASE GetNothing
  BY <1>1, <1>4, AlertStepFrame DEF GetNothing, TypeOK, AlertTypeOK, NotificationTypeOK
<1>5. CASE PutNotification
  <2> DEFINE a == event.id
  <2>1. a \in Alerts /\ now \in Nat /\ table \in Tables /\ todo = {}
    BY <1>5, EventFields DEF PutNotification, TypeOK, AlertTypeOK
  <2>2. Append(notifQ, Notice(a, "new")) \in Seq(Notification)
    BY <2>1, NoticeType, AppendProperties DEF TypeOK, NotificationTypeOK
  <2>3. Append(notifQ, Notice(a, "resolved")) \in Seq(Notification)
    BY <2>1, NoticeType, AppendProperties DEF TypeOK, NotificationTypeOK
  <2>4. notifQ' \in Seq(Notification)
    BY <1>5, <2>2, <2>3 DEF PutNotification
  <2>5. table' \in Tables
    BY <1>5, <2>1, TableWritten
  <2>6. AlertTypeOK'
    BY <1>5, <2>1, <2>5, AlertStepFrame DEF PutNotification, TypeOK, AlertTypeOK
  <2> QED
    BY <1>1, <2>4, <2>6
<1>6. CASE Commit
  BY <1>1, <1>6, AlertStepFrame DEF Commit, TypeOK, AlertTypeOK, NotificationTypeOK
<1>7. CASE NoReminder
  BY <1>1, <1>7, AlertStepFrame DEF NoReminder, TypeOK, AlertTypeOK, NotificationTypeOK
<1>8. CASE ReminderStart
  BY <1>1, <1>8, AlertStepFrame DEF ReminderStart, TypeOK, AlertTypeOK, NotificationTypeOK
<1>9. CASE RemindOne
  <2>1. PICK a \in todo : /\ notifQ' = Append(notifQ, Notice(a, "reminder"))
                          /\ table' = [table EXCEPT !.notified[a] = now]
                          /\ todo' = todo \ {a}
    BY <1>9 DEF RemindOne
  <2>2. a \in Alerts /\ now \in Nat /\ table \in Tables
    BY TableReminded DEF TypeOK, AlertTypeOK
  <2>3. notifQ' \in Seq(Notification)
    BY <2>1, <2>2, NoticeType, AppendProperties DEF TypeOK, NotificationTypeOK
  <2>4. table' \in Tables /\ table'.open = table.open
    BY <2>1, <2>2, TableNotified
  <2>5. AlertTypeOK'
    BY <1>9, <2>1, <2>4, AlertStepFrame DEF RemindOne, TypeOK, AlertTypeOK
  <2> QED
    BY <1>1, <2>3, <2>5
<1>10. CASE ReminderDone
  <2>1. Date(now) \in Nat /\ table' = [table EXCEPT !.reminded = Date(now)]
    BY <1>10, DateType DEF ReminderDone, TypeOK, AlertTypeOK
  <2>2. table' \in Tables /\ table'.open = table.open
    BY <2>1, TableReminded DEF TypeOK, AlertTypeOK
  <2>3. disk' \in Tables
    BY <1>10, <2>2 DEF ReminderDone, TypeOK, AlertTypeOK
  <2>4. AlertTypeOK' /\ notifQ' \in Seq(Notification)
    BY <1>10, <2>1, <2>2, <2>3, AlertStepFrame
       DEF ReminderDone, TypeOK, AlertTypeOK, NotificationTypeOK
  <2> QED
    BY <1>1, <2>4
<1> QED
  BY <1>2, <1>3, <1>4, <1>5, <1>6, <1>7, <1>8, <1>9, <1>10 DEF AlertStep

(* LastTold is a kind of notification, or what it was before. *)
LEMMA LastToldType ==
  ASSUME NEW a \in Alerts, NEW before \in {"none", "new", "resolved", "reminder"},
         NEW s \in Seq(Notification)
  PROVE  LastTold(a, before, s) \in {"none", "new", "resolved", "reminder"}
<1>1. \A i \in 1 .. Len(s) : s[i].kind \in {"new", "resolved", "reminder"}
  <2> TAKE i \in 1 .. Len(s)
  <2>1. s[i] \in Notification
    BY ElementOfSeq
  <2> QED
    BY <2>1 DEF Notification
<1> QED
  BY <1>1 DEF LastTold

(* What a step of notification_processing_daemon leaves alone. *)
LEMMA NotificationStepFrame ==
  ASSUME TypeOK, NotificationStep \/ PushFails
  PROVE  UNCHANGED <<post, alertQ, adVars, table, disk, clock>> /\ BoundsTypeOK' /\ AlertTypeOK'
<1>1. UNCHANGED <<post, alertQ, adVars, table, disk, clock>>
  BY DEF NotificationStep, GetNotification, GetTimeout, SleepOver, Push, PushFails
<1>2. BoundsTypeOK'
  BY DEF NotificationStep, GetNotification, GetTimeout, SleepOver, Push, PushFails,
         TypeOK, BoundsTypeOK, boundVars
<1> QED
  BY <1>1, <1>2 DEF TypeOK, AlertTypeOK, adVars

LEMMA NotificationStepTypes ==
  ASSUME TypeOK, NotificationStep \/ PushFails
  PROVE  TypeOK'
<1>1. NotificationTypeOK' => TypeOK'
  BY NotificationStepFrame DEF TypeOK
<1>2. CASE GetNotification
  <2>1. Head(notifQ) \in Notification /\ Tail(notifQ) \in Seq(Notification)
    BY <1>2, HeadTailProperties DEF GetNotification, TypeOK, NotificationTypeOK
  <2>2. Append(batch, Head(notifQ)) \in Seq(Notification) /\ <<Head(notifQ)>> \in Seq(Notification)
    BY <2>1, AppendProperties DEF TypeOK, NotificationTypeOK
  <2>3. notifQ' = Tail(notifQ) /\ told' = told
    BY <1>2 DEF GetNotification
  <2>4. \/ held' = <<Head(notifQ)>> /\ ndp' = "push" /\ batch' = batch
        \/ batch' = Append(batch, Head(notifQ)) /\ ndp' = "sleep" /\ held' = held /\ ndp = "get"
    BY <1>2, Zenon DEF GetNotification
  <2> QED
    BY <1>1, <2>1, <2>2, <2>3, <2>4 DEF TypeOK, NotificationTypeOK
<1>3. CASE GetTimeout
  BY <1>1, <1>3 DEF GetTimeout, TypeOK, NotificationTypeOK
<1>4. CASE SleepOver
  BY <1>1, <1>4 DEF SleepOver, TypeOK, NotificationTypeOK
<1>5. CASE Push
  BY <1>1, <1>5, LastToldType, EmptySeq DEF Push, TypeOK, NotificationTypeOK
<1>6. CASE PushFails
  BY <1>1, <1>6 DEF PushFails, TypeOK, NotificationTypeOK
<1> QED
  BY <1>2, <1>3, <1>4, <1>5, <1>6 DEF NotificationStep

LEMMA RestartTypes ==
  ASSUME TypeOK, Restart
  PROVE  TypeOK'
<1>1. post' \in [Threads -> Seq(Event)] /\ alertQ' \in Seq(Event)
  BY EmptySeq DEF Restart
<1>2. disk.reminded \in Nat
  BY TableReminded DEF TypeOK, AlertTypeOK
<1>3. AlertTypeOK'
  BY <1>1, <1>2 DEF Restart, TypeOK, AlertTypeOK
<1>4. NotificationTypeOK' /\ BoundsTypeOK'
  BY EmptySeq DEF Restart, TypeOK, NotificationTypeOK, BoundsTypeOK
<1> QED
  BY <1>3, <1>4 DEF TypeOK

LEMMA TypeStep == TypeOK /\ [Next]_vars => TypeOK'
<1> SUFFICES ASSUME TypeOK, [Next]_vars PROVE TypeOK'
  OBVIOUS
<1>1. CASE Tick
  BY <1>1 DEF Tick, TypeOK, AlertTypeOK, NotificationTypeOK, BoundsTypeOK, adVars, ndVars, boundVars
<1>2. CASE UNCHANGED vars
  BY <1>2 DEF vars, TypeOK, AlertTypeOK, NotificationTypeOK, BoundsTypeOK, adVars, ndVars, boundVars
<1> QED
  BY <1>1, <1>2, ServerTypes, AlertStepTypes, NotificationStepTypes, RestartTypes DEF Next

(* Type correctness of every variable, and what each place of a daemon     *)
(* tells of its locals: an event is in hand exactly before a put, and a    *)
(* notification is held only until the next push.                          *)
THEOREM WebhookTypes == Spec => []TypeOK
  BY TypeInit, TypeStep, PTL DEF Spec

-----------------------------------------------------------------------------
(* What the database keeps *)

LEMMA DiskInit == Init => DiskFollows
  BY DEF Init, DiskFollows

LEMMA DiskStep == TypeOK /\ DiskFollows /\ [Next]_vars => DiskFollows'
<1> SUFFICES ASSUME TypeOK, DiskFollows, [Next]_vars PROVE DiskFollows'
  OBVIOUS
<1>1. ASSUME adp' = adp \/ adp' = "commit" \/ (adp' # "commit" /\ adp # "commit"),
             table'.open = table.open, disk'.open = disk.open
      PROVE  DiskFollows'
  BY <1>1 DEF DiskFollows
<1>2. CASE UNCHANGED <<adp, table, disk>>
  BY <1>1, <1>2
<1>3. CASE LoopTop \/ GetAlert \/ GetNothing \/ NoReminder \/ ReminderStart
  BY <1>1, <1>3 DEF LoopTop, GetAlert, GetNothing, NoReminder, ReminderStart
<1>4. CASE PutNotification
  <2> DEFINE a == event.id
  <2>1. a \in Alerts /\ now \in Nat /\ table \in Tables
    BY <1>4, EventFields DEF PutNotification, TypeOK, AlertTypeOK
  <2>2. disk' = disk /\ disk.open = table.open /\ adp' = "commit" /\ table.open \subseteq Alerts
    BY <1>4, <2>1, TableReminded DEF PutNotification, DiskFollows
  <2>3. table'.open = table.open \union {a} \/ table'.open = table.open \ {a}
    BY <1>4, <2>1, TableWritten
  <2>4. \/ table.open = table'.open
        \/ table.open = table'.open \ {a}
        \/ table.open = table'.open \union {a}
    BY <2>3
  <2> QED
    BY <2>1, <2>2, <2>4 DEF DiskFollows
<1>5. CASE Commit
  BY <1>5 DEF Commit, DiskFollows
<1>6. CASE RemindOne
  <2>1. PICK a \in todo : table' = [table EXCEPT !.notified[a] = now]
    BY <1>6 DEF RemindOne
  <2>2. a \in Alerts /\ now \in Nat /\ table \in Tables
    BY TableReminded DEF TypeOK, AlertTypeOK
  <2>3. table'.open = table.open
    BY <2>1, <2>2, TableNotified
  <2> QED
    BY <1>1, <1>6, <2>3 DEF RemindOne
<1>7. CASE ReminderDone
  <2>1. table'.open = table.open
    BY <1>7, DateType, TableReminded DEF ReminderDone, TypeOK, AlertTypeOK
  <2>2. disk'.open = disk.open
    BY <1>7, <2>1 DEF ReminderDone, DiskFollows
  <2> QED
    BY <1>1, <1>7, <2>1, <2>2 DEF ReminderDone
<1>8. CASE Restart
  BY <1>8 DEF Restart, DiskFollows
<1>9. ASSUME NEW h \in Threads, Receive(h) \/ Enqueue(h)
      PROVE  DiskFollows'
  BY <1>2, <1>9 DEF Receive, Enqueue, adVars
<1>10. CASE NotificationStep \/ PushFails
  BY <1>2, <1>10, NotificationStepFrame DEF adVars
<1>11. CASE Tick
  BY <1>2, <1>11 DEF Tick, adVars
<1>12. CASE UNCHANGED vars
  BY <1>2, <1>12 DEF vars, adVars
<1> QED
  BY <1>3, <1>4, <1>5, <1>6, <1>7, <1>8, <1>9, <1>10, <1>11, <1>12 DEF Next, AlertStep

(* The database follows: after a restart the daemon knows the alerts it    *)
(* knew before, but for at most the one whose notification it had queued.  *)
THEOREM DatabaseFollows == Spec => []DiskFollows
<1>1. Init => TypeOK /\ DiskFollows
  BY TypeInit, DiskInit
<1>2. TypeOK /\ DiskFollows /\ [Next]_vars => (TypeOK /\ DiskFollows)'
  BY TypeStep, DiskStep
<1> QED
  BY <1>1, <1>2, PTL DEF Spec

-----------------------------------------------------------------------------
(* What is passed on is worth telling *)

LEMMA WorthInit == Init => WorthTelling
  BY DEF Init, WorthTelling

LEMMA WorthStep == TypeOK /\ WorthTelling /\ [Next]_vars => WorthTelling'
<1> SUFFICES ASSUME TypeOK, WorthTelling, [Next]_vars PROVE WorthTelling'
  OBVIOUS
<1>1. CASE adp' # "put"
  BY <1>1 DEF WorthTelling
<1>2. CASE UNCHANGED <<adp, event, table>>
  BY <1>2 DEF WorthTelling
<1>3. CASE GetAlert
  BY <1>3 DEF GetAlert, WorthTelling
<1>4. CASE \/ LoopTop \/ GetNothing \/ PutNotification \/ Commit \/ NoReminder \/ ReminderStart
           \/ ReminderDone \/ Restart
  BY <1>1, <1>4 DEF LoopTop, GetNothing, PutNotification, Commit, NoReminder, ReminderStart,
                    ReminderDone, Restart
<1>5. CASE RemindOne
  BY <1>1, <1>5 DEF RemindOne
<1>6. ASSUME NEW h \in Threads, Receive(h) \/ Enqueue(h)
      PROVE  WorthTelling'
  BY <1>2, <1>6 DEF Receive, Enqueue, adVars
<1>7. CASE NotificationStep \/ PushFails
  BY <1>2, <1>7, NotificationStepFrame DEF adVars
<1>8. CASE Tick \/ UNCHANGED vars
  BY <1>2, <1>8 DEF Tick, vars, adVars
<1> QED
  BY <1>3, <1>4, <1>5, <1>6, <1>7, <1>8 DEF Next, AlertStep

(* The invariant behind the refinement. *)
THEOREM FeedInvariant == Spec => []FeedInv
<1>1. Init => FeedInv
  BY TypeInit, DiskInit, WorthInit DEF FeedInv
<1>2. FeedInv /\ [Next]_vars => FeedInv'
  BY TypeStep, DiskStep, WorthStep DEF FeedInv
<1> QED
  BY <1>1, <1>2, PTL DEF Spec

-----------------------------------------------------------------------------
(* The webhook implements the feed *)

LEMMA InboxType == TypeOK => Inbox \in Seq(Event) /\ UnderWay \in Seq(Notification)
<1> SUFFICES ASSUME TypeOK PROVE Inbox \in Seq(Event) /\ UnderWay \in Seq(Notification)
  OBVIOUS
<1>1. (IF adp = "put" THEN <<event>> ELSE <<>>) \in Seq(Event)
  BY EmptySeq DEF TypeOK, AlertTypeOK
<1>2. alertQ \in Seq(Event)
  BY DEF TypeOK, AlertTypeOK
<1>3. batch \in Seq(Notification) /\ held \in Seq(Notification) /\ notifQ \in Seq(Notification)
  BY DEF TypeOK, NotificationTypeOK
<1>4. Inbox \in Seq(Event)
  BY <1>1, <1>2, ConcatProperties DEF Inbox
<1>5. batch \o held \in Seq(Notification)
  BY <1>3, ConcatProperties
<1>6. UnderWay \in Seq(Notification)
  BY <1>3, <1>5, ConcatProperties DEF UnderWay
<1> QED
  BY <1>4, <1>6

(* Outside of a put the inbox is alert_queue. *)
LEMMA InboxIsQueue ==
  ASSUME TypeOK, adp # "put"
  PROVE  Inbox = alertQ
<1>1. alertQ \in Seq(Event) /\ Inbox = <<>> \o alertQ
  BY DEF Inbox, TypeOK, AlertTypeOK
<1> QED
  BY <1>1, ConcatEmptySeq

LEMMA JoinInAnyOrder ==
  ASSUME NEW s \in Seq(Notification), NEW t \in Seq(Notification), NEW u \in Seq(Notification)
  PROVE  (s \o t) \o u = s \o (t \o u)
  BY ConcatAssociative

(* What is put on notification_queue is put at the end of the outbox. *)
LEMMA PutAtEnd ==
  ASSUME TypeOK, UNCHANGED <<batch, held>>, NEW end \in Seq(Notification), notifQ' = notifQ \o end
  PROVE  UnderWay' = UnderWay \o end
<1>1. batch \in Seq(Notification) /\ held \in Seq(Notification) /\ notifQ \in Seq(Notification)
  BY DEF TypeOK, NotificationTypeOK
<1> DEFINE first == batch \o held
<1>2. first \in Seq(Notification)
  BY <1>1, ConcatProperties
<1>3. UnderWay = first \o notifQ /\ UnderWay' = first \o (notifQ \o end)
  BY DEF UnderWay
<1> HIDE DEF first
<1>4. (first \o notifQ) \o end = first \o (notifQ \o end)
  BY <1>1, <1>2, JoinInAnyOrder
<1> QED
  BY <1>3, <1>4

LEMMA EnqueueArrives ==
  ASSUME FeedInv, NEW h \in Threads, Enqueue(h)
  PROVE  Feed!Arrive
<1> DEFINE first == IF adp = "put" THEN <<event>> ELSE <<>>
<1>1. TypeOK /\ first \in Seq(Event) /\ alertQ \in Seq(Event)
  BY EmptySeq DEF FeedInv, TypeOK, AlertTypeOK
<1>2. Head(post[h]) \in Event
  BY <1>1, HeadTailProperties DEF Enqueue, TypeOK, AlertTypeOK
<1>3. /\ alertQ' = Append(alertQ, Head(post[h]))
      /\ UNCHANGED <<adp, event, table, batch, held, notifQ>>
  BY DEF Enqueue, adVars, ndVars
<1>4. Inbox = first \o alertQ /\ Inbox' = first \o Append(alertQ, Head(post[h]))
  BY <1>3 DEF Inbox
<1>5. Inbox' = Append(Inbox, Head(post[h]))
  <2> HIDE DEF first
  <2> QED
    BY <1>1, <1>2, <1>4, AppendToConcat
<1>6. UnderWay' = UnderWay /\ (table.open)' = table.open
  BY <1>3 DEF UnderWay
<1>7. Head(post[h]) \in Feed!Event
  BY <1>2 DEF Event, Statuses, Feed!Event, Feed!Statuses
<1> QED
  BY <1>5, <1>6, <1>7 DEF Feed!Arrive

LEMMA GetAlertProcesses ==
  ASSUME FeedInv, GetAlert
  PROVE  Feed!Process \/ UNCHANGED Feed!feedVars
<1> DEFINE e == Head(alertQ)
<1>1. /\ TypeOK /\ adp = "get" /\ alertQ # <<>> /\ alertQ' = Tail(alertQ)
      /\ UNCHANGED <<table, batch, held, notifQ>>
  BY DEF GetAlert, FeedInv, ndVars
<1>2. Inbox = alertQ
  BY <1>1, InboxIsQueue
<1>3. UnderWay' = UnderWay /\ (table.open)' = table.open
  BY <1>1 DEF UnderWay
<1>4. alertQ \in Seq(Event) /\ Tail(alertQ) \in Seq(Event)
  BY <1>1, HeadTailProperties DEF TypeOK, AlertTypeOK
<1>5. CASE adp' = "put"
  <2>1. event' = e
    BY <1>5 DEF GetAlert
  <2>2. Inbox' = <<e>> \o Tail(alertQ)
    BY <1>1, <1>5, <2>1 DEF Inbox
  <2>3. Inbox' = Inbox
    BY <1>1, <1>2, <1>4, <2>2, HeadThenTail
  <2> QED
    BY <1>3, <2>3 DEF Feed!feedVars
<1>6. CASE adp' # "put"
  <2>1. e.id \in Ignored \/ (e.status = "firing" /\ e.id \in table.open)
    BY <1>6 DEF GetAlert
  <2>2. Inbox' = <<>> \o Tail(alertQ)
    BY <1>1, <1>6 DEF Inbox
  <2>3. Inbox' = Tail(Inbox)
    BY <1>2, <1>4, <2>2, ConcatEmptySeq
  <2>4. Feed!Telling(e, table.open) = <<>>
    BY <2>1 DEF Feed!Telling
  <2>5. Feed!Opening(e, table.open) = table.open
    BY <2>1 DEF Feed!Opening
  <2>6. UnderWay \o <<>> = UnderWay
    BY <1>1, InboxType, ConcatEmptySeq
  <2> QED
    BY <1>1, <1>2, <1>3, <2>3, <2>4, <2>5, <2>6 DEF Feed!Process
<1> QED
  BY <1>5, <1>6

LEMMA PutNotificationProcesses ==
  ASSUME FeedInv, PutNotification
  PROVE  Feed!Process
<1>1. /\ TypeOK /\ adp = "put" /\ adp' # "put" /\ event \in Event /\ alertQ \in Seq(Event)
      /\ UNCHANGED <<alertQ, batch, held>>
  BY DEF PutNotification, FeedInv, TypeOK, AlertTypeOK, ndVars
<1>2. /\ event.id \notin Ignored /\ ~(event.status = "firing" /\ event.id \in table.open)
  BY <1>1 DEF FeedInv, WorthTelling
<1>3. event.id \in Alerts /\ now \in Nat /\ table \in Tables
  BY <1>1, EventFields DEF TypeOK, AlertTypeOK
<1>4. Inbox = <<event>> \o alertQ /\ Inbox' = <<>> \o alertQ
  BY <1>1 DEF Inbox
<1>5. Inbox # <<>> /\ Head(Inbox) = event /\ Inbox' = Tail(Inbox)
  <2>1. <<>> \o alertQ = alertQ
    BY <1>1, ConcatEmptySeq
  <2> QED
    BY <1>1, <1>4, <2>1, HeadTailOfCons
<1>6. (table.open)' = Feed!Opening(event, table.open)
  BY <1>2, <1>3, TableWritten DEF Feed!Opening
<1>7. UnderWay' = UnderWay \o Feed!Telling(event, table.open)
  <2> DEFINE kind == IF event.status = "firing" THEN "new" ELSE "resolved"
             n == Notice(event.id, kind)
  <2>1. n \in Notification /\ <<n>> \in Seq(Notification) /\ notifQ \in Seq(Notification)
    BY <1>1, <1>3, NoticeType DEF TypeOK, NotificationTypeOK
  <2>2. notifQ' = notifQ \o <<n>>
    BY <2>1, AppendIsConcat DEF PutNotification
  <2>3. Feed!Telling(event, table.open) = <<n>>
    BY <1>2 DEF Feed!Telling, Notice
  <2> HIDE DEF n
  <2> QED
    BY <1>1, <2>1, <2>2, <2>3, PutAtEnd
<1> QED
  BY <1>5, <1>6, <1>7 DEF Feed!Process

LEMMA RemindOneReminds ==
  ASSUME FeedInv, RemindOne
  PROVE  Feed!Remind
<1>1. PICK a \in todo : /\ notifQ' = Append(notifQ, Notice(a, "reminder"))
                        /\ table' = [table EXCEPT !.notified[a] = now]
  BY DEF RemindOne
<1>2. /\ TypeOK /\ a \in table.open /\ now \in Nat /\ table \in Tables
      /\ UNCHANGED <<adp, event, alertQ, batch, held>>
  BY DEF RemindOne, FeedInv, TypeOK, AlertTypeOK, ndVars
<1>3. a \in Alerts
  BY <1>2, TableReminded
<1>4. (table.open)' = table.open
  BY <1>1, <1>2, <1>3, TableNotified
<1>5. UnderWay' = Append(UnderWay, [id |-> a, kind |-> "reminder"])
  <2> DEFINE n == Notice(a, "reminder")
  <2>1. n \in Notification /\ <<n>> \in Seq(Notification) /\ notifQ \in Seq(Notification)
    BY <1>2, <1>3, NoticeType DEF TypeOK, NotificationTypeOK
  <2>2. notifQ' = notifQ \o <<n>>
    BY <1>1, <2>1, AppendIsConcat
  <2>3. UnderWay' = UnderWay \o <<n>>
    <3> HIDE DEF n
    <3> QED
      BY <1>2, <2>1, <2>2, PutAtEnd
  <2>4. UnderWay' = Append(UnderWay, n)
    BY <1>2, <2>1, <2>3, InboxType, AppendIsConcat
  <2> QED
    BY <2>4 DEF Notice
<1>6. Inbox' = Inbox
  BY <1>2 DEF Inbox
<1> QED
  BY <1>2, <1>4, <1>5, <1>6 DEF Feed!Remind

(* Taking a notification from the queue leaves the outbox as it is. *)
LEMMA GetNotificationStutters ==
  ASSUME FeedInv, GetNotification
  PROVE  UnderWay' = UnderWay
<1> DEFINE n == Head(notifQ)
<1>1. /\ TypeOK /\ held = <<>> /\ notifQ # <<>> /\ notifQ' = Tail(notifQ)
      /\ batch \in Seq(Notification) /\ notifQ \in Seq(Notification)
  BY DEF GetNotification, FeedInv, TypeOK, NotificationTypeOK
<1>2. n \in Notification /\ Tail(notifQ) \in Seq(Notification) /\ <<n>> \o Tail(notifQ) = notifQ
  BY <1>1, HeadThenTail
<1>3. \/ held' = <<n>> /\ batch' = batch
      \/ batch' = Append(batch, n) /\ held' = held
  BY Zenon DEF GetNotification
<1>4. batch' \o held' = batch \o <<n>>
  <2>1. CASE held' = <<n>> /\ batch' = batch
    BY <2>1
  <2>2. CASE batch' = Append(batch, n) /\ held' = held
    <3>1. Append(batch, n) \in Seq(Notification) /\ Append(batch, n) = batch \o <<n>>
      BY <1>1, <1>2, AppendProperties, AppendIsConcat
    <3>2. Append(batch, n) \o <<>> = Append(batch, n)
      BY <3>1, ConcatEmptySeq
    <3> QED
      BY <1>1, <2>2, <3>1, <3>2
  <2> QED
    BY <1>3, <2>1, <2>2
<1>5. (batch \o <<n>>) \o Tail(notifQ) = batch \o (<<n>> \o Tail(notifQ))
  <2>1. <<n>> \in Seq(Notification)
    BY <1>2
  <2> QED
    BY <1>1, <1>2, <2>1, ConcatAssociative
<1>6. batch \o held = batch
  BY <1>1, ConcatEmptySeq
<1>7. UnderWay' = (batch' \o held') \o notifQ' /\ UnderWay = (batch \o held) \o notifQ
  BY DEF UnderWay
<1> HIDE DEF n
<1> QED
  BY <1>1, <1>2, <1>4, <1>5, <1>6, <1>7, Zenon

LEMMA PushDelivers ==
  ASSUME FeedInv, Push
  PROVE  Feed!Deliver \/ UNCHANGED Feed!feedVars
<1> DEFINE rest == held \o notifQ
<1>1. /\ TypeOK /\ batch' = held /\ held' = <<>>
      /\ UNCHANGED <<adp, event, alertQ, table, notifQ>>
      /\ batch \in Seq(Notification) /\ held \in Seq(Notification) /\ notifQ \in Seq(Notification)
  BY DEF Push, FeedInv, TypeOK, NotificationTypeOK, adVars
<1>2. Inbox' = Inbox /\ (table.open)' = table.open
  BY <1>1 DEF Inbox
<1>3. rest \in Seq(Notification)
  BY <1>1, ConcatProperties
<1>4. UnderWay' = rest
  <2>1. UnderWay' = (held \o <<>>) \o notifQ
    BY <1>1 DEF UnderWay
  <2>2. held \o <<>> = held
    BY <1>1, ConcatEmptySeq
  <2> QED
    BY <2>1, <2>2
<1>5. UnderWay = batch \o rest
  BY <1>1, ConcatAssociative DEF UnderWay
<1> HIDE DEF rest
<1>6. Len(batch) \in Nat /\ Len(UnderWay) = Len(batch) + Len(rest) /\ Len(rest) \in Nat
  BY <1>1, <1>3, <1>5, LenProperties, ConcatProperties
<1>7. CASE batch = <<>>
  <2>1. UnderWay = rest
    BY <1>3, <1>5, <1>7, ConcatEmptySeq
  <2> QED
    BY <1>2, <1>4, <2>1 DEF Feed!feedVars
<1>8. CASE batch # <<>>
  <2>1. Len(batch) \in 1 .. Len(UnderWay)
    BY <1>1, <1>6, <1>8, EmptySeq
  <2>2. UnderWay' = SubSeq(UnderWay, Len(batch) + 1, Len(UnderWay))
    BY <1>1, <1>3, <1>4, <1>5, DropPrefix
  <2> QED
    BY <1>2, <2>1, <2>2 DEF Feed!Deliver
<1> QED
  BY <1>7, <1>8

LEMMA RestartForgets ==
  ASSUME FeedInv, Restart
  PROVE  Feed!Forget
<1>1. Inbox' = <<>>
  BY DEF Restart, Inbox
<1>2. UnderWay' = <<>>
  BY DEF Restart, UnderWay
<1>3. (table.open)' = disk.open
  BY DEF Restart
<1> QED
  BY <1>1, <1>2, <1>3 DEF FeedInv, DiskFollows, Feed!Forget

(* Every other step leaves inbox, open alerts and outbox as they are. *)
LEMMA OtherStepsStutter ==
  ASSUME FeedInv,
         \/ LoopTop \/ GetNothing \/ Commit \/ NoReminder \/ ReminderStart \/ ReminderDone
         \/ GetTimeout \/ SleepOver \/ PushFails \/ Tick \/ UNCHANGED vars
         \/ \E h \in Threads : Receive(h)
  PROVE  UNCHANGED Feed!feedVars
<1>1. UNCHANGED <<alertQ, event, batch, held, notifQ>> /\ (adp = "put" <=> adp' = "put")
  BY DEF LoopTop, GetNothing, Commit, NoReminder, ReminderStart, ReminderDone, GetTimeout,
         SleepOver, PushFails, Tick, Receive, vars, adVars, ndVars
<1>2. (table.open)' = table.open
  <2>1. CASE ReminderDone
    BY <2>1, DateType, TableReminded DEF ReminderDone, FeedInv, TypeOK, AlertTypeOK
  <2>2. CASE ~ReminderDone
    BY <2>2 DEF LoopTop, GetNothing, Commit, NoReminder, ReminderStart, GetTimeout,
                SleepOver, PushFails, Tick, Receive, vars
  <2> QED
    BY <2>1, <2>2
<1>3. Inbox' = Inbox /\ UnderWay' = UnderWay
  BY <1>1 DEF Inbox, UnderWay
<1> QED
  BY <1>2, <1>3 DEF Feed!feedVars

LEMMA FeedStep == FeedInv /\ [Next]_vars => [Feed!FeedNext]_(Feed!feedVars)
<1> SUFFICES ASSUME FeedInv, [Next]_vars PROVE Feed!FeedNext \/ UNCHANGED Feed!feedVars
  OBVIOUS
<1>1. CASE GetNotification
  <2>1. UnderWay' = UnderWay
    BY <1>1, GetNotificationStutters
  <2>2. Inbox' = Inbox /\ (table.open)' = table.open
    BY <1>1 DEF GetNotification, Inbox, adVars
  <2> QED
    BY <2>1, <2>2 DEF Feed!feedVars
<1> QED
  BY <1>1, EnqueueArrives, GetAlertProcesses, PutNotificationProcesses, RemindOneReminds,
     PushDelivers, RestartForgets, OtherStepsStutter
     DEF Next, AlertStep, NotificationStep, Feed!FeedNext

LEMMA FeedStart == Init => Feed!FeedInit
<1> SUFFICES ASSUME Init PROVE Inbox = <<>> /\ table.open = {} /\ UnderWay = <<>>
  BY DEF Feed!FeedInit
<1> QED
  BY NoAlertsTable DEF Init, Inbox, UnderWay

(* The threads, the two bounded queues, the held notification and the      *)
(* database together implement AlertFeed: events are processed in the      *)
(* order they came, each new or resolved alert is told once, notifications *)
(* are delivered in that order, and a restart loses no more than the       *)
(* queues and one change of the database.                                  *)
THEOREM WebhookImplementsFeed == Spec => ImplementsFeed
<1>1. Init => Feed!FeedInit
  BY FeedStart
<1>2. FeedInv /\ [Next]_vars => [Feed!FeedNext]_(Feed!feedVars)
  BY FeedStep
<1>3. Spec => []FeedInv
  BY FeedInvariant
<1> QED
  BY <1>1, <1>2, <1>3, PTL DEF Spec, ImplementsFeed, Feed!FeedSpec

-----------------------------------------------------------------------------
(* What is told of an alert *)

LEMMA PrefixOfFirst ==
  ASSUME NEW S, NEW s \in Seq(S), NEW t \in Seq(S), NEW n \in 0 .. Len(s)
  PROVE  SubSeq(s \o t, 1, n) = SubSeq(s, 1, n)
<1>1. Len(s) \in Nat
  BY LenProperties
<1>2. CASE n = 0
  BY <1>2, SubSeqEmpty
<1>3. CASE n # 0
  <2>1. 1 \in 1 .. Len(s) /\ n \in 1 .. Len(s)
    BY <1>1, <1>3
  <2>. QED
    BY <2>1, SubSeqOfConcat1
<1>. QED
  BY <1>2, <1>3

LEMMA PrefixType ==
  ASSUME NEW S, NEW s \in Seq(S), NEW n \in 0 .. Len(s)
  PROVE  /\ SubSeq(s, 1, n) \in Seq(S) /\ Len(SubSeq(s, 1, n)) = n
         /\ \A i \in 1 .. n : SubSeq(s, 1, n)[i] = s[i]
<1>1. n \in Nat /\ Len(s) \in Nat /\ \A i \in 1 .. n : s[i] \in S
  <2>1. Len(s) \in Nat
    BY LenProperties
  <2>2. \A i \in 1 .. n : i \in 1 .. Len(s)
    BY <2>1
  <2>. QED
    BY <2>1, <2>2, ElementOfSeq
<1>2. /\ SubSeq(s, 1, n) \in Seq(S)
      /\ Len(SubSeq(s, 1, n)) = IF 1 <= n THEN n - 1 + 1 ELSE 0
      /\ \A i \in 1 .. n - 1 + 1 : SubSeq(s, 1, n)[i] = s[1 + i - 1]
  BY <1>1, SubSeqProperties
<1>. QED
  BY <1>1, <1>2

LEMMA PrefixOfSecond ==
  ASSUME NEW S, NEW s \in Seq(S), NEW t \in Seq(S), NEW n \in 0 .. Len(t)
  PROVE  SubSeq(s \o t, 1, Len(s) + n) = s \o SubSeq(t, 1, n)
<1>1. PICK u : u = s \o t
  OBVIOUS
<1>2. /\ u \in Seq(S) /\ Len(u) = Len(s) + Len(t) /\ Len(s) \in Nat /\ Len(t) \in Nat
      /\ \A i \in 1 .. Len(s) + Len(t) : u[i] = IF i <= Len(s) THEN s[i] ELSE t[i - Len(s)]
  BY <1>1, ConcatProperties, LenProperties
<1>3. Len(s) + n \in 0 .. Len(u)
  BY <1>2
<1>4. PICK v : v = SubSeq(u, 1, Len(s) + n)
  OBVIOUS
<1>5. /\ v \in Seq(S) /\ Len(v) = Len(s) + n
      /\ \A i \in 1 .. Len(s) + n : v[i] = u[i]
  BY <1>2, <1>3, <1>4, PrefixType
<1>6. PICK p : p = SubSeq(t, 1, n)
  OBVIOUS
<1>7. p \in Seq(S) /\ Len(p) = n /\ \A i \in 1 .. n : p[i] = t[i]
  BY <1>6, PrefixType
<1>8. PICK w : w = s \o p
  OBVIOUS
<1>9. /\ w \in Seq(S) /\ Len(w) = Len(s) + n
      /\ \A i \in 1 .. Len(s) + n : w[i] = IF i <= Len(s) THEN s[i] ELSE p[i - Len(s)]
  <2>1. /\ w \in Seq(S) /\ Len(w) = Len(s) + Len(p)
        /\ \A i \in 1 .. Len(s) + Len(p) : w[i] = IF i <= Len(s) THEN s[i] ELSE p[i - Len(s)]
    BY <1>7, <1>8, ConcatProperties
  <2>. QED
    BY <1>7, <2>1
<1>10. ASSUME NEW i \in 1 .. Len(s) + n PROVE v[i] = w[i]
  <2>1. i \in 1 .. Len(s) + Len(t) /\ (~(i <= Len(s)) => i - Len(s) \in 1 .. n)
    BY <1>2
  <2>. QED
    BY <1>2, <1>5, <1>7, <1>9, <2>1
<1>11. v = w
  BY <1>5, <1>9, <1>10, SeqEqual
<1>. QED
  BY <1>1, <1>4, <1>6, <1>8, <1>11

(* There is a last notification about an alert if there is any.            *)
LEMMA SomeLast ==
  ASSUME NEW s \in Seq(Notification), NEW a, NEW i \in 1 .. Len(s), s[i].id = a
  PROVE  \E k \in 1 .. Len(s) : LastAbout(a, s, k)
<1>1. Len(s) \in Nat
  BY LenProperties
<1>. DEFINE T == {n \in Nat : n < Len(s) /\ s[Len(s) - n].id = a}
<1>2. T \subseteq Nat /\ Len(s) - i \in T
  BY <1>1
<1>. HIDE DEF T
<1>3. PICK n \in T : \A m \in T : n <= m
  BY <1>2, SmallestNumber
<1>. USE DEF T
<1>4. Len(s) - n \in 1 .. Len(s) /\ s[Len(s) - n].id = a
  BY <1>1, <1>3
<1>5. ASSUME NEW k \in Len(s) - n + 1 .. Len(s), s[k].id = a PROVE FALSE
  <2>1. Len(s) - k \in Nat /\ Len(s) - k < Len(s) /\ Len(s) - (Len(s) - k) = k /\ Len(s) - k < n
    BY <1>1, <1>4
  <2>. QED
    BY <1>3, <1>5, <2>1
<1>. QED
  BY <1>4, <1>5 DEF LastAbout

LEMMA LastIsUnique ==
  ASSUME NEW s \in Seq(Notification), NEW a, NEW i \in 1 .. Len(s), LastAbout(a, s, i), NEW before
  PROVE  LastTold(a, before, s) = s[i].kind
<1>1. Len(s) \in Nat
  BY LenProperties
<1>2. ASSUME NEW k \in 1 .. Len(s), LastAbout(a, s, k) PROVE k = i
  <2>1. ~(k \in i + 1 .. Len(s)) /\ ~(i \in k + 1 .. Len(s))
    BY <1>2 DEF LastAbout
  <2>. QED
    BY <1>1, <2>1
<1>. QED
  BY <1>2 DEF LastTold

LEMMA NothingTold ==
  ASSUME NEW s, NEW a, \A i \in 1 .. Len(s) : s[i].id # a, NEW before
  PROVE  LastTold(a, before, s) = before
  BY DEF LastTold, LastAbout

(* First the first sequence is told, then the second. *)
LEMMA ToldInTurn ==
  ASSUME NEW s \in Seq(Notification), NEW t \in Seq(Notification), NEW a, NEW before
  PROVE  LastTold(a, before, s \o t) = LastTold(a, LastTold(a, before, s), t)
<1>1. PICK u : u = s \o t
  OBVIOUS
<1>2. /\ u \in Seq(Notification) /\ Len(u) = Len(s) + Len(t) /\ Len(s) \in Nat /\ Len(t) \in Nat
      /\ \A i \in 1 .. Len(s) + Len(t) : u[i] = IF i <= Len(s) THEN s[i] ELSE t[i - Len(s)]
  BY <1>1, ConcatProperties, LenProperties
<1>3. /\ \A i \in 1 .. Len(s) : i \in 1 .. Len(u) /\ u[i] = s[i]
      /\ \A i \in 1 .. Len(t) : Len(s) + i \in 1 .. Len(u) /\ u[Len(s) + i] = t[i]
      /\ \A i \in 1 .. Len(u) : i \in 1 .. Len(s) \/ i - Len(s) \in 1 .. Len(t)
      /\ \A i \in 1 .. Len(u) : i \notin 1 .. Len(s) => u[i] = t[i - Len(s)]
  <2>1. \A i \in 1 .. Len(s) : i \in 1 .. Len(u) /\ u[i] = s[i]
    BY <1>2
  <2>2. ASSUME NEW i \in 1 .. Len(t)
        PROVE  Len(s) + i \in 1 .. Len(u) /\ u[Len(s) + i] = t[i]
    <3>1. /\ Len(s) + i \in 1 .. Len(s) + Len(t) /\ ~(Len(s) + i <= Len(s))
          /\ (Len(s) + i) - Len(s) = i
      BY <1>2
    <3>. QED
      BY <1>2, <3>1
  <2>3. \A i \in 1 .. Len(u) : i \in 1 .. Len(s) \/ i - Len(s) \in 1 .. Len(t)
    BY <1>2
  <2>4. \A i \in 1 .. Len(u) : i \notin 1 .. Len(s) => u[i] = t[i - Len(s)]
    BY <1>2
  <2>. QED
    BY <2>1, <2>2, <2>3, <2>4
<1>4. CASE \E i \in 1 .. Len(t) : t[i].id = a
  <2>1. PICK k \in 1 .. Len(t) : LastAbout(a, t, k)
    BY <1>4, SomeLast
  <2>2. LastAbout(a, u, Len(s) + k)
    <3>1. u[Len(s) + k].id = a
      BY <1>3, <2>1 DEF LastAbout
    <3>2. ASSUME NEW i \in Len(s) + k + 1 .. Len(u) PROVE u[i].id # a
      <4>1. i \in 1 .. Len(u) /\ i \notin 1 .. Len(s) /\ i - Len(s) \in k + 1 .. Len(t)
        BY <1>2
      <4>. QED
        BY <1>3, <2>1, <4>1 DEF LastAbout
    <3>. QED
      BY <3>1, <3>2 DEF LastAbout
  <2>3. LastTold(a, before, u) = u[Len(s) + k].kind
    <3>1. PICK m : m = Len(s) + k
      OBVIOUS
    <3>2. m \in 1 .. Len(u) /\ LastAbout(a, u, m)
      BY <1>3, <2>2, <3>1
    <3>. QED
      BY <1>2, <3>1, <3>2, LastIsUnique
  <2>4. LastTold(a, LastTold(a, before, s), t) = t[k].kind
    BY <2>1, LastIsUnique
  <2>. QED
    BY <1>1, <1>3, <2>3, <2>4
<1>5. CASE \A i \in 1 .. Len(t) : t[i].id # a
  <2>1. LastTold(a, LastTold(a, before, s), t) = LastTold(a, before, s)
    BY <1>5, NothingTold
  <2>2. CASE \E i \in 1 .. Len(s) : s[i].id = a
    <3>1. PICK k \in 1 .. Len(s) : LastAbout(a, s, k)
      BY <2>2, SomeLast
    <3>2. LastAbout(a, u, k)
      <4>1. u[k].id = a
        BY <1>3, <3>1 DEF LastAbout
      <4>2. ASSUME NEW i \in k + 1 .. Len(u) PROVE u[i].id # a
        <5>1. i \in 1 .. Len(u) /\ (i \in 1 .. Len(s) => i \in k + 1 .. Len(s))
          BY <1>2
        <5>2. CASE i \in 1 .. Len(s)
          BY <1>3, <3>1, <5>1, <5>2 DEF LastAbout
        <5>3. CASE i \notin 1 .. Len(s)
          BY <1>3, <1>5, <5>1, <5>3
        <5>. QED
          BY <5>2, <5>3
      <4>. QED
        BY <4>1, <4>2 DEF LastAbout
    <3>3. LastTold(a, before, u) = u[k].kind
      <4>1. k \in 1 .. Len(u)
        BY <1>3
      <4>. QED
        BY <1>2, <3>2, <4>1, LastIsUnique
    <3>4. LastTold(a, before, s) = s[k].kind
      BY <3>1, LastIsUnique
    <3>. QED
      BY <1>1, <1>3, <2>1, <3>3, <3>4
  <2>3. CASE \A i \in 1 .. Len(s) : s[i].id # a
    <3>1. \A i \in 1 .. Len(u) : u[i].id # a
      BY <1>3, <1>5, <2>3
    <3>2. LastTold(a, before, u) = before /\ LastTold(a, before, s) = before
      BY <2>3, <3>1, NothingTold
    <3>. QED
      BY <1>1, <2>1, <3>2
  <2>. QED
    BY <2>2, <2>3
<1>. QED
  BY <1>4, <1>5

LEMMA OneTold ==
  ASSUME NEW n \in Notification, NEW a, NEW before
  PROVE  LastTold(a, before, <<n>>) = IF n.id = a THEN n.kind ELSE before
<1>1. PICK s : s = <<n>>
  OBVIOUS
<1>2. s \in Seq(Notification) /\ Len(s) = 1 /\ s[1] = n /\ 1 \in 1 .. Len(s)
  BY <1>1
<1>3. CASE n.id = a
  <2>1. LastAbout(a, s, 1)
    BY <1>2, <1>3 DEF LastAbout
  <2>2. LastTold(a, before, s) = s[1].kind
    BY ONLY <1>2, <2>1, LastIsUnique
  <2>. QED
    BY <1>1, <1>2, <1>3, <2>2
<1>4. CASE n.id # a
  <2>1. \A i \in 1 .. Len(s) : s[i].id # a
    BY <1>4, <1>2
  <2>. QED
    BY <1>1, <1>4, <2>1, NothingTold
<1>. QED
  BY <1>3, <1>4

-----------------------------------------------------------------------------
(* The story of an alert *)

StoryInv == TableMatchesStory /\ StoryMakesSense

(* What is told of an alert before it is told that it is new, or reminded  *)
(* of.                                                                     *)
MakesSense(kind, before) ==
    CASE kind = "new"      -> before \in {"none", "resolved"}
      [] kind = "reminder" -> before \in {"new", "reminder"}
      [] kind = "resolved" -> TRUE

LEMMA StorySteady ==
  ASSUME StoryInv, UnderWay' = UnderWay, told' = told, (table.open)' = table.open,
         crashes' = crashes
  PROVE  StoryInv'
<1>1. \A a, n : ToldAfter(a, n)' = ToldAfter(a, n)
  BY DEF ToldAfter, LastTold, LastAbout
<1>2. TableMatchesStory'
  BY <1>1 DEF StoryInv, TableMatchesStory
<1>3. StoryMakesSense'
  BY <1>1 DEF StoryInv, StoryMakesSense
<1>. QED
  BY <1>2, <1>3 DEF StoryInv

(* A notification is queued: it makes sense after all there is, and with   *)
(* what it says of its alert the table agrees.                             *)
LEMMA StoryContinues ==
  ASSUME TypeOK, TypeOK', StoryInv, NEW n \in Notification, UnderWay' = UnderWay \o <<n>>, told' = told,
         crashes' = crashes,
         crashes = 0 => MakesSense(n.kind, ToldAfter(n.id, Len(UnderWay))),
         \A a \in Alerts :
            a \in table'.open <=> IF a = n.id THEN n.kind \in {"new", "reminder"} ELSE a \in table.open
  PROVE  StoryInv'
<1>1. PICK u, v : u = UnderWay /\ v = UnderWay'
  OBVIOUS
<1>2. u \in Seq(Notification) /\ <<n>> \in Seq(Notification) /\ v = u \o <<n>>
  BY <1>1, InboxType
<1>3. /\ v \in Seq(Notification) /\ Len(v) = Len(u) + 1 /\ Len(u) \in Nat
      /\ v[Len(u) + 1] = n /\ \A i \in 1 .. Len(u) : v[i] = u[i]
  <2>1. v = Append(u, n)
    BY <1>2, AppendIsConcat
  <2>. QED
    BY <1>2, <2>1, AppendProperties, LenProperties
<1>4. SubSeq(v, 1, Len(v)) = v /\ SubSeq(u, 1, Len(u)) = u
  BY <1>2, <1>3, SubSeqFull
<1>5. \A i \in 0 .. Len(u) : SubSeq(v, 1, i) = SubSeq(u, 1, i)
  BY <1>2, PrefixOfFirst
<1>0. \A a, k : ToldAfter(a, k)' = LastTold(a, told[a], SubSeq(v, 1, k))
  BY <1>1 DEF ToldAfter, LastTold, LastAbout
<1>6. TableMatchesStory'
  <2>1. SUFFICES ASSUME crashes = 0, NEW a \in Alerts
                 PROVE  a \in table'.open <=> LastTold(a, told[a], v) \in {"new", "reminder"}
    BY <1>0, <1>1, <1>4 DEF TableMatchesStory
  <2>2. LastTold(a, told[a], v) = IF n.id = a THEN n.kind ELSE LastTold(a, told[a], u)
    <3>1. PICK t : t = <<n>>
      OBVIOUS
    <3>2. LastTold(a, told[a], v) = LastTold(a, LastTold(a, told[a], u), t)
      <4>1. u \in Seq(Notification) /\ t \in Seq(Notification) /\ v = u \o t
        BY <1>2, <3>1
      <4>2. LastTold(a, told[a], u \o t) = LastTold(a, LastTold(a, told[a], u), t)
        BY ONLY <4>1, ToldInTurn
      <4>. QED
        BY ONLY <4>1, <4>2
    <3>3. LastTold(a, LastTold(a, told[a], u), t) = IF n.id = a THEN n.kind ELSE LastTold(a, told[a], u)
      BY <3>1, OneTold
    <3>. QED
      BY <3>2, <3>3
  <2>3. a \in table.open <=> LastTold(a, told[a], u) \in {"new", "reminder"}
    BY <1>1, <1>4, <2>1 DEF StoryInv, TableMatchesStory, ToldAfter
  <2>. QED
    BY <2>2, <2>3
<1>7. StoryMakesSense'
  <2>1. SUFFICES ASSUME crashes = 0, NEW i \in 1 .. Len(v)
                 PROVE  MakesSense(v[i].kind, LastTold(v[i].id, told[v[i].id], SubSeq(v, 1, i - 1)))
    BY <1>0, <1>1, Zenon DEF StoryMakesSense, MakesSense
  <2>2. CASE i = Len(u) + 1
    <3>1. v[i] = n /\ i - 1 = Len(u) /\ SubSeq(v, 1, i - 1) = SubSeq(u, 1, Len(u))
      BY <1>3, <1>5, <2>2
    <3>. QED
      BY <1>1, <2>1, <3>1 DEF ToldAfter
  <2>3. CASE i # Len(u) + 1
    <3>1. i \in 1 .. Len(u) /\ v[i] = u[i] /\ i - 1 \in 0 .. Len(u)
      BY <1>3, <2>3
    <3>2. SubSeq(v, 1, i - 1) = SubSeq(u, 1, i - 1)
      BY <1>5, <3>1
    <3>3. MakesSense(u[i].kind, LastTold(u[i].id, told[u[i].id], SubSeq(u, 1, i - 1)))
      BY <1>1, <2>1, <3>1 DEF StoryInv, StoryMakesSense, ToldAfter, MakesSense
    <3>. QED
      BY <3>1, <3>2, <3>3
  <2>. QED
    BY <2>2, <2>3
<1>. QED
  BY <1>6, <1>7 DEF StoryInv

LEMMA PutStory ==
  ASSUME FeedInv, TypeOK', StoryInv, PutNotification
  PROVE  StoryInv'
<1>1. /\ TypeOK /\ event \in Event /\ now \in Nat /\ table \in Tables /\ event.id \in Alerts
      /\ UNCHANGED <<batch, held, told, crashes>> /\ notifQ \in Seq(Notification)
      /\ ~(event.status = "firing" /\ event.id \in table.open)
  BY EventFields DEF PutNotification, FeedInv, WorthTelling, TypeOK, AlertTypeOK, NotificationTypeOK, ndVars, boundVars
<1>2. PICK kind : kind = IF event.status = "firing" THEN "new" ELSE "resolved"
  OBVIOUS
<1>3. PICK n : n = Notice(event.id, kind)
  OBVIOUS
<1>4. n \in Notification /\ n.id = event.id /\ n.kind = kind /\ <<n>> \in Seq(Notification)
  <2>1. kind \in {"new", "resolved", "reminder"}
    BY <1>2
  <2>2. n \in Notification
    BY <1>1, <1>3, <2>1, NoticeType
  <2>3. n.id = event.id /\ n.kind = kind
    BY <1>3 DEF Notice
  <2>. QED
    BY <2>2, <2>3
<1>5. notifQ' = notifQ \o <<n>>
  <2>1. notifQ' = Append(notifQ, n)
    BY <1>2, <1>3 DEF PutNotification
  <2>. QED
    BY <1>1, <1>4, <2>1, AppendIsConcat
<1>6. UnderWay' = UnderWay \o <<n>>
  BY <1>1, <1>4, <1>5, PutAtEnd
<1>7. \A a \in Alerts :
         a \in table'.open <=> IF a = n.id THEN n.kind \in {"new", "reminder"} ELSE a \in table.open
  BY <1>1, <1>2, <1>4, TableWritten
<1>8. crashes = 0 => MakesSense(n.kind, ToldAfter(n.id, Len(UnderWay)))
  <2>1. CASE kind = "new"
    <3>1. event.id \notin table.open
      BY <1>1, <1>2, <2>1
    <3>2. crashes = 0 => ToldAfter(event.id, Len(UnderWay)) \notin {"new", "reminder"}
      BY <1>1, <3>1 DEF StoryInv, TableMatchesStory
    <3>3. ToldAfter(event.id, Len(UnderWay)) \in {"none", "new", "resolved", "reminder"}
      <4>1. UnderWay \in Seq(Notification) /\ SubSeq(UnderWay, 1, Len(UnderWay)) = UnderWay
        BY <1>1, InboxType, SubSeqFull
      <4>2. told[event.id] \in {"none", "new", "resolved", "reminder"}
        BY <1>1 DEF TypeOK, NotificationTypeOK
      <4>. QED
        BY <1>1, <4>1, <4>2, LastToldType DEF ToldAfter
    <3>. QED
      BY <1>4, <2>1, <3>2, <3>3 DEF MakesSense
  <2>2. CASE kind = "resolved"
    BY <1>4, <2>2 DEF MakesSense
  <2>. QED
    BY <1>2, <2>1, <2>2
<1>. QED
  BY <1>1, <1>4, <1>6, <1>7, <1>8, StoryContinues

LEMMA RemindStory ==
  ASSUME FeedInv, TypeOK', StoryInv, RemindOne
  PROVE  StoryInv'
<1>1. PICK a \in todo : /\ notifQ' = Append(notifQ, Notice(a, "reminder"))
                        /\ table' = [table EXCEPT !.notified[a] = now]
  BY DEF RemindOne
<1>2. /\ TypeOK /\ a \in table.open /\ now \in Nat /\ table \in Tables
      /\ UNCHANGED <<batch, held, told, crashes>> /\ notifQ \in Seq(Notification)
  BY DEF RemindOne, FeedInv, TypeOK, AlertTypeOK, NotificationTypeOK, ndVars, boundVars
<1>3. a \in Alerts
  BY <1>2, TableReminded
<1>4. PICK n : n = Notice(a, "reminder")
  OBVIOUS
<1>5. n \in Notification /\ n.id = a /\ n.kind = "reminder" /\ <<n>> \in Seq(Notification)
  <2>1. n \in Notification
    BY <1>3, <1>4, NoticeType
  <2>2. n.id = a /\ n.kind = "reminder"
    BY <1>4 DEF Notice
  <2>. QED
    BY <2>1, <2>2
<1>6. notifQ' = notifQ \o <<n>>
  BY <1>1, <1>2, <1>4, <1>5, AppendIsConcat
<1>7. UnderWay' = UnderWay \o <<n>>
  BY <1>2, <1>5, <1>6, PutAtEnd
<1>8. table'.open = table.open
  BY <1>1, <1>2, <1>3, TableNotified
<1>9. crashes = 0 => MakesSense(n.kind, ToldAfter(n.id, Len(UnderWay)))
  BY <1>2, <1>3, <1>5 DEF StoryInv, TableMatchesStory, MakesSense
<1>10. \A b \in Alerts :
         b \in table'.open <=> IF b = n.id THEN n.kind \in {"new", "reminder"} ELSE b \in table.open
  BY <1>2, <1>5, <1>8
<1>. QED
  BY <1>2, <1>5, <1>7, <1>9, <1>10, StoryContinues

(* A push moves what has been told, and not what is told in the end. *)
LEMMA PushStory ==
  ASSUME FeedInv, StoryInv, Push
  PROVE  StoryInv'
<1>1. PICK b, r : b = batch /\ r = held \o notifQ
  OBVIOUS
<1>2. /\ b \in Seq(Notification) /\ r \in Seq(Notification)
      /\ UnderWay = b \o r /\ UnderWay' = r
      /\ told' = [a \in Alerts |-> LastTold(a, told[a], b)]
      /\ UNCHANGED <<table, crashes>> /\ TypeOK
  <2>1. /\ TypeOK /\ batch' = held /\ held' = <<>> /\ UNCHANGED <<table, notifQ, crashes>>
        /\ batch \in Seq(Notification) /\ held \in Seq(Notification) /\ notifQ \in Seq(Notification)
        /\ told' = [a \in Alerts |-> LastTold(a, told[a], batch)]
    BY DEF Push, FeedInv, TypeOK, NotificationTypeOK, boundVars
  <2>2. held \o <<>> = held /\ held \o notifQ \in Seq(Notification)
    BY <2>1, ConcatEmptySeq, ConcatProperties
  <2>3. UnderWay' = held \o notifQ
    BY <2>1, <2>2 DEF UnderWay
  <2>4. UnderWay = batch \o (held \o notifQ)
    BY <2>1, ConcatAssociative DEF UnderWay
  <2>. QED
    BY <1>1, <2>1, <2>2, <2>3, <2>4
<1>3. PICK u : u = UnderWay
  OBVIOUS
<1>4. /\ u \in Seq(Notification) /\ u = b \o r /\ Len(u) = Len(b) + Len(r)
      /\ Len(b) \in Nat /\ Len(r) \in Nat
      /\ \A i \in 1 .. Len(b) + Len(r) : u[i] = IF i <= Len(b) THEN b[i] ELSE r[i - Len(b)]
  BY <1>2, <1>3, ConcatProperties, LenProperties
<1>5. ASSUME NEW a \in Alerts, NEW n \in 0 .. Len(r)
      PROVE  ToldAfter(a, n)' = ToldAfter(a, Len(b) + n)
  <2>1. SubSeq(u, 1, Len(b) + n) = b \o SubSeq(r, 1, n)
    BY <1>2, <1>4, PrefixOfSecond
  <2>2. SubSeq(r, 1, n) \in Seq(Notification)
    BY <1>2, PrefixType
  <2>3. LastTold(a, told[a], b \o SubSeq(r, 1, n))
          = LastTold(a, LastTold(a, told[a], b), SubSeq(r, 1, n))
    <3>1. PICK q, before : q = SubSeq(r, 1, n) /\ before = told[a]
      OBVIOUS
    <3>2. q \in Seq(Notification) /\ b \in Seq(Notification)
      BY <1>2, <2>2, <3>1
    <3>3. LastTold(a, before, b \o q) = LastTold(a, LastTold(a, before, b), q)
      BY ONLY <3>2, ToldInTurn
    <3>. QED
      BY <3>1, <3>3
  <2>4. ToldAfter(a, n)' = LastTold(a, told'[a], SubSeq(r, 1, n))
    BY <1>2 DEF ToldAfter, LastTold, LastAbout
  <2>. QED
    BY <1>2, <1>3, <2>1, <2>3, <2>4 DEF ToldAfter
<1>6. TableMatchesStory'
  <2>1. Len(r) \in 0 .. Len(r) /\ Len(u) = Len(b) + Len(r)
    BY <1>4
  <2>. QED
    BY <1>2, <1>3, <1>5, <2>1 DEF StoryInv, TableMatchesStory
<1>7. StoryMakesSense'
  <2>1. SUFFICES ASSUME crashes = 0, NEW i \in 1 .. Len(r)
                 PROVE  MakesSense(r[i].kind, ToldAfter(r[i].id, i - 1)')
    BY <1>2, Zenon DEF StoryMakesSense, MakesSense
  <2>2. PICK k : k = Len(b) + i
    OBVIOUS
  <2>3. k \in 1 .. Len(u) /\ u[k] = r[i] /\ k - 1 = Len(b) + (i - 1) /\ i - 1 \in 0 .. Len(r)
    BY <1>4, <2>2
  <2>4. r[i].id \in Alerts
    <3>1. r[i] \in Notification
      BY <1>2, ElementOfSeq
    <3>. QED
      BY <3>1 DEF Notification
  <2>5. ToldAfter(r[i].id, i - 1)' = ToldAfter(r[i].id, k - 1)
    BY <1>5, <2>3, <2>4
  <2>6. MakesSense(u[k].kind, ToldAfter(u[k].id, k - 1))
    BY <1>3, <2>1, <2>3 DEF StoryInv, StoryMakesSense, MakesSense
  <2>. QED
    BY <2>3, <2>5, <2>6
<1>. QED
  BY <1>6, <1>7 DEF StoryInv

LEMMA StoryStep == FeedInv /\ TypeOK' /\ StoryInv /\ [Next]_vars => StoryInv'
<1> SUFFICES ASSUME FeedInv, TypeOK', StoryInv, [Next]_vars PROVE StoryInv'
  OBVIOUS
<1>1. CASE PutNotification \/ RemindOne \/ Push
  BY <1>1, PutStory, RemindStory, PushStory
<1>2. CASE Restart
  <2>1. crashes' # 0
    BY <1>2 DEF Restart, FeedInv, TypeOK, BoundsTypeOK
  <2>. QED
    BY <2>1 DEF StoryInv, TableMatchesStory, StoryMakesSense
<1>3. CASE GetNotification
  <2>1. UnderWay' = UnderWay
    BY <1>3, GetNotificationStutters
  <2>2. told' = told /\ (table.open)' = table.open /\ crashes' = crashes
    BY <1>3 DEF GetNotification, boundVars
  <2>. QED
    BY <2>1, <2>2, StorySteady
<1>4. CASE GetAlert \/ \E h \in Threads : Enqueue(h)
  <2>1. UNCHANGED <<batch, held, notifQ, told, table, crashes>>
    BY <1>4 DEF GetAlert, Enqueue, ndVars, boundVars
  <2>2. UnderWay' = UnderWay
    BY <2>1 DEF UnderWay
  <2>. QED
    BY <2>1, <2>2, StorySteady
<1>5. CASE \/ LoopTop \/ GetNothing \/ Commit \/ NoReminder \/ ReminderStart \/ ReminderDone
           \/ GetTimeout \/ SleepOver \/ PushFails \/ Tick \/ UNCHANGED vars
           \/ \E h \in Threads : Receive(h)
  <2>1. UNCHANGED Feed!feedVars
    BY <1>5, OtherStepsStutter
  <2>2. told' = told /\ crashes' = crashes
    BY <1>5 DEF LoopTop, GetNothing, Commit, NoReminder, ReminderStart, ReminderDone, GetTimeout,
       SleepOver, PushFails, Tick, Receive, vars, ndVars, boundVars
  <2>. QED
    BY <2>1, <2>2, StorySteady DEF Feed!feedVars
<1>. QED
  BY <1>1, <1>2, <1>3, <1>4, <1>5 DEF Next, AlertStep, NotificationStep

LEMMA StoryStart == Init => StoryInv
<1> SUFFICES ASSUME Init PROVE StoryInv
  OBVIOUS
<1>1. UnderWay = <<>> /\ table.open = {} /\ Len(<<>>) = 0
  BY NoAlertsTable, EmptySeq DEF Init, UnderWay
<1>2. \A a \in Alerts : ToldAfter(a, 0) = "none"
  BY <1>1 DEF ToldAfter, LastTold, Init
<1>. QED
  BY <1>1, <1>2 DEF StoryInv, TableMatchesStory, StoryMakesSense

LEMMA StoryInvariant == Spec => []StoryInv
<1>1. FeedInv /\ [Next]_vars => TypeOK'
  BY TypeStep DEF FeedInv
<1>. QED
  BY <1>1, StoryStart, StoryStep, FeedInvariant, PTL DEF Spec

(* Until a restart, an alert is in the database exactly when the last      *)
(* thing told of it, or about to be, is that it fires.                     *)
THEOREM TableIsAsTold == Spec => []TableMatchesStory
<1>1. StoryInv => TableMatchesStory
  BY DEF StoryInv
<1>. QED
  BY <1>1, StoryInvariant, PTL

(* Until a restart no open alert is told of as new and no other one is     *)
(* reminded of, in the order in which people read it.                      *)
THEOREM ToldInOrder == Spec => []StoryMakesSense
<1>1. StoryInv => StoryMakesSense
  BY DEF StoryInv
<1>. QED
  BY <1>1, StoryInvariant, PTL

-----------------------------------------------------------------------------
(* The length of a message *)

LEMMA NoLength == TotalLength(<<>>) = 0
<1>1. DOMAIN <<>> = {}
  OBVIOUS
<1>. QED
  BY <1>1, SumOfNone DEF TotalLength

LEMMA LengthsNatural ==
  ASSUME NEW s \in Seq(Notification)
  PROVE  /\ DOMAIN s = 1 .. Len(s) /\ Len(s) \in Nat
         /\ IsFiniteSet(DOMAIN s) /\ \A i \in DOMAIN s : Length[s[i].id] \in Nat
<1>1. DOMAIN s = 1 .. Len(s) /\ Len(s) \in Nat
  BY LenProperties
<1>2. ASSUME NEW i \in 1 .. Len(s) PROVE Length[s[i].id] \in Nat
  <2>1. s[i] \in Notification
    BY ElementOfSeq
  <2>. QED
    BY <2>1, AlertsAssumption DEF Notification
<1>3. IsFiniteSet(1 .. Len(s))
  BY <1>1, FS_Interval
<1>. QED
  BY <1>1, <1>2, <1>3

LEMMA OneLonger ==
  ASSUME NEW s \in Seq(Notification), NEW n \in Notification
  PROVE  /\ TotalLength(s) \in Nat
         /\ TotalLength(Append(s, n)) = Length[n.id] + TotalLength(s)
<1>1. PICK t, k : t = Append(s, n) /\ k = Len(s) + 1
  OBVIOUS
<1>2. /\ t \in Seq(Notification) /\ Len(t) = k /\ t[k] = n /\ \A i \in 1 .. Len(s) : t[i] = s[i]
      /\ Len(s) \in Nat
  BY <1>1, AppendProperties, LenProperties
<1>3. PICK f, g : /\ f = [i \in DOMAIN s |-> Length[s[i].id]]
                  /\ g = [i \in DOMAIN t |-> Length[t[i].id]]
  OBVIOUS
<1>4. PICK S : S = DOMAIN s
  OBVIOUS
<1>5. /\ S = 1 .. Len(s) /\ IsFiniteSet(S) /\ Natural(f, S)
      /\ DOMAIN t = S \union {k} /\ k \notin S /\ Natural(g, S \union {k})
  <2>1. /\ S = 1 .. Len(s) /\ IsFiniteSet(S) /\ \A i \in S : Length[s[i].id] \in Nat
    BY <1>4, LengthsNatural
  <2>2. DOMAIN t = 1 .. k /\ \A i \in DOMAIN t : Length[t[i].id] \in Nat
    BY <1>2, LengthsNatural
  <2>3. 1 .. k = (1 .. Len(s)) \union {k} /\ k \notin 1 .. Len(s)
    BY <1>1, <1>2
  <2>. QED
    BY <1>3, <1>4, <2>1, <2>2, <2>3 DEF Natural
<1>6. \A i \in S : f[i] = g[i]
  BY <1>2, <1>3, <1>4, <1>5
<1>7. SumFunctionOnSet(f, S) = SumFunctionOnSet(g, S)
  BY <1>5, <1>6, SumSame
<1>8. SumFunctionOnSet(g, S \union {k}) = g[k] + SumFunctionOnSet(g, S)
  BY <1>5, SumAdd
<1>9. g[k] = Length[n.id]
  BY <1>2, <1>3, <1>5
<1>10. SumFunctionOnSet(f, S) \in Nat
  BY <1>5, SumRecursion
<1>11. TotalLength(s) = SumFunctionOnSet(f, S) /\ TotalLength(t) = SumFunctionOnSet(g, S \union {k})
  BY <1>3, <1>4, <1>5 DEF TotalLength
<1>. QED
  BY <1>1, <1>7, <1>8, <1>9, <1>10, <1>11

(* What is collected fits a message, and there is something to push.       *)
PushInv ==
    /\ TotalLength(batch) <= MaxLength /\ TotalLength(held) <= MaxLength
    /\ ndp \in {"sleep", "push"} => batch # <<>>

NoneTooLong == \A a \in Alerts : Length[a] <= MaxLength

LEMMA PushStart == Init => PushInv
  BY NoLength, QueueAssumption DEF Init, PushInv

LEMMA CollectFits ==
  ASSUME TypeOK, PushInv, GetNotification, NoneTooLong
  PROVE  PushInv'
<1>1. /\ notifQ # <<>> /\ notifQ \in Seq(Notification) /\ batch \in Seq(Notification)
      /\ held \in Seq(Notification)
  BY DEF GetNotification, TypeOK, NotificationTypeOK
<1>2. PICK n : n = Head(notifQ)
  OBVIOUS
<1>3. n \in Notification
  BY <1>1, <1>2, HeadTailProperties
<1>4. Length[n.id] \in Nat /\ Length[n.id] <= MaxLength /\ MaxLength \in Nat
  BY <1>3, AlertsAssumption, QueueAssumption DEF Notification, NoneTooLong
<1>5. CASE TotalLength(Append(batch, n)) > MaxLength
  <2>1. held' = <<n>> /\ ndp' = "push" /\ batch' = batch
    BY <1>2, <1>5 DEF GetNotification
  <2>2. TotalLength(<<n>>) = Length[n.id]
    <3>1. PICK e : e = <<>>
      OBVIOUS
    <3>2. <<n>> = Append(e, n) /\ e \in Seq(Notification)
      BY <1>3, <3>1
    <3>3. TotalLength(Append(e, n)) = Length[n.id] + TotalLength(e) /\ TotalLength(e) = 0
      BY <1>3, <3>1, <3>2, OneLonger, NoLength
    <3>4. TotalLength(<<n>>) = TotalLength(Append(e, n))
      BY <3>2, Zenon
    <3>5. Length[n.id] + TotalLength(e) = Length[n.id]
      BY <1>4, <3>3
    <3>. QED
      BY <3>3, <3>4, <3>5, Zenon
  <2>3. batch # <<>>
    <3>1. SUFFICES ASSUME batch = <<>> PROVE FALSE
      OBVIOUS
    <3>2. TotalLength(Append(batch, n)) = Length[n.id] + 0
      BY <1>1, <1>3, <3>1, OneLonger, NoLength
    <3>. QED
      BY <1>4, <1>5, <3>2
  <2>. QED
    BY <1>4, <2>1, <2>2, <2>3 DEF PushInv
<1>6. CASE ~(TotalLength(Append(batch, n)) > MaxLength)
  <2>1. held' = held /\ ndp' = "sleep" /\ batch' = Append(batch, n)
    BY <1>2, <1>6 DEF GetNotification
  <2>2. TotalLength(Append(batch, n)) \in Nat
    BY <1>1, <1>3, <1>4, OneLonger
  <2>3. Append(batch, n) # <<>>
    BY <1>1, <1>3, AppendProperties
  <2>. QED
    BY <1>4, <1>6, <2>1, <2>2, <2>3 DEF PushInv
<1>. QED
  BY <1>5, <1>6

LEMMA PushStep ==
  ASSUME TypeOK, PushInv, [Next]_vars, NoneTooLong
  PROVE  PushInv'
<1>1. CASE GetNotification
  BY <1>1, CollectFits
<1>2. CASE GetTimeout
  BY <1>2 DEF GetTimeout, PushInv
<1>3. CASE SleepOver
  BY <1>3 DEF SleepOver, PushInv
<1>4. CASE Push
  <2>1. batch' = held /\ held' = <<>> /\ ndp' = "get"
    BY <1>4 DEF Push
  <2>. QED
    BY <2>1, NoLength, QueueAssumption DEF PushInv
<1>5. CASE PushFails
  BY <1>5 DEF PushFails, PushInv
<1>6. CASE Restart
  BY <1>6, NoLength, QueueAssumption DEF Restart, PushInv
<1>7. CASE AlertStep
  BY <1>7, AlertStepFrame DEF PushInv, ndVars
<1>8. CASE (\E h \in Threads : Receive(h) \/ Enqueue(h)) \/ Tick \/ UNCHANGED vars
  BY <1>8 DEF Receive, Enqueue, Tick, PushInv, vars, ndVars
<1>. QED
  BY <1>1, <1>2, <1>3, <1>4, <1>5, <1>6, <1>7, <1>8 DEF Next, NotificationStep

(* When no notification alone is too long, no message to OCI is empty or   *)
(* longer than max_notification_size.                                      *)
THEOREM MessagesFit ==
  ASSUME NoneTooLong
  PROVE  Spec => []EveryPushFits
<1>1. TypeOK /\ PushInv /\ [Next]_vars => PushInv'
  BY PushStep
<1>2. PushInv => EveryPushFits
  BY DEF PushInv, EveryPushFits
<1>. QED
  BY <1>1, <1>2, PushStart, WebhookTypes, PTL DEF Spec
=============================================================================
