------------------------------ MODULE AlertFeed ------------------------------
(***************************************************************************)
(* What the alert webhook promises, with one inbox and one outbox in place *)
(* of its threads and queues: alerts are taken in the order they came; one *)
(* that starts is told once, one that ends is told; between the two there  *)
(* may be reminders; and what is told is delivered, in that order, in      *)
(* messages of one or more notifications.  A restart forgets what is in    *)
(* the inbox and the outbox, and of the open alerts at most the last       *)
(* change.                                                                 *)
(***************************************************************************)
EXTENDS Sequences, Naturals

CONSTANTS Alerts,    \* the fingerprints of alerts
          Ignored    \* those named DatasourceNoData, or nameless

Statuses == {"firing", "resolved"}
Event == [id : Alerts, status : Statuses]
Notification == [id : Alerts, kind : {"new", "resolved", "reminder"}]

VARIABLES
  inbox,    \* events that have arrived
  open,     \* the alerts that are firing, as far as the events say
  outbox    \* notifications not delivered yet

feedVars == <<inbox, open, outbox>>

(* What an event adds to what there is to tell, given the open alerts. *)
Telling(e, S) ==
    IF e.id \in Ignored \/ (e.status = "firing" /\ e.id \in S) THEN <<>>
    ELSE <<[id |-> e.id, kind |-> IF e.status = "firing" THEN "new" ELSE "resolved"]>>
Opening(e, S) ==
    IF e.id \in Ignored THEN S
    ELSE IF e.status = "firing" THEN S \union {e.id} ELSE S \ {e.id}

Arrive ==
    /\ \E e \in Event : inbox' = Append(inbox, e)
    /\ UNCHANGED <<open, outbox>>

Process ==
    /\ inbox # <<>>
    /\ inbox' = Tail(inbox)
    /\ open' = Opening(Head(inbox), open)
    /\ outbox' = outbox \o Telling(Head(inbox), open)

Remind ==
    /\ \E a \in open : outbox' = Append(outbox, [id |-> a, kind |-> "reminder"])
    /\ UNCHANGED <<inbox, open>>

Deliver ==
    /\ \E n \in 1 .. Len(outbox) : outbox' = SubSeq(outbox, n + 1, Len(outbox))
    /\ UNCHANGED <<inbox, open>>

Forget ==
    /\ inbox' = <<>> /\ outbox' = <<>>
    /\ open' = open \/ \E a \in Alerts : open' \in {open \union {a}, open \ {a}}

FeedInit == inbox = <<>> /\ open = {} /\ outbox = <<>>
FeedNext == Arrive \/ Process \/ Remind \/ Deliver \/ Forget
FeedSpec == FeedInit /\ [][FeedNext]_feedVars
FairFeedSpec == FeedSpec /\ WF_feedVars(Process) /\ WF_feedVars(Deliver)
==============================================================================
