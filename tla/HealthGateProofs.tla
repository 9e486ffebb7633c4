-------------------------- MODULE HealthGateProofs --------------------------
(***************************************************************************)
(* The reboots of a node are spaced, a report ends with Terminate when a   *)
(* rule asks for it, and no job starts on a node whose errors were there   *)
(* to be seen: whatever its symptoms, the shape, the limits and the order  *)
(* of checks, panics and reboots.                                          *)
(***************************************************************************)
EXTENDS HealthGate, FoldTheorems, FiniteSetTheorems, TLAPS

(* The parts of the state that decide about reboots, and their types.      *)
ClockOK ==
    /\ now \in Nat /\ boots \in Seq(Nat) /\ followed \in Seq(Nat) /\ rotated \in BOOLEAN
    /\ \A i \in 1 .. Len(followed) : followed[i] <= now
    /\ ~rotated => Len(boots) >= 1

IsCaller(x) == x = [pc |-> x.pc, at |-> x.at, seen |-> x.seen]
ShapeOK ==
    /\ log = [fresh |-> log.fresh, mixed |-> log.mixed, msgs |-> log.msgs]
    /\ caller = [c \in Callers |-> caller[c]] /\ \A c \in Callers : IsCaller(caller[c])

(* Every reboot that was followed is an entry of wtmp of its own, and not  *)
(* the oldest one, which get_reboots_count skips.                          *)
Told ==
    ~rotated =>
      \E g \in [1 .. Len(followed) -> 2 .. Len(boots)] :
         /\ \A i, j \in 1 .. Len(followed) : g[i] = g[j] => i = j
         /\ \A i \in 1 .. Len(followed) : boots[g[i]] = followed[i]

(* The reboots followed within a day, and one more being in order now. *)
Recent == {i \in 1 .. Len(followed) : followed[i] + Day >= now}
MayReboot ==
    /\ \A i \in 1 .. Len(followed) : followed[i] + ShortTime < now
    /\ Cardinality(Recent) <= Limit

(* A message in a log that somebody may read: it is fresh, a check is      *)
(* writing to it, or a grep is due.                                        *)
Readable == log.fresh \/ \E c \in Callers : caller[c].pc \in {"check", "report", "read"}

RebootAsked == \E m \in log.msgs : m[2] = "Reboot"

(* Whoever is told to reboot the node may do so, however late. *)
AdviceOK ==
    ~rotated => ((RebootAsked /\ Readable) \/ advice = "Reboot" => MayReboot)

RebootInv == ClockOK /\ ShapeOK /\ Told /\ AdviceOK /\ RebootsSpaced

-----------------------------------------------------------------------------
(* Lemmas about the clock *)

LEMMA RecentFinite ==
  ASSUME ClockOK
  PROVE  IsFiniteSet(Recent) /\ Cardinality(Recent) \in Nat
<1>1. Len(followed) \in Nat
  BY DEF ClockOK
<1>2. IsFiniteSet(1 .. Len(followed))
  BY <1>1, FS_Interval
<1>3. Recent \subseteq 1 .. Len(followed)
  BY DEF Recent
<1>. QED
  BY <1>2, <1>3, FS_Subset, FS_CardinalityType

(* The recommendation of a reboot looks at all the followed ones. *)
LEMMA EscalateCounts ==
  ASSUME ClockOK, Told, ~rotated, NEW a, Escalate(a) = "Reboot"
  PROVE  MayReboot
<1>1. Reboots(ShortTime) = {} /\ ~(Cardinality(Reboots(Day)) > Limit)
  BY DEF Escalate
<1>2. ShortTime \in Nat /\ Day \in Nat /\ Limit \in Nat
  BY TimesAssumption
<1>3. Len(boots) \in Nat /\ Len(followed) \in Nat /\ now \in Nat
  BY DEF ClockOK
<1>4. PICK g \in [1 .. Len(followed) -> 2 .. Len(boots)] :
         /\ \A i, j \in 1 .. Len(followed) : g[i] = g[j] => i = j
         /\ \A i \in 1 .. Len(followed) : boots[g[i]] = followed[i]
  BY DEF Told
<1>5. \A i \in 1 .. Len(followed) : followed[i] \in Nat
  BY DEF ClockOK
<1>6. \A i \in 1 .. Len(followed) : followed[i] + ShortTime < now
  <2>1. SUFFICES ASSUME NEW i \in 1 .. Len(followed), followed[i] + ShortTime >= now
                 PROVE  FALSE
    BY <1>2, <1>3, <1>5
  <2>2. g[i] \in 2 .. Len(boots) /\ boots[g[i]] = followed[i]
    BY <1>4
  <2>3. g[i] \in Reboots(ShortTime)
    BY <2>1, <2>2 DEF Reboots
  <2>. QED
    BY <2>3, <1>1
<1>7. Cardinality(Recent) <= Limit
  <2>. DEFINE h == [i \in Recent |-> g[i]]
  <2>1. IsFiniteSet(2 .. Len(boots))
    BY <1>3, FS_Interval
  <2>2. Reboots(Day) \subseteq 2 .. Len(boots)
    BY DEF Reboots
  <2>3. IsFiniteSet(Reboots(Day)) /\ Cardinality(Reboots(Day)) \in Nat
    BY <2>1, <2>2, FS_Subset, FS_CardinalityType
  <2>4. \A i \in Recent : g[i] \in Reboots(Day)
    BY <1>4 DEF Recent, Reboots
  <2>5. h \in [Recent -> Reboots(Day)]
    BY <2>4
  <2>6. \A i, j \in Recent : h[i] = h[j] => i = j
    BY <1>4 DEF Recent
  <2>7. h \in Injection(Recent, Reboots(Day))
    BY <2>5, <2>6 DEF Injection, IsInjective
  <2>8. Cardinality(Recent) <= Cardinality(Reboots(Day))
    BY <2>3, <2>7, FS_Injection
  <2>. QED
    BY <2>3, <2>8, <1>1, <1>2, RecentFinite
<1>. QED
  BY <1>6, <1>7 DEF MayReboot

(* Steps that leave the clock alone. *)
LEMMA SameClock ==
  ASSUME ClockOK, Told, RebootsSpaced, UNCHANGED clock
  PROVE  /\ ClockOK' /\ Told' /\ RebootsSpaced'
         /\ MayReboot' <=> MayReboot
<1>1. UNCHANGED <<now, boots, followed, rotated>>
  BY DEF clock
<1>2. ClockOK'
  BY <1>1 DEF ClockOK
<1>3. Told'
  BY <1>1 DEF Told
<1>4. RebootsSpaced'
  BY <1>1 DEF RebootsSpaced
<1>5. MayReboot' <=> MayReboot
  BY <1>1 DEF MayReboot, Recent
<1>. QED
  BY <1>2, <1>3, <1>4, <1>5

(* Steps that show nobody a message that was not shown before. *)
LEMMA NothingNew ==
  ASSUME RebootInv, UNCHANGED clock, ShapeOK',
         RebootAsked' /\ Readable' => RebootAsked /\ Readable,
         advice' = "Reboot" => advice = "Reboot" \/ (RebootAsked /\ Readable)
  PROVE  RebootInv'
<1>1. /\ ClockOK' /\ Told' /\ RebootsSpaced'
      /\ MayReboot' <=> MayReboot
  BY SameClock DEF RebootInv
<1>2. rotated' = rotated
  BY DEF clock
<1>3. AdviceOK'
  BY <1>1, <1>2 DEF RebootInv, AdviceOK
<1>. QED
  BY <1>1, <1>3 DEF RebootInv

-----------------------------------------------------------------------------
(* healthchecks.sh *)

(* A step of one run gives it a record and leaves the other alone. *)
LEMMA CallerSteps ==
  ASSUME ShapeOK, NEW c \in Callers, NEW u, IsCaller(u), caller' = [caller EXCEPT ![c] = u]
  PROVE  /\ caller' = [d \in Callers |-> caller'[d]]
         /\ \A d \in Callers : IsCaller(caller'[d])
         /\ \A d \in Callers : caller'[d] = IF d = c THEN u ELSE caller[d]
  BY DEF ShapeOK, IsCaller

LEMMA OnwardRecord ==
  ASSUME NEW at, NEW seen
  PROVE  IsCaller(Onward(at, seen)) /\ Onward(at, seen).seen = seen
  BY DEF Onward, IsCaller

LEMMA StartKeeps ==
  ASSUME RebootInv, NEW c \in Callers, Start(c)
  PROVE  RebootInv'
<1>. DEFINE to == IF log.fresh THEN "read" ELSE "open"
            u == [pc |-> to, at |-> caller[c].at, seen |-> caller[c].seen]
<1>1. ShapeOK /\ IsCaller(caller[c])
  BY DEF RebootInv, ShapeOK
<1>2. [caller[c] EXCEPT !.pc = to] = u
  BY <1>1 DEF IsCaller
<1>3. caller' = [caller EXCEPT ![c] = u]
  BY <1>2 DEF Start
<1>4. IsCaller(u) /\ u.pc = to
  BY DEF IsCaller
<1>. HIDE DEF u
<1>5. /\ caller' = [d \in Callers |-> caller'[d]]
      /\ \A d \in Callers : IsCaller(caller'[d])
      /\ \A d \in Callers : caller'[d] = IF d = c THEN u ELSE caller[d]
  BY <1>1, <1>3, <1>4, CallerSteps
<1>6. UNCHANGED <<log, advice, clock>>
  BY DEF Start
<1>7. ShapeOK'
  BY <1>1, <1>5, <1>6 DEF ShapeOK
<1>8. (Readable' => Readable) /\ (RebootAsked' <=> RebootAsked)
  BY <1>4, <1>5, <1>6 DEF Readable, RebootAsked
<1>. QED
  BY <1>6, <1>7, <1>8, NothingNew

LEMMA OpenKeeps ==
  ASSUME RebootInv, NEW c \in Callers, Open(c)
  PROVE  RebootInv'
<1>1. ShapeOK
  BY DEF RebootInv
<1>2. IsCaller(Onward(0, {})) /\ caller' = [caller EXCEPT ![c] = Onward(0, {})]
  BY OnwardRecord DEF Open
<1>3. /\ log' = [fresh |-> log'.fresh, mixed |-> log'.mixed, msgs |-> log'.msgs]
      /\ log'.msgs = {} /\ UNCHANGED <<advice, clock>>
  BY DEF Open
<1>4. ShapeOK' /\ ~RebootAsked'
  BY <1>1, <1>2, <1>3, CallerSteps DEF ShapeOK, RebootAsked
<1>. QED
  BY <1>3, <1>4, NothingNew

(* What a run writes may cost messages of the other, which is remembered. *)
LEMMA WritesLog ==
  ASSUME NEW c \in Callers, NEW mine, Writes(c, mine),
         log = [fresh |-> log.fresh, mixed |-> log.mixed, msgs |-> log.msgs]
  PROVE  /\ log' = [fresh |-> TRUE, mixed |-> log.mixed, msgs |-> log'.msgs]
         /\ log'.msgs \subseteq log.msgs \union mine /\ mine \subseteq log'.msgs
         /\ log.msgs \subseteq log'.msgs \/ lost'
         /\ lost => lost'
<1>1. PICK gone \in SUBSET {m \in log.msgs : m[1] # c} :
         /\ log' = [log EXCEPT !.fresh = TRUE, !.msgs = (@ \ gone) \union mine]
         /\ lost' = (lost \/ gone # {})
  BY DEF Writes
<1>2. /\ log'.msgs = (log.msgs \ gone) \union mine
      /\ log' = [fresh |-> TRUE, mixed |-> log.mixed, msgs |-> log'.msgs]
  BY <1>1
<1>. QED
  BY <1>1, <1>2

LEMMA RunSectionKeeps ==
  ASSUME RebootInv, NEW c \in Callers, RunSection(c)
  PROVE  RebootInv'
<1>1. ShapeOK /\ log = [fresh |-> log.fresh, mixed |-> log.mixed, msgs |-> log.msgs]
  BY DEF RebootInv, ShapeOK
<1>2. caller[c].pc = "check" /\ Writes(c, {}) /\ UNCHANGED <<advice, clock>>
  BY DEF RunSection
<1>3. PICK found : caller' = [caller EXCEPT ![c] = Onward(caller[c].at, caller[c].seen \union found)]
  BY DEF RunSection
<1>. DEFINE u == Onward(caller[c].at, caller[c].seen \union found)
<1>4. IsCaller(u) /\ caller' = [caller EXCEPT ![c] = u]
  BY <1>3, OnwardRecord
<1>. HIDE DEF u
<1>5. /\ log' = [fresh |-> TRUE, mixed |-> log.mixed, msgs |-> log'.msgs]
      /\ log'.msgs \subseteq log.msgs
  BY <1>1, <1>2, WritesLog
<1>6. ShapeOK'
  BY <1>1, <1>4, <1>5, CallerSteps DEF ShapeOK
<1>7. Readable /\ (RebootAsked' => RebootAsked)
  BY <1>2, <1>5 DEF Readable, RebootAsked
<1>. QED
  BY <1>2, <1>6, <1>7, NothingNew

(* A new message is an escalated one. *)
LEMMA ReportKeeps ==
  ASSUME RebootInv, NEW c \in Callers, Report(c)
  PROVE  RebootInv'
<1>. DEFINE u == [Off EXCEPT !.pc = "read"]
            new == Escalate(Summary(caller[c].seen))
<1>1. ShapeOK /\ ClockOK /\ Told /\ RebootsSpaced /\ AdviceOK
  BY DEF RebootInv
<1>2a. IsCaller(u)
  BY DEF Off, IsCaller
<1>2b. caller[c].pc = "report" /\ UNCHANGED <<advice, clock>> /\ caller' = [caller EXCEPT ![c] = u]
  BY Zenon DEF Report
<1>2. /\ caller[c].pc = "report" /\ UNCHANGED <<advice, clock>>
      /\ caller' = [caller EXCEPT ![c] = u] /\ IsCaller(u)
  BY <1>2a, <1>2b
<1>3. PICK mine : Writes(c, mine) /\ (mine = {} \/ mine = {<<c, new>>})
  BY DEF Report
<1>. HIDE DEF u, new
<1>4. /\ log' = [fresh |-> TRUE, mixed |-> log.mixed, msgs |-> log'.msgs]
      /\ log'.msgs \subseteq log.msgs \union mine
  BY <1>1, <1>3, WritesLog DEF ShapeOK
<1>5. ShapeOK'
  BY <1>1, <1>2, <1>4, CallerSteps DEF ShapeOK
<1>6. Readable /\ (RebootAsked' => RebootAsked \/ new = "Reboot")
  BY <1>2, <1>3, <1>4 DEF Readable, RebootAsked
<1>7. /\ ClockOK' /\ Told' /\ RebootsSpaced'
      /\ MayReboot' <=> MayReboot
  BY <1>1, <1>2, SameClock
<1>8. ASSUME ~rotated, new = "Reboot" PROVE MayReboot
  BY <1>1, <1>8, EscalateCounts DEF new
<1>9. rotated' = rotated
  BY <1>2 DEF clock
<1>10. AdviceOK'
  BY <1>1, <1>2, <1>6, <1>7, <1>8, <1>9 DEF AdviceOK
<1>. QED
  BY <1>5, <1>7, <1>10 DEF RebootInv

LEMMA DieKeeps ==
  ASSUME RebootInv, NEW c \in Callers, Die(c)
  PROVE  RebootInv'
<1>. DEFINE u == [Off EXCEPT !.pc = "read"]
<1>1. ShapeOK
  BY DEF RebootInv
<1>2. /\ caller[c].pc \in {"check", "report"} /\ Writes(c, {}) /\ UNCHANGED <<advice, clock>>
      /\ caller' = [caller EXCEPT ![c] = u] /\ IsCaller(u)
  BY DEF Die, Off, IsCaller
<1>. HIDE DEF u
<1>3. /\ log' = [fresh |-> TRUE, mixed |-> log.mixed, msgs |-> log'.msgs]
      /\ log'.msgs \subseteq log.msgs
  BY <1>1, <1>2, WritesLog DEF ShapeOK
<1>4. ShapeOK'
  BY <1>1, <1>2, <1>3, CallerSteps DEF ShapeOK
<1>5. Readable /\ (RebootAsked' => RebootAsked)
  BY <1>2, <1>3 DEF Readable, RebootAsked
<1>. QED
  BY <1>2, <1>4, <1>5, NothingNew

LEMMA ReadKeeps ==
  ASSUME RebootInv, NEW c \in Callers, Read(c)
  PROVE  RebootInv'
<1>1. ShapeOK
  BY DEF RebootInv
<1>2. /\ caller[c].pc = "read" /\ UNCHANGED <<log, clock>>
      /\ caller' = [caller EXCEPT ![c] = Off] /\ IsCaller(Off)
  BY DEF Read, Off, IsCaller
<1>3. ShapeOK'
  BY <1>1, <1>2, CallerSteps DEF ShapeOK
<1>4. Readable /\ (RebootAsked' => RebootAsked)
  BY <1>2 DEF Readable, RebootAsked
<1>5. advice' = advice \/ \E m \in log.msgs : advice' \in {m[2], NONE}
  BY DEF Read
<1>6. advice' = "Reboot" => advice = "Reboot" \/ RebootAsked
  BY <1>5, NoneAssumption DEF RebootAsked
<1>. QED
  BY <1>2, <1>3, <1>4, <1>6, NothingNew

-----------------------------------------------------------------------------
(* The node, the clock and the operator *)

(* Steps that leave the log, the two runs and the clock alone. *)
LEMMA QuietKeeps ==
  ASSUME RebootInv, UNCHANGED <<log, caller, clock>>, advice' = advice \/ advice' = NONE
  PROVE  RebootInv'
<1>0. NONE # "Reboot"
  BY NoneAssumption
<1>1. ShapeOK'
  BY DEF RebootInv, ShapeOK
<1>2. (Readable' <=> Readable) /\ (RebootAsked' <=> RebootAsked)
  BY DEF Readable, RebootAsked
<1>. QED
  BY <1>0, <1>1, <1>2, NothingNew

LEMMA AgeKeeps ==
  ASSUME RebootInv, Age
  PROVE  RebootInv'
<1>1. /\ log = [fresh |-> log.fresh, mixed |-> log.mixed, msgs |-> log.msgs] /\ log.fresh
      /\ log' = [log EXCEPT !.fresh = FALSE] /\ UNCHANGED <<caller, advice, clock>>
  BY DEF RebootInv, ShapeOK, Age
<1>2. ShapeOK' /\ log'.msgs = log.msgs
  BY <1>1 DEF RebootInv, ShapeOK
<1>3. Readable /\ (RebootAsked' <=> RebootAsked)
  BY <1>1, <1>2 DEF Readable, RebootAsked
<1>. QED
  BY <1>1, <1>2, <1>3, NothingNew

(* What is over for long enough stays so as time goes on. *)
LEMMA TickKeeps ==
  ASSUME RebootInv, Tick
  PROVE  RebootInv'
<1>1. ClockOK /\ Told /\ AdviceOK /\ RebootsSpaced /\ ShapeOK
  BY DEF RebootInv
<1>2. now' = now + 1 /\ UNCHANGED <<log, caller, advice, boots, followed, rotated>>
  BY DEF Tick, gate
<1>3. ClockOK'
  BY <1>1, <1>2 DEF ClockOK
<1>4. Told' /\ ShapeOK' /\ (Readable' <=> Readable) /\ (RebootAsked' <=> RebootAsked)
  BY <1>1, <1>2 DEF Told, ShapeOK, Readable, RebootAsked
<1>5. \A i \in 1 .. Len(followed) : followed[i] \in Nat
  BY <1>1 DEF ClockOK
<1>6. Recent' \subseteq Recent
  <2>1. SUFFICES ASSUME NEW i \in Recent' PROVE i \in Recent
    OBVIOUS
  <2>2. i \in 1 .. Len(followed) /\ followed[i] + Day >= now + 1
    BY <1>2, <2>1 DEF Recent
  <2>3. followed[i] \in Nat /\ now \in Nat /\ Day \in Nat
    BY <1>1, <1>5, <2>2, TimesAssumption DEF ClockOK
  <2>4. followed[i] + Day >= now
    BY ONLY <2>2, <2>3
  <2>. QED
    BY <2>2, <2>4 DEF Recent
<1>7. Cardinality(Recent') <= Cardinality(Recent)
  BY <1>1, <1>6, RecentFinite, FS_Subset
<1>8. Cardinality(Recent) \in Nat /\ Cardinality(Recent') \in Nat /\ Limit \in Nat
  BY <1>1, <1>6, RecentFinite, FS_Subset, FS_CardinalityType, TimesAssumption
<1>9. ASSUME MayReboot PROVE MayReboot'
  <2>1. \A i \in 1 .. Len(followed) : followed[i] + ShortTime < now
    BY <1>9 DEF MayReboot
  <2>2. now \in Nat /\ ShortTime \in Nat
    BY <1>1, TimesAssumption DEF ClockOK
  <2>3. \A i \in 1 .. Len(followed) : followed[i] + ShortTime < now + 1
    BY <1>5, <2>1, <2>2
  <2>. DEFINE m == Cardinality(Recent)  k == Cardinality(Recent')
  <2>4. k <= m /\ m \in Nat /\ k \in Nat /\ Limit \in Nat /\ m <= Limit
    BY <1>7, <1>8, <1>9 DEF MayReboot
  <2>. HIDE DEF m, k
  <2>5. k <= Limit
    BY <2>4
  <2>. QED
    BY <1>2, <2>3, <2>5 DEF MayReboot, k
<1>10. AdviceOK'
  BY <1>1, <1>2, <1>4, <1>9 DEF AdviceOK
<1>11. RebootsSpaced'
  BY <1>1, <1>2, <1>7, <1>8 DEF RebootsSpaced, Recent
<1>. QED
  BY <1>3, <1>4, <1>10, <1>11 DEF RebootInv

(* The shape of both runs being ended by a boot, and of one of them: no    *)
(* message can be read before the log has been emptied.                    *)
LEMMA BootHides ==
  ASSUME ShapeOK, Boot
  PROVE  ShapeOK' /\ ~Readable' /\ log'.msgs = log.msgs
<1>1. /\ log = [fresh |-> log.fresh, mixed |-> log.mixed, msgs |-> log.msgs]
      /\ log' = [log EXCEPT !.fresh = FALSE] /\ caller' = [c \in Callers |-> Off]
  BY DEF ShapeOK, Boot
<1>2. \A c \in Callers : caller'[c] = Off
  BY <1>1
<1>3. ShapeOK'
  BY <1>1, <1>2 DEF ShapeOK, IsCaller, Off
<1>4. ~log'.fresh /\ log'.msgs = log.msgs
  BY <1>1
<1>. QED
  BY <1>2, <1>3, <1>4 DEF Readable, Off

LEMMA PanicKeeps ==
  ASSUME RebootInv, Panic
  PROVE  RebootInv'
<1>1. ClockOK /\ Told /\ AdviceOK /\ RebootsSpaced /\ ShapeOK
  BY DEF RebootInv
<1>2. Boot /\ UNCHANGED <<advice, now, followed, rotated>>
  BY DEF Panic
<1>3. boots' = Append(boots, now)
  BY <1>2 DEF Boot
<1>4. ShapeOK' /\ ~Readable' /\ log'.msgs = log.msgs
  BY <1>1, <1>2, BootHides
<1>5. ClockOK'
  BY <1>1, <1>2, <1>3 DEF ClockOK
<1>6. Told'
  <2>1. SUFFICES ASSUME ~rotated
                 PROVE  \E g \in [1 .. Len(followed) -> 2 .. Len(boots')] :
                          /\ \A i, j \in 1 .. Len(followed) : g[i] = g[j] => i = j
                          /\ \A i \in 1 .. Len(followed) : boots'[g[i]] = followed[i]
    BY <1>2 DEF Told
  <2>2. PICK g \in [1 .. Len(followed) -> 2 .. Len(boots)] :
           /\ \A i, j \in 1 .. Len(followed) : g[i] = g[j] => i = j
           /\ \A i \in 1 .. Len(followed) : boots[g[i]] = followed[i]
    BY <1>1, <2>1 DEF Told
  <2>3. Len(boots') = Len(boots) + 1 /\ \A k \in 2 .. Len(boots) : boots'[k] = boots[k]
    BY <1>1, <1>3 DEF ClockOK
  <2>4. Len(boots) \in Nat
    BY <1>1 DEF ClockOK
  <2>5. g \in [1 .. Len(followed) -> 2 .. Len(boots')]
    BY <2>2, <2>3, <2>4
  <2>6. \A i \in 1 .. Len(followed) : boots'[g[i]] = followed[i]
    BY <2>2, <2>3
  <2>. QED
    BY <2>2, <2>5, <2>6
<1>7. AdviceOK' /\ RebootsSpaced'
  <2>1. MayReboot' <=> MayReboot
    BY <1>2 DEF MayReboot, Recent
  <2>. QED
    BY <1>1, <1>2, <1>4, <2>1 DEF AdviceOK, RebootsSpaced
<1>. QED
  BY <1>4, <1>5, <1>6, <1>7 DEF RebootInv

LEMMA RotateKeeps ==
  ASSUME RebootInv, Rotate
  PROVE  RebootInv'
<1>1. ClockOK /\ ShapeOK
  BY DEF RebootInv
<1>2. boots' = <<>> /\ rotated' = TRUE /\ UNCHANGED <<log, caller, now, followed>>
  BY DEF Rotate, gate
<1>3. ClockOK'
  BY <1>1, <1>2 DEF ClockOK
<1>4. ShapeOK'
  BY <1>1, <1>2 DEF ShapeOK
<1>5. Told' /\ AdviceOK' /\ RebootsSpaced'
  BY <1>2 DEF Told, AdviceOK, RebootsSpaced
<1>. QED
  BY <1>3, <1>4, <1>5 DEF RebootInv

(* The reboot that is followed is the next entry of wtmp, too. *)
LEMMA FollowTold ==
  ASSUME ClockOK, Told, boots' = Append(boots, now), followed' = Append(followed, now),
         rotated' = rotated
  PROVE  Told'
<1>1. SUFFICES ASSUME ~rotated
               PROVE  \E g \in [1 .. Len(followed') -> 2 .. Len(boots')] :
                        /\ \A i, j \in 1 .. Len(followed') : g[i] = g[j] => i = j
                        /\ \A i \in 1 .. Len(followed') : boots'[g[i]] = followed'[i]
  BY DEF Told
<1>2. PICK g \in [1 .. Len(followed) -> 2 .. Len(boots)] :
         /\ \A i, j \in 1 .. Len(followed) : g[i] = g[j] => i = j
         /\ \A i \in 1 .. Len(followed) : boots[g[i]] = followed[i]
  BY <1>1 DEF Told
<1>3. /\ Len(boots) \in Nat /\ Len(boots) >= 1 /\ Len(followed) \in Nat
      /\ Len(boots') = Len(boots) + 1 /\ Len(followed') = Len(followed) + 1
  BY <1>1 DEF ClockOK
<1>4. /\ \A k \in 1 .. Len(boots) : boots'[k] = boots[k]
      /\ \A i \in 1 .. Len(followed) : followed'[i] = followed[i]
      /\ boots'[Len(boots) + 1] = now /\ followed'[Len(followed) + 1] = now
  BY DEF ClockOK
<1>. DEFINE h == [i \in 1 .. Len(followed') |->
                    IF i = Len(followed) + 1 THEN Len(boots) + 1 ELSE g[i]]
<1>5. \A i \in 1 .. Len(followed) : h[i] = g[i] /\ g[i] \in 2 .. Len(boots)
  BY <1>2, <1>3
<1>6. h[Len(followed) + 1] = Len(boots) + 1
  BY <1>3
<1>7. \A i \in 1 .. Len(followed') : i \in 1 .. Len(followed) \/ i = Len(followed) + 1
  BY <1>3
<1>8. h \in [1 .. Len(followed') -> 2 .. Len(boots')]
  <2>1. ASSUME NEW i \in 1 .. Len(followed') PROVE h[i] \in 2 .. Len(boots')
    <3>1. CASE i \in 1 .. Len(followed)
      <4>1. h[i] \in 2 .. Len(boots)
        BY <1>5, <3>1
      <4>. HIDE DEF h
      <4>. QED
        BY <1>3, <4>1
    <3>2. CASE i = Len(followed) + 1
      <4>1. h[i] = Len(boots) + 1
        BY <1>6, <3>2
      <4>. HIDE DEF h
      <4>. QED
        BY <1>3, <4>1
    <3>. QED
      BY <1>7, <3>1, <3>2
  <2>. QED
    BY <2>1
<1>. HIDE DEF h
<1>9. \A i, j \in 1 .. Len(followed') : h[i] = h[j] => i = j
  BY <1>2, <1>3, <1>5, <1>6, <1>7
<1>10. \A i \in 1 .. Len(followed') : boots'[h[i]] = followed'[i]
  BY <1>2, <1>3, <1>4, <1>5, <1>6, <1>7
<1>. QED
  BY <1>8, <1>9, <1>10

LEMMA FollowRebootKeeps ==
  ASSUME RebootInv, FollowReboot
  PROVE  RebootInv'
<1>1. ClockOK /\ Told /\ AdviceOK /\ RebootsSpaced /\ ShapeOK
  BY DEF RebootInv
<1>2. /\ advice = "Reboot" /\ advice' = NONE /\ Boot
      /\ followed' = Append(followed, now) /\ UNCHANGED <<now, rotated>>
  BY DEF FollowReboot
<1>3. boots' = Append(boots, now)
  BY <1>2 DEF Boot
<1>4. ShapeOK' /\ ~Readable'
  BY <1>1, <1>2, BootHides
<1>5. /\ Len(followed) \in Nat /\ Len(followed') = Len(followed) + 1
      /\ \A i \in 1 .. Len(followed) : followed'[i] = followed[i] /\ followed[i] \in Nat
      /\ followed'[Len(followed) + 1] = now /\ now \in Nat
  BY <1>1, <1>2 DEF ClockOK
<1>6. ClockOK'
  <2>1. boots' \in Seq(Nat) /\ followed' \in Seq(Nat) /\ (~rotated' => Len(boots') >= 1)
    BY <1>1, <1>2, <1>3 DEF ClockOK
  <2>2. \A i \in 1 .. Len(followed') : followed'[i] <= now
    <3>1. \A i \in 1 .. Len(followed') : i \in 1 .. Len(followed) \/ i = Len(followed) + 1
      BY <1>5
    <3>2. \A i \in 1 .. Len(followed) : followed[i] <= now
      BY <1>1 DEF ClockOK
    <3>. QED
      BY <3>1, <3>2, <1>5
  <2>. QED
    BY <1>1, <1>2, <2>1, <2>2 DEF ClockOK
<1>7. Told'
  BY <1>1, <1>2, <1>3, FollowTold
<1>8. AdviceOK'
  BY <1>2, <1>4, NoneAssumption DEF AdviceOK
<1>9. ASSUME ~rotated PROVE RebootsSpaced'
  <2>1. MayReboot
    BY <1>1, <1>2, <1>9 DEF AdviceOK
  <2>2. \A i \in 1 .. Len(followed) - 1 : followed[i] + ShortTime < followed[i + 1]
    BY <1>1, <1>9 DEF RebootsSpaced
  <2>3. \A i \in 1 .. Len(followed') - 1 : followed'[i] + ShortTime < followed'[i + 1]
    <3>1. SUFFICES ASSUME NEW i \in 1 .. Len(followed)
                   PROVE  followed'[i] + ShortTime < followed'[i + 1]
      BY <1>5
    <3>2. CASE i = Len(followed)
      BY <1>5, <2>1, <3>2 DEF MayReboot
    <3>3. CASE i # Len(followed)
      <4>1. i \in 1 .. Len(followed) - 1 /\ i + 1 \in 1 .. Len(followed)
        BY <1>5, <3>3
      <4>. QED
        BY <1>5, <2>2, <4>1
    <3>. QED
      BY <3>2, <3>3
  <2>4. {i \in 1 .. Len(followed') : followed'[i] + Day >= now'}
          \subseteq Recent \union {Len(followed) + 1}
    BY <1>2, <1>5 DEF Recent
  <2>5. /\ IsFiniteSet(Recent \union {Len(followed) + 1})
        /\ Cardinality(Recent \union {Len(followed) + 1}) \in Nat
        /\ Cardinality(Recent \union {Len(followed) + 1}) <= Cardinality(Recent) + 1
    <3>1. IsFiniteSet(Recent) /\ Cardinality(Recent) \in Nat
      BY <1>1, RecentFinite
    <3>2. /\ IsFiniteSet(Recent \union {Len(followed) + 1})
          /\ Cardinality(Recent \union {Len(followed) + 1})
               = IF Len(followed) + 1 \in Recent THEN Cardinality(Recent)
                 ELSE Cardinality(Recent) + 1
      BY <3>1, FS_AddElement
    <3>. QED
      BY <3>1, <3>2
  <2>6. Cardinality({i \in 1 .. Len(followed') : followed'[i] + Day >= now'})
          <= Cardinality(Recent \union {Len(followed) + 1})
    BY <2>4, <2>5, FS_Subset
  <2>7. Cardinality({i \in 1 .. Len(followed') : followed'[i] + Day >= now'}) \in Nat
    BY <2>4, <2>5, FS_Subset, FS_CardinalityType
  <2>8. Cardinality(Recent) <= Limit /\ Cardinality(Recent) \in Nat /\ Limit \in Nat
    BY <1>1, <2>1, RecentFinite, TimesAssumption DEF MayReboot
  <2>9. Cardinality({i \in 1 .. Len(followed') : followed'[i] + Day >= now'}) <= Limit + 1
    BY <2>5, <2>6, <2>7, <2>8
  <2>. QED
    BY <2>3, <2>9 DEF RebootsSpaced
<1>10. RebootsSpaced'
  BY <1>2, <1>9 DEF RebootsSpaced
<1>. QED
  BY <1>4, <1>6, <1>7, <1>8, <1>10 DEF RebootInv

LEMMA FollowTerminateKeeps ==
  ASSUME RebootInv, FollowTerminate
  PROVE  RebootInv'
<1>1. caller' = [c \in Callers |-> Off] /\ UNCHANGED <<log, advice, clock>>
  BY DEF FollowTerminate
<1>2. \A c \in Callers : caller'[c] = Off
  BY <1>1
<1>3. ShapeOK'
  BY <1>1, <1>2 DEF RebootInv, ShapeOK, IsCaller, Off
<1>4. (Readable' => Readable) /\ (RebootAsked' <=> RebootAsked)
  BY <1>1, <1>2 DEF Readable, RebootAsked, Off
<1>. QED
  BY <1>1, <1>3, <1>4, NothingNew

-----------------------------------------------------------------------------
(* The theorem *)

LEMMA InitReboots == Init => RebootInv
<1> SUFFICES ASSUME Init PROVE RebootInv
  OBVIOUS
<1>1. /\ now = 0 /\ boots = <<0>> /\ followed = <<>> /\ rotated = FALSE /\ advice = NONE
      /\ log = [fresh |-> FALSE, mixed |-> FALSE, msgs |-> {}] /\ caller = [c \in Callers |-> Off]
  BY DEF Init
<1>2. ClockOK
  <2>1. boots \in Seq(Nat) /\ followed \in Seq(Nat) /\ Len(boots) = 1 /\ Len(followed) = 0
    BY <1>1
  <2>2. now \in Nat /\ rotated \in BOOLEAN
    BY <1>1
  <2>3. \A i \in 1 .. Len(followed) : followed[i] <= now
    BY <2>1
  <2>. QED
    BY <2>1, <2>2, <2>3 DEF ClockOK
<1>3. ShapeOK
  BY <1>1 DEF ShapeOK, IsCaller, Off
<1>4. Told
  <2>1. Len(followed) = 0 /\ 1 .. Len(followed) = {}
    BY <1>1
  <2>2. [i \in {} |-> 2] \in [{} -> 2 .. Len(boots)]
    OBVIOUS
  <2>. QED
    BY <2>1, <2>2 DEF Told
<1>5. AdviceOK
  BY <1>1, NoneAssumption DEF AdviceOK, RebootAsked
<1>6. RebootsSpaced
  <2>1. Len(followed) = 0
    BY <1>1
  <2>2. {i \in 1 .. Len(followed) : followed[i] + Day >= now} = {}
    BY <2>1
  <2>3. Cardinality({i \in 1 .. Len(followed) : followed[i] + Day >= now}) = 0
    BY <2>2, FS_EmptySet
  <2>. QED
    BY <2>1, <2>3, TimesAssumption DEF RebootsSpaced
<1>. QED
  BY <1>2, <1>3, <1>4, <1>5, <1>6 DEF RebootInv

LEMMA NextReboots ==
  ASSUME RebootInv, [Next]_vars
  PROVE  RebootInv'
<1>1. ASSUME NEW c \in Callers, Check(c) \/ Die(c) PROVE RebootInv'
  BY <1>1, StartKeeps, OpenKeeps, RunSectionKeeps, ReportKeeps, ReadKeeps, DieKeeps DEF Check
<1>2. CASE GiveJob \/ JobEnds \/ \E c \in Callers : NoShape(c)
  BY <1>2, QuietKeeps DEF GiveJob, JobEnds, NoShape
<1>3. ASSUME NEW x \in prone, Break(x) \/ Heal(x) PROVE RebootInv'
  BY <1>3, QuietKeeps DEF Break, Heal, gate
<1>4. CASE Resume
  BY <1>4, QuietKeeps DEF Resume
<1>5. CASE UNCHANGED vars
  BY <1>5, QuietKeeps DEF vars, gate
<1>. QED
  BY <1>1, <1>2, <1>3, <1>4, <1>5, AgeKeeps, TickKeeps, PanicKeeps, RotateKeeps,
     FollowRebootKeeps, FollowTerminateKeeps DEF Next

(* Following what check_gpu_setup.py recommends never reboots a node twice *)
(* in two hours, nor more than Limit + 1 times a day, unless wtmp has been *)
(* rotated: for any symptoms, checks, panics and delays.                   *)
THEOREM NoRebootLoop == Spec => []RebootsSpaced
<1>1. Init => RebootInv
  BY InitReboots
<1>2. RebootInv /\ [Next]_vars => RebootInv'
  BY NextReboots
<1>3. RebootInv => RebootsSpaced
  BY DEF RebootInv
<1>. QED
  BY <1>1, <1>2, <1>3, PTL DEF Spec

-----------------------------------------------------------------------------
(* The summary *)

LEMMA RuleNumbers == DOMAIN Rules = 1 .. 16
  BY DEF Rules

LEMMA RuleActions == \A i \in 1 .. 16 : Rules[i].action \in Actions
<1>1. /\ Rules[1].action = NONE /\ Rules[2].action = NONE /\ Rules[3].action = NONE
      /\ Rules[4].action = NONE /\ Rules[5].action = "Reboot" /\ Rules[6].action = NONE
      /\ Rules[7].action = "Reboot" /\ Rules[8].action = "Terminate"
  BY DEF Rules, Rule
<1>2. /\ Rules[9].action = "Terminate" /\ Rules[10].action = "Terminate" /\ Rules[11].action = NONE
      /\ Rules[12].action = NONE /\ Rules[13].action = NONE /\ Rules[14].action = "Reboot"
      /\ Rules[15].action = "FabricManagerRestart" /\ Rules[16].action = "Terminate"
  BY DEF Rules, Rule
<1>3. \A i \in 1 .. 16 : \/ i \in {1, 2, 3, 4} \/ i \in {5, 6, 7, 8}
                         \/ i \in {9, 10, 11, 12} \/ i \in {13, 14, 15, 16}
  OBVIOUS
<1>. QED
  BY <1>1, <1>2, <1>3, Zenon DEF Actions

LEMMA TerminateRules ==
  /\ Rules[8].on = {"narrow"} /\ Rules[8].reason = "GPU PCIe Width Error"
  /\ Rules[9].on = {"fallen"} /\ Rules[9].reason = "GPU Bus Error"
  /\ Rules[10].on = {"inactive", "bad_signal"} /\ Rules[10].reason = "RDMA Link Error"
  /\ Rules[16].on = {"powersave"} /\ Rules[16].reason = "CPU Profile error"
  /\ \A i \in {8, 9, 10, 16} : Rules[i].action = "Terminate"
<1>1. /\ Rules[8].on = {"narrow"} /\ Rules[8].reason = "GPU PCIe Width Error"
      /\ Rules[9].on = {"fallen"} /\ Rules[9].reason = "GPU Bus Error"
  BY DEF Rules, Rule
<1>2. /\ Rules[10].on = {"inactive", "bad_signal"} /\ Rules[10].reason = "RDMA Link Error"
      /\ Rules[16].on = {"powersave"} /\ Rules[16].reason = "CPU Profile error"
  BY DEF Rules, Rule
<1>3. /\ Rules[8].action = "Terminate" /\ Rules[9].action = "Terminate"
      /\ Rules[10].action = "Terminate" /\ Rules[16].action = "Terminate"
  BY DEF Rules, Rule
<1>. QED
  BY <1>1, <1>2, <1>3

LEMMA ActionType ==
  ASSUME NEW seen, NEW i \in 1 .. 16
  PROVE  Action(Rules[i], seen) \in Actions
<1>1. RowRemapAction(seen) \in Actions
  BY Zenon DEF RowRemapAction, Actions
<1>. QED
  BY <1>1, RuleActions DEF Action

LEMMA RecommendedType ==
  ASSUME NEW current \in Actions, NEW action \in Actions
  PROVE  /\ RecommendedAction(current, action) \in Actions
         /\ action = "Terminate" => RecommendedAction(current, action) = "Terminate"
         /\ current = "Terminate" => RecommendedAction(current, action) = "Terminate"
  BY NoneAssumption DEF RecommendedAction, Actions

LEMMA FinalRaises ==
  ASSUME NEW seen, Present(seen, Final) # {}
  PROVE  \E i \in Reasons(seen) : Action(Rules[i], seen) = "Terminate"
<1>1. PICK x \in seen : x[1] \in Final
  BY DEF Present
<1>2. ASSUME NEW i \in {8, 9, 10, 16}, x[1] \in Rules[i].on
      PROVE  i \in Reasons(seen) /\ Action(Rules[i], seen) = "Terminate"
  <2>1. i \in DOMAIN Rules
    BY RuleNumbers
  <2>2. Raised(Rules[i], seen)
    BY <1>2 DEF Raised, Present
  <2>3. Rules[i].action = "Terminate" /\ Rules[i].reason # "Remap Error"
    BY TerminateRules
  <2>. QED
    BY <2>1, <2>2, <2>3 DEF Reasons, Action
<1>3. \/ x[1] \in Rules[8].on \/ x[1] \in Rules[9].on
      \/ x[1] \in Rules[10].on \/ x[1] \in Rules[16].on
  <2>1. /\ Rules[8].on = {"narrow"} /\ Rules[9].on = {"fallen"}
        /\ Rules[10].on = {"inactive", "bad_signal"} /\ Rules[16].on = {"powersave"}
    BY TerminateRules
  <2>2. x[1] \in {"narrow", "fallen", "inactive", "bad_signal", "powersave"}
    BY <1>1 DEF Final
  <2>. QED
    BY <2>1, <2>2
<1>. QED
  BY <1>2, <1>3

(* The summary is the fold of the actions that are raised, in their order. *)
LEMMA SummaryFold ==
  ASSUME NEW seen, NEW S, S = Reasons(seen)
  PROVE  \E g, c, h :
            /\ IsFiniteSet(S) /\ S \subseteq 1 .. 16 /\ Takes(c, S)
            /\ h = [p \in S \X Actions |-> RecommendedAction(p[2], Action(Rules[p[1]], seen))]
            /\ IsFold(g, S, Actions, NONE, c, h)
            /\ Summary(seen) = g[S]
<1>. DEFINE IsSummary(k) ==
              k = [s \in SUBSET S |->
                     IF s = {} THEN NONE
                     ELSE RecommendedAction(k[s \ {Max(s)}], Action(Rules[Max(s)], seen))]
<1>1. S \subseteq 1 .. 16 /\ IsFiniteSet(S) /\ S \in SUBSET S
  <2>1. S \subseteq 1 .. 16
    BY RuleNumbers DEF Reasons
  <2>2. IsFiniteSet(1 .. 16)
    <3>1. \A b \in Int : IsFiniteSet(1 .. b)
      BY FS_Interval
    <3>2. 16 \in Int
      OBVIOUS
    <3>. QED
      BY ONLY <3>1, <3>2
  <2>. QED
    BY <2>1, <2>2, FS_Subset
<1>2. PICK c : c = [s \in SUBSET S |-> Max(s)]
  OBVIOUS
<1>3. \A s \in SUBSET S : s # {} => Max(s) \in s /\ c[s] = Max(s) /\ s \ {Max(s)} \in SUBSET S
  <2>1. \A s \in SUBSET S : s \in SUBSET (1 .. 16)
    BY <1>1
  <2>. QED
    BY <1>2, <2>1, LargestIndex
<1>4. Takes(c, S)
  BY <1>2, <1>3 DEF Takes
<1>5. PICK h : h = [p \in S \X Actions |-> RecommendedAction(p[2], Action(Rules[p[1]], seen))]
  OBVIOUS
<1>6. h \in [S \X Actions -> Actions]
  <2>1. ASSUME NEW p \in S \X Actions
        PROVE  RecommendedAction(p[2], Action(Rules[p[1]], seen)) \in Actions
    <3>1. p[1] \in 1 .. 16 /\ p[2] \in Actions
      BY <1>1
    <3>2. Action(Rules[p[1]], seen) \in Actions
      BY <3>1, ActionType
    <3>. QED
      BY <3>1, <3>2, RecommendedType
  <2>. QED
    BY <1>5, <2>1
<1>7. NONE \in Actions
  BY DEF Actions
<1>8. PICK g : IsFold(g, S, Actions, NONE, c, h)
  BY <1>1, <1>4, <1>6, <1>7, FoldExists
<1>9. ASSUME NEW s \in SUBSET S, s # {}, NEW k, k[s \ {Max(s)}] \in Actions
      PROVE  h[<<c[s], k[s \ {c[s]}]>>] = RecommendedAction(k[s \ {Max(s)}], Action(Rules[Max(s)], seen))
  <2>1. <<Max(s), k[s \ {Max(s)}]>> \in S \X Actions
    BY <1>3, <1>9
  <2>. QED
    BY <1>3, <1>5, <1>9, <2>1
<1>10. IsSummary(g)
  <2>1. ASSUME NEW s \in SUBSET S
        PROVE  g[s] = IF s = {} THEN NONE
                      ELSE RecommendedAction(g[s \ {Max(s)}], Action(Rules[Max(s)], seen))
    <3>1. CASE s = {}
      BY <1>8, <3>1 DEF IsFold
    <3>2. CASE s # {}
      <4>1. g[s \ {Max(s)}] \in Actions
        BY <1>3, <1>8, <3>2 DEF IsFold
      <4>2. g[s] = h[<<c[s], g[s \ {c[s]}]>>]
        BY <1>8, <3>2 DEF IsFold
      <4>. QED
        BY <1>9, <3>2, <4>1, <4>2
    <3>. QED
      BY <3>1, <3>2
  <2>2. g = [s \in SUBSET S |-> g[s]]
    BY <1>8 DEF IsFold
  <2>. QED
    BY <2>1, <2>2, Zenon
<1>11. PICK k : k = CHOOSE x : IsSummary(x)
  OBVIOUS
<1>12. IsSummary(k)
  BY <1>10, <1>11
<1>13. Summary(seen) = k[S]
  BY <1>11 DEF Summary, MapThenFoldSet
<1>14. Obeys(k, S, Actions, NONE, c, h)
  <2>1. k[{}] = NONE
    BY <1>12
  <2>2. ASSUME NEW s \in SUBSET S, s # {}, k[s \ {c[s]}] \in Actions
        PROVE  k[s] = h[<<c[s], k[s \ {c[s]}]>>]
    <3>1. k[s] = RecommendedAction(k[s \ {Max(s)}], Action(Rules[Max(s)], seen))
      BY <1>12, <2>2
    <3>2. k[s \ {Max(s)}] \in Actions
      BY <1>3, <2>2
    <3>. QED
      BY <1>9, <2>2, <3>1, <3>2
  <2>. QED
    BY <2>1, <2>2 DEF Obeys
<1>15. k[S] = g[S]
  BY <1>1, <1>4, <1>8, <1>14, FoldUnique
<1>. QED
  BY <1>1, <1>4, <1>5, <1>8, <1>13, <1>15

(* The summary recommends an action, and nothing but a termination if one  *)
(* of the findings calls for it.                                           *)
LEMMA SummaryIsFinal ==
  ASSUME NEW seen
  PROVE  /\ Summary(seen) \in Actions
         /\ Present(seen, Final) # {} => Summary(seen) = "Terminate"
<1>1. PICK S : S = Reasons(seen)
  OBVIOUS
<1>2. PICK g, c, h :
            /\ IsFiniteSet(S) /\ S \subseteq 1 .. 16 /\ Takes(c, S)
            /\ h = [p \in S \X Actions |-> RecommendedAction(p[2], Action(Rules[p[1]], seen))]
            /\ IsFold(g, S, Actions, NONE, c, h)
            /\ Summary(seen) = g[S]
  BY <1>1, SummaryFold
<1>3. \A s \in SUBSET S : g[s] \in Actions
  BY <1>2 DEF IsFold
<1>. DEFINE T == {s \in SUBSET S : /\ \E i \in s : Action(Rules[i], seen) = "Terminate"
                                   /\ g[s] # "Terminate"}
<1>4. T = {}
  <2>1. SUFFICES ASSUME T # {} PROVE FALSE
    OBVIOUS
  <2>2. T \subseteq SUBSET S
    OBVIOUS
  <2>. HIDE DEF T
  <2>0. IsFiniteSet(S)
    BY <1>2
  <2>3. PICK s \in T : \A u \in T : u \subseteq s => u = s
    BY ONLY <2>0, <2>1, <2>2, SmallestSubset
  <2>4. /\ s \in SUBSET S /\ g[s] # "Terminate"
        /\ \E i \in s : Action(Rules[i], seen) = "Terminate"
    BY DEF T
  <2>5. PICK m, r : m = c[s] /\ r = s \ {m}
    OBVIOUS
  <2>6. m \in s /\ r \in SUBSET S /\ s # {} /\ r # s
    BY <1>2, <2>4, <2>5 DEF Takes
  <2>7. g[s] = h[<<m, g[r]>>]
    BY <1>2, <2>4, <2>5, <2>6 DEF IsFold
  <2>8. g[r] \in Actions /\ m \in S /\ m \in 1 .. 16
    BY <1>2, <1>3, <2>4, <2>6
  <2>9. h[<<m, g[r]>>] = RecommendedAction(g[r], Action(Rules[m], seen))
    BY <1>2, <2>8
  <2>10. Action(Rules[m], seen) \in Actions
    BY <2>8, ActionType
  <2>11. CASE Action(Rules[m], seen) = "Terminate"
    BY <2>4, <2>7, <2>8, <2>9, <2>10, <2>11, RecommendedType
  <2>12. CASE Action(Rules[m], seen) # "Terminate"
    <3>1. \E i \in r : Action(Rules[i], seen) = "Terminate"
      BY <2>4, <2>5, <2>12
    <3>2. r \notin T
      BY <2>3, <2>5, <2>6
    <3>3. g[r] = "Terminate"
      BY <2>6, <3>1, <3>2 DEF T
    <3>. QED
      BY <2>4, <2>7, <2>8, <2>9, <2>10, <3>3, RecommendedType
  <2>. QED
    BY <2>11, <2>12
<1>5. ASSUME Present(seen, Final) # {} PROVE Summary(seen) = "Terminate"
  <2>1. \E i \in S : Action(Rules[i], seen) = "Terminate"
    BY <1>1, <1>5, FinalRaises
  <2>2. S \in SUBSET S /\ S \notin T
    BY <1>4
  <2>. QED
    BY <1>2, <2>1, <2>2
<1>. QED
  BY <1>2, <1>3, <1>5

LEMMA EscalateType ==
  ASSUME NEW action \in Actions
  PROVE  Escalate(action) \in Actions /\ (action = "Terminate" => Escalate(action) = "Terminate")
  BY NoneAssumption DEF Escalate, Actions

(* When a check has seen what calls for a termination, no later finding    *)
(* turns its recommendation into a lesser one, for any symptoms.           *)
THEOREM TerminationIsFinal == Spec => []TerminateIsFinal
<1>1. TerminateIsFinal
  <2>1. "Terminate" \in Actions
    BY DEF Actions
  <2>. QED
    BY <2>1, SummaryIsFinal, EscalateType DEF TerminateIsFinal
<1>. QED
  BY <1>1, PTL

-----------------------------------------------------------------------------
(* The checks *)

Names == {"oca", "oca_ver", "rttcc", "ecc", "rows", "count", "pcie", "bus", "rdma", "flap",
          "xid", "wpa", "fabric", "cpu"}

LEMMA SectionNames ==
  /\ DOMAIN AllSections = 1 .. 14 /\ Len(AllSections) = 14
  /\ \A i \in 1 .. 14 : AllSections[i] \in Names
<1>1. DOMAIN AllSections = 1 .. 14 /\ Len(AllSections) = 14
  BY DEF AllSections
<1>2. /\ AllSections[1] = "oca" /\ AllSections[2] = "oca_ver" /\ AllSections[3] = "rttcc"
      /\ AllSections[4] = "ecc" /\ AllSections[5] = "rows" /\ AllSections[6] = "count"
      /\ AllSections[7] = "pcie" /\ AllSections[8] = "bus" /\ AllSections[9] = "rdma"
      /\ AllSections[10] = "flap" /\ AllSections[11] = "xid" /\ AllSections[12] = "wpa"
      /\ AllSections[13] = "fabric" /\ AllSections[14] = "cpu"
  BY DEF AllSections
<1>3. \A i \in 1 .. 14 : \/ i \in {1, 2, 3, 4} \/ i \in {5, 6, 7, 8}
                         \/ i \in {9, 10, 11, 12} \/ i \in {13, 14}
  OBVIOUS
<1>. QED
  BY <1>1, <1>2, <1>3, Zenon DEF Names

LEMMA SmallestIn ==
  ASSUME NEW S, S \subseteq Nat, S # {}
  PROVE  Min(S) \in S /\ \A y \in S : Min(S) <= y
<1>1. \E x \in S : \A y \in S : x <= y
  BY SmallestNumber
<1>. QED
  BY <1>1, Zenon DEF Min

LEMMA SeesType ==
  ASSUME NEW s \in Names, NEW h \in SUBSET Symptom
  PROVE  Sees(s, h) \subseteq Symptom
<1>1. Min(Devices) \in Devices
  BY DevicesAssumption, SmallestIn
<1>2. <<"oca_first", Min(Devices)>> \in Symptom /\ <<"narrow", Min(Devices)>> \in Symptom
  BY <1>1 DEF Symptom, Wrong
<1>3. \A W : Present(h, W) \subseteq Symptom
  BY DEF Present
<1>4. OcaFirst(h) \subseteq Symptom /\ GpuPcie(h) \subseteq Symptom
  BY <1>2, <1>3 DEF OcaFirst, GpuPcie
<1>5. /\ OcaVersion(h) \subseteq Symptom /\ RttccStatus(h) \subseteq Symptom
      /\ EccErrors(h) \subseteq Symptom /\ RowRemapErrors(h) \subseteq Symptom
      /\ GpuCount(h) \subseteq Symptom /\ CheckBus(h) \subseteq Symptom
      /\ RdmaLinkStatus(h) \subseteq Symptom /\ LinkFlapping(h) \subseteq Symptom
  BY <1>3 DEF OcaVersion, RttccStatus, EccErrors, RowRemapErrors, GpuCount, CheckBus,
     RdmaLinkStatus, LinkFlapping
<1>6. /\ GpuXid(h) \subseteq Symptom /\ WpaAuth(h) \subseteq Symptom
      /\ FabricManager(h) \subseteq Symptom /\ CpuProfile(h) \subseteq Symptom
  BY <1>3 DEF GpuXid, WpaAuth, FabricManager, CpuProfile
<1>. QED
  BY <1>4, <1>5, <1>6, Zenon DEF Sees, Names

LEMMA DefaultType ==
  ASSUME NEW s
  PROVE  \A found \in Default(s) : found \subseteq Symptom
<1>1. Min(Devices) \in Devices
  BY DevicesAssumption, SmallestIn
<1>. QED
  BY <1>1 DEF Default, Symptom, Wrong

(* A symptom that a rule is about. *)
Raises(x) == \E i \in DOMAIN Rules : x[1] \in Rules[i].on

LEMMA ReasonsRaised ==
  ASSUME NEW seen
  PROVE  Reasons(seen) # {} <=> \E x \in seen : Raises(x)
  BY DEF Reasons, Raised, Present, Raises

LEMMA SomeRaise == \A x : x[1] \in {"oca", "narrow"} => Raises(x)
<1>1. 2 \in DOMAIN Rules /\ 8 \in DOMAIN Rules
  BY RuleNumbers
<1>2. Rules[2].on = {"oca"} /\ Rules[8].on = {"narrow"}
  BY DEF Rules, Rule
<1>. QED
  BY <1>1, <1>2 DEF Raises

(* A worse node has no fewer errors, though not always the same. *)
LEMMA SeesMore ==
  ASSUME NEW s \in Names, NEW h, NEW k, h \subseteq k, Reasons(Sees(s, h)) # {}
  PROVE  Reasons(Sees(s, k)) # {}
<1>1. PICK x \in Sees(s, h) : Raises(x)
  BY ReasonsRaised
<1>2. SUFFICES \E y \in Sees(s, k) : Raises(y)
  BY ReasonsRaised
<1>3. \A W : Present(h, W) \subseteq Present(k, W)
  BY DEF Present
<1>4. CASE s = "oca"
  <2>1. Sees(s, h) = OcaFirst(h) /\ Sees(s, k) = OcaFirst(k)
    BY <1>4 DEF Sees
  <2>2. OcaFirst(h) \subseteq OcaFirst(k)
    BY <1>3 DEF OcaFirst, OcaStatus
  <2>. QED
    BY <1>1, <2>1, <2>2
<1>5. CASE s = "rttcc"
  <2>1. Sees(s, h) = RttccStatus(h) /\ Sees(s, k) = RttccStatus(k)
    BY <1>5 DEF Sees
  <2>2. CASE Present(k, {"oca"}) = {}
    <3>1. Present(h, {"oca"}) = {}
      BY <1>3, <2>2
    <3>2. RttccStatus(h) \subseteq RttccStatus(k)
      BY <1>3, <2>2, <3>1 DEF RttccStatus, OcaStatus
    <3>. QED
      BY <1>1, <2>1, <3>2
  <2>3. CASE Present(k, {"oca"}) # {}
    <3>1. PICK y \in Present(k, {"oca"}) : y[1] = "oca"
      BY <2>3 DEF Present
    <3>2. y \in RttccStatus(k)
      BY <2>3 DEF RttccStatus, OcaStatus
    <3>. QED
      BY <2>1, <3>1, <3>2, SomeRaise
  <2>. QED
    BY <2>2, <2>3
<1>6. CASE s = "pcie"
  <2>1. Sees(s, h) = GpuPcie(h) /\ Sees(s, k) = GpuPcie(k)
    BY <1>6 DEF Sees
  <2>2. CASE \A d \in Devices : <<"missing", d>> \in k
    <3>1. PICK y : y = <<"narrow", Min(Devices)>>
      OBVIOUS
    <3>2. y \in GpuPcie(k) /\ y[1] = "narrow"
      BY <2>2, <3>1 DEF GpuPcie
    <3>. QED
      BY <2>1, <3>2, SomeRaise
  <2>3. CASE ~ \A d \in Devices : <<"missing", d>> \in k
    <3>1. GpuPcie(h) \subseteq GpuPcie(k)
      BY <1>3, <2>3 DEF GpuPcie
    <3>. QED
      BY <1>1, <2>1, <3>1
  <2>. QED
    BY <2>2, <2>3
<1>7. CASE s = "xid"
  <2>1. Sees(s, h) = GpuXid(h) /\ Sees(s, k) = GpuXid(k)
    BY <1>7 DEF Sees
  <2>2. GpuXid(h) \subseteq GpuXid(k)
    BY <1>3 DEF GpuXid
  <2>. QED
    BY <1>1, <2>1, <2>2
<1>8. CASE s \in Names \ {"oca", "rttcc", "pcie", "xid"}
  <2>1. /\ OcaVersion(h) \subseteq OcaVersion(k) /\ EccErrors(h) \subseteq EccErrors(k)
        /\ RowRemapErrors(h) \subseteq RowRemapErrors(k) /\ GpuCount(h) \subseteq GpuCount(k)
        /\ CheckBus(h) \subseteq CheckBus(k)
    BY <1>3 DEF OcaVersion, EccErrors, RowRemapErrors, GpuCount, CheckBus
  <2>2. /\ RdmaLinkStatus(h) \subseteq RdmaLinkStatus(k) /\ LinkFlapping(h) \subseteq LinkFlapping(k)
        /\ WpaAuth(h) \subseteq WpaAuth(k) /\ FabricManager(h) \subseteq FabricManager(k)
        /\ CpuProfile(h) \subseteq CpuProfile(k)
    BY <1>3 DEF RdmaLinkStatus, LinkFlapping, WpaAuth, FabricManager, CpuProfile
  <2>3. Sees(s, h) \subseteq Sees(s, k)
    BY <1>8, <2>1, <2>2, Zenon DEF Sees, Names
  <2>. QED
    BY <1>1, <2>3
<1>. QED
  BY <1>4, <1>5, <1>6, <1>7, <1>8

-----------------------------------------------------------------------------
(* Types *)

GateTypes ==
    /\ TypeOK
    /\ \A c \in Callers : caller[c].pc = "check" => caller[c].at \in Sections[prone]

(* The next section is the first one of those that follow. *)
LEMMA OnwardType ==
  ASSUME prone \in Cases, NEW at \in 0 .. 14, NEW seen \in SUBSET Symptom, NEW u, u = Onward(at, seen)
  PROVE  /\ u \in CallerRec /\ u.seen = seen /\ u.pc \in {"check", "report"}
         /\ u.pc = "check" => u.at \in Sections[prone]
         /\ \A i \in Sections[prone] : i > at => u.pc = "check" /\ i >= u.at
<1>. DEFINE later == {i \in Sections[prone] : i > at}
<1>1. Sections[prone] \subseteq 1 .. 14
  BY SectionNames DEF Sections
<1>2. /\ u.pc = (IF later = {} THEN "report" ELSE "check")
      /\ u.at = (IF later = {} THEN 0 ELSE Min(later)) /\ u.seen = seen
      /\ u = [pc |-> u.pc, at |-> u.at, seen |-> u.seen]
  BY DEF Onward
<1>3. later \subseteq Sections[prone] /\ later \subseteq Nat
  BY <1>1
<1>4. \A i \in Sections[prone] : i > at => i \in later
  OBVIOUS
<1>. HIDE DEF later
<1>5. later # {} => Min(later) \in later /\ \A i \in later : Min(later) <= i
  BY <1>3, SmallestIn
<1>6. u.at \in 0 .. 14
  BY <1>1, <1>2, <1>3, <1>5
<1>7. u.pc \in {"check", "report"} /\ u.pc \in PCs
  BY <1>2 DEF PCs
<1>8. u \in CallerRec
  BY <1>2, <1>6, <1>7, SectionNames DEF CallerRec
<1>9. ASSUME NEW i \in Sections[prone], i > at PROVE u.pc = "check" /\ i >= u.at
  <2>1. i \in later
    BY <1>4, <1>9
  <2>2. u.pc = "check" /\ u.at = Min(later) /\ Min(later) <= i
    BY <1>2, <1>5, <2>1
  <2>3. i \in Nat /\ Min(later) \in Nat
    BY <1>1, <1>3, <1>5, <2>1
  <2>. QED
    BY <2>2, <2>3
<1>10. u.pc = "check" => u.at \in Sections[prone]
  BY <1>2, <1>3, <1>5
<1>. QED
  BY <1>2, <1>7, <1>8, <1>9, <1>10

LEMMA OffType == Off \in CallerRec /\ Off.pc = "off" /\ [Off EXCEPT !.pc = "read"] \in CallerRec
                 /\ [Off EXCEPT !.pc = "read"].pc = "read"
  BY SectionNames DEF Off, CallerRec, PCs

(* A run becomes a record. *)
LEMMA CallerTypes ==
  ASSUME caller \in [Callers -> CallerRec], NEW c \in Callers, NEW u \in CallerRec,
         caller' = [caller EXCEPT ![c] = u]
  PROVE  /\ caller' \in [Callers -> CallerRec]
         /\ \A d \in Callers : caller'[d] = IF d = c THEN u ELSE caller[d]
  OBVIOUS


LogRec == [fresh : BOOLEAN, mixed : BOOLEAN, msgs : SUBSET (Callers \X Actions)]

LEMMA RunTypes ==
  ASSUME GateTypes, NEW c \in Callers, NEW u \in CallerRec, caller' = [caller EXCEPT ![c] = u],
         u.pc = "check" => u.at \in Sections[prone],
         UNCHANGED <<prone, clock>>, log' \in LogRec, lost' \in BOOLEAN,
         job' \in {"none", "prolog", "running", "gone"}, drained' \in BOOLEAN, advice' \in Actions,
         hw' \subseteq Symptom, due' \subseteq Symptom, trouble' \in BOOLEAN, faults' \in Nat
  PROVE  GateTypes'
<1>1. /\ caller' \in [Callers -> CallerRec]
      /\ \A d \in Callers : caller'[d] = IF d = c THEN u ELSE caller[d]
  BY CallerTypes DEF GateTypes, TypeOK
<1>2. TypeOK'
  BY <1>1 DEF GateTypes, TypeOK, clock, LogRec
<1>3. \A d \in Callers : caller'[d].pc = "check" => caller'[d].at \in (Sections[prone])'
  BY <1>1 DEF GateTypes
<1>. QED
  BY <1>2, <1>3 DEF GateTypes

LEMMA WritesTypes ==
  ASSUME TypeOK, NEW c \in Callers, NEW mine \in SUBSET (Callers \X Actions), Writes(c, mine)
  PROVE  log' \in LogRec /\ lost' \in BOOLEAN
<1>1. log = [fresh |-> log.fresh, mixed |-> log.mixed, msgs |-> log.msgs]
      /\ log.mixed \in BOOLEAN /\ log.msgs \in SUBSET (Callers \X Actions)
  BY DEF TypeOK
<1>2. /\ log' = [fresh |-> TRUE, mixed |-> log.mixed, msgs |-> log'.msgs]
      /\ log'.msgs \subseteq log.msgs \union mine
  BY <1>1, WritesLog
<1>3. log'.msgs \in SUBSET (Callers \X Actions)
  BY <1>1, <1>2
<1>4. log' \in LogRec
  <2>1. PICK m : m = log'.msgs
    OBVIOUS
  <2>2. [fresh |-> TRUE, mixed |-> log.mixed, msgs |-> m] \in LogRec
    BY <1>1, <1>3, <2>1 DEF LogRec
  <2>. QED
    BY <1>2, <2>1, <2>2
<1>5. lost' \in BOOLEAN
  BY Zenon DEF Writes, TypeOK
<1>. QED
  BY <1>4, <1>5

LEMMA FaultType ==
  ASSUME NEW failed \in BOOLEAN, Fault(failed), faults \in Nat
  PROVE  faults' \in Nat
  BY DEF Fault

LEMMA StartTypes ==
  ASSUME GateTypes, NEW c \in Callers, Start(c)
  PROVE  GateTypes'
<1>. DEFINE to == IF log.fresh THEN "read" ELSE "open"
            u == [caller[c] EXCEPT !.pc = to]
<1>1. TypeOK /\ caller[c] \in CallerRec
  BY DEF GateTypes, TypeOK
<1>2. u \in CallerRec /\ u.pc # "check"
  BY <1>1 DEF CallerRec, PCs
<1>3. caller' = [caller EXCEPT ![c] = u]
  BY DEF Start
<1>4. UNCHANGED <<prone, hw, log, job, drained, advice, clock, due, trouble, lost, faults>>
  BY DEF Start
<1>. HIDE DEF u
<1>. QED
  BY <1>1, <1>2, <1>3, <1>4, RunTypes DEF TypeOK, LogRec

LEMMA OpenTypes ==
  ASSUME GateTypes, NEW c \in Callers, Open(c)
  PROVE  GateTypes'
<1>1. TypeOK
  BY DEF GateTypes
<1>2. PICK u : u = Onward(0, {})
  OBVIOUS
<1>3. u \in CallerRec /\ (u.pc = "check" => u.at \in Sections[prone])
  BY <1>1, <1>2, OnwardType DEF TypeOK
<1>4. /\ caller' = [caller EXCEPT ![c] = u] /\ log' \in LogRec
      /\ due' = hw /\ trouble' = FALSE /\ lost' = FALSE
      /\ UNCHANGED <<prone, hw, job, drained, advice, clock, faults>>
  BY <1>2 DEF Open, LogRec
<1>. QED
  BY <1>1, <1>3, <1>4, RunTypes DEF TypeOK

LEMMA RunSectionTypes ==
  ASSUME GateTypes, NEW c \in Callers, RunSection(c)
  PROVE  GateTypes'
<1>1. TypeOK /\ caller[c] \in CallerRec /\ caller[c].pc = "check"
  BY DEF GateTypes, TypeOK, RunSection
<1>2. PICK at, seen, s : at = caller[c].at /\ seen = caller[c].seen /\ s = AllSections[at]
  OBVIOUS
<1>3. at \in 1 .. 14 /\ at \in 0 .. 14 /\ seen \in SUBSET Symptom /\ s \in Names
  <2>1. at \in Sections[prone]
    BY <1>1, <1>2 DEF GateTypes
  <2>2. at \in 1 .. 14
    BY <1>1, <2>1, SectionNames DEF Sections, TypeOK
  <2>. QED
    BY <1>1, <1>2, <2>2, SectionNames DEF CallerRec
<1>4. PICK raised \in BOOLEAN :
         /\ Fault(raised)
         /\ \E found \in IF raised THEN Default(s) ELSE {Sees(s, hw)} :
              caller' = [caller EXCEPT ![c] = Onward(at, seen \union found)]
         /\ trouble' = (trouble \/ raised)
  BY <1>2 DEF RunSection
<1>5. PICK found \in IF raised THEN Default(s) ELSE {Sees(s, hw)} :
              caller' = [caller EXCEPT ![c] = Onward(at, seen \union found)]
  BY <1>4
<1>6. found \subseteq Symptom
  BY <1>1, <1>3, <1>5, DefaultType, SeesType DEF TypeOK
<1>7. PICK u : u = Onward(at, seen \union found)
  OBVIOUS
<1>8. u \in CallerRec /\ (u.pc = "check" => u.at \in Sections[prone])
  BY <1>1, <1>3, <1>6, <1>7, OnwardType DEF TypeOK
<1>9. caller' = [caller EXCEPT ![c] = u]
  BY <1>5, <1>7
<1>10. Writes(c, {}) /\ UNCHANGED <<prone, hw, job, drained, advice, clock, due>>
  BY DEF RunSection
<1>11. log' \in LogRec /\ lost' \in BOOLEAN
  BY <1>1, <1>10, WritesTypes
<1>12. faults' \in Nat /\ trouble' \in BOOLEAN
  BY <1>1, <1>4, FaultType DEF TypeOK
<1>. QED
  BY <1>1, <1>8, <1>9, <1>10, <1>11, <1>12, RunTypes DEF TypeOK

LEMMA ReportTypes ==
  ASSUME GateTypes, NEW c \in Callers, Report(c)
  PROVE  GateTypes'
<1>1. TypeOK
  BY DEF GateTypes
<1>2. PICK action, u : /\ action = Escalate(Summary(caller[c].seen))
                       /\ u = [Off EXCEPT !.pc = "read"]
  OBVIOUS
<1>3. action \in Actions
  BY <1>2, SummaryIsFinal, EscalateType
<1>4. u \in CallerRec /\ u.pc # "check"
  BY <1>2, OffType
<1>5. PICK mine : Writes(c, mine) /\ (mine = {} \/ mine = {<<c, action>>})
  BY <1>2 DEF Report
<1>6. log' \in LogRec /\ lost' \in BOOLEAN
  <2>1. mine \in SUBSET (Callers \X Actions)
    BY <1>3, <1>5
  <2>. QED
    BY <1>1, <1>5, <2>1, WritesTypes
<1>7. caller' = [caller EXCEPT ![c] = u]
  BY <1>2 DEF Report
<1>8. UNCHANGED <<prone, hw, job, drained, advice, clock, due, trouble, faults>>
  BY DEF Report
<1>. QED
  BY <1>1, <1>4, <1>6, <1>7, <1>8, RunTypes DEF TypeOK

LEMMA DieTypes ==
  ASSUME GateTypes, NEW c \in Callers, Die(c)
  PROVE  GateTypes'
<1>1. TypeOK
  BY DEF GateTypes
<1>2. PICK u : u = [Off EXCEPT !.pc = "read"]
  OBVIOUS
<1>3. u \in CallerRec /\ u.pc # "check"
  BY <1>2, OffType
<1>4. /\ caller' = [caller EXCEPT ![c] = u] /\ trouble' = TRUE /\ Fault(TRUE)
      /\ UNCHANGED <<prone, hw, job, drained, advice, clock, due>>
  BY <1>2 DEF Die
<1>5. faults' \in Nat
  BY <1>1, <1>4, FaultType DEF TypeOK
<1>6. log' \in LogRec /\ lost' \in BOOLEAN
  BY <1>1, WritesTypes DEF Die
<1>. QED
  BY <1>1, <1>3, <1>4, <1>5, <1>6, RunTypes DEF TypeOK

LEMMA ReadTypes ==
  ASSUME GateTypes, NEW c \in Callers, Read(c)
  PROVE  GateTypes'
<1>1. TypeOK
  BY DEF GateTypes
<1>2. PICK u : u = Off
  OBVIOUS
<1>3. u \in CallerRec /\ u.pc # "check"
  BY <1>2, OffType
<1>4. /\ caller' = [caller EXCEPT ![c] = u]
      /\ UNCHANGED <<prone, hw, log, clock, due, trouble, lost, faults>>
  BY <1>2 DEF Read
<1>5. /\ job' \in {job, "none", "running"} /\ drained' \in {drained, TRUE}
      /\ advice' = advice \/ \E m \in log.msgs : advice' \in {m[2], NONE}
  BY DEF Read
<1>6. job' \in {"none", "prolog", "running", "gone"} /\ drained' \in BOOLEAN
  BY <1>1, <1>5 DEF TypeOK
<1>7. advice' \in Actions
  <2>1. NONE \in Actions /\ advice \in Actions /\ log.msgs \subseteq Callers \X Actions
    BY <1>1 DEF TypeOK, Actions
  <2>2. \A m \in log.msgs : m[2] \in Actions
    BY <2>1
  <2>. QED
    BY <1>5, <2>1, <2>2
<1>. QED
  BY <1>1, <1>3, <1>4, <1>6, <1>7, RunTypes DEF TypeOK, LogRec

(* The steps of Slurm, the node, the clock and the operator. *)
LEMMA OtherTypes ==
  ASSUME GateTypes,
         \/ GiveJob \/ JobEnds \/ Age \/ Tick \/ Resume \/ UNCHANGED vars
         \/ \E c \in Callers : NoShape(c)
         \/ \E x \in prone : Break(x) \/ Heal(x)
  PROVE  GateTypes'
<1>1. TypeOK /\ prone \subseteq Symptom /\ NONE \in Actions
  BY CasesAssumption DEF GateTypes, TypeOK, Actions
<1>2. UNCHANGED <<prone, caller, boots, followed, rotated, trouble, lost>>
  BY DEF GiveJob, JobEnds, Age, Tick, Resume, NoShape, vars, Break, Heal, gate, clock
<1>3. /\ job' \in {"none", "prolog", "running", "gone"} /\ drained' \in BOOLEAN /\ advice' \in Actions
      /\ log' \in LogRec
  <2>1. \/ log' = log \/ log' = [log EXCEPT !.fresh = FALSE]
    BY DEF GiveJob, JobEnds, Age, Tick, Resume, NoShape, vars, Break, Heal, gate, clock
  <2>2. /\ job' \in {job, "prolog", "running", "none"} /\ drained' \in {drained, FALSE}
        /\ advice' \in {advice, NONE}
    BY DEF GiveJob, JobEnds, Age, Tick, Resume, NoShape, vars, Break, Heal, gate, clock
  <2>3. log \in LogRec
    BY <1>1 DEF TypeOK, LogRec
  <2>4. [log EXCEPT !.fresh = FALSE] \in LogRec
    BY <2>3 DEF LogRec
  <2>. QED
    BY <1>1, <2>1, <2>2, <2>3, <2>4 DEF TypeOK
<1>4. hw' \subseteq Symptom /\ due' \subseteq Symptom /\ now' \in Nat
  <2>1. \/ UNCHANGED <<hw, due>>
        \/ \E x \in prone : hw' = hw \union {x} /\ due' = due
        \/ \E x \in prone : hw' = hw \ {x} /\ due' = due \ {x}
    BY DEF GiveJob, JobEnds, Age, Tick, Resume, NoShape, vars, Break, Heal
  <2>2. now' = now \/ now' = now + 1
    BY DEF GiveJob, JobEnds, Age, Tick, Resume, NoShape, vars, Break, Heal, clock
  <2>3. hw \subseteq Symptom /\ due \subseteq Symptom /\ now \in Nat
    BY <1>1 DEF TypeOK
  <2>4. hw' \subseteq Symptom /\ due' \subseteq Symptom
    BY <1>1, <2>1, <2>3
  <2>. QED
    BY <2>2, <2>3, <2>4
<1>5. faults' \in Nat
  <2>1. faults' = faults \/ Fault(TRUE)
    BY DEF GiveJob, JobEnds, Age, Tick, Resume, NoShape, vars, Break, Heal
  <2>. QED
    BY <1>1, <2>1, FaultType DEF TypeOK
<1>6. TypeOK'
  BY <1>1, <1>2, <1>3, <1>4, <1>5 DEF TypeOK, LogRec
<1>7. \A c \in Callers : caller'[c].pc = "check" => caller'[c].at \in (Sections[prone])'
  BY <1>2 DEF GateTypes
<1>. QED
  BY <1>6, <1>7 DEF GateTypes

LEMMA AllOff ==
  ASSUME caller' = [c \in Callers |-> Off]
  PROVE  /\ caller' \in [Callers -> CallerRec]
         /\ \A c \in Callers : caller'[c].pc = "off"
  BY OffType

(* The steps that end both runs. *)
LEMMA EndTypes ==
  ASSUME GateTypes, Panic \/ FollowReboot \/ FollowTerminate
  PROVE  GateTypes'
<1>1. TypeOK /\ NONE \in Actions
  BY DEF GateTypes, TypeOK, Actions
<1>2. caller' = [c \in Callers |-> Off]
  BY DEF Panic, FollowReboot, FollowTerminate, Boot
<1>3. /\ caller' \in [Callers -> CallerRec]
      /\ \A c \in Callers : caller'[c].pc = "off"
  BY <1>2, AllOff
<1>4. /\ UNCHANGED <<prone, hw, drained, now, rotated, due, trouble, lost>>
      /\ job' \in {"none", "gone"} /\ advice' \in {advice, NONE}
      /\ log' = log \/ log' = [log EXCEPT !.fresh = FALSE]
      /\ boots' = boots \/ boots' = Append(boots, now)
      /\ followed' = followed \/ followed' = Append(followed, now)
  BY DEF Panic, FollowReboot, FollowTerminate, Boot, clock
<1>5. faults' \in Nat
  BY <1>1, FaultType DEF Panic, FollowReboot, FollowTerminate, TypeOK
<1>6. boots' \in Seq(Nat) /\ followed' \in Seq(Nat)
  <2>1. Append(boots, now) \in Seq(Nat) /\ Append(followed, now) \in Seq(Nat)
    BY <1>1 DEF TypeOK
  <2>. QED
    BY <1>1, <1>4, <2>1 DEF TypeOK
<1>7. log' \in LogRec
  BY <1>1, <1>4 DEF TypeOK, LogRec
<1>8. TypeOK'
  BY <1>1, <1>3, <1>4, <1>5, <1>6, <1>7 DEF TypeOK, LogRec
<1>. QED
  BY <1>3, <1>8 DEF GateTypes

LEMMA RotateTypes ==
  ASSUME GateTypes, Rotate
  PROVE  GateTypes'
<1>1. /\ UNCHANGED <<prone, hw, log, caller, job, drained, advice, now, followed>>
      /\ UNCHANGED <<due, trouble, lost>>
      /\ boots' = <<>> /\ rotated' = TRUE /\ Fault(TRUE)
  BY DEF Rotate, gate
<1>2. faults' \in Nat /\ boots' \in Seq(Nat)
  <2>1. faults \in Nat
    BY DEF GateTypes, TypeOK
  <2>2. faults' \in Nat
    BY <1>1, <2>1, FaultType
  <2>. QED
    BY <1>1, <2>2
<1>. QED
  BY <1>1, <1>2 DEF GateTypes, TypeOK

LEMMA TypesInit == Init => GateTypes
<1> SUFFICES ASSUME Init PROVE GateTypes
  OBVIOUS
<1>1. caller = [c \in Callers |-> Off]
  BY DEF Init
<1>2. caller \in [Callers -> CallerRec] /\ \A c \in Callers : caller[c].pc = "off"
  BY <1>1, OffType
<1>3. boots \in Seq(Nat) /\ followed \in Seq(Nat) /\ NONE \in Actions
  BY DEF Init, Actions
<1>4. /\ prone \in Cases /\ hw = {} /\ due = {} /\ log = [fresh |-> FALSE, mixed |-> FALSE, msgs |-> {}]
      /\ job = "none" /\ drained = FALSE /\ advice = NONE /\ now = 0
      /\ trouble = FALSE /\ lost = FALSE /\ rotated = FALSE /\ faults = 0
  BY DEF Init
<1>. QED
  BY <1>2, <1>3, <1>4 DEF GateTypes, TypeOK

LEMMA TypesStep ==
  ASSUME GateTypes, [Next]_vars
  PROVE  GateTypes'
<1>1. ASSUME NEW c \in Callers, Check(c) \/ Die(c) PROVE GateTypes'
  BY <1>1, StartTypes, OpenTypes, RunSectionTypes, ReportTypes, ReadTypes, DieTypes DEF Check
<1>. QED
  BY <1>1, OtherTypes, EndTypes, RotateTypes DEF Next

LEMMA TypesInvariant == Spec => []GateTypes
  BY TypesInit, TypesStep, PTL DEF Spec

(* The type of the state, the messages in the log included: they are what  *)
(* the summary ends with, for any findings.                                *)
THEOREM GateTypeOK == Spec => []TypeOK
<1>1. GateTypes => TypeOK
  BY DEF GateTypes
<1>. QED
  BY <1>1, TypesInvariant, PTL

-----------------------------------------------------------------------------
(* The gate *)

(* A run that will report something of what is due: it has seen an error,  *)
(* or the sections that would see one are still to come.                   *)
Diligent(c) ==
    /\ caller[c].pc \in {"check", "report"}
    /\ \/ Reasons(caller[c].seen) # {}
       \/ \A i \in DOMAIN AllSections :
            Reasons(Sees(AllSections[i], due)) # {} => caller[c].pc = "check" /\ i >= caller[c].at
Covered ==
    \/ Reasons(Found(due)) = {} \/ trouble \/ lost \/ log.msgs # {}
    \/ \E c \in Callers : Diligent(c)
Places ==
    /\ due \subseteq hw /\ hw \subseteq prone
    /\ job = "gone" => \A c \in Callers : caller[c].pc = "off"
    /\ caller["prolog"].pc # "off" => job = "prolog"
GateInv == Places /\ (job # "gone" /\ Readable => Covered)

LEMMA CasesTypes == TypeOK => prone \subseteq Symptom
  BY CasesAssumption DEF TypeOK

LEMMA FoundBySome ==
  ASSUME NEW h
  PROVE  Reasons(Found(h)) # {} <=> \E i \in DOMAIN AllSections : Reasons(Sees(AllSections[i], h)) # {}
<1>1. Reasons(Found(h)) # {} <=> \E x \in Found(h) : Raises(x)
  BY ReasonsRaised
<1>2. \A i \in DOMAIN AllSections :
         Reasons(Sees(AllSections[i], h)) # {} <=> \E x \in Sees(AllSections[i], h) : Raises(x)
  BY ReasonsRaised
<1>3. Found(h) = UNION {Sees(AllSections[i], h) : i \in DOMAIN AllSections}
  BY DEF Found
<1>. QED
  BY <1>1, <1>2, <1>3

(* Seeing more raises no fewer rules. *)
LEMMA ReasonsGrow ==
  ASSUME NEW A, NEW B, A \subseteq B, Reasons(A) # {}
  PROVE  Reasons(B) # {}
  BY ReasonsRaised

(* A step that leaves the runs alone, or ends them with the log no longer  *)
(* fresh, or that ends the node.                                           *)
LEMMA QuietGate ==
  ASSUME GateInv, UNCHANGED <<prone, hw, due, trouble, lost>>, UNCHANGED caller,
         log'.msgs = log.msgs, log'.fresh => log.fresh,
         job' = job \/ (caller["prolog"].pc = "off" /\ job' # "gone" /\ job # "gone")
  PROVE  GateInv'
<1>1. Places'
  BY DEF GateInv, Places
<1>2. ASSUME job' # "gone", Readable' PROVE Covered'
  <2>1. job # "gone" /\ Readable
    BY <1>2 DEF Readable
  <2>2. Covered
    BY <2>1 DEF GateInv
  <2>. QED
    BY <2>2 DEF Covered, Diligent
<1>. QED
  BY <1>1, <1>2 DEF GateInv

LEMMA EndGate ==
  ASSUME GateInv, TypeOK', Panic \/ FollowReboot \/ FollowTerminate
  PROVE  GateInv'
<1>1. caller' = [c \in Callers |-> Off] /\ UNCHANGED <<prone, hw, due>>
  BY DEF Panic, FollowReboot, FollowTerminate, Boot
<1>2. \A c \in Callers : caller'[c].pc = "off"
  BY <1>1, AllOff
<1>3. "prolog" \in Callers
  BY DEF Callers
<1>4. Places'
  BY <1>1, <1>2, <1>3 DEF GateInv, Places
<1>5. job' = "gone" \/ log'.fresh = FALSE
  BY DEF Panic, FollowReboot, FollowTerminate, Boot, GateInv, TypeOK
<1>6. ~(job' # "gone" /\ Readable')
  BY <1>2, <1>5 DEF Readable
<1>. QED
  BY <1>4, <1>6 DEF GateInv

LEMMA BreakGate ==
  ASSUME GateInv, TypeOK, NEW x \in prone, Break(x)
  PROVE  GateInv'
<1>1. hw' = hw \union {x} /\ x \in prone /\ UNCHANGED <<prone, log, caller, job, due, trouble, lost>>
  BY DEF Break, gate
<1>2. Places'
  BY <1>1 DEF GateInv, Places
<1>3. (job # "gone" /\ Readable => Covered)'
  BY <1>1 DEF GateInv, Readable, Covered, Diligent
<1>. QED
  BY <1>2, <1>3 DEF GateInv

(* With fewer symptoms due there is no more to be seen. *)
LEMMA HealGate ==
  ASSUME GateInv, TypeOK, NEW x \in prone, Heal(x)
  PROVE  GateInv'
<1>1. /\ hw' = hw \ {x} /\ due' = due \ {x} /\ UNCHANGED <<prone, log, caller, job, trouble, lost>>
  BY DEF Heal, gate
<1>2. Places'
  BY <1>1 DEF GateInv, Places
<1>3. \A i \in DOMAIN AllSections :
         Reasons(Sees(AllSections[i], due')) # {} => Reasons(Sees(AllSections[i], due)) # {}
  <2>1. due' \subseteq due
    BY <1>1
  <2>. QED
    BY <2>1, SeesMore, SectionNames
<1>4. Reasons(Found(due')) # {} => Reasons(Found(due)) # {}
  BY <1>3, FoundBySome
<1>5. ASSUME job' # "gone", Readable' PROVE Covered'
  <2>1. Covered
    BY <1>1, <1>5 DEF GateInv, Readable
  <2>2. ASSUME NEW c \in Callers, Diligent(c) PROVE Diligent(c)'
    BY <1>1, <1>3, <2>2 DEF Diligent
  <2>. QED
    BY <1>1, <1>4, <2>1, <2>2 DEF Covered
<1>. QED
  BY <1>2, <1>5 DEF GateInv

(* A run takes a step. *)
LEMMA RunPlaces ==
  ASSUME Places, TypeOK, NEW c \in Callers, NEW u, caller' = [caller EXCEPT ![c] = u],
         UNCHANGED <<prone, hw>>, due' = due \/ due' = hw,
         job # "gone", job' # "gone",
         c = "prolog" => (u.pc # "off" => job' = "prolog"),
         c # "prolog" => job' = job
  PROVE  Places'
<1>1. \A d \in Callers : caller'[d] = IF d = c THEN u ELSE caller[d]
  BY DEF TypeOK
<1>2. "prolog" \in Callers
  BY DEF Callers
<1>. QED
  BY <1>1, <1>2 DEF Places

LEMMA NotGone ==
  ASSUME Places, NEW c \in Callers, caller[c].pc # "off"
  PROVE  job # "gone" /\ (c = "prolog" => job = "prolog")
  BY DEF Places

LEMMA StartGate ==
  ASSUME GateInv, TypeOK, NEW c \in Callers, Start(c)
  PROVE  GateInv'
<1>. DEFINE to == IF log.fresh THEN "read" ELSE "open"
            u == [caller[c] EXCEPT !.pc = to]
<1>1. caller[c] \in CallerRec
  BY DEF TypeOK
<1>2. u.pc = to
  BY <1>1 DEF CallerRec
<1>3. /\ caller' = [caller EXCEPT ![c] = u] /\ UNCHANGED <<prone, hw, log, job, due, trouble, lost>>
      /\ caller[c].pc = "off" /\ job = (IF c = "prolog" THEN "prolog" ELSE "none")
  BY DEF Start, Called
<1>. HIDE DEF u
<1>4. \A d \in Callers : caller'[d] = IF d = c THEN u ELSE caller[d]
  BY <1>3 DEF TypeOK
<1>5. Places'
  BY <1>3, RunPlaces DEF GateInv
<1>6. ASSUME job' # "gone", Readable' PROVE Covered'
  <2>1. Readable
    BY <1>2, <1>3, <1>4, <1>6 DEF Readable
  <2>2. Covered
    BY <1>3, <1>6, <2>1 DEF GateInv
  <2>3. ASSUME NEW d \in Callers, Diligent(d) PROVE Diligent(d)'
    <3>1. d # c
      BY <1>3, <2>3 DEF Diligent
    <3>. QED
      BY <1>3, <1>4, <2>3, <3>1 DEF Diligent
  <2>. QED
    BY <1>3, <2>2, <2>3 DEF Covered
<1>. QED
  BY <1>5, <1>6 DEF GateInv

LEMMA OpenGate ==
  ASSUME GateInv, GateTypes, NEW c \in Callers, Open(c)
  PROVE  GateInv'
<1>1. PICK u : u = Onward(0, {})
  OBVIOUS
<1>2. TypeOK /\ prone \in Cases
  BY DEF GateTypes, TypeOK
<1>3. /\ u.pc \in {"check", "report"} /\ u.seen = {}
      /\ \A i \in Sections[prone] : i > 0 => u.pc = "check" /\ i >= u.at
  BY <1>1, <1>2, OnwardType
<1>4. /\ caller' = [caller EXCEPT ![c] = u] /\ UNCHANGED <<prone, hw, job>> /\ due' = hw
      /\ caller[c].pc = "open"
  BY <1>1 DEF Open
<1>5. \A d \in Callers : caller'[d] = IF d = c THEN u ELSE caller[d]
  BY <1>2, <1>4 DEF TypeOK
<1>6. Places'
  BY <1>2, <1>4, NotGone, RunPlaces DEF GateInv
<1>7. Diligent(c)'
  <2>1. ASSUME NEW i \in DOMAIN AllSections, Reasons(Sees(AllSections[i], hw)) # {}
        PROVE  u.pc = "check" /\ i >= u.at
    <3>1. hw \subseteq prone /\ AllSections[i] \in Names /\ i > 0
      BY SectionNames DEF GateInv, Places
    <3>2. Reasons(Sees(AllSections[i], prone)) # {}
      BY <2>1, <3>1, SeesMore
    <3>3. Sees(AllSections[i], prone) # {}
      BY <3>2, ReasonsRaised
    <3>4. i \in Sections[prone]
      BY <1>2, <3>3 DEF Sections
    <3>. QED
      BY <1>3, <3>1, <3>4
  <2>. QED
    BY <1>3, <1>4, <1>5, <2>1 DEF Diligent
<1>. QED
  BY <1>6, <1>7 DEF GateInv, Covered

LEMMA RunSectionGate ==
  ASSUME GateInv, GateTypes, NEW c \in Callers, RunSection(c)
  PROVE  GateInv'
<1>1. TypeOK /\ prone \in Cases /\ caller[c] \in CallerRec /\ caller[c].pc = "check"
  BY DEF GateTypes, TypeOK, RunSection
<1>2. PICK at, seen, s : at = caller[c].at /\ seen = caller[c].seen /\ s = AllSections[at]
  OBVIOUS
<1>3. at \in 1 .. 14 /\ at \in 0 .. 14 /\ seen \in SUBSET Symptom /\ s \in Names
  <2>1. at \in Sections[prone]
    BY <1>1, <1>2 DEF GateTypes
  <2>2. at \in 1 .. 14
    BY <1>1, <2>1, SectionNames DEF Sections
  <2>. QED
    BY <1>1, <1>2, <2>2, SectionNames DEF CallerRec
<1>4. PICK raised \in BOOLEAN :
         /\ Fault(raised)
         /\ \E found \in IF raised THEN Default(s) ELSE {Sees(s, hw)} :
              caller' = [caller EXCEPT ![c] = Onward(at, seen \union found)]
         /\ trouble' = (trouble \/ raised)
  BY <1>2 DEF RunSection
<1>5. PICK found \in IF raised THEN Default(s) ELSE {Sees(s, hw)} :
              caller' = [caller EXCEPT ![c] = Onward(at, seen \union found)]
  BY <1>4
<1>6. found \subseteq Symptom
  BY <1>1, <1>3, <1>5, DefaultType, SeesType DEF TypeOK
<1>7. PICK u : u = Onward(at, seen \union found)
  OBVIOUS
<1>8. /\ u.pc \in {"check", "report"} /\ u.seen = seen \union found
      /\ \A i \in Sections[prone] : i > at => u.pc = "check" /\ i >= u.at
  BY <1>1, <1>3, <1>6, <1>7, OnwardType
<1>9. /\ caller' = [caller EXCEPT ![c] = u] /\ UNCHANGED <<prone, hw, job, due>>
      /\ Writes(c, {})
  BY <1>5, <1>7 DEF RunSection
<1>10. \A d \in Callers : caller'[d] = IF d = c THEN u ELSE caller[d]
  BY <1>1, <1>9 DEF TypeOK
<1>11. Places'
  BY <1>1, <1>9, NotGone, RunPlaces DEF GateInv
<1>12. Covered
  BY <1>1, NotGone DEF GateInv, Readable
<1>13. lost => lost'
  BY <1>9, Zenon DEF Writes
<1>14. CASE raised
  BY <1>4, <1>11, <1>14 DEF GateInv, Covered
<1>15. CASE ~raised
  <2>1. found = Sees(s, hw) /\ trouble' = trouble
    BY <1>1, <1>4, <1>5, <1>15 DEF TypeOK
  <2>2. log.msgs \subseteq log'.msgs \/ lost'
    BY <1>1, <1>9, WritesLog DEF TypeOK
  <2>3. ASSUME NEW d \in Callers, Diligent(d) PROVE Diligent(d)'
    <3>1. CASE d # c
      BY <1>9, <1>10, <2>3, <3>1 DEF Diligent
    <3>2. CASE d = c
      <4>1. CASE Reasons(seen) # {}
        <5>1. Reasons(u.seen) # {}
          BY <1>8, <4>1, ReasonsGrow
        <5>. QED
          BY <1>8, <1>10, <3>2, <5>1 DEF Diligent
      <4>2. CASE /\ Reasons(seen) = {}
                 /\ \A i \in DOMAIN AllSections : Reasons(Sees(AllSections[i], due)) # {} => i >= at
        <5>1. due \subseteq hw /\ due \subseteq prone
          BY DEF GateInv, Places
        <5>2. CASE Reasons(Sees(s, due)) # {}
          <6>1. Reasons(Sees(s, hw)) # {}
            BY <1>3, <5>1, <5>2, SeesMore
          <6>2. Reasons(u.seen) # {}
            BY <1>8, <2>1, <6>1, ReasonsGrow
          <6>. QED
            BY <1>8, <1>10, <3>2, <6>2 DEF Diligent
        <5>3. CASE Reasons(Sees(s, due)) = {}
          <6>1. ASSUME NEW i \in DOMAIN AllSections, Reasons(Sees(AllSections[i], due)) # {}
                PROVE  u.pc = "check" /\ i >= u.at
            <7>1. i >= at /\ i # at /\ AllSections[i] \in Names /\ i \in 1 .. 14
              BY <1>2, <4>2, <5>3, <6>1, SectionNames
            <7>2. Reasons(Sees(AllSections[i], prone)) # {}
              BY <5>1, <6>1, <7>1, SeesMore
            <7>3. Sees(AllSections[i], prone) # {}
              BY <7>2, ReasonsRaised
            <7>4. i \in Sections[prone]
              BY <1>1, <7>3 DEF Sections
            <7>5. i > at
              BY <1>3, <7>1
            <7>. QED
              BY <1>8, <7>4, <7>5
          <6>. QED
            BY <1>8, <1>9, <1>10, <3>2, <6>1 DEF Diligent
        <5>. QED
          BY <5>2, <5>3
      <4>. QED
        BY <1>2, <2>3, <3>2, <4>1, <4>2 DEF Diligent
    <3>. QED
      BY <3>1, <3>2
  <2>4. Covered'
    BY <1>9, <1>12, <1>13, <2>1, <2>2, <2>3 DEF Covered
  <2>. QED
    BY <1>11, <2>4 DEF GateInv
<1>. QED
  BY <1>14, <1>15

(* A run that dies has been in trouble, one that reports an error leaves   *)
(* its message, and the others go on.                                      *)
LEMMA ReportGate ==
  ASSUME GateInv, GateTypes, NEW c \in Callers, Report(c) \/ Die(c)
  PROVE  GateInv'
<1>1. TypeOK /\ caller[c].pc \in {"check", "report"}
  BY DEF GateTypes, Report, Die
<1>2. PICK u, seen : u = [Off EXCEPT !.pc = "read"] /\ seen = caller[c].seen
  OBVIOUS
<1>3. u.pc = "read"
  BY <1>2, OffType
<1>4. caller' = [caller EXCEPT ![c] = u] /\ UNCHANGED <<prone, hw, job, due>>
  BY <1>2 DEF Report, Die
<1>5. \A d \in Callers : caller'[d] = IF d = c THEN u ELSE caller[d]
  BY <1>1, <1>4 DEF TypeOK
<1>6. Places'
  BY <1>1, <1>3, <1>4, NotGone, RunPlaces DEF GateInv
<1>7. Covered
  BY <1>1, NotGone DEF GateInv, Readable
<1>8. CASE Die(c)
  BY <1>6, <1>8 DEF GateInv, Covered, Die
<1>9. CASE Report(c)
  <2>0. PICK mine : Writes(c, mine) /\ (Reasons(seen) # {} => mine # {})
    BY <1>2, <1>9 DEF Report
  <2>1. /\ caller[c].pc = "report" /\ trouble' = trouble
        /\ mine \subseteq log'.msgs /\ (log.msgs \subseteq log'.msgs \/ lost') /\ (lost => lost')
    <3>1. caller[c].pc = "report" /\ trouble' = trouble
      BY <1>9 DEF Report
    <3>2. log = [fresh |-> log.fresh, mixed |-> log.mixed, msgs |-> log.msgs]
      BY <1>1 DEF TypeOK
    <3>. QED
      BY <2>0, <3>1, <3>2, WritesLog
  <2>2. CASE log'.msgs # {} \/ lost'
    BY <1>6, <2>2 DEF GateInv, Covered
  <2>3. CASE log'.msgs = {} /\ ~lost'
    <3>1. log.msgs = {} /\ Reasons(seen) = {} /\ ~lost
      BY <2>0, <2>1, <2>3
    <3>2. ASSUME NEW d \in Callers, Diligent(d), d # c PROVE Diligent(d)'
      BY <1>4, <1>5, <3>2 DEF Diligent
    <3>3. ASSUME Diligent(c) PROVE Reasons(Found(due)) = {}
      <4>1. \A i \in DOMAIN AllSections : Reasons(Sees(AllSections[i], due)) = {}
        BY <1>2, <2>1, <3>1, <3>3 DEF Diligent
      <4>. QED
        BY <4>1, FoundBySome
    <3>4. Covered'
      BY <1>4, <1>7, <2>1, <3>1, <3>2, <3>3 DEF Covered
    <3>. QED
      BY <1>6, <3>4 DEF GateInv
  <2>. QED
    BY <2>2, <2>3
<1>. QED
  BY <1>8, <1>9

LEMMA ReadGate ==
  ASSUME GateInv, GateTypes, NEW c \in Callers, Read(c)
  PROVE  GateInv'
<1>1. TypeOK /\ caller[c].pc = "read"
  BY DEF GateTypes, Read
<1>2. PICK u : u = Off
  OBVIOUS
<1>3. u.pc = "off"
  BY <1>2, OffType
<1>4. caller' = [caller EXCEPT ![c] = u] /\ UNCHANGED <<prone, hw, log, due, trouble, lost>>
  BY <1>2 DEF Read
<1>5. job' = job \/ (c = "prolog" /\ job' \in {"running", "none"})
  BY DEF Read
<1>6. \A d \in Callers : caller'[d] = IF d = c THEN u ELSE caller[d]
  BY <1>1, <1>4 DEF TypeOK
<1>7. job # "gone"
  BY <1>1, NotGone DEF GateInv
<1>8. Places'
  BY <1>1, <1>3, <1>4, <1>5, <1>7, RunPlaces DEF GateInv
<1>9. Covered
  BY <1>1, <1>7 DEF GateInv, Readable
<1>10. ASSUME NEW d \in Callers, Diligent(d) PROVE Diligent(d)'
  <2>1. d # c
    BY <1>1, <1>10 DEF Diligent
  <2>. QED
    BY <1>4, <1>6, <1>10, <2>1 DEF Diligent
<1>11. Covered'
  BY <1>4, <1>9, <1>10 DEF Covered
<1>. QED
  BY <1>8, <1>11 DEF GateInv

LEMMA OtherGate ==
  ASSUME GateInv, TypeOK,
         \/ GiveJob \/ JobEnds \/ Age \/ Tick \/ Rotate \/ Resume \/ UNCHANGED vars
         \/ \E c \in Callers : NoShape(c)
  PROVE  GateInv'
<1>1. UNCHANGED <<prone, hw, due, trouble, lost, caller>>
  BY DEF GiveJob, JobEnds, Age, Tick, Rotate, Resume, NoShape, vars, gate
<1>2. log'.msgs = log.msgs /\ (log'.fresh => log.fresh)
  BY DEF GiveJob, JobEnds, Age, Tick, Rotate, Resume, NoShape, vars, gate, TypeOK
<1>3. job' = job \/ (job = "none" /\ job' = "prolog") \/ (job = "running" /\ job' = "none")
      \/ (caller["prolog"].pc = "off" /\ job = "prolog" /\ job' = "running")
  BY DEF GiveJob, JobEnds, Age, Tick, Rotate, Resume, NoShape, Called, vars, gate
<1>4. job # "prolog" => caller["prolog"].pc = "off"
  BY DEF GateInv, Places
<1>. QED
  BY <1>1, <1>2, <1>3, <1>4, QuietGate

LEMMA GateInit == Init => GateInv
<1> SUFFICES ASSUME Init PROVE GateInv
  OBVIOUS
<1>1. \A c \in Callers : caller[c].pc = "off"
  BY OffType DEF Init
<1>2. "prolog" \in Callers
  BY DEF Callers
<1>. QED
  BY <1>1, <1>2 DEF Init, GateInv, Places, Readable

LEMMA GateStep ==
  ASSUME GateInv, GateTypes, GateTypes', [Next]_vars
  PROVE  GateInv'
<1>1. TypeOK /\ TypeOK'
  BY DEF GateTypes
<1>2. ASSUME NEW c \in Callers, Check(c) \/ Die(c) PROVE GateInv'
  BY <1>1, <1>2, StartGate, OpenGate, RunSectionGate, ReportGate, ReadGate DEF Check
<1>. QED
  BY <1>1, <1>2, OtherGate, BreakGate, HealGate, EndGate DEF Next

(* A job starts on a node with an error that was there before the log was  *)
(* emptied, and has been since, only if the script has left without a look *)
(* at the log, a check has failed or died, a run has written over what the *)
(* other has found, or the other run is still writing the log.             *)
THEOREM GateKeepsJobsOff == Spec => GateHolds
<1>1. ASSUME GateInv, GateTypes, [Next]_vars, job = "prolog", job' = "running"
      PROVE  \/ Reasons(Found(due)) = {}
             \/ caller["prolog"].pc = "off"
             \/ trouble \/ lost
             \/ caller["monitor"].pc \in {"check", "report"}
  <2>1. PICK c \in Callers : Read(c) \/ NoShape(c)
    BY <1>1 DEF Next, Check, Start, Open, RunSection, Report, Die, GiveJob, JobEnds, Break, Heal,
       Age, Tick, Panic, Rotate, FollowReboot, FollowTerminate, Resume, Boot, vars, gate
  <2>2. CASE NoShape(c)
    BY <1>1, <2>2 DEF NoShape, Called
  <2>3. CASE Read(c)
    <3>1. c = "prolog" /\ log.msgs = {} /\ caller["prolog"].pc = "read"
      BY <1>1, <2>3 DEF Read
    <3>2. Covered
      BY <1>1, <2>3, <3>1 DEF GateInv, Readable
    <3>3. ASSUME NEW d \in Callers, Diligent(d) PROVE caller["monitor"].pc \in {"check", "report"}
      BY <3>1, <3>3 DEF Diligent, Callers
    <3>. QED
      BY <3>1, <3>2, <3>3 DEF Covered
  <2>. QED
    BY <2>1, <2>2, <2>3
<1>2. GateInv /\ GateTypes /\ [Next]_vars
         => [job = "prolog" /\ job' = "running" =>
               \/ Reasons(Found(due)) = {}
               \/ caller["prolog"].pc = "off"
               \/ trouble \/ lost
               \/ caller["monitor"].pc \in {"check", "report"}]_vars
  BY <1>1
<1>3. GateInv /\ GateTypes /\ GateTypes' /\ [Next]_vars => GateInv'
  BY GateStep
<1>. QED
  BY <1>2, <1>3, GateInit, TypesInvariant, PTL DEF Spec, GateHolds
=============================================================================
