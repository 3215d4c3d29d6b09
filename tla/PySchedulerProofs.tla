------------------------- MODULE PySchedulerProofs -------------------------
(***************************************************************************)
(* Proofs about PyScheduler, for any expressions, any durations of the     *)
(* cycles and any number of days.                                          *)
(***************************************************************************)
EXTENDS PyScheduler, TLAPS

----------------------------------------------------------------------------
(* The minute of the day is the absolute minute within its day.            *)
LEMMA MinuteOfDay ==
  ASSUME slot \in Nat
  PROVE  /\ AbsoluteMinute \in Nat
         /\ CurrentMinute = AbsoluteMinute % 1440
         /\ CurrentMinute \in 0 .. 1439
<1>1. slot = 2880 * (slot \div 2880) + (slot % 2880)
      /\ slot % 2880 \in 0 .. 2879 /\ slot \div 2880 \in Nat
  OBVIOUS
<1> DEFINE day == slot \div 2880
           rest == slot % 2880
<1>2. rest = 2 * (rest \div 2) + (rest % 2) /\ rest % 2 \in 0 .. 1
      /\ rest \div 2 \in 0 .. 1439
  BY <1>1
<1>3. slot \div 2 = 1440 * day + rest \div 2
  BY <1>1, <1>2
<1>4. (slot \div 2) % 1440 = rest \div 2
  BY <1>1, <1>2, <1>3
<1> QED
  BY <1>1, <1>2, <1>3, <1>4 DEF CurrentMinute, AbsoluteMinute, SlotsPerDay

(* last_run_minute is the minute of the day of the last run.               *)
RunInv ==
  /\ lastFired # -1 => lastFired \in Nat /\ lastRunMinute = lastFired % 1440
  /\ lastFired = -1 => lastRunMinute = -1

IndInv == TypeOK /\ RunInv

(* The invariant holds in every state.                                     *)
THEOREM Invariance == Spec => []IndInv
<1>1. Init => IndInv
  <2> SUFFICES ASSUME Init PROVE IndInv
    OBVIOUS
  <2>1. slot \in Nat
    BY DEF Init, SlotsPerDay
  <2>2. lastRunMinute \in -1 .. 1439
    BY DEF Init
  <2>3. TypeOK
    BY <2>1, <2>2 DEF Init, TypeOK
  <2>4. RunInv
    BY DEF Init, RunInv
  <2> QED
    BY <2>3, <2>4 DEF IndInv
<1>2. IndInv /\ [Next]_vars => IndInv'
  <2> SUFFICES ASSUME IndInv, [Next]_vars PROVE IndInv'
    OBVIOUS
  <2>1. CASE Fire
    <3>1. /\ CurrentMinute \in 0 .. 1439 /\ AbsoluteMinute \in Nat
          /\ CurrentMinute = AbsoluteMinute % 1440
      BY MinuteOfDay DEF IndInv, TypeOK
    <3>2. /\ lastRunMinute' = CurrentMinute /\ lastFired' = AbsoluteMinute
          /\ phase' = "running" /\ UNCHANGED <<expr, slot, stopEvent>>
      BY <2>1 DEF Fire
    <3>3. lastRunMinute' \in -1 .. 1439 /\ lastFired' \in Nat
      BY <3>1, <3>2
    <3>4. TypeOK'
      BY <3>2, <3>3 DEF IndInv, TypeOK
    <3>5. RunInv'
      BY <3>1, <3>2, <3>3 DEF RunInv
    <3> QED
      BY <3>4, <3>5 DEF IndInv
  <2>2. CASE Skip \/ Leave \/ Stop
    <3>1. UNCHANGED <<expr, slot, lastRunMinute, lastFired>>
      BY <2>2 DEF Skip, Leave, Stop
    <3>2. phase' \in {"polling", "running", "waiting", "stopped"}
          /\ stopEvent' \in BOOLEAN
      BY <2>2 DEF Skip, Leave, Stop, IndInv, TypeOK
    <3>3. TypeOK'
      BY <3>1, <3>2 DEF IndInv, TypeOK
    <3>4. RunInv'
      BY <3>1 DEF IndInv, RunInv
    <3> QED
      BY <3>3, <3>4 DEF IndInv
  <2>3. CASE \E d \in Durations : CycleEnds(d)
    <3>1. PICK d \in Durations : CycleEnds(d)
      BY <2>3
    <3>2. d \in Nat
      BY DurationsAssumption
    <3>3. slot' \in Nat
      BY <3>1, <3>2 DEF CycleEnds, IndInv, TypeOK
    <3>4. TypeOK'
      BY <3>1, <3>3 DEF CycleEnds, IndInv, TypeOK
    <3>5. RunInv'
      BY <3>1 DEF CycleEnds, IndInv, RunInv
    <3> QED
      BY <3>4, <3>5 DEF IndInv
  <2>4. CASE WaitEnds
    <3>1. TypeOK'
      BY <2>4 DEF WaitEnds, IndInv, TypeOK
    <3>2. RunInv'
      BY <2>4 DEF WaitEnds, IndInv, RunInv
    <3> QED
      BY <3>1, <3>2 DEF IndInv
  <2>5. CASE Stopped \/ UNCHANGED vars
    <3>1. UNCHANGED <<expr, slot, phase, stopEvent, lastRunMinute, lastFired>>
      BY <2>5 DEF Stopped, vars
    <3>2. TypeOK'
      BY <3>1 DEF IndInv, TypeOK
    <3>3. RunInv'
      BY <3>1 DEF IndInv, RunInv
    <3> QED
      BY <3>2, <3>3 DEF IndInv
  <2> QED
    BY <2>1, <2>2, <2>3, <2>4, <2>5 DEF Next, LoopStep
<1> QED
  BY <1>1, <1>2, PTL DEF Spec

(* Type correctness of the scheduler.                                      *)
THEOREM TypeInvariant == Spec => []TypeOK
  BY Invariance, PTL DEF IndInv

(* No minute gets two cycles, on any number of days and with cycles of any *)
(* length (main.py:199-201): the memory of the last run is enough, because *)
(* the minute of the last run and the current one are the same minute only *)
(* if they are the same minute of the day.                                 *)
THEOREM AtMostOncePerMinute == Spec => OncePerMinute
<1> DEFINE Once == phase = "polling" /\ phase' = "running"
                     => lastFired # AbsoluteMinute
<1>1. IndInv /\ [Next]_vars => [Once]_vars
  <2> SUFFICES ASSUME IndInv, Next, phase = "polling", phase' = "running"
               PROVE  lastFired # AbsoluteMinute
    OBVIOUS
  <2>1. Fire
    BY DEF Next, LoopStep, Skip, CycleEnds, WaitEnds, Leave, Stop, Stopped, vars
  <2>2. CurrentMinute # lastRunMinute
    BY <2>1 DEF Fire, Due
  <2>3. CurrentMinute = AbsoluteMinute % 1440 /\ AbsoluteMinute \in Nat
    BY MinuteOfDay DEF IndInv, TypeOK
  <2> QED
    BY <2>2, <2>3 DEF IndInv, RunInv
<1> QED
  BY <1>1, Invariance, PTL DEF Spec, OncePerMinute

----------------------------------------------------------------------------
(* The fields of the wall clock are numbers.                               *)
LEMMA LocalTimeIsNumbers ==
  ASSUME NEW s \in Nat
  PROVE  LET t == LocalTime(s)
         IN  t.min \in Int /\ t.hour \in Int /\ t.mday \in Int /\ t.mon \in Int
<1>1. /\ (s % SlotsPerDay) \div 2 % 60 \in Int
      /\ (s % SlotsPerDay) \div 120 \in Int
      /\ 1 + s \div SlotsPerDay \in Int
  BY DEF SlotsPerDay
<1> QED BY <1>1 DEF LocalTime

(* Both readings of a portable expression agree.                           *)
LEMMA PortableIsStandard ==
  ASSUME NEW e, Portable(e), NEW s \in Nat
  PROVE  StandardMatches(e, LocalTime(s)) <=> CronMatches(e, LocalTime(s))
<1> DEFINE t == LocalTime(s)
<1>1. t.min \in Int /\ t.hour \in Int
  BY LocalTimeIsNumbers
<1> HIDE DEF t
<1>2. \A f, v : v \in Int => (StandardField(f, v, 0) <=> FieldMatches(f, v))
  <2> SUFFICES ASSUME NEW f, NEW v \in Int
               PROVE  StandardField(f, v, 0) <=> FieldMatches(f, v)
    OBVIOUS
  <2>1. v - 0 = v
    OBVIOUS
  <2>2. CASE f.kind = "step"
    BY <2>1, <2>2 DEF StandardField, FieldMatches
  <2>3. CASE f.kind # "step"
    BY <2>3 DEF StandardField
  <2> QED BY <2>2, <2>3
<1>3. \A f, v, n : f.kind # "step" => (StandardField(f, v, n) <=> FieldMatches(f, v))
  BY DEF StandardField
<1>4. \A f, v : f.kind = "any" => FieldMatches(f, v)
  BY DEF FieldMatches
<1>5. /\ StandardField(e.min, t.min, 0) <=> FieldMatches(e.min, t.min)
      /\ StandardField(e.hour, t.hour, 0) <=> FieldMatches(e.hour, t.hour)
  BY <1>1, <1>2
<1>6. /\ StandardField(e.mday, t.mday, 1) <=> FieldMatches(e.mday, t.mday)
      /\ StandardField(e.mon, t.mon, 1) <=> FieldMatches(e.mon, t.mon)
  BY <1>3 DEF Portable
<1>7. /\ StandardField(e.wday, (t.wday + 1) % 7, 0)
      /\ FieldMatches(e.wday, t.wday)
  BY <1>3, <1>4 DEF Portable
<1>8. StandardMatches(e, t) <=> CronMatches(e, t)
  BY <1>5, <1>6, <1>7 DEF StandardMatches, CronMatches, Portable
<1> QED BY <1>8 DEF t

(* A step that leaves "polling" for "running" is Fire, one that leaves it  *)
(* for anything while the probe runs is Fire or Skip.                      *)
LEMMA StepsFromPolling ==
  ASSUME Next, phase = "polling", phase' # "polling"
  PROVE  /\ phase' = "running" => Fire
         /\ ~stopEvent => Fire \/ Skip
BY DEF Next, LoopStep, Fire, Skip, CycleEnds, WaitEnds, Leave, Stop, Stopped, vars

(* For the expressions that both readings agree on, no cycle starts in a   *)
(* minute that the expression does not name, whatever else they say        *)
(* (main.py:193-214).                                                      *)
THEOREM FiresAreAlwaysScheduled ==
  ASSUME \A e \in Exprs : Portable(e)
  PROVE  Spec => FiresAreScheduled
<1> DEFINE Scheduled == phase = "polling" /\ phase' = "running"
                          => StandardMatches(expr, LocalTime(slot))
<1>1. IndInv /\ [Next]_vars => [Scheduled]_vars
  <2> SUFFICES ASSUME IndInv, Next, phase = "polling", phase' = "running"
               PROVE  StandardMatches(expr, LocalTime(slot))
    OBVIOUS
  <2>1. Fire
    BY StepsFromPolling
  <2>2. CronMatches(expr, LocalTime(slot))
    BY <2>1 DEF Fire, Due
  <2>3. Portable(expr) /\ slot \in Nat
    BY DEF IndInv, TypeOK
  <2> QED BY <2>2, <2>3, PortableIsStandard
<1> QED
  BY <1>1, Invariance, PTL DEF Spec, FiresAreScheduled

----------------------------------------------------------------------------
(* The polls do not miss a matching minute.                                *)

(* The slots before this one were polled or passed during a cycle.         *)
NextPoll == IF phase \in {"polling", "stopped"} THEN slot ELSE slot + 1

(* The cycle of slot f is the last one: every matching slot since its end  *)
(* is in the minute of the day that it ran in.                             *)
LastCycle(f, n) ==
  /\ f <= slot /\ f \div 2 = lastFired
  /\ CronMatches(expr, LocalTime(f))
  /\ phase = "running" => slot = f
  /\ \A t \in Nat : f + n + 1 <= t /\ t < NextPoll /\ CronMatches(expr, LocalTime(t))
                      => (t \div 2) % 1440 = lastRunMinute

PollInv(n) == /\ lastFired # -1 => \E f \in Nat : LastCycle(f, n)
              /\ phase = "running" => lastFired # -1

(* It is an invariant if no cycle takes more than n slots.                 *)
LEMMA PollsMissNothing ==
  ASSUME NEW n \in Nat, Durations \subseteq 0 .. n
  PROVE  Spec => []PollInv(n)
<1>1. Init => PollInv(n)
  BY DEF Init, PollInv
<1>2. IndInv /\ PollInv(n) /\ [Next]_vars => PollInv(n)'
  <2> SUFFICES ASSUME IndInv, PollInv(n), [Next]_vars PROVE PollInv(n)'
    OBVIOUS
  <2>1. slot \in Nat /\ lastFired \in Nat \union {-1}
    BY DEF IndInv, TypeOK
  <2>2. CASE Fire
    <3>1. /\ phase' = "running" /\ slot' = slot /\ expr' = expr
          /\ lastFired' = slot \div 2 /\ CronMatches(expr, LocalTime(slot))
      BY <2>2 DEF Fire, Due, AbsoluteMinute
    <3>2. NextPoll' = slot + 1
      BY <3>1 DEF NextPoll
    <3>3. \A t \in Nat : ~(slot + n + 1 <= t /\ t < slot + 1)
      BY <2>1
    <3>4. PICK f \in Nat : f = slot
      BY <2>1
    <3>5. LastCycle(f, n)'
      BY <2>1, <3>1, <3>2, <3>3, <3>4 DEF LastCycle
    <3>6. lastFired' # -1
      BY <2>1, <3>1
    <3> QED BY <3>5, <3>6 DEF PollInv
  <2>3. ASSUME lastFired # -1, NEW f \in Nat, LastCycle(f, n),
               UNCHANGED <<expr, lastRunMinute, lastFired>>,
               slot' \in Nat, slot' >= slot, phase' # "running",
               \/ NextPoll' <= NextPoll \/ NextPoll' <= f + n + 1
               \/ Skip
        PROVE  LastCycle(f, n)'
    <3>1. /\ f <= slot' /\ f \div 2 = lastFired'
          /\ CronMatches(expr', LocalTime(f))
      BY <2>1, <2>3 DEF LastCycle
    <3>2. ASSUME NEW t \in Nat, f + n + 1 <= t, t < NextPoll',
                 CronMatches(expr', LocalTime(t))
          PROVE  (t \div 2) % 1440 = lastRunMinute'
      <4>1. CASE t < NextPoll
        BY <2>3, <3>2, <4>1 DEF LastCycle
      <4>2. CASE ~(t < NextPoll) /\ Skip
        <5>1. phase = "polling" /\ phase' = "waiting" /\ slot' = slot /\ ~Due
          BY <4>2 DEF Skip
        <5>2. NextPoll = slot /\ NextPoll' = slot + 1
          BY <5>1 DEF NextPoll
        <5>3. t = slot
          BY <2>1, <3>2, <4>2, <5>2
        <5>4. CurrentMinute = lastRunMinute
          BY <2>3, <3>2, <5>1, <5>3 DEF Due
        <5>5. CurrentMinute = (slot \div 2) % 1440
          BY <2>1, MinuteOfDay DEF AbsoluteMinute
        <5> QED BY <2>3, <5>3, <5>4, <5>5
      <4>3. CASE ~(t < NextPoll) /\ ~Skip
        <5>1. NextPoll \in Nat
          <6>1. NextPoll \in {slot, slot + 1}
            BY DEF NextPoll
          <6> QED BY <2>1, <6>1
        <5>2. NextPoll' \in Nat
          <6>1. NextPoll' \in {slot', slot' + 1}
            BY DEF NextPoll
          <6>2. slot' \in Nat
            BY <2>3
          <6>3. \A x \in Nat : x + 1 \in Nat
            OBVIOUS
          <6>4. slot' + 1 \in Nat
            BY <6>2, <6>3, Zenon
          <6> QED BY <6>1, <6>2, <6>4
        <5> HIDE DEF NextPoll
        <5>3. NextPoll' <= NextPoll \/ NextPoll' <= f + n + 1
          BY <2>3, <4>3
        <5>4. f + n + 1 <= t /\ t < NextPoll' /\ ~(t < NextPoll)
          BY <3>2, <4>3
        <5> QED BY <5>1, <5>2, <5>3, <5>4
      <4> QED BY <4>1, <4>2, <4>3
    <3> QED BY <2>3, <3>1, <3>2 DEF LastCycle
  <2>4. ASSUME UNCHANGED <<expr, lastRunMinute, lastFired>>,
               slot' \in Nat, slot' >= slot, phase' # "running",
               \A f \in Nat : LastCycle(f, n) =>
                 \/ NextPoll' <= NextPoll \/ NextPoll' <= f + n + 1
                 \/ Skip
        PROVE  PollInv(n)'
    <3> SUFFICES ASSUME lastFired # -1
                 PROVE  \E f \in Nat : LastCycle(f, n)'
      BY <2>4 DEF PollInv
    <3>1. PICK f \in Nat : LastCycle(f, n)
      BY DEF PollInv
    <3> QED BY <2>3, <2>4, <3>1
  <2>5. CASE Skip
    <3>1. /\ UNCHANGED <<expr, slot, lastRunMinute, lastFired>>
          /\ phase' = "waiting"
      BY <2>5 DEF Skip
    <3> QED BY <2>1, <2>4, <2>5, <3>1
  <2>6. CASE \E d \in Durations : CycleEnds(d)
    <3>1. PICK d \in Durations : CycleEnds(d)
      BY <2>6
    <3>2. d \in Nat /\ d <= n
      OBVIOUS
    <3>3. /\ UNCHANGED <<expr, lastRunMinute, lastFired>>
          /\ phase = "running" /\ phase' = "waiting" /\ slot' = slot + d
      BY <3>1 DEF CycleEnds
    <3>4. NextPoll' = slot + d + 1
      BY <3>3 DEF NextPoll
    <3>5. slot' \in Nat /\ slot' >= slot
      BY <2>1, <3>2, <3>3
    <3>6. \A f \in Nat : LastCycle(f, n) => NextPoll' <= f + n + 1
      <4> SUFFICES ASSUME NEW f \in Nat, LastCycle(f, n)
                   PROVE  NextPoll' <= f + n + 1
        OBVIOUS
      <4>1. slot = f
        BY <3>3 DEF LastCycle
      <4> QED BY <2>1, <3>2, <3>4, <4>1
    <3>7. phase' # "running"
      BY <3>3
    <3>8. UNCHANGED <<expr, lastRunMinute, lastFired>>
      BY <3>3
    <3> HIDE DEF LastCycle
    <3>9. \A f \in Nat : LastCycle(f, n) =>
            \/ NextPoll' <= NextPoll \/ NextPoll' <= f + n + 1
            \/ Skip
      BY <3>6
    <3> QED BY <2>4, <3>5, <3>7, <3>8, <3>9
  <2>7. CASE WaitEnds
    <3>1. /\ UNCHANGED <<expr, lastRunMinute, lastFired>>
          /\ phase = "waiting" /\ phase' = "polling"
          /\ slot' = IF stopEvent THEN slot ELSE slot + 1
      BY <2>7 DEF WaitEnds
    <3>2. NextPoll = slot + 1 /\ NextPoll' = slot'
      BY <3>1 DEF NextPoll
    <3>3. slot' \in Nat /\ slot' >= slot /\ NextPoll' <= NextPoll
      BY <2>1, <3>1, <3>2
    <3> QED BY <2>4, <3>1, <3>3
  <2>8. CASE Leave
    <3>1. /\ UNCHANGED <<expr, slot, lastRunMinute, lastFired>>
          /\ phase = "polling" /\ phase' = "stopped"
      BY <2>8 DEF Leave
    <3>2. NextPoll = slot /\ NextPoll' = slot
      BY <3>1 DEF NextPoll
    <3> QED BY <2>1, <2>4, <3>1, <3>2
  <2>9. CASE Stop \/ Stopped \/ UNCHANGED vars
    <3>1. UNCHANGED <<expr, slot, phase, lastRunMinute, lastFired>>
      BY <2>9 DEF Stop, Stopped, vars
    <3>2. NextPoll' = NextPoll
      BY <3>1 DEF NextPoll
    <3> QED BY <3>1, <3>2 DEF PollInv, LastCycle
  <2> QED
    BY <2>2, <2>5, <2>6, <2>7, <2>8, <2>9 DEF Next, LoopStep
<1> QED
  BY <1>1, <1>2, Invariance, PTL DEF Spec

(* If both readings agree on an expression and it matches a second time    *)
(* before a day is over, later than the longest cycle of n slots, then no  *)
(* poll in a matching minute passes without a run (main.py:193-214): what  *)
(* last_run_minute forgets, the day of the run, is made up for by the run  *)
(* between.  The expression of config.yaml.example, which matches once a   *)
(* day, does not meet this.                                                *)
THEOREM MatchedPollsAlwaysFire ==
  ASSUME NEW n \in Nat, Durations \subseteq 0 .. n,
         \A e \in Exprs : Portable(e),
         \A e \in Exprs, s \in Nat :
           CronMatches(e, LocalTime(s)) => MatchesAgain(e, s, n)
  PROVE  Spec => MatchedPollFires
<1> DEFINE Fires ==
             /\ phase = "polling" /\ phase' # "polling" /\ ~stopEvent
             /\ StandardMatches(expr, LocalTime(slot))
             => lastFired' = AbsoluteMinute
<1>1. IndInv /\ PollInv(n) /\ [Next]_vars => [Fires]_vars
  <2> SUFFICES ASSUME IndInv, PollInv(n), Next, phase = "polling",
                      phase' # "polling", ~stopEvent,
                      StandardMatches(expr, LocalTime(slot))
               PROVE  lastFired' = AbsoluteMinute
    OBVIOUS
  <2>1. slot \in Nat /\ expr \in Exprs /\ lastFired \in Nat \union {-1}
    BY DEF IndInv, TypeOK
  <2>2. CronMatches(expr, LocalTime(slot))
    BY <2>1, PortableIsStandard
  <2>3. CASE Fire
    BY <2>3 DEF Fire
  <2>4. CASE Skip
    <3>1. CurrentMinute = lastRunMinute /\ lastFired' = lastFired
      BY <2>2, <2>4 DEF Skip, Due
    <3>2. /\ AbsoluteMinute \in Nat /\ AbsoluteMinute = slot \div 2
          /\ CurrentMinute = AbsoluteMinute % 1440 /\ CurrentMinute # -1
      BY <2>1, MinuteOfDay DEF AbsoluteMinute
    <3>3. /\ lastFired \in Nat /\ lastFired # -1
          /\ lastFired % 1440 = AbsoluteMinute % 1440
      BY <2>1, <3>1, <3>2 DEF IndInv, RunInv
    <3>4. PICK f \in Nat : LastCycle(f, n)
      BY <3>3 DEF PollInv
    <3>5. f <= slot /\ f \div 2 = lastFired /\ CronMatches(expr, LocalTime(f))
      BY <3>4 DEF LastCycle
    <3>6. PICK t \in f + n + 1 .. f + SlotsPerDay :
                 /\ CronMatches(expr, LocalTime(t))
                 /\ f \div 2 < t \div 2
                 /\ t \div 2 < f \div 2 + SlotsPerDay \div 2
      BY <2>1, <3>5 DEF MatchesAgain
    <3>7. t \in Nat /\ f + n + 1 <= t /\ SlotsPerDay \div 2 = 1440
      BY <3>6 DEF SlotsPerDay
    <3>8. ASSUME lastFired # AbsoluteMinute PROVE FALSE
      <4>1. lastFired + 1440 <= AbsoluteMinute
        <5>1. lastFired <= AbsoluteMinute
          BY <2>1, <3>2, <3>5
        <5> QED BY <3>2, <3>3, <3>8, <5>1
      <4>2. t < slot
        BY <2>1, <3>2, <3>5, <3>6, <3>7, <4>1
      <4>3. NextPoll = slot
        BY DEF NextPoll
      <4>4. (t \div 2) % 1440 = lastRunMinute
        BY <3>4, <3>6, <3>7, <4>2, <4>3 DEF LastCycle
      <4>5. (t \div 2) % 1440 = lastFired % 1440
        BY <3>1, <3>2, <3>3, <4>4
      <4>6. lastFired < t \div 2 /\ t \div 2 < lastFired + 1440
        BY <3>5, <3>6, <3>7
      <4>7. t \div 2 \in Nat
        BY <3>7
      <4> DEFINE m == t \div 2
      <4> HIDE DEF m
      <4>8. m \in Nat /\ lastFired < m /\ m < lastFired + 1440
            /\ m % 1440 = lastFired % 1440
        BY <4>5, <4>6, <4>7 DEF m
      <4> QED BY <3>3, <4>8
    <3> QED BY <3>1, <3>8
  <2> QED BY <2>3, <2>4, StepsFromPolling
<1>2. Spec => []PollInv(n)
  BY PollsMissNothing
<1> QED
  BY <1>1, <1>2, Invariance, PTL DEF Spec, MatchedPollFires
----------------------------------------------------------------------------
(* An expression for every day reads the time of the day only.             *)
LEMMA SameTimeOfDay ==
  ASSUME NEW e, EveryDay(e), NEW s \in Nat, NEW d \in Nat
  PROVE  CronMatches(e, LocalTime(s + 2880 * d)) <=> CronMatches(e, LocalTime(s))
<1>1. (s + 2880 * d) % SlotsPerDay = s % SlotsPerDay
  BY DEF SlotsPerDay
<1>2. /\ LocalTime(s + 2880 * d).min = LocalTime(s).min
      /\ LocalTime(s + 2880 * d).hour = LocalTime(s).hour
  BY <1>1 DEF LocalTime
<1>3. \A t : CronMatches(e, t) <=>
               FieldMatches(e.min, t.min) /\ FieldMatches(e.hour, t.hour)
  BY DEF EveryDay, CronMatches, FieldMatches
<1>4. CronMatches(e, LocalTime(s + 2880 * d)) <=>
        /\ FieldMatches(e.min, LocalTime(s + 2880 * d).min)
        /\ FieldMatches(e.hour, LocalTime(s + 2880 * d).hour)
  BY <1>3
<1>5. CronMatches(e, LocalTime(s)) <=>
        /\ FieldMatches(e.min, LocalTime(s).min)
        /\ FieldMatches(e.hour, LocalTime(s).hour)
  BY <1>3
<1> QED BY <1>2, <1>4, <1>5

(* So one day shows whether it matches again in time.                      *)
LEMMA DaysAreAlike ==
  ASSUME NEW n \in Nat, NEW e, EveryDay(e),
         \A s \in 0 .. SlotsPerDay - 1 :
           CronMatches(e, LocalTime(s)) => MatchesAgain(e, s, n)
  PROVE  \A s \in Nat : CronMatches(e, LocalTime(s)) => MatchesAgain(e, s, n)
<1> SUFFICES ASSUME NEW s \in Nat, CronMatches(e, LocalTime(s))
             PROVE  MatchesAgain(e, s, n)
  OBVIOUS
<1>1. PICK d \in Nat, r \in 0 .. 2879 : s = r + 2880 * d
  <2>1. /\ s \div 2880 \in Nat /\ s % 2880 \in 0 .. 2879
        /\ s = (s % 2880) + 2880 * (s \div 2880)
    OBVIOUS
  <2> QED BY <2>1
<1>2. CronMatches(e, LocalTime(r))
  BY <1>1, SameTimeOfDay
<1>3. MatchesAgain(e, r, n)
  <2>1. r \in 0 .. SlotsPerDay - 1
    BY DEF SlotsPerDay
  <2> QED BY <1>2, <2>1
<1>4. PICK t \in r + n + 1 .. r + 2880 :
        /\ CronMatches(e, LocalTime(t))
        /\ r \div 2 < t \div 2 /\ t \div 2 < r \div 2 + 1440
  BY <1>3 DEF MatchesAgain, SlotsPerDay
<1>5. t \in Nat
  BY <1>1, <1>4
<1> DEFINE u == t + 2880 * d
<1>6. CronMatches(e, LocalTime(u))
  BY <1>4, <1>5, SameTimeOfDay
<1>7. u \in s + n + 1 .. s + 2880
  BY <1>1, <1>4, <1>5
<1>8. u \div 2 = t \div 2 + 1440 * d /\ s \div 2 = r \div 2 + 1440 * d
  BY <1>1, <1>5
<1>9. s \div 2 < u \div 2 /\ u \div 2 < s \div 2 + 1440
  <2>1. t \div 2 \in Nat /\ r \div 2 \in Nat
    BY <1>1, <1>5
  <2> HIDE DEF u
  <2> QED BY <1>1, <1>4, <1>8, <2>1
<1> HIDE DEF u
<1>10. SlotsPerDay = 2880 /\ SlotsPerDay \div 2 = 1440
  BY DEF SlotsPerDay
<1> QED BY <1>6, <1>7, <1>9, <1>10 DEF MatchesAgain

(* An expression for every day that matches again in time, which one day   *)
(* of it shows, loses no matching poll on any day (main.py:193-214).  The  *)
(* hypotheses are those that TLC evaluates for the expressions of its run. *)
THEOREM MatchedPollsFireEveryDay ==
  ASSUME NEW n \in Nat, Durations \subseteq 0 .. n,
         \A e \in Exprs :
           /\ EveryDay(e)
           /\ \A s \in 0 .. SlotsPerDay - 1 :
                CronMatches(e, LocalTime(s)) => MatchesAgain(e, s, n)
  PROVE  Spec => MatchedPollFires
<1>1. \A e \in Exprs : Portable(e)
  BY DEF EveryDay, Portable
<1>2. \A e \in Exprs, s \in Nat :
        CronMatches(e, LocalTime(s)) => MatchesAgain(e, s, n)
  BY DaysAreAlike
<1> QED BY <1>1, <1>2, MatchedPollsAlwaysFire
=============================================================================
