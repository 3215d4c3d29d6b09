---------------------------- MODULE PyScheduler ----------------------------
(***************************************************************************)
(* main.py: _run_scheduled, the loop that polls a cron expression every 30 *)
(* seconds and runs a scan cycle in its own thread when the expression     *)
(* matches, and _cron_matches, which reads the expression.  Time is the    *)
(* local wall clock in slots of 30 seconds, without daylight saving; the   *)
(* five fields of the expression are kept in parsed form.                  *)
(***************************************************************************)
EXTENDS Integers

CONSTANTS Exprs,       \* the expressions the operator may have configured
          Durations,   \* slots a scan cycle may take
          Days,        \* bound: days of wall clock explored
          FirstWday    \* tm_wday of the first day, Monday = 0

ASSUME DaysAssumption == Days \in Nat /\ FirstWday \in 0 .. 6
ASSUME DurationsAssumption == Durations \subseteq Nat

SlotsPerDay == 24 * 60 * 2

VARIABLES
  expr,           \* scan.schedule
  slot,           \* the wall clock
  phase,          \* "polling", "running" a cycle, "waiting" 30 s, "stopped"
  stopEvent,      \* stop_event is set
  lastRunMinute,  \* last_run_minute, -1 before the first run
  lastFired       \* history: the absolute minute of the last run, or -1

vars == <<expr, slot, phase, stopEvent, lastRunMinute, lastFired>>

(* time.localtime() at a slot: the days are the first ones of a month.     *)
LocalTime(s) ==
  [min  |-> (s % SlotsPerDay) \div 2 % 60,
   hour |-> (s % SlotsPerDay) \div 120,
   mday |-> 1 + s \div SlotsPerDay,
   mon  |-> 1,
   wday |-> (FirstWday + s \div SlotsPerDay) % 7]

AbsoluteMinute == slot \div 2

TypeOK ==
  /\ expr \in Exprs
  /\ slot \in Nat
  /\ phase \in {"polling", "running", "waiting", "stopped"}
  /\ stopEvent \in BOOLEAN
  /\ lastRunMinute \in -1 .. 1439
  /\ lastFired \in Nat \union {-1}

Init ==
  /\ expr \in Exprs
  /\ slot \in 0 .. SlotsPerDay - 1
  /\ phase = "polling"
  /\ stopEvent = FALSE
  /\ lastRunMinute = -1
  /\ lastFired = -1

----------------------------------------------------------------------------
(* A field: a star, a step, a range, a list or a number.  A step is taken  *)
(* of the value itself, whatever stands before the slash.  What int() does *)
(* not read (a list with a range in it, a name) and a step of zero raise,  *)
(* and the expression does not match: kind "other".                        *)
FieldMatches(f, v) ==
  \/ f.kind = "any"
  \/ f.kind = "step" /\ v % f.step = 0
  \/ f.kind = "range" /\ v \in f.lo .. f.hi
  \/ f.kind = "list" /\ v \in f.values
  \/ f.kind = "number" /\ v = f.value

(* Mutant: minutes and hours are mixed up.                                 *)
CronMatchesSwapped(e, t) ==
  /\ FieldMatches(e.min, t.hour)
  /\ FieldMatches(e.hour, t.min)
  /\ FieldMatches(e.mday, t.mday)
  /\ FieldMatches(e.mon, t.mon)
  /\ FieldMatches(e.wday, t.wday)

CronMatches(e, t) ==
  /\ FieldMatches(e.min, t.min)
  /\ FieldMatches(e.hour, t.hour)
  /\ FieldMatches(e.mday, t.mday)
  /\ FieldMatches(e.mon, t.mon)
  /\ FieldMatches(e.wday, t.wday)

CurrentMinute == (slot % SlotsPerDay) \div 2

(* Mutant: runs are told apart by their minute in the hour only.           *)
DueByMinuteOfHour ==
  /\ CurrentMinute % 60 # lastRunMinute % 60
  /\ CronMatches(expr, LocalTime(slot))

Due == CurrentMinute # lastRunMinute /\ CronMatches(expr, LocalTime(slot))

(* Mutant: the minute of the run is not kept.                              *)
FireForgets ==
  /\ phase = "polling" /\ ~stopEvent /\ Due
  /\ phase' = "running"
  /\ lastFired' = AbsoluteMinute
  /\ UNCHANGED <<expr, slot, stopEvent, lastRunMinute>>

Fire ==
  /\ phase = "polling" /\ ~stopEvent /\ Due
  /\ lastRunMinute' = CurrentMinute
  /\ phase' = "running"
  /\ lastFired' = AbsoluteMinute
  /\ UNCHANGED <<expr, slot, stopEvent>>

Skip ==
  /\ phase = "polling" /\ ~stopEvent /\ ~Due
  /\ phase' = "waiting"
  /\ UNCHANGED <<expr, slot, stopEvent, lastRunMinute, lastFired>>

(* _run_cycle returns, with an error or not.                               *)
CycleEnds(d) ==
  /\ phase = "running"
  /\ slot' = slot + d
  /\ phase' = "waiting"
  /\ UNCHANGED <<expr, stopEvent, lastRunMinute, lastFired>>

(* stop_event.wait(30) times out, or returns at once when it is set.       *)
WaitEnds ==
  /\ phase = "waiting"
  /\ slot < Days * SlotsPerDay \/ stopEvent
  /\ phase' = "polling"
  /\ slot' = IF stopEvent THEN slot ELSE slot + 1
  /\ UNCHANGED <<expr, stopEvent, lastRunMinute, lastFired>>

(* Mutant: the loop does not look at stop_event.                           *)
NeverLeaves ==
  /\ phase = "polling" /\ stopEvent
  /\ phase' = "waiting"
  /\ UNCHANGED <<expr, slot, stopEvent, lastRunMinute, lastFired>>

Leave ==
  /\ phase = "polling" /\ stopEvent
  /\ phase' = "stopped"
  /\ UNCHANGED <<expr, slot, stopEvent, lastRunMinute, lastFired>>

(* main sets stop_event on a signal.                                       *)
Stop ==
  /\ ~stopEvent
  /\ stopEvent' = TRUE
  /\ UNCHANGED <<expr, slot, phase, lastRunMinute, lastFired>>

Stopped == phase = "stopped" /\ UNCHANGED vars

LoopStep ==
  \/ Fire \/ Skip
  \/ \E d \in Durations : CycleEnds(d)
  \/ WaitEnds \/ Leave

Next == LoopStep \/ Stop \/ Stopped

Spec == Init /\ [][Next]_vars /\ WF_vars(LoopStep)

----------------------------------------------------------------------------
(* The standard reading of the five fields, which config.yaml.example:29   *)
(* names: steps count from the least value of the field, days of the week  *)
(* from Sunday = 0, and a day may match by either of the two day fields    *)
(* when both are restricted.                                               *)
StandardField(f, v, least) ==
  IF f.kind = "step" THEN (v - least) % f.step = 0 ELSE FieldMatches(f, v)

StandardMatches(e, t) ==
  LET ofMonth == StandardField(e.mday, t.mday, 1)
      ofWeek  == StandardField(e.wday, (t.wday + 1) % 7, 0)
  IN  /\ StandardField(e.min, t.min, 0)
      /\ StandardField(e.hour, t.hour, 0)
      /\ StandardField(e.mon, t.mon, 1)
      /\ IF e.mday.kind # "any" /\ e.wday.kind # "any"
           THEN ofMonth \/ ofWeek
           ELSE ofMonth /\ ofWeek

(* The expressions that both readings agree on: no day of the week, and no *)
(* step in a field that counts from 1.                                     *)
Portable(e) ==
  e.wday.kind = "any" /\ e.mday.kind # "step" /\ e.mon.kind # "step"

(* The expressions that do not tell one day from another.                  *)
EveryDay(e) ==
  e.mday.kind = "any" /\ e.mon.kind = "any" /\ e.wday.kind = "any"

(* A run at slot s is followed by another matching minute before the same  *)
(* minute of the next day, and later than a cycle of n slots.              *)
MatchesAgain(e, s, n) ==
  \E t \in s + n + 1 .. s + SlotsPerDay :
    /\ CronMatches(e, LocalTime(t))
    /\ s \div 2 < t \div 2 /\ t \div 2 < s \div 2 + SlotsPerDay \div 2

(* A matching minute starts at most one cycle, although the loop polls it  *)
(* twice and a cycle may end within it (main.py:199-201).                  *)
OncePerMinute ==
  [][phase = "polling" /\ phase' = "running" => lastFired # AbsoluteMinute]_vars

(* main.py:193: "Poll a 5-field cron expression every 30 s and fire when   *)
(* it matches."  A poll in a standard matching minute runs a cycle, unless *)
(* this minute had its run or the probe is stopping.                       *)
MatchedPollFires ==
  [][/\ phase = "polling" /\ phase' # "polling" /\ ~stopEvent
     /\ StandardMatches(expr, LocalTime(slot))
     => lastFired' = AbsoluteMinute]_vars

(* A cycle starts only in a minute that the expression names.              *)
FiresAreScheduled ==
  [][phase = "polling" /\ phase' = "running"
       => StandardMatches(expr, LocalTime(slot))]_vars

(* The loop ends once stop_event is set, after the running cycle.          *)
StopEndsLoop == stopEvent ~> (phase = "stopped")
=============================================================================
