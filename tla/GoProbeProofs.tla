---------------------------- MODULE GoProbeProofs ---------------------------
(* Proofs about GoProbe, for any number of cycles.                         *)
EXTENDS GoProbe, TLAPS

USE CyclesAssumption

----------------------------------------------------------------------------
(* What main's place says of the cycles, of cron and of the sniffer.       *)

(* Cron starts jobs only while main waits in scheduled mode.               *)
CronInv == cron <=> main = "scheduled"

(* Before and after the two modes no cycle runs, and none has begun while  *)
(* main has not chosen its mode.                                           *)
CyclesInv ==
  /\ main \in {"load", "start", "schedule"} => \A c \in Cycles : cycle[c] = "none"
  /\ main = "oneshot" => \A c \in Cycles : c # 1 => cycle[c] # "running"
  /\ main \in {"wait", "wg"} => Running = {}

(* The sniffer runs only if configured, and main ends before it only by    *)
(* log.Fatalf.                                                             *)
SnifferInv ==
  /\ main \notin {"load", "start"} /\ cfg.sniffer /\ exit # "fatal"
       => sniffer # "off"
  /\ ~cfg.sniffer => sniffer = "off"

(* Load let the configuration pass, and the sniffer flushes after a signal.*)
WaitInv ==
  /\ main \notin {"load", "exited"} => Loads
  /\ main = "wait" => cfg.sniffer \/ ~NeedsCycle
  /\ sniffer = "flushed" => signalled

ExitInv == (main = "exited") <=> (exit # "no")

IndInv ==
  /\ TypeOK /\ CronInv /\ CyclesInv /\ SnifferInv /\ WaitInv /\ ExitInv
  /\ EndCutsNothing

LEMMA InitIndInv == Init => IndInv
BY DEF Init, IndInv, TypeOK, CronInv, CyclesInv, SnifferInv, WaitInv, ExitInv,
       EndCutsNothing, Configs

LEMMA NextIndInv == IndInv /\ [Next]_vars => IndInv'
<1> SUFFICES ASSUME IndInv, [Next]_vars PROVE IndInv'
    OBVIOUS
<1>0. TypeOK /\ CronInv /\ CyclesInv /\ SnifferInv /\ WaitInv /\ ExitInv
      /\ EndCutsNothing
  BY DEF IndInv
<1> USE <1>0
<1>1. CASE LoadConfig
  <2>1. TypeOK'
    BY <1>1 DEF LoadConfig, Exit, TypeOK
  <2>2. CronInv'
    BY <1>1 DEF LoadConfig, Exit, TypeOK, CronInv
  <2>3. CyclesInv'
    BY <1>1 DEF LoadConfig, Exit, TypeOK, CyclesInv, CronInv, Running, Cycles
  <2>4. SnifferInv'
    BY <1>1 DEF LoadConfig, Exit, TypeOK, SnifferInv, ExitInv, Configs
  <2>5. WaitInv'
    BY <1>1 DEF LoadConfig, Exit, TypeOK, WaitInv, Loads, NeedsCycle, Configs
  <2>6. ExitInv'
    BY <1>1 DEF LoadConfig, Exit, TypeOK, ExitInv
  <2>7. EndCutsNothing'
    BY <1>1 DEF LoadConfig, Exit, TypeOK, EndCutsNothing, CronInv, CyclesInv, SnifferInv, ExitInv, Running, Configs
  <2> QED
    BY <2>1, <2>2, <2>3, <2>4, <2>5, <2>6, <2>7 DEF IndInv
<1>2. CASE Start
  <2>1. TypeOK'
    BY <1>2 DEF Start, Exit, TypeOK
  <2>2. CronInv'
    BY <1>2 DEF Start, Exit, TypeOK, CronInv
  <2>3. CyclesInv'
    BY <1>2 DEF Start, Exit, TypeOK, CyclesInv, CronInv, Running, Cycles
  <2>4. SnifferInv'
    BY <1>2 DEF Start, Exit, TypeOK, SnifferInv, ExitInv, Configs
  <2>5. WaitInv'
    BY <1>2 DEF Start, Exit, TypeOK, WaitInv, Loads, NeedsCycle, Configs
  <2>6. ExitInv'
    BY <1>2 DEF Start, Exit, TypeOK, ExitInv
  <2>7. EndCutsNothing'
    BY <1>2 DEF Start, Exit, TypeOK, EndCutsNothing, CronInv, CyclesInv, SnifferInv, ExitInv, Running, Configs
  <2> QED
    BY <2>1, <2>2, <2>3, <2>4, <2>5, <2>6, <2>7 DEF IndInv
<1>3. CASE Schedule
  <2>1. TypeOK'
    BY <1>3 DEF Schedule, Exit, TypeOK
  <2>2. CronInv'
    BY <1>3 DEF Schedule, Exit, TypeOK, CronInv
  <2>3. CyclesInv'
    BY <1>3 DEF Schedule, Exit, TypeOK, CyclesInv, CronInv, Running, Cycles
  <2>4. SnifferInv'
    BY <1>3 DEF Schedule, Exit, TypeOK, SnifferInv, ExitInv, Configs
  <2>5. WaitInv'
    BY <1>3 DEF Schedule, Exit, TypeOK, WaitInv, Loads, NeedsCycle, Configs
  <2>6. ExitInv'
    BY <1>3 DEF Schedule, Exit, TypeOK, ExitInv
  <2>7. EndCutsNothing'
    BY <1>3 DEF Schedule, Exit, TypeOK, EndCutsNothing, CronInv, CyclesInv, SnifferInv, ExitInv, Running, Configs
  <2> QED
    BY <2>1, <2>2, <2>3, <2>4, <2>5, <2>6, <2>7 DEF IndInv
<1>4. CASE StopCron
  <2>1. TypeOK'
    BY <1>4 DEF StopCron, Exit, TypeOK
  <2>2. CronInv'
    BY <1>4 DEF StopCron, Exit, TypeOK, CronInv
  <2>3. CyclesInv'
    BY <1>4 DEF StopCron, Exit, TypeOK, CyclesInv, CronInv, Running, Cycles
  <2>4. SnifferInv'
    BY <1>4 DEF StopCron, Exit, TypeOK, SnifferInv, ExitInv, Configs
  <2>5. WaitInv'
    BY <1>4 DEF StopCron, Exit, TypeOK, WaitInv, Loads, NeedsCycle, Configs
  <2>6. ExitInv'
    BY <1>4 DEF StopCron, Exit, TypeOK, ExitInv
  <2>7. EndCutsNothing'
    BY <1>4 DEF StopCron, Exit, TypeOK, EndCutsNothing, CronInv, CyclesInv, SnifferInv, ExitInv, Running, Configs
  <2> QED
    BY <2>1, <2>2, <2>3, <2>4, <2>5, <2>6, <2>7 DEF IndInv
<1>5. CASE Drained
  <2>1. TypeOK'
    BY <1>5 DEF Drained, Exit, TypeOK
  <2>2. CronInv'
    BY <1>5 DEF Drained, Exit, TypeOK, CronInv
  <2>3. CyclesInv'
    BY <1>5 DEF Drained, Exit, TypeOK, CyclesInv, CronInv, Running, Cycles
  <2>4. SnifferInv'
    BY <1>5 DEF Drained, Exit, TypeOK, SnifferInv, ExitInv, Configs
  <2>5. WaitInv'
    BY <1>5 DEF Drained, Exit, TypeOK, WaitInv, Loads, NeedsCycle, Configs
  <2>6. ExitInv'
    BY <1>5 DEF Drained, Exit, TypeOK, ExitInv
  <2>7. EndCutsNothing'
    BY <1>5 DEF Drained, Exit, TypeOK, EndCutsNothing, CronInv, CyclesInv, SnifferInv, ExitInv, Running, Configs
  <2> QED
    BY <2>1, <2>2, <2>3, <2>4, <2>5, <2>6, <2>7 DEF IndInv
<1>6. CASE OneShotReturns
  <2>1. TypeOK'
    BY <1>6 DEF OneShotReturns, Exit, TypeOK
  <2>2. CronInv'
    BY <1>6 DEF OneShotReturns, Exit, TypeOK, CronInv
  <2>3. CyclesInv'
    BY <1>6 DEF OneShotReturns, Exit, TypeOK, CyclesInv, CronInv, Running, Cycles
  <2>4. SnifferInv'
    BY <1>6 DEF OneShotReturns, Exit, TypeOK, SnifferInv, ExitInv, Configs
  <2>5. WaitInv'
    BY <1>6 DEF OneShotReturns, Exit, TypeOK, WaitInv, Loads, NeedsCycle, Configs
  <2>6. ExitInv'
    BY <1>6 DEF OneShotReturns, Exit, TypeOK, ExitInv
  <2>7. EndCutsNothing'
    <3>1. Running' = {}
      BY <1>6 DEF OneShotReturns, CyclesInv, Running
    <3>2. CASE cfg.sniffer
      BY <1>6, <3>2 DEF OneShotReturns, ExitInv, EndCutsNothing
    <3>3. CASE ~cfg.sniffer
      <4>1. exit' # "fatal" /\ ~cron' /\ sniffer' = "off"
        BY <1>6, <3>3 DEF OneShotReturns, Exit, CronInv, SnifferInv
      <4> QED
        BY <3>1, <4>1 DEF EndCutsNothing
    <3> QED
      BY <3>2, <3>3
  <2> QED
    BY <2>1, <2>2, <2>3, <2>4, <2>5, <2>6, <2>7 DEF IndInv
<1>7. CASE WaitForSignal
  <2>1. TypeOK'
    BY <1>7 DEF WaitForSignal, Exit, TypeOK
  <2>2. CronInv'
    BY <1>7 DEF WaitForSignal, Exit, TypeOK, CronInv
  <2>3. CyclesInv'
    BY <1>7 DEF WaitForSignal, Exit, TypeOK, CyclesInv, CronInv, Running, Cycles
  <2>4. SnifferInv'
    BY <1>7 DEF WaitForSignal, Exit, TypeOK, SnifferInv, ExitInv, Configs
  <2>5. WaitInv'
    BY <1>7 DEF WaitForSignal, Exit, TypeOK, WaitInv, Loads, NeedsCycle, Configs
  <2>6. ExitInv'
    BY <1>7 DEF WaitForSignal, Exit, TypeOK, ExitInv
  <2>7. EndCutsNothing'
    BY <1>7 DEF WaitForSignal, Exit, TypeOK, EndCutsNothing, CronInv, CyclesInv, SnifferInv, ExitInv, Running, Configs
  <2> QED
    BY <2>1, <2>2, <2>3, <2>4, <2>5, <2>6, <2>7 DEF IndInv
<1>8. CASE WgWait
  <2>1. TypeOK'
    BY <1>8 DEF WgWait, Exit, TypeOK
  <2>2. CronInv'
    BY <1>8 DEF WgWait, Exit, TypeOK, CronInv
  <2>3. CyclesInv'
    BY <1>8 DEF WgWait, Exit, TypeOK, CyclesInv, CronInv, Running, Cycles
  <2>4. SnifferInv'
    BY <1>8 DEF WgWait, Exit, TypeOK, SnifferInv, ExitInv, Configs
  <2>5. WaitInv'
    BY <1>8 DEF WgWait, Exit, TypeOK, WaitInv, Loads, NeedsCycle, Configs
  <2>6. ExitInv'
    BY <1>8 DEF WgWait, Exit, TypeOK, ExitInv
  <2>7. EndCutsNothing'
    BY <1>8 DEF WgWait, Exit, TypeOK, EndCutsNothing, CronInv, CyclesInv, SnifferInv, ExitInv, Running, Configs
  <2> QED
    BY <2>1, <2>2, <2>3, <2>4, <2>5, <2>6, <2>7 DEF IndInv
<1>9. CASE Signal
  <2>1. TypeOK'
    BY <1>9 DEF Signal, Exit, TypeOK
  <2>2. CronInv'
    BY <1>9 DEF Signal, Exit, TypeOK, CronInv
  <2>3. CyclesInv'
    BY <1>9 DEF Signal, Exit, TypeOK, CyclesInv, CronInv, Running, Cycles
  <2>4. SnifferInv'
    BY <1>9 DEF Signal, Exit, TypeOK, SnifferInv, ExitInv, Configs
  <2>5. WaitInv'
    BY <1>9 DEF Signal, Exit, TypeOK, WaitInv, Loads, NeedsCycle, Configs
  <2>6. ExitInv'
    BY <1>9 DEF Signal, Exit, TypeOK, ExitInv
  <2>7. EndCutsNothing'
    BY <1>9 DEF Signal, Exit, TypeOK, EndCutsNothing, CronInv, CyclesInv, SnifferInv, ExitInv, Running, Configs
  <2> QED
    BY <2>1, <2>2, <2>3, <2>4, <2>5, <2>6, <2>7 DEF IndInv
<1>10. CASE SnifferFails
  <2>1. TypeOK'
    BY <1>10 DEF SnifferFails, Exit, TypeOK
  <2>2. CronInv'
    BY <1>10 DEF SnifferFails, Exit, TypeOK, CronInv
  <2>3. CyclesInv'
    BY <1>10 DEF SnifferFails, Exit, TypeOK, CyclesInv, CronInv, Running, Cycles
  <2>4. SnifferInv'
    BY <1>10 DEF SnifferFails, Exit, TypeOK, SnifferInv, ExitInv, Configs
  <2>5. WaitInv'
    BY <1>10 DEF SnifferFails, Exit, TypeOK, WaitInv, Loads, NeedsCycle, Configs
  <2>6. ExitInv'
    BY <1>10 DEF SnifferFails, Exit, TypeOK, ExitInv
  <2>7. EndCutsNothing'
    BY <1>10 DEF SnifferFails, Exit, TypeOK, EndCutsNothing, CronInv, CyclesInv, SnifferInv, ExitInv, Running, Configs
  <2> QED
    BY <2>1, <2>2, <2>3, <2>4, <2>5, <2>6, <2>7 DEF IndInv
<1>11. CASE SnifferFlushes
  <2>1. TypeOK'
    BY <1>11 DEF SnifferFlushes, Exit, TypeOK
  <2>2. CronInv'
    BY <1>11 DEF SnifferFlushes, Exit, TypeOK, CronInv
  <2>3. CyclesInv'
    BY <1>11 DEF SnifferFlushes, Exit, TypeOK, CyclesInv, CronInv, Running, Cycles
  <2>4. SnifferInv'
    BY <1>11 DEF SnifferFlushes, Exit, TypeOK, SnifferInv, ExitInv, Configs
  <2>5. WaitInv'
    BY <1>11 DEF SnifferFlushes, Exit, TypeOK, WaitInv, Loads, NeedsCycle, Configs
  <2>6. ExitInv'
    BY <1>11 DEF SnifferFlushes, Exit, TypeOK, ExitInv
  <2>7. EndCutsNothing'
    BY <1>11 DEF SnifferFlushes, Exit, TypeOK, EndCutsNothing, CronInv, CyclesInv, SnifferInv, ExitInv, Running, Configs
  <2> QED
    BY <2>1, <2>2, <2>3, <2>4, <2>5, <2>6, <2>7 DEF IndInv
<1>12. ASSUME NEW c \in Cycles, Tick(c) PROVE IndInv'
  <2>1. TypeOK'
    BY <1>12 DEF Tick, Exit, TypeOK
  <2>2. CronInv'
    BY <1>12 DEF Tick, Exit, TypeOK, CronInv
  <2>3. CyclesInv'
    BY <1>12 DEF Tick, Exit, TypeOK, CyclesInv, CronInv, Running, Cycles
  <2>4. SnifferInv'
    BY <1>12 DEF Tick, Exit, TypeOK, SnifferInv, ExitInv, Configs
  <2>5. WaitInv'
    BY <1>12 DEF Tick, Exit, TypeOK, WaitInv, Loads, NeedsCycle, Configs
  <2>6. ExitInv'
    BY <1>12 DEF Tick, Exit, TypeOK, ExitInv
  <2>7. EndCutsNothing'
    BY <1>12 DEF Tick, Exit, TypeOK, EndCutsNothing, CronInv, CyclesInv, SnifferInv, ExitInv, Running, Configs
  <2> QED
    BY <2>1, <2>2, <2>3, <2>4, <2>5, <2>6, <2>7 DEF IndInv
<1>13. ASSUME NEW c \in Cycles, CycleReturns(c) PROVE IndInv'
  <2>1. TypeOK'
    BY <1>13 DEF CycleReturns, Exit, TypeOK
  <2>2. CronInv'
    BY <1>13 DEF CycleReturns, Exit, TypeOK, CronInv
  <2>3. CyclesInv'
    BY <1>13 DEF CycleReturns, Exit, TypeOK, CyclesInv, CronInv, Running, Cycles
  <2>4. SnifferInv'
    BY <1>13 DEF CycleReturns, Exit, TypeOK, SnifferInv, ExitInv, Configs
  <2>5. WaitInv'
    BY <1>13 DEF CycleReturns, Exit, TypeOK, WaitInv, Loads, NeedsCycle, Configs
  <2>6. ExitInv'
    BY <1>13 DEF CycleReturns, Exit, TypeOK, ExitInv
  <2>7. EndCutsNothing'
    BY <1>13 DEF CycleReturns, Exit, TypeOK, EndCutsNothing, CronInv, CyclesInv, SnifferInv, ExitInv, Running, Configs
  <2> QED
    BY <2>1, <2>2, <2>3, <2>4, <2>5, <2>6, <2>7 DEF IndInv
<1>14. CASE Exited \/ UNCHANGED vars
  <2>1. TypeOK'
    BY <1>14 DEF Exited, vars, Exit, TypeOK
  <2>2. CronInv'
    BY <1>14 DEF Exited, vars, Exit, TypeOK, CronInv
  <2>3. CyclesInv'
    BY <1>14 DEF Exited, vars, Exit, TypeOK, CyclesInv, CronInv, Running, Cycles
  <2>4. SnifferInv'
    BY <1>14 DEF Exited, vars, Exit, TypeOK, SnifferInv, ExitInv, Configs
  <2>5. WaitInv'
    BY <1>14 DEF Exited, vars, Exit, TypeOK, WaitInv, Loads, NeedsCycle, Configs
  <2>6. ExitInv'
    BY <1>14 DEF Exited, vars, Exit, TypeOK, ExitInv
  <2>7. EndCutsNothing'
    BY <1>14 DEF Exited, vars, Exit, TypeOK, EndCutsNothing, CronInv, CyclesInv, SnifferInv, ExitInv, Running, Configs
  <2> QED
    BY <2>1, <2>2, <2>3, <2>4, <2>5, <2>6, <2>7 DEF IndInv
<1> QED
  BY <1>1, <1>2, <1>3, <1>4, <1>5, <1>6, <1>7, <1>8, <1>9, <1>10, <1>11,
     <1>12, <1>13, <1>14 DEF Next, MainStep

LEMMA SpecIndInv == Spec => []IndInv
BY InitIndInv, NextIndInv, PTL DEF Spec

----------------------------------------------------------------------------
(* Every variable keeps its type.                                          *)
THEOREM TypeCorrect == Spec => []TypeOK
BY SpecIndInv, PTL DEF IndInv

(* The process cuts off neither a cycle nor, unless log.Fatalf ends it, the*)
(* sniffer, however many cycles overlap (main.go:77-98, 116-119).          *)
THEOREM EndIsClean == Spec => []EndCutsNothing
BY SpecIndInv, PTL DEF IndInv

(* The only ways to wait with nothing at work (main.go:68, 112-115).       *)
THEOREM IdleIsExplained == Spec => []IdleOnlyIf
<1>1. IndInv => IdleOnlyIf
      BY DEF IndInv, TypeOK, Configs, SnifferInv, WaitInv, ExitInv, Loads,
             NeedsCycle, IdleOnlyIf
<1> QED
      BY <1>1, SpecIndInv, PTL
=============================================================================
