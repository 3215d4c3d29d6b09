------------------------------ MODULE GoProbe -------------------------------
(***************************************************************************)
(* main.go and the validation of config/config.go: the life of the Go      *)
(* process.  A goroutine runs the passive sniffer; scan cycles run once in *)
(* main itself or, with a schedule, in goroutines that cron starts at each *)
(* tick, whether or not an earlier one still runs.  A signal cancels the   *)
(* context; main then waits for whatever runs.                             *)
(*                                                                         *)
(* A cycle is ScanCycle and the sniffer is SnifferCapture, seen from       *)
(* outside: when they may begin and end, and with or without an error.     *)
(* robfig/cron is external: Stop lets no new job begin and its context is  *)
(* done when the running ones are.  The signal comes after NotifyContext.  *)
(***************************************************************************)
EXTENDS Naturals

CONSTANT MaxCycles   \* bound: cycles that the process starts

ASSUME CyclesAssumption == MaxCycles \in Nat \ {0}

Cycles  == 1 .. MaxCycles
Configs == [required   : BOOLEAN,   \* probe.name, apiKey and endpoint given
            networks   : BOOLEAN,   \* scan.networks is not empty
            activeScan : BOOLEAN,   \* mode.activeScan
            certStore  : BOOLEAN,   \* certStore.enabled
            sniffer    : BOOLEAN,   \* mode.passiveSniffer
            interface  : BOOLEAN,   \* sniffer.interface given
            schedule   : {"", "valid", "invalid"}]

VARIABLES
  cfg,        \* the configuration, constant
  main,       \* where main is
  signalled,  \* SIGTERM or SIGINT: ctx is done
  sniffer,    \* the goroutine of the sniffer, counted in wg while it runs
  cycle,      \* [Cycles -> ..]
  cron,       \* the scheduler starts jobs
  exit        \* how the process ended: "no", "fatal", 0 or 1 (as strings)

vars == <<cfg, main, signalled, sniffer, cycle, cron, exit>>

TypeOK ==
  /\ cfg \in Configs
  /\ main \in {"load", "start", "schedule", "scheduled", "draining",
               "oneshot", "wait", "wg", "exited"}
  /\ signalled \in BOOLEAN
  /\ sniffer \in {"off", "running", "failed", "flushed"}
  /\ cycle \in [Cycles -> {"none", "running", "ok", "error"}]
  /\ cron \in BOOLEAN
  /\ exit \in {"no", "fatal", "0", "1"}

Init ==
  /\ cfg \in Configs
  /\ main = "load"
  /\ signalled = FALSE
  /\ sniffer = "off"
  /\ cycle = [c \in Cycles |-> "none"]
  /\ cron = FALSE
  /\ exit = "no"

Running == {c \in Cycles : cycle[c] = "running"}

Exit(how) == main' = "exited" /\ exit' = how

----------------------------------------------------------------------------
(* Mutant: Load does not ask for a method of discovery.                    *)
LoadsWithoutMethod ==
  cfg.required /\ (cfg.sniffer => cfg.interface)

(* config.Load returns no error.                                           *)
Loads ==
  /\ cfg.required
  /\ cfg.networks \/ cfg.certStore \/ cfg.sniffer
  /\ cfg.sniffer => cfg.interface

LoadConfig ==
  /\ main = "load"
  /\ IF Loads THEN main' = "start" /\ UNCHANGED exit ELSE Exit("fatal")
  /\ UNCHANGED <<cfg, signalled, sniffer, cycle, cron>>

NeedsCycle == (cfg.activeScan /\ cfg.networks) \/ cfg.certStore

(* The sniffer's goroutine, and which way main goes.                       *)
Start ==
  /\ main = "start"
  /\ sniffer' = IF cfg.sniffer THEN "running" ELSE "off"
  /\ main' = IF ~NeedsCycle THEN "wait"
             ELSE IF cfg.schedule # "" THEN "schedule" ELSE "oneshot"
  /\ cycle' = IF main' = "oneshot" THEN [cycle EXCEPT ![1] = "running"]
                                   ELSE cycle
  /\ UNCHANGED <<cfg, signalled, cron, exit>>

(* cron.AddFunc and Start.  log.Fatalf ends the process at once.           *)
Schedule ==
  /\ main = "schedule"
  /\ IF cfg.schedule = "valid"
     THEN main' = "scheduled" /\ cron' = TRUE /\ UNCHANGED exit
     ELSE Exit("fatal") /\ UNCHANGED cron
  /\ UNCHANGED <<cfg, signalled, sniffer, cycle>>

Signal ==
  /\ main \notin {"load", "exited"} /\ ~signalled
  /\ signalled' = TRUE
  /\ UNCHANGED <<cfg, main, sniffer, cycle, cron, exit>>

----------------------------------------------------------------------------
(* A tick of cron: a new goroutine, whatever the others do.                *)
Tick(c) ==
  /\ cron /\ main # "exited"
  /\ cycle[c] = "none" /\ \A d \in 1 .. c - 1 : cycle[d] # "none"
  /\ cycle' = [cycle EXCEPT ![c] = "running"]
  /\ UNCHANGED <<cfg, main, signalled, sniffer, cron, exit>>

(* runCycle returns; a scheduled one's error is only logged.               *)
CycleReturns(c) ==
  /\ main # "exited" /\ cycle[c] = "running"
  /\ \E result \in {"ok", "error"} : cycle' = [cycle EXCEPT ![c] = result]
  /\ UNCHANGED <<cfg, main, signalled, sniffer, cron, exit>>

(* sniffer.Run returns an error: no handle, no filter, or the source closed*)
SnifferFails ==
  /\ main # "exited" /\ sniffer = "running"
  /\ sniffer' = "failed"
  /\ UNCHANGED <<cfg, main, signalled, cycle, cron, exit>>

(* It returns after its last flush, once ctx is done.                      *)
SnifferFlushes ==
  /\ main # "exited" /\ sniffer = "running" /\ signalled
  /\ sniffer' = "flushed"
  /\ UNCHANGED <<cfg, main, signalled, cycle, cron, exit>>

----------------------------------------------------------------------------
(* <-ctx.Done() and c.Stop().                                              *)
StopCron ==
  /\ main = "scheduled" /\ signalled
  /\ cron' = FALSE
  /\ main' = "draining"
  /\ UNCHANGED <<cfg, signalled, sniffer, cycle, exit>>

(* Mutant: main waits for the job that was started last.                   *)
DrainedOfLast ==
  /\ main = "draining"
  /\ \A c \in Running : \E d \in Cycles : d > c /\ cycle[d] \in {"ok", "error"}
  /\ main' = "wg"
  /\ UNCHANGED <<cfg, signalled, sniffer, cycle, cron, exit>>

(* <-c.Stop().Done().                                                      *)
Drained ==
  /\ main = "draining" /\ Running = {}
  /\ main' = "wg"
  /\ UNCHANGED <<cfg, signalled, sniffer, cycle, cron, exit>>

(* Mutant: a cycle that failed is run again, and ctx is not looked at.     *)
OneShotRetries ==
  /\ main = "oneshot" /\ cycle[1] # "running"
  /\ IF cycle[1] = "error"
     THEN cycle' = [cycle EXCEPT ![1] = "running"] /\ UNCHANGED <<main, exit>>
     ELSE /\ IF cfg.sniffer THEN main' = "wait" /\ UNCHANGED exit ELSE Exit("0")
          /\ UNCHANGED cycle
  /\ UNCHANGED <<cfg, signalled, sniffer, cron>>

(* One-shot mode: without a sniffer the process ends with the cycle.       *)
OneShotReturns ==
  /\ main = "oneshot" /\ cycle[1] # "running"
  /\ IF cfg.sniffer THEN main' = "wait" /\ UNCHANGED exit
     ELSE Exit(IF cycle[1] = "error" THEN "1" ELSE "0")
  /\ UNCHANGED <<cfg, signalled, sniffer, cycle, cron>>

(* <-ctx.Done().                                                           *)
WaitForSignal ==
  /\ main = "wait" /\ signalled
  /\ main' = "wg"
  /\ UNCHANGED <<cfg, signalled, sniffer, cycle, cron, exit>>

(* wg.Wait, and main returns.                                              *)
WgWait ==
  /\ main = "wg" /\ sniffer # "running"
  /\ Exit("0")
  /\ UNCHANGED <<cfg, signalled, sniffer, cycle, cron>>

Exited == main = "exited" /\ UNCHANGED vars

----------------------------------------------------------------------------
MainStep ==
  \/ LoadConfig \/ Start \/ Schedule \/ StopCron \/ Drained
  \/ OneShotReturns \/ WaitForSignal \/ WgWait

Next ==
  \/ MainStep
  \/ Signal \/ SnifferFails \/ SnifferFlushes
  \/ \E c \in Cycles : Tick(c) \/ CycleReturns(c)
  \/ Exited

Spec == Init /\ [][Next]_vars

(* Main goes on when it can; a cycle ends (CycleEnds of ScanCycle), and so *)
(* does the sniffer after the signal (CancelReturns of SnifferCapture).    *)
(* Nothing is assumed of signals, ticks and the sniffer's failures.        *)
FairSpec ==
  /\ Spec
  /\ WF_vars(MainStep)
  /\ WF_vars(SnifferFlushes)
  /\ \A c \in Cycles : WF_vars(CycleReturns(c))
----------------------------------------------------------------------------
(* When the process ends other than by log.Fatalf, no cycle is cut off,    *)
(* however many overlap, and the sniffer has made its last flush or failed *)
(* before; and it ends by log.Fatalf only before any cycle began           *)
(* (main.go:77-98, 116-119).                                               *)
EndCutsNothing ==
  main = "exited" =>
    /\ Running = {} /\ ~cron
    /\ exit # "fatal" => sniffer # "running"
    /\ exit = "fatal" => \A c \in Cycles : cycle[c] = "none"

(* A process that waits for its signal with nothing at work was configured *)
(* with networks that mode.activeScan does not let it scan, or its sniffer *)
(* failed; config.Load refuses all other ways to do nothing (main.go:68,   *)
(* 112-115, config.go:114-119).                                            *)
IdleOnlyIf ==
  (main = "wait" /\ ~signalled /\ sniffer # "running") =>
    \/ sniffer = "failed"
    \/ cfg.networks /\ ~cfg.activeScan

(* After a signal the process ends, in whichever of its waits the signal   *)
(* finds it, and so does one that has a single cycle to run and no sniffer,*)
(* without a signal (main.go:88-119).                                      *)
ProbeEnds ==
  /\ signalled ~> (main = "exited")
  /\ (main = "oneshot" /\ ~cfg.sniffer) ~> (main = "exited")
=============================================================================
