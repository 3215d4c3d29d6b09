----------------------------- MODULE PySniffer -----------------------------
(***************************************************************************)
(* sniffer.py and the part of main.py that starts and joins it: the        *)
(* capture thread (run, with scapy's sniff calling on_packet), the flush   *)
(* thread (flush_loop) and the main thread.  Capture and flush thread are  *)
(* daemons: they die with the process when main returns.                   *)
(*                                                                         *)
(* buf is changed under buf_lock only, which makes the body of each `with' *)
(* one step.  Whether sender.send succeeds or raises, _flush goes on.      *)
(* Time is abstract: a join with a timeout may give up at any moment.      *)
(***************************************************************************)
EXTENDS Naturals, FiniteSets

CONSTANTS Assets,      \* UIDs
          MaxBuf       \* max_buf, at least 1

ASSUME AssetsAssumption == IsFiniteSet(Assets)
ASSUME MaxBufAssumption == MaxBuf \in Nat \ {0}

VARIABLES
  main,       \* "running", "joining" the capture thread, "exited"
  stopEvent,  \* stop_event is set
  pc,         \* [capture, flusher]: where each thread is
  buf,        \* keys of the shared dictionary
  batch,      \* [capture, flusher]: `assets' of the running _flush
  rushed,     \* history: a join gave up
  owed        \* history: captured, sender.send has not returned for it

vars == <<main, stopEvent, pc, buf, batch, rushed, owed>>

Threads == {"capture", "flusher"}

CapturePlaces == {"starting", "sniffing", "filter", "early", "sendEarly",
                  "joining", "final", "sendFinal", "ended"}
FlusherPlaces == {"none", "checking", "waiting", "take", "send", "ended"}

TypeOK ==
  /\ main \in {"running", "joining", "exited"}
  /\ stopEvent \in BOOLEAN /\ rushed \in BOOLEAN
  /\ pc \in [capture : CapturePlaces, flusher : FlusherPlaces]
  /\ buf \subseteq Assets
  /\ batch \in [Threads -> SUBSET Assets]
  /\ owed \subseteq Assets

Init ==
  /\ main = "running" /\ stopEvent = FALSE
  /\ pc = [capture |-> "starting", flusher |-> "none"]
  /\ buf = {}
  /\ batch = [t \in Threads |-> {}]
  /\ rushed = FALSE
  /\ owed = {}

Alive == main # "exited"

(* A thread goes from one place to another.                                *)
Goes(t, from, to) == Alive /\ pc[t] = from /\ pc' = [pc EXCEPT ![t] = to]

----------------------------------------------------------------------------
(* run: scapy is missing and run returns; or the flush thread is started.  *)
NoScapy ==
  /\ Goes("capture", "starting", "ended")
  /\ UNCHANGED <<main, stopEvent, buf, batch, rushed, owed>>

Start ==
  /\ Alive /\ pc.capture = "starting"
  /\ pc' = [capture |-> "sniffing", flusher |-> "checking"]
  /\ UNCHANGED <<main, stopEvent, buf, batch, rushed, owed>>

(* Mutant: the early flush waits for one asset more.                       *)
OnPacketOneMore(found) ==
  /\ buf' = buf \union found
  /\ owed' = owed \union found
  /\ Goes("capture", "sniffing", IF found # {} /\ Cardinality(buf') > MaxBuf
                                   THEN "early" ELSE "filter")
  /\ UNCHANGED <<main, stopEvent, batch, rushed>>

(* on_packet: the certificates of a packet, and the depth that decides on  *)
(* an early flush.                                                         *)
OnPacket(found) ==
  /\ buf' = buf \union found
  /\ owed' = owed \union found
  /\ Goes("capture", "sniffing", IF found # {} /\ Cardinality(buf') >= MaxBuf
                                   THEN "early" ELSE "filter")
  /\ UNCHANGED <<main, stopEvent, batch, rushed>>

(* stop_filter, which scapy asks after each packet and at no other time.   *)
StopFilter ==
  /\ Goes("capture", "filter", IF stopEvent THEN "joining" ELSE "sniffing")
  /\ UNCHANGED <<main, stopEvent, buf, batch, rushed, owed>>

(* sniff raises: no such interface, no permission, link down.              *)
SniffFails ==
  /\ Goes("capture", "sniffing", "joining")
  /\ UNCHANGED <<main, stopEvent, buf, batch, rushed, owed>>

(* Mutant: the flush thread is not waited for.                             *)
JoinFlusherAtOnce ==
  /\ Goes("capture", "joining", "final")
  /\ UNCHANGED <<main, stopEvent, buf, batch, rushed, owed>>

(* flush_thread.join(timeout=10), then the final flush.                    *)
JoinFlusher ==
  /\ Goes("capture", "joining", "final")
  /\ rushed' = (rushed \/ pc.flusher # "ended")
  /\ UNCHANGED <<main, stopEvent, buf, batch, owed>>

----------------------------------------------------------------------------
(* Mutant: the flush loop ends with the capture thread.                    *)
CheckStopOrCapture ==
  /\ Goes("flusher", "checking",
          IF stopEvent \/ pc.capture = "ended" THEN "ended" ELSE "waiting")
  /\ UNCHANGED <<main, stopEvent, buf, batch, rushed, owed>>

(* flush_loop: the loop condition, and stop_event.wait(flush_secs), which  *)
(* times out or returns because the event is set.                          *)
CheckStop ==
  /\ Goes("flusher", "checking", IF stopEvent THEN "ended" ELSE "waiting")
  /\ UNCHANGED <<main, stopEvent, buf, batch, rushed, owed>>

FlushWait ==
  /\ Goes("flusher", "waiting", "take")
  /\ UNCHANGED <<main, stopEvent, buf, batch, rushed, owed>>

(* _flush, of either thread.                                               *)
Sending  == [early |-> "sendEarly", final |-> "sendFinal", take |-> "send"]
AfterSend == [sendEarly |-> "filter", sendFinal |-> "ended", send |-> "checking"]

(* Mutant: the dictionary is not cleared.                                  *)
TakeCopy(t) ==
  /\ pc[t] \in DOMAIN Sending
  /\ Goes(t, pc[t], Sending[pc[t]])
  /\ batch' = [batch EXCEPT ![t] = buf]
  /\ UNCHANGED <<main, stopEvent, buf, rushed, owed>>

Take(t) ==
  /\ pc[t] \in DOMAIN Sending
  /\ Goes(t, pc[t], Sending[pc[t]])
  /\ batch' = [batch EXCEPT ![t] = buf]
  /\ buf' = {}
  /\ UNCHANGED <<main, stopEvent, rushed, owed>>

(* Mutant: the buffer is emptied once the batch has been sent.             *)
SendEndsAndClears(t) ==
  /\ pc[t] \in DOMAIN AfterSend
  /\ Goes(t, pc[t], AfterSend[pc[t]])
  /\ owed' = owed \ batch[t]
  /\ batch' = [batch EXCEPT ![t] = {}]
  /\ buf' = {}
  /\ UNCHANGED <<main, stopEvent, rushed>>

SendEnds(t) ==
  /\ pc[t] \in DOMAIN AfterSend
  /\ Goes(t, pc[t], AfterSend[pc[t]])
  /\ owed' = owed \ batch[t]
  /\ batch' = [batch EXCEPT ![t] = {}]
  /\ UNCHANGED <<main, stopEvent, buf, rushed>>

----------------------------------------------------------------------------
(* main: the signal handler; the scan cycle or the heartbeat loop ends and *)
(* main waits for stop_event; sniffer_thread.join(timeout=15); return.     *)
Signal ==
  /\ Alive /\ ~stopEvent
  /\ stopEvent' = TRUE
  /\ UNCHANGED <<main, pc, buf, batch, rushed, owed>>

StopSeen ==
  /\ main = "running" /\ stopEvent
  /\ main' = "joining"
  /\ UNCHANGED <<stopEvent, pc, buf, batch, rushed, owed>>

(* Mutant: the join has no timeout.                                        *)
JoinForEver ==
  /\ main = "joining" /\ pc.capture = "ended"
  /\ main' = "exited"
  /\ UNCHANGED <<stopEvent, pc, buf, batch, rushed, owed>>

JoinCapture ==
  /\ main = "joining"
  /\ main' = "exited"
  /\ rushed' = (rushed \/ pc.capture # "ended")
  /\ UNCHANGED <<stopEvent, pc, buf, batch, owed>>

Exited == main = "exited" /\ UNCHANGED vars

MainStep == StopSeen \/ JoinCapture

(* The steps of a thread that do not wait for a packet.                    *)
CaptureStep ==
  \/ NoScapy \/ Start
  \/ StopFilter \/ JoinFlusher
  \/ Take("capture") \/ SendEnds("capture")

FlusherStep ==
  CheckStop \/ FlushWait \/ Take("flusher") \/ SendEnds("flusher")

Next ==
  \/ MainStep \/ CaptureStep \/ FlusherStep
  \/ \E found \in SUBSET Assets : OnPacket(found)
  \/ SniffFails \/ Signal
  \/ Exited

Spec == Init /\ [][Next]_vars

(* Every thread is scheduled; calls with a timeout return.  Nothing is     *)
(* assumed of packets, of the interface or of signals.                     *)
FairSpec ==
  Spec /\ WF_vars(MainStep) /\ WF_vars(CaptureStep) /\ WF_vars(FlusherStep)

----------------------------------------------------------------------------
(* Until the process exits, every captured asset is in the buffer or in    *)
(* the batch of a running _flush: two threads that flush at the same time, *)
(* while packets come in, lose none (sniffer.py:99-102 and 152-155).       *)
NothingLost ==
  Alive => owed \subseteq buf \union batch["capture"] \union batch["flusher"]

(* When the capture thread looks for the next packet the buffer is below   *)
(* its limit (config.yaml.example:65-66): it grows in this thread only,    *)
(* and this thread flushes when it reaches the limit.                      *)
BufferIsBounded ==
  pc.capture \in {"sniffing", "filter"} => Cardinality(buf) < MaxBuf

(* If neither join gives up, nothing captured is unsent when the process   *)
(* exits: the flush thread has ended before the final flush, and the       *)
(* capture thread before main (main.py:124, sniffer.py:138-139).           *)
PatientExitOwesNothing == main = "exited" /\ ~rushed => owed = {}

(* A signal ends the process, whatever the other threads wait for.         *)
SignalEndsProcess == stopEvent ~> (main = "exited")

(* What is buffered leaves the buffer, also after the capture has failed.  *)
BufferedIsFlushed == (buf # {}) ~> (buf = {} \/ main = "exited")

(* sniffer.py:131-133: the failure of sniff does not silence the probe,    *)
(* whose flush thread goes on posting reports until the signal.            *)
ReportsContinue ==
  (pc.capture = "ended" /\ pc.flusher # "none") ~>
    (pc.flusher = "send" \/ stopEvent)
=============================================================================
