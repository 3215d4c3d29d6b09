-------------------------- MODULE PySnifferProofs --------------------------
(***************************************************************************)
(* Proofs about PySniffer, for any finite set of assets and any limit of   *)
(* the buffer.                                                             *)
(***************************************************************************)
EXTENDS PySniffer, FiniteSetTheorems, TLAPS

----------------------------------------------------------------------------
(* The inductive invariant.                                                *)

(* A thread has a batch only while it sends.                               *)
BatchInv == \A t \in Threads : pc[t] \notin DOMAIN AfterSend => batch[t] = {}

(* No asset is captured before sniff starts and none after it returned:    *)
(* what the capture thread took is all there is.                           *)
EmptyInv ==
  pc.capture \in {"starting", "sendEarly", "sendFinal", "ended"} => buf = {}

(* The flush thread lives as long as the capture thread needs it, and has  *)
(* ended before the final flush if the join did not give up.               *)
JoinInv ==
  /\ pc.capture = "starting" => pc.flusher = "none"
  /\ pc.capture \in {"final", "sendFinal"} /\ ~rushed => pc.flusher = "ended"
  /\ pc.capture = "ended" /\ ~rushed => pc.flusher \in {"none", "ended"}

IndInv ==
  /\ TypeOK /\ BatchInv /\ EmptyInv /\ JoinInv
  /\ NothingLost /\ BufferIsBounded /\ PatientExitOwesNothing

----------------------------------------------------------------------------
(* An empty buffer is below every limit.                                   *)
LEMMA EmptyIsBelow == Cardinality({}) < MaxBuf
  BY FS_EmptySet, MaxBufAssumption

(* The size of a buffer is a number.                                       *)
LEMMA SizeIsNat == ASSUME NEW S \in SUBSET Assets PROVE Cardinality(S) \in Nat
  BY FS_Subset, FS_CardinalityType, AssetsAssumption

(* The invariant holds at the start.                                       *)
LEMMA InitEstablishes == Init => IndInv
<1> SUFFICES ASSUME Init PROVE IndInv
  OBVIOUS
<1> USE DEF Init
<1>1. TypeOK
  BY DEF TypeOK, CapturePlaces, FlusherPlaces
<1>2. BatchInv /\ EmptyInv /\ JoinInv /\ NothingLost /\ PatientExitOwesNothing
  BY DEF BatchInv, EmptyInv, JoinInv, NothingLost, PatientExitOwesNothing
<1>3. BufferIsBounded
  BY DEF BufferIsBounded
<1> QED
  BY <1>1, <1>2, <1>3 DEF IndInv

----------------------------------------------------------------------------
(* Steps of a thread that only go to another place.                        *)
LEMMA MovesPreserve ==
  ASSUME IndInv,
         NoScapy \/ StopFilter \/ SniffFails \/ JoinFlusher
           \/ CheckStop \/ FlushWait
  PROVE  IndInv'
<1> USE DEF IndInv, TypeOK, CapturePlaces, FlusherPlaces, Threads,
            BatchInv, EmptyInv, JoinInv, NothingLost, BufferIsBounded,
            PatientExitOwesNothing, AfterSend, Goes, Alive
<1>1. CASE NoScapy
  BY <1>1 DEF NoScapy
<1>2. CASE StopFilter
  BY <1>2 DEF StopFilter
<1>3. CASE SniffFails
  BY <1>3 DEF SniffFails
<1>4. CASE JoinFlusher
  BY <1>4 DEF JoinFlusher
<1>5. CASE CheckStop
  BY <1>5 DEF CheckStop
<1>6. CASE FlushWait
  BY <1>6 DEF FlushWait
<1> QED
  BY <1>1, <1>2, <1>3, <1>4, <1>5, <1>6

(* The flush thread is started.                                            *)
LEMMA StartPreserves == IndInv /\ Start => IndInv'
<1> SUFFICES ASSUME IndInv, Start PROVE IndInv'
  OBVIOUS
<1>1. buf' = {} /\ Cardinality(buf') < MaxBuf
  BY EmptyIsBelow DEF Start, IndInv, EmptyInv
<1> QED
  BY <1>1 DEF IndInv, TypeOK, CapturePlaces, FlusherPlaces, Threads,
              BatchInv, EmptyInv, JoinInv, NothingLost, BufferIsBounded,
              PatientExitOwesNothing, AfterSend, Alive, Start

(* A packet: below the limit, or an early flush follows.                   *)
LEMMA OnPacketPreserves ==
  ASSUME IndInv, NEW found \in SUBSET Assets, OnPacket(found)
  PROVE  IndInv'
<1> USE DEF OnPacket, Goes, Alive
<1>1. TypeOK'
  BY DEF IndInv, TypeOK, CapturePlaces, FlusherPlaces
<1>2. BufferIsBounded'
  <2>1. CASE found = {}
    BY <2>1 DEF IndInv, BufferIsBounded
  <2>2. CASE found # {}
    <3>1. buf' \in SUBSET Assets
      BY <1>1 DEF TypeOK
    <3>2. Cardinality(buf') \in Nat
      BY <3>1, SizeIsNat
    <3>3. CASE Cardinality(buf') >= MaxBuf
      <4>1. pc.capture' = "early"
        BY <2>2, <3>3 DEF IndInv, TypeOK
      <4> QED
        BY <4>1 DEF BufferIsBounded
    <3>4. CASE ~(Cardinality(buf') >= MaxBuf)
      BY <3>2, <3>4, MaxBufAssumption DEF BufferIsBounded
    <3> QED
      BY <3>3, <3>4
  <2> QED
    BY <2>1, <2>2
<1>3. pc.capture' \in {"early", "filter"} /\ pc.flusher' = pc.flusher
  BY DEF IndInv, TypeOK
<1>4. BatchInv' /\ EmptyInv' /\ JoinInv' /\ NothingLost' /\ PatientExitOwesNothing'
  BY <1>3 DEF IndInv, BatchInv, EmptyInv, JoinInv, NothingLost, AfterSend,
              PatientExitOwesNothing, Threads, TypeOK
<1> QED
  BY <1>1, <1>2, <1>4 DEF IndInv

----------------------------------------------------------------------------
(* The first half of _flush.                                               *)
LEMMA TakePreserves ==
  ASSUME IndInv, NEW t \in Threads, Take(t)
  PROVE  IndInv'
<1> USE DEF IndInv, TypeOK, CapturePlaces, FlusherPlaces, Threads,
            Take, Goes, Alive, Sending, AfterSend
<1>1. TypeOK'
  OBVIOUS
<1>2. BatchInv' /\ EmptyInv' /\ JoinInv'
  BY DEF BatchInv, EmptyInv, JoinInv
<1>3. NothingLost' /\ PatientExitOwesNothing'
  BY DEF NothingLost, PatientExitOwesNothing, BatchInv
<1>4. BufferIsBounded'
  BY EmptyIsBelow DEF BufferIsBounded
<1> QED
  BY <1>1, <1>2, <1>3, <1>4

(* The second half: sender.send is back.                                   *)
LEMMA SendEndsPreserves ==
  ASSUME IndInv, NEW t \in Threads, SendEnds(t)
  PROVE  IndInv'
<1> USE DEF IndInv, TypeOK, CapturePlaces, FlusherPlaces, Threads,
            SendEnds, Goes, Alive, AfterSend
<1>1. TypeOK'
  OBVIOUS
<1>2. BatchInv' /\ EmptyInv' /\ JoinInv'
  BY DEF BatchInv, EmptyInv, JoinInv
<1>3. NothingLost' /\ PatientExitOwesNothing'
  BY DEF NothingLost, PatientExitOwesNothing
<1>4. BufferIsBounded'
  <2>1. CASE t = "capture" /\ pc.capture = "sendEarly"
    BY <2>1, EmptyIsBelow DEF BufferIsBounded, EmptyInv
  <2>2. CASE ~(t = "capture" /\ pc.capture = "sendEarly")
    BY <2>2 DEF BufferIsBounded
  <2> QED
    BY <2>1, <2>2
<1> QED
  BY <1>1, <1>2, <1>3, <1>4

(* The steps of main, and the signal.                                      *)
LEMMA MainPreserves ==
  ASSUME IndInv, StopSeen \/ JoinCapture \/ Signal
  PROVE  IndInv'
<1>1. TypeOK' /\ BatchInv' /\ EmptyInv' /\ JoinInv' /\ NothingLost' /\ BufferIsBounded'
  BY DEF IndInv, TypeOK, BatchInv, EmptyInv, JoinInv, NothingLost, Alive,
         BufferIsBounded, StopSeen, JoinCapture, Signal
<1>2. PatientExitOwesNothing'
  <2>1. CASE JoinCapture /\ ~rushed'
    <3>1. pc.capture = "ended" /\ ~rushed
      BY <2>1 DEF JoinCapture, IndInv, TypeOK
    <3>2. buf = {} /\ pc.flusher \in {"none", "ended"}
      BY <3>1 DEF IndInv, EmptyInv, JoinInv
    <3>3. batch["capture"] = {} /\ batch["flusher"] = {}
      BY <3>1, <3>2 DEF IndInv, BatchInv, AfterSend, Threads
    <3>4. owed = {}
      BY <2>1, <3>2, <3>3 DEF JoinCapture, Alive, IndInv, NothingLost
    <3> QED
      BY <2>1, <3>4 DEF JoinCapture, PatientExitOwesNothing
  <2>2. CASE ~(JoinCapture /\ ~rushed')
    BY <2>2 DEF StopSeen, JoinCapture, Signal, Alive, IndInv,
                PatientExitOwesNothing
  <2> QED
    BY <2>1, <2>2
<1> QED
  BY <1>1, <1>2 DEF IndInv

----------------------------------------------------------------------------
(* The invariant holds in every state.                                     *)
THEOREM Invariance == Spec => []IndInv
<1>1. Init => IndInv
  BY InitEstablishes
<1>2. IndInv /\ [Next]_vars => IndInv'
  <2> SUFFICES ASSUME IndInv, [Next]_vars PROVE IndInv'
    OBVIOUS
  <2>1. CASE MainStep \/ Signal
    BY <2>1, MainPreserves DEF MainStep
  <2>2. CASE CaptureStep
    BY <2>2, MovesPreserve, StartPreserves, TakePreserves, SendEndsPreserves
       DEF CaptureStep, Threads
  <2>3. CASE FlusherStep
    BY <2>3, MovesPreserve, TakePreserves, SendEndsPreserves
       DEF FlusherStep, Threads
  <2>4. CASE \E found \in SUBSET Assets : OnPacket(found)
    BY <2>4, OnPacketPreserves
  <2>5. CASE SniffFails
    BY <2>5, MovesPreserve
  <2>6. CASE Exited \/ UNCHANGED vars
    BY <2>6 DEF Exited, vars, IndInv, TypeOK, BatchInv, EmptyInv, JoinInv,
                NothingLost, Alive, BufferIsBounded, PatientExitOwesNothing
  <2> QED
    BY <2>1, <2>2, <2>3, <2>4, <2>5, <2>6 DEF Next
<1> QED
  BY <1>1, <1>2, PTL DEF Spec

(* Type correctness of the three threads and their shared state.           *)
THEOREM TypeInvariant == Spec => []TypeOK
  BY Invariance, PTL DEF IndInv

(* Two flushing threads and the packets between them lose no asset, for    *)
(* any number of assets (sniffer.py:99-102 and 152-155).                   *)
THEOREM NothingIsLost == Spec => []NothingLost
  BY Invariance, PTL DEF IndInv

(* The buffer is below its limit whenever the next packet is awaited, for  *)
(* any limit (sniffer.py:104-105).                                         *)
THEOREM BufferIsAlwaysBounded == Spec => []BufferIsBounded
  BY Invariance, PTL DEF IndInv

(* A process whose joins did not give up exits with nothing unsent         *)
(* (main.py:124, sniffer.py:138-139).                                      *)
THEOREM PatientExitLosesNothing == Spec => []PatientExitOwesNothing
  BY Invariance, PTL DEF IndInv
=============================================================================
