------------------------ MODULE SnifferCaptureProofs ------------------------
(***************************************************************************)
(* Proofs about SnifferCapture, for any finite sets of assets and streams  *)
(* and any size of the buffer: the safety properties that the run on       *)
(* SnifferCapture.cfg checks for two streams and two assets.               *)
(***************************************************************************)
EXTENDS SnifferCapture, FiniteSetTheorems, TLAPS

----------------------------------------------------------------------------
(* The inductive invariant, one part for each mechanism of the code.       *)

(* The rendezvous of Reassembled with Read: only the goroutine that Run    *)
(* waits for holds parsed assets.                                          *)
HandshakeInv ==
  /\ \A s \in Streams : gor[s] # "parsed" => todo[s] = {} /\ storing[s] = {}
  /\ main \notin Handing => \A s \in Streams : gor[s] # "parsed"
  /\ \A s, t \in Streams : gor[s] = "parsed" /\ gor[t] = "parsed" => s = t

(* The assembler holds bytes only for open connections, and FlushAll       *)
(* visits every connection that holds some.                                *)
HeldInv == \A s \in Streams : held[s] # {} => conn[s] = "open"

EvictInv ==
  /\ main \notin {"evict", "handover"} => evicting = {}
  /\ \A s \in evicting : conn[s] = "open"
  /\ \A s \in Streams : conn[s] = "ending" => gor[s] = "parsed"

LeavingInv ==
  leaving =>
    /\ main \in {"evict", "handover", "returned"} \union FlushSteps
    /\ main \in {"evict", "handover"} =>
         \A s \in Streams : held[s] # {} => s \in evicting
    /\ main \in FlushSteps => \A s \in Streams : held[s] = {}

(* The assets are in the map until Flush takes them, then in the batch.    *)
BatchInv ==
  /\ main \notin {"drain", "send"} => batch = {}
  /\ main \in {"drain", "send"} => items = {}

(* The token of Full() outside of flushNow and just before Send.           *)
TokenInv ==
  /\ main \in {"opening", "select", "evict"} \union Handing =>
       (token <=> Buf!IsFull(items))
  /\ main = "send" => ~token

(* windowSuites follows the buffer, one asset behind at most.              *)
SuitesInv ==
  /\ \A s \in Streams : storing[s] \subseteq items
  /\ main \notin {"take", "drain", "send", "returned"} =>
       /\ windowSuites \subseteq SuitesOf(items)
       /\ \A a \in items : \/ SuiteOf[a] \in windowSuites \union {NoSuite}
                           \/ \E s \in Streams : a \in storing[s]
  /\ main \in {"take", "drain", "send"} => windowSuites = {}

(* The snapshot, from the call that takes each part of it on.              *)
StatsInv ==
  /\ main \in {"snapshot", "clear", "take"} => stats.depth = Cardinality(items)
  /\ main \in {"drain", "send"} => stats.depth = Cardinality(batch)
  /\ main \in {"clear", "take"} => stats.suites = SuitesOf(items)
  /\ main \in {"drain", "send"} => stats.suites = SuitesOf(batch)
  /\ main \in {"clear", "take", "drain", "send"} =>
       stats.streams >= Cardinality(OpenConns)

(* activeStreams counts the live goroutines, and every open connection     *)
(* has one.                                                                *)
Live == {s \in Streams : gor[s] \in {"reading", "parsed"}}

StreamsInv ==
  /\ activeStreams = Cardinality(Live)
  /\ \A s \in Streams : conn[s] = "new" <=> gor[s] = "none"
  /\ \A s \in Streams : conn[s] \in {"open", "ending"} => s \in Live

(* Their conjunction with the two properties that are proved along.        *)
IndInv ==
  /\ TypeOK /\ NothingLost /\ HandshakeInv /\ HeldInv
  /\ EvictInv /\ LeavingInv /\ BatchInv /\ TokenInv /\ SuitesInv /\ StatsInv /\ StreamsInv
  /\ CleanReturnOwesNothing

----------------------------------------------------------------------------
(* A live goroutine is counted.                                            *)
LEMMA LiveIsCounted ==
  ASSUME StreamsInv, NEW s \in Live PROVE activeStreams # 0
<1>1. IsFiniteSet(Live)
  BY StreamsAssumption, FS_Subset DEF Live
<1>2. Cardinality(Live) # 0
  BY <1>1, FS_EmptySet
<1> QED
  BY <1>2 DEF StreamsInv

(* The instance of AssetBuffer has the same notion of a full buffer.       *)
LEMMA FullBuffer == \A S : Buf!IsFull(S) <=> Cardinality(S) >= MaxSize
<1>1. \A S : Buf!Cardinality(S) = Cardinality(S)
  BY DEF Buf!Cardinality, Cardinality
<1> QED
  BY <1>1 DEF Buf!IsFull

(* A buffer that grows does not become less full.                          *)
LEMMA FullIsMonotone ==
  ASSUME NEW S \in SUBSET Assets, NEW T \in SUBSET S, Buf!IsFull(T)
  PROVE  Buf!IsFull(S)
<1>1. IsFiniteSet(S)
  BY AssetsAssumption, FS_Subset
<1>2. IsFiniteSet(T) /\ Cardinality(T) <= Cardinality(S)
  BY <1>1, FS_Subset
<1>3. Cardinality(S) \in Nat /\ Cardinality(T) \in Nat
  BY <1>1, <1>2, FS_CardinalityType
<1> QED
  BY <1>2, <1>3, MaxSizeAssumption, FullBuffer

(* An empty buffer is not full.                                            *)
LEMMA EmptyIsNotFull == ~Buf!IsFull({})
BY FS_EmptySet, MaxSizeAssumption, FullBuffer

(* One more and one fewer live goroutine.                                  *)
LEMMA CountOneMore ==
  ASSUME NEW S \in SUBSET Streams, NEW s \in Streams, s \notin S
  PROVE  Cardinality(S \union {s}) = Cardinality(S) + 1
BY StreamsAssumption, FS_Subset, FS_AddElement

LEMMA CountOneFewer ==
  ASSUME NEW S \in SUBSET Streams, NEW s \in S
  PROVE  Cardinality(S \ {s}) = Cardinality(S) - 1
BY StreamsAssumption, FS_Subset, FS_RemoveElement

(* Types: activeStreams stays a natural number because an exiting          *)
(* goroutine was counted.                                                  *)
LEMMA TypeStep == IndInv /\ [Next]_vars => TypeOK'
<1> SUFFICES ASSUME IndInv, [Next]_vars PROVE TypeOK'
  OBVIOUS
<1> USE DEF IndInv, TypeOK, Handing, FlushSteps, vars, loopVars, asmVars,
      gorVars, bufferVars, reportVars
<1>1. CASE OpenHandle  BY <1>1 DEF OpenHandle
<1>2. CASE OpenFails  BY <1>2 DEF OpenFails
<1>3. ASSUME NEW s \in Streams, NEW ending \in BOOLEAN, EvictHeld(s, ending)
     PROVE TypeOK'
  BY <1>3 DEF EvictHeld, Reassembled
<1>4. ASSUME NEW s \in Streams, EvictIdle(s) PROVE TypeOK'
  BY <1>4 DEF EvictIdle
<1>5. CASE Evicted  BY <1>5 DEF Evicted
<1>6. CASE ReadLen
  <2>1. Cardinality(items) \in Nat
    BY AssetsAssumption, FS_Subset, FS_CardinalityType
  <2> QED
    BY <1>6, <2>1 DEF ReadLen
<1>7. CASE SnapshotStats  BY <1>7 DEF SnapshotStats
<1>8. CASE ClearWindowSuites  BY <1>8 DEF ClearWindowSuites
<1>9. CASE TakeBatch  BY <1>9 DEF TakeBatch, Buf!Take
<1>10. CASE DrainToken  BY <1>10 DEF DrainToken, Buf!Drain
<1>11. CASE SendReturns  BY <1>11 DEF SendReturns, NoStats
<1>12. ASSUME NEW s \in Streams, NEW a \in Assets, Add(s, a) PROVE TypeOK'
  BY <1>12 DEF Add, Buf!Add
<1>13. ASSUME NEW s \in Streams, StoreSuite(s) PROVE TypeOK'
  <2>1. SuitesOf(storing[s]) \in SUBSET Suites
    BY SuiteAssumption DEF SuitesOf
  <2> QED
    BY <1>13, <2>1 DEF StoreSuite
<1>14. ASSUME NEW s \in Streams, Done(s) PROVE TypeOK'
  BY <1>14 DEF Done
<1>15. ASSUME NEW s \in Streams, Exit(s) PROVE TypeOK'
  <2>1. activeStreams # 0
    BY <1>15, LiveIsCounted DEF Exit, StreamsInv, Live
  <2> QED
    BY <1>15, <2>1 DEF Exit
<1>16. ASSUME NEW s \in Streams, NEW bytes \in SUBSET Assets, HoldPacket(s,
      bytes)
     PROVE TypeOK'
  BY <1>16 DEF HoldPacket, Assemble
<1>17. ASSUME NEW s \in Streams, NEW bytes \in SUBSET Assets, NEW closesGap
      \in BOOLEAN, NEW ending \in BOOLEAN, DeliverPacket(s, bytes, closesGap,
      ending)
     PROVE TypeOK'
  BY <1>17 DEF DeliverPacket, Assemble, Reassembled
<1>18. ASSUME NEW old \in SUBSET Streams, Tick(old) PROVE TypeOK'
  BY <1>18 DEF Tick
<1>19. CASE Shutdown  BY <1>19 DEF Shutdown, OpenConns
<1>20. CASE EarlyFlush  BY <1>20 DEF EarlyFlush, Buf!ReceiveFull
<1>21. CASE SourceGone  BY <1>21 DEF SourceGone
<1>22. CASE Cancel  BY <1>22 DEF Cancel
<1>23. CASE SourceCloses  BY <1>23 DEF SourceCloses
<1>24. CASE Ended  BY <1>24 DEF Ended
<1>25. CASE UNCHANGED vars
  BY <1>25
<1> HIDE DEF IndInv, TypeOK, Handing, FlushSteps, vars, loopVars, asmVars,
      gorVars, bufferVars, reportVars
<1> QED
  BY <1>1, <1>2, <1>3, <1>4, <1>5, <1>6, <1>7, <1>8, <1>9, <1>10, <1>11,
      <1>12, <1>13, <1>14, <1>15, <1>16, <1>17, <1>18, <1>19, <1>20, <1>21,
      <1>22, <1>23, <1>24, <1>25 DEF Next, LoopStep, GoroutineStep, Packet

(* Only Reassembled puts a goroutine to work, and Run leaves Handing only   *)
(* with its `done'.                                                        *)
LEMMA HandshakeStep == IndInv /\ [Next]_vars => HandshakeInv'
<1> SUFFICES ASSUME IndInv, [Next]_vars PROVE HandshakeInv'
  OBVIOUS
<1> USE DEF IndInv, TypeOK, HandshakeInv, Handing, FlushSteps, vars,
      loopVars, asmVars, gorVars, bufferVars, reportVars
<1>1. CASE OpenHandle  BY <1>1 DEF OpenHandle
<1>2. CASE OpenFails  BY <1>2 DEF OpenFails
<1>3. ASSUME NEW s \in Streams, NEW ending \in BOOLEAN, EvictHeld(s, ending)
     PROVE HandshakeInv'
  BY <1>3 DEF EvictHeld, Reassembled
<1>4. ASSUME NEW s \in Streams, EvictIdle(s) PROVE HandshakeInv'
  BY <1>4 DEF EvictIdle
<1>5. CASE Evicted  BY <1>5 DEF Evicted
<1>6. CASE ReadLen  BY <1>6 DEF ReadLen
<1>7. CASE SnapshotStats  BY <1>7 DEF SnapshotStats
<1>8. CASE ClearWindowSuites  BY <1>8 DEF ClearWindowSuites
<1>9. CASE TakeBatch  BY <1>9 DEF TakeBatch, Buf!Take
<1>10. CASE DrainToken  BY <1>10 DEF DrainToken, Buf!Drain
<1>11. CASE SendReturns  BY <1>11 DEF SendReturns
<1>12. ASSUME NEW s \in Streams, NEW a \in Assets, Add(s, a)
     PROVE HandshakeInv'
  BY <1>12 DEF Add, Buf!Add
<1>13. ASSUME NEW s \in Streams, StoreSuite(s) PROVE HandshakeInv'
  BY <1>13 DEF StoreSuite
<1>14. ASSUME NEW s \in Streams, Done(s) PROVE HandshakeInv'
  BY <1>14 DEF Done
<1>15. ASSUME NEW s \in Streams, Exit(s) PROVE HandshakeInv'
  BY <1>15 DEF Exit
<1>16. ASSUME NEW s \in Streams, NEW bytes \in SUBSET Assets, HoldPacket(s,
      bytes)
     PROVE HandshakeInv'
  BY <1>16 DEF HoldPacket, Assemble
<1>17. ASSUME NEW s \in Streams, NEW bytes \in SUBSET Assets, NEW closesGap
      \in BOOLEAN, NEW ending \in BOOLEAN, DeliverPacket(s, bytes, closesGap,
      ending)
     PROVE HandshakeInv'
  BY <1>17 DEF DeliverPacket, Assemble, Reassembled
<1>18. ASSUME NEW old \in SUBSET Streams, Tick(old) PROVE HandshakeInv'
  BY <1>18 DEF Tick
<1>19. CASE Shutdown  BY <1>19 DEF Shutdown
<1>20. CASE EarlyFlush  BY <1>20 DEF EarlyFlush, Buf!ReceiveFull
<1>21. CASE SourceGone  BY <1>21 DEF SourceGone
<1>22. CASE Cancel  BY <1>22 DEF Cancel
<1>23. CASE SourceCloses  BY <1>23 DEF SourceCloses
<1>24. CASE Ended  BY <1>24 DEF Ended
<1>25. CASE UNCHANGED vars
  BY <1>25
<1> HIDE DEF IndInv, TypeOK, HandshakeInv, Handing, FlushSteps, vars,
      loopVars, asmVars, gorVars, bufferVars, reportVars
<1> QED
  BY <1>1, <1>2, <1>3, <1>4, <1>5, <1>6, <1>7, <1>8, <1>9, <1>10, <1>11,
      <1>12, <1>13, <1>14, <1>15, <1>16, <1>17, <1>18, <1>19, <1>20, <1>21,
      <1>22, <1>23, <1>24, <1>25 DEF Next, LoopStep, GoroutineStep, Packet

(* A connection ends only with nothing held.                               *)
LEMMA HeldStep == IndInv /\ [Next]_vars => HeldInv'
<1> SUFFICES ASSUME IndInv, [Next]_vars PROVE HeldInv'
  OBVIOUS
<1> USE DEF IndInv, TypeOK, HeldInv, vars, loopVars, asmVars, gorVars,
      bufferVars, reportVars
<1>1. CASE OpenHandle  BY <1>1 DEF OpenHandle
<1>2. CASE OpenFails  BY <1>2 DEF OpenFails
<1>3. ASSUME NEW s \in Streams, NEW ending \in BOOLEAN, EvictHeld(s, ending)
     PROVE HeldInv'
  BY <1>3 DEF EvictHeld, Reassembled
<1>4. ASSUME NEW s \in Streams, EvictIdle(s) PROVE HeldInv'
  BY <1>4 DEF EvictIdle
<1>5. CASE Evicted  BY <1>5 DEF Evicted
<1>6. CASE ReadLen  BY <1>6 DEF ReadLen
<1>7. CASE SnapshotStats  BY <1>7 DEF SnapshotStats
<1>8. CASE ClearWindowSuites  BY <1>8 DEF ClearWindowSuites
<1>9. CASE TakeBatch  BY <1>9 DEF TakeBatch, Buf!Take
<1>10. CASE DrainToken  BY <1>10 DEF DrainToken, Buf!Drain
<1>11. CASE SendReturns  BY <1>11 DEF SendReturns
<1>12. ASSUME NEW s \in Streams, NEW a \in Assets, Add(s, a) PROVE HeldInv'
  BY <1>12 DEF Add, Buf!Add
<1>13. ASSUME NEW s \in Streams, StoreSuite(s) PROVE HeldInv'
  BY <1>13 DEF StoreSuite
<1>14. ASSUME NEW s \in Streams, Done(s) PROVE HeldInv'
  BY <1>14 DEF Done
<1>15. ASSUME NEW s \in Streams, Exit(s) PROVE HeldInv'
  BY <1>15 DEF Exit
<1>16. ASSUME NEW s \in Streams, NEW bytes \in SUBSET Assets, HoldPacket(s,
      bytes)
     PROVE HeldInv'
  BY <1>16 DEF HoldPacket, Assemble
<1>17. ASSUME NEW s \in Streams, NEW bytes \in SUBSET Assets, NEW closesGap
      \in BOOLEAN, NEW ending \in BOOLEAN, DeliverPacket(s, bytes, closesGap,
      ending)
     PROVE HeldInv'
  BY <1>17 DEF DeliverPacket, Assemble, Reassembled
<1>18. ASSUME NEW old \in SUBSET Streams, Tick(old) PROVE HeldInv'
  BY <1>18 DEF Tick
<1>19. CASE Shutdown  BY <1>19 DEF Shutdown
<1>20. CASE EarlyFlush  BY <1>20 DEF EarlyFlush, Buf!ReceiveFull
<1>21. CASE SourceGone  BY <1>21 DEF SourceGone
<1>22. CASE Cancel  BY <1>22 DEF Cancel
<1>23. CASE SourceCloses  BY <1>23 DEF SourceCloses
<1>24. CASE Ended  BY <1>24 DEF Ended
<1>25. CASE UNCHANGED vars
  BY <1>25
<1> HIDE DEF IndInv, TypeOK, HeldInv, vars, loopVars, asmVars, gorVars,
      bufferVars, reportVars
<1> QED
  BY <1>1, <1>2, <1>3, <1>4, <1>5, <1>6, <1>7, <1>8, <1>9, <1>10, <1>11,
      <1>12, <1>13, <1>14, <1>15, <1>16, <1>17, <1>18, <1>19, <1>20, <1>21,
      <1>22, <1>23, <1>24, <1>25 DEF Next, LoopStep, GoroutineStep, Packet

(* An eviction visits open connections, each once.                         *)
LEMMA EvictStep == IndInv /\ [Next]_vars => EvictInv'
<1> SUFFICES ASSUME IndInv, [Next]_vars PROVE EvictInv'
  OBVIOUS
<1> USE DEF IndInv, TypeOK, HandshakeInv, HeldInv, EvictInv, Handing,
      FlushSteps, OpenConns, vars, loopVars, asmVars, gorVars, bufferVars,
      reportVars
<1>1. CASE OpenHandle  BY <1>1 DEF OpenHandle
<1>2. CASE OpenFails  BY <1>2 DEF OpenFails
<1>3. ASSUME NEW s \in Streams, NEW ending \in BOOLEAN, EvictHeld(s, ending)
     PROVE EvictInv'
  BY <1>3 DEF EvictHeld, Reassembled
<1>4. ASSUME NEW s \in Streams, EvictIdle(s) PROVE EvictInv'
  BY <1>4 DEF EvictIdle
<1>5. CASE Evicted  BY <1>5 DEF Evicted
<1>6. CASE ReadLen  BY <1>6 DEF ReadLen
<1>7. CASE SnapshotStats  BY <1>7 DEF SnapshotStats
<1>8. CASE ClearWindowSuites  BY <1>8 DEF ClearWindowSuites
<1>9. CASE TakeBatch  BY <1>9 DEF TakeBatch, Buf!Take
<1>10. CASE DrainToken  BY <1>10 DEF DrainToken, Buf!Drain
<1>11. CASE SendReturns  BY <1>11 DEF SendReturns
<1>12. ASSUME NEW s \in Streams, NEW a \in Assets, Add(s, a) PROVE EvictInv'
  BY <1>12 DEF Add, Buf!Add
<1>13. ASSUME NEW s \in Streams, StoreSuite(s) PROVE EvictInv'
  BY <1>13 DEF StoreSuite
<1>14. ASSUME NEW s \in Streams, Done(s) PROVE EvictInv'
  BY <1>14 DEF Done
<1>15. ASSUME NEW s \in Streams, Exit(s) PROVE EvictInv'
  BY <1>15 DEF Exit
<1>16. ASSUME NEW s \in Streams, NEW bytes \in SUBSET Assets, HoldPacket(s,
      bytes)
     PROVE EvictInv'
  BY <1>16 DEF HoldPacket, Assemble
<1>17. ASSUME NEW s \in Streams, NEW bytes \in SUBSET Assets, NEW closesGap
      \in BOOLEAN, NEW ending \in BOOLEAN, DeliverPacket(s, bytes, closesGap,
      ending)
     PROVE EvictInv'
  BY <1>17 DEF DeliverPacket, Assemble, Reassembled
<1>18. ASSUME NEW old \in SUBSET Streams, Tick(old) PROVE EvictInv'
  BY <1>18 DEF Tick
<1>19. CASE Shutdown  BY <1>19 DEF Shutdown
<1>20. CASE EarlyFlush  BY <1>20 DEF EarlyFlush, Buf!ReceiveFull
<1>21. CASE SourceGone  BY <1>21 DEF SourceGone
<1>22. CASE Cancel  BY <1>22 DEF Cancel
<1>23. CASE SourceCloses  BY <1>23 DEF SourceCloses
<1>24. CASE Ended  BY <1>24 DEF Ended
<1>25. CASE UNCHANGED vars
  BY <1>25
<1> HIDE DEF IndInv, TypeOK, HandshakeInv, HeldInv, EvictInv, Handing,
      FlushSteps, OpenConns, vars, loopVars, asmVars, gorVars, bufferVars,
      reportVars
<1> QED
  BY <1>1, <1>2, <1>3, <1>4, <1>5, <1>6, <1>7, <1>8, <1>9, <1>10, <1>11,
      <1>12, <1>13, <1>14, <1>15, <1>16, <1>17, <1>18, <1>19, <1>20, <1>21,
      <1>22, <1>23, <1>24, <1>25 DEF Next, LoopStep, GoroutineStep, Packet

(* FlushAll leaves nothing held, and no packet is taken after it.          *)
LEMMA LeavingStep == IndInv /\ [Next]_vars => LeavingInv'
<1> SUFFICES ASSUME IndInv, [Next]_vars PROVE LeavingInv'
  OBVIOUS
<1> USE DEF IndInv, TypeOK, HeldInv, LeavingInv, Handing, FlushSteps,
      OpenConns, vars, loopVars, asmVars, gorVars, bufferVars, reportVars
<1>1. CASE OpenHandle  BY <1>1 DEF OpenHandle
<1>2. CASE OpenFails  BY <1>2 DEF OpenFails
<1>3. ASSUME NEW s \in Streams, NEW ending \in BOOLEAN, EvictHeld(s, ending)
     PROVE LeavingInv'
  BY <1>3 DEF EvictHeld, Reassembled
<1>4. ASSUME NEW s \in Streams, EvictIdle(s) PROVE LeavingInv'
  BY <1>4 DEF EvictIdle
<1>5. CASE Evicted  BY <1>5 DEF Evicted
<1>6. CASE ReadLen  BY <1>6 DEF ReadLen
<1>7. CASE SnapshotStats  BY <1>7 DEF SnapshotStats
<1>8. CASE ClearWindowSuites  BY <1>8 DEF ClearWindowSuites
<1>9. CASE TakeBatch  BY <1>9 DEF TakeBatch, Buf!Take
<1>10. CASE DrainToken  BY <1>10 DEF DrainToken, Buf!Drain
<1>11. CASE SendReturns  BY <1>11 DEF SendReturns
<1>12. ASSUME NEW s \in Streams, NEW a \in Assets, Add(s, a) PROVE LeavingInv'
  BY <1>12 DEF Add, Buf!Add
<1>13. ASSUME NEW s \in Streams, StoreSuite(s) PROVE LeavingInv'
  BY <1>13 DEF StoreSuite
<1>14. ASSUME NEW s \in Streams, Done(s) PROVE LeavingInv'
  BY <1>14 DEF Done
<1>15. ASSUME NEW s \in Streams, Exit(s) PROVE LeavingInv'
  BY <1>15 DEF Exit
<1>16. ASSUME NEW s \in Streams, NEW bytes \in SUBSET Assets, HoldPacket(s,
      bytes)
     PROVE LeavingInv'
  BY <1>16 DEF HoldPacket, Assemble
<1>17. ASSUME NEW s \in Streams, NEW bytes \in SUBSET Assets, NEW closesGap
      \in BOOLEAN, NEW ending \in BOOLEAN, DeliverPacket(s, bytes, closesGap,
      ending)
     PROVE LeavingInv'
  BY <1>17 DEF DeliverPacket, Assemble, Reassembled
<1>18. ASSUME NEW old \in SUBSET Streams, Tick(old) PROVE LeavingInv'
  BY <1>18 DEF Tick
<1>19. CASE Shutdown  BY <1>19 DEF Shutdown
<1>20. CASE EarlyFlush  BY <1>20 DEF EarlyFlush, Buf!ReceiveFull
<1>21. CASE SourceGone  BY <1>21 DEF SourceGone
<1>22. CASE Cancel  BY <1>22 DEF Cancel
<1>23. CASE SourceCloses  BY <1>23 DEF SourceCloses
<1>24. CASE Ended  BY <1>24 DEF Ended
<1>25. CASE UNCHANGED vars
  BY <1>25
<1> HIDE DEF IndInv, TypeOK, HeldInv, LeavingInv, Handing, FlushSteps,
      OpenConns, vars, loopVars, asmVars, gorVars, bufferVars, reportVars
<1> QED
  BY <1>1, <1>2, <1>3, <1>4, <1>5, <1>6, <1>7, <1>8, <1>9, <1>10, <1>11,
      <1>12, <1>13, <1>14, <1>15, <1>16, <1>17, <1>18, <1>19, <1>20, <1>21,
      <1>22, <1>23, <1>24, <1>25 DEF Next, LoopStep, GoroutineStep, Packet

(* Flush moves the map into the batch.                                     *)
LEMMA BatchStep == IndInv /\ [Next]_vars => BatchInv'
<1> SUFFICES ASSUME IndInv, [Next]_vars PROVE BatchInv'
  OBVIOUS
<1> USE DEF IndInv, TypeOK, HandshakeInv, BatchInv, Handing, FlushSteps,
      vars, loopVars, asmVars, gorVars, bufferVars, reportVars
<1>1. CASE OpenHandle  BY <1>1 DEF OpenHandle
<1>2. CASE OpenFails  BY <1>2 DEF OpenFails
<1>3. ASSUME NEW s \in Streams, NEW ending \in BOOLEAN, EvictHeld(s, ending)
     PROVE BatchInv'
  BY <1>3 DEF EvictHeld, Reassembled
<1>4. ASSUME NEW s \in Streams, EvictIdle(s) PROVE BatchInv'
  BY <1>4 DEF EvictIdle
<1>5. CASE Evicted  BY <1>5 DEF Evicted
<1>6. CASE ReadLen  BY <1>6 DEF ReadLen
<1>7. CASE SnapshotStats  BY <1>7 DEF SnapshotStats
<1>8. CASE ClearWindowSuites  BY <1>8 DEF ClearWindowSuites
<1>9. CASE TakeBatch  BY <1>9 DEF TakeBatch, Buf!Take
<1>10. CASE DrainToken  BY <1>10 DEF DrainToken, Buf!Drain
<1>11. CASE SendReturns  BY <1>11 DEF SendReturns
<1>12. ASSUME NEW s \in Streams, NEW a \in Assets, Add(s, a) PROVE BatchInv'
  BY <1>12 DEF Add, Buf!Add
<1>13. ASSUME NEW s \in Streams, StoreSuite(s) PROVE BatchInv'
  BY <1>13 DEF StoreSuite
<1>14. ASSUME NEW s \in Streams, Done(s) PROVE BatchInv'
  BY <1>14 DEF Done
<1>15. ASSUME NEW s \in Streams, Exit(s) PROVE BatchInv'
  BY <1>15 DEF Exit
<1>16. ASSUME NEW s \in Streams, NEW bytes \in SUBSET Assets, HoldPacket(s,
      bytes)
     PROVE BatchInv'
  BY <1>16 DEF HoldPacket, Assemble
<1>17. ASSUME NEW s \in Streams, NEW bytes \in SUBSET Assets, NEW closesGap
      \in BOOLEAN, NEW ending \in BOOLEAN, DeliverPacket(s, bytes, closesGap,
      ending)
     PROVE BatchInv'
  BY <1>17 DEF DeliverPacket, Assemble, Reassembled
<1>18. ASSUME NEW old \in SUBSET Streams, Tick(old) PROVE BatchInv'
  BY <1>18 DEF Tick
<1>19. CASE Shutdown  BY <1>19 DEF Shutdown
<1>20. CASE EarlyFlush  BY <1>20 DEF EarlyFlush, Buf!ReceiveFull
<1>21. CASE SourceGone  BY <1>21 DEF SourceGone
<1>22. CASE Cancel  BY <1>22 DEF Cancel
<1>23. CASE SourceCloses  BY <1>23 DEF SourceCloses
<1>24. CASE Ended  BY <1>24 DEF Ended
<1>25. CASE UNCHANGED vars
  BY <1>25
<1> HIDE DEF IndInv, TypeOK, HandshakeInv, BatchInv, Handing, FlushSteps,
      vars, loopVars, asmVars, gorVars, bufferVars, reportVars
<1> QED
  BY <1>1, <1>2, <1>3, <1>4, <1>5, <1>6, <1>7, <1>8, <1>9, <1>10, <1>11,
      <1>12, <1>13, <1>14, <1>15, <1>16, <1>17, <1>18, <1>19, <1>20, <1>21,
      <1>22, <1>23, <1>24, <1>25 DEF Next, LoopStep, GoroutineStep, Packet

(* Every step that takes an owed asset from one place puts it in another.  *)
LEMMA NothingLostStep == IndInv /\ [Next]_vars => NothingLost'
<1> SUFFICES ASSUME IndInv, [Next]_vars PROVE NothingLost'
  OBVIOUS
<1> USE DEF IndInv, TypeOK, HandshakeInv, BatchInv, NothingLost, Handing,
      FlushSteps, vars, loopVars, asmVars, gorVars, bufferVars, reportVars
<1>1. CASE OpenHandle  BY <1>1 DEF OpenHandle
<1>2. CASE OpenFails  BY <1>2 DEF OpenFails
<1>3. ASSUME NEW s \in Streams, NEW ending \in BOOLEAN, EvictHeld(s, ending)
     PROVE NothingLost'
  BY <1>3 DEF EvictHeld, Reassembled
<1>4. ASSUME NEW s \in Streams, EvictIdle(s) PROVE NothingLost'
  BY <1>4 DEF EvictIdle
<1>5. CASE Evicted  BY <1>5 DEF Evicted
<1>6. CASE ReadLen  BY <1>6 DEF ReadLen
<1>7. CASE SnapshotStats  BY <1>7 DEF SnapshotStats
<1>8. CASE ClearWindowSuites  BY <1>8 DEF ClearWindowSuites
<1>9. CASE TakeBatch  BY <1>9 DEF TakeBatch, Buf!Take
<1>10. CASE DrainToken  BY <1>10 DEF DrainToken, Buf!Drain
<1>11. CASE SendReturns  BY <1>11 DEF SendReturns
<1>12. ASSUME NEW s \in Streams, NEW a \in Assets, Add(s, a)
     PROVE NothingLost'
  BY <1>12 DEF Add, Buf!Add
<1>13. ASSUME NEW s \in Streams, StoreSuite(s) PROVE NothingLost'
  BY <1>13 DEF StoreSuite
<1>14. ASSUME NEW s \in Streams, Done(s) PROVE NothingLost'
  BY <1>14 DEF Done
<1>15. ASSUME NEW s \in Streams, Exit(s) PROVE NothingLost'
  BY <1>15 DEF Exit
<1>16. ASSUME NEW s \in Streams, NEW bytes \in SUBSET Assets, HoldPacket(s,
      bytes)
     PROVE NothingLost'
  BY <1>16 DEF HoldPacket, Assemble
<1>17. ASSUME NEW s \in Streams, NEW bytes \in SUBSET Assets, NEW closesGap
      \in BOOLEAN, NEW ending \in BOOLEAN, DeliverPacket(s, bytes, closesGap,
      ending)
     PROVE NothingLost'
  BY <1>17 DEF DeliverPacket, Assemble, Reassembled
<1>18. ASSUME NEW old \in SUBSET Streams, Tick(old) PROVE NothingLost'
  BY <1>18 DEF Tick
<1>19. CASE Shutdown  BY <1>19 DEF Shutdown
<1>20. CASE EarlyFlush  BY <1>20 DEF EarlyFlush, Buf!ReceiveFull
<1>21. CASE SourceGone  BY <1>21 DEF SourceGone
<1>22. CASE Cancel  BY <1>22 DEF Cancel
<1>23. CASE SourceCloses  BY <1>23 DEF SourceCloses
<1>24. CASE Ended  BY <1>24 DEF Ended
<1>25. CASE UNCHANGED vars
  BY <1>25
<1> HIDE DEF IndInv, TypeOK, HandshakeInv, BatchInv, NothingLost, Handing,
      FlushSteps, vars, loopVars, asmVars, gorVars, bufferVars, reportVars
<1> QED
  BY <1>1, <1>2, <1>3, <1>4, <1>5, <1>6, <1>7, <1>8, <1>9, <1>10, <1>11,
      <1>12, <1>13, <1>14, <1>15, <1>16, <1>17, <1>18, <1>19, <1>20, <1>21,
      <1>22, <1>23, <1>24, <1>25 DEF Next, LoopStep, GoroutineStep, Packet

(* The token and the size of the buffer change together outside flushNow.  *)
LEMMA TokenStep == IndInv /\ [Next]_vars => TokenInv'
<1> SUFFICES ASSUME IndInv, [Next]_vars PROVE TokenInv'
  OBVIOUS
<1> USE DEF IndInv, TypeOK, HandshakeInv, BatchInv, TokenInv, Handing,
      FlushSteps, vars, loopVars, asmVars, gorVars, bufferVars, reportVars
<1>1. CASE OpenHandle  BY <1>1 DEF OpenHandle
<1>2. CASE OpenFails  BY <1>2 DEF OpenFails
<1>3. ASSUME NEW s \in Streams, NEW ending \in BOOLEAN, EvictHeld(s, ending)
     PROVE TokenInv'
  BY <1>3 DEF EvictHeld, Reassembled
<1>4. ASSUME NEW s \in Streams, EvictIdle(s) PROVE TokenInv'
  BY <1>4 DEF EvictIdle
<1>5. CASE Evicted  BY <1>5 DEF Evicted
<1>6. CASE ReadLen  BY <1>6 DEF ReadLen
<1>7. CASE SnapshotStats  BY <1>7 DEF SnapshotStats
<1>8. CASE ClearWindowSuites  BY <1>8 DEF ClearWindowSuites
<1>9. CASE TakeBatch  BY <1>9 DEF TakeBatch, Buf!Take
<1>10. CASE DrainToken  BY <1>10 DEF DrainToken, Buf!Drain
<1>11. CASE SendReturns  BY <1>11, EmptyIsNotFull DEF SendReturns
<1>12. ASSUME NEW s \in Streams, NEW a \in Assets, Add(s, a) PROVE TokenInv'
  <2>1. items \in SUBSET items' /\ items' \in SUBSET Assets
    BY <1>12 DEF Add, Buf!Add
  <2>2. Buf!IsFull(items) => Buf!IsFull(items')
    BY <2>1, FullIsMonotone
  <2> QED
    BY <1>12, <2>2 DEF Add, Buf!Add
<1>13. ASSUME NEW s \in Streams, StoreSuite(s) PROVE TokenInv'
  BY <1>13 DEF StoreSuite
<1>14. ASSUME NEW s \in Streams, Done(s) PROVE TokenInv'
  BY <1>14 DEF Done
<1>15. ASSUME NEW s \in Streams, Exit(s) PROVE TokenInv'
  BY <1>15 DEF Exit
<1>16. ASSUME NEW s \in Streams, NEW bytes \in SUBSET Assets, HoldPacket(s,
      bytes)
     PROVE TokenInv'
  BY <1>16 DEF HoldPacket, Assemble
<1>17. ASSUME NEW s \in Streams, NEW bytes \in SUBSET Assets, NEW closesGap
      \in BOOLEAN, NEW ending \in BOOLEAN, DeliverPacket(s, bytes, closesGap,
      ending)
     PROVE TokenInv'
  BY <1>17 DEF DeliverPacket, Assemble, Reassembled
<1>18. ASSUME NEW old \in SUBSET Streams, Tick(old) PROVE TokenInv'
  BY <1>18 DEF Tick
<1>19. CASE Shutdown  BY <1>19 DEF Shutdown
<1>20. CASE EarlyFlush  BY <1>20 DEF EarlyFlush, Buf!ReceiveFull
<1>21. CASE SourceGone  BY <1>21 DEF SourceGone
<1>22. CASE Cancel  BY <1>22 DEF Cancel
<1>23. CASE SourceCloses  BY <1>23 DEF SourceCloses
<1>24. CASE Ended  BY <1>24 DEF Ended
<1>25. CASE UNCHANGED vars
  BY <1>25
<1> HIDE DEF IndInv, TypeOK, HandshakeInv, BatchInv, TokenInv, Handing,
      FlushSteps, vars, loopVars, asmVars, gorVars, bufferVars, reportVars
<1> QED
  BY <1>1, <1>2, <1>3, <1>4, <1>5, <1>6, <1>7, <1>8, <1>9, <1>10, <1>11,
      <1>12, <1>13, <1>14, <1>15, <1>16, <1>17, <1>18, <1>19, <1>20, <1>21,
      <1>22, <1>23, <1>24, <1>25 DEF Next, LoopStep, GoroutineStep, Packet

(* A suite is stored after its asset was added, and both are cleared       *)
(* within one flush.                                                       *)
LEMMA SuitesStep == IndInv /\ [Next]_vars => SuitesInv'
<1> SUFFICES ASSUME IndInv, [Next]_vars PROVE SuitesInv'
  OBVIOUS
<1> USE DEF IndInv, TypeOK, HandshakeInv, BatchInv, SuitesInv, Handing,
      FlushSteps, SuitesOf, vars, loopVars, asmVars, gorVars, bufferVars,
      reportVars
<1>1. CASE OpenHandle  BY <1>1 DEF OpenHandle
<1>2. CASE OpenFails  BY <1>2 DEF OpenFails
<1>3. ASSUME NEW s \in Streams, NEW ending \in BOOLEAN, EvictHeld(s, ending)
     PROVE SuitesInv'
  BY <1>3 DEF EvictHeld, Reassembled
<1>4. ASSUME NEW s \in Streams, EvictIdle(s) PROVE SuitesInv'
  BY <1>4 DEF EvictIdle
<1>5. CASE Evicted  BY <1>5 DEF Evicted
<1>6. CASE ReadLen  BY <1>6 DEF ReadLen
<1>7. CASE SnapshotStats  BY <1>7 DEF SnapshotStats
<1>8. CASE ClearWindowSuites  BY <1>8 DEF ClearWindowSuites
<1>9. CASE TakeBatch  BY <1>9 DEF TakeBatch, Buf!Take
<1>10. CASE DrainToken  BY <1>10 DEF DrainToken, Buf!Drain
<1>11. CASE SendReturns  BY <1>11 DEF SendReturns
<1>12. ASSUME NEW s \in Streams, NEW a \in Assets, Add(s, a) PROVE SuitesInv'
  BY <1>12 DEF Add, Buf!Add
<1>13. ASSUME NEW s \in Streams, StoreSuite(s) PROVE SuitesInv'
  BY <1>13 DEF StoreSuite
<1>14. ASSUME NEW s \in Streams, Done(s) PROVE SuitesInv'
  BY <1>14 DEF Done
<1>15. ASSUME NEW s \in Streams, Exit(s) PROVE SuitesInv'
  BY <1>15 DEF Exit
<1>16. ASSUME NEW s \in Streams, NEW bytes \in SUBSET Assets, HoldPacket(s,
      bytes)
     PROVE SuitesInv'
  BY <1>16 DEF HoldPacket, Assemble
<1>17. ASSUME NEW s \in Streams, NEW bytes \in SUBSET Assets, NEW closesGap
      \in BOOLEAN, NEW ending \in BOOLEAN, DeliverPacket(s, bytes, closesGap,
      ending)
     PROVE SuitesInv'
  BY <1>17 DEF DeliverPacket, Assemble, Reassembled
<1>18. ASSUME NEW old \in SUBSET Streams, Tick(old) PROVE SuitesInv'
  BY <1>18 DEF Tick
<1>19. CASE Shutdown  BY <1>19 DEF Shutdown
<1>20. CASE EarlyFlush  BY <1>20 DEF EarlyFlush, Buf!ReceiveFull
<1>21. CASE SourceGone  BY <1>21 DEF SourceGone
<1>22. CASE Cancel  BY <1>22 DEF Cancel
<1>23. CASE SourceCloses  BY <1>23 DEF SourceCloses
<1>24. CASE Ended  BY <1>24 DEF Ended
<1>25. CASE UNCHANGED vars
  BY <1>25
<1> HIDE DEF IndInv, TypeOK, HandshakeInv, BatchInv, SuitesInv, Handing,
      FlushSteps, SuitesOf, vars, loopVars, asmVars, gorVars, bufferVars,
      reportVars
<1> QED
  BY <1>1, <1>2, <1>3, <1>4, <1>5, <1>6, <1>7, <1>8, <1>9, <1>10, <1>11,
      <1>12, <1>13, <1>14, <1>15, <1>16, <1>17, <1>18, <1>19, <1>20, <1>21,
      <1>22, <1>23, <1>24, <1>25 DEF Next, LoopStep, GoroutineStep, Packet

(* What the snapshot says stays true until Send.                           *)
LEMMA StatsStep == IndInv /\ [Next]_vars => StatsInv'
<1> SUFFICES ASSUME IndInv, [Next]_vars PROVE StatsInv'
  OBVIOUS
<1> USE DEF IndInv, TypeOK, HandshakeInv, StatsInv, Handing, FlushSteps,
      OpenConns, vars, loopVars, asmVars, gorVars, bufferVars, reportVars
<1>1. CASE OpenHandle  BY <1>1 DEF OpenHandle
<1>2. CASE OpenFails  BY <1>2 DEF OpenFails
<1>3. ASSUME NEW s \in Streams, NEW ending \in BOOLEAN, EvictHeld(s, ending)
     PROVE StatsInv'
  BY <1>3 DEF EvictHeld, Reassembled
<1>4. ASSUME NEW s \in Streams, EvictIdle(s) PROVE StatsInv'
  BY <1>4 DEF EvictIdle
<1>5. CASE Evicted  BY <1>5 DEF Evicted
<1>6. CASE ReadLen  BY <1>6 DEF ReadLen
<1>7. CASE SnapshotStats
  <2>1. OpenConns \in SUBSET Live /\ Live \in SUBSET Streams
    BY DEF StreamsInv, Live
  <2>2. Cardinality(OpenConns) <= activeStreams
    BY <2>1, StreamsAssumption, FS_Subset DEF StreamsInv
  <2>3. Cardinality(OpenConns) \in Nat
    BY <2>1, StreamsAssumption, FS_Subset, FS_CardinalityType
  <2>4. windowSuites = SuitesOf(items)
    BY <1>7 DEF SnapshotStats, SuitesInv, SuitesOf
  <2> QED
    BY <1>7, <2>2, <2>3, <2>4 DEF SnapshotStats
<1>8. CASE ClearWindowSuites  BY <1>8 DEF ClearWindowSuites
<1>9. CASE TakeBatch  BY <1>9 DEF TakeBatch, Buf!Take
<1>10. CASE DrainToken  BY <1>10 DEF DrainToken, Buf!Drain
<1>11. CASE SendReturns  BY <1>11 DEF SendReturns
<1>12. ASSUME NEW s \in Streams, NEW a \in Assets, Add(s, a) PROVE StatsInv'
  BY <1>12 DEF Add, Buf!Add
<1>13. ASSUME NEW s \in Streams, StoreSuite(s) PROVE StatsInv'
  BY <1>13 DEF StoreSuite
<1>14. ASSUME NEW s \in Streams, Done(s) PROVE StatsInv'
  BY <1>14 DEF Done
<1>15. ASSUME NEW s \in Streams, Exit(s) PROVE StatsInv'
  BY <1>15 DEF Exit
<1>16. ASSUME NEW s \in Streams, NEW bytes \in SUBSET Assets, HoldPacket(s,
      bytes)
     PROVE StatsInv'
  BY <1>16 DEF HoldPacket, Assemble
<1>17. ASSUME NEW s \in Streams, NEW bytes \in SUBSET Assets, NEW closesGap
      \in BOOLEAN, NEW ending \in BOOLEAN, DeliverPacket(s, bytes, closesGap,
      ending)
     PROVE StatsInv'
  BY <1>17 DEF DeliverPacket, Assemble, Reassembled
<1>18. ASSUME NEW old \in SUBSET Streams, Tick(old) PROVE StatsInv'
  BY <1>18 DEF Tick
<1>19. CASE Shutdown  BY <1>19 DEF Shutdown
<1>20. CASE EarlyFlush  BY <1>20 DEF EarlyFlush, Buf!ReceiveFull
<1>21. CASE SourceGone  BY <1>21 DEF SourceGone
<1>22. CASE Cancel  BY <1>22 DEF Cancel
<1>23. CASE SourceCloses  BY <1>23 DEF SourceCloses
<1>24. CASE Ended  BY <1>24 DEF Ended
<1>25. CASE UNCHANGED vars
  BY <1>25
<1> HIDE DEF IndInv, TypeOK, HandshakeInv, StatsInv, Handing, FlushSteps,
      OpenConns, vars, loopVars, asmVars, gorVars, bufferVars, reportVars
<1> QED
  BY <1>1, <1>2, <1>3, <1>4, <1>5, <1>6, <1>7, <1>8, <1>9, <1>10, <1>11,
      <1>12, <1>13, <1>14, <1>15, <1>16, <1>17, <1>18, <1>19, <1>20, <1>21,
      <1>22, <1>23, <1>24, <1>25 DEF Next, LoopStep, GoroutineStep, Packet

(* New and the goroutine's exit keep the counter.                          *)
LEMMA StreamsStep == IndInv /\ [Next]_vars => StreamsInv'
<1> SUFFICES ASSUME IndInv, [Next]_vars PROVE StreamsInv'
  OBVIOUS
<1> USE DEF IndInv, TypeOK, StreamsInv, Live, Handing, vars, loopVars,
      asmVars, gorVars, bufferVars, reportVars
<1>1. CASE OpenHandle  BY <1>1 DEF OpenHandle
<1>2. CASE OpenFails  BY <1>2 DEF OpenFails
<1>3. ASSUME NEW s \in Streams, NEW ending \in BOOLEAN, EvictHeld(s, ending)
     PROVE StreamsInv'
  <2>1. Live' = Live
    BY <1>3 DEF EvictHeld, Reassembled, HeldInv, Live
  <2> QED
    BY <1>3, <2>1 DEF EvictHeld, Reassembled, HeldInv, Live
<1>4. ASSUME NEW s \in Streams, EvictIdle(s) PROVE StreamsInv'
  <2>1. Live' = Live
    BY <1>4 DEF EvictIdle, Live
  <2> QED
    BY <1>4, <2>1 DEF EvictIdle, EvictInv, Live
<1>5. CASE Evicted  BY <1>5 DEF Evicted
<1>6. CASE ReadLen  BY <1>6 DEF ReadLen
<1>7. CASE SnapshotStats  BY <1>7 DEF SnapshotStats
<1>8. CASE ClearWindowSuites  BY <1>8 DEF ClearWindowSuites
<1>9. CASE TakeBatch  BY <1>9 DEF TakeBatch, Buf!Take
<1>10. CASE DrainToken  BY <1>10 DEF DrainToken, Buf!Drain
<1>11. CASE SendReturns  BY <1>11 DEF SendReturns
<1>12. ASSUME NEW s \in Streams, NEW a \in Assets, Add(s, a) PROVE StreamsInv'
  BY <1>12 DEF Add, Buf!Add
<1>13. ASSUME NEW s \in Streams, StoreSuite(s) PROVE StreamsInv'
  BY <1>13 DEF StoreSuite
<1>14. ASSUME NEW s \in Streams, Done(s) PROVE StreamsInv'
  <2>1. Live' = Live
    BY <1>14 DEF Done, Live
  <2> QED
    BY <1>14, <2>1 DEF Done, Live
<1>15. ASSUME NEW s \in Streams, Exit(s) PROVE StreamsInv'
  <2>1. s \in Live /\ Live' = Live \ {s}
    BY <1>15 DEF Exit
  <2>2. Cardinality(Live') = Cardinality(Live) - 1
    BY <2>1, CountOneFewer
  <2> QED
    BY <1>15, <2>1, <2>2 DEF Exit
<1>16. ASSUME NEW s \in Streams, NEW bytes \in SUBSET Assets, HoldPacket(s,
      bytes)
     PROVE StreamsInv'
  <2>1. CASE conn[s] = "new"
    <3>1. s \notin Live
      BY <2>1 DEF Live
    <3>2. Live' = Live \union {s}
      BY <1>16 DEF HoldPacket, Assemble, Live
    <3>3. Cardinality(Live') = Cardinality(Live) + 1
      BY <3>1, <3>2, CountOneMore DEF Live
    <3> QED
      BY <1>16, <2>1, <3>2, <3>3 DEF HoldPacket, Assemble, Live
  <2>2. CASE conn[s] = "open"
    <3>1. Live' = Live
      BY <1>16, <2>2 DEF HoldPacket, Assemble, Live
    <3> QED
      BY <1>16, <2>2, <3>1 DEF HoldPacket, Assemble, Live
  <2> QED
    BY <1>16, <2>1, <2>2 DEF HoldPacket, Assemble
<1>17. ASSUME NEW s \in Streams, NEW bytes \in SUBSET Assets, NEW closesGap
      \in BOOLEAN, NEW ending \in BOOLEAN, DeliverPacket(s, bytes, closesGap,
      ending)
     PROVE StreamsInv'
  <2>1. CASE conn[s] = "new"
    <3>1. s \notin Live
      BY <2>1 DEF Live
    <3>2. Live' = Live \union {s}
      BY <1>17 DEF DeliverPacket, Assemble, Reassembled, Live
    <3>3. Cardinality(Live') = Cardinality(Live) + 1
      BY <3>1, <3>2, CountOneMore DEF Live
    <3> QED
      BY <1>17, <2>1, <3>2, <3>3 DEF DeliverPacket, Assemble, Reassembled, Live
  <2>2. CASE conn[s] = "open"
    <3>1. Live' = Live
      BY <1>17, <2>2 DEF DeliverPacket, Assemble, Reassembled, Live
    <3> QED
      BY <1>17, <2>2, <3>1 DEF DeliverPacket, Assemble, Reassembled, Live
  <2> QED
    BY <1>17, <2>1, <2>2 DEF DeliverPacket, Assemble, Reassembled
<1>18. ASSUME NEW old \in SUBSET Streams, Tick(old) PROVE StreamsInv'
  BY <1>18 DEF Tick
<1>19. CASE Shutdown  BY <1>19 DEF Shutdown
<1>20. CASE EarlyFlush  BY <1>20 DEF EarlyFlush, Buf!ReceiveFull
<1>21. CASE SourceGone  BY <1>21 DEF SourceGone
<1>22. CASE Cancel  BY <1>22 DEF Cancel
<1>23. CASE SourceCloses  BY <1>23 DEF SourceCloses
<1>24. CASE Ended  BY <1>24 DEF Ended
<1>25. CASE UNCHANGED vars
  BY <1>25
<1> HIDE DEF IndInv, TypeOK, StreamsInv, Live, Handing, vars, loopVars,
      asmVars, gorVars, bufferVars, reportVars
<1> QED
  BY <1>1, <1>2, <1>3, <1>4, <1>5, <1>6, <1>7, <1>8, <1>9, <1>10, <1>11,
      <1>12, <1>13, <1>14, <1>15, <1>16, <1>17, <1>18, <1>19, <1>20, <1>21,
      <1>22, <1>23, <1>24, <1>25 DEF Next, LoopStep, GoroutineStep, Packet

(* Before the last Send nothing is held, parsed or buffered any more, so   *)
(* what is owed is in the batch.                                           *)
LEMMA CleanReturnStep == IndInv /\ [Next]_vars => CleanReturnOwesNothing'
<1> SUFFICES ASSUME IndInv, [Next]_vars PROVE CleanReturnOwesNothing'
  OBVIOUS
<1> USE DEF IndInv, TypeOK, LeavingInv, CleanReturnOwesNothing, Handing,
      FlushSteps, vars, loopVars, asmVars, gorVars, bufferVars, reportVars
<1>1. CASE OpenHandle  BY <1>1 DEF OpenHandle
<1>2. CASE OpenFails  BY <1>2 DEF OpenFails
<1>3. ASSUME NEW s \in Streams, NEW ending \in BOOLEAN, EvictHeld(s, ending)
     PROVE CleanReturnOwesNothing'
  BY <1>3 DEF EvictHeld, Reassembled
<1>4. ASSUME NEW s \in Streams, EvictIdle(s) PROVE CleanReturnOwesNothing'
  BY <1>4 DEF EvictIdle
<1>5. CASE Evicted  BY <1>5 DEF Evicted
<1>6. CASE ReadLen  BY <1>6 DEF ReadLen
<1>7. CASE SnapshotStats  BY <1>7 DEF SnapshotStats
<1>8. CASE ClearWindowSuites  BY <1>8 DEF ClearWindowSuites
<1>9. CASE TakeBatch  BY <1>9 DEF TakeBatch, Buf!Take
<1>10. CASE DrainToken  BY <1>10 DEF DrainToken, Buf!Drain
<1>11. CASE SendReturns
  <2>1. leaving => owed \in SUBSET batch
    BY <1>11 DEF SendReturns, NothingLost, HandshakeInv, BatchInv
  <2> QED
    BY <1>11, <2>1 DEF SendReturns
<1>12. ASSUME NEW s \in Streams, NEW a \in Assets, Add(s, a)
     PROVE CleanReturnOwesNothing'
  BY <1>12 DEF Add, Buf!Add
<1>13. ASSUME NEW s \in Streams, StoreSuite(s) PROVE CleanReturnOwesNothing'
  BY <1>13 DEF StoreSuite
<1>14. ASSUME NEW s \in Streams, Done(s) PROVE CleanReturnOwesNothing'
  BY <1>14 DEF Done
<1>15. ASSUME NEW s \in Streams, Exit(s) PROVE CleanReturnOwesNothing'
  BY <1>15 DEF Exit
<1>16. ASSUME NEW s \in Streams, NEW bytes \in SUBSET Assets, HoldPacket(s,
      bytes)
     PROVE CleanReturnOwesNothing'
  BY <1>16 DEF HoldPacket, Assemble
<1>17. ASSUME NEW s \in Streams, NEW bytes \in SUBSET Assets, NEW closesGap
      \in BOOLEAN, NEW ending \in BOOLEAN, DeliverPacket(s, bytes, closesGap,
      ending)
     PROVE CleanReturnOwesNothing'
  BY <1>17 DEF DeliverPacket, Assemble, Reassembled
<1>18. ASSUME NEW old \in SUBSET Streams, Tick(old)
     PROVE CleanReturnOwesNothing'
  BY <1>18 DEF Tick
<1>19. CASE Shutdown  BY <1>19 DEF Shutdown
<1>20. CASE EarlyFlush  BY <1>20 DEF EarlyFlush, Buf!ReceiveFull
<1>21. CASE SourceGone  BY <1>21 DEF SourceGone
<1>22. CASE Cancel  BY <1>22 DEF Cancel
<1>23. CASE SourceCloses  BY <1>23 DEF SourceCloses
<1>24. CASE Ended  BY <1>24 DEF Ended
<1>25. CASE UNCHANGED vars
  BY <1>25
<1> HIDE DEF IndInv, TypeOK, LeavingInv, CleanReturnOwesNothing, Handing,
      FlushSteps, vars, loopVars, asmVars, gorVars, bufferVars, reportVars
<1> QED
  BY <1>1, <1>2, <1>3, <1>4, <1>5, <1>6, <1>7, <1>8, <1>9, <1>10, <1>11,
      <1>12, <1>13, <1>14, <1>15, <1>16, <1>17, <1>18, <1>19, <1>20, <1>21,
      <1>22, <1>23, <1>24, <1>25 DEF Next, LoopStep, GoroutineStep, Packet

(* Every step of the sniffer is a step of the buffer or leaves it alone.   *)
LEMMA BufferStep == IndInv /\ [Next]_vars => [Buf!Next]_(Buf!bufVars)
<1> SUFFICES ASSUME IndInv, [Next]_vars PROVE [Buf!Next]_(Buf!bufVars)
  OBVIOUS
<1> USE DEF IndInv, TypeOK, Handing, Buf!bufVars, Buf!Next, vars, loopVars,
      asmVars, gorVars, bufferVars, reportVars
<1>1. CASE OpenHandle  BY <1>1 DEF OpenHandle
<1>2. CASE OpenFails  BY <1>2 DEF OpenFails
<1>3. ASSUME NEW s \in Streams, NEW ending \in BOOLEAN, EvictHeld(s, ending)
     PROVE [Buf!Next]_(Buf!bufVars)
  BY <1>3 DEF EvictHeld, Reassembled
<1>4. ASSUME NEW s \in Streams, EvictIdle(s) PROVE [Buf!Next]_(Buf!bufVars)
  BY <1>4 DEF EvictIdle
<1>5. CASE Evicted  BY <1>5 DEF Evicted
<1>6. CASE ReadLen  BY <1>6 DEF ReadLen
<1>7. CASE SnapshotStats  BY <1>7 DEF SnapshotStats
<1>8. CASE ClearWindowSuites  BY <1>8 DEF ClearWindowSuites
<1>9. CASE TakeBatch  BY <1>9 DEF TakeBatch, Buf!Take
<1>10. CASE DrainToken  BY <1>10 DEF DrainToken, Buf!Drain
<1>11. CASE SendReturns  BY <1>11 DEF SendReturns
<1>12. ASSUME NEW s \in Streams, NEW a \in Assets, Add(s, a)
     PROVE [Buf!Next]_(Buf!bufVars)
  BY <1>12 DEF Add, Buf!Add
<1>13. ASSUME NEW s \in Streams, StoreSuite(s) PROVE [Buf!Next]_(Buf!bufVars)
  BY <1>13 DEF StoreSuite
<1>14. ASSUME NEW s \in Streams, Done(s) PROVE [Buf!Next]_(Buf!bufVars)
  BY <1>14 DEF Done
<1>15. ASSUME NEW s \in Streams, Exit(s) PROVE [Buf!Next]_(Buf!bufVars)
  BY <1>15 DEF Exit
<1>16. ASSUME NEW s \in Streams, NEW bytes \in SUBSET Assets, HoldPacket(s,
      bytes)
     PROVE [Buf!Next]_(Buf!bufVars)
  BY <1>16 DEF HoldPacket, Assemble
<1>17. ASSUME NEW s \in Streams, NEW bytes \in SUBSET Assets, NEW closesGap
      \in BOOLEAN, NEW ending \in BOOLEAN, DeliverPacket(s, bytes, closesGap,
      ending)
     PROVE [Buf!Next]_(Buf!bufVars)
  BY <1>17 DEF DeliverPacket, Assemble, Reassembled
<1>18. ASSUME NEW old \in SUBSET Streams, Tick(old)
     PROVE [Buf!Next]_(Buf!bufVars)
  BY <1>18 DEF Tick
<1>19. CASE Shutdown  BY <1>19 DEF Shutdown
<1>20. CASE EarlyFlush  BY <1>20 DEF EarlyFlush, Buf!ReceiveFull
<1>21. CASE SourceGone  BY <1>21 DEF SourceGone
<1>22. CASE Cancel  BY <1>22 DEF Cancel
<1>23. CASE SourceCloses  BY <1>23 DEF SourceCloses
<1>24. CASE Ended  BY <1>24 DEF Ended
<1>25. CASE UNCHANGED vars
  BY <1>25
<1> HIDE DEF IndInv, TypeOK, Handing, Buf!bufVars, Buf!Next, vars, loopVars,
      asmVars, gorVars, bufferVars, reportVars
<1> QED
  BY <1>1, <1>2, <1>3, <1>4, <1>5, <1>6, <1>7, <1>8, <1>9, <1>10, <1>11,
      <1>12, <1>13, <1>14, <1>15, <1>16, <1>17, <1>18, <1>19, <1>20, <1>21,
      <1>22, <1>23, <1>24, <1>25 DEF Next, LoopStep, GoroutineStep, Packet

----------------------------------------------------------------------------
(* The invariant holds at the start.                                       *)
LEMMA InitEstablishes == Init => IndInv
<1> SUFFICES ASSUME Init PROVE IndInv
  OBVIOUS
<1> USE DEF Init, Buf!Init
<1>1. TypeOK /\ NothingLost
  BY DEF TypeOK, NothingLost, NoStats, Handing, FlushSteps
<1>2. HandshakeInv /\ HeldInv /\ EvictInv /\ LeavingInv
  BY DEF HandshakeInv, HeldInv, EvictInv, LeavingInv, Handing, FlushSteps
<1>3. BatchInv /\ StatsInv
  BY DEF BatchInv, StatsInv, FlushSteps
<1>4. TokenInv
  BY EmptyIsNotFull DEF TokenInv, Handing
<1>5. SuitesInv
  BY DEF SuitesInv, SuitesOf
<1>6. StreamsInv
  <2>1. Live = {}
    BY DEF Live
  <2> QED
    BY <2>1, FS_EmptySet DEF StreamsInv
<1>7. CleanReturnOwesNothing
  BY DEF CleanReturnOwesNothing
<1> QED
  BY <1>1, <1>2, <1>3, <1>4, <1>5, <1>6, <1>7 DEF IndInv

(* The inductive invariant holds in every state.                           *)
THEOREM Invariance == Spec => []IndInv
<1>1. IndInv /\ [Next]_vars => IndInv'
  BY TypeStep, NothingLostStep, HandshakeStep, HeldStep, EvictStep,
     LeavingStep, BatchStep, TokenStep, SuitesStep, StatsStep, StreamsStep,
     CleanReturnStep DEF IndInv
<1> QED
  BY InitEstablishes, <1>1, PTL DEF Spec

(* The variables of the sniffer keep their types; in particular            *)
(* activeStreams, which one side increments and another decrements, never  *)
(* goes below zero (capture.go:137 and 143).                               *)
THEOREM TypeInvariant == Spec => []TypeOK
<1>1. IndInv => TypeOK
  BY DEF IndInv
<1> QED
  BY <1>1, Invariance, PTL

(* No goroutine works on the buffer while Run is in its select or in       *)
(* flushNow, however many streams there are.                               *)
THEOREM LoopIsAlwaysAlone == Spec => []LoopIsAlone
<1>1. IndInv => LoopIsAlone
  BY DEF IndInv, HandshakeInv, LoopIsAlone
<1> QED
  BY <1>1, Invariance, PTL

(* No captured asset is lost between the assembler and sender.Send.        *)
THEOREM NothingIsLost == Spec => []NothingLost
<1>1. IndInv => NothingLost
  BY DEF IndInv
<1> QED
  BY <1>1, Invariance, PTL

(* The report sent with a batch describes that batch.                      *)
THEOREM ReportsMatch == Spec => []ReportMatchesBatch
<1>1. IndInv => ReportMatchesBatch
  BY DEF IndInv, StatsInv, ReportMatchesBatch
<1> QED
  BY <1>1, Invariance, PTL

(* In the select Full() is ready exactly when the buffer is full.          *)
THEOREM FullIsAlwaysExact == Spec => []FullIsExact
<1>1. IndInv => FullIsExact
  BY DEF IndInv, TokenInv, FullIsExact
<1> QED
  BY <1>1, Invariance, PTL

(* A return of Run after ctx was cancelled leaves nothing behind, also     *)
(* nothing that was waiting for missing bytes.                             *)
THEOREM CleanReturnLeavesNothing == Spec => []CleanReturnOwesNothing
<1>1. IndInv => CleanReturnOwesNothing
  BY DEF IndInv
<1> QED
  BY <1>1, Invariance, PTL

(* The sniffer implements AssetBuffer: what is proved of the buffer under  *)
(* arbitrary callers holds of the buffer in the sniffer.                   *)
THEOREM SnifferImplementsBuffer == Spec => BufferSpec
<1>1. Init => Buf!Init
  BY DEF Init
<1> QED
  BY <1>1, BufferStep, Invariance, PTL DEF Spec, BufferSpec, Buf!Spec
=============================================================================
