------------------------- MODULE AssetBufferProofs -------------------------
(***************************************************************************)
(* Proofs about AssetBuffer, for any finite set of assets, any size of the *)
(* buffer and any interleaving of Adds with the flusher.                   *)
(***************************************************************************)
EXTENDS BufferHistory, FiniteSetTheorems, TLAPS

(* Adding to a set of buffered assets does not make it less full.          *)
LEMMA FullIsMonotone ==
  ASSUME NEW S \in SUBSET Assets, NEW T \in SUBSET S, IsFull(T)
  PROVE  IsFull(S)
<1>1. IsFiniteSet(S)
  BY AssetsAssumption, FS_Subset
<1>2. IsFiniteSet(T) /\ Cardinality(T) <= Cardinality(S)
  BY <1>1, FS_Subset
<1>3. Cardinality(S) \in Nat /\ Cardinality(T) \in Nat
  BY <1>1, <1>2, FS_CardinalityType
<1> QED
  BY <1>2, <1>3, MaxSizeAssumption DEF IsFull

(* An empty buffer is not full, since maxSize is at least 1.               *)
LEMMA EmptyIsNotFull == ~IsFull({})
BY FS_EmptySet, MaxSizeAssumption DEF IsFull

(* Being full is a Boolean.                                                *)
LEMMA FullIsBoolean == ASSUME NEW S PROVE IsFull(S) \in BOOLEAN
BY DEF IsFull

(* The variables of the buffer keep their types.                           *)
THEOREM TypeInvariant == Spec => []TypeOK
<1>1. Init => TypeOK
  BY DEF Init, TypeOK
<1>2. TypeOK /\ [Next]_bufVars => TypeOK'
  BY FullIsBoolean DEF TypeOK, Next, Add, ReceiveFull, Take, Drain, bufVars
<1> QED
  BY <1>1, <1>2, PTL DEF Spec

(* A token that waits in Full() outside of a Flush announces a full buffer *)
(* (buffer.go:36-64).  With the type invariant it is inductive: Add only   *)
(* grows the buffer, and Drain removes the token before flushing ends.     *)
THEOREM TokenIsNeverStale == Spec => []NoStaleToken
<1>1. Init => NoStaleToken
  BY DEF Init, NoStaleToken
<1>2. TypeOK /\ NoStaleToken /\ [Next]_bufVars => NoStaleToken'
  <2> SUFFICES ASSUME TypeOK, NoStaleToken, [Next]_bufVars
               PROVE  NoStaleToken'
    OBVIOUS
  <2>1. ASSUME NEW a \in Assets, Add(a) PROVE NoStaleToken'
    <3>1. items \in SUBSET items' /\ items' \in SUBSET Assets
      BY <2>1 DEF Add, TypeOK
    <3>2. IsFull(items) => IsFull(items')
      BY <3>1, FullIsMonotone
    <3> QED
      BY <2>1, <3>2 DEF Add, NoStaleToken, IsFull
  <2>2. CASE ReceiveFull
    BY <2>2 DEF ReceiveFull, NoStaleToken
  <2>3. CASE Take
    BY <2>3 DEF Take, NoStaleToken
  <2>4. CASE Drain
    BY <2>4 DEF Drain, NoStaleToken
  <2>5. CASE UNCHANGED bufVars
    BY <2>5 DEF bufVars, NoStaleToken, IsFull
  <2> QED
    BY <2>1, <2>2, <2>3, <2>4, <2>5 DEF Next
<1> QED
  BY <1>1, <1>2, TypeInvariant, PTL DEF Spec

----------------------------------------------------------------------------
(* The history variables take nothing from the buffer.                     *)
THEOREM HistoryIsBuffer == HistorySpec => Spec
<1>1. HistoryInit => Init
  BY DEF HistoryInit
<1>2. [HistoryNext]_historyVars => [Next]_bufVars
  BY DEF HistoryNext, AddAny, Receive, BeginFlush, EndFlush, Next, historyVars
<1> QED
  BY <1>1, <1>2, PTL DEF HistorySpec, Spec

(* During a Flush the buffer holds what overtook its drain so far, and the *)
(* loop that flushes has no token in hand.                                 *)
OvertakingInv ==
  /\ flushing => items = overtook /\ ~received
  /\ SilentOnlyIfOvertaken

(* A full buffer that is silent outside of a Flush, with no flush to come, *)
(* holds exactly what overtook the drain of the last Flush                 *)
(* (buffer.go:40-62).                                                      *)
THEOREM SilenceIsExplained == HistorySpec => []SilentOnlyIfOvertaken
<1>1. HistoryInit => OvertakingInv
  BY EmptyIsNotFull DEF HistoryInit, Init, OvertakingInv, SilentOnlyIfOvertaken
<1>2. OvertakingInv /\ [HistoryNext]_historyVars => OvertakingInv'
  <2> SUFFICES ASSUME OvertakingInv, [HistoryNext]_historyVars
               PROVE  OvertakingInv'
    OBVIOUS
  <2>1. ASSUME NEW a \in Assets, AddAny(a) PROVE OvertakingInv'
    <3>1. flushing' => items' = overtook' /\ ~received'
      BY <2>1 DEF AddAny, Add, OvertakingInv
    <3>2. IsFull(items') => token'
      BY <2>1 DEF AddAny, Add
    <3>3. SilentOnlyIfOvertaken'
      BY <3>2 DEF SilentOnlyIfOvertaken, IsFull
    <3> QED
      BY <3>1, <3>3 DEF OvertakingInv
  <2>2. CASE Receive
    BY <2>2 DEF Receive, ReceiveFull, OvertakingInv, SilentOnlyIfOvertaken
  <2>3. CASE BeginFlush
    BY <2>3 DEF BeginFlush, Take, OvertakingInv, SilentOnlyIfOvertaken
  <2>4. CASE EndFlush
    BY <2>4 DEF EndFlush, Drain, OvertakingInv, SilentOnlyIfOvertaken
  <2>5. CASE UNCHANGED historyVars
    BY <2>5 DEF historyVars, bufVars, OvertakingInv, SilentOnlyIfOvertaken, IsFull
  <2> QED
    BY <2>1, <2>2, <2>3, <2>4, <2>5 DEF HistoryNext
<1>3. OvertakingInv => SilentOnlyIfOvertaken
  BY DEF OvertakingInv
<1> QED
  BY <1>1, <1>2, <1>3, PTL DEF HistorySpec
=============================================================================
