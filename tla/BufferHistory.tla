--------------------------- MODULE BufferHistory ---------------------------
(***************************************************************************)
(* AssetBuffer with what a reader of the code has to remember in order to  *)
(* tell whether a full buffer may be silent: which Adds overtook the drain *)
(* of the last Flush (buffer.go:57-62), and whether the capture loop has   *)
(* taken the token and not flushed yet (capture.go:267-269).               *)
(***************************************************************************)
EXTENDS AssetBuffer

VARIABLES overtook,   \* history: added between the halves of the last Flush
          received    \* history: a token was received, its flush is to come

historyVars == <<bufVars, overtook, received>>

HistoryInit == Init /\ overtook = {} /\ received = FALSE

AddAny(a) ==
  /\ Add(a)
  /\ overtook' = IF flushing THEN overtook \union {a} ELSE overtook
  /\ UNCHANGED received

Receive    == ReceiveFull /\ received' = TRUE /\ UNCHANGED overtook
BeginFlush == Take /\ overtook' = {} /\ received' = FALSE
EndFlush   == Drain /\ UNCHANGED <<overtook, received>>

HistoryNext ==
  \/ \E a \in Assets : AddAny(a)
  \/ Receive
  \/ BeginFlush
  \/ EndFlush

HistorySpec == HistoryInit /\ [][HistoryNext]_historyVars

----------------------------------------------------------------------------
(* A full buffer can be silent: Adds that overtake the drain fill it, and  *)
(* the drain throws their token away (buffer.go:57-62).  Then it holds     *)
(* these assets and nothing else, for the next Add of any asset, a known   *)
(* one included, offers the token again (buffer.go:40-45).  So what a lost *)
(* signal delays is bounded by what came during one drain.                 *)
SilentOnlyIfOvertaken ==
  IsFull(items) /\ ~token /\ ~flushing /\ ~received => items = overtook
=============================================================================
