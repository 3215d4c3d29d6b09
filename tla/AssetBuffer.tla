---------------------------- MODULE AssetBuffer ----------------------------
(***************************************************************************)
(* sniffer/buffer.go: the buffer between the stream goroutines, which Add  *)
(* what they parse, and the capture loop, which Flushes it and listens on  *)
(* Full().  Add runs under the mutex from end to end and is one step.      *)
(* Flush is two: it empties the map under the mutex and drains the token   *)
(* of Full() after it has released the mutex, so an Add can come between.  *)
(* Assets are their UIDs: the map keeps one entry for each.                *)
(***************************************************************************)
EXTENDS Naturals, FiniteSets

CONSTANTS Assets,     \* the UIDs that traffic can produce
          MaxSize     \* maxSize, at least 1 (capture.go:199-202)

ASSUME AssetsAssumption  == IsFiniteSet(Assets)
ASSUME MaxSizeAssumption == MaxSize \in Nat \ {0}

VARIABLES items,      \* keys of the map
          token,      \* fullCh, of capacity 1, holds its token
          flushing    \* the flusher is between Unlock and the drain of fullCh

bufVars == <<items, token, flushing>>

TypeOK ==
  /\ items \subseteq Assets
  /\ token \in BOOLEAN
  /\ flushing \in BOOLEAN

IsFull(buffered) == Cardinality(buffered) >= MaxSize

Init ==
  /\ items = {}
  /\ token = FALSE
  /\ flushing = FALSE

----------------------------------------------------------------------------
(* Mutant: a token only when the size is hit exactly.                      *)
AddAtSize(a) ==
  /\ items' = items \union {a}
  /\ token' = (token \/ Cardinality(items') = MaxSize)
  /\ UNCHANGED flushing

(* Add replaces or inserts, and offers a token whenever the map is at or   *)
(* over its size; a second token finds the channel occupied and is         *)
(* discarded.                                                              *)
Add(a) ==
  /\ items' = items \union {a}
  /\ token' = (token \/ IsFull(items'))
  /\ UNCHANGED flushing

(* The capture loop receives from Full().                                  *)
ReceiveFull ==
  /\ token
  /\ ~flushing
  /\ token' = FALSE
  /\ UNCHANGED <<items, flushing>>

(* First half of Flush, under the mutex.                                   *)
Take ==
  /\ ~flushing
  /\ items' = {}
  /\ flushing' = TRUE
  /\ UNCHANGED token

(* Mutant: Flush does not drain Full().                                    *)
DrainNothing ==
  /\ flushing
  /\ flushing' = FALSE
  /\ UNCHANGED <<items, token>>

(* Second half of Flush, without the mutex.                                *)
Drain ==
  /\ flushing
  /\ token' = FALSE
  /\ flushing' = FALSE
  /\ UNCHANGED items

Next ==
  \/ \E a \in Assets : Add(a)
  \/ ReceiveFull
  \/ Take
  \/ Drain

Spec == Init /\ [][Next]_bufVars

----------------------------------------------------------------------------
(* A token left in Full() outside of a Flush is never stale: the buffer is *)
(* at its size, so the early flush the token causes has something to send. *)
(* Holds for any number of goroutines calling Add at any moment, also      *)
(* between the two halves of Flush (buffer.go:36-64).                      *)
NoStaleToken == token /\ ~flushing => IsFull(items)
=============================================================================
