--------------------------- MODULE SnifferCapture ---------------------------
(***************************************************************************)
(* sniffer/capture.go: the passive TLS sniffer.  One goroutine, the        *)
(* capture loop (Run), owns the assembler and the flushes; one goroutine   *)
(* per TCP stream direction (tlsStream.run) reads what the assembler       *)
(* reassembled, parses it and Adds the assets to the AssetBuffer.          *)
(*                                                                         *)
(* The two meet in tcpreader.ReaderStream (external): Reassembled sends    *)
(* the bytes on an unbuffered channel and then waits on `done', which the  *)
(* stream goroutine sends at its next Read, once it has used up the bytes. *)
(* ReassemblyComplete closes both channels and Read returns io.EOF.        *)
(*                                                                         *)
(* The bytes of a packet are the set of assets the parser finds in them,   *)
(* and a stream is one stream object of the factory, opened and closed     *)
(* once.  packetsTotal, which nothing reads but the report, is left out.   *)
(***************************************************************************)
EXTENDS Naturals, FiniteSets

CONSTANTS Assets, MaxSize,   \* as in AssetBuffer
          Streams,           \* stream objects the assembler may create
          Suites,            \* cipher suite names
          NoSuite,           \* of the assets that are not crypto_library
          SuiteOf            \* [Assets -> Suites or NoSuite]: cipherSuiteName

ASSUME AssetsAssumption  == IsFiniteSet(Assets)
ASSUME MaxSizeAssumption == MaxSize \in Nat \ {0}
ASSUME StreamsAssumption == IsFiniteSet(Streams)
ASSUME SuiteAssumption ==
  /\ NoSuite \notin Suites
  /\ SuiteOf \in [Assets -> Suites \union {NoSuite}]

VARIABLES
  main,          \* where Run is
  cancelled,     \* ctx is done
  sourceClosed,  \* the channel of the packet source is closed
  leaving,       \* Run is in its ctx.Done() branch
  conn,          \* [Streams -> ..]: the assembler's connection
  held,          \* [Streams -> SUBSET Assets]: waiting for missing bytes
  evicting,      \* connections FlushOlderThan or FlushAll still has to visit
  gor,           \* [Streams -> ..]: the stream goroutine
  todo,          \* [Streams -> SUBSET Assets]: found, not yet added
  storing,       \* [Streams -> SUBSET Assets]: added, suite not yet stored
  items, token,  \* the AssetBuffer
  windowSuites,  \* cipher suites of this flush window
  activeStreams, \* live stream goroutines
  stats, batch,  \* locals of flushNow: the snapshot and the flushed assets
  owed           \* history: captured and not yet handed to sender.Send

loopVars   == <<cancelled, sourceClosed, leaving>>
asmVars    == <<conn, held, evicting>>
gorVars    == <<gor, todo, storing, activeStreams>>
bufferVars == <<items, token>>
reportVars == <<stats, batch>>
vars == <<main, loopVars, asmVars, gorVars, bufferVars, windowSuites,
          reportVars, owed>>

(* Run inside Reassembled, called by Assemble or by one of the two Flush   *)
(* functions of the assembler; and the calls of flushNow, in their order.  *)
Handing    == {"assemble", "handover"}
FlushSteps == {"len", "snapshot", "clear", "take", "drain", "send"}

Buf == INSTANCE AssetBuffer WITH flushing <- (main = "drain")

SuitesOf(assets) == {SuiteOf[a] : a \in assets} \ {NoSuite}
OpenConns        == {s \in Streams : conn[s] \in {"open", "ending"}}
NoStats          == [depth |-> 0, suites |-> {}, streams |-> 0]

TypeOK ==
  /\ main \in {"opening", "select", "evict", "returned"}
              \union Handing \union FlushSteps
  /\ cancelled \in BOOLEAN /\ sourceClosed \in BOOLEAN /\ leaving \in BOOLEAN
  /\ conn \in [Streams -> {"new", "open", "ending", "closed"}]
  /\ held \in [Streams -> SUBSET Assets]
  /\ evicting \subseteq Streams
  /\ gor \in [Streams -> {"none", "reading", "parsed", "gone"}]
  /\ todo \in [Streams -> SUBSET Assets]
  /\ storing \in [Streams -> SUBSET Assets]
  /\ items \subseteq Assets
  /\ token \in BOOLEAN
  /\ windowSuites \subseteq Suites
  /\ activeStreams \in Nat
  /\ stats \in [depth : Nat, suites : SUBSET Suites, streams : Nat]
  /\ batch \subseteq Assets
  /\ owed \subseteq Assets

Init ==
  /\ main = "opening"
  /\ cancelled = FALSE /\ sourceClosed = FALSE /\ leaving = FALSE
  /\ conn = [s \in Streams |-> "new"]
  /\ held = [s \in Streams |-> {}]
  /\ evicting = {}
  /\ gor = [s \in Streams |-> "none"]
  /\ todo = [s \in Streams |-> {}]
  /\ storing = [s \in Streams |-> {}]
  /\ Buf!Init
  /\ windowSuites = {}
  /\ activeStreams = 0
  /\ stats = NoStats /\ batch = {}
  /\ owed = {}

----------------------------------------------------------------------------
(* pcap.OpenLive and SetBPFFilter.                                         *)
OpenHandle ==
  /\ main = "opening"
  /\ main' = "select"
  /\ UNCHANGED <<loopVars, asmVars, gorVars, bufferVars, windowSuites,
                 reportVars, owed>>

OpenFails ==
  /\ main = "opening"
  /\ main' = "returned"
  /\ UNCHANGED <<loopVars, asmVars, gorVars, bufferVars, windowSuites,
                 reportVars, owed>>

(* The environment: a signal cancels ctx; the capture handle fails, and    *)
(* the packet source closes its channel.                                   *)
Cancel ==
  /\ ~cancelled
  /\ cancelled' = TRUE
  /\ UNCHANGED <<main, sourceClosed, leaving, asmVars, gorVars, bufferVars,
                 windowSuites, reportVars, owed>>

SourceCloses ==
  /\ main # "opening" /\ ~sourceClosed
  /\ sourceClosed' = TRUE
  /\ UNCHANGED <<main, cancelled, leaving, asmVars, gorVars, bufferVars,
                 windowSuites, reportVars, owed>>

----------------------------------------------------------------------------
(* Mutant: New does not count the stream.                                  *)
AssembleUncounted(s, bytes) ==
  /\ main = "select" /\ ~sourceClosed
  /\ conn[s] \in {"new", "open"}
  /\ owed' = owed \union bytes
  /\ UNCHANGED <<loopVars, evicting, storing, activeStreams, bufferVars,
                 windowSuites, reportVars>>

(* Assemble, for a packet of a stream that has not ended.  The first       *)
(* packet of a stream makes the assembler call the factory's New, which    *)
(* counts the stream and starts its goroutine.                             *)
Assemble(s, bytes) ==
  /\ main = "select" /\ ~sourceClosed
  /\ conn[s] \in {"new", "open"}
  /\ activeStreams' = IF conn[s] = "new" THEN activeStreams + 1
                                         ELSE activeStreams
  /\ owed' = owed \union bytes
  /\ UNCHANGED <<loopVars, evicting, storing, bufferVars, windowSuites,
                 reportVars>>

(* Out of order, or of a connection whose start was not seen: the          *)
(* assembler keeps the bytes.                                              *)
HoldPacket(s, bytes) ==
  /\ Assemble(s, bytes)
  /\ conn' = [conn EXCEPT ![s] = "open"]
  /\ gor' = [gor EXCEPT ![s] = "reading"]
  /\ held' = [held EXCEPT ![s] = @ \union bytes]
  /\ UNCHANGED <<main, todo>>

(* Reassembled: the goroutine is in Read and receives the bytes; Run waits *)
(* for its `done'.  The connection is closed after them if ending.         *)
Reassembled(s, bytes, ending) ==
  /\ gor' = [gor EXCEPT ![s] = "parsed"]
  /\ todo' = [todo EXCEPT ![s] = bytes]
  /\ conn' = [conn EXCEPT ![s] = IF ending THEN "ending" ELSE "open"]

(* Mutant: Run does not wait for `done'.                                   *)
DeliverWithoutWaiting(s, bytes, closesGap, ending) ==
  /\ Assemble(s, bytes)
  /\ gor[s] \in {"none", "reading"}
  /\ ending => closesGap
  /\ Reassembled(s, bytes \union (IF closesGap THEN held[s] ELSE {}), ending)
  /\ held' = [held EXCEPT ![s] = IF closesGap THEN {} ELSE @]
  /\ UNCHANGED main

(* In order: the bytes go on at once, with what was held if they close the *)
(* gap before it.  A FIN or RST ends the stream after its last byte: one   *)
(* that comes before bytes still held is not modelled.                     *)
DeliverPacket(s, bytes, closesGap, ending) ==
  /\ Assemble(s, bytes)
  /\ ending => closesGap
  /\ Reassembled(s, bytes \union (IF closesGap THEN held[s] ELSE {}), ending)
  /\ held' = [held EXCEPT ![s] = IF closesGap THEN {} ELSE @]
  /\ main' = "assemble"

----------------------------------------------------------------------------
(* The stream goroutine: buffer.Add for each asset found, and the name of  *)
(* its cipher suite into windowSuites.                                     *)
Add(s, a) ==
  /\ gor[s] = "parsed" /\ storing[s] = {} /\ a \in todo[s]
  /\ UNCHANGED main
  /\ Buf!Add(a)
  /\ todo' = [todo EXCEPT ![s] = @ \ {a}]
  /\ storing' = [storing EXCEPT ![s] = IF SuiteOf[a] = NoSuite THEN {} ELSE {a}]
  /\ UNCHANGED <<loopVars, asmVars, gor, activeStreams, windowSuites,
                 reportVars, owed>>

StoreSuite(s) ==
  /\ storing[s] # {}
  /\ windowSuites' = windowSuites \union SuitesOf(storing[s])
  /\ storing' = [storing EXCEPT ![s] = {}]
  /\ UNCHANGED <<main, loopVars, asmVars, gor, todo, activeStreams,
                 bufferVars, reportVars, owed>>

(* The goroutine is back in Read and sends `done'; Run goes on, and calls  *)
(* ReassemblyComplete if the bytes ended the stream.                       *)
Done(s) ==
  /\ main \in Handing
  /\ gor[s] = "parsed" /\ todo[s] = {} /\ storing[s] = {}
  /\ gor' = [gor EXCEPT ![s] = "reading"]
  /\ conn' = [conn EXCEPT ![s] = IF @ = "ending" THEN "closed" ELSE @]
  /\ main' = IF main = "assemble" THEN "select" ELSE "evict"
  /\ UNCHANGED <<loopVars, held, evicting, todo, storing, activeStreams,
                 bufferVars, windowSuites, reportVars, owed>>

(* io.EOF: the goroutine ends, at any time after its stream was closed.    *)
Exit(s) ==
  /\ gor[s] = "reading" /\ conn[s] = "closed"
  /\ gor' = [gor EXCEPT ![s] = "gone"]
  /\ activeStreams' = activeStreams - 1
  /\ UNCHANGED <<main, loopVars, asmVars, todo, storing, bufferVars,
                 windowSuites, reportVars, owed>>

----------------------------------------------------------------------------
(* Mutant: only idle connections are evicted.                              *)
TickOnlyIdle(old) ==
  /\ main = "select"
  /\ old \subseteq {s \in OpenConns : held[s] = {}}
  /\ evicting' = old
  /\ main' = "evict"
  /\ UNCHANGED <<loopVars, conn, held, gorVars, bufferVars, windowSuites,
                 reportVars, owed>>

(* The ticker's branch: FlushOlderThan visits the connections whose data   *)
(* or last packet is older than two flush intervals.                       *)
Tick(old) ==
  /\ main = "select"
  /\ old \subseteq OpenConns
  /\ evicting' = old
  /\ main' = "evict"
  /\ UNCHANGED <<loopVars, conn, held, gorVars, bufferVars, windowSuites,
                 reportVars, owed>>

(* Mutant: no FlushAll before the last flush.                              *)
ShutdownWithoutFlushAll ==
  /\ main = "select" /\ cancelled
  /\ leaving' = TRUE
  /\ main' = "evict"
  /\ UNCHANGED <<cancelled, sourceClosed, asmVars, gorVars, bufferVars,
                 windowSuites, reportVars, owed>>

(* The ctx.Done() branch: FlushAll visits every connection.                *)
Shutdown ==
  /\ main = "select" /\ cancelled
  /\ leaving' = TRUE
  /\ evicting' = OpenConns
  /\ main' = "evict"
  /\ UNCHANGED <<cancelled, sourceClosed, conn, held, gorVars, bufferVars,
                 windowSuites, reportVars, owed>>

(* Mutant: an evicted stream is closed and its held bytes are thrown away. *)
EvictThrowsAway(s, ending) ==
  /\ main = "evict" /\ s \in evicting /\ held[s] # {}
  /\ leaving => ending
  /\ conn' = [conn EXCEPT ![s] = "closed"]
  /\ held' = [held EXCEPT ![s] = {}]
  /\ evicting' = evicting \ {s}
  /\ UNCHANGED <<main, loopVars, gorVars, bufferVars, windowSuites,
                 reportVars, owed>>

(* Held bytes are handed over, their gap skipped.  FlushAll then closes    *)
(* the stream; FlushOlderThan leaves it open if it saw a packet lately.    *)
EvictHeld(s, ending) ==
  /\ main = "evict" /\ s \in evicting /\ held[s] # {}
  /\ leaving => ending
  /\ Reassembled(s, held[s], ending)
  /\ held' = [held EXCEPT ![s] = {}]
  /\ evicting' = evicting \ {s}
  /\ main' = "handover"
  /\ UNCHANGED <<loopVars, storing, activeStreams, bufferVars, windowSuites,
                 reportVars, owed>>

(* Mutant: FlushOlderThan closes only connections that held bytes.         *)
EvictIdleStays(s) ==
  /\ main = "evict" /\ s \in evicting /\ held[s] = {}
  /\ conn' = [conn EXCEPT ![s] = IF leaving THEN "closed" ELSE @]
  /\ evicting' = evicting \ {s}
  /\ UNCHANGED <<main, loopVars, held, gorVars, bufferVars, windowSuites,
                 reportVars, owed>>

EvictIdle(s) ==
  /\ main = "evict" /\ s \in evicting /\ held[s] = {}
  /\ conn' = [conn EXCEPT ![s] = "closed"]
  /\ evicting' = evicting \ {s}
  /\ UNCHANGED <<main, loopVars, held, gorVars, bufferVars, windowSuites,
                 reportVars, owed>>

Evicted ==
  /\ main = "evict" /\ evicting = {}
  /\ main' = "len"
  /\ UNCHANGED <<loopVars, asmVars, gorVars, bufferVars, windowSuites,
                 reportVars, owed>>

(* The buffer's branch: an early flush.                                    *)
EarlyFlush ==
  /\ main = "select"
  /\ main' = "len"
  /\ Buf!ReceiveFull
  /\ UNCHANGED <<loopVars, asmVars, gorVars, windowSuites, reportVars, owed>>

----------------------------------------------------------------------------
(* flushNow: buf.Len, snapshotStats, clearWindowSuites, the two halves of  *)
(* buf.Flush, and sender.Send, whose error is only logged.                 *)
ReadLen ==
  /\ main = "len"
  /\ main' = "snapshot"
  /\ stats' = [stats EXCEPT !.depth = Cardinality(items)]
  /\ UNCHANGED <<loopVars, asmVars, gorVars, bufferVars, windowSuites,
                 batch, owed>>

SnapshotStats ==
  /\ main = "snapshot"
  /\ main' = "clear"
  /\ stats' = [stats EXCEPT !.suites = windowSuites, !.streams = activeStreams]
  /\ UNCHANGED <<loopVars, asmVars, gorVars, bufferVars, windowSuites,
                 batch, owed>>

(* Mutant: the window is not cleared.                                      *)
KeepWindowSuites ==
  /\ main = "clear"
  /\ main' = "take"
  /\ UNCHANGED <<loopVars, asmVars, gorVars, bufferVars, windowSuites,
                 reportVars, owed>>

ClearWindowSuites ==
  /\ main = "clear"
  /\ main' = "take"
  /\ windowSuites' = {}
  /\ UNCHANGED <<loopVars, asmVars, gorVars, bufferVars, reportVars, owed>>

(* Mutant: Flush returns the map and does not replace it.                  *)
TakeCopy ==
  /\ main = "take"
  /\ main' = "drain"
  /\ batch' = items
  /\ UNCHANGED <<loopVars, asmVars, gorVars, bufferVars, windowSuites, stats,
                 owed>>

TakeBatch ==
  /\ main = "take"
  /\ main' = "drain"
  /\ Buf!Take
  /\ batch' = items
  /\ UNCHANGED <<loopVars, asmVars, gorVars, windowSuites, stats, owed>>

(* Mutant: Flush leaves the token in Full().                               *)
DrainNothing ==
  /\ main = "drain"
  /\ main' = "send"
  /\ UNCHANGED <<loopVars, asmVars, gorVars, bufferVars, windowSuites,
                 reportVars, owed>>

DrainToken ==
  /\ main = "drain"
  /\ main' = "send"
  /\ Buf!Drain
  /\ UNCHANGED <<loopVars, asmVars, gorVars, windowSuites, reportVars, owed>>

(* Mutant: after the last flush Run goes back to its select.               *)
SendReturnsToSelect ==
  /\ main = "send"
  /\ main' = "select"
  /\ owed' = owed \ batch
  /\ stats' = NoStats /\ batch' = {}
  /\ UNCHANGED <<loopVars, asmVars, gorVars, bufferVars, windowSuites>>

SendReturns ==
  /\ main = "send"
  /\ main' = IF leaving THEN "returned" ELSE "select"
  /\ owed' = owed \ batch
  /\ stats' = NoStats /\ batch' = {}
  /\ UNCHANGED <<loopVars, asmVars, gorVars, bufferVars, windowSuites>>

(* The packets branch, channel closed: Run returns an error.               *)
SourceGone ==
  /\ main = "select" /\ sourceClosed
  /\ main' = "returned"
  /\ UNCHANGED <<loopVars, asmVars, gorVars, bufferVars, windowSuites,
                 reportVars, owed>>

(* Run has returned; a goroutine may be left in Read for good.             *)
Ended ==
  /\ main = "returned"
  /\ \A s \in Streams : \/ gor[s] \in {"none", "gone"}
                          \/ (gor[s] = "reading" /\ conn[s] = "open")
  /\ UNCHANGED vars

----------------------------------------------------------------------------
LoopStep ==
  \/ OpenHandle \/ OpenFails
  \/ \E s \in Streams : \E ending \in BOOLEAN : EvictHeld(s, ending)
  \/ \E s \in Streams : EvictIdle(s)
  \/ Evicted
  \/ ReadLen \/ SnapshotStats \/ ClearWindowSuites
  \/ TakeBatch \/ DrainToken \/ SendReturns

GoroutineStep(s) ==
  \/ \E a \in Assets : Add(s, a)
  \/ StoreSuite(s)
  \/ Done(s)
  \/ Exit(s)

Packet(s) ==
  \E bytes \in SUBSET Assets :
    \/ HoldPacket(s, bytes)
    \/ \E closesGap, ending \in BOOLEAN :
          DeliverPacket(s, bytes, closesGap, ending)

Next ==
  \/ LoopStep
  \/ \E s \in Streams : GoroutineStep(s) \/ Packet(s)
  \/ \E old \in SUBSET Streams : Tick(old)
  \/ Shutdown \/ EarlyFlush \/ SourceGone
  \/ Cancel \/ SourceCloses
  \/ Ended

Spec == Init /\ [][Next]_vars

(* Go runs every runnable goroutine, and Send returns (its attempts and    *)
(* timeouts are bounded): weak fairness.  A select picks among its ready   *)
(* branches at random, so none that is ready again and again is passed     *)
(* over for ever: strong fairness for its branches.  The ticker keeps      *)
(* ticking: bytes that stay held are old at a later tick, and so is a      *)
(* stream that gets no more packets (FlushOlderThan, capture.go:264).      *)
(* Nothing is assumed of packets, signals or the capture handle.           *)
TickFinds(s) == \E old \in SUBSET Streams : s \in old /\ Tick(old)

Fairness ==
  /\ WF_vars(LoopStep)
  /\ \A s \in Streams : WF_vars(GoroutineStep(s))
  /\ SF_vars(Shutdown)
  /\ \A s \in Streams :
       SF_vars(TickFinds(s) \/ (held[s] = {} /\ Packet(s)))

FairSpec == Spec /\ Fairness
----------------------------------------------------------------------------
(* While Run is in its select or in flushNow no stream goroutine is        *)
(* between Read and Read: the buffer and windowSuites, which flushNow      *)
(* reads in four separate calls (capture.go:228-232), stand still.         *)
LoopIsAlone ==
  main \notin Handing =>
    \A s \in Streams : gor[s] # "parsed" /\ todo[s] = {} /\ storing[s] = {}

(* Every captured asset is with the assembler, with a stream goroutine, in *)
(* the buffer or in the running flush until sender.Send had it: no order   *)
(* of Adds, evictions and flushes loses one before it is sent.             *)
NothingLost ==
  \A a \in owed :
    \/ a \in items \union batch
    \/ \E s \in Streams : a \in held[s] \union todo[s]

(* When Run returns because ctx was cancelled, everything captured has     *)
(* been handed to sender.Send, also what was waiting for missing bytes     *)
(* (capture.go:255-259).                                                   *)
CleanReturnOwesNothing == main = "returned" /\ leaving => owed = {}

(* The report and the assets sent with it describe the same window:        *)
(* bufferDepth is the number of assets, cipherSuites are the suites of     *)
(* these assets, and no open connection is missing from activeStreams      *)
(* (capture.go:80-94 and 228-236).                                         *)
ReportMatchesBatch ==
  main = "send" =>
    /\ stats.depth = Cardinality(batch)
    /\ stats.suites = SuitesOf(batch)
    /\ stats.streams >= Cardinality(OpenConns)

(* In the select, Full() is ready exactly when the buffer is full: no      *)
(* early flush is missed and none is caused by a stale token.              *)
FullIsExact == main = "select" => (token <=> Buf!IsFull(items))

(* The sniffer uses the buffer as AssetBuffer specifies it.                *)
BufferSpec == Buf!Spec

(* Run returns after ctx is cancelled, whatever else is ready.             *)
CancelReturns == cancelled ~> (main = "returned")

(* Bytes held for a gap that is never filled reach the parser in the end   *)
(* (capture.go:261-264), unless the sniffer stops.                         *)
HeldIsDelivered ==
  \A s \in Streams : (held[s] # {}) ~> (held[s] = {} \/ main = "returned")

(* A stream goroutine ends when its stream is no longer heard of, by a     *)
(* FIN, an eviction or the shutdown, and with it what activeStreams counts *)
(* (capture.go:142-163, 257-264); only Run's return on an error may leave  *)
(* it in Read for good.                                                    *)
StreamsEnd ==
  \A s \in Streams :
    \/ []<><<Packet(s)>>_vars
    \/ (gor[s] # "none") ~> (gor[s] = "gone" \/ (main = "returned" /\ ~leaving))

(* capture.go:178-179: "It blocks until ctx is cancelled, then flushes any *)
(* remaining assets before returning."                                     *)
ReturnOwesNothing == main = "returned" => owed = {}
=============================================================================
