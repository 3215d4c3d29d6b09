# CryptoSight probe: TLA+ specifications and proofs

The CryptoSight probe finds cryptographic assets (certificates, cipher suites)
in a private network and posts them to an ingest endpoint. The repository holds
two implementations: one in Go (`main.go`, `scanner/`, `certstore/`, `sniffer/`,
`sender/`) and one in Python (`main.py` and the modules beside it). These
modules specify the parts in which threads, time and the network meet, check
them with TLC and prove their main properties with TLAPS.

## 1. Inventory

| part | state it keeps | operations | hard behaviour |
|---|---|---|---|
| Go asset buffer `sniffer/buffer.go` | map UID to asset, `fullCh` of capacity 1 | Add, Flush, Full, Len | Flush drains `fullCh` after it released the mutex; tokens stale or lost |
| Go capture loop `sniffer/capture.go` | assembler, `activeStreams`, `windowSuites`, ticker, locals of `flushNow` | packet, tick, early flush, shutdown, source closed | one loop and a goroutine per stream share the buffer and the counters; held bytes, eviction, last flush |
| Go TLS sessions and parser `sniffer/tls.go` | `tlsSession` for each pair of endpoints | New, setSNI, setTLS13, the three message parsers | the two directions in any order, missed messages, a session that outlives its connection |
| Go sender `sender/sender.go` | none between calls | Send, post | lost and late requests and answers, timeouts, retries |
| Go scanner `scanner/scanner.go` | semaphore, wait group, `seen`, `assets` | Run, iterCIDR, scanTarget | bounded concurrency, duplicates, address arithmetic at the edges |
| Go certificate store `certstore/certstore.go` | `seen`, `assets` during a call | Read and its four parsers | files, blocks and passwords that fail one by one |
| Go life cycle `main.go`, `config/config.go` | ctx, wait group, cron | main, runCycle, Load | overlapping cycles, the order of shutdown, configurations that do nothing |
| Python scheduler `main.py:192-242` | `last_run_minute`, `stop_event` | poll, match, run a cycle | polls twice a minute, cycles that outlast minutes, memory of the last run |
| Python sniffer `sniffer.py` | buffer, statistics, locks | on_packet, flush_loop, _flush, final flush | two threads flush, bounded joins, `stop_filter` |
| Python life cycle `main.py` | threads, `stop_event` | main, heartbeat loop | joins with timeouts, daemon threads that die with main |
| Python scanner, sender, certificate store, configuration | none between calls | | sequential, or a pool whose results one thread collects |
| deployment files | | | declarative |

How they interact: the Go capture loop calls the assembler, which hands bytes to
stream goroutines; these parse them with the session of their connection and
Add to the buffer; the loop flushes the buffer and calls the sender. The scan
cycle collects the assets of scanner and certificate store and calls the sender
too. In Python the same roles are threads that share a dictionary under a lock.

What makes each part correct, in short: the buffer's signal is neither stale nor
lost; the capture loop loses nothing it captured before the sender had it, and
its reports describe the batch they travel with; an asset is attributed to the
right server and name, however TCP cuts the stream; success of the sender means
ingested; a scan dials every target, not too many at a time, and a cycle reports
all it found; a schedule runs when it says and once; everything ends when told
to, and an end cuts nothing off. `PROJECT.json` lists the
hazards, line by line, with the properties that watch them.

## 2. Modules

Each component has a module of its own; `MC*` modules give the constants values
for TLC, `*Proofs` modules hold theorems. Operators that begin with "Mutant" in
their comment are plausible mistakes, one for each property; nothing in the
specifications uses them.

**AssetBuffer** (`buffer.go`). `items` is the set of UIDs, `token` the content
of `fullCh`, `flushing` says that the flusher is between `Unlock` and the drain.
`Add` is one step because all of it is under the mutex; `Flush` is `Take` and
`Drain`, so that an Add can come between. **BufferHistory** adds two history
variables, `overtook` (what was added between the halves of the last Flush) and
`received` (the loop took the token and its flush is to come), with which it can
be said when a full buffer is silent.

**SnifferCapture** (`capture.go`), which uses AssetBuffer (`Buf`). `main` is the
program counter of Run and flushNow; `gor`, `todo` and `storing` are the stream
goroutines; `conn`, `held` and `evicting` the assembler (gopacket, external,
modelled from how capture.go uses it): bytes are delivered or held for a gap,
FlushOlderThan and FlushAll hand held bytes over and close connections.
`Reassembled` blocks its caller until the goroutine is back in Read: that is
the hand-over which keeps Run and the goroutines apart. `flushNow` is six steps
(`ReadLen`, `SnapshotStats`, `ClearWindowSuites`, `TakeBatch`, `DrainToken`,
`SendReturns`) and each `Add` is followed by a separate `StoreSuite`, so that
all the interleavings the code permits are explored. `owed` is a history
variable: what was captured and not yet given to `sender.Send`. A FIN or RST that
comes before bytes still held is left out: the assembler would drop these bytes
with the connection, and NothingLost would have to forgive them. A connection
whose held bytes are evicted gives up all of them in one step, also those that
FlushOlderThan would leave to a later tick.

**TlsSession** (`tls.go` and the stream factory): the successive connections of
one pair of endpoints and the session they share. `known` says which of the two
ports is in `tlsServerPorts`, from which a stream's direction and `serverIP`
follow. The messages of the two directions come in any order, each may be
missed. A TLS 1.2 Certificate that is read in the form of TLS 1.3 fails the
length check at tls.go:342 (the length comes out 256 times too large) and gives
no asset (`CertificatesAreReadOrLost`). A ClientHello comes once in a connection
(no HelloRetryRequest).

**TlsRecords** (`tls.go:94-130`): the loops below the sessions. parseTLSStream
cuts records off a stream, parseHandshakeMessages cuts messages out of a record,
and tlsStream.run keeps the incomplete rest. What they do depends on lengths
alone, so the data are sequences of small numbers and a header has two units (5
and 4 bytes in the code). **TlsCertificates** (`tls.go:313-371`) reads the chain of
a Certificate message in its two forms. The loops are recursive functions on the
data that is left. `MCTlsSession` takes all three modules: the properties about
the loops have no variables and are evaluated in the initial states.

**Sender** (`sender.go`) with the network and the server around it (external):
requests and answers are sets, what is in them may arrive at any time, also
after the client gave up. **IngestPromise** is the abstract specification: what
a caller may rely on. Sender implements it under `copies[b] =
Cardinality(ingested[b])`.

**PyScheduler** (`main.py:192-242`): the wall clock in half minutes, the loop's
phase, the parsed expression. `StandardMatches` is the standard reading of the
five fields, against which `CronMatches` is checked. `Portable` says on which
expressions the two agree, `MatchesAgain` that a matching minute is followed by
another before the day is over.

**PySniffer** (`sniffer.py:62-183`, `main.py:66-126`): `pc` says where the
capture and the flush thread are, `batch` holds the assets of their running
`_flush`, `buf` is the shared dictionary. The body of each `with buf_lock` is one
step (`OnPacket`, `Take`); between two of them the other thread may run. scapy
(external) asks `stop_filter` after a packet only, so `StopFilter` follows
`OnPacket`. A join with a timeout may give up at any moment; `rushed` records
that one did. When main has `exited` nothing moves any more: both threads are
daemons.

**Scanner** (`scanner.go`): `net`, `ip` and `port` are the loops of Run and
iterCIDR, `sem` and `wg` the semaphore and the wait group, `gor` the goroutine of
each target: dialling, adding its certificates one by one under the mutex,
releasing its token and then its place in the wait group (the deferred calls,
last first). Addresses are numbers, and a network is an interval of them. An
IPv6 network is passed over: see section 3. `shown` is a history variable: the
certificates that servers presented. **Addresses** has the byte arithmetic
itself (mask, membership, last address, increment with carry and wrap-around) and
the property that it does on numbers what Scanner assumes of it.

**CertStore** (`certstore.go`): the walk as a sequence of files, a file being what
its parser can tell of it: readable or not, the password it wants, blocks that
are certificates or not. One step for each file, because the callback runs alone.

**ScanCycle** (`main.go:123-165`) composes the two: `phase` says where runCycle is,
`posted` what it gave to `sender.Send`, whose outcome is a choice here and the
subject of Sender.

**GoProbe** (`main.go:37-117`, the validation of `config.go`): `main` is the program
counter of main, `cycle` the state of each cycle that was started, `sniffer` that
of the sniffer's goroutine. A cycle stands for ScanCycle and the sniffer for
SnifferCapture: GoProbe assumes of them that they end, which `CycleEnds` and
`CancelReturns` show there. cron (robfig, external) starts a goroutine at every
tick, whether or not an earlier one still runs, and the context that Stop returns
is done when all of them are. log.Fatalf and os.Exit end the process at once.

## 3. Runs

| run | what it asks | bounds | states |
|---|---|---|---|
| buffer | no stale token; a full buffer is silent only when overtaken | 6 assets, size 3 | 2 170 |
| capture | invariants, implementation of AssetBuffer, liveness | 2 streams, a certificate and a suite, size 2 | 58 000 |
| capture_source_closes | expected violation | same | |
| sessions | server, name, lost certificates, streams cut anywhere | 2 names, 2 connections, all port sets; all streams of up to 8 units; chains of 2 certificates of 2 units | 26 600 |
| sessions_reuse | expected violation | same | |
| sender | success, failure, duration, IngestPromise | 2 batches, 3 attempts | 265 000 |
| scheduler | once a minute, when due, only when due, ends | 4 expressions, 2 days, cycles of 0, 30 and 150 s | 200 000 |
| pysniffer | nothing lost, bounded buffer, exit, liveness | 3 assets, limit 2 | 3 500 |
| cycle | dials bounded, scan and store complete, all reported, the cycle ends; byte arithmetic | addresses of 3 bits, every block of every size, concurrency 1 to 3; two files of 13 kinds; byte arithmetic on 2 bytes of 2 bits | 153 000 |
| goprobe | clean end, no unexplained idling, shutdown ends | all configurations, 3 cycles | 4 400 |
| scheduler_daily, scheduler_weekday | expected violations | 2 days | |

Why the bounds suffice. Six assets let the buffer grow to twice its size and be
filled again between the halves of a Flush. Two streams are the two directions
of a connection, and each may hold bytes, end, or be evicted while the other is
served; two assets fill the buffer and one of them has a suite, so reports with
and without suites occur. Two connections are the least number that shares a
session. Two batches let a late request of the first meet the second. Two days
are the least that show a minute of the day twice, and each of the four
expressions covers another form of field. Three assets with a limit of two let
the Python buffer reach its limit and let packets come while both threads send.
Of the scan, every block of a space of eight addresses is walked, the single
address, the pair (which has no network and broadcast address) and the whole
space included; lists overlap, so that a host is dialled twice and two goroutines
bring the same certificate; more targets than tokens make Run wait for a slot;
and 0 is a configured concurrency. A file is of each format, readable or not, with
each kind of password and with other blocks before and between certificates, and
every ordered pair of such files is walked. Two bytes of two bits have a carry,
masks that end inside a byte, and a wrap-around. Eight units of stream hold two
records with a message each, so that a cut falls into every part of a header and
of a body. Chains of two certificates have empty blobs, contexts and extensions
besides full ones. Three cycles overlap in every way that main can see.
The proofs remove these bounds for the safety properties.

`StreamsMayBeCutAnywhere`, `CertificatesAreReadOrLost` and `AddressesAreNumbers`
are about pure functions, are evaluated once over all bounded inputs and proved for
all others. Type
correctness of Sender, TlsSession, PyScheduler, GoProbe and ScanCycle is proved
and not repeated in a run.

Deadlock is checked except in `sessions`, whose traffic ends after
MaxConnections connections. `Ended`, `AllSent`, `Stopped`, `Exited` and
`CycleReturned` mark the states in which the other systems have finished.

### What the expected violations show

* `capture_source_closes`: when the packet channel closes, Run returns at
  capture.go:273 without FlushAll and flushNow, and what was captured is lost;
  the comment of Run (178-179) says it flushes before returning.
* `sessions_reuse`: `sessions.LoadOrStore` (capture.go:129) finds the session of
  an earlier connection with the same endpoints. A new connection is labelled
  with the old SNI until its own ClientHello is parsed. `LostOnlyAfterTls13`
  shows the other half: after a TLS 1.3 connection the certificates of TLS 1.2
  connections of the pair are dropped.
* `scheduler_daily`: `last_run_minute` (main.py:200) is a minute of the day and
  is kept for ever, so `0 2 * * *` runs on the first day only.
* `scheduler_weekday`: `tm_wday` has Monday = 0, cron has Sunday = 0.

Met while reading, without a run: probe_config.py:117-121 rejects the
configuration that README.md:72-74 says keeps the probe online; scanner.py:70
reads the leaf certificate only, README.md:8 promises the full chain;
sender.py:57 takes 3xx for success, its docstring (line 4) says non-2xx raises;
config.go:115 accepts networks with `activeScan: false`, after which nothing
runs (`IdleOnlyIf` says that this is the only such configuration); in `_cron_matches` `*/n` counts from 0 also where the field begins at 1,
and a list with a range in it never matches; sniffer.py:63 says that run blocks
until stop_event is set, but on a quiet interface it goes on blocking, because
`stop_filter` (126) is asked after a packet only.

Of the Go scan: an IPv6 network is never scanned, and without a warning.
iterCIDR (scanner.go:277-280) calls cloneIP on the nil that To4 returns for it,
cloneIP makes that an empty slice that is not nil, so To16 is never taken and no
block contains the empty address; the comment (267) says that every usable
address is visited. Were it repaired, tlsConnect would still join host and port
with "%s:%d" (108), which needs brackets for IPv6. Scanner models what the code
does: such a network is skipped. Scheduled cycles may overlap and each has a
semaphore of its own, so `DialsAreBounded` is about one cycle, and the process may
dial a multiple of `concurrency`. An invalid schedule ends the process by
log.Fatalf (main.go:82) after the sniffer was started, whose buffer is not
flushed then. Of the parser: a handshake message that spans two records is given
up, and after a corrupt header what is parsed depends on where the stream was
cut; `CutsAreInvisible` speaks of streams without one.

## 4. Fairness

* SnifferCapture: weak fairness of Run's own steps and of each goroutine (Go
  runs what is runnable; Send ends, its attempts and timeouts are bounded).
  Strong fairness of the shutdown branch: `select` picks at random among ready
  branches, so one that is ready again and again is taken. Strong fairness of a
  tick that finds a given stream old or, if it holds nothing, of a packet of it:
  the ticker goes on, and bytes that stay held and streams that are not heard of
  get older. A stream that keeps sending in order need never be evicted. Nothing
  is assumed of packets, signals or the source.
* Sender: weak fairness of the client; nothing of the network and the server.
* PySniffer: weak fairness of each thread's steps; a join with a timeout
  returns. Nothing of packets, of the interface or of the signal: a capture
  thread may sit in `sniff` for ever, and the liveness properties hold all the
  same.
* ScanCycle: weak fairness of the cycle as a whole. Go runs what is runnable, a
  dial has a timeout, Send is bounded, and each goroutine has few steps, so that
  nothing stronger is needed.
* GoProbe: weak fairness of main, of the end of each cycle and of the sniffer's
  return after the signal, which is what the other modules show of them. Nothing
  of signals, ticks or the sniffer's failures.
* PyScheduler: weak fairness of the loop: a cycle returns (its network calls
  have timeouts) and the wait ends.

## 5. Proofs

**AssetBufferProofs**: type correctness, `NoStaleToken` (inductive with the
type invariant) and `SilentOnlyIfOvertaken`, for every finite set of assets and
every size from 1. The latter needs that during a Flush the buffer holds exactly
what has overtaken its drain (`OvertakingInv`). In the sniffer the hand-over keeps
Adds out of a Flush, and there no signal is lost at all (`FullIsExact`).

**SnifferCaptureProofs**: `NothingLost`, `CleanReturnOwesNothing`,
`ReportMatchesBatch`, `FullIsExact`, `LoopIsAlone` and the implementation of
AssetBuffer, for every finite number of streams and assets. None is inductive.
`IndInv` adds what the program counter implies: `HandshakeInv` (during a
hand-over at most one goroutine works, otherwise none), `HeldInv` and
`EvictInv` (only open connections hold bytes or are visited), `LeavingInv`
(after FlushAll no connection holds bytes), `BatchInv` and `TokenInv` (what the
locals of flushNow and the token are at each of its steps), `SuitesInv` (the
window's suites are those of the buffered assets, up to the asset whose suite
is being stored), `StatsInv`, and `StreamsInv` (activeStreams counts the
goroutines that live). `ReportMatchesBatch` then reads: no goroutine works
while flushNow runs, hence the four calls see one state. The steps of the
sniffer map to steps of AssetBuffer or stutter.

**SenderProofs**: a request or an answer under way belongs to a batch that was
begun and to an attempt already made, an answer 2xx to a batch that was taken,
and elapsed time is bounded by attempt; from these `SuccessIsIngested`,
`CallIsBounded`, `FailsOnlyAfterBackoffs` and the safety part of IngestPromise.

**TlsSessionProofs**: `HostIsServer`, `OwnNameOnceHeard` and
`LostOnlyAfterTls13` for any names and any number of connections. The invariant
says what the session of the pair can hold: the server's address (`HostInv`), the
current name once it was heard (`NameInv`), and a TLS 1.3 mark only if some
connection was one (`VersionInv`). One lemma (`ParsePreserves`) covers the three
messages.

The same module proves what the loops under the sessions compute.
`AnyCutIsInvisible`: however a stream of any length is cut, the record loop finds
the same messages and keeps the same rest; with it `StreamsMayBeCutAnywhere`, and
that less than a record is kept. `ChainsAreReadBack` and
`CertificatesAreReadOrLost`: a chain of any number of certificates is read as it
was written, and in the wrong form not at all. A recursive function is to the
provers a CHOOSE, of which they know nothing until such a function is shown to
exist. `RecursionHasASolution` does this once for every recursion that goes on
with something smaller: a least size at which there is no solution would have a
predecessor with one, which extends. `HandshakeMessagesDef`, `ParseTLSStreamDef`,
`EntriesDef` and `WrittenDef` are its instances. Induction is by the least
counterexample, over a set instead of a predicate (`LenInduction`). A cut is then
followed record by record (`CutOfConcat`: a record complete before the cut is the
first record of the whole). That the form of TLS 1.3 loses a TLS 1.2 chain follows
from the list's length: it is read one unit late, comes out as at least the length
times the values of a unit, and so exceeds the body.

**PySnifferProofs**: `NothingLost`, `BufferIsBounded` and
`PatientExitOwesNothing` for any assets and limit. The invariant adds that a
batch exists only during a send (`BatchInv`), that nothing is captured after the
final `Take` (`EmptyInv`), and that the flush thread has ended before the final
flush unless the join gave up (`JoinInv`).

**PySchedulerProofs**: `OncePerMinute` for any expressions, durations and days:
`last_run_minute` is the last run's minute modulo 1440 (`RunInv`), so a second
run in the same minute finds it equal. The same fact is why a daily schedule
stops, which `scheduler_daily` shows.

`FiresAreScheduled` is proved for portable expressions (`PortableIsStandard`), and
`scheduler_weekday` shows one that is not. `MatchedPollFires` needs more, because
of the memory that is kept for ever: the expression must match again within a
day and later than the longest cycle (`MatchesAgain`). The invariant (`PollInv`)
is that since the end of the last run every matching slot that was polled or
waited past lies in that run's minute of the day; a matching minute between two
equal minutes of successive days contradicts it, so a poll never finds
`last_run_minute` equal by the day before. Matching minutes inside a running cycle
are outside of the statement, as they are outside of the loop (main.py:202).
`MatchedPollsFireEveryDay` reduces the hypothesis to one day, for expressions that
do not tell days apart; TLC evaluates that hypothesis for the expressions of its
run (`SeveralADayAssumption`). The expression of config.yaml.example does not meet
it.

**ScanCycleProofs**: `DialsAreBounded`, `ScanIsComplete`, `StoreIsComplete` and
`CycleReportsAll`, for any address space, networks, ports, concurrency and files.
`ScanInv` says that semaphore and wait group count the goroutines they stand for
(`CountInv`, by the cardinality of finite sets), where the loops can be
(`LoopInv`), that exactly the wanted targets behind the loops have a goroutine
(`LaunchedInv`), and that each certificate shown is in the list or in the hands of
a goroutine that will add it (`ListInv`). When the loops are through and the wait
group is at zero these give completeness. `StoreInv` says the same of the files
behind the walk. `PhaseInv` carries both over the later phases of the cycle: a step
of the cycle is a step of at most one part (`PartsStep`).

The same module proves `BytesAreNumbers` for bytes of any width and addresses of
any number of bytes, the 4 bytes of 8 bits of the code with all their masks among
them. `Pow2` and `Value` are recursive functions, for which `NumberRecursion` gives
solutions. `Value` of the first i bytes is bounded (`ValueIsBounded`) and differs
for different bytes (`ValueIsInjective`); the increment adds one to it where all
later bytes wrap (`PrefixOfIncIP`) and the mask takes away its remainder, whether
the mask ends before, in or behind byte i (`PrefixOfMask`). From these follow that a
block is an interval, its last address the one with all host bits set, and the
wrap-around the one after the last.

**GoProbeProofs**: `EndCutsNothing` and `IdleOnlyIf`, for any number of cycles. The
invariant adds when cron may run (`CronInv`), which cycles can exist where main is
(`CyclesInv`), what became of the sniffer (`SnifferInv`), why main waits
(`WaitInv`) and how it can have exited (`ExitInv`).

Assumptions: the named ones of the modules, all of them about constants (finite
sets, size at least 1, suites distinct from NoSuite, configurations of their
types). TLC evaluates them.

Three theorems of PySchedulerProofs have hypotheses about the configured expressions
as well, described above.

Model-checked only: `CancelReturns`, `HeldIsDelivered`, `StreamsEnd`,
`StopEndsLoop`, `SignalEndsProcess`, `BufferedIsFlushed`, `ReportsContinue`,
`CycleEnds`, `ProbeEnds` and the liveness of IngestPromise: liveness under fairness
is out of the prover's reach. Every invariant and every action property of the
passing runs is proved.

## 6. Not modelled

The inside of a hello (length checks, extensions) beyond what it does to the
session; the fields of an asset (names, key sizes, dates);
blocks written as IPv4-mapped IPv6 addresses; the defaults of the configuration
other than that of the concurrency; the Python scanner, sender and certificate
store, which do sequentially, or with a pool whose results one thread collects,
what their Go counterparts do; logging; the order in which the server applies
reports and its deduplication (not in this repository); deployment files.
packetsTotal is left out: only the report reads it.

## 7. Plan

Done, in the order of importance: the Go capture path, the delivery, the Python
scheduler and sniffer, the scan cycle with scanner and certificate store, the
life cycle of the Go process, the record loops; every safety property of the runs
is proved. What is left:

1. A refinement of IngestPromise by the composition of capture loop and sender:
   what the sniffer owes is handed to a call of Send exactly once.
2. The length checks inside the two hellos.
3. The Python scanner and sender, where they differ from the Go ones (leaf
   certificate only, 3xx taken for success).
