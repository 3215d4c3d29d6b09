------------------------------ MODULE Scanner -------------------------------
(***************************************************************************)
(* scanner/scanner.go: the active TLS scan.  Run walks the addresses of    *)
(* every configured network, starts a goroutine for each address and port, *)
(* no more than Concurrency of them at a time, and waits for all of them.  *)
(* The goroutines put the certificates they are shown into one list.       *)
(*                                                                         *)
(* Addresses are numbers and a network is the interval that its mask gives *)
(* (module Addresses relates both to the bytes of the code).  A target is  *)
(* a turn of the loops: overlapping networks dial a host once for each.    *)
(***************************************************************************)
EXTENDS Integers, Sequences, FiniteSets

CONSTANTS MaxAddr,              \* the address of all ones
          Certs,                \* certificates that servers may show
          Invalid,              \* a string that net.ParseCIDR rejects
          V6,                   \* any IPv6 network
          DefaultConcurrency,   \* 50 in config.Load
          ScanConfigs           \* the configurations: [networks, ports, ..]

(* IPv4 networks.                                                          *)
Networks ==
  {n \in [first : 0 .. MaxAddr, last : 0 .. MaxAddr] : n.first <= n.last}

ASSUME AddrAssumption        == MaxAddr \in Nat
ASSUME InvalidAssumption     == {Invalid, V6} \intersect Networks = {}
ASSUME ConcurrencyAssumption == DefaultConcurrency \in Nat \ {0}
ASSUME ConfigAssumption ==
  ScanConfigs \subseteq [networks : Seq(Networks \union {Invalid, V6}),
                         ports : Seq(Nat), concurrency : Int]

VARIABLES
  scan,      \* the configuration, constant
  net,       \* Run's loop: the network, by its position
  ip, port,  \* iterCIDR's loop and the one over the ports
  sem, wg,   \* tokens in the semaphore, the wait group's counter
  gor,       \* [Targets -> ..]: the goroutine of each target
  found,     \* [Targets -> SUBSET Certs]: shown, not yet given to addAsset
  assets,    \* what addAsset kept
  shown      \* history: the certificates that the dials brought

cursor   == <<net, ip, port>>
scanVars == <<scan, cursor, sem, wg, gor, found, assets, shown>>

Positions == 1 .. Len(scan.networks)
PortIndex == 1 .. Len(scan.ports)
Targets   == Positions \X (0 .. MaxAddr) \X PortIndex
Live      == {"dialling", "adding", "released"}

(* config.Load: a concurrency that is not positive becomes the default.    *)
Concurrency ==
  IF scan.concurrency <= 0 THEN DefaultConcurrency ELSE scan.concurrency

(* certToAsset: the UID is made of the fingerprint, so the certificate     *)
(* stands for it; the target gives host and port.                          *)
Asset(c, t) == [cert |-> c, target |-> t]

ScanTypeOK ==
  /\ scan \in ScanConfigs
  /\ net \in 1 .. Len(scan.networks) + 1
  /\ ip \in -1 .. MaxAddr
  /\ port \in 1 .. Len(scan.ports) + 1
  /\ sem \in Nat /\ wg \in Nat
  /\ gor \in [Targets -> {"none", "done"} \union Live]
  /\ found \in [Targets -> SUBSET Certs]
  /\ assets \subseteq [cert : Certs, target : Targets]
  /\ shown \subseteq Certs

ScanInit ==
  /\ scan \in ScanConfigs
  /\ net = 1 /\ ip = -1 /\ port = 1   \* before the first network
  /\ sem = 0 /\ wg = 0
  /\ gor = [t \in Targets |-> "none"]
  /\ found = [t \in Targets |-> {}]
  /\ assets = {} /\ shown = {}

----------------------------------------------------------------------------
(* Mutant: the block of two addresses loses both.                          *)
UsableLoseTwo(n, a) == a \notin {n.first, n.last} \/ n.first = n.last

(* isHost, or neither the first nor the last address of the block.         *)
Usable(n, a) == a \notin {n.first, n.last} \/ n.last - n.first <= 1

(* The loops arrive at address a of network n: all ports, or none.         *)
Arrive(n, a) ==
  /\ ip' = a
  /\ port' = IF Usable(n, a) THEN 1 ELSE Len(scan.ports) + 1

NextNetwork == net' = net + 1 /\ ip' = -1 /\ port' = 1

(* ParseCIDR fails: a warning, and the next network.  An IPv6 network is   *)
(* passed over without one: cloneIP makes the nil of To4 an empty address  *)
(* that is not nil, and no block contains it.                              *)
SkipNetwork ==
  /\ net \in Positions /\ scan.networks[net] \in {Invalid, V6}
  /\ NextNetwork
  /\ UNCHANGED <<scan, sem, wg, gor, found, assets, shown>>

EnterNetwork ==
  /\ net \in Positions /\ scan.networks[net] \in Networks /\ ip = -1
  /\ Arrive(scan.networks[net], scan.networks[net].first)
  /\ UNCHANGED <<scan, net, sem, wg, gor, found, assets, shown>>

(* The next turn of iterCIDR: incIP wraps, or leaves the block, or goes on.*)
NextAddress ==
  /\ net \in Positions /\ ip # -1 /\ port > Len(scan.ports)
  /\ LET n == scan.networks[net]
     IN  IF ip = MaxAddr \/ ip + 1 > n.last THEN NextNetwork
         ELSE Arrive(n, ip + 1) /\ UNCHANGED net
  /\ UNCHANGED <<scan, sem, wg, gor, found, assets, shown>>

(* wg.Add and `sem <- struct{}{}', which blocks while the channel is full. *)
Launch ==
  /\ net \in Positions /\ ip # -1 /\ port \in PortIndex
  /\ sem < Concurrency
  /\ sem' = sem + 1 /\ wg' = wg + 1
  /\ gor' = [gor EXCEPT ![<<net, ip, port>>] = "dialling"]
  /\ port' = port + 1
  /\ UNCHANGED <<scan, net, ip, found, assets, shown>>

----------------------------------------------------------------------------
(* tlsConnect fails or times out, or the server shows no certificate.      *)
DialFails(t) ==
  /\ gor[t] = "dialling"
  /\ gor' = [gor EXCEPT ![t] = "adding"]
  /\ UNCHANGED <<scan, cursor, sem, wg, found, assets, shown>>

(* Mutant: the token goes back before the dial, not in a defer.            *)
DialWithoutToken(t, chain) ==
  /\ gor[t] = "dialling" /\ sem > 0
  /\ sem' = sem - 1
  /\ UNCHANGED <<scan, cursor, wg, gor, found, assets, shown>>

(* scanTarget with a chain.                                                *)
DialSucceeds(t, chain) ==
  /\ gor[t] = "dialling"
  /\ gor' = [gor EXCEPT ![t] = "adding"]
  /\ found' = [found EXCEPT ![t] = chain]
  /\ shown' = shown \union chain
  /\ UNCHANGED <<scan, cursor, sem, wg, assets>>

(* Mutant: seen is looked up by host too.                                  *)
AddEveryHost(t, c) ==
  /\ gor[t] = "adding" /\ c \in found[t]
  /\ found' = [found EXCEPT ![t] = @ \ {c}]
  /\ assets' = assets \union {Asset(c, t)}
  /\ UNCHANGED <<scan, cursor, sem, wg, gor, shown>>

(* addAsset, under mu: the first one with a UID stays.                     *)
AddAsset(t, c) ==
  /\ gor[t] = "adding" /\ c \in found[t]
  /\ found' = [found EXCEPT ![t] = @ \ {c}]
  /\ assets' = IF \E a \in assets : a.cert = c THEN assets
               ELSE assets \union {Asset(c, t)}
  /\ UNCHANGED <<scan, cursor, sem, wg, gor, shown>>

(* The deferred calls, last first: `<-sem', then wg.Done.                  *)
Release(t) ==
  /\ gor[t] = "adding" /\ found[t] = {}
  /\ sem' = sem - 1
  /\ gor' = [gor EXCEPT ![t] = "released"]
  /\ UNCHANGED <<scan, cursor, wg, found, assets, shown>>

WgDone(t) ==
  /\ gor[t] = "released"
  /\ wg' = wg - 1
  /\ gor' = [gor EXCEPT ![t] = "done"]
  /\ UNCHANGED <<scan, cursor, sem, found, assets, shown>>

----------------------------------------------------------------------------
ProducerStep == SkipNetwork \/ EnterNetwork \/ NextAddress \/ Launch

GoroutineStep(t) ==
  \/ DialFails(t)
  \/ \E chain \in SUBSET Certs : DialSucceeds(t, chain)
  \/ \E c \in Certs : AddAsset(t, c)
  \/ Release(t)
  \/ WgDone(t)

ScanStep == ProducerStep \/ \E t \in Targets : GoroutineStep(t)

(* wg.Wait returns: Run returns the assets, and no error ever.             *)
ScanReturns == net > Len(scan.networks) /\ wg = 0

----------------------------------------------------------------------------
(* The reference: a block of one or two addresses is all hosts, a larger   *)
(* one begins and ends with an address that is none.                       *)
Hosts(n) == IF n.last - n.first <= 1 THEN n.first .. n.last
                                     ELSE n.first + 1 .. n.last - 1

Wanted == {t \in Targets : /\ scan.networks[t[1]] \in Networks
                           /\ t[2] \in Hosts(scan.networks[t[1]])}
----------------------------------------------------------------------------
(* However the goroutines are scheduled, no more dials are under way than  *)
(* the configured concurrency (scanner.go:45, 69-72).                      *)
DialsAreBounded ==
  Cardinality({t \in Targets : gor[t] = "dialling"}) <= Concurrency

(* When wg.Wait lets Run return, every host and port of every IPv4 network *)
(* was dialled, the others were not, and each certificate that any server  *)
(* showed is in the list exactly once, whatever order the answers came in  *)
(* (scanner.go:54-85, 267-298).                                            *)
ScanIsComplete ==
  ScanReturns =>
    /\ {t \in Targets : gor[t] = "done"} = Wanted
    /\ {a.cert : a \in assets} = shown
    /\ \A a, b \in assets : a.cert = b.cert => a = b
=============================================================================
