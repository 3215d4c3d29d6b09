--------------------------- MODULE ScanCycleProofs --------------------------
(***************************************************************************)
(* Proofs about ScanCycle, for any lists of networks, ports and files, any *)
(* concurrency and any schedule of the scan's goroutines; and about the    *)
(* byte arithmetic of addresses, for bytes of any width.                   *)
(***************************************************************************)
EXTENDS MCScanCycle, FiniteSetTheorems, WellFoundedInduction, TLAPS

USE AddrAssumption, InvalidAssumption, ConcurrencyAssumption

----------------------------------------------------------------------------
(* The scan: what its counters and its list mean at every moment.          *)

WithToken == {t \in Targets : gor[t] \in {"dialling", "adding"}}
Working   == {t \in Targets : gor[t] \in Live}

(* The semaphore and the wait group count the goroutines they stand for.   *)
CountInv ==
  /\ IsFiniteSet(WithToken) /\ sem = Cardinality(WithToken)
  /\ IsFiniteSet(Working) /\ wg = Cardinality(Working)
  /\ sem <= Concurrency

(* Run's loops are behind target t.                                        *)
Past(t) ==
  \/ t[1] < net
  \/ /\ t[1] = net /\ ip # -1
     /\ t[2] < ip \/ (t[2] = ip /\ t[3] < port)

(* While iterCIDR runs, ip is in its block, and ports are left only for an *)
(* address that is a host.                                                 *)
LoopInv ==
  ip # -1 =>
    /\ net \in Positions /\ scan.networks[net] \in Networks
    /\ ip \in scan.networks[net].first .. scan.networks[net].last
    /\ port # Len(scan.ports) + 1 => ip \in Hosts(scan.networks[net])

(* The goroutines started are those of the wanted targets behind the loops.*)
LaunchedInv ==
  \A t \in Targets : gor[t] # "none" <=> (t \in Wanted /\ Past(t))

(* What was shown is in the list or on its way to it, and nothing twice.   *)
ListInv ==
  /\ \A c \in shown : \/ \E a \in assets : a.cert = c
                      \/ \E t \in Targets : c \in found[t]
  /\ \A a \in assets : a.cert \in shown
  /\ \A t \in Targets : found[t] \subseteq shown
  /\ \A t \in Targets : found[t] # {} => gor[t] = "adding"
  /\ \A a, b \in assets : a.cert = b.cert => a = b

ScanInv == ScanTypeOK /\ CountInv /\ LoopInv /\ LaunchedInv /\ ListInv

----------------------------------------------------------------------------
(* The lists of a configuration are sequences.                             *)
LEMMA ConfigTypes ==
  ASSUME ScanTypeOK
  PROVE  /\ scan.networks \in Seq(Networks \union {Invalid, V6})
         /\ scan.ports \in Seq(Nat)
         /\ Len(scan.networks) \in Nat /\ Len(scan.ports) \in Nat
         /\ Concurrency \in Nat
<1>1. scan \in [networks : Seq(Networks \union {Invalid, V6}),
                ports : Seq(Nat), concurrency : Int]
  BY ConfigAssumption DEF ScanTypeOK
<1>2. scan.concurrency \in Int
  BY <1>1
<1>3. Concurrency \in Nat
  BY <1>2 DEF Concurrency
<1> QED
  BY <1>1, <1>3

(* Usable, as the loop tests it, is membership among the hosts.            *)
LEMMA UsableIsHost ==
  ASSUME NEW n \in Networks, NEW a \in n.first .. n.last
  PROVE  Usable(n, a) <=> a \in Hosts(n)
BY DEF Networks, Usable, Hosts

(* A set that grows or shrinks by one element is counted by one.           *)
LEMMA CountUp ==
  ASSUME NEW S, IsFiniteSet(S), NEW x, x \notin S
  PROVE  IsFiniteSet(S \union {x})
         /\ Cardinality(S \union {x}) = Cardinality(S) + 1
BY FS_AddElement

LEMMA CountDown ==
  ASSUME NEW S, IsFiniteSet(S), NEW x \in S
  PROVE  IsFiniteSet(S \ {x}) /\ Cardinality(S \ {x}) = Cardinality(S) - 1
         /\ Cardinality(S) - 1 \in Nat
<1>1. IsFiniteSet(S \ {x}) /\ Cardinality(S \ {x}) = Cardinality(S) - 1
  BY FS_RemoveElement
<1> QED
  BY <1>1, FS_CardinalityType

LEMMA ScanInitInv == ScanInit => ScanInv
<1> SUFFICES ASSUME ScanInit PROVE ScanInv
  OBVIOUS
<1>1. scan \in [networks : Seq(Networks \union {Invalid, V6}),
                ports : Seq(Nat), concurrency : Int]
  BY ConfigAssumption DEF ScanInit
<1>2. Len(scan.networks) \in Nat /\ Len(scan.ports) \in Nat
  BY <1>1
<1>3. ScanTypeOK
  BY <1>2 DEF ScanInit, ScanTypeOK
<1>4. CountInv
  <2>1. WithToken = {} /\ Working = {}
    BY DEF ScanInit, WithToken, Working, Live
  <2> QED
    BY <2>1, <1>3, FS_EmptySet, ConfigTypes DEF CountInv, ScanInit
<1>5. LoopInv /\ ListInv
  BY DEF ScanInit, LoopInv, ListInv
<1>6. LaunchedInv
  <2>1. ASSUME NEW t \in Targets PROVE ~Past(t)
    BY <1>2 DEF Targets, Positions, Past, ScanInit
  <2> QED
    BY <2>1 DEF LaunchedInv, ScanInit
<1> QED
  BY <1>3, <1>4, <1>5, <1>6 DEF ScanInv

----------------------------------------------------------------------------
(* The steps of Run's loops.                                               *)
LEMMA ProducerKeeps == ScanInv /\ ProducerStep => ScanInv'
<1> SUFFICES ASSUME ScanInv, ProducerStep PROVE ScanInv'
  OBVIOUS
<1> USE DEF ScanInv
<1>0. /\ scan.networks \in Seq(Networks \union {Invalid, V6})
      /\ Len(scan.networks) \in Nat /\ Len(scan.ports) \in Nat
      /\ Concurrency \in Nat
  BY ConfigTypes
<1>a. scan' = scan /\ Targets' = Targets /\ Wanted' = Wanted
      /\ Concurrency' = Concurrency /\ Positions' = Positions
      /\ PortIndex' = PortIndex
  BY DEF ProducerStep, SkipNetwork, EnterNetwork, NextAddress, Launch,
         Targets, Wanted, Concurrency, Positions, PortIndex
<1>b. ASSUME NEW t \in Targets
      PROVE  t[1] \in 1 .. Len(scan.networks) /\ t[2] \in 0 .. MaxAddr
             /\ t[3] \in 1 .. Len(scan.ports)
  BY DEF Targets, Positions, PortIndex
<1>c. ASSUME NEW k \in Positions, scan.networks[k] \in Networks
      PROVE  scan.networks[k] \in Networks
  BY <1>0, <1>c DEF Positions
<1>d. ASSUME NEW t \in Wanted
      PROVE  /\ t \in Targets /\ scan.networks[t[1]] \in Networks
             /\ scan.networks[t[1]] \in Networks
             /\ t[2] \in Hosts(scan.networks[t[1]])
             /\ t[2] >= scan.networks[t[1]].first
             /\ t[2] <= scan.networks[t[1]].last
  <2>1. t \in Targets /\ scan.networks[t[1]] \in Networks
        /\ t[2] \in Hosts(scan.networks[t[1]])
    BY DEF Wanted
  <2>2. scan.networks[t[1]] \in Networks
    BY <2>1, <1>b, <1>c DEF Positions
  <2> QED
    BY <2>1, <2>2 DEF Networks, Hosts
<1>1. ASSUME SkipNetwork \/ EnterNetwork \/ NextAddress PROVE ScanInv'
  <2>1. UNCHANGED <<scan, sem, wg, gor, found, assets, shown>>
    BY <1>1 DEF SkipNetwork, EnterNetwork, NextAddress
  <2>2. CountInv' /\ ListInv'
    BY <2>1, <1>a DEF CountInv, ListInv, WithToken, Working
  <2>3. LoopInv' /\ net' \in 1 .. Len(scan.networks) + 1
        /\ ip' \in -1 .. MaxAddr /\ port' \in 1 .. Len(scan.ports) + 1
    <3>1. CASE SkipNetwork
      BY <3>1, <1>0, <1>a DEF SkipNetwork, NextNetwork, LoopInv, Positions
    <3>2. CASE EnterNetwork
      <4> DEFINE n == scan.networks[net]
      <4>1. n \in Networks /\ net \in Positions
        BY <3>2, <1>c DEF EnterNetwork
      <4>2. n.first \in n.first .. n.last /\ n.first \in 0 .. MaxAddr
        BY <4>1 DEF Networks
      <4>3. Usable(n, n.first) <=> n.first \in Hosts(n)
        BY <4>1, <4>2, UsableIsHost
      <4> QED
        BY <3>2, <4>1, <4>2, <4>3, <1>0, <1>a
           DEF EnterNetwork, Arrive, LoopInv, Positions
    <3>3. CASE NextAddress
      <4> DEFINE n == scan.networks[net]
      <4>1. n \in Networks /\ net \in Positions /\ ip \in n.first .. n.last
           
        BY <3>3 DEF NextAddress, LoopInv
      <4>2. CASE NextNetwork
        BY <4>1, <4>2, <1>0, <1>a DEF NextNetwork, LoopInv, Positions
      <4>3. CASE Arrive(n, ip + 1) /\ net' = net /\ ip # MaxAddr
                 /\ ~(ip + 1 > n.last)
        <5>1. ip + 1 \in n.first .. n.last /\ ip + 1 \in 0 .. MaxAddr
          BY <4>1, <4>3 DEF Networks
        <5>2. Usable(n, ip + 1) <=> ip + 1 \in Hosts(n)
          BY <4>1, <5>1, UsableIsHost
        <5> QED
          BY <4>1, <4>3, <5>1, <5>2, <1>0, <1>a DEF Arrive, LoopInv, Positions
      <4> QED
        BY <3>3, <4>2, <4>3 DEF NextAddress
    <3> QED
      BY <1>1, <3>1, <3>2, <3>3
  <2>4. ASSUME NEW t \in Wanted PROVE Past(t)' <=> Past(t)
    <3>1. CASE SkipNetwork
      BY <3>1, <1>0, <1>b, <1>d DEF SkipNetwork, NextNetwork, Past, Positions
    <3>2. CASE EnterNetwork
      <4>1. t[1] = net => t[2] >= scan.networks[net].first
        BY <1>d
      <4>2. t[1] = net /\ t[2] = scan.networks[net].first => port' = 1
        <5>1. ASSUME t[1] = net, t[2] = scan.networks[net].first
              PROVE  Usable(scan.networks[net], scan.networks[net].first)
          BY <5>1, <1>d, UsableIsHost DEF Networks
        <5> QED
          BY <5>1, <3>2 DEF EnterNetwork, Arrive
      <4>3. scan.networks[net] \in Networks
        BY <3>2, <1>c DEF EnterNetwork
      <4> QED
        BY <3>2, <4>1, <4>2, <4>3, <1>b, <1>d DEF EnterNetwork, Arrive, Past,
           Networks
    <3>3. CASE NextAddress
      <4> DEFINE n == scan.networks[net]
      <4>1. n \in Networks /\ net \in Positions /\ ip \in n.first .. n.last
        BY <3>3 DEF NextAddress, LoopInv
      <4>0. ip \in Int /\ net \in Int /\ port = Len(scan.ports) + 1 /\ ip # -1
        BY <3>3, <1>0 DEF NextAddress, ScanTypeOK
      <4>b. t[1] \in Int /\ t[2] \in 0 .. MaxAddr /\ t[3] < port
        BY <4>0, <1>b, <1>d, <1>0
      <4>2. CASE NextNetwork /\ (ip = MaxAddr \/ ip + 1 > n.last)
        <5>1. t[1] = net => t[2] <= ip
          BY <1>d, <4>1, <4>2 DEF Networks
        <5> QED
          BY <4>2, <5>1, <4>0, <4>b DEF NextNetwork, Past
      <4>3. CASE Arrive(n, ip + 1) /\ net' = net /\ ip # MaxAddr
                 /\ ~(ip + 1 > n.last)
        <5>1. t[1] = net /\ t[2] = ip + 1 => port' = 1
          <6>1. ASSUME t[1] = net, t[2] = ip + 1 PROVE Usable(n, ip + 1)
            <7>1. ip + 1 \in n.first .. n.last
              BY <4>1, <4>3 DEF Networks
            <7> QED
              BY <6>1, <7>1, <4>1, <1>d, UsableIsHost
          <6> QED
            BY <6>1, <4>3 DEF Arrive
        <5> QED
          BY <4>3, <5>1, <4>0, <4>1, <4>b, <1>b, <1>d DEF Arrive, Past, Networks
      <4> QED
        BY <3>3, <4>2, <4>3 DEF NextAddress
    <3> QED
      BY <1>1, <3>1, <3>2, <3>3
  <2>5. LaunchedInv'
    BY <2>1, <2>4, <1>a DEF LaunchedInv
  <2> QED
    BY <2>1, <2>2, <2>3, <2>5, <1>a DEF ScanTypeOK
<1>2. ASSUME Launch PROVE ScanInv'
  <2> DEFINE x == <<net, ip, port>>
  <2> DEFINE n == scan.networks[net]
  <2>1. x \in Targets /\ x \in Wanted /\ ~Past(x) /\ gor[x] = "none"
    <3>1. net \in Positions /\ ip \in 0 .. MaxAddr /\ port \in PortIndex
      BY <1>2 DEF Launch, ScanTypeOK
    <3>2. x \in Targets
      BY <3>1 DEF Targets
    <3>3. n \in Networks /\ ip \in Hosts(n)
      BY <1>2, <1>0 DEF Launch, LoopInv, PortIndex
    <3>4. ~Past(x)
      BY <3>1, <1>0 DEF Past, Positions, PortIndex
    <3> QED
      BY <3>2, <3>3, <3>4 DEF Wanted, LaunchedInv, ScanTypeOK
  <2>2. gor' = [gor EXCEPT ![x] = "dialling"] /\ gor \in [Targets -> {"none", "done"} \union Live]
    BY <1>2 DEF Launch, ScanTypeOK
  <2>3. ScanTypeOK'
    <3>1. gor' \in [Targets -> {"none", "done"} \union Live]
      BY <2>2 DEF Live
    <3>2. port' \in 1 .. Len(scan.ports) + 1
      BY <1>2, <1>0 DEF Launch, PortIndex
    <3>3. sem' \in Nat /\ wg' \in Nat
      BY <1>2 DEF Launch, ScanTypeOK
    <3> QED
      BY <3>1, <3>2, <3>3, <1>2, <1>a DEF Launch, ScanTypeOK
  <2>4. CountInv'
    <3>1. WithToken' = WithToken \union {x} /\ x \notin WithToken
      BY <2>1, <2>2, <1>a DEF WithToken
    <3>2. Working' = Working \union {x} /\ x \notin Working
      BY <2>1, <2>2, <1>a DEF Working, Live
    <3>3. IsFiniteSet(WithToken') /\ Cardinality(WithToken') = sem + 1
      BY <3>1, CountUp DEF CountInv
    <3>4. IsFiniteSet(Working') /\ Cardinality(Working') = wg + 1
      BY <3>2, CountUp DEF CountInv
    <3>5. sem + 1 <= Concurrency
      BY <1>2, <1>0 DEF Launch, ScanTypeOK
    <3> QED
      BY <3>3, <3>4, <3>5, <1>2, <1>a DEF CountInv, Launch
  <2>5. LoopInv'
    BY <1>2, <1>0, <1>a DEF Launch, LoopInv, PortIndex
  <2>6. LaunchedInv'
    <3>1. ASSUME NEW t \in Targets PROVE Past(t)' <=> (Past(t) \/ t = x)
      <4>1. t = <<t[1], t[2], t[3]>>
        BY DEF Targets
      <4>2. port \in Int /\ ip \in Int /\ net \in Int
        BY <1>2, <1>0 DEF ScanTypeOK
      <4> QED
        BY <4>1, <4>2, <1>2, <1>b DEF Launch, Past
    <3> QED
      BY <2>1, <2>2, <3>1, <1>a DEF LaunchedInv
  <2>7. ListInv'
    <3>1. \A t \in Targets : found[t] # {} => gor'[t] = "adding"
      BY <2>1, <2>2 DEF ListInv
    <3> QED
      BY <3>1, <1>2, <1>a DEF ListInv, Launch
  <2> QED
    BY <2>3, <2>4, <2>5, <2>6, <2>7
<1> QED
  BY <1>1, <1>2 DEF ProducerStep

----------------------------------------------------------------------------
(* The steps of the goroutine of target t.                                 *)
LEMMA GoroutineKeeps ==
  ASSUME ScanInv, NEW t \in Targets, GoroutineStep(t)
  PROVE  ScanInv'
<1> USE DEF ScanInv
<1>0. Concurrency \in Nat
  BY ConfigTypes
<1>a. /\ UNCHANGED <<scan, net, ip, port>>
      /\ Targets' = Targets /\ Wanted' = Wanted /\ Concurrency' = Concurrency
      /\ Positions' = Positions
  BY DEF GoroutineStep, DialFails, DialSucceeds, AddAsset, Release, WgDone,
         cursor, Targets, Wanted, Concurrency, Positions, PortIndex
<1>b. LoopInv'
  BY <1>a DEF LoopInv
<1>c. \A u \in Targets : Past(u)' <=> Past(u)
  BY <1>a DEF Past
<1>1. ASSUME gor[t] = "dialling", gor' = [gor EXCEPT ![t] = "adding"],
             UNCHANGED <<sem, wg>>
      PROVE  CountInv' /\ LaunchedInv'
             /\ gor' \in [Targets -> {"none", "done"} \union Live]
  <2>1. WithToken' = WithToken /\ Working' = Working
    BY <1>1, <1>a DEF WithToken, Working, Live, ScanTypeOK
  <2> QED
    BY <1>1, <2>1, <1>a, <1>c DEF CountInv, LaunchedInv, ScanTypeOK, Live
<1>2. CASE DialFails(t)
  <2>1. CountInv' /\ LaunchedInv'
        /\ gor' \in [Targets -> {"none", "done"} \union Live]
    BY <1>1, <1>2 DEF DialFails
  <2>2. ListInv'
    BY <1>2, <1>a DEF DialFails, ListInv, ScanTypeOK
  <2> QED
    BY <1>2, <1>a, <1>b, <2>1, <2>2 DEF DialFails, ScanTypeOK
<1>3. ASSUME NEW chain \in SUBSET Certs, DialSucceeds(t, chain) PROVE ScanInv'
  <2>1. CountInv' /\ LaunchedInv'
        /\ gor' \in [Targets -> {"none", "done"} \union Live]
    BY <1>1, <1>3 DEF DialSucceeds
  <2>2. found[t] = {}
    BY <1>3 DEF DialSucceeds, ListInv
  <2>3. ListInv'
    BY <1>3, <1>a, <2>2 DEF DialSucceeds, ListInv, ScanTypeOK
  <2> QED
    BY <1>3, <1>a, <1>b, <2>1, <2>3 DEF DialSucceeds, ScanTypeOK
<1>4. ASSUME NEW c \in Certs, AddAsset(t, c) PROVE ScanInv'
  <2>1. CountInv' /\ LaunchedInv'
    BY <1>4, <1>a, <1>c DEF AddAsset, CountInv, LaunchedInv, WithToken, Working
  <2>2. ScanTypeOK'
    BY <1>4, <1>a DEF AddAsset, Asset, ScanTypeOK
  <2>3. /\ assets \subseteq assets'
        /\ \E a \in assets' : a.cert = c
        /\ \A a \in assets' : a \in assets \/ (a.cert = c /\ a = Asset(c, t)
                                  /\ \A b \in assets : b.cert # c)
    <3>1. Asset(c, t).cert = c
      BY DEF Asset
    <3>2. CASE \E a \in assets : a.cert = c
      BY <1>4, <3>2 DEF AddAsset
    <3>3. CASE ~\E a \in assets : a.cert = c
      <4>1. assets' = assets \union {Asset(c, t)}
        BY <1>4, <3>3 DEF AddAsset
      <4> QED
        BY <3>1, <3>3, <4>1
    <3> QED
      BY <3>2, <3>3
  <2>4. \A u \in Targets : found'[u] = IF u = t THEN found[t] \ {c} ELSE found[u]
    BY <1>4 DEF AddAsset, ScanTypeOK
  <2>5. gor' = gor /\ shown' = shown /\ gor[t] = "adding" /\ c \in found[t]
    BY <1>4 DEF AddAsset
  <2>6. ListInv'
    <3>1. \A d \in shown' : \/ \E a \in assets' : a.cert = d
                            \/ \E u \in Targets : d \in found'[u]
      BY <2>3, <2>4, <2>5 DEF ListInv
    <3>2. \A a, b \in assets' : a.cert = b.cert => a = b
      BY <2>3 DEF ListInv
    <3> QED
      BY <3>1, <3>2, <2>3, <2>4, <2>5, <1>a DEF ListInv
  <2> QED
    BY <2>1, <2>2, <2>6, <1>b
<1>5. CASE Release(t)
  <2>1. t \in WithToken /\ WithToken' = WithToken \ {t} /\ Working' = Working
    BY <1>5, <1>a DEF Release, WithToken, Working, Live, ScanTypeOK
  <2>2. IsFiniteSet(WithToken') /\ Cardinality(WithToken') = sem - 1
        /\ sem - 1 \in Nat
    BY <2>1, CountDown DEF CountInv
  <2>3. CountInv'
    BY <1>5, <2>1, <2>2, <1>0, <1>a DEF CountInv, Release, ScanTypeOK
  <2>4. LaunchedInv' /\ ListInv'
    BY <1>5, <1>a, <1>c DEF Release, LaunchedInv, ListInv, ScanTypeOK
  <2>5. ScanTypeOK'
    BY <1>5, <2>2, <1>a DEF Release, ScanTypeOK, Live
  <2> QED
    BY <2>3, <2>4, <2>5, <1>b
<1>6. CASE WgDone(t)
  <2>1. t \in Working /\ Working' = Working \ {t} /\ WithToken' = WithToken
    BY <1>6, <1>a DEF WgDone, WithToken, Working, Live, ScanTypeOK
  <2>2. IsFiniteSet(Working') /\ Cardinality(Working') = wg - 1
        /\ wg - 1 \in Nat
    BY <2>1, CountDown DEF CountInv
  <2>3. CountInv'
    BY <1>6, <2>1, <2>2, <1>a DEF CountInv, WgDone
  <2>4. LaunchedInv' /\ ListInv'
    BY <1>6, <1>a, <1>c DEF WgDone, LaunchedInv, ListInv, ScanTypeOK
  <2>5. ScanTypeOK'
    BY <1>6, <2>2, <1>a DEF WgDone, ScanTypeOK, Live
  <2> QED
    BY <2>3, <2>4, <2>5, <1>b
<1> QED
  BY <1>2, <1>3, <1>4, <1>5, <1>6 DEF GoroutineStep

LEMMA ScanKeeps == ScanInv /\ [ScanStep]_scanVars => ScanInv'
<1> SUFFICES ASSUME ScanInv, [ScanStep]_scanVars PROVE ScanInv'
  OBVIOUS
<1>1. CASE ProducerStep
  BY <1>1, ProducerKeeps
<1>2. ASSUME NEW t \in Targets, GoroutineStep(t) PROVE ScanInv'
  BY <1>2, GoroutineKeeps
<1>3. CASE UNCHANGED scanVars
  BY <1>3 DEF scanVars, cursor, ScanInv, ScanTypeOK, CountInv, LoopInv,
     LaunchedInv, ListInv, WithToken, Working, Past, Targets, Wanted,
     Concurrency, Positions, PortIndex
<1> QED
  BY <1>1, <1>2, <1>3 DEF ScanStep

(* The semaphore bounds the dials.                                         *)
LEMMA ScanInvBounds == ScanInv => DialsAreBounded
<1> SUFFICES ASSUME ScanInv PROVE DialsAreBounded
  OBVIOUS
<1> DEFINE dials == {t \in Targets : gor[t] = "dialling"}
<1>1. dials \subseteq WithToken
  BY DEF WithToken
<1>2. IsFiniteSet(WithToken) /\ Cardinality(WithToken) <= Concurrency
      /\ Concurrency \in Nat
  BY ConfigTypes DEF ScanInv, CountInv
<1>3. IsFiniteSet(dials) /\ Cardinality(dials) <= Cardinality(WithToken)
  BY <1>1, <1>2, FS_Subset
<1>4. Cardinality(dials) \in Nat /\ Cardinality(WithToken) \in Nat
  BY <1>2, <1>3, FS_CardinalityType
<1> QED
  BY <1>2, <1>3, <1>4 DEF DialsAreBounded

(* When the loops are through and the wait group is at zero, no goroutine  *)
(* works, and every wanted target is behind the loops.                     *)
LEMMA ScanInvComplete == ScanInv => ScanIsComplete
<1> SUFFICES ASSUME ScanInv, ScanReturns PROVE ScanIsComplete
  BY DEF ScanIsComplete
<1>1. Working = {}
  BY FS_EmptySet DEF ScanInv, CountInv, ScanReturns
<1>2. \A t \in Targets : Past(t)
  BY ConfigTypes DEF ScanInv, ScanTypeOK, ScanReturns, Past, Targets, Positions
<1>3. \A t \in Targets : gor[t] = "done" <=> t \in Wanted
  BY <1>1, <1>2 DEF ScanInv, ScanTypeOK, LaunchedInv, Working, Live
<1>4. {t \in Targets : gor[t] = "done"} = Wanted
  BY <1>3 DEF Wanted
<1>5. \A t \in Targets : found[t] = {}
  BY <1>1 DEF ScanInv, ListInv, Working, Live
<1>6. {a.cert : a \in assets} = shown
  BY <1>5 DEF ScanInv, ListInv
<1> QED
  BY <1>4, <1>6 DEF ScanInv, ListInv, ScanIsComplete

----------------------------------------------------------------------------
(* The certificate stores: what the walk has read so far.                  *)

(* Every certificate that a file behind the walk gives is stored, and what *)
(* is stored came from the first of the files that give it.                *)
StoreInv ==
  /\ StoreTypeOK
  /\ \A j \in 1 .. file - 1 : \A c \in Certificates :
       Gives(store.files[j], c) => \E a \in stored : a.fingerprint = c
  /\ \A a \in stored : \E i \in 1 .. file - 1 :
       FirstWith(a.fingerprint, i)
       /\ a = StoredAsset(a.fingerprint, store.files[i].path)
  /\ \A i \in 1 .. file - 1 : \A c \in Certificates :
       FirstWith(c, i) => StoredAsset(c, store.files[i].path) \in stored

LEMMA StoreTypes ==
  ASSUME StoreTypeOK
  PROVE  store.files \in Seq(Files) /\ Len(store.files) \in Nat
<1>1. store \in [files : Seq(Files), keytool : BOOLEAN]
  BY StoreAssumption DEF StoreTypeOK
<1> QED
  BY <1>1

(* parseCertFile reads what the probe can read in a file.                  *)
LEMMA ParseIsGives ==
  ASSUME NEW f \in Files, NEW c \in Certificates
  PROVE  c \in ParseCertFile(f) <=> Gives(f, c)
<1>1. f.format \in Formats /\ f.readable \in BOOLEAN
      /\ f.password \in Guesses \union {"unguessed"}
  BY DEF Files
<1>2. c \in CertsOf(f) <=> \E k \in DOMAIN f.blocks : f.blocks[k] = c
  BY DEF CertsOf
<1>3. CASE ~f.readable
  BY <1>1, <1>3 DEF ParseCertFile, Gives
<1>4. CASE f.readable /\ f.format \in {"pem", "other"}
  BY <1>1, <1>2, <1>4 DEF ParseCertFile, Gives
<1>5. CASE f.readable /\ f.format = "der"
  BY <1>1, <1>2, <1>5 DEF ParseCertFile, Gives, ParseDER
<1>6. CASE f.readable /\ f.format = "pkcs12"
  BY <1>1, <1>2, <1>6 DEF ParseCertFile, Gives, ParsePKCS12, Guesses
<1>7. CASE f.readable /\ f.format = "jks"
  BY <1>1, <1>2, <1>7 DEF ParseCertFile, Gives, ParseJKS
<1> QED
  BY <1>1, <1>3, <1>4, <1>5, <1>6, <1>7 DEF Formats

LEMMA ParseGivesCertificates ==
  ASSUME NEW f \in Files
  PROVE  ParseCertFile(f) \subseteq Certificates
<1>1. CertsOf(f) \subseteq Certificates
  BY DEF CertsOf
<1>2. ParseDER(f) \subseteq Certificates /\ ParsePKCS12(f) \subseteq Certificates
      /\ ParseJKS(f) \subseteq Certificates
  BY <1>1 DEF ParseDER, ParsePKCS12, ParseJKS
<1>3. f.format \in Formats
  BY DEF Files
<1> QED
  BY <1>1, <1>2, <1>3 DEF ParseCertFile, Formats

LEMMA StoreInitInv == StoreInit => StoreInv
<1> SUFFICES ASSUME StoreInit PROVE StoreInv
  OBVIOUS
<1>1. store \in [files : Seq(Files), keytool : BOOLEAN]
  BY StoreAssumption DEF StoreInit
<1>2. Len(store.files) \in Nat
  BY <1>1
<1> QED
  BY <1>2 DEF StoreInit, StoreInv, StoreTypeOK

LEMMA StoreKeeps == StoreInv /\ [VisitFile]_storeVars => StoreInv'
<1> SUFFICES ASSUME StoreInv, [VisitFile]_storeVars PROVE StoreInv'
  OBVIOUS
<1>1. CASE VisitFile
  <2> DEFINE f == store.files[file]
  <2> DEFINE new == {c \in ParseCertFile(f) : \A a \in stored : a.fingerprint # c}
  <2>1. /\ file \in 1 .. Len(store.files) /\ file' = file + 1 /\ store' = store
        /\ stored' = stored \union {StoredAsset(c, f.path) : c \in new}
        /\ file \in Nat /\ Len(store.files) \in Nat /\ f \in Files
    BY <1>1, StoreTypes DEF VisitFile, StoreInv, StoreTypeOK
  <2>2. \A g, c : Gives(g, c)' <=> Gives(g, c)
    BY <2>1 DEF Gives
  <2>3. \A c, i : FirstWith(c, i)' <=> FirstWith(c, i)
    BY <2>1, <2>2 DEF FirstWith, Gives
  <2>4. \A c \in Certificates : c \in ParseCertFile(f) <=> Gives(f, c)
    BY <2>1, ParseIsGives
  <2>5. new \subseteq Certificates
    BY <2>1, ParseGivesCertificates
  <2>6. \A c, p : StoredAsset(c, p).fingerprint = c
    BY DEF StoredAsset
  <2>7. f.path \in Nat
    BY <2>1 DEF Files
  <2> HIDE DEF new
  <2>8. StoreTypeOK'
    BY <2>1, <2>5, <2>7 DEF StoreInv, StoreTypeOK, StoredAsset
  <2>9. \A c \in new : FirstWith(c, file)
    <3> SUFFICES ASSUME NEW c \in new PROVE FirstWith(c, file)
      OBVIOUS
    <3>1. Gives(f, c) /\ c \in Certificates
          /\ \A a \in stored : a.fingerprint # c
      BY <2>4, <2>5 DEF new
    <3> QED
      BY <3>1 DEF FirstWith, StoreInv
  <2>10. ASSUME NEW c \in Certificates, FirstWith(c, file) PROVE c \in new
    <3>1. \A a \in stored : a.fingerprint # c
      <4> SUFFICES ASSUME NEW a \in stored, a.fingerprint = c PROVE FALSE
        OBVIOUS
      <4>1. PICK i \in 1 .. file - 1 : FirstWith(c, i)
        BY DEF StoreInv
      <4> QED
        BY <2>10, <4>1 DEF FirstWith
    <3> QED
      BY <2>4, <2>10, <3>1 DEF FirstWith, new
  <2>11. \A j \in 1 .. file' - 1 : \A c \in Certificates :
           Gives(store.files[j], c) => \E a \in stored' : a.fingerprint = c
    <3> SUFFICES ASSUME NEW j \in 1 .. file' - 1, NEW c \in Certificates,
                        Gives(store.files[j], c)
                 PROVE  \E a \in stored' : a.fingerprint = c
      OBVIOUS
    <3>1. CASE j < file
      BY <2>1, <3>1 DEF StoreInv
    <3>2. CASE j = file
      <4>1. c \in new \/ \E a \in stored : a.fingerprint = c
        BY <2>4, <3>2 DEF new
      <4> QED
        BY <2>1, <2>6, <4>1
    <3> QED
      BY <2>1, <3>1, <3>2
  <2>12. \A a \in stored' : \E i \in 1 .. file' - 1 :
           FirstWith(a.fingerprint, i)
           /\ a = StoredAsset(a.fingerprint, store.files[i].path)
    <3> SUFFICES ASSUME NEW a \in stored'
                 PROVE  \E i \in 1 .. file' - 1 :
                          FirstWith(a.fingerprint, i)
                          /\ a = StoredAsset(a.fingerprint, store.files[i].path)
      OBVIOUS
    <3>1. CASE a \in stored
      <4>1. PICK i \in 1 .. file - 1 :
                   FirstWith(a.fingerprint, i)
                   /\ a = StoredAsset(a.fingerprint, store.files[i].path)
        BY <3>1 DEF StoreInv
      <4>2. i \in 1 .. file' - 1
        BY <2>1
      <4> QED
        BY <4>1, <4>2
    <3>2. CASE a \notin stored
      <4>1. PICK c \in new : a = StoredAsset(c, f.path)
        BY <2>1, <3>2
      <4>2. file \in 1 .. file' - 1 /\ a.fingerprint = c
        BY <2>1, <2>6, <4>1
      <4> QED
        BY <2>9, <4>1, <4>2
    <3> QED
      BY <3>1, <3>2
  <2>13. \A i \in 1 .. file' - 1 : \A c \in Certificates :
           FirstWith(c, i) => StoredAsset(c, store.files[i].path) \in stored'
    <3> SUFFICES ASSUME NEW i \in 1 .. file' - 1, NEW c \in Certificates,
                        FirstWith(c, i)
                 PROVE  StoredAsset(c, store.files[i].path) \in stored'
      OBVIOUS
    <3>1. CASE i < file
      BY <2>1, <3>1 DEF StoreInv
    <3>2. CASE i = file
      BY <2>1, <2>10, <3>2
    <3> QED
      BY <2>1, <3>1, <3>2
  <2> QED
    BY <2>1, <2>2, <2>3, <2>8, <2>11, <2>12, <2>13 DEF StoreInv
<1>2. CASE UNCHANGED storeVars
  <2>1. store' = store /\ file' = file /\ stored' = stored
    BY <1>2 DEF storeVars
  <2>2. \A g, c : Gives(g, c)' <=> Gives(g, c)
    BY <2>1 DEF Gives
  <2>3. \A c, i : FirstWith(c, i)' <=> FirstWith(c, i)
    BY <2>1, <2>2 DEF FirstWith, Gives
  <2> QED
    BY <2>1, <2>2, <2>3 DEF StoreInv, StoreTypeOK
<1> QED
  BY <1>1, <1>2

LEMMA StoreInvComplete == StoreInv => StoreIsComplete
<1> SUFFICES ASSUME StoreInv, StoreReturns PROVE StoreIsComplete
  BY DEF StoreIsComplete
<1> DEFINE firsts == {di \in Certificates \X DOMAIN store.files :
                        FirstWith(di[1], di[2])}
<1>1. file = Len(store.files) + 1 /\ DOMAIN store.files = 1 .. file - 1
  BY StoreTypes DEF StoreInv, StoreTypeOK, StoreReturns
<1>2. ASSUME NEW a \in stored
      PROVE  \E ci \in firsts : a = StoredAsset(ci[1], store.files[ci[2]].path)
  <2>1. PICK i \in 1 .. file - 1 :
               FirstWith(a.fingerprint, i)
               /\ a = StoredAsset(a.fingerprint, store.files[i].path)
    BY DEF StoreInv
  <2>2. a.fingerprint \in Certificates
    BY DEF StoreInv, StoreTypeOK
  <2>3. <<a.fingerprint, i>> \in firsts
    BY <1>1, <2>1, <2>2
  <2> QED
    BY <2>1, <2>3
<1>3. ASSUME NEW ci \in firsts
      PROVE  StoredAsset(ci[1], store.files[ci[2]].path) \in stored
  BY <1>1 DEF StoreInv
<1> QED
  BY <1>2, <1>3 DEF StoreIsComplete

----------------------------------------------------------------------------
(* The cycle: how far the parts are when runCycle is past them.            *)

(* Past the scan its list is complete, past the stores the walk is over,   *)
(* and nothing is posted before both; a cycle without a scan has none of   *)
(* its assets.                                                             *)
PhaseInv ==
  /\ enabled \in Parts
  /\ phase \in {"scan", "store", "send", "sent", "ok", "error"}
  /\ phase # "scan" => {a.cert : a \in assets} = shown
  /\ phase \in {"scan", "store", "send"} => posted = <<>>
  /\ phase \in {"send", "sent", "ok", "error"} =>
       (enabled.store => StoreReturns)
  /\ phase \in {"sent", "ok", "error"} =>
       IF posted = <<>> THEN shown = {} /\ stored = {}
       ELSE posted = <<assets, stored>>

CycleInv == ScanInv /\ StoreInv /\ PhaseInv

LEMMA CycleInitInv == CycleInit => CycleInv
<1> SUFFICES ASSUME CycleInit PROVE CycleInv
  OBVIOUS
<1>1. ScanInv /\ StoreInv
  BY ScanInitInv, StoreInitInv DEF CycleInit
<1>2. enabled \in Parts
  BY CycleAssumption DEF CycleInit
<1>3. assets = {} /\ shown = {}
  BY DEF CycleInit, ScanInit
<1>4. {a.cert : a \in assets} = shown
  BY <1>3
<1>5. PhaseInv
  BY <1>2, <1>4 DEF CycleInit, PhaseInv
<1> QED
  BY <1>1, <1>5 DEF CycleInv

(* A step of the cycle is one of at most one of its parts.                 *)
LEMMA PartsStep ==
  [CycleNext]_cycleVars => [ScanStep]_scanVars /\ [VisitFile]_storeVars
BY DEF CycleNext, cycleVars, Scanning, Reading, Post, SendReturns,
       CycleReturned

LEMMA PhaseKeeps == CycleInv /\ [CycleNext]_cycleVars => PhaseInv'
<1> SUFFICES ASSUME CycleInv, [CycleNext]_cycleVars PROVE PhaseInv'
  OBVIOUS
<1> USE DEF CycleInv
<1>1. CASE phase = "scan" /\ ScanStep /\ UNCHANGED <<phase, storeVars, enabled, posted>>
  BY <1>1 DEF PhaseInv
<1>2. CASE /\ phase = "scan" /\ ScanReturns /\ phase' = "store"
           /\ UNCHANGED <<scanVars, storeVars, enabled, posted>>
  <2>1. {a.cert : a \in assets} = shown
    BY <1>2, ScanInvComplete DEF ScanIsComplete
  <2>2. assets' = assets /\ shown' = shown
    BY <1>2 DEF scanVars
  <2> QED
    BY <1>2, <2>1, <2>2 DEF PhaseInv
<1>3. CASE /\ phase = "store" /\ VisitFile
           /\ UNCHANGED <<phase, scanVars, enabled, posted>>
  <2>1. assets' = assets /\ shown' = shown
    BY <1>3 DEF scanVars
  <2> QED
    BY <1>3, <2>1 DEF PhaseInv
<1>4. CASE /\ phase = "store" /\ (StoreReturns \/ ~enabled.store) /\ phase' = "send"
           /\ UNCHANGED <<scanVars, storeVars, enabled, posted>>
  <2>1. /\ assets' = assets /\ shown' = shown
        /\ store' = store /\ file' = file /\ stored' = stored
    BY <1>4 DEF scanVars, storeVars
  <2> QED
    BY <1>4, <2>1 DEF PhaseInv, StoreReturns
<1>5. CASE Post
  <2>1. /\ assets' = assets /\ shown' = shown
        /\ store' = store /\ file' = file /\ stored' = stored
    BY <1>5 DEF Post, scanVars, storeVars
  <2>2. {a.cert : a \in assets} = shown /\ (assets = {} => shown = {})
    BY <1>5 DEF Post, PhaseInv
  <2> QED
    BY <1>5, <2>1, <2>2 DEF Post, PhaseInv, StoreReturns
<1>6. CASE SendReturns
  <2>1. /\ assets' = assets /\ shown' = shown
        /\ store' = store /\ file' = file /\ stored' = stored
    BY <1>6 DEF SendReturns, scanVars, storeVars
  <2> QED
    BY <1>6, <2>1 DEF SendReturns, PhaseInv, StoreReturns
<1>7. CASE UNCHANGED cycleVars
  <2>1. /\ assets' = assets /\ shown' = shown /\ store' = store
        /\ file' = file /\ stored' = stored
        /\ enabled' = enabled /\ phase' = phase /\ posted' = posted
    BY <1>7 DEF cycleVars, scanVars, storeVars
  <2> QED
    BY <2>1 DEF PhaseInv, StoreReturns
<1> QED
  BY <1>1, <1>2, <1>3, <1>4, <1>5, <1>6, <1>7
  DEF CycleNext, Scanning, Reading, CycleReturned

LEMMA CycleKeeps == CycleInv /\ [CycleNext]_cycleVars => CycleInv'
BY PartsStep, ScanKeeps, StoreKeeps, PhaseKeeps DEF CycleInv

LEMMA CycleInductive == CycleSpec => []CycleInv
BY CycleInitInv, CycleKeeps, PTL DEF CycleSpec

----------------------------------------------------------------------------
(* Type correctness: the values each variable of a cycle can have          *)
(* (main.go:123-165, and the parts it calls).                              *)
THEOREM TypeCorrect == CycleSpec => []CycleTypeOK
<1>1. CycleInv => CycleTypeOK
  BY DEF CycleInv, ScanInv, StoreInv, PhaseInv, CycleTypeOK
<1> QED
  BY <1>1, CycleInductive, PTL

(* The semaphore does what it is for: never more dials at a time than the  *)
(* configured concurrency, for any number of targets (scanner.go:69-72).   *)
THEOREM BoundedDials == CycleSpec => []DialsAreBounded
<1>1. CycleInv => DialsAreBounded
  BY ScanInvBounds DEF CycleInv
<1> QED
  BY <1>1, CycleInductive, PTL

(* Run returns when every host and port of every IPv4 network was dialled  *)
(* and each certificate shown is listed once (scanner.go:54-85).           *)
THEOREM CompleteScan == CycleSpec => []ScanIsComplete
<1>1. CycleInv => ScanIsComplete
  BY ScanInvComplete DEF CycleInv
<1> QED
  BY <1>1, CycleInductive, PTL

(* Read keeps each certificate that a file gives once, under the first path*)
(* that has it (certstore.go:44-69).                                       *)
THEOREM CompleteStore == CycleSpec => []StoreIsComplete
<1>1. CycleInv => StoreIsComplete
  BY StoreInvComplete DEF CycleInv
<1> QED
  BY <1>1, CycleInductive, PTL

(* A cycle reports all that its parts found, or found nothing              *)
(* (main.go:123-165).                                                      *)
THEOREM AllReported == CycleSpec => []CycleReportsAll
<1>1. CycleInv => CycleReportsAll
  BY DEF CycleInv, PhaseInv, CycleReportsAll
<1> QED
  BY <1>1, CycleInductive, PTL

----------------------------------------------------------------------------
(* The arithmetic of addresses. First induction and recursion over         *)
(* numbers, which the library states for operators: here the predicate is  *)
(* a set.                                                                  *)

(* A set of numbers that is not empty has a least one.                     *)
LEMMA LeastNumber ==
  ASSUME NEW T \in SUBSET Nat, T # {}
  PROVE  \E x \in T : \A y \in T : x <= y
<1> DEFINE R == OpToRel(<, Nat)
<1>1. IsWellFoundedOn(R, Nat)
  BY NatLessThanWellFounded
<1>2. \A x, y \in Nat : x < y => <<x, y>> \in R
  BY DEF OpToRel
<1> HIDE DEF R
<1>3. \E x \in T : \A y \in T : ~ (<<y, x>> \in R)
  BY <1>1, WFMin
<1>4. \A x, y \in T : x \in Nat /\ y \in Nat
  OBVIOUS
<1>5. \A x, y \in T : <<y, x>> \notin R => x <= y
  BY <1>2, <1>4
<1> QED BY <1>3, <1>5

(* Induction over numbers, with a set for the predicate: there is no least *)
(* number outside of it.                                                   *)
LEMMA NumberInduction ==
  ASSUME NEW T, 0 \in T, \A n \in Nat : n \in T => n + 1 \in T
  PROVE  Nat \subseteq T
<1> DEFINE N == Nat \ T
<1> SUFFICES ASSUME N # {} PROVE FALSE
  OBVIOUS
<1>1. N \in SUBSET Nat
  OBVIOUS
<1>2. PICK n \in N : \A m \in N : n <= m
  <2> HIDE DEF N
  <2> QED BY <1>1, LeastNumber
<1>3. n \in Nat /\ n # 0 /\ n \notin T
  BY <1>2
<1>4. n - 1 \in Nat /\ (n - 1) + 1 = n /\ ~(n <= n - 1)
  BY <1>3
<1>5. n - 1 \in T
  <2>1. n - 1 \notin N
    <3> HIDE DEF N
    <3> QED BY <1>2, <1>4
  <2> QED BY <2>1, <1>4
<1> QED BY <1>3, <1>4, <1>5

(* A recursion over numbers has a solution: it is put together of          *)
(* solutions on 0 .. n. So the CHOOSE that a recursive function is equals  *)
(* its own body.                                                           *)
LEMMA NumberRecursion ==
  ASSUME NEW start \in Nat, NEW step \in [Nat \X Nat -> Nat]
  PROVE  \E f \in [Nat -> Nat] :
           /\ f[0] = start
           /\ \A n \in Nat : f[n + 1] = step[<<n + 1, f[n]>>]
<1> DEFINE Solves(g, n) ==
             /\ g \in [0 .. n -> Nat] /\ g[0] = start
             /\ \A k \in 0 .. n : k # 0 => g[k] = step[<<k, g[k - 1]>>]
<1>1. \A n \in Nat : \E g : Solves(g, n)
  <2> DEFINE T == {n \in Nat : \E g : Solves(g, n)}
  <2>1. 0 \in T
    <3>1. Solves([k \in 0 .. 0 |-> start], 0)
      OBVIOUS
    <3> QED BY <3>1
  <2>2. ASSUME NEW n \in Nat, n \in T PROVE n + 1 \in T
    <3>1. PICK g : Solves(g, n)
      BY <2>2
    <3> DEFINE h == [k \in 0 .. n + 1 |-> IF k = n + 1 THEN step[<<k, g[n]>>]
                                                       ELSE g[k]]
    <3>2. g[n] \in Nat /\ \A k \in 0 .. n : k \in 0 .. n + 1 /\ k # n + 1
      BY <3>1
    <3>3. \A k \in 0 .. n : h[k] = g[k]
      BY <3>2
    <3>4. h[n + 1] = step[<<n + 1, g[n]>>] /\ h[n + 1] \in Nat
      BY <3>2
    <3>5. \A k \in 0 .. n + 1 : k = n + 1 \/ k \in 0 .. n
      OBVIOUS
    <3>6. h \in [0 .. n + 1 -> Nat]
      BY <3>1, <3>2, <3>5
    <3>7. h[0] = start
      BY <3>1, <3>3
    <3>8. ASSUME NEW k \in 0 .. n + 1, k # 0
          PROVE  h[k] = step[<<k, h[k - 1]>>]
      <4> HIDE DEF h
      <4>1. CASE k = n + 1
        <5>1. k - 1 = n /\ n \in 0 .. n
          BY <4>1
        <5> QED BY <3>3, <3>4, <4>1, <5>1
      <4>2. CASE k # n + 1
        <5>1. k \in 0 .. n /\ k - 1 \in 0 .. n
          BY <3>8, <4>2
        <5> QED BY <3>1, <3>3, <3>8, <5>1
      <4> QED BY <4>1, <4>2
    <3>9. Solves(h, n + 1)
      <4> HIDE DEF h
      <4> QED BY <3>6, <3>7, <3>8
    <3> HIDE DEF h, Solves
    <3>10. n + 1 \in Nat /\ \E e : Solves(e, n + 1)
      BY <3>9
    <3> QED BY <3>10
  <2>3. Nat \subseteq T
    <3> HIDE DEF T
    <3> QED BY <2>1, <2>2, NumberInduction
  <2> QED BY <2>3
<1>2. ASSUME NEW n \in Nat, NEW m \in Nat, NEW g, NEW h,
             Solves(g, n), Solves(h, m)
      PROVE  \A k \in Nat : k <= n /\ k <= m => g[k] = h[k]
  <2> DEFINE T == {k \in Nat : k <= n /\ k <= m => g[k] = h[k]}
  <2>1. 0 \in T
    BY <1>2
  <2>2. ASSUME NEW k \in Nat, k \in T PROVE k + 1 \in T
    <3> SUFFICES ASSUME k + 1 <= n, k + 1 <= m PROVE g[k + 1] = h[k + 1]
      OBVIOUS
    <3>1. /\ k + 1 \in 0 .. n /\ k + 1 \in 0 .. m /\ k + 1 # 0
          /\ (k + 1) - 1 = k /\ k <= n /\ k <= m
      OBVIOUS
    <3>2. g[k] = h[k]
      BY <2>2, <3>1
    <3>3. g[k + 1] = step[<<k + 1, g[k]>>]
      BY <1>2, <3>1
    <3>4. h[k + 1] = step[<<k + 1, h[k]>>]
      BY <1>2, <3>1
    <3> QED BY <3>2, <3>3, <3>4
  <2>3. Nat \subseteq T
    <3> HIDE DEF T
    <3> QED BY <2>1, <2>2, NumberInduction
  <2> QED BY <2>3
<1> DEFINE sol == [n \in Nat |-> CHOOSE g : Solves(g, n)]
           f == [n \in Nat |-> sol[n][n]]
<1>3. \A n \in Nat : Solves(sol[n], n)
  BY <1>1
<1> HIDE DEF sol
<1>4. f \in [Nat -> Nat]
  BY <1>3
<1>5. f[0] = start
  BY <1>3
<1>6. ASSUME NEW n \in Nat PROVE f[n + 1] = step[<<n + 1, f[n]>>]
  <2>1. /\ n + 1 \in Nat /\ n + 1 \in 0 .. n + 1 /\ n + 1 # 0
        /\ (n + 1) - 1 = n /\ n <= n + 1 /\ n <= n
    OBVIOUS
  <2>2. sol[n + 1][n + 1] = step[<<n + 1, sol[n + 1][n]>>]
    BY <1>3, <2>1
  <2>3. sol[n + 1][n] = sol[n][n]
    <3> HIDE DEF Solves
    <3> QED BY <1>2, <1>3, <2>1
  <2> QED BY <2>1, <2>2, <2>3
<1> HIDE DEF f
<1> QED BY <1>4, <1>5, <1>6

(* Pow2 is defined by its recursion.                                       *)
LEMMA PowersOfTwo ==
  /\ Pow2 \in [Nat -> Nat] /\ Pow2[0] = 1
  /\ \A n \in Nat : Pow2[n + 1] = 2 * Pow2[n]
<1> DEFINE step == [x \in Nat \X Nat |-> 2 * x[2]]
           F(g) == [n \in Nat |-> IF n = 0 THEN 1 ELSE 2 * g[n - 1]]
<1>1. step \in [Nat \X Nat -> Nat]
  OBVIOUS
<1>2. PICK f \in [Nat -> Nat] :
        /\ f[0] = 1 /\ \A n \in Nat : f[n + 1] = step[<<n + 1, f[n]>>]
  <2> DEFINE one == 1
  <2>1. one \in Nat /\ one = 1
    OBVIOUS
  <2> HIDE DEF step, one
  <2>2. \E f \in [Nat -> Nat] :
          /\ f[0] = one
          /\ \A n \in Nat : f[n + 1] = step[<<n + 1, f[n]>>]
    BY <1>1, <2>1, NumberRecursion
  <2> QED BY <2>1, <2>2
<1>3. f = F(f)
  <2> SUFFICES ASSUME NEW n \in Nat PROVE f[n] = F(f)[n]
    OBVIOUS
  <2>1. CASE n = 0
    BY <1>2, <2>1
  <2>2. CASE n # 0
    <3>1. n - 1 \in Nat /\ (n - 1) + 1 = n
      BY <2>2
    <3>2. f[n] = step[<<n, f[n - 1]>>]
      <4> HIDE DEF step
      <4> QED BY <1>2, <3>1
    <3> QED BY <2>2, <3>1, <3>2
  <2> QED BY <2>1, <2>2
<1>4. Pow2 = CHOOSE g : g = F(g)
  BY DEF Pow2
<1> HIDE DEF F
<1>5. Pow2 = F(Pow2)
  BY <1>3, <1>4
<1> DEFINE h == Pow2
<1>6. h = F(h)
  BY <1>5
<1> HIDE DEF h
<1>7. \A n \in Nat : h[n] = IF n = 0 THEN 1 ELSE 2 * h[n - 1]
  <2>1. \A n \in Nat : h[n] = F(h)[n]
    BY <1>6
  <2> QED BY <2>1 DEF F
<1>8. h[0] = 1
  BY <1>7
<1>9. \A n \in Nat : h[n + 1] = 2 * h[n]
  <2> SUFFICES ASSUME NEW n \in Nat PROVE h[n + 1] = 2 * h[n]
    OBVIOUS
  <2>1. n + 1 \in Nat /\ n + 1 # 0 /\ (n + 1) - 1 = n
    OBVIOUS
  <2> QED BY <1>7, <2>1
<1>10. h \in [Nat -> Nat]
  <2> DEFINE T == {n \in Nat : h[n] \in Nat}
  <2>1. 0 \in T
    BY <1>8
  <2>2. ASSUME NEW n \in Nat, n \in T PROVE n + 1 \in T
    BY <1>9, <2>2
  <2>3. Nat \subseteq T
    <3> HIDE DEF T
    <3> QED BY <2>1, <2>2, NumberInduction
  <2>4. h = [n \in Nat |-> F(h)[n]]
    BY <1>6 DEF F
  <2> QED BY <2>3, <2>4
<1> QED BY <1>8, <1>9, <1>10 DEF h

(* No power is 0.                                                          *)
LEMMA PowerIsPositive == \A n \in Nat : Pow2[n] \in Nat \ {0}
<1> DEFINE T == {n \in Nat : Pow2[n] \in Nat \ {0}}
<1>1. 0 \in T
  BY PowersOfTwo
<1>2. ASSUME NEW n \in Nat, n \in T PROVE n + 1 \in T
  BY <1>2, PowersOfTwo
<1>3. Nat \subseteq T
  <2> HIDE DEF T
  <2> QED BY <1>1, <1>2, NumberInduction
<1> QED BY <1>3

(* The power of a sum is a product.                                        *)
LEMMA PowerOfSum ==
  ASSUME NEW m \in Nat
  PROVE  \A n \in Nat : Pow2[m + n] = Pow2[m] * Pow2[n]
<1> DEFINE T == {n \in Nat : Pow2[m + n] = Pow2[m] * Pow2[n]}
<1>0. \A n \in Nat : Pow2[n] \in Nat
  BY PowerIsPositive
<1>1. 0 \in T
  <2>1. m + 0 = m /\ Pow2[m] * 1 = Pow2[m]
    BY <1>0
  <2> QED BY <2>1, PowersOfTwo
<1>2. ASSUME NEW n \in Nat, n \in T PROVE n + 1 \in T
  <2>1. m + n \in Nat /\ m + (n + 1) = (m + n) + 1
    OBVIOUS
  <2>2. Pow2[m + (n + 1)] = 2 * Pow2[m + n]
    BY <2>1, PowersOfTwo
  <2>3. Pow2[n + 1] = 2 * Pow2[n]
    BY PowersOfTwo
  <2>4. \A p, q \in Nat : 2 * (p * q) = p * (2 * q)
    OBVIOUS
  <2> QED BY <1>0, <1>2, <2>2, <2>3, <2>4
<1>3. Nat \subseteq T
  <2> HIDE DEF T
  <2> QED BY <1>1, <1>2, NumberInduction
<1> QED BY <1>3

----------------------------------------------------------------------------
(* Arithmetic that the bytes need.                                         *)

(* Products of numbers, for the solver to cite: it finds them alone but    *)
(* not among other facts.                                                  *)
LEMMA Products ==
  ASSUME NEW k \in Nat, NEW m \in Nat
  PROVE  k * m \in Nat /\ (k >= 1 => k * m >= m) /\ k * m = m * k
OBVIOUS

(* The same, of sums.                                                      *)
LEMMA Distributes ==
  ASSUME NEW k \in Int, NEW m \in Int, NEW n \in Int
  PROVE  k * (m + n) = k * m + k * n
OBVIOUS

(* A digit d behind a value v < p keeps it below p * B, and reaches the    *)
(* last value only if both are at their last.                              *)
LEMMA Digit ==
  ASSUME NEW B \in Nat \ {0}, NEW v \in Nat, NEW p \in Nat, v < p,
         NEW d \in 0 .. B - 1
  PROVE  /\ B * v + d \in Nat /\ B * v + d < p * B
         /\ B * v + d = p * B - 1 <=> (v = p - 1 /\ d = B - 1)
<1> DEFINE k == p - 1 - v
           x == B * v
           y == B * k
<1>1. k \in Nat /\ p = v + 1 + k
  OBVIOUS
<1>2. x \in Nat /\ y \in Nat /\ (k >= 1 => y >= B) /\ (k = 0 => y = 0)
  <2> HIDE DEF k
  <2> QED BY <1>1, Products
<1>3. p * B = x + B + y
  <2> HIDE DEF k
  <2>1. p * B = B * (v + 1 + k)
    BY <1>1
  <2>2. B * (v + 1 + k) = B * v + B * 1 + B * k
    BY <1>1
  <2> QED BY <2>1, <2>2
<1>4. k = 0 <=> v = p - 1
  OBVIOUS
<1> HIDE DEF x, y, k
<1>5. B * v = x
  BY DEF x
<1>6. x + d \in Nat /\ x + d < x + B + y
  BY <1>2
<1>7. x + d = x + B + y - 1 <=> (k = 0 /\ d = B - 1)
  BY <1>1, <1>2
<1> QED BY <1>3, <1>4, <1>5, <1>6, <1>7

(* The value and the digit are given by the sum.                           *)
LEMMA SameDigits ==
  ASSUME NEW B \in Nat \ {0}, NEW v \in Nat, NEW w \in Nat,
         NEW d \in 0 .. B - 1, NEW e \in 0 .. B - 1,
         B * v + d = B * w + e
  PROVE  v = w /\ d = e
OBVIOUS

(* Quotient and remainder of such a sum,                                   *)
LEMMA Divides ==
  ASSUME NEW S \in Nat \ {0}, NEW q \in Nat, NEW r \in 0 .. S - 1
  PROVE  (S * q + r) \div S = q /\ (S * q + r) % S = r
OBVIOUS

(* and of any number.                                                      *)
LEMMA Remainder ==
  ASSUME NEW H \in Nat \ {0}, NEW d \in Nat
  PROVE  /\ d \div H \in Nat /\ d % H \in 0 .. H - 1
         /\ d = H * (d \div H) + (d % H)
OBVIOUS

----------------------------------------------------------------------------
(* Bytes and the numbers that they stand for.                              *)

(* The numbers of bytes of a prefix.                                       *)
Places == 0 .. AddrBytes

(* The types of the parameters and of the indices.                         *)
LEMMA Widths ==
  /\ AddrBytes \in Nat \ {0} /\ ByteBits \in Nat \ {0}
  /\ Base \in Nat \ {0} /\ AddrBits \in Nat
  /\ \A i \in Index : i \in Nat /\ i \in Places /\ i - 1 \in Nat /\ i - 1 \in Places
  /\ \A i \in Places : i \in Nat /\ (i # 0 => i \in Index)
  /\ AddrBytes \in Places /\ AddrBytes \in Index
<1>1. AddrBytes \in Nat \ {0} /\ ByteBits \in Nat \ {0}
  BY WidthAssumption
<1>2. Base \in Nat \ {0}
  BY <1>1, PowerIsPositive DEF Base
<1>3. AddrBits \in Nat
  BY <1>1, Products DEF AddrBits
<1>4. \A i \in Index : i \in Nat /\ i \in Places /\ i - 1 \in Nat /\ i - 1 \in Places
  BY <1>1 DEF Index, Places
<1>5. \A i \in Places : i \in Nat /\ (i # 0 => i \in Index)
  BY <1>1 DEF Index, Places
<1>6. AddrBytes \in Places /\ AddrBytes \in Index
  BY <1>1 DEF Index, Places
<1> QED BY <1>1, <1>2, <1>3, <1>4, <1>5, <1>6

(* Induction over the bytes of an address, the most significant first.     *)
LEMMA ByteInduction ==
  ASSUME NEW T, 0 \in T, \A i \in Index : i - 1 \in T => i \in T
  PROVE  Places \subseteq T
<1> DEFINE U == {n \in Nat : n <= AddrBytes => n \in T}
<1>1. 0 \in U
  OBVIOUS
<1>2. ASSUME NEW n \in Nat, n \in U PROVE n + 1 \in U
  <2> SUFFICES ASSUME n + 1 <= AddrBytes PROVE n + 1 \in T
    OBVIOUS
  <2>1. n + 1 \in Index /\ (n + 1) - 1 = n /\ n <= AddrBytes
    BY Widths DEF Index
  <2> QED BY <1>2, <2>1
<1>3. Nat \subseteq U
  <2> HIDE DEF U
  <2> QED BY <1>1, <1>2, NumberInduction
<1> QED BY <1>3, Widths DEF Places

(* The bytes of an address.                                                *)
LEMMA ByteOf ==
  ASSUME NEW x \in IPs, NEW i \in Index
  PROVE  x[i] \in 0 .. Base - 1 /\ x[i] \in Nat
BY Widths DEF IPs

(* Value is defined by its recursion.                                      *)
LEMMA ValueIsDefined ==
  ASSUME NEW x \in IPs
  PROVE  /\ Value(x)[0] = 0
         /\ \A i \in Index : Value(x)[i] = Base * Value(x)[i - 1] + x[i]
         /\ \A i \in Places : Value(x)[i] \in Nat
<1> DEFINE zero == 0
           digit(i) == IF i \in Index THEN x[i] ELSE 0
           step == [y \in Nat \X Nat |-> Base * y[2] + digit(y[1])]
           F(g) == [i \in 0 .. AddrBytes |->
                      IF i = 0 THEN 0 ELSE Base * g[i - 1] + x[i]]
<1>1. step \in [Nat \X Nat -> Nat]
  <2>1. \A i \in Nat : digit(i) \in Nat
    BY ByteOf
  <2> HIDE DEF digit
  <2> SUFFICES ASSUME NEW i \in Nat, NEW v \in Nat
               PROVE  Base * v + digit(i) \in Nat
    OBVIOUS
  <2>2. Base * v \in Nat /\ digit(i) \in Nat
    BY <2>1, Widths, Products
  <2> QED BY <2>2
<1>2. PICK f \in [Nat -> Nat] :
        /\ f[0] = 0 /\ \A n \in Nat : f[n + 1] = step[<<n + 1, f[n]>>]
  <2>1. zero \in Nat /\ zero = 0
    OBVIOUS
  <2> HIDE DEF step, zero
  <2>2. \E f \in [Nat -> Nat] :
          /\ f[0] = zero
          /\ \A n \in Nat : f[n + 1] = step[<<n + 1, f[n]>>]
    BY <1>1, <2>1, NumberRecursion
  <2> QED BY <2>1, <2>2
<1> DEFINE r == [i \in 0 .. AddrBytes |-> f[i]]
<1>3. r = F(r)
  <2> SUFFICES ASSUME NEW i \in 0 .. AddrBytes PROVE r[i] = F(r)[i]
    OBVIOUS
  <2>1. CASE i = 0
    BY <1>2, <2>1
  <2>2. CASE i # 0
    <3>1. /\ i \in Index /\ i - 1 \in Nat /\ i - 1 \in 0 .. AddrBytes
          /\ (i - 1) + 1 = i /\ i \in Nat
      BY <2>2, Widths DEF Index
    <3>2. f[i] = step[<<i, f[i - 1]>>]
      <4> HIDE DEF step
      <4> QED BY <1>2, <3>1
    <3>3. f[i] = Base * f[i - 1] + x[i]
      <4>1. f[i - 1] \in Nat
        BY <1>2, <3>1
      <4> QED BY <3>1, <3>2, <4>1
    <3> QED BY <2>2, <3>1, <3>3
  <2> QED BY <2>1, <2>2
<1>4. Value(x) = CHOOSE g : g = F(g)
  BY DEF Value
<1> DEFINE h == Value(x)
<1>5. h = F(h)
  <2> HIDE DEF F, r
  <2> QED BY <1>3, <1>4
<1> HIDE DEF h
<1>6. \A i \in 0 .. AddrBytes :
        h[i] = IF i = 0 THEN 0 ELSE Base * h[i - 1] + x[i]
  <2>1. \A i \in 0 .. AddrBytes : h[i] = F(h)[i]
    <3> HIDE DEF F
    <3> QED BY <1>5
  <2> QED BY <2>1 DEF F
<1>7. h[0] = 0
  BY <1>6, Widths
<1>8. \A i \in Index : h[i] = Base * h[i - 1] + x[i]
  BY <1>6, Widths DEF Index
<1>9. \A i \in Places : h[i] \in Nat
  <2> DEFINE T == {i \in Places : h[i] \in Nat}
  <2>1. 0 \in T
    BY <1>7, Widths DEF Places
  <2>2. ASSUME NEW i \in Index, i - 1 \in T PROVE i \in T
    <3>1. h[i - 1] \in Nat /\ i \in Places /\ x[i] \in Nat
      BY <2>2, Widths, ByteOf
    <3>2. Base * h[i - 1] \in Nat
      BY <3>1, Widths, Products
    <3>3. h[i] \in Nat
      BY <1>8, <3>1, <3>2
    <3> QED BY <3>1, <3>3
  <2>3. Places \subseteq T
    <3> HIDE DEF T
    <3> QED BY <2>1, <2>2, ByteInduction
  <2> QED BY <2>3
<1> QED BY <1>7, <1>8, <1>9 DEF h

(* The number of values that i bytes have.                                 *)
Span(i) == Pow2[i * ByteBits]

(* A byte multiplies it by Base.                                           *)
LEMMA Spans ==
  /\ Span(0) = 1
  /\ \A i \in Places : Span(i) \in Nat \ {0}
  /\ \A i \in Index : Span(i) = Span(i - 1) * Base
  /\ Span(AddrBytes) = Pow2[AddrBits]
<1>1. Span(0) = 1
  <2>1. 0 * ByteBits = 0
    BY Widths
  <2> QED BY <2>1, PowersOfTwo DEF Span
<1>2. \A i \in Places : Span(i) \in Nat \ {0}
  <2> SUFFICES ASSUME NEW i \in Places PROVE Span(i) \in Nat \ {0}
    OBVIOUS
  <2>1. i * ByteBits \in Nat
    BY Widths, Products
  <2> QED BY <2>1, PowerIsPositive DEF Span
<1>3. ASSUME NEW i \in Index PROVE Span(i) = Span(i - 1) * Base
  <2> DEFINE m == (i - 1) * ByteBits
  <2>1. m \in Nat /\ ByteBits \in Nat
    BY Widths, Products
  <2>2. i * ByteBits = m + ByteBits
    BY Widths
  <2> HIDE DEF m
  <2>3. Pow2[m + ByteBits] = Pow2[m] * Pow2[ByteBits]
    BY <2>1, PowerOfSum
  <2> QED BY <2>2, <2>3 DEF Span, Base, m
<1>4. Span(AddrBytes) = Pow2[AddrBits]
  BY DEF Span, AddrBits
<1> QED BY <1>1, <1>2, <1>3, <1>4

(* The value of a prefix is less than that.                                *)
LEMMA ValueIsBounded ==
  ASSUME NEW x \in IPs
  PROVE  \A i \in Places : Value(x)[i] < Span(i)
<1> DEFINE T == {i \in Places : Value(x)[i] < Span(i)}
<1>1. 0 \in T
  BY ValueIsDefined, Spans, Widths DEF Places
<1>2. ASSUME NEW i \in Index, i - 1 \in T PROVE i \in T
  <2> DEFINE v == Value(x)[i - 1]
             p == Span(i - 1)
             d == x[i]
  <2>1. v \in Nat /\ p \in Nat /\ v < p /\ d \in 0 .. Base - 1
    BY <1>2, ValueIsDefined, Spans, Widths, ByteOf
  <2>2. Value(x)[i] = Base * v + d /\ Span(i) = p * Base
    BY ValueIsDefined, Spans
  <2> HIDE DEF v, p, d
  <2>3. Base * v + d < p * Base
    BY <2>1, Widths, Digit
  <2> QED BY <2>2, <2>3, Widths
<1>3. Places \subseteq T
  <2> HIDE DEF T
  <2> QED BY <1>1, <1>2, ByteInduction
<1> QED BY <1>3

(* Addresses with the same value are the same.                             *)
LEMMA ValueIsInjective ==
  ASSUME NEW x \in IPs, NEW y \in IPs, ValueOf(x) = ValueOf(y)
  PROVE  x = y
<1> DEFINE T == {i \in Places : Value(x)[i] = Value(y)[i] =>
                                  \A j \in 1 .. i : x[j] = y[j]}
<1>1. 0 \in T
  BY Widths DEF Places
<1>2. ASSUME NEW i \in Index, i - 1 \in T PROVE i \in T
  <2> SUFFICES ASSUME Value(x)[i] = Value(y)[i]
               PROVE  \A j \in 1 .. i : x[j] = y[j]
    BY Widths
  <2> DEFINE v == Value(x)[i - 1]
             w == Value(y)[i - 1]
             d == x[i]
             e == y[i]
  <2>1. /\ v \in Nat /\ w \in Nat /\ d \in 0 .. Base - 1 /\ e \in 0 .. Base - 1
    BY ValueIsDefined, Widths, ByteOf
  <2>2. Base * v + d = Base * w + e
    BY ValueIsDefined
  <2>3. v = w /\ d = e
    <3> HIDE DEF v, w, d, e
    <3> QED BY <2>1, <2>2, Widths, SameDigits
  <2>4. \A j \in 1 .. i - 1 : x[j] = y[j]
    BY <1>2, <2>3
  <2>5. \A j \in 1 .. i : j = i \/ j \in 1 .. i - 1
    BY Widths
  <2> QED BY <2>3, <2>4, <2>5
<1>3. Places \subseteq T
  <2> HIDE DEF T
  <2> QED BY <1>1, <1>2, ByteInduction
<1>4. \A j \in Index : x[j] = y[j]
  BY <1>3, Widths DEF ValueOf, Index
<1> QED BY <1>4 DEF IPs

----------------------------------------------------------------------------
(* incIP.                                                                  *)

(* A prefix has its last value if all of its bytes have.                   *)
LEMMA AllWrap ==
  ASSUME NEW x \in IPs
  PROVE  \A i \in Places :
           (\A j \in 1 .. i : x[j] = Base - 1) <=> Value(x)[i] = Span(i) - 1
<1> DEFINE T == {i \in Places : (\A j \in 1 .. i : x[j] = Base - 1)
                                  <=> Value(x)[i] = Span(i) - 1}
<1>1. 0 \in T
  BY ValueIsDefined, Spans, Widths DEF Places
<1>2. ASSUME NEW i \in Index, i - 1 \in T PROVE i \in T
  <2> DEFINE v == Value(x)[i - 1]
             p == Span(i - 1)
             d == x[i]
  <2>1. v \in Nat /\ p \in Nat /\ v < p /\ d \in 0 .. Base - 1
    BY ValueIsDefined, ValueIsBounded, Spans, Widths, ByteOf
  <2>2. Value(x)[i] = Base * v + d /\ Span(i) = p * Base
    BY ValueIsDefined, Spans
  <2>3. (\A j \in 1 .. i - 1 : x[j] = Base - 1) <=> v = p - 1
    BY <1>2
  <2>4. (\A j \in 1 .. i : x[j] = Base - 1)
          <=> (d = Base - 1 /\ \A j \in 1 .. i - 1 : x[j] = Base - 1)
    <3>1. \A j \in 1 .. i : j = i \/ j \in 1 .. i - 1
      BY Widths
    <3>2. i \in 1 .. i /\ \A j \in 1 .. i - 1 : j \in 1 .. i
      BY Widths DEF Index
    <3> QED BY <3>1, <3>2
  <2> HIDE DEF v, p, d
  <2>5. Base * v + d = p * Base - 1 <=> (v = p - 1 /\ d = Base - 1)
    BY <2>1, Widths, Digit
  <2> QED BY <2>2, <2>3, <2>4, <2>5, Widths
<1>3. Places \subseteq T
  <2> HIDE DEF T
  <2> QED BY <1>1, <1>2, ByteInduction
<1> QED BY <1>3

(* incIP carries into byte i: all bytes behind it wrap.                    *)
Carry(x, i) == \A j \in i + 1 .. AddrBytes : x[j] = Base - 1

(* incIP gives an address.                                                 *)
LEMMA IncIPIsAddress == ASSUME NEW x \in IPs PROVE IncIP(x) \in IPs
<1> SUFFICES ASSUME NEW i \in Index
             PROVE  (IF \A j \in i + 1 .. AddrBytes : x[j] = Base - 1
                     THEN (x[i] + 1) % Base ELSE x[i]) \in 0 .. Base - 1
  BY DEF IncIP, IPs
<1>1. x[i] \in 0 .. Base - 1 /\ x[i] + 1 \in Nat /\ Base \in Nat \ {0}
  BY ByteOf, Widths
<1>2. (x[i] + 1) % Base \in 0 .. Base - 1
  BY <1>1, Remainder
<1> QED BY <1>1, <1>2

(* A byte that is incremented wraps to 0 after its last value.             *)
LEMMA ByteWraps ==
  ASSUME NEW B \in Nat \ {0}, NEW d \in 0 .. B - 1
  PROVE  (d + 1) % B = IF d = B - 1 THEN 0 ELSE d + 1
<1>1. CASE d = B - 1
  <2>1. B * 1 + 0 = d + 1 /\ 0 \in 0 .. B - 1 /\ 1 \in Nat
    BY <1>1
  <2>2. (B * 1 + 0) % B = 0
    BY <2>1, Divides
  <2> QED BY <1>1, <2>1, <2>2
<1>2. CASE d # B - 1
  <2>1. d + 1 \in 0 .. B - 1 /\ B * 0 + (d + 1) = d + 1 /\ 0 \in Nat
    BY <1>2
  <2>2. (B * 0 + (d + 1)) % B = d + 1
    BY <2>1, Divides
  <2> QED BY <1>2, <2>1, <2>2
<1> QED BY <1>1, <1>2

(* The value of a prefix after incIP: one more if there is a carry into    *)
(* it, with its own wrap-around.                                           *)
LEMMA PrefixOfIncIP ==
  ASSUME NEW x \in IPs
  PROVE  \A i \in Places :
           Value(IncIP(x))[i] =
             IF ~Carry(x, i) THEN Value(x)[i]
             ELSE IF Value(x)[i] = Span(i) - 1 THEN 0 ELSE Value(x)[i] + 1
<1> DEFINE y == IncIP(x)
           Incremented(i) == IF ~Carry(x, i) THEN Value(x)[i]
                       ELSE IF Value(x)[i] = Span(i) - 1 THEN 0
                       ELSE Value(x)[i] + 1
           T == {i \in Places : Value(y)[i] = Incremented(i)}
<1>0. y \in IPs
  BY IncIPIsAddress
<1>1. 0 \in T
  <2>1. Value(y)[0] = 0
    BY <1>0, ValueIsDefined
  <2>2. Value(x)[0] = 0 /\ Span(0) = 1
    BY ValueIsDefined, Spans
  <2>3. 0 \in Places
    BY Widths DEF Places
  <2> QED BY <2>1, <2>2, <2>3
<1>2. ASSUME NEW i \in Index, i - 1 \in T PROVE i \in T
  <2> DEFINE v == Value(x)[i - 1]
             p == Span(i - 1)
             d == x[i]
             n == Value(y)[i - 1]
  <2>1. v \in Nat /\ p \in Nat /\ v < p /\ d \in 0 .. Base - 1 /\ n \in Nat
    BY <1>0, ValueIsDefined, ValueIsBounded, Spans, Widths, ByteOf
  <2>2. Value(x)[i] = Base * v + d /\ Span(i) = p * Base
    BY ValueIsDefined, Spans
  <2>3. Value(y)[i] = Base * n + y[i]
    BY <1>0, ValueIsDefined
  <2>4. y[i] = IF Carry(x, i) THEN (d + 1) % Base ELSE d
    BY DEF IncIP, Carry
  <2>5. n = IF ~Carry(x, i - 1) THEN v
            ELSE IF v = p - 1 THEN 0 ELSE v + 1
    BY <1>2
  <2>6. Carry(x, i - 1) <=> (d = Base - 1 /\ Carry(x, i))
    <3>1. \A j \in (i - 1) + 1 .. AddrBytes : j = i \/ j \in i + 1 .. AddrBytes
      BY Widths
    <3>2. /\ i \in (i - 1) + 1 .. AddrBytes
          /\ \A j \in i + 1 .. AddrBytes : j \in (i - 1) + 1 .. AddrBytes
      BY Widths DEF Index
    <3> QED BY <3>1, <3>2 DEF Carry
  <2>7. Base * v + d = p * Base - 1 <=> (v = p - 1 /\ d = Base - 1)
    <3> HIDE DEF v, p, d
    <3> QED BY <2>1, Widths, Digit
  <2>8. (d + 1) % Base = IF d = Base - 1 THEN 0 ELSE d + 1
    <3> HIDE DEF d
    <3> QED BY <2>1, Widths, ByteWraps
  <2>9. i \in Places
    BY Widths
  <2> HIDE DEF v, p, d, n, y
  <2>10. CASE ~Carry(x, i)
    <3>1. n = v /\ y[i] = d
      BY <2>4, <2>5, <2>6, <2>10
    <3> QED BY <2>2, <2>3, <2>9, <2>10, <3>1
  <2>11. CASE Carry(x, i) /\ d # Base - 1
    <3>1. n = v /\ y[i] = d + 1
      BY <2>4, <2>5, <2>6, <2>8, <2>11
    <3>2. Value(x)[i] # Span(i) - 1
      BY <2>2, <2>7, <2>11
    <3>3. Base * v + (d + 1) = (Base * v + d) + 1
      <4>1. Base * v \in Nat
        BY <2>1, Widths, Products
      <4> QED BY <2>1, <4>1
    <3> QED BY <2>2, <2>3, <2>9, <2>11, <3>1, <3>2, <3>3
  <2>12. CASE Carry(x, i) /\ d = Base - 1
    <3>1. y[i] = 0 /\ n = IF v = p - 1 THEN 0 ELSE v + 1
      BY <2>4, <2>5, <2>6, <2>8, <2>12
    <3>2. CASE v = p - 1
      <4>1. Base * n + y[i] = 0
        BY <3>1, <3>2, Widths
      <4> QED BY <2>2, <2>3, <2>7, <2>9, <2>12, <3>2, <4>1
    <3>3. CASE v # p - 1
      <4>1. Base * (v + 1) = Base * v + Base * 1
        BY <2>1, Widths, Distributes
      <4>2. Base * v \in Nat /\ Base * 1 = Base
        BY <2>1, Widths, Products
      <4>3. Base * n + y[i] = (Base * v + d) + 1
        BY <2>12, <3>1, <3>3, <4>1, <4>2, Widths
      <4>4. Value(x)[i] # Span(i) - 1
        BY <2>2, <2>7, <3>3
      <4> QED BY <2>2, <2>3, <2>9, <2>12, <4>3, <4>4
    <3> QED BY <3>2, <3>3
  <2> QED BY <2>10, <2>11, <2>12
<1>3. Places \subseteq T
  <2> HIDE DEF T
  <2> QED BY <1>1, <1>2, ByteInduction
<1> QED BY <1>3 DEF y

(* So incIP adds one, and wraps at the last address.                       *)
LEMMA IncIPAddsOne == IncAddsOne
<1> SUFFICES ASSUME NEW x \in IPs
             PROVE  /\ Wraps(x) <=> ValueOf(x) = Pow2[AddrBits] - 1
                    /\ ValueOf(IncIP(x)) = (ValueOf(x) + 1) % Pow2[AddrBits]
  BY DEF IncAddsOne
<1> DEFINE v == ValueOf(x)
           p == Pow2[AddrBits]
<1>1. /\ AddrBytes \in Places /\ p = Span(AddrBytes) /\ p \in Nat \ {0}
      /\ v \in Nat /\ v < p
  BY Widths, Spans, ValueIsDefined, ValueIsBounded DEF ValueOf
<1>2. Wraps(x) <=> v = p - 1
  BY <1>1, AllWrap DEF Wraps, Index, ValueOf
<1>3. Carry(x, AddrBytes)
  <2>1. AddrBytes + 1 .. AddrBytes = {}
    BY Widths
  <2> QED BY <2>1 DEF Carry
<1>4. ValueOf(IncIP(x)) = IF v = p - 1 THEN 0 ELSE v + 1
  BY <1>1, <1>3, PrefixOfIncIP DEF ValueOf
<1>5. (v + 1) % p = IF v = p - 1 THEN 0 ELSE v + 1
  <2> HIDE DEF v, p
  <2> QED BY <1>1, ByteWraps
<1> QED BY <1>2, <1>4, <1>5

----------------------------------------------------------------------------
(* Masks.                                                                  *)

(* The host part of a prefix of i bytes counts to this.                    *)
Host(ones, i) == IF i * ByteBits <= ones THEN 1 ELSE Pow2[i * ByteBits - ones]

(* Its values at the ends.                                                 *)
LEMMA HostPart ==
  ASSUME NEW ones \in 0 .. AddrBits
  PROVE  /\ Host(ones, 0) = 1
         /\ \A i \in Places : Host(ones, i) \in Nat \ {0}
         /\ Host(ones, AddrBytes) = Pow2[AddrBits - ones]
<1>1. Host(ones, 0) = 1
  <2>1. 0 * ByteBits = 0 /\ 0 <= ones
    BY Widths
  <2> QED BY <2>1 DEF Host
<1>2. ASSUME NEW i \in Places PROVE Host(ones, i) \in Nat \ {0}
  <2>1. i * ByteBits \in Nat
    BY Widths, Products
  <2> DEFINE m == i * ByteBits
  <2>2. m \in Nat /\ ones \in Nat
    BY <2>1, Widths
  <2>3. ~(m <= ones) => m - ones \in Nat
    <3> HIDE DEF m
    <3> QED BY <2>2
  <2> HIDE DEF m
  <2>4. (IF m <= ones THEN 1 ELSE Pow2[m - ones]) \in Nat \ {0}
    BY <2>3, PowerIsPositive
  <2> QED BY <2>4 DEF Host, m
<1>3. Host(ones, AddrBytes) = Pow2[AddrBits - ones]
  <2>1. CASE AddrBits <= ones
    <3>1. AddrBits - ones = 0
      BY <2>1, Widths
    <3> QED BY <2>1, <3>1, PowersOfTwo DEF Host, AddrBits
  <2>2. CASE ~(AddrBits <= ones)
    BY <2>2 DEF Host, AddrBits
  <2> QED BY <2>1, <2>2
<1> QED BY <1>1, <1>2, <1>3

(* A byte multiplies the size of the host part by its own share; either    *)
(* the byte is in the host part as a whole or nothing before it is; and    *)
(* its share divides Base, whether the mask ends inside the byte or not.   *)
LEMMA HostByte ==
  ASSUME NEW ones \in 0 .. AddrBits, NEW i \in Index
  PROVE  /\ HostRange(ones, i) \in Nat \ {0}
         /\ Host(ones, i) = Host(ones, i - 1) * HostRange(ones, i)
         /\ HostRange(ones, i) = Base \/ Host(ones, i - 1) = 1
         /\ \E g \in Nat : Base = HostRange(ones, i) * g
<1> DEFINE m == (i - 1) * ByteBits
           k == ByteBits
           H == HostRange(ones, i)
<1>1. /\ m \in Nat /\ k \in Nat \ {0} /\ ones \in Nat
  BY Widths, Products
<1>2. i * ByteBits = m + k
  BY Widths
<1>3. H = CASE ones - m <= 0 -> Base
            [] ones - m >= k -> 1
            [] OTHER         -> Pow2[k - (ones - m)]
  BY DEF HostRange
<1>4. /\ Host(ones, i) = IF m + k <= ones THEN 1 ELSE Pow2[m + k - ones]
      /\ Host(ones, i - 1) = IF m <= ones THEN 1 ELSE Pow2[m - ones]
  <2> DEFINE w == i * ByteBits
  <2>1. Host(ones, i) = IF w <= ones THEN 1 ELSE Pow2[w - ones]
    BY DEF Host
  <2>2. Host(ones, i - 1) = IF m <= ones THEN 1 ELSE Pow2[m - ones]
    BY DEF Host
  <2>3. w = m + k
    BY <1>2
  <2> HIDE DEF m, k, w
  <2>4. Host(ones, i) = IF m + k <= ones THEN 1 ELSE Pow2[m + k - ones]
    BY <1>1, <2>1, <2>3
  <2> QED BY <2>2, <2>4
<1>5. Base = Pow2[k] /\ Base \in Nat \ {0}
  BY Widths DEF Base
<1> HIDE DEF m, k, H
<1>6. CASE ones <= m
  <2>1. /\ ones - m <= 0 /\ ~(ones - m >= k) /\ ~(m + k <= ones)
        /\ m - ones \in Nat /\ m + k - ones = (m - ones) + k
    BY <1>1, <1>6
  <2>2. H = Base
    BY <1>3, <2>1
  <2>3. Pow2[(m - ones) + k] = Pow2[m - ones] * Pow2[k]
    BY <1>1, <2>1, PowerOfSum
  <2>4. Host(ones, i - 1) = Pow2[m - ones]
    <3>1. CASE m = ones
      <4>1. m - ones = 0
        BY <1>1, <3>1
      <4> QED BY <1>1, <1>4, <3>1, <4>1, PowersOfTwo
    <3>2. CASE m # ones
      <4>1. ~(m <= ones)
        BY <1>1, <1>6, <3>2
      <4> QED BY <1>4, <4>1
    <3> QED BY <3>1, <3>2
  <2>5. Host(ones, i) = Host(ones, i - 1) * H
    BY <1>4, <1>5, <2>1, <2>2, <2>3, <2>4
  <2>6. Base = Base * 1 /\ 1 \in Nat
    BY <1>5
  <2> QED BY <1>5, <2>2, <2>5, <2>6 DEF H
<1>7. CASE ones >= m + k
  <2>1. /\ ~(ones - m <= 0) /\ ones - m >= k /\ m + k <= ones /\ m <= ones
    BY <1>1, <1>7
  <2>2. H = 1
    BY <1>3, <2>1
  <2>3. Host(ones, i) = 1 /\ Host(ones, i - 1) = 1
    BY <1>4, <2>1
  <2>4. Base = 1 * Base /\ 1 * 1 = 1 /\ 1 \in Nat \ {0}
    BY <1>5
  <2> QED BY <1>5, <2>2, <2>3, <2>4 DEF H
<1>8. CASE m < ones /\ ones < m + k
  <2> DEFINE n == k - (ones - m)
  <2>1. /\ ~(ones - m <= 0) /\ ~(ones - m >= k) /\ ~(m + k <= ones) /\ m <= ones
        /\ n \in Nat /\ ones - m \in Nat /\ m + k - ones = n
        /\ n + (ones - m) = k
    BY <1>1, <1>8
  <2> HIDE DEF n
  <2>2. H = Pow2[n]
    BY <1>3, <2>1 DEF n
  <2>3. Host(ones, i) = Pow2[n] /\ Host(ones, i - 1) = 1
    BY <1>4, <2>1
  <2>4. Pow2[n + (ones - m)] = Pow2[n] * Pow2[ones - m]
    BY <2>1, PowerOfSum
  <2>5. Pow2[n] \in Nat \ {0} /\ Pow2[ones - m] \in Nat
    BY <2>1, PowerIsPositive
  <2>6. Pow2[n] = 1 * Pow2[n]
    BY <2>5
  <2> QED BY <1>5, <2>1, <2>2, <2>3, <2>4, <2>5, <2>6 DEF H
<1> QED BY <1>1, <1>6, <1>7, <1>8

(* A masked byte,                                                          *)
LEMMA MaskedByte ==
  ASSUME NEW x \in IPs, NEW ones \in 0 .. AddrBits, NEW i \in Index
  PROVE  /\ Mask(x, ones)[i] = x[i] - (x[i] % HostRange(ones, i))
         /\ Mask(x, ones)[i] \in 0 .. Base - 1
<1> DEFINE H == HostRange(ones, i)
           d == x[i]
<1>1. H \in Nat \ {0} /\ d \in 0 .. Base - 1 /\ d \in Nat /\ Base \in Nat
  BY HostByte, ByteOf, Widths
<1> HIDE DEF H, d
<1>2. /\ d \div H \in Nat /\ d % H \in 0 .. H - 1
      /\ d = H * (d \div H) + (d % H)
  BY <1>1, Remainder
<1>3. H * (d \div H) \in Nat
  BY <1>1, <1>2, Products
<1>4. d - (d % H) \in 0 .. Base - 1
  <2> DEFINE z == H * (d \div H)
             r == d % H
  <2>1. z \in Nat /\ r \in Nat /\ d = z + r
    BY <1>1, <1>2, <1>3
  <2> HIDE DEF z, r
  <2>2. d - r \in 0 .. Base - 1
    BY <1>1, <2>1
  <2> QED BY <2>2 DEF r
<1> QED BY <1>4 DEF Mask, H, d

(* and a masked address.                                                   *)
LEMMA MaskIsAddress ==
  ASSUME NEW x \in IPs, NEW ones \in 0 .. AddrBits
  PROVE  Mask(x, ones) \in IPs
<1> DEFINE y == Mask(x, ones)
<1>1. y = [i \in Index |-> y[i]]
  BY DEF Mask
<1>2. \A i \in Index : y[i] \in 0 .. Base - 1
  BY MaskedByte
<1> HIDE DEF y
<1>3. y \in IPs
  BY <1>1, <1>2 DEF IPs
<1> QED BY <1>3 DEF y

(* A value B * (S * q + r) + d is a multiple k of S * H and a host part t; *)
(* without their host parts, S * q and the digit give the multiple, and t  *)
(* is the last one if both host parts are.                                 *)
DigitSplits(B, S, H, q, r, d) ==
  \E k \in Nat : \E t \in 0 .. S * H - 1 :
    /\ B * (S * q + r) + d = (S * H) * k + t
    /\ B * (S * q) + (d - (d % H)) = (S * H) * k
    /\ t = S * H - 1 <=> (r = S - 1 /\ d % H = H - 1)

(* This is so for a byte that is in the host part as a whole and for one   *)
(* before which no bit is.                                                 *)
LEMMA MaskDigit ==
  ASSUME NEW B \in Nat \ {0}, NEW S \in Nat \ {0}, NEW H \in Nat \ {0},
         H = B \/ S = 1, NEW g \in Nat, B = H * g,
         NEW q \in Nat, NEW r \in 0 .. S - 1, NEW d \in 0 .. B - 1
  PROVE  DigitSplits(B, S, H, q, r, d)
<1> USE DEF DigitSplits
<1>1. CASE H = B
  <2> DEFINE t == B * r + d
  <2>1. /\ t \in Nat /\ t < S * B
        /\ t = S * B - 1 <=> (r = S - 1 /\ d = B - 1)
    <3>1. r \in Nat /\ r < S
      OBVIOUS
    <3> QED BY <3>1, Digit
  <2>2. d % B = d
    <3>1. B * 0 + d = d /\ 0 \in Nat
      OBVIOUS
    <3>2. (B * 0 + d) % B = d
      BY <3>1, Divides
    <3> QED BY <3>1, <3>2
  <2>3. B * (S * q) = (S * B) * q /\ B * (S * q) \in Nat
    OBVIOUS
  <2>4. B * (S * q + r) = B * (S * q) + B * r
    BY Distributes, Products
  <2>5. S * B \in Nat /\ B * r \in Nat
    BY Products
  <2>6. t \in 0 .. S * B - 1
    <3> DEFINE p == S * B
    <3>1. p \in Nat /\ t \in Nat /\ t < p
      BY <2>1, <2>5
    <3> HIDE DEF p, t
    <3>2. t \in 0 .. p - 1
      BY <3>1
    <3> QED BY <3>2 DEF p
  <2>7. B * (S * q + r) + d = (S * B) * q + t
    <3> DEFINE z == B * (S * q)
               y == B * r
    <3>1. z \in Nat /\ y \in Nat /\ d \in Nat
      BY <2>3, <2>5
    <3>2. B * (S * q + r) = z + y /\ t = y + d /\ (S * B) * q = z
      BY <2>3, <2>4
    <3> HIDE DEF z, y, t
    <3> QED BY <3>1, <3>2
  <2>8. B * (S * q) + (d - (d % B)) = (S * B) * q
    <3> DEFINE z == B * (S * q)
    <3>1. z \in Nat /\ z = (S * B) * q /\ d - (d % B) = 0
      BY <2>2, <2>3
    <3> HIDE DEF z
    <3>2. z + (d - (d % B)) = (S * B) * q
      BY <3>1
    <3> QED BY <3>2 DEF z
  <2> HIDE DEF t
  <2> QED BY <1>1, <2>1, <2>2, <2>6, <2>7, <2>8
<1>2. CASE S = 1
  <2> DEFINE c == d \div H
             t == d % H
             k == g * q + c
  <2>1. /\ c \in Nat /\ t \in 0 .. H - 1 /\ d = H * c + t /\ d \in Nat
    <3>1. d \in Nat
      OBVIOUS
    <3>2. /\ d \div H \in Nat /\ d % H \in 0 .. H - 1
          /\ d = H * (d \div H) + (d % H)
      BY <3>1, Remainder
    <3> QED BY <3>1, <3>2
  <2>2. r = 0 /\ S - 1 = 0 /\ S * H = H /\ S * q = q /\ S * q + r = q
    BY <1>2
  <2>3. g * q \in Nat /\ k \in Nat
    BY <2>1, Products
  <2>4. H * k = B * q + H * c
    <3>1. H * k = H * (g * q) + H * c
      <4> DEFINE e == g * q
      <4>1. e \in Int /\ c \in Int /\ H \in Int
        BY <2>1, <2>3
      <4> HIDE DEF e, c
      <4>2. H * (e + c) = H * e + H * c
        BY <4>1, Distributes
      <4> QED BY <4>2 DEF e
    <3>2. H * (g * q) = (H * g) * q
      OBVIOUS
    <3> QED BY <3>1, <3>2
  <2>5. B * q \in Nat /\ H * c \in Nat /\ H * k \in Nat
    BY <2>1, <2>3, Products
  <2>6. B * q + d = H * k + t /\ B * q + (d - t) = H * k
    <3> DEFINE y == B * q
               z == H * c
               w == H * k
    <3>1. /\ y \in Nat /\ z \in Nat /\ w = y + z /\ d = z + t
          /\ t \in Nat /\ d \in Nat
      BY <2>1, <2>4, <2>5
    <3> HIDE DEF y, z, w, t
    <3>2. y + d = w + t /\ y + (d - t) = w
      BY <3>1
    <3> QED BY <3>2 DEF y, w
  <2>7. t = H - 1 <=> (r = S - 1 /\ t = H - 1)
    BY <2>2
  <2> HIDE DEF k, c
  <2>8. /\ t \in 0 .. S * H - 1
        /\ B * (S * q + r) + d = (S * H) * k + t
        /\ B * (S * q) + (d - t) = (S * H) * k
        /\ t = S * H - 1 <=> (r = S - 1 /\ t = H - 1)
    <3> HIDE DEF t
    <3> QED BY <2>1, <2>2, <2>6, <2>7
  <2> QED BY <2>3, <2>8
<1> QED BY <1>1, <1>2

(* isLastAddr, up to byte i: all host bits are ones.                       *)
FreeUpTo(x, ones, i) ==
  \A j \in 1 .. i : x[j] % HostRange(ones, j) = HostRange(ones, j) - 1

(* The value of a prefix is a multiple of the size of its host part, which *)
(* is the value of the masked prefix, and a host part.                     *)
Splits(x, ones, i) ==
  \E q \in Nat : \E r \in 0 .. Host(ones, i) - 1 :
    /\ Value(x)[i] = Host(ones, i) * q + r
    /\ Value(Mask(x, ones))[i] = Host(ones, i) * q
    /\ r = Host(ones, i) - 1 <=> FreeUpTo(x, ones, i)

(* This is so for every prefix.                                            *)
LEMMA PrefixOfMask ==
  ASSUME NEW x \in IPs, NEW ones \in 0 .. AddrBits
  PROVE  \A i \in Places : Splits(x, ones, i)
<1> DEFINE y == Mask(x, ones)
           T == {i \in Places : Splits(x, ones, i)}
<1>0. y \in IPs
  BY MaskIsAddress
<1>1. 0 \in T
  <2>1. Value(x)[0] = 0 /\ Value(y)[0] = 0 /\ Host(ones, 0) = 1
    BY <1>0, ValueIsDefined, HostPart
  <2>2. FreeUpTo(x, ones, 0)
    BY DEF FreeUpTo
  <2>3. 0 \in Places
    BY Widths DEF Places
  <2> HIDE DEF y
  <2>4. 0 \in Nat /\ 0 \in 0 .. 1 - 1 /\ 0 = 1 * 0 + 0 /\ 0 = 1 * 0 /\ 0 = 1 - 1
    OBVIOUS
  <2>5. Splits(x, ones, 0)
    BY <2>1, <2>2, <2>4 DEF Splits, y
  <2> QED BY <2>3, <2>5
<1>2. ASSUME NEW i \in Index, i - 1 \in T PROVE i \in T
  <2> DEFINE v == Value(x)[i - 1]
             S == Host(ones, i - 1)
             H == HostRange(ones, i)
             d == x[i]
  <2>1. PICK q \in Nat, r \in 0 .. S - 1 :
          /\ v = S * q + r /\ Value(y)[i - 1] = S * q
          /\ r = S - 1 <=> FreeUpTo(x, ones, i - 1)
    BY <1>2 DEF Splits
  <2>2. Value(x)[i] = Base * v + d
    BY ValueIsDefined
  <2>3. Value(y)[i] = Base * Value(y)[i - 1] + (d - (d % H))
    <3>1. Value(y)[i] = Base * Value(y)[i - 1] + y[i]
      BY <1>0, ValueIsDefined
    <3>2. y[i] = d - (d % H)
      BY MaskedByte
    <3> HIDE DEF y, d, H
    <3> QED BY <3>1, <3>2
  <2>4. /\ S \in Nat \ {0} /\ H \in Nat \ {0} /\ Base \in Nat \ {0}
        /\ Host(ones, i) = S * H /\ (H = Base \/ S = 1)
        /\ d \in 0 .. Base - 1
    BY HostByte, HostPart, Widths, ByteOf
  <2>5. PICK g \in Nat : Base = H * g
    BY HostByte
  <2>6. FreeUpTo(x, ones, i) <=> (FreeUpTo(x, ones, i - 1) /\ d % H = H - 1)
    <3>1. \A j \in 1 .. i : j = i \/ j \in 1 .. i - 1
      BY Widths
    <3>2. i \in 1 .. i /\ \A j \in 1 .. i - 1 : j \in 1 .. i
      BY Widths DEF Index
    <3> QED BY <3>1, <3>2 DEF FreeUpTo
  <2> HIDE DEF v, S, H, d, y
  <2>7. PICK k \in Nat, t \in 0 .. S * H - 1 :
          /\ Base * (S * q + r) + d = (S * H) * k + t
          /\ Base * (S * q) + (d - (d % H)) = (S * H) * k
          /\ t = S * H - 1 <=> (r = S - 1 /\ d % H = H - 1)
    <3>1. /\ Base \in Nat \ {0} /\ S \in Nat \ {0} /\ H \in Nat \ {0}
          /\ H = Base \/ S = 1
          /\ g \in Nat /\ Base = H * g
          /\ q \in Nat /\ r \in 0 .. S - 1 /\ d \in 0 .. Base - 1
      BY <2>4, <2>5
    <3>2. DigitSplits(Base, S, H, q, r, d)
      BY <3>1, MaskDigit
    <3> QED BY <3>2 DEF DigitSplits
  <2>8. /\ Value(x)[i] = (S * H) * k + t
        /\ Value(y)[i] = (S * H) * k
        /\ t = S * H - 1 <=> FreeUpTo(x, ones, i)
    BY <2>1, <2>2, <2>3, <2>6, <2>7
  <2>9. Splits(x, ones, i)
    BY <2>4, <2>7, <2>8 DEF Splits, y
  <2> QED BY <2>9, Widths
<1>3. Places \subseteq T
  <2> HIDE DEF T
  <2> QED BY <1>1, <1>2, ByteInduction
<1> QED BY <1>3

(* So Mask rounds down to a multiple of the size of the block, and         *)
(* isLastAddr looks for the last remainder.                                *)
LEMMA MaskCutsHostPart ==
  ASSUME NEW x \in IPs, NEW ones \in 0 .. AddrBits, NEW S,
         S = Pow2[AddrBits - ones]
  PROVE  /\ S \in Nat \ {0} /\ ValueOf(x) \in Nat
         /\ ValueOf(Mask(x, ones)) = S * (ValueOf(x) \div S)
         /\ IsLastAddr(x, ones) <=> ValueOf(x) % S = S - 1
<1>1. Host(ones, AddrBytes) = S /\ S \in Nat \ {0} /\ AddrBytes \in Places
  BY HostPart, Widths
<1>2. PICK q \in Nat, r \in 0 .. S - 1 :
        /\ ValueOf(x) = S * q + r /\ ValueOf(Mask(x, ones)) = S * q
        /\ r = S - 1 <=> FreeUpTo(x, ones, AddrBytes)
  <2>1. Splits(x, ones, AddrBytes)
    BY <1>1, PrefixOfMask
  <2> QED BY <1>1, <2>1 DEF Splits, ValueOf
<1>3. IsLastAddr(x, ones) <=> FreeUpTo(x, ones, AddrBytes)
  BY DEF IsLastAddr, FreeUpTo, Index
<1>4. (S * q + r) \div S = q /\ (S * q + r) % S = r
  BY <1>1, Divides
<1>5. ValueOf(x) \in Nat
  BY <1>1, ValueIsDefined DEF ValueOf
<1> QED BY <1>1, <1>2, <1>3, <1>4, <1>5

(* Two values that are rounded to the same multiple lie in one interval.   *)
BlockTest(S, v, w) ==
  LET block == S * (w \div S)
  IN  /\ S * (v \div S) = block <=> v \in block .. block + S - 1
      /\ S * (v \div S) = block => (v % S = S - 1 <=> v = block + S - 1)

(* They do.                                                                *)
LEMMA SameBlock ==
  ASSUME NEW S \in Nat \ {0}, NEW v \in Nat, NEW w \in Nat
  PROVE  BlockTest(S, v, w)
<1> DEFINE q == v \div S
           r == v % S
           p == w \div S
<1>1. /\ q \in Nat /\ r \in 0 .. S - 1 /\ v = S * q + r /\ p \in Nat
  BY Remainder
<1> HIDE DEF q, r, p
<1>2. S * q \in Nat /\ S * p \in Nat
  BY <1>1, Products
<1>3. ASSUME S * q = S * p
      PROVE  /\ v \in S * p .. S * p + S - 1
             /\ r = S - 1 <=> v = S * p + S - 1
  <2> DEFINE z == S * p
  <2>1. z \in Nat /\ v = z + r
    BY <1>1, <1>2, <1>3
  <2> HIDE DEF z
  <2>2. v \in z .. z + S - 1 /\ (r = S - 1 <=> v = z + S - 1)
    BY <1>1, <2>1
  <2> QED BY <2>2 DEF z
<1>4. ASSUME v \in S * p .. S * p + S - 1 PROVE S * q = S * p
  <2> DEFINE z == S * p
             e == v - z
  <2>1. z \in Nat /\ v \in z .. z + S - 1
    BY <1>2, <1>4
  <2>2. e \in 0 .. S - 1 /\ v = z + e
    <3> HIDE DEF z
    <3> QED BY <2>1
  <2>3. S * q + r = S * p + e
    BY <1>1, <2>2
  <2> HIDE DEF z, e
  <2>4. q = p
    BY <1>1, <2>2, <2>3, SameDigits
  <2> QED BY <2>4
<1>5. /\ S * q = S * p <=> v \in S * p .. S * p + S - 1
      /\ S * q = S * p => (r = S - 1 <=> v = S * p + S - 1)
  BY <1>3, <1>4
<1> QED BY <1>5 DEF q, r, p, BlockTest

(* So the blocks are intervals of numbers.                                 *)
LEMMA MasksCutBlocks == BlocksAreIntervals
<1> SUFFICES ASSUME NEW cidr \in CIDRs
             PROVE  /\ ValueOf(Mask(cidr.ip, cidr.ones)) = First(cidr)
                    /\ \A x \in IPs :
                         /\ Contains(cidr, x)
                              <=> ValueOf(x) \in First(cidr) .. Last(cidr)
                         /\ Contains(cidr, x) =>
                              (IsLastAddr(x, cidr.ones)
                                 <=> ValueOf(x) = Last(cidr))
  BY DEF BlocksAreIntervals
<1> DEFINE S == Size(cidr)
           w == ValueOf(cidr.ip)
<1>1. cidr.ip \in IPs /\ cidr.ones \in 0 .. AddrBits
  BY DEF CIDRs
<1>2. S = Pow2[AddrBits - cidr.ones]
  BY DEF Size
<1>3. First(cidr) = S * (w \div S) /\ Last(cidr) = S * (w \div S) + S - 1
  BY DEF First, Last
<1> HIDE DEF S
<1>4. /\ S \in Nat \ {0} /\ w \in Nat
      /\ ValueOf(Mask(cidr.ip, cidr.ones)) = S * (w \div S)
  BY <1>1, <1>2, MaskCutsHostPart
<1>5. ASSUME NEW x \in IPs
      PROVE  /\ Contains(cidr, x)
                  <=> ValueOf(x) \in First(cidr) .. Last(cidr)
             /\ Contains(cidr, x) =>
                  (IsLastAddr(x, cidr.ones) <=> ValueOf(x) = Last(cidr))
  <2> DEFINE v == ValueOf(x)
  <2>1. /\ v \in Nat /\ ValueOf(Mask(x, cidr.ones)) = S * (v \div S)
        /\ IsLastAddr(x, cidr.ones) <=> v % S = S - 1
    BY <1>1, <1>2, MaskCutsHostPart
  <2>2. Contains(cidr, x) <=> S * (v \div S) = S * (w \div S)
    <3>1. Mask(x, cidr.ones) \in IPs /\ Mask(cidr.ip, cidr.ones) \in IPs
      BY <1>1, MaskIsAddress
    <3>2. Contains(cidr, x)
            <=> ValueOf(Mask(x, cidr.ones)) = ValueOf(Mask(cidr.ip, cidr.ones))
      BY <3>1, ValueIsInjective DEF Contains
    <3> HIDE DEF v, w
    <3> QED BY <1>4, <2>1, <3>2
  <2> HIDE DEF v, w
  <2>3. /\ S * (v \div S) = S * (w \div S)
             <=> v \in S * (w \div S) .. S * (w \div S) + S - 1
        /\ S * (v \div S) = S * (w \div S) =>
             (v % S = S - 1 <=> v = S * (w \div S) + S - 1)
    <3>1. S \in Nat \ {0} /\ v \in Nat /\ w \in Nat
      BY <1>4, <2>1
    <3>2. BlockTest(S, v, w)
      BY <3>1, SameBlock
    <3> QED BY <3>2 DEF BlockTest
  <2>4. Contains(cidr, x) <=> v \in First(cidr) .. Last(cidr)
    BY <1>3, <2>2, <2>3
  <2>5. Contains(cidr, x) => (IsLastAddr(x, cidr.ones) <=> v = Last(cidr))
    BY <1>3, <2>1, <2>2, <2>3
  <2> QED BY <2>4, <2>5 DEF v
<1> QED BY <1>3, <1>4, <1>5

(* The byte operations of iterCIDR do on numbers what Scanner takes them   *)
(* to do, for bytes of any width and addresses of any number of bytes: the *)
(* 4 bytes of 8 bits of the code, and every mask, are among them           *)
(* (scanner.go:275-325).                                                   *)
THEOREM BytesAlwaysAreNumbers == BytesAreNumbers
BY IncIPAddsOne, MasksCutBlocks DEF BytesAreNumbers

(* So they do in every state in which a scan begins (scanner.go:275-325).  *)
THEOREM AddressesAlwaysAreNumbers == CycleSpec => []AddressesAreNumbers
<1>1. AddressesAreNumbers
  BY BytesAlwaysAreNumbers DEF AddressesAreNumbers
<1> QED BY <1>1, PTL
=============================================================================
