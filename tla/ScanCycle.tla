----------------------------- MODULE ScanCycle ------------------------------
(***************************************************************************)
(* main.go, runCycle: the active scan (module Scanner), then the local     *)
(* certificate stores (module CertStore), each if it is configured, then   *)
(* one call of sender.Send with what both found.  The three run one after  *)
(* the other; inside the scan many goroutines run.                         *)
(***************************************************************************)
EXTENDS Scanner, CertStore

CONSTANT CycleConfigs   \* the configurations of the two parts, and which run

Parts == [scan : BOOLEAN, store : BOOLEAN]

ASSUME CycleAssumption ==
  /\ CycleConfigs \subseteq [scan : ScanConfigs, store : StoreConfigs,
                             enabled : Parts]
  /\ \A c \in CycleConfigs : c.enabled.scan => Len(c.scan.networks) > 0

VARIABLES
  enabled,   \* which of the two parts run, constant
  phase,     \* where runCycle is
  posted     \* the assets given to Send: <<tls, certstore>>, or <<>>

cycleVars == <<scanVars, storeVars, enabled, phase, posted>>

CycleTypeOK ==
  /\ ScanTypeOK /\ StoreTypeOK
  /\ enabled \in Parts
  /\ phase \in {"scan", "store", "send", "sent", "ok", "error"}

CycleInit ==
  /\ \E c \in CycleConfigs :
       scan = c.scan /\ store = c.store /\ enabled = c.enabled
  /\ ScanInit /\ StoreInit
  /\ phase = IF enabled.scan THEN "scan" ELSE "store"
  /\ posted = <<>>

----------------------------------------------------------------------------
Scanning ==
  /\ phase = "scan"
  /\ \/ ScanStep /\ UNCHANGED phase
     \/ ScanReturns /\ phase' = "store" /\ UNCHANGED scanVars
  /\ UNCHANGED <<storeVars, enabled, posted>>

Reading ==
  /\ phase = "store"
  /\ \/ enabled.store /\ VisitFile /\ UNCHANGED phase
     \/ /\ StoreReturns \/ ~enabled.store
        /\ phase' = "send" /\ UNCHANGED storeVars
  /\ UNCHANGED <<scanVars, enabled, posted>>

(* Mutant: what the certificate store found replaces what the scan found.  *)
PostStoreOnly ==
  /\ phase = "send"
  /\ IF assets = {} /\ stored = {} THEN phase' = "ok" /\ UNCHANGED posted
     ELSE /\ phase' = "sent"
          /\ posted' = <<IF stored = {} THEN assets ELSE {}, stored>>
  /\ UNCHANGED <<scanVars, storeVars, enabled>>

(* Nothing found: nothing is sent, and that is no error.                   *)
Post ==
  /\ phase = "send"
  /\ IF assets = {} /\ stored = {} THEN phase' = "ok" /\ UNCHANGED posted
     ELSE phase' = "sent" /\ posted' = <<assets, stored>>
  /\ UNCHANGED <<scanVars, storeVars, enabled>>

(* Mutant: a report that failed is sent again, for as long as it fails.    *)
SendUntilAccepted ==
  /\ phase = "sent"
  /\ phase' \in {"ok", "send"}
  /\ UNCHANGED <<scanVars, storeVars, enabled, posted>>

(* sender.Send returns (module Sender): its error is the cycle's.          *)
SendReturns ==
  /\ phase = "sent"
  /\ phase' \in {"ok", "error"}
  /\ UNCHANGED <<scanVars, storeVars, enabled, posted>>

CycleReturned == phase \in {"ok", "error"} /\ UNCHANGED cycleVars

CycleNext == Scanning \/ Reading \/ Post \/ SendReturns \/ CycleReturned

CycleSpec == CycleInit /\ [][CycleNext]_cycleVars

(* Go runs what is runnable, a dial has a timeout, files are read, and Send*)
(* has bounded attempts and timeouts.  Each goroutine has few steps, so it *)
(* is enough that the cycle as a whole does not stand still.               *)
CycleFairSpec ==
  CycleSpec /\ WF_cycleVars(Scanning \/ Reading \/ Post \/ SendReturns)

----------------------------------------------------------------------------
(* What a cycle reports is all that its two parts found, and when they     *)
(* found something it is never silently kept back (main.go:123-165).       *)
CycleReportsAll ==
  phase \in {"sent", "ok", "error"} =>
    /\ {a.cert : a \in assets} = shown
    /\ enabled.store => StoreReturns
    /\ IF posted = <<>> THEN shown = {} /\ stored = {}
       ELSE posted = <<assets, stored>>

(* A cycle ends (scanner.go:286-296, 69-84), also with a network that goes *)
(* up to the last of all addresses, and with a configured concurrency of 0,*)
(* which without config.go:82-84 would be a semaphore nothing can enter.   *)
CycleEnds == <>(phase \in {"ok", "error"})
=============================================================================
