--------------------------- MODULE IngestPromise ---------------------------
(***************************************************************************)
(* What a caller of sender.Send may rely on: an abstract specification of  *)
(* the delivery of batches to the ingest endpoint.  A call ends in success *)
(* or in failure.  Success means that the server has taken the batch at    *)
(* least once; failure means nothing.  The server may take a batch several *)
(* times, also after the call has ended.                                   *)
(***************************************************************************)
EXTENDS Naturals

CONSTANTS Batches, MaxCopies

VARIABLES outcome,   \* [Batches -> {"none", "sending", "ok", "failed"}]
          copies     \* [Batches -> 0 .. MaxCopies]: times taken by the server

promiseVars == <<outcome, copies>>

Init ==
  /\ outcome = [b \in Batches |-> "none"]
  /\ copies = [b \in Batches |-> 0]

Begin(b) ==
  /\ outcome[b] = "none"
  /\ \A c \in Batches : outcome[c] # "sending"
  /\ outcome' = [outcome EXCEPT ![b] = "sending"]
  /\ UNCHANGED copies

TakenByServer(b) ==
  /\ outcome[b] # "none" /\ copies[b] < MaxCopies
  /\ copies' = [copies EXCEPT ![b] = @ + 1]
  /\ UNCHANGED outcome

Succeed(b) ==
  /\ outcome[b] = "sending" /\ copies[b] > 0
  /\ outcome' = [outcome EXCEPT ![b] = "ok"]
  /\ UNCHANGED copies

Fail(b) ==
  /\ outcome[b] = "sending"
  /\ outcome' = [outcome EXCEPT ![b] = "failed"]
  /\ UNCHANGED copies

Next ==
  \E b \in Batches : Begin(b) \/ TakenByServer(b) \/ Succeed(b) \/ Fail(b)

SafeSpec == Init /\ [][Next]_promiseVars

(* A call that began ends.                                                 *)
Spec ==
  SafeSpec /\ \A b \in Batches : WF_promiseVars(Succeed(b) \/ Fail(b))
=============================================================================
