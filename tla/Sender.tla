------------------------------- MODULE Sender -------------------------------
(***************************************************************************)
(* sender/sender.go: Send posts a batch of assets to the ingest endpoint,  *)
(* up to maxAttempts times, with a client timeout for each attempt and an  *)
(* exponential back-off between them.  One caller sends batch after batch; *)
(* a batch that failed is never sent again.                                *)
(*                                                                         *)
(* The network and the server are external: a request may be lost, or be   *)
(* processed at any later time, also after the client gave up on it, and a *)
(* response may be lost.  The server takes the batch and answers 2xx, or   *)
(* answers another status, having taken it or not.                         *)
(***************************************************************************)
EXTENDS Naturals, FiniteSets

CONSTANT Batches      \* the batches the caller will send

ASSUME BatchesAssumption == IsFiniteSet(Batches)

maxAttempts    == 3
initialBackoff == 2
clientTimeout  == 30

VARIABLES
  call,      \* where the caller is: "idle", "posting" or "sleeping"
  current,   \* {} or the batch of the running call
  attempt,   \* attempt of the running call
  backoff,   \* next back-off, in seconds
  elapsed,   \* seconds since the call began
  requests,  \* [batch, attempt] under way to the server
  answers,   \* [batch, attempt, status] under way to the client
  ingested,  \* [Batches -> SUBSET attempts]: what the server has taken
  outcome    \* [Batches -> ..]: what Send returned

callVars == <<call, current, attempt, backoff, elapsed>>
netVars  == <<requests, answers, ingested>>
vars == <<callVars, netVars, outcome>>

Attempts == 1 .. maxAttempts
Requests == [batch : Batches, attempt : Attempts]
Answers  == [batch : Batches, attempt : Attempts, status : {"2xx", "other"}]

TypeOK ==
  /\ call \in {"idle", "posting", "sleeping"}
  /\ current \in SUBSET Batches
  /\ attempt \in Attempts
  /\ backoff \in Nat
  /\ elapsed \in Nat
  /\ requests \in SUBSET Requests
  /\ answers \in SUBSET Answers
  /\ ingested \in [Batches -> SUBSET Attempts]
  /\ outcome \in [Batches -> {"none", "sending", "ok", "failed"}]

Init ==
  /\ call = "idle" /\ current = {}
  /\ attempt = 1 /\ backoff = initialBackoff /\ elapsed = 0
  /\ requests = {} /\ answers = {}
  /\ ingested = [b \in Batches |-> {}]
  /\ outcome = [b \in Batches |-> "none"]

----------------------------------------------------------------------------
(* Mutant: a batch that failed is sent again.                              *)
SendAgain(b) ==
  /\ call = "idle" /\ outcome[b] \in {"none", "failed"}
  /\ call' = "posting" /\ current' = {b}
  /\ attempt' = 1 /\ backoff' = initialBackoff /\ elapsed' = 0
  /\ requests' = requests \union {[batch |-> b, attempt |-> 1]}
  /\ outcome' = [outcome EXCEPT ![b] = "sending"]
  /\ UNCHANGED <<answers, ingested>>

(* The first attempt: client.Do writes the request.                        *)
Send(b) ==
  /\ call = "idle" /\ outcome[b] = "none"
  /\ call' = "posting" /\ current' = {b}
  /\ attempt' = 1 /\ backoff' = initialBackoff /\ elapsed' = 0
  /\ requests' = requests \union {[batch |-> b, attempt |-> 1]}
  /\ outcome' = [outcome EXCEPT ![b] = "sending"]
  /\ UNCHANGED <<answers, ingested>>

(* Mutant: any answer is a success.                                        *)
SucceedsAlways(b, seconds) ==
  /\ call = "posting" /\ b \in current
  /\ \E r \in answers : r.batch = b /\ r.attempt = attempt
  /\ call' = "idle" /\ current' = {}
  /\ elapsed' = elapsed + seconds
  /\ outcome' = [outcome EXCEPT ![b] = "ok"]
  /\ UNCHANGED <<attempt, backoff, netVars>>

(* An answer of status 2xx, its body readable or not, ends the call.       *)
Succeeds(b, seconds) ==
  /\ call = "posting" /\ b \in current
  /\ [batch |-> b, attempt |-> attempt, status |-> "2xx"] \in answers
  /\ call' = "idle" /\ current' = {}
  /\ elapsed' = elapsed + seconds
  /\ answers' = answers \ {[batch |-> b, attempt |-> attempt, status |-> "2xx"]}
  /\ outcome' = [outcome EXCEPT ![b] = "ok"]
  /\ UNCHANGED <<attempt, backoff, requests, ingested>>

(* Mutant: one attempt too few.                                            *)
AttemptFailsEarly(b, seconds) ==
  /\ call = "posting" /\ b \in current
  /\ elapsed' = elapsed + seconds
  /\ IF attempt < maxAttempts - 1
       THEN /\ call' = "sleeping"
            /\ UNCHANGED <<current, outcome>>
       ELSE /\ call' = "idle" /\ current' = {}
            /\ outcome' = [outcome EXCEPT ![b] = "failed"]
  /\ UNCHANGED <<attempt, backoff, netVars>>

(* The attempt fails: another status, no connection, or the client timeout *)
(* with the request or its answer still under way or lost.  After the last *)
(* attempt Send returns its error, otherwise it sleeps.                    *)
AttemptFails(b, seconds) ==
  /\ call = "posting" /\ b \in current
  /\ elapsed' = elapsed + seconds
  /\ IF attempt < maxAttempts
       THEN /\ call' = "sleeping"
            /\ UNCHANGED <<current, outcome>>
       ELSE /\ call' = "idle" /\ current' = {}
            /\ outcome' = [outcome EXCEPT ![b] = "failed"]
  /\ UNCHANGED <<attempt, backoff, netVars>>

(* Mutant: the back-off grows before the sleep.                            *)
RetriesDoubledFirst(b) ==
  /\ call = "sleeping" /\ b \in current
  /\ call' = "posting"
  /\ attempt' = attempt + 1
  /\ elapsed' = elapsed + 2 * backoff
  /\ backoff' = 2 * backoff
  /\ requests' = requests \union {[batch |-> b, attempt |-> attempt + 1]}
  /\ UNCHANGED <<current, answers, ingested, outcome>>

(* time.Sleep(backoff), backoff *= 2, and the next post.                   *)
Retries(b) ==
  /\ call = "sleeping" /\ b \in current
  /\ call' = "posting"
  /\ attempt' = attempt + 1
  /\ elapsed' = elapsed + backoff
  /\ backoff' = 2 * backoff
  /\ requests' = requests \union {[batch |-> b, attempt |-> attempt + 1]}
  /\ UNCHANGED <<current, answers, ingested, outcome>>

----------------------------------------------------------------------------
(* The server, at any time: takes the batch or not, and answers.           *)
ServerAnswers(r, takes, status) ==
  /\ r \in requests
  /\ status = "2xx" => takes
  /\ requests' = requests \ {r}
  /\ answers' = answers \union
       {[batch |-> r.batch, attempt |-> r.attempt, status |-> status]}
  /\ ingested' = IF takes
       THEN [ingested EXCEPT ![r.batch] = @ \union {r.attempt}] ELSE ingested
  /\ UNCHANGED <<callVars, outcome>>

NetworkLoses(r) ==
  /\ r \in requests
  /\ requests' = requests \ {r}
  /\ UNCHANGED <<callVars, answers, ingested, outcome>>

(* Every batch was sent and nothing is under way.                          *)
AllSent ==
  /\ call = "idle" /\ requests = {}
  /\ \A b \in Batches : outcome[b] # "none"
  /\ UNCHANGED vars

ClientStep(b) ==
  \/ \E seconds \in {0, clientTimeout} :
       Succeeds(b, seconds) \/ AttemptFails(b, seconds)
  \/ Retries(b)

Next ==
  \/ \E b \in Batches : Send(b) \/ ClientStep(b)
  \/ \E r \in requests :
       \/ \E takes \in BOOLEAN, status \in {"2xx", "other"} :
            ServerAnswers(r, takes, status)
       \/ NetworkLoses(r)
  \/ AllSent

Spec == Init /\ [][Next]_vars

(* The client times out and wakes from its sleeps; nothing is assumed of   *)
(* the network, of the server or of the caller.                            *)
FairSpec == Spec /\ \A b \in Batches : WF_vars(ClientStep(b))

----------------------------------------------------------------------------
(* When Send reports success the server has taken the batch, whatever was  *)
(* lost, delayed or retried before (sender.go:49-60).                      *)
SuccessIsIngested == \A b \in Batches : outcome[b] = "ok" => ingested[b] # {}

(* Send reports failure only after both back-offs: a server that is away   *)
(* for six seconds does not cost a batch, whichever way the attempts fail. *)
FailsOnlyAfterBackoffs ==
  [][\A b \in Batches :
       outcome[b] # outcome'[b] /\ outcome'[b] = "failed"
         => elapsed' >= 3 * initialBackoff]_vars

(* A call takes at most three client timeouts and the back-offs of 2 s and *)
(* 4 s: the sniffer's capture loop is blocked no longer than 96 seconds.   *)
CallIsBounded == elapsed <= maxAttempts * clientTimeout + 3 * initialBackoff

(* Send does what IngestPromise says.                                      *)
Promise == INSTANCE IngestPromise
             WITH MaxCopies <- maxAttempts,
                  copies <- [b \in Batches |-> Cardinality(ingested[b])]
KeepsPromise == Promise!Spec
=============================================================================
