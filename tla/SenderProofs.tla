---------------------------- MODULE SenderProofs ----------------------------
(***************************************************************************)
(* Proofs about Sender, for any finite set of batches.                     *)
(***************************************************************************)
EXTENDS Sender, FiniteSetTheorems, TLAPS

----------------------------------------------------------------------------
(* The inductive invariant.                                                *)

(* The running call is the one whose outcome is open.                      *)
CallInv ==
  /\ call = "idle" => current = {}
  /\ \A b \in current : current = {b}
  /\ \A b \in Batches : outcome[b] = "sending" <=> b \in current

(* The back-off has doubled once per retry, and the sleeps of the call sum *)
(* up to backoff - initialBackoff.                                         *)
ClockInv ==
  /\ \/ attempt = 1 /\ backoff = 2
     \/ attempt = 2 /\ backoff = 4
     \/ attempt = 3 /\ backoff = 8
  /\ call = "sleeping" => attempt < maxAttempts
  /\ elapsed >= backoff - initialBackoff
  /\ elapsed <= backoff - initialBackoff + clientTimeout * attempt
  /\ call = "posting" =>
       elapsed <= backoff - initialBackoff + clientTimeout * (attempt - 1)

(* Requests, answers and ingestions come from attempts that were made, and *)
(* a request is processed once.                                            *)
Made(b, a) ==
  /\ outcome[b] # "none"
  /\ b \in current => a <= attempt

RequestInv ==
  /\ \A r \in requests : /\ Made(r.batch, r.attempt)
                         /\ r.attempt \notin ingested[r.batch]
  /\ \A b \in Batches : \A a \in ingested[b] : Made(b, a)

AnswerInv ==
  \A r \in answers : r.status = "2xx" => ingested[r.batch] # {}

IndInv ==
  /\ TypeOK /\ CallInv /\ ClockInv /\ RequestInv /\ AnswerInv
  /\ SuccessIsIngested

----------------------------------------------------------------------------
(* The invariant holds at the start.                                       *)
LEMMA InitEstablishes == Init => IndInv
<1> SUFFICES ASSUME Init PROVE IndInv
  OBVIOUS
<1> USE DEF Init
<1>1. TypeOK
  BY DEF TypeOK, Attempts, maxAttempts, initialBackoff
<1>2. ClockInv
  BY DEF ClockInv, maxAttempts, initialBackoff, clientTimeout
<1>3. CallInv /\ RequestInv /\ AnswerInv /\ SuccessIsIngested
  BY DEF CallInv, RequestInv, AnswerInv, SuccessIsIngested
<1> QED
  BY <1>1, <1>2, <1>3 DEF IndInv

(* A new call is the first for its batch: nothing of it is under way.      *)
LEMMA SendStep ==
  ASSUME IndInv, NEW b \in Batches, Send(b) PROVE IndInv'
<1> USE DEF IndInv, TypeOK, Send, Attempts, Requests, maxAttempts
<1>1. TypeOK' /\ CallInv'
  <2>1. TypeOK'
    BY DEF initialBackoff
  <2>2. CallInv'
    BY DEF CallInv
  <2> QED
    BY <2>1, <2>2
<1>2. ClockInv'
  BY DEF ClockInv, initialBackoff, clientTimeout
<1>3. RequestInv'
  <2>1. ingested[b] = {} /\ \A r \in requests : r.batch # b
    BY DEF RequestInv, Made
  <2> QED
    BY <2>1 DEF RequestInv, Made, CallInv
<1>4. AnswerInv' /\ SuccessIsIngested'
  BY DEF AnswerInv, SuccessIsIngested
<1> QED
  BY <1>1, <1>2, <1>3, <1>4

(* A 2xx answer was sent by a server that took the batch.                  *)
LEMMA SucceedsStep ==
  ASSUME IndInv, NEW b \in Batches, NEW seconds \in {0, clientTimeout},
         Succeeds(b, seconds)
  PROVE  IndInv'
<1> USE DEF IndInv, TypeOK, Succeeds, Attempts, Requests, maxAttempts
<1>1. TypeOK' /\ CallInv'
  BY DEF CallInv, clientTimeout, Answers
<1>2. ClockInv'
  BY DEF ClockInv, initialBackoff, clientTimeout
<1>3. RequestInv'
  BY DEF RequestInv, Made
<1>4. AnswerInv' /\ SuccessIsIngested'
  BY DEF AnswerInv, SuccessIsIngested
<1> QED
  BY <1>1, <1>2, <1>3, <1>4

(* A failed attempt costs at most the client timeout.                      *)
LEMMA AttemptFailsStep ==
  ASSUME IndInv, NEW b \in Batches, NEW seconds \in {0, clientTimeout},
         AttemptFails(b, seconds)
  PROVE  IndInv'
<1> USE DEF IndInv, TypeOK, AttemptFails, Attempts, Requests, maxAttempts,
        netVars
<1>1. TypeOK' /\ CallInv'
  BY DEF CallInv, clientTimeout
<1>2. ClockInv'
  BY DEF ClockInv, initialBackoff, clientTimeout
<1>3. RequestInv'
  BY DEF RequestInv, Made
<1>4. AnswerInv' /\ SuccessIsIngested'
  BY DEF AnswerInv, SuccessIsIngested
<1> QED
  BY <1>1, <1>2, <1>3, <1>4

(* A retry is a new attempt, which the server has not seen.                *)
LEMMA RetriesStep ==
  ASSUME IndInv, NEW b \in Batches, Retries(b) PROVE IndInv'
<1> USE DEF IndInv, TypeOK, Retries, Attempts, Requests, maxAttempts
<1>1. TypeOK' /\ CallInv'
  BY DEF CallInv, ClockInv
<1>2. ClockInv'
  BY DEF ClockInv, initialBackoff, clientTimeout
<1>3. RequestInv'
  <2>1. outcome[b] = "sending" /\ b \in current /\ b \in current'
    BY DEF CallInv
  <2>2. attempt + 1 \notin ingested[b]
    BY <2>1 DEF RequestInv, Made
  <2> QED
    BY <2>1, <2>2 DEF RequestInv, Made
<1>4. AnswerInv' /\ SuccessIsIngested'
  BY DEF AnswerInv, SuccessIsIngested
<1> QED
  BY <1>1, <1>2, <1>3, <1>4

(* The server processes a request once.                                    *)
LEMMA ServerStep ==
  ASSUME IndInv, NEW r \in requests, NEW takes \in BOOLEAN,
         NEW status \in {"2xx", "other"}, ServerAnswers(r, takes, status)
  PROVE  IndInv'
<1> USE DEF IndInv, TypeOK, ServerAnswers, Attempts, Requests, maxAttempts,
        callVars
<1>1. TypeOK' /\ CallInv' /\ ClockInv'
  BY DEF CallInv, ClockInv, Answers
<1>2. RequestInv'
  BY DEF RequestInv, Made
<1>3. AnswerInv' /\ SuccessIsIngested'
  BY DEF AnswerInv, SuccessIsIngested, Answers
<1> QED
  BY <1>1, <1>2, <1>3

(* Losing a request, or nothing, changes no part of the invariant.         *)
LEMMA OtherSteps ==
  ASSUME IndInv,
         UNCHANGED vars \/ AllSent \/ \E r \in requests : NetworkLoses(r)
  PROVE  IndInv'
BY DEF IndInv, TypeOK, CallInv, ClockInv, RequestInv, Made, AnswerInv,
       SuccessIsIngested, AllSent, NetworkLoses, vars, callVars, netVars

(* The invariant is inductive.                                             *)
LEMMA Inductive == IndInv /\ [Next]_vars => IndInv'
BY SendStep, SucceedsStep, AttemptFailsStep, RetriesStep, ServerStep,
   OtherSteps DEF Next, ClientStep

(* The invariant holds in every state.                                     *)
THEOREM Invariance == Spec => []IndInv
BY InitEstablishes, Inductive, PTL DEF Spec

(* The variables of the sender keep their types: in particular a call      *)
(* never makes a fourth attempt.                                           *)
THEOREM TypeInvariant == Spec => []TypeOK
<1>1. IndInv => TypeOK
  BY DEF IndInv
<1> QED
  BY <1>1, Invariance, PTL

(* Success means that the server has taken the batch.                      *)
THEOREM SuccessIsAlwaysIngested == Spec => []SuccessIsIngested
<1>1. IndInv => SuccessIsIngested
  BY DEF IndInv
<1> QED
  BY <1>1, Invariance, PTL

(* Send returns within 96 seconds.                                         *)
THEOREM CallIsAlwaysBounded == Spec => []CallIsBounded
<1>1. IndInv => CallIsBounded
  BY DEF IndInv, TypeOK, ClockInv, CallIsBounded, Attempts, maxAttempts,
         initialBackoff, clientTimeout
<1> QED
  BY <1>1, Invariance, PTL

(* No batch fails before both back-offs have passed.                       *)
THEOREM FailureTakesBackoffs == Spec => FailsOnlyAfterBackoffs
<1> DEFINE Persists == \A b \in Batches :
             outcome[b] # outcome'[b] /\ outcome'[b] = "failed"
               => elapsed' >= 3 * initialBackoff
<1>1. IndInv /\ [Next]_vars => [Persists]_vars
  <2> SUFFICES ASSUME IndInv, Next, NEW b \in Batches,
                      outcome[b] # outcome'[b], outcome'[b] = "failed"
               PROVE  elapsed' >= 3 * initialBackoff
    OBVIOUS
  <2>1. PICK c \in Batches, seconds \in {0, clientTimeout} :
             AttemptFails(c, seconds) /\ ~(attempt < maxAttempts)
    <3>1. ASSUME NEW c \in Batches PROVE ~Send(c) /\ ~Retries(c)
      BY DEF Send, Retries, IndInv, TypeOK
    <3>2. ASSUME NEW c \in Batches, NEW seconds \in {0, clientTimeout}
          PROVE ~Succeeds(c, seconds)
      BY DEF Succeeds, IndInv, TypeOK
    <3>3. ASSUME NEW r \in requests
          PROVE ~NetworkLoses(r) /\ \A takes, status :
                                      ~ServerAnswers(r, takes, status)
      BY DEF NetworkLoses, ServerAnswers
    <3>4. ~AllSent
      BY DEF AllSent, vars
    <3> QED
      BY <3>1, <3>2, <3>3, <3>4 DEF Next, ClientStep, AttemptFails
  <2>2. attempt = 3
    BY <2>1 DEF IndInv, TypeOK, Attempts, maxAttempts
  <2> QED
    BY <2>1, <2>2 DEF AttemptFails, IndInv, TypeOK, ClockInv, initialBackoff,
                clientTimeout
<1> QED
  BY <1>1, Invariance, PTL DEF Spec, FailsOnlyAfterBackoffs
----------------------------------------------------------------------------
(* There are maxAttempts attempts.                                         *)
LEMMA ThreeAttempts ==
  IsFiniteSet(Attempts) /\ Cardinality(Attempts) = maxAttempts
<1>1. 1 \in Int /\ 3 \in Int /\ ~(1 > 3) /\ 3 - 1 + 1 = 3
  OBVIOUS
<1>2. IsFiniteSet(1 .. 3) /\ Cardinality(1 .. 3) = 3 - 1 + 1
  BY <1>1, FS_Interval, Zenon
<1> QED
  BY <1>1, <1>2 DEF Attempts, maxAttempts

(* How often the server has taken a batch.                                 *)
LEMMA CopiesOfABatch ==
  ASSUME TypeOK, NEW b \in Batches
  PROVE  /\ IsFiniteSet(ingested[b])
         /\ Cardinality(ingested[b]) \in 0 .. maxAttempts
         /\ ingested[b] # {} => Cardinality(ingested[b]) > 0
<1>1. IsFiniteSet(Attempts) /\ Cardinality(Attempts) = maxAttempts
  BY ThreeAttempts
<1>2. ingested[b] \in SUBSET Attempts
  BY DEF TypeOK
<1>3. /\ IsFiniteSet(ingested[b])
      /\ Cardinality(ingested[b]) <= Cardinality(Attempts)
  BY <1>1, <1>2, FS_Subset
<1>4. Cardinality(ingested[b]) \in Nat
  BY <1>3, FS_CardinalityType
<1> QED
  BY <1>1, <1>3, <1>4, FS_EmptySet

(* One more attempt taken is one more copy, and there is room for it.      *)
LEMMA OneMoreCopy ==
  ASSUME TypeOK, NEW b \in Batches, NEW a \in Attempts, a \notin ingested[b]
  PROVE  /\ Cardinality(ingested[b] \union {a}) = Cardinality(ingested[b]) + 1
         /\ Cardinality(ingested[b]) < maxAttempts
<1>1. Cardinality(ingested[b] \union {a}) = Cardinality(ingested[b]) + 1
  BY CopiesOfABatch, FS_AddElement
<1>2. IsFiniteSet(Attempts) /\ Cardinality(Attempts) = maxAttempts
  BY ThreeAttempts
<1>3. ingested[b] \union {a} \in SUBSET Attempts
  BY DEF TypeOK
<1>4. Cardinality(ingested[b] \union {a}) <= maxAttempts
  BY <1>2, <1>3, FS_Subset
<1>5. Cardinality(ingested[b]) \in 0 .. maxAttempts
  BY CopiesOfABatch
<1> QED
  BY <1>1, <1>4, <1>5 DEF maxAttempts

(* Every step of the sender and the network is a step that IngestPromise   *)
(* allows: the safety part of KeepsPromise, for any set of batches.        *)
THEOREM SenderImplementsPromise == Spec => Promise!SafeSpec
<1> DEFINE taken == [b \in Batches |-> Cardinality(ingested[b])]
<1>1. Init => Promise!Init
  BY FS_EmptySet DEF Init, Promise!Init
<1>2. IndInv /\ [Next]_vars => [Promise!Next]_(Promise!promiseVars)
  <2> SUFFICES ASSUME IndInv, [Next]_vars
               PROVE  [Promise!Next]_(Promise!promiseVars)
    OBVIOUS
  <2> USE DEF IndInv, Promise!promiseVars, netVars
  <2>1. ASSUME NEW b \in Batches, Send(b) PROVE Promise!Begin(b)
    BY <2>1 DEF Send, CallInv, TypeOK, Promise!Begin
  <2>2. ASSUME NEW b \in Batches, NEW seconds \in {0, clientTimeout},
               Succeeds(b, seconds)
        PROVE  Promise!Succeed(b)
    <3>1. outcome[b] = "sending"
      BY <2>2 DEF Succeeds, CallInv
    <3>2. ingested[b] # {}
      BY <2>2 DEF Succeeds, AnswerInv
    <3>3. Cardinality(ingested[b]) > 0
      BY <3>2, CopiesOfABatch
    <3> QED
      BY <2>2, <3>1, <3>3 DEF Succeeds, Promise!Succeed
  <2>3. ASSUME NEW b \in Batches, NEW seconds \in {0, clientTimeout},
               AttemptFails(b, seconds)
        PROVE  Promise!Fail(b) \/ UNCHANGED Promise!promiseVars
    BY <2>3 DEF AttemptFails, CallInv, Promise!Fail
  <2>4. ASSUME NEW b \in Batches, Retries(b)
        PROVE  UNCHANGED Promise!promiseVars
    BY <2>4 DEF Retries
  <2>5. ASSUME NEW r \in requests, NEW takes \in BOOLEAN,
               NEW status \in {"2xx", "other"},
               ServerAnswers(r, takes, status)
        PROVE  Promise!TakenByServer(r.batch) \/ UNCHANGED Promise!promiseVars
    <3>1. r.batch \in Batches /\ r.attempt \in Attempts
      BY DEF TypeOK, Requests
    <3>2. r.attempt \notin ingested[r.batch] /\ outcome[r.batch] # "none"
      BY DEF RequestInv, Made
    <3>3. /\ Cardinality(ingested[r.batch] \union {r.attempt})
                = Cardinality(ingested[r.batch]) + 1
          /\ Cardinality(ingested[r.batch]) < maxAttempts
      BY <3>1, <3>2, OneMoreCopy
    <3>4. CASE takes
      <4>1. ingested' =
              [ingested EXCEPT ![r.batch] = @ \union {r.attempt}]
        BY <2>5, <3>4 DEF ServerAnswers
      <4>2. taken' = [taken EXCEPT ![r.batch] = @ + 1]
        BY <3>1, <3>3, <4>1 DEF TypeOK
      <4> QED
        BY <2>5, <3>1, <3>2, <3>3, <4>2 DEF ServerAnswers, Promise!TakenByServer
    <3>5. CASE ~takes
      BY <2>5, <3>5 DEF ServerAnswers
    <3> QED
      BY <3>4, <3>5
  <2>6. CASE \E r \in requests : NetworkLoses(r)
    BY <2>6 DEF NetworkLoses
  <2>7. CASE AllSent \/ UNCHANGED vars
    BY <2>7 DEF AllSent, vars
  <2>8. ASSUME NEW r \in requests PROVE r.batch \in Batches
    BY DEF TypeOK, Requests
  <2> QED
    BY <2>1, <2>2, <2>3, <2>4, <2>5, <2>6, <2>7, <2>8
       DEF Next, ClientStep, Promise!Next
<1> QED
  BY <1>1, <1>2, Invariance, PTL DEF Spec, Promise!SafeSpec
=============================================================================
