-------------------------- MODULE DestinationRuntime --------------------------
(***************************************************************************)
(* What the deliveries to one destination share: its circuit breaker and   *)
(* its rate limiter, two records each under a version of its own.          *)
(*                                                                         *)
(* A worker is a run of DeliveryService.deliver (packages/application)     *)
(* from its lease on: the circuit's permit, the rate's permit, the call,   *)
(* the finalization.  finalizeAttempt puts the circuit's next record in    *)
(* the delivery's own transaction, on the condition that nobody has        *)
(* changed the circuit since the permit.  DeliveryWorker models the rest   *)
(* of deliver(); of a delivery, what it proves is used here: one worker    *)
(* at a time holds it, and an abandoned one is recovered.                  *)
(***************************************************************************)
EXTENDS Naturals, Sequences, FiniteSets

CONSTANTS
    Workers,
    Deliveries,     \* deliveries to the destination
    Threshold,      \* circuitBreakerPolicy.failureThreshold
    Interval,       \* rateLimitPolicy: Requests (times the safety factor) in
    Requests,       \*   each Interval,
    Burst,          \*   burstCapacity
    MaxAttempts,    \* delivery.maxAttempts
    MaxTries,       \* tries of a permit's conditional write (8)
    Answers,        \* what the partner may answer
    MaxTime,        \* bound on the clock
    MaxFaults,      \* bound on crashes, lost writes, leases lost to slowness
    NoWorker, NoDelivery

ASSUME NullAssumption == NoWorker \notin Workers /\ NoDelivery \notin Deliveries
ASSUME PolicyAssumption ==
    /\ Threshold \in Nat \ {0}
    /\ Interval \in Nat \ {0}
    /\ Requests \in Nat \ {0}
    /\ Burst \in Nat \ {0}
ASSUME AttemptsAssumption == MaxAttempts \in Nat \ {0} /\ MaxTries \in Nat \ {0}
ASSUME EnvironmentAssumption ==
    /\ Answers \subseteq {"success", "failure", "uncounted", "terminal"}
    /\ MaxTime \in Nat
    /\ MaxFaults \in Nat

VARIABLES
    circuit,        \* the CIRCUIT_RUNTIME item; version 0: not stored yet
    passed,         \* circuit.until has passed
    bucket,         \* the RATE_LIMIT_RUNTIME item; version 0: not stored yet
    time,
    grants,         \* the instants rate permits were granted for (history)
    stage,          \* delivery -> its state
    attempts,       \* delivery -> its attemptCount
    holder,         \* delivery -> the worker holding its lease
    pc, job,        \* worker -> next step, delivery
    since,          \* worker -> deliver()'s now
    ripe,           \* worker -> the circuit's instant, if past by then
    permit, probe,  \* worker -> the circuit as permitted, whether as a probe
    level,          \* worker -> the bucket as read
    tries, answer,
    faults

circuitVars == <<circuit, passed>>
rateVars == <<bucket, grants>>
deliveries == <<stage, attempts, holder>>
snapshots == <<since, ripe, permit, probe, level, answer>>
worker == <<pc, job, tries, snapshots>>
vars == <<circuitVars, rateVars, time, deliveries, worker, faults>>

-------------------------------------------------------------------------------
CircuitState == {"CLOSED", "OPEN", "HALF_OPEN"}

(* until is nextProbeAt of an open circuit, probeLeaseExpiresAt of a         *)
(* half-open one: an instant, named by the version that set it.              *)
Circuit == [state : CircuitState, failures : Nat, until : Nat, version : Nat]
NoInstant == 0
FreshCircuit ==
    [state |-> "CLOSED", failures |-> 0, until |-> NoInstant, version |-> 0]

Bucket == [arrival : Nat, version : Nat]
FreshBucket == [arrival |-> 0, version |-> 0]

Ended == {"succeeded", "failed_terminal", "dead_lettered"}
Stage == {"waiting", "leased", "rate_limited"} \cup Ended
Step ==
    {"idle", "circuit", "probe", "rate", "grant", "call", "finalize",
     "defer", "limit"}

Init ==
    /\ circuit = FreshCircuit
    /\ passed = FALSE
    /\ bucket = FreshBucket
    /\ time = 0
    /\ grants = <<>>
    /\ stage = [d \in Deliveries |-> "waiting"]
    /\ attempts = [d \in Deliveries |-> 0]
    /\ holder = [d \in Deliveries |-> NoWorker]
    /\ pc = [w \in Workers |-> "idle"]
    /\ job = [w \in Workers |-> NoDelivery]
    /\ since = [w \in Workers |-> 0]
    /\ ripe = [w \in Workers |-> NoInstant]
    /\ permit = [w \in Workers |-> FreshCircuit]
    /\ probe = [w \in Workers |-> FALSE]
    /\ level = [w \in Workers |-> FreshBucket]
    /\ tries = [w \in Workers |-> 0]
    /\ answer = [w \in Workers |-> "none"]
    /\ faults = 0

-------------------------------------------------------------------------------
Fault == faults < MaxFaults /\ faults' = faults + 1

Goto(w, step) ==
    pc' = [pc EXCEPT ![w] = step] /\ tries' = [tries EXCEPT ![w] = 0]

(* What deliver() does not look at again once it has its permits.            *)
Forget(w) ==
    /\ since' = [since EXCEPT ![w] = 0]
    /\ ripe' = [ripe EXCEPT ![w] = NoInstant]
    /\ level' = [level EXCEPT ![w] = FreshBucket]

(* deliver() is over.                                                        *)
End(w) ==
    /\ Goto(w, "idle")
    /\ Forget(w)
    /\ job' = [job EXCEPT ![w] = NoDelivery]
    /\ permit' = [permit EXCEPT ![w] = FreshCircuit]
    /\ probe' = [probe EXCEPT ![w] = FALSE]
    /\ answer' = [answer EXCEPT ![w] = "none"]

Holds(w) == holder[job[w]] = w

(* deliver() throws or dies: its delivery stays leased until it is recovered. *)
Abandon(w) ==
    /\ holder' = [d \in Deliveries |-> IF holder[d] = w THEN NoWorker ELSE holder[d]]
    /\ UNCHANGED <<stage, attempts>>
    /\ End(w)

(* A conditional write that fails is tried again from the read.              *)
Retry(w, from, givenUp) ==
    IF tries[w] + 1 < MaxTries
    THEN /\ pc' = [pc EXCEPT ![w] = from]
         /\ tries' = [tries EXCEPT ![w] = @ + 1]
    ELSE Goto(w, givenUp)

-------------------------------------------------------------------------------
(* A worker leases a delivery.  A rate_limited one is never leased again:    *)
(* DeferredResumes of DeliveryProperties shows why.                          *)
Begin(w, d) ==
    /\ pc[w] = "idle"
    /\ stage[d] = "waiting"
    /\ stage' = [stage EXCEPT ![d] = "leased"]
    /\ holder' = [holder EXCEPT ![d] = w]
    /\ Goto(w, "circuit")
    /\ job' = [job EXCEPT ![w] = d]
    /\ since' = [since EXCEPT ![w] = time]
    /\ ripe' = [ripe EXCEPT ![w] = IF passed THEN circuit.until ELSE NoInstant]
    /\ UNCHANGED <<circuitVars, rateVars, time, attempts, permit, probe, level,
                   answer, faults>>

-------------------------------------------------------------------------------
(* acquireCircuitPermit.                                                     *)

(* Mutant: the lease of a half-open circuit's probe never expires.           *)
BugMayProbe(w) == circuit.state = "OPEN" /\ passed

(* The cooldown, or the lease of the last probe, is over.                    *)
MayProbe(w) == circuit.state # "CLOSED" /\ passed

(* A worker compares with the clock as it was when it began: after that      *)
(* moment, it sees it passed.  Before, it may see either, because a slow     *)
(* prober reckons its lease from a clock as old.                             *)
MustWait(w) ==
    /\ circuit.state # "CLOSED"
    /\ ~MayProbe(w) \/ ripe[w] # circuit.until

ReadCircuit(w) ==
    /\ pc[w] = "circuit"
    /\ \/ /\ circuit.state = "CLOSED"
          /\ permit' = [permit EXCEPT ![w] = circuit]
          /\ Goto(w, "rate")
       \/ /\ MayProbe(w)
          /\ permit' = [permit EXCEPT ![w] = circuit]
          /\ pc' = [pc EXCEPT ![w] = "probe"]
          /\ UNCHANGED tries
       \/ MustWait(w) /\ Goto(w, "defer") /\ UNCHANGED permit
    /\ UNCHANGED <<circuitVars, rateVars, time, deliveries, job, since, ripe, probe,
                   level, answer, faults>>

(* Mutant: the circuit is put without its version condition.                 *)
BugCurrent(w) == TRUE

(* Nobody has changed the circuit since the worker read it.                  *)
Current(w) == permit[w].version = circuit.version

HalfOpened(c) ==
    [c EXCEPT !.state = "HALF_OPEN", !.until = c.version + 1, !.version = @ + 1]

AcquireProbe(w) ==
    /\ pc[w] = "probe"
    /\ \/ /\ Current(w)
          /\ circuit' = HalfOpened(permit[w])
          /\ passed' = FALSE
          /\ permit' = [permit EXCEPT ![w] = circuit']
          /\ probe' = [probe EXCEPT ![w] = TRUE]
          /\ Goto(w, "rate")
          /\ UNCHANGED faults
       \/ /\ \/ ~Current(w) /\ UNCHANGED faults
             \/ Current(w) /\ Fault
          /\ Retry(w, "circuit", "defer")
          /\ UNCHANGED <<circuitVars, permit, probe>>
    /\ UNCHANGED <<rateVars, time, deliveries, job, since, ripe, level, answer>>

-------------------------------------------------------------------------------
(* acquireRatePermit, rateLimitDecision.  Instants are whole milliseconds,   *)
(* so rounding their sum with the increment up rounds the increment up.      *)

CeilDiv(a, b) == (a + b - 1) \div b
Increment == CeilDiv(Interval, Requests)
Tolerance == (Interval * (Burst - 1)) \div Requests
Later(s, t) == IF s > t THEN s ELSE t

(* The theoretical arrival time, which is now if nothing is stored yet.      *)
Arrival(b, now) == IF b.version = 0 THEN now ELSE b.arrival

Permitted(b, now) == now + Tolerance >= Arrival(b, now)

(* Mutant: the next arrival is reckoned from the clock alone.                *)
BugDrawn(b, now) == [arrival |-> now + Increment, version |-> b.version + 1]

Drawn(b, now) ==
    [arrival |-> Later(now, Arrival(b, now)) + Increment, version |-> b.version + 1]

ReadBucket(w) ==
    /\ pc[w] = "rate"
    /\ level' = [level EXCEPT ![w] = bucket]
    /\ IF Permitted(bucket, since[w])
       THEN pc' = [pc EXCEPT ![w] = "grant"] /\ UNCHANGED tries
       ELSE Goto(w, "limit")
    /\ UNCHANGED <<circuitVars, rateVars, time, deliveries, job, since, ripe, permit,
                   probe, answer, faults>>

Grant(w) ==
    /\ pc[w] = "grant"
    /\ \/ /\ level[w].version = bucket.version
          /\ bucket' = Drawn(level[w], since[w])
          /\ grants' = Append(grants, since[w])
          /\ Goto(w, "call")
          /\ Forget(w)
          /\ UNCHANGED faults
       \/ /\ \/ level[w].version # bucket.version /\ UNCHANGED faults
             \/ level[w].version = bucket.version /\ Fault
          /\ Retry(w, "rate", "limit")
          /\ UNCHANGED <<rateVars, since, ripe, level>>
    /\ UNCHANGED <<circuitVars, time, deliveries, job, permit, probe, answer>>

(* defer(): a worker that has lost its lease changes nothing.  A probe's     *)
(* permit is not given back.                                                 *)
Defer(w) ==
    /\ pc[w] \in {"defer", "limit"}
    /\ \/ /\ Holds(w)
          /\ stage' = [stage EXCEPT ![job[w]] =
                          IF pc[w] = "limit" THEN "rate_limited" ELSE "waiting"]
          /\ holder' = [holder EXCEPT ![job[w]] = NoWorker]
       \/ ~Holds(w) /\ UNCHANGED <<stage, holder>>
    /\ End(w)
    /\ UNCHANGED <<circuitVars, rateVars, time, attempts, faults>>

-------------------------------------------------------------------------------
(* startAttempt and the partner call.                                        *)
Call(w) ==
    /\ pc[w] = "call"
    /\ \/ /\ Holds(w)
          /\ attempts' = [attempts EXCEPT ![job[w]] = @ + 1]
          /\ \E a \in Answers : answer' = [answer EXCEPT ![w] = a]
          /\ Goto(w, "finalize")
          /\ UNCHANGED <<job, since, ripe, permit, probe, level>>
       \/ ~Holds(w) /\ End(w) /\ UNCHANGED attempts
    /\ UNCHANGED <<circuitVars, rateVars, time, stage, holder, faults>>

Opened(c) ==
    [state |-> "OPEN", failures |-> c.failures + 1, until |-> c.version + 1,
     version |-> c.version + 1]
Closed(c, failures) ==
    [state |-> "CLOSED", failures |-> failures, until |-> NoInstant,
     version |-> c.version + 1]

(* Mutant: the circuit opens one failure late.                               *)
BugOpens(c, asProbe) == asProbe \/ c.failures >= Threshold

Opens(c, asProbe) == asProbe \/ c.failures + 1 >= Threshold

(* circuitAfterAttempt.  Timeouts, connection errors and most 5xx count      *)
(* (failure); 408, 425, 429 (uncounted) and terminal answers do not.         *)
CircuitAfterAttempt(c, a, asProbe) ==
    CASE a = "success"                        -> Closed(c, 0)
      [] a \in {"uncounted", "terminal"}      -> [c EXCEPT !.version = @ + 1]
      [] a = "failure" /\ Opens(c, asProbe)   -> Opened(c)
      [] a = "failure" /\ ~Opens(c, asProbe)  -> Closed(c, c.failures + 1)

(* Mutant: the answer is stored in place of the state.                       *)
BugStageAfter(d, a) == IF a = "failure" THEN a ELSE "succeeded"

StageAfter(d, a) ==
    CASE a = "success"  -> "succeeded"
      [] a = "terminal" -> "failed_terminal"
      [] a \in {"failure", "uncounted"} ->
            IF attempts[d] >= MaxAttempts THEN "dead_lettered" ELSE "waiting"

(* finalizeAttempt: the delivery and the circuit in one transaction.  Its    *)
(* eight tries all carry the circuit of the permit, so one that has changed  *)
(* fails them all, and deliver() throws DELIVERY_FINALIZATION_CONFLICT.      *)
Finalize(w) ==
    /\ pc[w] = "finalize"
    /\ \/ /\ Holds(w) /\ Current(w)
          /\ circuit' = CircuitAfterAttempt(permit[w], answer[w], probe[w])
          /\ passed' = (passed /\ circuit'.until = circuit.until)
          /\ stage' = [stage EXCEPT ![job[w]] = StageAfter(job[w], answer[w])]
          /\ holder' = [holder EXCEPT ![job[w]] = NoWorker]
          /\ End(w)
          /\ UNCHANGED <<attempts, faults>>
       \/ /\ \/ ~(Holds(w) /\ Current(w)) /\ UNCHANGED faults
             \/ Holds(w) /\ Current(w) /\ Fault
          /\ Abandon(w)
          /\ UNCHANGED circuitVars
    /\ UNCHANGED <<rateVars, time>>

-------------------------------------------------------------------------------
(* recoverExpired: the lease of an abandoned delivery, or of a slow worker,  *)
(* expires; its attempt is charged as a timeout, its circuit is not.         *)
Recover(d) ==
    /\ stage[d] = "leased"
    /\ \/ holder[d] = NoWorker /\ UNCHANGED faults
       \/ holder[d] # NoWorker /\ Fault
    /\ stage' = [stage EXCEPT ![d] =
                    IF attempts[d] >= MaxAttempts THEN "dead_lettered" ELSE "waiting"]
    /\ holder' = [holder EXCEPT ![d] = NoWorker]
    /\ UNCHANGED <<circuitVars, rateVars, time, attempts, worker>>

Crash(w) ==
    /\ pc[w] # "idle"
    /\ Fault
    /\ Abandon(w)
    /\ UNCHANGED <<circuitVars, rateVars, time>>

(* The clock: the circuit's instants, and the rate limiter's.                *)
InstantPasses ==
    /\ circuit.state # "CLOSED"
    /\ ~passed
    /\ passed' = TRUE
    /\ UNCHANGED <<circuit, rateVars, time, deliveries, worker, faults>>

Tick ==
    /\ time < MaxTime
    /\ time' = time + 1
    /\ UNCHANGED <<circuitVars, rateVars, deliveries, worker, faults>>

-------------------------------------------------------------------------------
Deliver(w) ==
    \/ ReadCircuit(w) \/ AcquireProbe(w) \/ ReadBucket(w) \/ Grant(w)
    \/ Defer(w) \/ Call(w) \/ Finalize(w)

Next ==
    \/ \E w \in Workers : Deliver(w) \/ Crash(w) \/ \E d \in Deliveries : Begin(w, d)
    \/ \E d \in Deliveries : Recover(d)
    \/ InstantPasses \/ Tick

Spec == Init /\ [][Next]_vars

(* A started run goes on, time passes, an abandoned delivery is recovered    *)
(* and a waiting one is taken up again (WakeUp of DeliveryProperties).       *)
Fairness ==
    /\ \A w \in Workers : WF_vars(Deliver(w))
    /\ WF_vars(InstantPasses)
    /\ \A d \in Deliveries :
          /\ WF_vars(Recover(d))
          /\ SF_vars(\E w \in Workers : Begin(w, d))

FairSpec == Spec /\ Fairness
===============================================================================
