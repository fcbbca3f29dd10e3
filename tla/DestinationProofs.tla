--------------------------- MODULE DestinationProofs ---------------------------
(***************************************************************************)
(* The safety of DestinationRuntime for every number of workers and        *)
(* deliveries and every policy.                                            *)
(***************************************************************************)
EXTENDS DestinationProperties, TLAPS

-------------------------------------------------------------------------------
(* Arithmetic of the rate limiter.                                           *)

(* What the quotient of two naturals is.                                     *)
LEMMA Division ==
    ASSUME NEW a \in Nat, NEW b \in Nat \ {0}
    PROVE  /\ a \div b \in Nat
           /\ b * (a \div b) <= a
           /\ a < b * (a \div b) + b
    BY SMT

(* A product grows with its factor.                                          *)
LEMMA Products ==
    ASSUME NEW a \in Nat, NEW b \in Nat, NEW c \in Nat, a <= b
    PROVE  c * a <= c * b
    BY SMT

(* A product of naturals is a natural.                                       *)
LEMMA ProductType ==
    ASSUME NEW a \in Nat, NEW b \in Nat
    PROVE  a * b \in Nat
    BY SMT

(* Requests increments fill the interval: rounding up only slows down.       *)
LEMMA IncrementEnough ==
    /\ Increment \in Nat
    /\ Requests * Increment >= Interval
<1> DEFINE a == Interval + Requests - 1
           q == a \div Requests
<1>1. Interval \in Nat \ {0} /\ Requests \in Nat \ {0} /\ a \in Nat
    BY PolicyAssumption
<1>2. q \in Nat /\ a < Requests * q + Requests
    BY <1>1, Division
<1>3. Requests * q \in Nat
    BY <1>1, <1>2, ProductType
<1>4. Interval <= Requests * q
    BY <1>1, <1>2, <1>3
<1> QED
    BY <1>2, <1>4 DEF Increment, CeilDiv

(* The tolerance is at most the time of the burst less one request.          *)
LEMMA ToleranceAtMost ==
    /\ Tolerance \in Nat
    /\ Requests * Tolerance <= Interval * (Burst - 1)
    /\ Interval * (Burst - 1) \in Nat
<1> DEFINE a == Interval * (Burst - 1)
<1>1. Burst - 1 \in Nat /\ Interval \in Nat /\ Requests \in Nat \ {0}
    BY PolicyAssumption
<1>2. a \in Nat
    BY <1>1, ProductType
<1> QED
    BY <1>1, <1>2, Division DEF Tolerance

-------------------------------------------------------------------------------
(* The inductive invariant.                                                  *)

InFlight == {"rate", "grant", "call", "finalize"}

(* A worker's copy of the circuit is old, or it is the stored one; who is to *)
(* become the probe has seen the instant pass; only probes carry the flag.   *)
CircuitInv ==
    /\ circuit.version = 0 => circuit = FreshCircuit
    /\ circuit.state = "CLOSED" => passed = FALSE
    /\ circuit.state # "CLOSED" => circuit.until # NoInstant
    /\ circuit.until <= circuit.version
    /\ \A w \in Workers :
          /\ permit[w].version <= circuit.version
          /\ Current(w) => permit[w] = circuit
          /\ pc[w] = "probe" /\ Current(w) => circuit.state # "CLOSED" /\ passed
          /\ probe[w] => pc[w] \in InFlight \cup {"limit"}
          /\ pc[w] = "finalize" => answer[w] \in Answers

(* The same for the bucket, whose permit a worker has not lost unless the    *)
(* bucket has changed.                                                       *)
RateInv ==
    /\ bucket.version = 0 => bucket = FreshBucket /\ grants = <<>>
    /\ \A w \in Workers :
          /\ level[w].version <= bucket.version
          /\ level[w].version = bucket.version => level[w] = bucket
          /\ pc[w] = "grant" => Permitted(level[w], since[w])

(* The stored arrival time accounts for every permit granted so far.         *)
GrantsInv ==
    /\ \A i \in 1..Len(grants) :
          grants[i] + (Len(grants) + 1 - i) * Increment <= bucket.arrival
    /\ \A i, j \in 1..Len(grants) : i <= j =>
          grants[i] + (j - i) * Increment <= grants[j] + Tolerance

Inductive == TypeOK /\ CircuitInv /\ PermitsFollowCircuit /\ RateInv /\ GrantsInv

-------------------------------------------------------------------------------
(* The initial states satisfy the invariant.                                 *)
LEMMA InitInductive == Init => Inductive
<1> SUFFICES ASSUME Init PROVE Inductive
    OBVIOUS
<1>1. TypeOK
  <2>1. FreshCircuit \in Circuit /\ FreshBucket \in Bucket
      BY DEF FreshCircuit, Circuit, CircuitState, FreshBucket, Bucket, NoInstant
  <2>2. grants \in Seq(Nat)
      BY DEF Init
  <2> QED
      BY <2>1, <2>2 DEF Init, TypeOK, Stage, Step, NoInstant
<1>2. CircuitInv
    BY DEF Init, CircuitInv, Current, FreshCircuit, InFlight, NoInstant
<1>3. PermitsFollowCircuit
    BY DEF Init, PermitsFollowCircuit, HoldsPermit
<1>4. RateInv /\ GrantsInv
    BY DEF Init, RateInv, GrantsInv, FreshBucket
<1> QED
    BY <1>1, <1>2, <1>3, <1>4 DEF Inductive

(* The rate limiter's promise, from what the stored arrival time accounts    *)
(* for: the increments between two permits are at least the policy's.        *)
LEMMA RateFollows == TypeOK /\ GrantsInv => RateRespected
<1> SUFFICES ASSUME TypeOK, GrantsInv,
                    NEW i \in 1..Len(grants), NEW j \in 1..Len(grants), i <= j
             PROVE  (j - i) * Interval + Requests * grants[i]
                        <= Requests * grants[j] + Interval * (Burst - 1)
    BY DEF RateRespected
<1> DEFINE n == j - i
           a == grants[i]
           b == grants[j]
<1>1. /\ n \in Nat /\ a \in Nat /\ b \in Nat
      /\ Interval \in Nat /\ Requests \in Nat
      /\ Increment \in Nat /\ Tolerance \in Nat
    BY PolicyAssumption, IncrementEnough, ToleranceAtMost DEF TypeOK
<1>2. a + n * Increment <= b + Tolerance
    BY DEF GrantsInv
<1>3. n * Increment \in Nat
    BY <1>1, ProductType
<1>4. Requests * (a + n * Increment) <= Requests * (b + Tolerance)
  <2>1. a + n * Increment \in Nat /\ b + Tolerance \in Nat
      BY <1>1, <1>3
  <2> QED
      BY <2>1, <1>1, <1>2, Products
<1>5. n * Interval <= n * (Requests * Increment)
  <2>1. Requests * Increment \in Nat
      BY <1>1, ProductType
  <2> QED
      BY <2>1, <1>1, IncrementEnough, Products
<1>6. /\ Requests * (a + n * Increment) = Requests * a + n * (Requests * Increment)
      /\ Requests * (b + Tolerance) = Requests * b + Requests * Tolerance
  <2> HIDE DEF n, a, b, Increment, Tolerance
  <2> QED
      BY <1>1
<1>7. /\ n * Interval \in Nat /\ n * (Requests * Increment) \in Nat
      /\ Requests * a \in Nat /\ Requests * b \in Nat
      /\ Requests * Tolerance \in Nat
    BY <1>1, ProductType
<1>8. n * Interval + Requests * a <= Requests * b + Interval * (Burst - 1)
  <2> HIDE DEF n, a, b, Increment, Tolerance
  <2> QED
      BY <1>4, <1>5, <1>6, <1>7, ToleranceAtMost
<1> QED
    BY <1>8
-------------------------------------------------------------------------------
(* The steps.                                                                *)

(* Moving a worker to a step leaves the types of what it changes.            *)
LEMMA GotoType ==
    ASSUME TypeOK, NEW w \in Workers, NEW step \in Step, Goto(w, step)
    PROVE  pc' \in [Workers -> Step] /\ tries' \in [Workers -> Nat]
    BY DEF TypeOK, Goto

(* ... also without forgetting the tries, or to try again.                   *)
LEMMA StayType ==
    ASSUME TypeOK, NEW w \in Workers, NEW step \in Step,
           pc' = [pc EXCEPT ![w] = step]
    PROVE  pc' \in [Workers -> Step]
    BY DEF TypeOK

LEMMA RetryType ==
    ASSUME TypeOK, NEW w \in Workers, NEW from \in Step, NEW givenUp \in Step,
           Retry(w, from, givenUp)
    PROVE  pc' \in [Workers -> Step] /\ tries' \in [Workers -> Nat]
<1>1. CASE tries[w] + 1 < MaxTries
  <2>1. /\ pc' = [pc EXCEPT ![w] = from]
        /\ tries' = [tries EXCEPT ![w] = @ + 1]
      BY <1>1 DEF Retry
  <2> QED
      BY <2>1, StayType DEF TypeOK
<1>2. CASE ~(tries[w] + 1 < MaxTries)
    BY <1>2, GotoType DEF Retry
<1> QED
    BY <1>1, <1>2

(* A worker leases a delivery.                                              *)
LEMMA BeginStep ==
    ASSUME Inductive, NEW w \in Workers, NEW d \in Deliveries, Begin(w, d)
    PROVE  Inductive'
<1> USE DEF Inductive
<1>1. TypeOK'
    BY DEF TypeOK, Circuit, Stage, Step, Begin, Goto, circuitVars, rateVars, NoInstant
<1>2. CircuitInv'
    BY DEF TypeOK, CircuitInv, Current, InFlight, Circuit, Begin, Goto, circuitVars
<1>3. PermitsFollowCircuit'
    BY DEF TypeOK, CircuitInv, PermitsFollowCircuit, HoldsPermit, Current, InFlight, Begin, Goto, circuitVars
<1>4. RateInv'
    BY DEF TypeOK, RateInv, Begin, Goto, rateVars
<1>5. GrantsInv'
    BY DEF GrantsInv, Begin, rateVars
<1> QED
    BY <1>1, <1>2, <1>3, <1>4, <1>5

(* A worker reads the circuit.                                              *)
LEMMA ReadCircuitStep ==
    ASSUME Inductive, NEW w \in Workers, ReadCircuit(w)
    PROVE  Inductive'
<1> USE DEF Inductive
<1>1. TypeOK'
  <2>1. /\ pc' \in [Workers -> Step] /\ tries' \in [Workers -> Nat]
        /\ permit' \in [Workers -> Circuit]
    <3>1. {"rate", "probe", "defer"} \subseteq Step
        BY DEF Step
    <3>2. CASE circuit.state = "CLOSED" /\ permit' = [permit EXCEPT ![w] = circuit]
               /\ Goto(w, "rate")
        BY <3>1, <3>2, GotoType DEF TypeOK
    <3>3. CASE permit' = [permit EXCEPT ![w] = circuit] /\ UNCHANGED tries
               /\ pc' = [pc EXCEPT ![w] = "probe"]
        BY <3>1, <3>3, StayType DEF TypeOK
    <3>4. CASE Goto(w, "defer") /\ UNCHANGED permit
        BY <3>1, <3>4, GotoType DEF TypeOK
    <3> QED
        BY <3>2, <3>3, <3>4 DEF ReadCircuit
  <2>2. UNCHANGED <<circuit, passed, bucket, grants, time, stage, attempts, holder, job,
                    since, ripe, probe, level, answer, faults>>
      BY DEF ReadCircuit, circuitVars, rateVars, deliveries
  <2> QED
      BY <2>1, <2>2 DEF TypeOK
<1>2. CircuitInv'
    BY SMTT(60) DEF TypeOK, CircuitInv, Current, InFlight, Circuit, ReadCircuit, Goto, MayProbe, circuitVars
<1>3. PermitsFollowCircuit'
    BY DEF TypeOK, CircuitInv, PermitsFollowCircuit, HoldsPermit, Current, InFlight, ReadCircuit, Goto, MayProbe, circuitVars
<1>4. RateInv'
    BY DEF TypeOK, RateInv, ReadCircuit, Goto, rateVars
<1>5. GrantsInv'
    BY DEF GrantsInv, ReadCircuit, rateVars
<1> QED
    BY <1>1, <1>2, <1>3, <1>4, <1>5

(* A worker reads the bucket.                                               *)
LEMMA ReadBucketStep ==
    ASSUME Inductive, NEW w \in Workers, ReadBucket(w)
    PROVE  Inductive'
<1> USE DEF Inductive
<1>1. TypeOK'
  <2>1. /\ pc' \in [Workers -> Step] /\ tries' \in [Workers -> Nat]
        /\ level' \in [Workers -> Bucket]
    <3>1. {"grant", "limit"} \subseteq Step
        BY DEF Step
    <3>2. level' \in [Workers -> Bucket]
        BY DEF TypeOK, ReadBucket
    <3>3. CASE pc' = [pc EXCEPT ![w] = "grant"] /\ UNCHANGED tries
        BY <3>1, <3>2, <3>3, StayType DEF TypeOK
    <3>4. CASE Goto(w, "limit")
        BY <3>1, <3>2, <3>4, GotoType
    <3> QED
        BY <3>3, <3>4 DEF ReadBucket
  <2>2. UNCHANGED <<circuit, passed, bucket, grants, time, stage, attempts, holder, job,
                    since, ripe, permit, probe, answer, faults>>
      BY DEF ReadBucket, circuitVars, rateVars, deliveries
  <2> QED
      BY <2>1, <2>2 DEF TypeOK
<1>2. CircuitInv'
    BY DEF TypeOK, CircuitInv, Current, InFlight, Circuit, ReadBucket, Goto, circuitVars
<1>3. PermitsFollowCircuit'
    BY DEF TypeOK, CircuitInv, PermitsFollowCircuit, HoldsPermit, Current, InFlight, ReadBucket, Goto, circuitVars
<1>4. RateInv'
    BY SMTT(60) DEF TypeOK, RateInv, ReadBucket, Goto, rateVars, Bucket
<1>5. GrantsInv'
    BY DEF GrantsInv, ReadBucket, rateVars
<1> QED
    BY <1>1, <1>2, <1>3, <1>4, <1>5

(* A delivery is recovered.                                                 *)
LEMMA RecoverStep ==
    ASSUME Inductive, NEW d \in Deliveries, Recover(d)
    PROVE  Inductive'
<1> USE DEF Inductive
<1>1. TypeOK'
    BY SMTT(60) DEF TypeOK, Stage, Step, Ended, Recover, Fault, circuitVars, rateVars, worker, snapshots
<1>2. CircuitInv'
    BY DEF TypeOK, CircuitInv, Current, InFlight, Circuit, Recover, circuitVars, worker, snapshots
<1>3. PermitsFollowCircuit'
    BY DEF TypeOK, CircuitInv, PermitsFollowCircuit, HoldsPermit, Current, InFlight, Recover, circuitVars, worker, snapshots
<1>4. RateInv'
    BY DEF TypeOK, RateInv, Recover, rateVars, worker, snapshots
<1>5. GrantsInv'
    BY DEF GrantsInv, Recover, rateVars
<1> QED
    BY <1>1, <1>2, <1>3, <1>4, <1>5

(* Time passes.                                                             *)
LEMMA ClockSteps ==
    ASSUME Inductive, InstantPasses \/ Tick
    PROVE  Inductive'
<1> USE DEF Inductive
<1>1. TypeOK'
  <2>1. CASE InstantPasses
      BY <2>1 DEF TypeOK, InstantPasses, rateVars, deliveries, worker, snapshots
  <2>2. CASE Tick
      BY <2>2 DEF TypeOK, Tick, circuitVars, rateVars, deliveries, worker, snapshots
  <2> QED
      BY <2>1, <2>2
<1>2. CircuitInv'
    BY DEF TypeOK, CircuitInv, Current, InFlight, Circuit, InstantPasses, Tick, circuitVars, worker, snapshots
<1>3. PermitsFollowCircuit'
    BY DEF TypeOK, CircuitInv, PermitsFollowCircuit, HoldsPermit, Current, InFlight, InstantPasses, Tick, circuitVars, worker, snapshots
<1>4. RateInv'
    BY DEF TypeOK, RateInv, InstantPasses, Tick, rateVars, worker, snapshots
<1>5. GrantsInv'
    BY DEF GrantsInv, InstantPasses, Tick, rateVars
<1> QED
    BY <1>1, <1>2, <1>3, <1>4, <1>5

(* deliver() ends: the worker forgets what it read and holds no permit.      *)
LEMMA EndType ==
    ASSUME TypeOK, NEW w \in Workers, End(w)
    PROVE  /\ pc' \in [Workers -> Step]
           /\ job' \in [Workers -> Deliveries \cup {NoDelivery}]
           /\ since' \in [Workers -> Nat]
           /\ ripe' \in [Workers -> Nat]
           /\ permit' \in [Workers -> Circuit]
           /\ probe' \in [Workers -> BOOLEAN]
           /\ level' \in [Workers -> Bucket]
           /\ tries' \in [Workers -> Nat]
           /\ answer' \in [Workers -> Answers \cup {"none"}]
<1>1. /\ "idle" \in Step /\ NoInstant \in Nat
      /\ FreshCircuit \in Circuit /\ FreshBucket \in Bucket
    BY DEF Step, NoInstant, FreshCircuit, Circuit, CircuitState, FreshBucket, Bucket
<1>2. pc' \in [Workers -> Step] /\ tries' \in [Workers -> Nat]
    BY <1>1, GotoType DEF End
<1> QED
    BY <1>1, <1>2 DEF TypeOK, End, Forget

LEMMA EndKeeps ==
    ASSUME Inductive, NEW w \in Workers, End(w), UNCHANGED <<circuitVars, rateVars>>
    PROVE  CircuitInv' /\ PermitsFollowCircuit' /\ RateInv' /\ GrantsInv'
<1> USE DEF Inductive
<1>1. /\ UNCHANGED <<circuit, passed, bucket, grants>>
      /\ pc' = [pc EXCEPT ![w] = "idle"]
      /\ permit' = [permit EXCEPT ![w] = FreshCircuit]
      /\ probe' = [probe EXCEPT ![w] = FALSE]
      /\ level' = [level EXCEPT ![w] = FreshBucket]
      /\ answer' = [answer EXCEPT ![w] = "none"]
      /\ since' = [since EXCEPT ![w] = 0]
    BY DEF End, Forget, Goto, circuitVars, rateVars
<1>2. circuit.version \in Nat /\ bucket.version \in Nat
    BY DEF TypeOK, Circuit, Bucket
<1>3. FreshCircuit.version = 0 /\ FreshBucket.version = 0
    BY DEF FreshCircuit, FreshBucket
<1>4. CircuitInv'
    BY <1>1, <1>2, <1>3 DEF TypeOK, CircuitInv, Current, InFlight
<1>5. PermitsFollowCircuit'
    BY <1>1 DEF TypeOK, PermitsFollowCircuit, HoldsPermit, Current
<1>6. RateInv'
    BY <1>1, <1>2, <1>3 DEF TypeOK, RateInv
<1>7. GrantsInv'
    BY <1>1 DEF GrantsInv
<1> QED
    BY <1>4, <1>5, <1>6, <1>7

(* A delivery is put off.                                                    *)
LEMMA DeferStep ==
    ASSUME Inductive, NEW w \in Workers, Defer(w)
    PROVE  Inductive'
<1>1. End(w) /\ UNCHANGED <<circuitVars, rateVars, time, attempts, faults>>
    BY DEF Defer
<1>2. TypeOK'
  <2>1. /\ stage' \in [Deliveries -> Stage]
        /\ holder' \in [Deliveries -> Workers \cup {NoWorker}]
    BY DEF Inductive, TypeOK, Stage, Defer
  <2>2. UNCHANGED <<circuit, passed, bucket, grants, time, attempts, faults>>
    BY <1>1 DEF circuitVars, rateVars
  <2> QED
    BY <1>1, <2>1, <2>2, EndType DEF Inductive, TypeOK
<1> QED
    BY <1>1, <1>2, EndKeeps DEF Inductive

(* A worker dies, or loses its lease.                                        *)
LEMMA CrashStep ==
    ASSUME Inductive, NEW w \in Workers, Crash(w)
    PROVE  Inductive'
<1>1. End(w) /\ UNCHANGED <<circuitVars, rateVars, time, stage, attempts>>
    BY DEF Crash, Abandon
<1>2. TypeOK'
  <2>1. /\ holder' \in [Deliveries -> Workers \cup {NoWorker}]
        /\ faults' \in Nat
    BY DEF Inductive, TypeOK, Crash, Abandon, Fault
  <2>2. UNCHANGED <<circuit, passed, bucket, grants, time, stage, attempts>>
    BY <1>1 DEF circuitVars, rateVars
  <2> QED
    BY <1>1, <2>1, <2>2, EndType DEF Inductive, TypeOK
<1> QED
    BY <1>1, <1>2, EndKeeps DEF Inductive

(* The partner is called.                                                    *)
LEMMA CallAnswered ==
    ASSUME Inductive, NEW w \in Workers, NEW a \in Answers,
           pc[w] = "call", Goto(w, "finalize"),
           answer' = [answer EXCEPT ![w] = a],
           attempts' = [attempts EXCEPT ![job[w]] = @ + 1],
           UNCHANGED <<circuit, passed, bucket, grants, time, stage, holder, job,
                       since, ripe, permit, probe, level, faults>>
    PROVE  Inductive'
<1> USE DEF Inductive
<1>1. TypeOK'
  <2>1. "finalize" \in Step
    BY DEF Step
  <2>2. pc' \in [Workers -> Step] /\ tries' \in [Workers -> Nat]
    BY <2>1, GotoType
  <2>3. attempts' \in [Deliveries -> Nat]
    <3>1. attempts \in [Deliveries -> Nat]
      BY DEF TypeOK
    <3>2. attempts' = [d \in Deliveries |->
                         IF d = job[w] THEN attempts[d] + 1 ELSE attempts[d]]
      BY <3>1
    <3>3. ASSUME NEW d \in Deliveries
          PROVE  (IF d = job[w] THEN attempts[d] + 1 ELSE attempts[d]) \in Nat
      <4>1. attempts[d] \in Nat
        BY <3>1
      <4> QED
        BY <4>1
    <3> QED
      BY <3>2, <3>3
  <2>4. answer' \in [Workers -> Answers \cup {"none"}]
    BY DEF TypeOK
  <2> QED
    BY <2>2, <2>3, <2>4 DEF TypeOK
<1>2. CircuitInv'
    BY DEF TypeOK, CircuitInv, Current, InFlight, Goto
<1>3. PermitsFollowCircuit'
    BY DEF TypeOK, PermitsFollowCircuit, HoldsPermit, Current, Goto
<1>4. RateInv'
    BY DEF TypeOK, RateInv, Goto
<1>5. GrantsInv'
    BY DEF GrantsInv
<1> QED
    BY <1>1, <1>2, <1>3, <1>4, <1>5

LEMMA CallStep ==
    ASSUME Inductive, NEW w \in Workers, Call(w)
    PROVE  Inductive'
<1>1. CASE Holds(w)
  <2>1. PICK a \in Answers : answer' = [answer EXCEPT ![w] = a]
    BY <1>1 DEF Call
  <2> QED
    BY <1>1, <2>1, CallAnswered DEF Call, circuitVars, rateVars
<1>2. CASE ~Holds(w)
  <2>1. End(w) /\ UNCHANGED <<circuitVars, rateVars, time, stage, attempts, holder, faults>>
    BY <1>2 DEF Call
  <2>2. TypeOK'
    <3>1. UNCHANGED <<circuit, passed, bucket, grants, time, stage, attempts, holder, faults>>
      BY <2>1 DEF circuitVars, rateVars
    <3> QED
      BY <2>1, <3>1, EndType DEF Inductive, TypeOK
  <2> QED
    BY <2>1, <2>2, EndKeeps DEF Inductive
<1> QED
    BY <1>1, <1>2

(* A probe is granted, or the circuit was changed meanwhile.                 *)
LEMMA ProbeGranted ==
    ASSUME Inductive, NEW w \in Workers, pc[w] = "probe", Current(w),
           circuit' = HalfOpened(permit[w]),
           passed' = FALSE,
           permit' = [permit EXCEPT ![w] = circuit'],
           probe' = [probe EXCEPT ![w] = TRUE],
           Goto(w, "rate"),
           UNCHANGED <<bucket, grants, time, stage, attempts, holder, job, since,
                       ripe, level, answer, faults>>
    PROVE  Inductive'
<1> USE DEF Inductive
<1>1. circuit' = [state |-> "HALF_OPEN", failures |-> circuit.failures,
                  until |-> circuit.version + 1, version |-> circuit.version + 1]
  <2>1. permit[w] = circuit
    BY DEF CircuitInv
  <2> QED
    BY <2>1 DEF HalfOpened, TypeOK, Circuit
<1>2. circuit' \in Circuit /\ circuit' = permit'[w] /\ circuit'.state = "HALF_OPEN"
      /\ circuit'.until = circuit.version + 1 /\ circuit'.version = circuit.version + 1
  <2>1. permit'[w] = circuit'
    BY DEF TypeOK
  <2>2. circuit.failures \in Nat /\ circuit.version \in Nat
    BY DEF TypeOK, Circuit
  <2> QED
    BY <1>1, <2>1, <2>2 DEF Circuit, CircuitState
<1>3. \A v \in Workers \ {w} : permit'[v] = permit[v] /\ permit'[v].version < circuit'.version
    BY <1>2, SMTT(60) DEF TypeOK, Circuit, CircuitInv
<1>4. \A v \in Workers \ {w} : ~Current(v)'
    BY <1>3, <1>2, SMTT(60) DEF TypeOK, Circuit, Current
<1>5. TypeOK'
  <2>1. pc' \in [Workers -> Step] /\ tries' \in [Workers -> Nat]
    BY GotoType DEF Step
  <2> QED
    BY <1>2, <2>1 DEF TypeOK
<1>6. CircuitInv'
  <2>1. circuit.version \in Nat
    BY DEF TypeOK, Circuit
  <2> QED
    BY <1>2, <1>3, <1>4, <2>1, SMTT(60) DEF TypeOK, Circuit, CircuitInv, InFlight, Goto, NoInstant
<1>7. PermitsFollowCircuit'
    BY <1>2, <1>4 DEF TypeOK, PermitsFollowCircuit, HoldsPermit
<1>8. RateInv'
    BY DEF TypeOK, RateInv, Goto
<1>9. GrantsInv'
    BY DEF GrantsInv
<1> QED
    BY <1>5, <1>6, <1>7, <1>8, <1>9

LEMMA ProbeRefused ==
    ASSUME Inductive, NEW w \in Workers, pc[w] = "probe",
           Retry(w, "circuit", "defer"),
           faults' \in Nat,
           UNCHANGED <<circuit, passed, permit, probe, bucket, grants, time, stage,
                       attempts, holder, job, since, ripe, level, answer>>
    PROVE  Inductive'
<1> USE DEF Inductive
<1>1. TypeOK'
  <2>1. pc' \in [Workers -> Step] /\ tries' \in [Workers -> Nat]
    BY RetryType DEF Step
  <2> QED
    BY <2>1 DEF TypeOK
<1>2. \E step \in {"circuit", "defer"} : pc' = [pc EXCEPT ![w] = step]
    BY DEF Retry, Goto
<1>3. CircuitInv'
    BY <1>2 DEF TypeOK, CircuitInv, Current, InFlight
<1>4. PermitsFollowCircuit'
    BY <1>2 DEF TypeOK, PermitsFollowCircuit, HoldsPermit, Current
<1>5. RateInv'
    BY <1>2 DEF TypeOK, RateInv
<1>6. GrantsInv'
    BY DEF GrantsInv
<1> QED
    BY <1>1, <1>3, <1>4, <1>5, <1>6

LEMMA AcquireProbeStep ==
    ASSUME Inductive, NEW w \in Workers, AcquireProbe(w)
    PROVE  Inductive'
<1>1. CASE Current(w) /\ circuit' = HalfOpened(permit[w]) /\ Goto(w, "rate")
           /\ passed' = FALSE /\ permit' = [permit EXCEPT ![w] = circuit']
           /\ probe' = [probe EXCEPT ![w] = TRUE] /\ UNCHANGED faults
    BY <1>1, ProbeGranted DEF AcquireProbe, rateVars, deliveries
<1>2. CASE Retry(w, "circuit", "defer") /\ (UNCHANGED faults \/ Fault)
           /\ UNCHANGED <<circuitVars, permit, probe>>
  <2>1. faults' \in Nat
    BY <1>2 DEF Inductive, TypeOK, Fault
  <2> QED
    BY <1>2, <2>1, ProbeRefused DEF AcquireProbe, circuitVars, rateVars, deliveries
<1> QED
    BY <1>1, <1>2 DEF AcquireProbe

LEMMA Shifted ==
    ASSUME NEW g \in Nat, NEW x \in Nat, NEW inc \in Nat,
           NEW a \in Nat, NEW l \in Nat, g + x <= a, a <= l
    PROVE  g + (x + inc) <= l + inc
    OBVIOUS

(* A permit drawn from the bucket is accounted for in its arrival time: one  *)
(* more increment, and not before what it had to wait for.                   *)
LEMMA DrawnAccounts ==
    ASSUME NEW n \in Nat, NEW s \in Nat, NEW arrived \in Nat, NEW later \in Nat,
           grants \in Seq(Nat), n = Len(grants),
           \A i \in 1..n : grants[i] + (n + 1 - i) * Increment <= arrived,
           GrantsInv,
           s <= later, arrived <= later, arrived <= s + Tolerance,
           grants' = Append(grants, s),
           bucket'.arrival = later + Increment
    PROVE  GrantsInv'
<1>1. Increment \in Nat /\ Tolerance \in Nat
    BY IncrementEnough, ToleranceAtMost
<1>2. /\ Len(grants') = n + 1
      /\ \A i \in 1..n : grants'[i] = grants[i] /\ grants[i] \in Nat
      /\ grants'[n + 1] = s
    OBVIOUS
<1>3. ASSUME NEW i \in 1..n + 1
      PROVE  grants'[i] + (n + 2 - i) * Increment <= bucket'.arrival
  <2>1. CASE i = n + 1
    <3>1. (n + 2 - i) * Increment = Increment
      <4>1. n + 2 - i = 1 /\ 1 * Increment = Increment
        BY <2>1, <1>1
      <4> QED
        BY <4>1
    <3> QED
      BY <2>1, <3>1, <1>1, <1>2
  <2>2. CASE i \in 1..n
    <3> DEFINE k == n + 1 - i
    <3>1. k \in Nat /\ n + 2 - i = k + 1
      BY <2>2
    <3>2. k * Increment \in Nat /\ (k + 1) * Increment = k * Increment + Increment
      <4> HIDE DEF k
      <4> QED
        BY <3>1, <1>1, ProductType
    <3>3. grants[i] + k * Increment <= arrived
      BY <2>2
    <3>4. (n + 2 - i) * Increment = k * Increment + Increment
      BY <3>1, <3>2
    <3> DEFINE x == k * Increment
               y == (n + 2 - i) * Increment
    <3>5. x \in Nat /\ y = x + Increment /\ grants[i] + x <= arrived
      BY <3>2, <3>3, <3>4
    <3>6. grants[i] \in Nat /\ grants'[i] = grants[i]
      BY <2>2, <1>2
    <3> HIDE DEF k, x, y
    <3>7. grants[i] + y <= later + Increment
      BY <3>5, <3>6, <1>1, Shifted
    <3> QED
      BY <3>6, <3>7 DEF y
  <2> QED
    BY <2>1, <2>2
<1>4. ASSUME NEW i \in 1..n + 1, NEW j \in 1..n + 1, i <= j
      PROVE  grants'[i] + (j - i) * Increment <= grants'[j] + Tolerance
  <2>1. CASE i \in 1..n /\ j \in 1..n
    BY <2>1, <1>2, <1>4 DEF GrantsInv
  <2>2. CASE i \in 1..n /\ j = n + 1
    <3>1. (j - i) * Increment = (n + 1 - i) * Increment
      BY <2>2
    <3>2. grants[i] + (n + 1 - i) * Increment <= arrived
      BY <2>2
    <3>3. (n + 1 - i) * Increment \in Nat
      <4>1. n + 1 - i \in Nat
        BY <2>2
      <4> QED
        BY <4>1, <1>1, ProductType
    <3> QED
      BY <2>2, <3>1, <3>2, <3>3, <1>1, <1>2
  <2>3. CASE i = n + 1 /\ j = n + 1
    <3>1. (j - i) * Increment = 0
      BY <2>3, <1>1
    <3> QED
      BY <2>3, <3>1, <1>1, <1>2
  <2> QED
    BY <2>1, <2>2, <2>3, <1>4
<1>5. Increment' = Increment /\ Tolerance' = Tolerance
    BY DEF Increment, CeilDiv, Tolerance
<1>6. \A i \in 1..Len(grants') :
          grants'[i] + (Len(grants') + 1 - i) * Increment <= bucket'.arrival
  <2> SUFFICES ASSUME NEW i \in 1..n + 1
               PROVE  grants'[i] + (Len(grants') + 1 - i) * Increment <= bucket'.arrival
    BY <1>2
  <2>1. Len(grants') + 1 - i = n + 2 - i
    BY <1>2
  <2> QED
    BY <1>3, <2>1
<1>7. \A i, j \in 1..Len(grants') : i <= j =>
          grants'[i] + (j - i) * Increment <= grants'[j] + Tolerance
    BY <1>2, <1>4
<1> QED
    BY <1>5, <1>6, <1>7 DEF GrantsInv

(* A rate permit is granted, or the bucket was changed meanwhile.            *)
LEMMA RateGranted ==
    ASSUME Inductive, NEW w \in Workers, pc[w] = "grant",
           level[w].version = bucket.version,
           bucket' = Drawn(level[w], since[w]),
           grants' = Append(grants, since[w]),
           Goto(w, "call"), Forget(w),
           UNCHANGED <<circuit, passed, time, stage, attempts, holder, job,
                       permit, probe, answer, faults>>
    PROVE  Inductive'
<1> USE DEF Inductive
<1> DEFINE s == since[w]
           arrived == Arrival(bucket, s)
           later == Later(s, arrived)
<1>1. level[w] = bucket /\ Permitted(bucket, s)
    BY DEF RateInv
<1>2. s \in Nat /\ arrived \in Nat /\ later \in Nat /\ s <= later /\ arrived <= later
    BY DEF TypeOK, Bucket, Arrival, Later
<1>3. bucket' = [arrival |-> later + Increment, version |-> bucket.version + 1]
    BY <1>1 DEF Drawn
<1>4. bucket.version \in Nat /\ bucket' \in Bucket
  <2>1. later + Increment \in Nat
    BY <1>2, IncrementEnough
  <2> HIDE DEF later, Increment
  <2> QED
    BY <1>3, <2>1 DEF TypeOK, Bucket
<1>5. TypeOK'
  <2>1. pc' \in [Workers -> Step] /\ tries' \in [Workers -> Nat]
    BY GotoType DEF Step
  <2>2. /\ since' \in [Workers -> Nat] /\ ripe' \in [Workers -> Nat]
        /\ level' \in [Workers -> Bucket]
    BY DEF TypeOK, Forget, NoInstant, FreshBucket, Bucket
  <2>3. grants' \in Seq(Nat)
    BY <1>2 DEF TypeOK
  <2> QED
    BY <1>4, <2>1, <2>2, <2>3 DEF TypeOK
<1>6. CircuitInv'
    BY DEF TypeOK, CircuitInv, Current, InFlight, Goto
<1>7. PermitsFollowCircuit'
    BY DEF TypeOK, PermitsFollowCircuit, HoldsPermit, Current, Goto
<1>8. RateInv'
  <2>1. bucket'.version = bucket.version + 1
    BY <1>3
  <2>2. level'[w].version = 0 /\ pc'[w] # "grant"
    BY DEF TypeOK, Forget, Goto, FreshBucket
  <2>3. ASSUME NEW v \in Workers \ {w}
        PROVE  /\ level'[v] = level[v] /\ pc'[v] = pc[v] /\ since'[v] = since[v]
               /\ level[v].version \in Nat /\ level[v].version <= bucket.version
               /\ pc[v] = "grant" => Permitted(level[v], since[v])
    BY DEF TypeOK, Forget, Goto, Bucket, RateInv
  <2>4. ASSUME NEW v \in Workers, pc'[v] = "grant"
        PROVE  Permitted(level[v], since[v])'
    <3>1. v # w
      BY <2>2, <2>4
    <3> QED
      BY <2>3, <2>4, <3>1 DEF Permitted, Arrival, Tolerance
  <2> QED
    BY <1>4, <2>1, <2>2, <2>3, <2>4 DEF RateInv
<1>9. GrantsInv'
  <2> DEFINE n == Len(grants)
  <2>1. n \in Nat /\ grants \in Seq(Nat)
    BY DEF TypeOK
  <2>2. \A i \in 1..n : grants[i] + (n + 1 - i) * Increment <= arrived
    <3>1. CASE bucket.version = 0
      BY <3>1 DEF RateInv
    <3>2. CASE bucket.version # 0
      BY <3>2 DEF GrantsInv, Arrival
    <3> QED
      BY <3>1, <3>2
  <2>3. arrived <= s + Tolerance
    BY <1>1, <1>2, ToleranceAtMost DEF Permitted
  <2>4. bucket'.arrival = later + Increment
    BY <1>3
  <2> HIDE DEF n, later, arrived, s
  <2>5. GrantsInv /\ grants' = Append(grants, s)
    BY DEF s
  <2> QED
    BY <1>2, <2>1, <2>2, <2>3, <2>4, <2>5, DrawnAccounts DEF n
<1> QED
    BY <1>5, <1>6, <1>7, <1>8, <1>9

LEMMA RateRefused ==
    ASSUME Inductive, NEW w \in Workers, pc[w] = "grant",
           Retry(w, "rate", "limit"),
           faults' \in Nat,
           UNCHANGED <<circuit, passed, permit, probe, bucket, grants, time, stage,
                       attempts, holder, job, since, ripe, level, answer>>
    PROVE  Inductive'
<1> USE DEF Inductive
<1>1. TypeOK'
  <2>1. pc' \in [Workers -> Step] /\ tries' \in [Workers -> Nat]
    BY RetryType DEF Step
  <2> QED
    BY <2>1 DEF TypeOK
<1>2. \E step \in {"rate", "limit"} : pc' = [pc EXCEPT ![w] = step]
    BY DEF Retry, Goto
<1>3. CircuitInv'
    BY <1>2 DEF TypeOK, CircuitInv, Current, InFlight
<1>4. PermitsFollowCircuit'
    BY <1>2 DEF TypeOK, PermitsFollowCircuit, HoldsPermit, Current
<1>5. RateInv'
    BY <1>2 DEF TypeOK, RateInv, Permitted, Arrival, Tolerance
<1>6. GrantsInv'
    BY DEF GrantsInv, Increment, CeilDiv, Tolerance
<1> QED
    BY <1>1, <1>3, <1>4, <1>5, <1>6

LEMMA GrantStep ==
    ASSUME Inductive, NEW w \in Workers, Grant(w)
    PROVE  Inductive'
<1>1. CASE level[w].version = bucket.version /\ bucket' = Drawn(level[w], since[w])
           /\ grants' = Append(grants, since[w]) /\ Goto(w, "call") /\ Forget(w)
           /\ UNCHANGED faults
    BY <1>1, RateGranted DEF Grant, circuitVars, deliveries
<1>2. CASE Retry(w, "rate", "limit") /\ (UNCHANGED faults \/ Fault)
           /\ UNCHANGED <<rateVars, since, ripe, level>>
  <2>1. faults' \in Nat
    BY <1>2 DEF Inductive, TypeOK, Fault
  <2> QED
    BY <1>2, <2>1, RateRefused DEF Grant, circuitVars, rateVars, deliveries
<1> QED
    BY <1>1, <1>2 DEF Grant

(* What the circuit becomes after an attempt whose permit it still honours.  *)
LEMMA RecordedCircuit ==
    ASSUME Inductive, NEW w \in Workers, pc[w] = "finalize", Current(w),
           circuit' = CircuitAfterAttempt(permit[w], answer[w], probe[w]),
           passed' = (passed /\ circuit'.until = circuit.until)
    PROVE  /\ circuit' \in Circuit
           /\ circuit'.version = circuit.version + 1
           /\ circuit'.until <= circuit'.version
           /\ circuit'.state # "CLOSED" => circuit'.until # NoInstant
           /\ \/ /\ circuit'.state = "CLOSED"
                 /\ circuit'.failures = 0
                 /\ passed' = FALSE
              \/ /\ circuit'.failures = circuit.failures + 1
                 /\ circuit'.state =
                       IF circuit.state = "CLOSED" /\ circuit'.failures < Threshold
                       THEN "CLOSED" ELSE "OPEN"
                 /\ passed' = FALSE
              \/ /\ circuit'.state = circuit.state
                 /\ circuit'.failures = circuit.failures
                 /\ passed' = passed
<1> USE DEF Inductive
<1>1. /\ permit[w] = circuit
      /\ circuit.state \in CircuitState /\ circuit.failures \in Nat
      /\ circuit.until \in Nat /\ circuit.version \in Nat
      /\ circuit = [state |-> circuit.state, failures |-> circuit.failures,
                    until |-> circuit.until, version |-> circuit.version]
    BY DEF TypeOK, CircuitInv, Circuit
<1>2. /\ probe[w] = (circuit.state = "HALF_OPEN") /\ circuit.state # "OPEN"
      /\ circuit.until <= circuit.version
      /\ circuit.state = "CLOSED" => passed = FALSE
      /\ circuit.state # "CLOSED" => circuit.until # NoInstant
    BY DEF TypeOK, CircuitInv, PermitsFollowCircuit, HoldsPermit
<1>3. passed \in BOOLEAN /\ Threshold \in Nat
    BY PolicyAssumption DEF TypeOK
<1>4. answer[w] \in {"success", "failure", "uncounted", "terminal"}
    BY EnvironmentAssumption DEF CircuitInv
<1> DEFINE stays == circuit'.until = circuit.until
<1>5. ~stays => passed' = FALSE
    BY <1>3
<1>6. circuit.state = "CLOSED" => passed' = FALSE
    BY <1>2
<1>7. CASE answer[w] = "success"
  <2>1. circuit' = [state |-> "CLOSED", failures |-> 0, until |-> NoInstant,
                    version |-> circuit.version + 1]
    BY <1>1, <1>7 DEF CircuitAfterAttempt, Closed
  <2>2. passed' = FALSE
    BY <1>2, <1>5, <1>6, <2>1
  <2> QED
    BY <1>1, <2>1, <2>2 DEF Circuit, CircuitState, NoInstant
<1>8. CASE answer[w] \in {"uncounted", "terminal"}
  <2>1. circuit' = [state |-> circuit.state, failures |-> circuit.failures,
                    until |-> circuit.until, version |-> circuit.version + 1]
    BY <1>1, <1>8 DEF CircuitAfterAttempt
  <2> QED
    BY <1>1, <1>2, <1>3, <2>1 DEF Circuit, CircuitState, NoInstant
<1>9. CASE answer[w] = "failure" /\ Opens(circuit, probe[w])
  <2>1. circuit' = [state |-> "OPEN", failures |-> circuit.failures + 1,
                    until |-> circuit.version + 1, version |-> circuit.version + 1]
    BY <1>1, <1>9 DEF CircuitAfterAttempt, Opened
  <2>2. ~(circuit.state = "CLOSED" /\ circuit.failures + 1 < Threshold)
    BY <1>1, <1>2, <1>3, <1>9 DEF Opens
  <2>3. ~stays
    BY <1>1, <1>2, <2>1
  <2>4. passed' = FALSE
    BY <1>5, <2>3
  <2> QED
    BY <1>1, <2>1, <2>2, <2>4 DEF Circuit, CircuitState, NoInstant
<1>10. CASE answer[w] = "failure" /\ ~Opens(circuit, probe[w])
  <2>1. circuit' = [state |-> "CLOSED", failures |-> circuit.failures + 1,
                    until |-> NoInstant, version |-> circuit.version + 1]
    BY <1>1, <1>10 DEF CircuitAfterAttempt, Closed
  <2>2. probe[w] = FALSE /\ ~(circuit.failures + 1 >= Threshold)
    BY <1>10 DEF Opens, TypeOK
  <2>3. circuit.state = "CLOSED"
    BY <1>1, <1>2, <2>2 DEF CircuitState
  <2> QED
    BY <1>1, <1>3, <1>6, <2>1, <2>2, <2>3 DEF Circuit, CircuitState, NoInstant
<1> QED
    BY <1>4, <1>7, <1>8, <1>9, <1>10

(* A result is recorded ...                                                  *)
LEMMA ResultRecorded ==
    ASSUME Inductive, NEW w \in Workers, pc[w] = "finalize", Current(w),
           circuit' = CircuitAfterAttempt(permit[w], answer[w], probe[w]),
           passed' = (passed /\ circuit'.until = circuit.until),
           stage' = [stage EXCEPT ![job[w]] = StageAfter(job[w], answer[w])],
           holder' = [holder EXCEPT ![job[w]] = NoWorker],
           End(w),
           UNCHANGED <<bucket, grants, time, attempts, faults>>
    PROVE  Inductive'
<1> USE DEF Inductive
<1>1. /\ circuit' \in Circuit /\ circuit'.version = circuit.version + 1
      /\ circuit'.until <= circuit'.version
      /\ circuit'.state # "CLOSED" => circuit'.until # NoInstant
      /\ circuit'.state = "CLOSED" => passed' = FALSE
    BY RecordedCircuit DEF CircuitInv
<1>2. circuit.version \in Nat /\ passed' \in BOOLEAN
    BY DEF TypeOK, Circuit
<1>3. /\ pc' = [pc EXCEPT ![w] = "idle"]
      /\ permit' = [permit EXCEPT ![w] = FreshCircuit]
      /\ probe' = [probe EXCEPT ![w] = FALSE]
      /\ level' = [level EXCEPT ![w] = FreshBucket]
      /\ since' = [since EXCEPT ![w] = 0]
      /\ answer' = [answer EXCEPT ![w] = "none"]
    BY DEF End, Forget, Goto
<1>4. FreshCircuit.version = 0 /\ FreshBucket.version = 0
    BY DEF FreshCircuit, FreshBucket
<1>5. \A v \in Workers : permit'[v].version < circuit'.version
  <2> SUFFICES ASSUME NEW v \in Workers PROVE permit'[v].version < circuit'.version
    OBVIOUS
  <2>1. CASE v = w
    BY <2>1, <1>1, <1>2, <1>3, <1>4 DEF TypeOK
  <2>2. CASE v # w
    BY <2>2, <1>1, <1>2, <1>3, SMTT(60) DEF TypeOK, CircuitInv, Circuit
  <2> QED
    BY <2>1, <2>2
<1>6. \A v \in Workers : ~Current(v)' /\ permit'[v].version <= circuit'.version
  <2>1. \A v \in Workers : permit'[v].version \in Nat
    BY <1>2, <1>3, <1>4, SMTT(60) DEF TypeOK, Circuit
  <2> QED
    BY <1>1, <1>2, <1>5, <2>1 DEF Current
<1>7. TypeOK'
  <2>1. stage' \in [Deliveries -> Stage]
    <3>1. StageAfter(job[w], answer[w]) \in Stage
      <4>1. answer[w] \in {"success", "failure", "uncounted", "terminal"}
        BY EnvironmentAssumption DEF CircuitInv
      <4> QED
        BY <4>1 DEF StageAfter, Stage, Ended
    <3> QED
      BY <3>1 DEF TypeOK
  <2>2. holder' \in [Deliveries -> Workers \cup {NoWorker}]
    BY DEF TypeOK
  <2> QED
    BY <1>1, <1>2, <2>1, <2>2, EndType DEF TypeOK
<1>8. CircuitInv'
    BY <1>1, <1>2, <1>3, <1>6 DEF TypeOK, CircuitInv, InFlight
<1>9. PermitsFollowCircuit'
    BY <1>6 DEF PermitsFollowCircuit, HoldsPermit
<1>10. RateInv'
  <2>1. bucket.version \in Nat
    BY DEF TypeOK, Bucket
  <2> QED
    BY <1>3, <1>4, <2>1 DEF TypeOK, RateInv, Permitted, Arrival, Tolerance
<1>11. GrantsInv'
    BY DEF GrantsInv, Increment, CeilDiv, Tolerance
<1> QED
    BY <1>7, <1>8, <1>9, <1>10, <1>11

(* ... or lost, with the worker's lease or its permit.                       *)
LEMMA FinalizeStep ==
    ASSUME Inductive, NEW w \in Workers, Finalize(w)
    PROVE  Inductive'
<1>1. CASE Current(w)
           /\ circuit' = CircuitAfterAttempt(permit[w], answer[w], probe[w])
           /\ passed' = (passed /\ circuit'.until = circuit.until)
           /\ stage' = [stage EXCEPT ![job[w]] = StageAfter(job[w], answer[w])]
           /\ holder' = [holder EXCEPT ![job[w]] = NoWorker]
           /\ End(w) /\ UNCHANGED <<attempts, faults>>
    BY <1>1, ResultRecorded DEF Finalize, rateVars
<1>2. CASE Abandon(w) /\ (UNCHANGED faults \/ Fault) /\ UNCHANGED circuitVars
  <2>1. End(w) /\ UNCHANGED <<circuitVars, rateVars, time, stage, attempts>>
    BY <1>2 DEF Finalize, Abandon
  <2>2. TypeOK'
    <3>1. /\ holder' \in [Deliveries -> Workers \cup {NoWorker}]
          /\ faults' \in Nat
      BY <1>2 DEF Inductive, TypeOK, Abandon, Fault
    <3>2. UNCHANGED <<circuit, passed, bucket, grants, time, stage, attempts>>
      BY <2>1 DEF circuitVars, rateVars
    <3> QED
      BY <2>1, <3>1, <3>2, EndType DEF Inductive, TypeOK
  <2> QED
    BY <2>1, <2>2, EndKeeps DEF Inductive
<1> QED
    BY <1>1, <1>2 DEF Finalize

(* Every step keeps the invariant.                                           *)
LEMMA NextInductive == Inductive /\ [Next]_vars => Inductive'
<1> SUFFICES ASSUME Inductive, [Next]_vars
             PROVE  Inductive'
    OBVIOUS
<1>1. CASE UNCHANGED vars
  <2>1. UNCHANGED <<circuit, passed, bucket, grants, time, stage, attempts, holder, pc,
                    job, tries, since, ripe, permit, probe, level, answer, faults>>
    BY <1>1 DEF vars, circuitVars, rateVars, deliveries, worker, snapshots
  <2>2. TypeOK'
    BY <2>1 DEF Inductive, TypeOK
  <2>3. CircuitInv' /\ PermitsFollowCircuit'
    BY <2>1 DEF Inductive, CircuitInv, PermitsFollowCircuit, HoldsPermit, Current
  <2>4. RateInv'
    BY <2>1 DEF Inductive, RateInv, Permitted, Arrival, Tolerance
  <2>5. GrantsInv'
    BY <2>1 DEF Inductive, GrantsInv, Increment, CeilDiv, Tolerance
  <2> QED
    BY <2>2, <2>3, <2>4, <2>5 DEF Inductive
<1>2. ASSUME NEW w \in Workers, Deliver(w)
      PROVE  Inductive'
    BY <1>2, ReadCircuitStep, AcquireProbeStep, ReadBucketStep, GrantStep, DeferStep,
       CallStep, FinalizeStep DEF Deliver
<1>3. ASSUME NEW w \in Workers, Crash(w)
      PROVE  Inductive'
    BY <1>3, CrashStep
<1>4. ASSUME NEW w \in Workers, NEW d \in Deliveries, Begin(w, d)
      PROVE  Inductive'
    BY <1>4, BeginStep
<1>5. ASSUME NEW d \in Deliveries, Recover(d)
      PROVE  Inductive'
    BY <1>5, RecoverStep
<1>6. CASE InstantPasses \/ Tick
    BY <1>6, ClockSteps
<1> QED
    BY <1>1, <1>2, <1>3, <1>4, <1>5, <1>6 DEF Next

(* The invariant holds of every behaviour.                                   *)
LEMMA InductiveHolds == Spec => []Inductive
    BY InitInductive, NextInductive, PTL DEF Spec

-------------------------------------------------------------------------------
(* The theorems.                                                             *)

(* Every variable always has its type.                                       *)
THEOREM TypeCorrect == Spec => []TypeOK
    BY InductiveHolds, PTL DEF Inductive

(* However many workers hold a permit, each permit whose result could still  *)
(* be recorded is of the circuit as it is now, and a probe's is the only one. *)
THEOREM PermitsFollow == Spec => []PermitsFollowCircuit
    BY InductiveHolds, PTL DEF Inductive

(* However many workers draw on the bucket, whatever the policy, no stretch  *)
(* of time sees more permits than the policy allows.                         *)
THEOREM RateRespectedAlways == Spec => []RateRespected
<1>1. Inductive => RateRespected
    BY RateFollows DEF Inductive
<1> QED
    BY <1>1, InductiveHolds, PTL

-------------------------------------------------------------------------------
(* The contract of the circuit breaker.                                      *)

Held == {w \in Workers : HoldsPermit(w)}

(* A worker that gains no permit leaves the circuit and the others' alone.   *)
LEMMA KeptOrWithdrawn ==
    ASSUME NEW w \in Workers,
           UNCHANGED <<circuit, passed>>,
           \A v \in Workers \ {w} : HoldsPermit(v)' = HoldsPermit(v),
           HoldsPermit(w)' => HoldsPermit(w)
    PROVE  Abstract!Withdraw(w) \/ UNCHANGED Abstract!breaker
<1>1. Held' = {v \in Workers : HoldsPermit(v)'}
    BY DEF Held
<1>2. CASE HoldsPermit(w)' = HoldsPermit(w)
  <2>1. \A v \in Workers : HoldsPermit(v)' = HoldsPermit(v)
    BY <1>2
  <2>2. Held' = Held
    BY <1>1, <2>1 DEF Held
  <2> QED
    BY <2>2 DEF Abstract!breaker, Held
<1>3. CASE ~HoldsPermit(w)'
  <2>1. Held' = Held \ {w}
    BY <1>1, <1>3 DEF Held
  <2> QED
    BY <2>1 DEF Abstract!Withdraw, Held
<1> QED
    BY <1>2, <1>3

(* What a worker does before its result is recorded.                         *)
LEMMA DeliverKeeps ==
    ASSUME Inductive, NEW w \in Workers, UNCHANGED <<circuit, passed>>,
           \A v \in Workers \ {w} : pc'[v] = pc[v] /\ permit'[v] = permit[v],
           \/ pc'[w] \notin InFlight
           \/ pc[w] \in InFlight /\ permit'[w] = permit[w]
    PROVE  Abstract!Withdraw(w) \/ UNCHANGED Abstract!breaker
<1>1. \A v \in Workers \ {w} : HoldsPermit(v)' = HoldsPermit(v)
    BY DEF HoldsPermit, Current
<1>2. HoldsPermit(w)' => HoldsPermit(w)
    BY DEF HoldsPermit, Current, InFlight
<1> QED
    BY <1>1, <1>2, KeptOrWithdrawn

(* A worker is permitted by a closed circuit.                                *)
LEMMA PermitGiven ==
    ASSUME Inductive, NEW w \in Workers, circuit.state = "CLOSED",
           UNCHANGED <<circuit, passed>>,
           permit' = [permit EXCEPT ![w] = circuit], Goto(w, "rate")
    PROVE  Abstract!Permit(w)
<1>1. \A v \in Workers \ {w} : HoldsPermit(v)' = HoldsPermit(v)
    BY DEF Inductive, TypeOK, HoldsPermit, Current, Goto
<1>2. HoldsPermit(w)'
    BY DEF Inductive, TypeOK, HoldsPermit, Current, Goto
<1>3. Held' = {v \in Workers : HoldsPermit(v)'}
    BY DEF Held
<1>4. Held' = Held \cup {w}
    BY <1>1, <1>2, <1>3 DEF Held
<1> QED
    BY <1>4 DEF Abstract!Permit, Held

(* A worker becomes the probe.                                               *)
LEMMA ProbeGiven ==
    ASSUME Inductive, Inductive', NEW w \in Workers, pc[w] = "probe", Current(w),
           circuit' = HalfOpened(permit[w]), passed' = FALSE,
           permit' = [permit EXCEPT ![w] = circuit'],
           probe' = [probe EXCEPT ![w] = TRUE], Goto(w, "rate")
    PROVE  Abstract!Probe(w)
<1>1. circuit.state # "CLOSED" /\ passed
    BY DEF Inductive, CircuitInv
<1>2. circuit'.state = "HALF_OPEN" /\ circuit'.failures = circuit.failures
    BY DEF Inductive, CircuitInv, TypeOK, Circuit, HalfOpened
<1>3. HoldsPermit(w)' /\ probe'[w]
    BY DEF Inductive, TypeOK, HoldsPermit, Current, Goto
<1>4. \A v \in Workers \ {w} : ~HoldsPermit(v)'
    BY <1>3 DEF Inductive, PermitsFollowCircuit
<1>5. Held' = {v \in Workers : HoldsPermit(v)'}
    BY DEF Held
<1>6. Held' = {w}
    BY <1>3, <1>4, <1>5
<1> QED
    BY <1>1, <1>2, <1>6 DEF Abstract!Probe, Held

(* A result is recorded.                                                     *)
LEMMA ResultGiven ==
    ASSUME Inductive, NEW w \in Workers, pc[w] = "finalize", Current(w),
           circuit' = CircuitAfterAttempt(permit[w], answer[w], probe[w]),
           passed' = (passed /\ circuit'.until = circuit.until),
           End(w)
    PROVE  Abstract!Record(w)
<1>1. /\ circuit'.version = circuit.version + 1
      /\ \/ Abstract!Success
         \/ Abstract!Failure
         \/ /\ circuit'.state = circuit.state
            /\ circuit'.failures = circuit.failures
            /\ passed' = passed
    BY RecordedCircuit DEF Abstract!Success, Abstract!Failure
<1>2. w \in Held
    BY DEF Held, HoldsPermit
<1>3. circuit.version \in Nat
    BY DEF Inductive, TypeOK, Circuit
<1>4. \A v \in Workers : ~HoldsPermit(v)'
  <2>1. pc'[w] = "idle"
    BY DEF Inductive, TypeOK, End, Goto
  <2>2. ASSUME NEW v \in Workers \ {w}
        PROVE  ~Current(v)'
    <3>1. permit'[v] = permit[v] /\ permit[v].version \in Nat
      BY DEF Inductive, TypeOK, Circuit, End
    <3>2. permit[v].version <= circuit.version
      BY DEF Inductive, CircuitInv
    <3> QED
      BY <1>1, <1>3, <3>1, <3>2 DEF Current
  <2> QED
    BY <2>1, <2>2 DEF HoldsPermit
<1>5. Held' = {v \in Workers : HoldsPermit(v)'}
    BY DEF Held
<1>6. Held' = {}
    BY <1>4, <1>5
<1> QED
    BY <1>1, <1>2, <1>6 DEF Abstract!Record, Held

(* A step of a worker's delivery is a step of the contract.                  *)
LEMMA DeliverMaps ==
    ASSUME Inductive, Inductive', NEW w \in Workers,
           Deliver(w) \/ Crash(w) \/ \E d \in Deliveries : Begin(w, d)
    PROVE  Abstract!Change \/ UNCHANGED Abstract!breaker
<1> DEFINE Goal == Abstract!Change \/ UNCHANGED Abstract!breaker
           Others == \A v \in Workers \ {w} : pc'[v] = pc[v] /\ permit'[v] = permit[v]
<1>1. pc \in [Workers -> Step] /\ permit \in [Workers -> Circuit]
    BY DEF Inductive, TypeOK
<1>2. ASSUME UNCHANGED circuitVars, Others,
             \/ pc'[w] \notin InFlight
             \/ pc[w] \in InFlight /\ permit'[w] = permit[w]
      PROVE  Goal
  <2>1. UNCHANGED <<circuit, passed>>
    BY <1>2 DEF circuitVars
  <2> QED
    BY <1>2, <2>1, DeliverKeeps DEF Abstract!Change
<1>3. ASSUME End(w), UNCHANGED circuitVars
      PROVE  Goal
  <2>1. pc'[w] \notin InFlight /\ Others
    BY <1>1, <1>3 DEF End, Goto, InFlight
  <2> QED
    BY <1>2, <1>3, <2>1
<1>4. ASSUME NEW d \in Deliveries, Begin(w, d)
      PROVE  Goal
  <2>1. pc'[w] \notin InFlight /\ Others /\ UNCHANGED circuitVars
    BY <1>1, <1>4 DEF Begin, Goto, InFlight
  <2> QED
    BY <1>2, <2>1
<1>5. CASE ReadCircuit(w)
  <2>1. CASE circuit.state = "CLOSED" /\ permit' = [permit EXCEPT ![w] = circuit]
             /\ Goto(w, "rate")
    <3>1. UNCHANGED <<circuit, passed>>
      BY <1>5 DEF ReadCircuit, circuitVars
    <3> QED
      BY <2>1, <3>1, PermitGiven DEF Abstract!Change
  <2>2. CASE /\ pc' = [pc EXCEPT ![w] = "probe"] \/ Goto(w, "defer")
             /\ permit' = [permit EXCEPT ![w] = circuit] \/ UNCHANGED permit
    <3>1. pc'[w] \notin InFlight /\ Others
      BY <1>1, <2>2 DEF Goto, InFlight
    <3> QED
      BY <1>2, <1>5, <3>1 DEF ReadCircuit
  <2> QED
    BY <1>5, <2>1, <2>2 DEF ReadCircuit
<1>6. CASE AcquireProbe(w)
  <2>1. CASE Current(w) /\ circuit' = HalfOpened(permit[w]) /\ passed' = FALSE
             /\ permit' = [permit EXCEPT ![w] = circuit']
             /\ probe' = [probe EXCEPT ![w] = TRUE] /\ Goto(w, "rate")
    BY <1>6, <2>1, ProbeGiven DEF AcquireProbe, Abstract!Change
  <2>2. CASE Retry(w, "circuit", "defer") /\ UNCHANGED <<circuitVars, permit, probe>>
    <3>1. pc'[w] \notin InFlight /\ Others
      BY <1>1, <2>2 DEF Retry, Goto, InFlight
    <3> QED
      BY <1>2, <2>2, <3>1
  <2> QED
    BY <1>6, <2>1, <2>2 DEF AcquireProbe
<1>7. CASE ReadBucket(w)
  <2>1. pc[w] \in InFlight /\ Others /\ UNCHANGED <<permit, circuitVars>>
    BY <1>1, <1>7 DEF ReadBucket, Goto, InFlight
  <2> QED
    BY <1>2, <2>1
<1>8. CASE Grant(w)
  <2>1. pc[w] \in InFlight /\ Others /\ UNCHANGED <<permit, circuitVars>>
    BY <1>1, <1>8 DEF Grant, Retry, Goto, InFlight
  <2> QED
    BY <1>2, <2>1
<1>9. CASE Defer(w)
    BY <1>3, <1>9 DEF Defer
<1>10. CASE Call(w)
  <2>1. CASE Goto(w, "finalize") /\ UNCHANGED permit
    <3>1. pc[w] \in InFlight /\ Others /\ UNCHANGED <<permit, circuitVars>>
      BY <1>1, <1>10, <2>1 DEF Call, Goto, InFlight
    <3> QED
      BY <1>2, <3>1
  <2>2. CASE End(w)
    BY <1>3, <1>10, <2>2 DEF Call
  <2> QED
    BY <1>10, <2>1, <2>2 DEF Call
<1>11. CASE Finalize(w)
  <2>1. CASE /\ Current(w)
             /\ circuit' = CircuitAfterAttempt(permit[w], answer[w], probe[w])
             /\ passed' = (passed /\ circuit'.until = circuit.until)
             /\ End(w)
    BY <1>11, <2>1, ResultGiven DEF Finalize, Abstract!Change
  <2>2. CASE Abandon(w) /\ UNCHANGED circuitVars
    BY <1>3, <2>2 DEF Abandon
  <2> QED
    BY <1>11, <2>1, <2>2 DEF Finalize
<1>12. CASE Crash(w)
    BY <1>3, <1>12 DEF Crash, Abandon
<1> QED
    BY <1>4, <1>5, <1>6, <1>7, <1>8, <1>9, <1>10, <1>11, <1>12 DEF Deliver

(* Whatever the workers do at the same time, the circuit behaves as if it    *)
(* recorded one permitted result after the other.                            *)
THEOREM ContractImplemented == Spec => ImplementsContract
<1>1. Init => Abstract!Closed
  <2> SUFFICES ASSUME Init PROVE Abstract!Closed
    OBVIOUS
  <2>1. Held = {}
    BY DEF Held, HoldsPermit, Init
  <2> QED
    BY <2>1 DEF Init, FreshCircuit, Abstract!Closed, Held
<1>2. Inductive /\ Inductive' /\ [Next]_vars => [Abstract!Change]_Abstract!breaker
  <2> SUFFICES ASSUME Inductive, Inductive', [Next]_vars
               PROVE  Abstract!Change \/ UNCHANGED Abstract!breaker
    OBVIOUS
  <2>1. ASSUME UNCHANGED <<circuit, passed, pc, permit>>
        PROVE  UNCHANGED Abstract!breaker
    <3>1. \A v \in Workers : HoldsPermit(v)' = HoldsPermit(v)
      BY <2>1 DEF HoldsPermit, Current
    <3>2. Held' = Held
      BY <3>1 DEF Held
    <3> QED
      BY <2>1, <3>2 DEF Abstract!breaker, Held
  <2>2. CASE UNCHANGED vars
    BY <2>1, <2>2 DEF vars, circuitVars, worker, snapshots
  <2>3. ASSUME NEW w \in Workers,
               Deliver(w) \/ Crash(w) \/ \E d \in Deliveries : Begin(w, d)
        PROVE  Abstract!Change \/ UNCHANGED Abstract!breaker
    BY <2>3, DeliverMaps
  <2>4. CASE \E d \in Deliveries : Recover(d)
    BY <2>1, <2>4 DEF Recover, circuitVars, worker, snapshots
  <2>5. CASE Tick
    BY <2>1, <2>5 DEF Tick, circuitVars, worker, snapshots
  <2>6. CASE InstantPasses
    <3>1. \A v \in Workers : HoldsPermit(v)' = HoldsPermit(v)
      BY <2>6 DEF HoldsPermit, Current, InstantPasses, worker, snapshots
    <3>2. Held' = Held
      BY <3>1 DEF Held
    <3>3. Abstract!Elapse
      BY <2>6, <3>2 DEF InstantPasses, Abstract!Elapse, Held
    <3> QED
      BY <3>3 DEF Abstract!Change
  <2> QED
    BY <2>2, <2>3, <2>4, <2>5, <2>6 DEF Next
<1> QED
    BY <1>1, <1>2, InductiveHolds, PTL
       DEF Spec, ImplementsContract, Abstract!Contract
===============================================================================
