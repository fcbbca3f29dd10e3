---------------------------- MODULE DeliveryProofs ----------------------------
(***************************************************************************)
(* The safety of DeliveryWorker for every number of workers, messages,     *)
(* attempts and faults.                                                    *)
(***************************************************************************)
EXTENDS DeliveryProperties, TLAPS

-------------------------------------------------------------------------------
(* The inductive invariant.                                                  *)

Refused == {"disabled", "circuit", "rate"}
Preparing == {"check", "defer", "start"}
InCall == {"send", "finalize"}

(* The stored records: the properties themselves, and what they rest on.     *)
StoreInv ==
    /\ delivery.version >= 1
    /\ delivery.leaseToken <= delivery.version
    /\ delivery.activeAttemptId # NoToken => delivery.attemptCount >= 1
    /\ delivery.state = "in_progress" => delivery.blockedReason = "NONE"
    /\ AttemptAccounting
    /\ OutcomeMatchesAttempts
    /\ \A n \in Attempts :
          /\ requests[n] <= 1
          /\ n > delivery.attemptCount => requests[n] = 0

(* A worker's snapshot is old, or it is the stored delivery: a write never   *)
(* leaves the version as it was.  This is why the version and the token      *)
(* fence off every worker that lost its lease.                               *)
SnapshotInv(w) ==
    /\ seen[w].version <= delivery.version
    /\ seen[w].version = delivery.version => seen[w] = delivery
    /\ seen[w].leaseToken <= seen[w].version

(* What a worker knows at each step of deliver().                            *)
StepInv(w) ==
    /\ pc[w] = "defer" => verdict[w] \in Refused
    /\ pc[w] = "finalize" =>
          /\ verdict[w] \in Answer
          /\ verdict[w] = "success" => seen[w].attemptCount \in accepted
    /\ pc[w] \in Preparing =>
          /\ seen[w].activeAttemptId = NoToken
          /\ seen[w].attemptCount < MaxAttempts
    /\ pc[w] \in InCall =>
          /\ seen[w].activeAttemptId = seen[w].leaseToken
          /\ seen[w].attemptCount \in 1..MaxAttempts
          /\ attempts[seen[w].attemptCount].id = seen[w].leaseToken
          /\ attempts[seen[w].attemptCount].outcome # "none"
    /\ pc[w] \in Preparing \cup InCall =>
          /\ seen[w].state = "in_progress"
          /\ seen[w].leaseToken # NoToken
    /\ pc[w] = "send" => requests[seen[w].attemptCount] = 0
    /\ pc[w] = "recoverCommit" => seen[w].state = "in_progress"

(* No two runs of deliver() hold the same lease token.                       *)
TokenInv ==
    \A w, v \in Workers :
        (w # v /\ {pc[w], pc[v]} \subseteq Preparing \cup InCall)
            => seen[w].leaseToken # seen[v].leaseToken

Inductive ==
    /\ TypeOK
    /\ sent <= outbox
    /\ StoreInv
    /\ \A w \in Workers : SnapshotInv(w)
    /\ \A w \in Workers : StepInv(w)
    /\ TokenInv

-------------------------------------------------------------------------------
(* Facts about the data.                                                     *)

(* Replacing the fields a transition replaces leaves a delivery.             *)
LEMMA ReplacedFields ==
    ASSUME NEW d \in Delivery, NEW to \in DeliveryState, NEW n \in Nat,
           NEW token \in Nat, NEW reason \in BlockedReason
    PROVE  [d EXCEPT !.state = to, !.version = n, !.leaseToken = token,
                     !.blockedReason = reason] \in Delivery
    BY DEF Delivery

(* A transition of a delivery is a delivery, one version later.              *)
LEMMA TransitionType ==
    ASSUME NEW d \in Delivery, NEW to \in DeliveryState, NEW token \in Nat,
           NEW reason \in BlockedReason
    PROVE  /\ Transition(d, to, token, reason) \in Delivery
           /\ Transition(d, to, token, reason).version = d.version + 1
           /\ Transition(d, to, token, reason).state = to
           /\ Transition(d, to, token, reason).leaseToken = token
           /\ Transition(d, to, token, reason).blockedReason = reason
           /\ Transition(d, to, token, reason).attemptCount = d.attemptCount
           /\ Transition(d, to, token, reason).activeAttemptId = d.activeAttemptId
<1>1. d.version + 1 \in Nat
    BY DEF Delivery
<1>2. Transition(d, to, token, reason) \in Delivery
    BY <1>1, ReplacedFields, Zenon DEF Transition
<1> QED
    BY <1>2 DEF Transition, Delivery

(* The initial delivery and the empty snapshot are deliveries.               *)
LEMMA InitialTypes ==
    /\ InitialDelivery \in Delivery
    /\ NoSnapshot \in Delivery
    BY DEF InitialDelivery, NoSnapshot, Delivery, DeliveryState, BlockedReason, NoToken

(* The initial states satisfy the invariant.                                 *)
LEMMA InitInductive == Init => Inductive
<1> SUFFICES ASSUME Init PROVE Inductive
    OBVIOUS
<1>1. TypeOK
    BY InitialTypes, AttemptsAssumption
       DEF Init, TypeOK, Attempts, Attempt, Outcome, MessageStatus, WorkerStep, Verdict,
           NoToken
<1>2. StoreInv
    BY AttemptsAssumption
       DEF Init, StoreInv, AttemptAccounting, OutcomeMatchesAttempts, InitialDelivery,
           Attempts, NoToken, TerminalState
<1>3. \A w \in Workers : SnapshotInv(w)
    BY DEF Init, SnapshotInv, InitialDelivery, NoSnapshot, NoToken
<1>4. (\A w \in Workers : StepInv(w)) /\ TokenInv
    BY DEF Init, StepInv, TokenInv, Preparing, InCall
<1>5. sent <= outbox
    BY DEF Init
<1> QED
    BY <1>1, <1>2, <1>3, <1>4, <1>5 DEF Inductive

-------------------------------------------------------------------------------
(* Steps that leave the stored records alone.                                *)

(* A step that changes neither the records, the partner's history nor what   *)
(* any worker is doing keeps the invariant.                                  *)
LEMMA QuietStep ==
    ASSUME Inductive, TypeOK', sent' <= outbox',
           UNCHANGED <<delivery, attempts, pc, seen, verdict, requests, accepted>>
    PROVE  Inductive'
<1>1. StoreInv'
    BY DEF Inductive, StoreInv, AttemptAccounting, OutcomeMatchesAttempts
<1>2. (\A w \in Workers : SnapshotInv(w))' /\ (\A w \in Workers : StepInv(w))' /\ TokenInv'
    BY DEF Inductive, SnapshotInv, StepInv, TokenInv
<1> QED
    BY <1>1, <1>2 DEF Inductive

(* A step of one worker that changes no record: its own snapshot and step    *)
(* are all there is to check.                                                *)
LEMMA LocalStep ==
    ASSUME Inductive, TypeOK', sent' <= outbox', NEW w \in Workers,
           UNCHANGED <<delivery, attempts, requests, accepted>>,
           \A v \in Workers \ {w} : /\ pc'[v] = pc[v]
                                    /\ seen'[v] = seen[v]
                                    /\ verdict'[v] = verdict[v],
           SnapshotInv(w)', StepInv(w)',
           pc'[w] \in Preparing \cup InCall =>
               /\ pc[w] \in Preparing \cup InCall
               /\ seen'[w] = seen[w]
    PROVE  Inductive'
<1>1. StoreInv'
    BY DEF Inductive, StoreInv, AttemptAccounting, OutcomeMatchesAttempts
<1>2. ASSUME NEW v \in Workers, v # w
      PROVE  SnapshotInv(v)' /\ StepInv(v)'
    BY <1>2 DEF Inductive, SnapshotInv, StepInv
<1>3. TokenInv'
    BY DEF Inductive, TokenInv
<1> QED
    BY <1>1, <1>2, <1>3 DEF Inductive

-------------------------------------------------------------------------------
(* The queue, the publishers and the clock.                                  *)

(* A record's message is sent, marked, or sent once more.                    *)
LEMMA PublisherSteps ==
    ASSUME Inductive,
           MarkPublished \/ PublisherCrash \/ \E m \in Messages : PublishSend(m)
    PROVE  Inductive'
<1> USE DEF Inductive, TypeOK
<1>1. CASE MarkPublished
    <2>1. TypeOK' /\ sent' <= outbox'
        BY <1>1 DEF MarkPublished, store, clock, queue, worker, partner, budget
    <2> QED
        BY <1>1, <2>1, QuietStep DEF MarkPublished, store, worker, partner
<1>2. CASE PublisherCrash
    <2>1. TypeOK' /\ sent' <= outbox'
        BY <1>2 DEF PublisherCrash, Fault, store, clock, queue, worker, partner
    <2> QED
        BY <1>2, <2>1, QuietStep DEF PublisherCrash, store, worker, partner
<1>3. ASSUME NEW m \in Messages, PublishSend(m) PROVE Inductive'
    <2>1. TypeOK' /\ sent' <= outbox'
        BY <1>3 DEF PublishSend, MessageStatus, store, clock, worker, partner, budget
    <2> QED
        BY <1>3, <2>1, QuietStep DEF PublishSend, store, worker, partner
<1> QED
    BY <1>1, <1>2, <1>3

(* A message moves without a worker.                                         *)
LEMMA MessageSteps ==
    ASSUME Inductive, NEW m \in Messages,
           DelayElapses(m) \/ VisibilityTimeout(m) \/ DeadLetter(m) \/ Redrive(m)
    PROVE  Inductive'
<1> USE DEF Inductive, TypeOK
<1>1. TypeOK' /\ sent' <= outbox'
    BY DEF DelayElapses, VisibilityTimeout, DeadLetter, Redrive, Fault, MessageStatus,
           store, clock, worker, partner, budget
<1> QED
    BY <1>1, QuietStep
       DEF DelayElapses, VisibilityTimeout, DeadLetter, Redrive, store, worker, partner

(* An instant passes.                                                        *)
LEMMA ClockSteps ==
    ASSUME Inductive, Clock PROVE Inductive'
<1> USE DEF Inductive, TypeOK
<1>1. CASE BecomesDue
    <2>1. TypeOK' /\ sent' <= outbox'
        BY <1>1 DEF BecomesDue, store, queue, worker, partner, budget
    <2> QED
        BY <1>1, <2>1, QuietStep DEF BecomesDue, store, worker, partner
<1>2. CASE LeaseExpires
    <2>1. Fault \/ UNCHANGED budget
        BY <1>2 DEF LeaseExpires
    <2>2. TypeOK' /\ sent' <= outbox'
        BY <1>2, <2>1 DEF LeaseExpires, Fault, store, queue, worker, partner, budget
    <2> QED
        BY <1>2, <2>2, QuietStep DEF LeaseExpires, store, worker, partner
<1> QED
    BY <1>1, <1>2 DEF Clock

-------------------------------------------------------------------------------
(* Steps of deliver() that write no record.                                  *)

(* Receiving a message starts a run with nothing read yet.                   *)
LEMMA ReceiveStep ==
    ASSUME Inductive, NEW w \in Workers, NEW m \in Messages, Receive(w, m)
    PROVE  Inductive'
<1>1. TypeOK' /\ sent' <= outbox'
    BY DEF Inductive, TypeOK, Receive, Goto, MessageStatus, WorkerStep,
           store, clock, partner, budget
<1>2. pc' = [pc EXCEPT ![w] = "read"] /\ UNCHANGED <<store, seen, verdict, partner>>
    BY DEF Receive, Goto
<1>3. SnapshotInv(w)' /\ StepInv(w)'
    BY <1>2 DEF Inductive, TypeOK, SnapshotInv, StepInv, Preparing, InCall, store, partner
<1> QED
    BY <1>1, <1>2, <1>3, LocalStep DEF Inductive, TypeOK, Preparing, InCall, store, partner

(* A run that ends forgets what it knew.                                     *)
LEMMA EndStep ==
    ASSUME Inductive, NEW w \in Workers, End(w), TypeOK', sent' <= outbox',
           UNCHANGED <<store, partner>>
    PROVE  Inductive'
<1>1. SnapshotInv(w)' /\ StepInv(w)'
    BY DEF Inductive, TypeOK, StoreInv, SnapshotInv, StepInv, Preparing, InCall, End, Goto,
           See, NoSnapshot, InitialDelivery, NoToken, store, partner, Delivery
<1> QED
    BY <1>1, LocalStep DEF Inductive, TypeOK, End, Goto, See, Preparing, InCall, store, partner

LEMMA EndType ==
    ASSUME TypeOK, NEW w \in Workers, End(w)
    PROVE  /\ pc' \in [Workers -> WorkerStep]
           /\ msg' \in [Workers -> Messages \cup {NoMessage}]
           /\ seen' \in [Workers -> Delivery]
           /\ verdict' \in [Workers -> Verdict]
    BY InitialTypes DEF TypeOK, End, Goto, See, WorkerStep, Verdict

(* Acknowledging, returning, throwing and dying.                             *)
LEMMA FinishSteps ==
    ASSUME Inductive, NEW w \in Workers, Ack(w) \/ Return(w) \/ Crash(w)
    PROVE  Inductive'
<1>1. End(w) /\ UNCHANGED <<store, partner>>
    BY DEF Ack, Return, Crash, Abandon
<1>2. UNCHANGED <<delivery, attempts, leaseExpired, leasedFrom, due, outbox, sent,
                  requests, accepted>>
    BY DEF Ack, Return, Crash, store, clock, partner
<1>3. status' \in [Messages -> MessageStatus]
    BY DEF Inductive, TypeOK, Ack, Return, Crash, Abandon, MessageStatus
<1>4. holder' \in [Messages -> Workers \cup {NoWorker}]
    BY DEF Inductive, TypeOK, Ack, Return, Crash, Abandon
<1>5. receives' \in [Messages -> Nat]
    BY DEF Inductive, TypeOK, Ack, Return, Crash, Abandon
<1>6. faults' \in Nat /\ deferrals' \in Nat
    BY DEF Inductive, TypeOK, Ack, Return, Crash, Fault, budget
<1>7. TypeOK'
    BY <1>1, <1>2, <1>3, <1>4, <1>5, <1>6, EndType DEF Inductive, TypeOK
<1> QED
    BY <1>1, <1>2, <1>7, EndStep DEF Inductive

(* What reading a delivery yields.                                           *)
LEMMA SnapshotTaken ==
    ASSUME Inductive, NEW w \in Workers, See(w, delivery), UNCHANGED delivery
    PROVE  SnapshotInv(w)' /\ seen'[w] = delivery
    BY DEF Inductive, TypeOK, StoreInv, SnapshotInv, See, Delivery

LEMMA ReadStep ==
    ASSUME Inductive, NEW w \in Workers, Read(w)
    PROVE  Inductive'
<1>1. NextStepAfterRead \in {"ack", "recover", "lease", "return"}
    BY DEF Inductive, TypeOK, Delivery, DeliveryState, NextStepAfterRead, TerminalState
<1>2. TypeOK' /\ sent' <= outbox'
    BY <1>1 DEF Inductive, TypeOK, Read, Goto, See, WorkerStep, store, clock, queue, partner,
                budget
<1>3. SnapshotInv(w)'
    BY SnapshotTaken DEF Read, store
<1>4. StepInv(w)'
    BY <1>1 DEF Inductive, TypeOK, Read, Goto, StepInv, Preparing, InCall
<1> QED
    BY <1>1, <1>2, <1>3, <1>4, LocalStep
       DEF Inductive, TypeOK, Read, Goto, See, Preparing, InCall, store, partner

LEMMA RecoverReadStep ==
    ASSUME Inductive, NEW w \in Workers, RecoverRead(w)
    PROVE  Inductive'
<1>1. \/ pc' = [pc EXCEPT ![w] = "ack"]
      \/ pc' = [pc EXCEPT ![w] = "recoverCommit"] /\ delivery.state = "in_progress"
    BY DEF RecoverRead, Goto
<1>2. TypeOK' /\ sent' <= outbox'
    BY <1>1 DEF Inductive, TypeOK, RecoverRead, See, WorkerStep, store, clock, queue, partner,
                budget
<1>3. SnapshotInv(w)' /\ seen'[w] = delivery
    BY SnapshotTaken DEF RecoverRead, store
<1>4. StepInv(w)'
    BY <1>1, <1>3 DEF Inductive, TypeOK, StepInv, Preparing, InCall
<1> QED
    BY <1>1, <1>2, <1>3, <1>4, LocalStep
       DEF Inductive, TypeOK, RecoverRead, See, Preparing, InCall, store, partner

(* The checks leave the run prepared, or with a refusal to act on.           *)
LEMMA CheckStep ==
    ASSUME Inductive, NEW w \in Workers, Check(w)
    PROVE  Inductive'
<1>1. \/ pc' = [pc EXCEPT ![w] = "start"]
      \/ /\ pc' = [pc EXCEPT ![w] = "defer"]
         /\ \E refusal \in Refusals : verdict' = [verdict EXCEPT ![w] = refusal]
    BY DEF Check, Goto
<1>2. UNCHANGED <<store, seen, partner>> /\ pc[w] = "check"
    BY DEF Check
<1>3. verdict' \in [Workers -> Verdict] /\ faults' \in Nat /\ deferrals' \in Nat
    BY EnvironmentAssumption DEF Inductive, TypeOK, Check, Verdict, budget
<1>4. TypeOK' /\ sent' <= outbox'
    BY <1>1, <1>3 DEF Inductive, TypeOK, Check, WorkerStep, store, clock, queue, partner
<1>5. SnapshotInv(w)'
    BY <1>2 DEF Inductive, SnapshotInv, store
<1>6. pc'[w] = "defer" => verdict'[w] \in Refused
    BY <1>1, EnvironmentAssumption DEF Inductive, TypeOK, Refused
<1>7. StepInv(w)'
    BY <1>1, <1>2, <1>6 DEF Inductive, TypeOK, StepInv, Preparing, InCall, store
<1>8. \A v \in Workers \ {w} : pc'[v] = pc[v] /\ seen'[v] = seen[v] /\ verdict'[v] = verdict[v]
    BY <1>1, <1>2 DEF Inductive, TypeOK, Check
<1>9. pc[w] \in Preparing \cup InCall /\ seen'[w] = seen[w]
    BY <1>2 DEF Preparing
<1> QED
    BY <1>2, <1>4, <1>5, <1>7, <1>8, <1>9, LocalStep DEF store, partner

(* The call: the request is counted against the attempt that the worker      *)
(* alone may send, as no other worker holds its lease token.                 *)
LEMMA SendStep ==
    ASSUME Inductive, NEW w \in Workers, Send(w)
    PROVE  Inductive'
<1> DEFINE n == seen[w].attemptCount
<1>1. PICK answer \in Answer :
          /\ verdict' = [verdict EXCEPT ![w] = answer]
          /\ \/ answer # "success" /\ UNCHANGED partner
             \/ /\ requests' = [requests EXCEPT ![n] = @ + 1]
                /\ \/ accepted' = accepted \cup {n}
                   \/ answer # "success" /\ UNCHANGED accepted
    BY DEF Send
<1>2. /\ pc[w] = "send"
      /\ pc' = [pc EXCEPT ![w] = "finalize"]
      /\ UNCHANGED <<store, clock, outbox, sent, queue, msg, seen, budget>>
    BY DEF Send, Goto
<1>3. n \in 1..MaxAttempts /\ n \in Attempts /\ requests[n] = 0
    BY <1>2, AttemptsAssumption DEF Inductive, StepInv, InCall, Attempts
<1>4. accepted \subseteq accepted' /\ accepted' \subseteq accepted \cup {n}
    BY <1>1 DEF partner
<1>5. requests' \in [Attempts -> Nat]
    BY <1>1, <1>3 DEF Inductive, TypeOK, partner
<1>6. \A k \in Attempts : IF k = n THEN requests'[k] <= 1 ELSE requests'[k] = requests[k]
    BY <1>1, <1>3 DEF Inductive, TypeOK, partner
<1>7. TypeOK' /\ sent' <= outbox'
    BY <1>1, <1>2, <1>3, <1>4, <1>5
       DEF Inductive, TypeOK, WorkerStep, Verdict, store, clock, queue, budget
<1>8. n <= delivery.attemptCount
    <2>1. attempts[n].outcome # "none"
        BY <1>2 DEF Inductive, StepInv, InCall
    <2> QED
        BY <1>3, <2>1 DEF Inductive, StoreInv, AttemptAccounting
<1>9. StoreInv'
    <2>1. AttemptAccounting'
        BY <1>2 DEF Inductive, StoreInv, AttemptAccounting, store
    <2>2. OutcomeMatchesAttempts'
        BY <1>2, <1>4 DEF Inductive, StoreInv, OutcomeMatchesAttempts, store
    <2>3. \A k \in Attempts : requests'[k] <= 1 /\ (k > delivery.attemptCount => requests'[k] = 0)
        BY <1>6, <1>8, <1>3 DEF Inductive, StoreInv, TypeOK, Delivery, Attempts
    <2> QED
        BY <1>2, <2>1, <2>2, <2>3 DEF Inductive, StoreInv, store
<1>10. ASSUME NEW v \in Workers PROVE SnapshotInv(v)'
    BY <1>2 DEF Inductive, SnapshotInv, store
<1>11. StepInv(w)'
    <2>1. verdict'[w] = answer /\ (answer = "success" => n \in accepted')
        BY <1>1 DEF Inductive, TypeOK
    <2> QED
        BY <1>2, <2>1 DEF Inductive, TypeOK, StepInv, Preparing, InCall, store
<1>12. ASSUME NEW v \in Workers, v # w PROVE StepInv(v)'
    <2>1. pc'[v] = pc[v] /\ seen'[v] = seen[v] /\ verdict'[v] = verdict[v]
        BY <1>1, <1>2, <1>12 DEF Inductive, TypeOK
    <2>2. pc[v] = "send" => requests'[seen[v].attemptCount] = requests[seen[v].attemptCount]
        <3> SUFFICES ASSUME pc[v] = "send"
                     PROVE  seen[v].attemptCount \in Attempts /\ seen[v].attemptCount # n
            BY <1>6
        <3>1. /\ seen[v].attemptCount \in 1..MaxAttempts
              /\ attempts[seen[v].attemptCount].id = seen[v].leaseToken
              /\ attempts[n].id = seen[w].leaseToken
            BY <1>2 DEF Inductive, StepInv, InCall
        <3>2. seen[v].leaseToken # seen[w].leaseToken
            BY <1>2, <1>12 DEF Inductive, TokenInv, InCall
        <3> QED
            BY <3>1, <3>2, AttemptsAssumption DEF Attempts
    <2> QED
        BY <1>2, <1>4, <2>1, <2>2 DEF Inductive, StepInv, Preparing, InCall, store
<1>13. TokenInv'
    BY <1>2 DEF Inductive, TypeOK, TokenInv, Preparing, InCall
<1> QED
    BY <1>7, <1>9, <1>10, <1>11, <1>12, <1>13 DEF Inductive

-------------------------------------------------------------------------------
(* Conditional writes.                                                       *)

(* A delivery that waits or is being prepared has an attempt left; moving it *)
(* between such states keeps the records consistent.                         *)
LEMMA UnstartedStore ==
    ASSUME TypeOK, TypeOK', StoreInv,
           delivery.state \notin TerminalState, delivery.activeAttemptId = NoToken,
           delivery'.state \notin TerminalState, delivery'.activeAttemptId = NoToken,
           delivery'.attemptCount = delivery.attemptCount,
           delivery'.version >= 1, delivery'.leaseToken <= delivery'.version,
           delivery'.state = "in_progress" => delivery'.blockedReason = "NONE",
           UNCHANGED <<attempts, requests, accepted>>
    PROVE  StoreInv'
<1>1. AttemptAccounting'
    BY DEF StoreInv, AttemptAccounting
<1>2. OutcomeMatchesAttempts'
    BY DEF StoreInv, OutcomeMatchesAttempts, TerminalState
<1> QED
    BY <1>1, <1>2 DEF StoreInv

(* A write makes every other worker's snapshot an old one.                   *)
LEMMA OthersFenced ==
    ASSUME Inductive, TypeOK', NEW v \in Workers,
           delivery'.version = delivery.version + 1,
           seen'[v] = seen[v], verdict'[v] = verdict[v], UNCHANGED <<requests, accepted>>,
           pc'[v] = pc[v] \/ pc'[v] = "ack",
           \A n \in Attempts : attempts[n].outcome # "none" =>
               attempts'[n].id = attempts[n].id /\ attempts'[n].outcome # "none"
    PROVE  SnapshotInv(v)' /\ StepInv(v)'
<1>1. SnapshotInv(v)'
    BY DEF Inductive, TypeOK, Delivery, SnapshotInv
<1>2. pc[v] \in InCall => seen[v].attemptCount \in Attempts
    BY AttemptsAssumption DEF Inductive, StepInv, Attempts
<1>3. StepInv(v)'
    BY <1>2 DEF Inductive, StepInv, Preparing, InCall
<1> QED
    BY <1>1, <1>3

(* A write by a worker that then acknowledges, or by none, is settled by the *)
(* records it leaves.                                                        *)
LEMMA LastWrite ==
    ASSUME Inductive, TypeOK', sent' <= outbox', StoreInv',
           delivery'.version = delivery.version + 1,
           UNCHANGED <<seen, verdict, requests, accepted>>,
           \A v \in Workers : pc'[v] = pc[v] \/ pc'[v] = "ack",
           \A n \in Attempts : attempts[n].outcome # "none" =>
               attempts'[n].id = attempts[n].id /\ attempts'[n].outcome # "none"
    PROVE  Inductive'
<1>1. \A v \in Workers : SnapshotInv(v)' /\ StepInv(v)'
    BY OthersFenced
<1>2. TokenInv'
    BY DEF Inductive, TokenInv, Preparing, InCall
<1> QED
    BY <1>1, <1>2 DEF Inductive

(* Owning the lease means having seen the delivery as it is.                 *)
LEMMA OwnerSawDelivery ==
    ASSUME Inductive, NEW w \in Workers, OwnsLease(w)
    PROVE  seen[w] = delivery
    BY DEF Inductive, SnapshotInv, OwnsLease

(* Resuming a blocked delivery: it waits, so it has no active attempt.       *)
LEMMA ResumeStep ==
    ASSUME Inductive, ResumeDestination
    PROVE  Inductive'
<1>1. /\ delivery' \in Delivery
      /\ delivery'.version = delivery.version + 1
      /\ delivery'.state = "scheduled"
      /\ delivery'.leaseToken = NoToken
      /\ delivery'.attemptCount = delivery.attemptCount
      /\ delivery'.activeAttemptId = delivery.activeAttemptId
    <2>1. delivery \in Delivery /\ delivery' = Transition(delivery, "scheduled", NoToken, "NONE")
        BY DEF ResumeDestination, Inductive, TypeOK
    <2>2. "scheduled" \in DeliveryState /\ "NONE" \in BlockedReason /\ NoToken \in Nat
        BY DEF DeliveryState, BlockedReason, NoToken
    <2> QED
        BY <2>1, <2>2, TransitionType
<1>2. TypeOK' /\ sent' <= outbox'
    BY <1>1 DEF ResumeDestination, Inductive, TypeOK, queue, worker, partner, budget
<1>3. UNCHANGED <<attempts, pc, seen, verdict, requests, accepted>>
    BY DEF ResumeDestination, worker, partner
<1>4. delivery.state \notin TerminalState /\ delivery.state # "in_progress"
    BY DEF ResumeDestination, Inductive, StoreInv
<1>5. delivery.activeAttemptId = NoToken
    BY <1>4 DEF Inductive, StoreInv, AttemptAccounting
<1>6. StoreInv'
    BY <1>1, <1>2, <1>3, <1>4, <1>5, UnstartedStore
       DEF Inductive, TypeOK, Delivery, TerminalState, NoToken
<1> QED
    BY <1>1, <1>2, <1>3, <1>6, LastWrite

(* A refusal, written under the lease.                                       *)
LEMMA DeferStep ==
    ASSUME Inductive, NEW w \in Workers, Defer(w)
    PROVE  Inductive'
<1> DEFINE reason == DeferredReason(verdict[w])
           to == DeferredState(verdict[w])
<1>1. /\ pc[w] = "defer"
      /\ pc' = [pc EXCEPT ![w] = "ack"]
      /\ UNCHANGED <<sent, queue, msg, seen, verdict, partner>>
    BY DEF Defer, Goto
<1>2. reason \in BlockedReason /\ to \in {"scheduled", "rate_limited"}
    BY <1>1 DEF Inductive, StepInv, Refused, DeferredReason, DeferredState, BlockedReason
<1>3. CASE /\ OwnsLease(w)
           /\ delivery' = Transition(delivery, to, NoToken, reason)
           /\ due' = FALSE
           /\ outbox' = outbox + 1
           /\ UNCHANGED <<attempts, leaseExpired, leasedFrom, budget>>
    <2>1. seen[w] = delivery
        BY <1>3, OwnerSawDelivery
    <2>2. delivery.state = "in_progress" /\ delivery.activeAttemptId = NoToken
        BY <1>1, <2>1 DEF Inductive, StepInv, Preparing
    <2> HIDE DEF reason, to
    <2>3. /\ delivery' \in Delivery
          /\ delivery'.version = delivery.version + 1
          /\ delivery'.state = to
          /\ delivery'.leaseToken = NoToken
          /\ delivery'.attemptCount = delivery.attemptCount
          /\ delivery'.activeAttemptId = delivery.activeAttemptId
        <3>1. delivery \in Delivery
            BY DEF Inductive, TypeOK
        <3>2. to \in DeliveryState /\ NoToken \in Nat
            BY <1>2 DEF DeliveryState, NoToken
        <3> QED
            BY <1>2, <1>3, <3>1, <3>2, TransitionType
    <2>4. TypeOK' /\ sent' <= outbox'
        <3>1. outbox' \in Nat /\ sent' <= outbox'
            <4>1. outbox \in Nat /\ sent \in Nat /\ sent <= outbox
                BY DEF Inductive, TypeOK
            <4>2. outbox' = outbox + 1 /\ sent' = sent
                BY <1>1, <1>3
            <4> QED
                BY <4>1, <4>2
        <3>2. UNCHANGED <<attempts, leaseExpired, leasedFrom, budget, sent, queue, msg, seen,
                          verdict, partner>>
            BY <1>1, <1>3
        <3>3. pc' \in [Workers -> WorkerStep]
            BY <1>1 DEF Inductive, TypeOK, WorkerStep
        <3> QED
            BY <1>3, <2>3, <3>1, <3>2, <3>3 DEF Inductive, TypeOK, queue, partner, budget
    <2>5. StoreInv'
        BY <1>1, <1>2, <1>3, <2>2, <2>3, <2>4, UnstartedStore
           DEF Inductive, TypeOK, Delivery, TerminalState, NoToken, partner
    <2> QED
        BY <1>1, <1>3, <2>3, <2>4, <2>5, LastWrite DEF Inductive, TypeOK, partner
<1>4. CASE NotWritten("defer", OwnsLease(w)) /\ UNCHANGED <<store, clock, outbox>>
    <2>1. faults' \in Nat /\ deferrals' \in Nat
        BY <1>4 DEF Inductive, TypeOK, NotWritten, Fault, budget
    <2>2. TypeOK' /\ sent' <= outbox'
        BY <1>1, <1>4, <2>1 DEF Inductive, TypeOK, WorkerStep, store, clock, queue, partner
    <2>3. SnapshotInv(w)' /\ StepInv(w)'
        BY <1>1, <1>4 DEF Inductive, TypeOK, SnapshotInv, StepInv, Preparing, InCall, store
    <2> QED
        BY <1>1, <1>4, <2>2, <2>3, LocalStep
           DEF Inductive, TypeOK, Preparing, InCall, store, partner
<1> QED
    BY <1>3, <1>4 DEF Defer

(* A new lease: its token is newer than every token seen before.             *)
LEMMA LeaseStep ==
    ASSUME Inductive, NEW w \in Workers, AcquireLease(w)
    PROVE  Inductive'
<1>1. CASE Leasable(w) /\ MayTransition(delivery, "in_progress") /\ LeaseCommitted(w)
    <2> DEFINE token == delivery.version + 1
    <2>1. /\ delivery' = Transition(delivery, "in_progress", token, "NONE")
          /\ seen' = [seen EXCEPT ![w] = delivery']
          /\ pc' = [pc EXCEPT ![w] = "check"]
          /\ leaseExpired' = FALSE
          /\ leasedFrom' = msg[w]
          /\ UNCHANGED <<attempts, due, outbox, sent, queue, msg, verdict, partner, budget>>
        BY <1>1 DEF LeaseCommitted, See, Goto
    <2>2. token \in Nat
        BY DEF Inductive, TypeOK, Delivery
    <2>3. /\ delivery' \in Delivery
          /\ delivery'.version = token
          /\ delivery'.state = "in_progress"
          /\ delivery'.leaseToken = token
          /\ delivery'.blockedReason = "NONE"
          /\ delivery'.attemptCount = delivery.attemptCount
          /\ delivery'.activeAttemptId = delivery.activeAttemptId
        <3>1. delivery \in Delivery
            BY DEF Inductive, TypeOK
        <3>2. "in_progress" \in DeliveryState /\ "NONE" \in BlockedReason
            BY DEF DeliveryState, BlockedReason
        <3> QED
            BY <2>1, <2>2, <3>1, <3>2, TransitionType
    <2>4. TypeOK' /\ sent' <= outbox'
        BY <2>1, <2>3 DEF Inductive, TypeOK, WorkerStep, queue, partner, budget
    <2>5. delivery.state \notin TerminalState /\ delivery.activeAttemptId = NoToken
        BY <1>1 DEF Leasable, Inductive, StoreInv, AttemptAccounting, TerminalState
    <2>6. StoreInv'
        <3>1. delivery'.state \notin TerminalState /\ delivery'.activeAttemptId = NoToken
            BY <2>3, <2>5 DEF TerminalState
        <3>2. delivery'.version >= 1 /\ delivery'.leaseToken <= delivery'.version
            BY <2>2, <2>3 DEF Inductive, TypeOK, Delivery
        <3> QED
            BY <2>1, <2>3, <2>4, <2>5, <3>1, <3>2, UnstartedStore DEF Inductive, partner
    <2>7. ASSUME NEW v \in Workers, v # w PROVE SnapshotInv(v)' /\ StepInv(v)'
        BY <2>1, <2>3, <2>4, <2>7, OthersFenced DEF Inductive, TypeOK, partner
    <2>8. seen'[w] = delivery' /\ pc'[w] = "check"
        BY <2>1 DEF Inductive, TypeOK
    <2>9. SnapshotInv(w)'
        BY <2>2, <2>3, <2>8 DEF SnapshotInv
    <2>10. seen'[w].attemptCount < MaxAttempts
        BY <2>3, <2>5, <2>8 DEF Inductive, StoreInv, OutcomeMatchesAttempts
    <2>11. StepInv(w)'
        <3>1. seen'[w].leaseToken # NoToken
            BY <2>2, <2>3, <2>8 DEF Inductive, TypeOK, Delivery, NoToken
        <3>2. seen'[w].activeAttemptId = NoToken /\ seen'[w].state = "in_progress"
            BY <2>3, <2>5, <2>8
        <3> QED
            BY <2>8, <2>10, <3>1, <3>2 DEF StepInv, Preparing, InCall
    <2>12. \A v \in Workers \ {w} : seen[v].leaseToken < token
        BY <2>2 DEF Inductive, TypeOK, Delivery, SnapshotInv
    <2>13. \A v \in Workers \ {w} : seen'[v] = seen[v] /\ pc'[v] = pc[v]
        BY <2>1 DEF Inductive, TypeOK
    <2>14. TokenInv'
        <3> SUFFICES ASSUME NEW u \in Workers, NEW v \in Workers, u # v,
                            {pc'[u], pc'[v]} \subseteq Preparing \cup InCall
                     PROVE  seen'[u].leaseToken # seen'[v].leaseToken
            BY DEF TokenInv
        <3>1. CASE u = w
            BY <2>2, <2>3, <2>8, <2>12, <2>13, <3>1 DEF Inductive, TypeOK, Delivery
        <3>2. CASE v = w
            BY <2>2, <2>3, <2>8, <2>12, <2>13, <3>2 DEF Inductive, TypeOK, Delivery
        <3>3. CASE u # w /\ v # w
            BY <2>13, <3>3 DEF Inductive, TokenInv
        <3> QED
            BY <3>1, <3>2, <3>3
    <2> QED
        BY <2>4, <2>6, <2>7, <2>9, <2>11, <2>14 DEF Inductive
<1>2. CASE LeaseThrows(w)
    <2>1. TypeOK' /\ sent' <= outbox'
        BY <1>2, EndType
           DEF Inductive, TypeOK, LeaseThrows, Abandon, store, clock, partner, budget
    <2> QED
        BY <1>2, <2>1, EndStep DEF LeaseThrows, Abandon
<1>3. CASE /\ NotWritten("lease", Leasable(w))
           /\ Goto(w, "ack")
           /\ UNCHANGED <<store, clock, outbox, sent, queue, msg, seen, verdict, partner>>
    <2>1. faults' \in Nat /\ deferrals' \in Nat
        BY <1>3 DEF Inductive, TypeOK, NotWritten, Fault, budget
    <2>2. TypeOK' /\ sent' <= outbox'
        BY <1>3, <2>1 DEF Inductive, TypeOK, Goto, WorkerStep, store, clock, queue, partner
    <2>3. SnapshotInv(w)' /\ StepInv(w)'
        BY <1>3 DEF Inductive, TypeOK, Goto, SnapshotInv, StepInv, Preparing, InCall, store
    <2> QED
        BY <1>3, <2>2, <2>3, LocalStep
           DEF Inductive, TypeOK, Goto, Preparing, InCall, store, partner
<1> QED
    BY <1>1, <1>2, <1>3 DEF AcquireLease

LEMMA StartedFields ==
    ASSUME NEW d \in Delivery, NEW n \in Nat, NEW id \in Nat, NEW k \in Nat
    PROVE  [d EXCEPT !.attemptCount = n, !.activeAttemptId = id, !.version = k] \in Delivery
    BY DEF Delivery

(* A started attempt: the delivery was prepared, so the number is the first  *)
(* unused one and the policy still permits it.                               *)
LEMMA StartStep ==
    ASSUME Inductive, NEW w \in Workers, StartAttempt(w)
    PROVE  Inductive'
<1>1. CASE MayStart(w) /\ AttemptStarted(w)
    <2> DEFINE n == delivery.attemptCount + 1
               id == delivery.leaseToken
    <2>1. pc[w] = "start" /\ UNCHANGED <<clock, outbox, sent, queue, msg, verdict, partner, budget>>
        BY <1>1 DEF StartAttempt, AttemptStarted
    <2>2. seen[w] = delivery
        BY <1>1, OwnerSawDelivery DEF MayStart
    <2>3. /\ delivery.state = "in_progress"
          /\ delivery.activeAttemptId = NoToken
          /\ delivery.leaseToken # NoToken
          /\ delivery.attemptCount < MaxAttempts
        BY <2>1, <2>2 DEF Inductive, StepInv, Preparing
    <2>4. /\ delivery.attemptCount \in Nat
          /\ delivery.version \in Nat
          /\ id \in Nat
        BY DEF Inductive, TypeOK, Delivery
    <2>5. n \in 1..MaxAttempts /\ n \in Attempts /\ n \in Nat /\ delivery.version + 1 \in Nat
        BY <2>3, <2>4, AttemptsAssumption DEF Attempts
    <2>6. /\ delivery' = [delivery EXCEPT !.attemptCount = n, !.activeAttemptId = id,
                                          !.version = @ + 1]
          /\ seen' = [seen EXCEPT ![w] = delivery']
          /\ attempts' = [attempts EXCEPT ![n] = [id |-> id, outcome |-> "started"]]
          /\ pc' = [pc EXCEPT ![w] = "send"]
        BY <1>1, <2>2, Zenon DEF AttemptStarted, NextAttempt, See, Goto
    <2> HIDE DEF n, id
    <2>7. delivery' \in Delivery
        BY <2>4, <2>5, <2>6, StartedFields, Zenon DEF Inductive, TypeOK
    <2>8. /\ delivery'.version = delivery.version + 1
          /\ delivery'.state = "in_progress"
          /\ delivery'.leaseToken = id
          /\ delivery'.attemptCount = n
          /\ delivery'.activeAttemptId = id
          /\ delivery'.blockedReason = delivery.blockedReason
        BY <2>3, <2>6 DEF Inductive, TypeOK, Delivery, id
    <2>9. attempts' \in [Attempts -> Attempt]
        BY <2>4, <2>6 DEF Inductive, TypeOK, Attempt, Outcome
    <2>10. TypeOK' /\ sent' <= outbox'
        BY <2>1, <2>6, <2>7, <2>9
           DEF Inductive, TypeOK, WorkerStep, clock, queue, partner, budget
    <2>11. attempts[n].outcome = "none"
        BY <2>3, <2>4, <2>5 DEF Inductive, StoreInv, AttemptAccounting, n
    <2>12. \A k \in Attempts :
              IF k = n THEN attempts'[k].id = id /\ attempts'[k].outcome = "started"
                       ELSE attempts'[k] = attempts[k]
        BY <2>5, <2>6 DEF Inductive, TypeOK
    <2>13. AttemptAccounting'
        <3>1. delivery'.attemptCount <= MaxAttempts
            BY <2>5, <2>8
        <3>2. ASSUME NEW k \in Attempts
              PROVE  /\ (attempts'[k].outcome # "none") = (k <= n)
                     /\ (attempts'[k].outcome = "started") = (k = n)
            BY <2>3, <2>4, <2>12 DEF Inductive, StoreInv, AttemptAccounting, Attempts, n
        <3>3. delivery'.activeAttemptId # NoToken
            BY <2>3, <2>8 DEF id
        <3> QED
            BY <2>5, <2>8, <2>12, <3>1, <3>2, <3>3 DEF AttemptAccounting
    <2>14. OutcomeMatchesAttempts'
        <3>1. \A k \in Attempts : attempts[k].outcome # "succeeded"
            BY <2>3 DEF Inductive, StoreInv, OutcomeMatchesAttempts
        <3>2. \A k \in Attempts : attempts'[k].outcome # "succeeded"
            BY <2>12, <3>1
        <3> QED
            BY <2>3, <2>8, <3>2 DEF OutcomeMatchesAttempts, id
    <2>15. StoreInv'
        <3>1. \A k \in Attempts : requests'[k] <= 1 /\ (k > n => requests'[k] = 0)
            BY <2>1, <2>4 DEF Inductive, StoreInv, Attempts, n, partner
        <3>2. delivery'.version >= 1 /\ delivery'.leaseToken <= delivery'.version
            BY <2>4, <2>8 DEF Inductive, StoreInv, id
        <3>3. n >= 1 /\ (delivery'.state = "in_progress" => delivery'.blockedReason = "NONE")
            BY <2>3, <2>5, <2>8 DEF Inductive, StoreInv
        <3> QED
            BY <2>8, <2>13, <2>14, <3>1, <3>2, <3>3 DEF StoreInv
    <2>16. ASSUME NEW v \in Workers, v # w PROVE SnapshotInv(v)' /\ StepInv(v)'
        <3>1. seen'[v] = seen[v] /\ verdict'[v] = verdict[v] /\ pc'[v] = pc[v]
            BY <2>1, <2>6, <2>16 DEF Inductive, TypeOK
        <3>2. \A k \in Attempts : attempts[k].outcome # "none" =>
                  attempts'[k].id = attempts[k].id /\ attempts'[k].outcome # "none"
            BY <2>11, <2>12
        <3> QED
            BY <2>1, <2>8, <2>10, <3>1, <3>2, OthersFenced DEF partner
    <2>17. seen'[w] = delivery' /\ pc'[w] = "send"
        BY <2>6 DEF Inductive, TypeOK
    <2>18. SnapshotInv(w)'
        <3>1. delivery.leaseToken <= delivery.version
            BY DEF Inductive, StoreInv
        <3> QED
            BY <2>4, <2>8, <2>17, <3>1 DEF SnapshotInv, id
    <2>19. StepInv(w)'
        <3>1. requests'[n] = 0
            BY <2>1, <2>4, <2>5 DEF Inductive, StoreInv, n, partner
        <3> QED
            BY <2>3, <2>5, <2>8, <2>12, <2>17, <3>1 DEF StepInv, Preparing, InCall, id
    <2>20. TokenInv'
        <3>1. \A v \in Workers :
                 /\ seen'[v].leaseToken = seen[v].leaseToken
                 /\ pc'[v] \in Preparing \cup InCall => pc[v] \in Preparing \cup InCall
            BY <2>1, <2>2, <2>6, <2>8 DEF Inductive, TypeOK, Preparing, InCall, id
        <3> QED
            BY <3>1 DEF Inductive, TokenInv
    <2> QED
        BY <2>10, <2>15, <2>16, <2>18, <2>19, <2>20 DEF Inductive
<1>2. CASE NotWritten("start", MayStart(w)) /\ Goto(w, "ack") /\ UNCHANGED <<store, seen>>
    <2>1. UNCHANGED <<clock, outbox, sent, queue, msg, verdict, partner>>
        BY DEF StartAttempt
    <2>2. faults' \in Nat /\ deferrals' \in Nat
        BY <1>2 DEF Inductive, TypeOK, NotWritten, Fault, budget
    <2>3. TypeOK' /\ sent' <= outbox'
        BY <1>2, <2>1, <2>2 DEF Inductive, TypeOK, Goto, WorkerStep, store, clock, queue, partner
    <2>4. SnapshotInv(w)' /\ StepInv(w)'
        BY <1>2 DEF Inductive, TypeOK, Goto, SnapshotInv, StepInv, Preparing, InCall, store
    <2> QED
        BY <1>2, <2>1, <2>3, <2>4, LocalStep
           DEF Inductive, TypeOK, Goto, Preparing, InCall, store, partner
<1> QED
    BY <1>1, <1>2 DEF StartAttempt

LEMMA ClearedAttempt ==
    ASSUME NEW d \in Delivery
    PROVE  /\ [d EXCEPT !.activeAttemptId = NoToken] \in Delivery
           /\ [d EXCEPT !.activeAttemptId = NoToken].state = d.state
           /\ [d EXCEPT !.activeAttemptId = NoToken].version = d.version
           /\ [d EXCEPT !.activeAttemptId = NoToken].leaseToken = d.leaseToken
           /\ [d EXCEPT !.activeAttemptId = NoToken].attemptCount = d.attemptCount
           /\ [d EXCEPT !.activeAttemptId = NoToken].activeAttemptId = NoToken
    BY DEF Delivery, NoToken

(* Concluding the active attempt, by its worker or by a recovery, into a     *)
(* state that fits its outcome and the attempts left.                        *)
LEMMA ConcludedAttempt ==
    ASSUME Inductive, NEW w \in Workers, MayFinalize(w), seen[w].activeAttemptId # NoToken,
           NEW to, NEW reason \in BlockedReason, NEW outcome, NEW records \in Nat,
           AttemptFinalized(w, to, reason, outcome, records),
           to \in {"succeeded", "retry_scheduled", "failed_terminal", "dead_lettered"},
           outcome \in {"succeeded", "failed"},
           (to = "succeeded") = (outcome = "succeeded"),
           outcome = "succeeded" => seen[w].attemptCount \in accepted,
           to = "dead_lettered" => seen[w].attemptCount >= MaxAttempts,
           to = "retry_scheduled" => seen[w].attemptCount < MaxAttempts,
           pc' = [pc EXCEPT ![w] = "ack"],
           UNCHANGED <<leaseExpired, leasedFrom, sent, queue, msg, seen, verdict, partner, budget>>
    PROVE  Inductive'
<1> DEFINE n == delivery.attemptCount
<1>1. seen[w] = delivery
    BY OwnerSawDelivery DEF MayFinalize
<1>2. delivery.state = "in_progress" /\ delivery.activeAttemptId # NoToken
    BY <1>1 DEF Inductive, StoreInv, AttemptAccounting
<1>3. n \in 1..MaxAttempts /\ n \in Attempts /\ n \in Nat
    BY <1>2, AttemptsAssumption
       DEF Inductive, TypeOK, Delivery, StoreInv, AttemptAccounting, Attempts
<1>4. /\ attempts' = [attempts EXCEPT ![n].outcome = outcome]
      /\ outbox' = outbox + records
      /\ due' = (records = 0)
    BY <1>1 DEF AttemptFinalized
<1>5. /\ delivery' \in Delivery
      /\ delivery'.version = delivery.version + 1
      /\ delivery'.state = to
      /\ delivery'.leaseToken = NoToken
      /\ delivery'.attemptCount = n
      /\ delivery'.activeAttemptId = NoToken
    <2> DEFINE d == Transition(delivery, to, NoToken, reason)
    <2>1. delivery \in Delivery /\ to \in DeliveryState /\ NoToken \in Nat
        BY DEF Inductive, TypeOK, DeliveryState, NoToken
    <2>2. /\ d \in Delivery
          /\ d.version = delivery.version + 1
          /\ d.state = to
          /\ d.leaseToken = NoToken
          /\ d.attemptCount = n
        BY <2>1, TransitionType
    <2>3. delivery' = [d EXCEPT !.activeAttemptId = NoToken]
        BY DEF AttemptFinalized
    <2> HIDE DEF d
    <2> QED
        BY <2>2, <2>3, ClearedAttempt
<1> HIDE DEF n
<1>6. \A k \in Attempts :
         /\ attempts'[k].id = attempts[k].id
         /\ k = n => attempts'[k].outcome = outcome
         /\ k # n => attempts'[k].outcome = attempts[k].outcome
    BY <1>3, <1>4 DEF Inductive, TypeOK, Attempt
<1>7. TypeOK' /\ sent' <= outbox'
    <2>1. attempts' \in [Attempts -> Attempt]
        BY <1>3, <1>4 DEF Inductive, TypeOK, Attempt, Outcome
    <2>2. outbox' \in Nat /\ sent' <= outbox'
        BY <1>4 DEF Inductive, TypeOK
    <2>3. due' \in BOOLEAN
        BY <1>4
    <2>4. pc' \in [Workers -> WorkerStep]
        BY DEF Inductive, TypeOK, WorkerStep
    <2> QED
        BY <1>5, <2>1, <2>2, <2>3, <2>4 DEF Inductive, TypeOK, queue, partner, budget
<1>8. attempts[n].outcome = "started"
    BY <1>1 DEF MayFinalize, n
<1>9. AttemptAccounting'
    <2>1. ASSUME NEW k \in Attempts
          PROVE  /\ (attempts'[k].outcome # "none") = (k <= n)
                 /\ attempts'[k].outcome # "started"
        BY <1>2, <1>3, <1>6 DEF Inductive, StoreInv, AttemptAccounting, n
    <2> QED
        BY <1>3, <1>5, <2>1 DEF AttemptAccounting
<1>10. OutcomeMatchesAttempts'
    <2>1. \A k \in Attempts : attempts[k].outcome # "succeeded"
        BY <1>2 DEF Inductive, StoreInv, OutcomeMatchesAttempts
    <2>2. \A k \in Attempts : attempts'[k].outcome = "succeeded" <=> (k = n /\ outcome = "succeeded")
        BY <1>6, <2>1
    <2>3. accepted' = accepted /\ (outcome = "succeeded" => n \in accepted)
        BY <1>1 DEF partner, n
    <2>4. to = "dead_lettered" => n = MaxAttempts
        BY <1>1, <1>3, AttemptsAssumption DEF n
    <2>5. to \notin TerminalState => n < MaxAttempts
        BY <1>1 DEF TerminalState, n
    <2> QED
        BY <1>3, <1>5, <2>2, <2>3, <2>4, <2>5 DEF OutcomeMatchesAttempts
<1>11. StoreInv'
    <2>1. \A k \in Attempts : requests'[k] <= 1 /\ (k > n => requests'[k] = 0)
        BY DEF Inductive, StoreInv, n, partner
    <2>2. delivery'.version >= 1 /\ NoToken <= delivery'.version
        BY <1>5 DEF Inductive, StoreInv, TypeOK, Delivery, NoToken
    <2>3. to # "in_progress"
        OBVIOUS
    <2> QED
        BY <1>5, <1>9, <1>10, <2>1, <2>2, <2>3 DEF StoreInv
<1>12. \A v \in Workers : pc'[v] = pc[v] \/ pc'[v] = "ack"
    BY DEF Inductive, TypeOK
<1>13. \A k \in Attempts : attempts[k].outcome # "none" =>
          attempts'[k].id = attempts[k].id /\ attempts'[k].outcome # "none"
    BY <1>6
<1> QED
    BY <1>5, <1>7, <1>11, <1>12, <1>13, LastWrite DEF partner

(* The state an answer leads to fits the answer and the attempts left.       *)
LEMMA StateAfterAnswer ==
    ASSUME NEW d, NEW answer \in Answer, d.attemptCount \in Nat, NEW max \in Nat
    PROVE  LET to == StateAfter(d, answer, max)
           IN  /\ to \in {"succeeded", "retry_scheduled", "failed_terminal", "dead_lettered"}
               /\ (to = "succeeded") = (AttemptOutcome(answer) = "succeeded")
               /\ to = "succeeded" => answer = "success"
               /\ to = "dead_lettered" => d.attemptCount >= max
               /\ to = "retry_scheduled" => d.attemptCount < max
    BY DEF StateAfter, Exhausted, Retryable, Answer, AttemptOutcome

(* Finalizing an attempt.                                                    *)
LEMMA FinalizeStep ==
    ASSUME Inductive, NEW w \in Workers, Finalize(w)
    PROVE  Inductive'
<1> DEFINE answer == verdict[w]
           to == StateAfter(seen[w], answer, MaxAttempts)
<1>1. pc[w] = "finalize" /\ UNCHANGED <<sent, partner>>
    BY DEF Finalize
<1>2. /\ answer \in Answer
      /\ answer = "success" => seen[w].attemptCount \in accepted
      /\ seen[w].activeAttemptId # NoToken
    BY <1>1 DEF Inductive, StepInv, Preparing, InCall
<1>3. CASE /\ MayFinalize(w)
           /\ AttemptFinalized(w, to, ReasonAfter(answer), AttemptOutcome(answer),
                               RetryRecords(answer))
           /\ Goto(w, "ack")
           /\ UNCHANGED <<leaseExpired, leasedFrom, queue, msg, seen, verdict, budget>>
    <2>1. seen[w].attemptCount \in Nat /\ MaxAttempts \in Nat
        BY AttemptsAssumption DEF Inductive, TypeOK, Delivery
    <2>2. /\ to \in {"succeeded", "retry_scheduled", "failed_terminal", "dead_lettered"}
          /\ (to = "succeeded") = (AttemptOutcome(answer) = "succeeded")
          /\ to = "succeeded" => answer = "success"
          /\ to = "dead_lettered" => seen[w].attemptCount >= MaxAttempts
          /\ to = "retry_scheduled" => seen[w].attemptCount < MaxAttempts
        BY <1>2, <2>1, StateAfterAnswer
    <2>3. /\ ReasonAfter(answer) \in BlockedReason
          /\ AttemptOutcome(answer) \in {"succeeded", "failed"}
          /\ RetryRecords(answer) \in Nat
        BY <1>2 DEF ReasonAfter, AttemptOutcome, RetryRecords, BlockedReason, Answer
    <2> HIDE DEF answer, to
    <2>4. pc' = [pc EXCEPT ![w] = "ack"]
        BY <1>3 DEF Goto
    <2> QED
        BY <1>1, <1>2, <1>3, <2>2, <2>3, <2>4, ConcludedAttempt
<1>4. CASE NotWritten("finalize", MayFinalize(w)) /\ Abandon(w) /\ UNCHANGED <<store, clock, outbox>>
    <2>1. faults' \in Nat /\ deferrals' \in Nat
        BY <1>4 DEF Inductive, TypeOK, NotWritten, Fault, budget
    <2>2. holder' \in [Messages -> Workers \cup {NoWorker}] /\ UNCHANGED <<status, receives>>
        BY <1>4 DEF Inductive, TypeOK, Abandon
    <2>3. TypeOK' /\ sent' <= outbox'
        BY <1>1, <1>4, <2>1, <2>2, EndType
           DEF Inductive, TypeOK, Abandon, store, clock, partner
    <2> QED
        BY <1>1, <1>4, <2>3, EndStep DEF Abandon
<1> QED
    BY <1>3, <1>4 DEF Finalize

(* Recovering an expired lease.                                              *)
LEMMA RecoverCommitStep ==
    ASSUME Inductive, NEW w \in Workers, RecoverCommit(w)
    PROVE  Inductive'
<1>1. /\ pc[w] = "recoverCommit"
      /\ pc' = [pc EXCEPT ![w] = "ack"]
      /\ UNCHANGED <<sent, queue, msg, seen, verdict, partner>>
    BY DEF RecoverCommit, Goto
<1>2. CASE /\ RecoverableAttempt(w)
           /\ IF Exhausted(seen[w], "retryable", MaxAttempts)
              THEN AttemptFinalized(w, "dead_lettered", "TIMEOUT", "failed", 0)
              ELSE AttemptFinalized(w, "retry_scheduled", "TIMEOUT", "failed", 1)
           /\ UNCHANGED <<leaseExpired, leasedFrom, budget>>
    <2>1. seen[w].attemptCount \in Nat /\ MaxAttempts \in Nat /\ "TIMEOUT" \in BlockedReason
        BY AttemptsAssumption DEF Inductive, TypeOK, Delivery, BlockedReason
    <2>2. MayFinalize(w) /\ seen[w].activeAttemptId # NoToken
        BY <1>2 DEF RecoverableAttempt
    <2>3. CASE Exhausted(seen[w], "retryable", MaxAttempts)
        <3>1. seen[w].attemptCount >= MaxAttempts
            BY <2>3 DEF Exhausted
        <3> QED
            BY <1>1, <1>2, <2>1, <2>2, <2>3, <3>1, ConcludedAttempt
    <2>4. CASE ~Exhausted(seen[w], "retryable", MaxAttempts)
        <3>1. seen[w].attemptCount < MaxAttempts
            BY <2>1, <2>4 DEF Exhausted, Retryable
        <3> QED
            BY <1>1, <1>2, <2>1, <2>2, <2>4, <3>1, ConcludedAttempt
    <2> QED
        BY <2>3, <2>4
<1>3. CASE /\ RecoverableLease(w)
           /\ delivery' = Transition(delivery, "scheduled", NoToken, "NONE")
           /\ outbox' = outbox + 1
           /\ due' = TRUE
           /\ UNCHANGED <<attempts, leaseExpired, leasedFrom, budget>>
    <2>1. seen[w] = delivery
        BY <1>3, OwnerSawDelivery DEF RecoverableLease
    <2>2. delivery.state = "in_progress" /\ delivery.activeAttemptId = NoToken
        BY <1>1, <1>3, <2>1 DEF Inductive, StepInv, RecoverableLease
    <2>3. /\ delivery' \in Delivery
          /\ delivery'.version = delivery.version + 1
          /\ delivery'.state = "scheduled"
          /\ delivery'.leaseToken = NoToken
          /\ delivery'.attemptCount = delivery.attemptCount
          /\ delivery'.activeAttemptId = delivery.activeAttemptId
        <3>1. delivery \in Delivery
            BY DEF Inductive, TypeOK
        <3>2. "scheduled" \in DeliveryState /\ "NONE" \in BlockedReason /\ NoToken \in Nat
            BY DEF DeliveryState, BlockedReason, NoToken
        <3> QED
            BY <1>3, <3>1, <3>2, TransitionType
    <2>4. TypeOK' /\ sent' <= outbox'
        <3>1. outbox' \in Nat /\ sent' <= outbox'
            BY <1>1, <1>3 DEF Inductive, TypeOK
        <3>2. pc' \in [Workers -> WorkerStep]
            BY <1>1 DEF Inductive, TypeOK, WorkerStep
        <3> QED
            BY <1>1, <1>3, <2>3, <3>1, <3>2 DEF Inductive, TypeOK, queue, partner, budget
    <2>5. StoreInv'
        BY <1>1, <1>3, <2>2, <2>3, <2>4, UnstartedStore
           DEF Inductive, TypeOK, Delivery, TerminalState, NoToken, partner
    <2> QED
        BY <1>1, <1>3, <2>3, <2>4, <2>5, LastWrite DEF Inductive, TypeOK, partner
<1>4. CASE /\ NotWritten("recover", RecoverableAttempt(w) \/ RecoverableLease(w))
           /\ UNCHANGED <<store, clock, outbox>>
    <2>1. faults' \in Nat /\ deferrals' \in Nat
        BY <1>4 DEF Inductive, TypeOK, NotWritten, Fault, budget
    <2>2. TypeOK' /\ sent' <= outbox'
        BY <1>1, <1>4, <2>1 DEF Inductive, TypeOK, WorkerStep, store, clock, queue, partner
    <2>3. SnapshotInv(w)' /\ StepInv(w)'
        BY <1>1, <1>4 DEF Inductive, TypeOK, SnapshotInv, StepInv, Preparing, InCall, store
    <2> QED
        BY <1>1, <1>4, <2>2, <2>3, LocalStep
           DEF Inductive, TypeOK, Preparing, InCall, store, partner
<1> QED
    BY <1>2, <1>3, <1>4 DEF RecoverCommit

-------------------------------------------------------------------------------
(* The invariant holds.                                                      *)

LEMMA NextInductive == Inductive /\ [Next]_vars => Inductive'
<1> SUFFICES ASSUME Inductive, [Next]_vars PROVE Inductive'
    OBVIOUS
<1>1. ASSUME NEW w \in Workers, Deliver(w) \/ Crash(w) PROVE Inductive'
    BY <1>1, ReadStep, LeaseStep, CheckStep, DeferStep, StartStep, SendStep, FinalizeStep,
       RecoverReadStep, RecoverCommitStep, FinishSteps DEF Deliver
<1>2. CASE Queue
    BY <1>2, PublisherSteps, MessageSteps, ReceiveStep DEF Queue
<1>3. CASE Clock
    BY <1>3, ClockSteps
<1>4. CASE ResumeDestination
    BY <1>4, ResumeStep
<1>5. CASE UNCHANGED vars
    <2>1. TypeOK' /\ sent' <= outbox'
        BY <1>5 DEF Inductive, TypeOK, vars, store, clock, queue, worker, partner, budget
    <2> QED
        BY <1>5, <2>1, QuietStep DEF vars, store, worker, partner
<1> QED
    BY <1>1, <1>2, <1>3, <1>4, <1>5 DEF Next

LEMMA InductiveHolds == Spec => []Inductive
    BY InitInductive, NextInductive, PTL DEF Spec

-------------------------------------------------------------------------------
(* What a step may do to the stored records.                                 *)

(* Nothing, or move a delivery between states in which it has no attempt.    *)
Rescheduled ==
    /\ UNCHANGED <<attempts, accepted>>
    /\ \/ UNCHANGED delivery
       \/ /\ {delivery.state, delivery'.state} \cap TerminalState = {}
          /\ delivery'.attemptCount = delivery.attemptCount
          /\ delivery'.activeAttemptId = delivery.activeAttemptId

(* Start the next attempt.                                                   *)
Started ==
    /\ {delivery.state, delivery'.state} \cap TerminalState = {}
    /\ delivery.activeAttemptId = NoToken
    /\ delivery'.activeAttemptId # NoToken
    /\ delivery.attemptCount < MaxAttempts
    /\ delivery'.attemptCount = delivery.attemptCount + 1
    /\ \A n \in Attempts : attempts[n].outcome # "none" => attempts'[n] = attempts[n]
    /\ UNCHANGED accepted

(* Conclude the active attempt.                                              *)
Concluded ==
    /\ delivery.state = "in_progress"
    /\ delivery.activeAttemptId # NoToken
    /\ delivery'.activeAttemptId = NoToken
    /\ delivery'.attemptCount = delivery.attemptCount
    /\ delivery'.state \in {"succeeded", "retry_scheduled", "failed_terminal", "dead_lettered"}
    /\ delivery'.state = "succeeded" => delivery.attemptCount \in accepted
    /\ delivery'.state = "dead_lettered" => delivery.attemptCount = MaxAttempts
    /\ delivery'.state = "retry_scheduled" => delivery.attemptCount < MaxAttempts
    /\ \A n \in Attempts : attempts[n].outcome # "started" => attempts'[n] = attempts[n]
    /\ UNCHANGED accepted

(* Have the partner process a started attempt.                               *)
Processed ==
    /\ UNCHANGED <<delivery, attempts>>
    /\ \E n \in 1..MaxAttempts :
          n <= delivery.attemptCount /\ accepted' = accepted \cup {n}

(* The new state of a transition, and what it carries over.                  *)
LEMMA TransitionFields ==
    ASSUME Inductive, NEW to \in DeliveryState, NEW token \in Nat, NEW reason \in BlockedReason,
           delivery' = Transition(delivery, to, token, reason)
    PROVE  /\ delivery'.state = to
           /\ delivery'.attemptCount = delivery.attemptCount
           /\ delivery'.activeAttemptId = delivery.activeAttemptId
    BY TransitionType DEF Inductive, TypeOK

LEMMA RescheduleSteps ==
    ASSUME Inductive, NEW w \in Workers,
           AcquireLease(w) \/ Defer(w)
    PROVE  Rescheduled
<1> USE DEF Rescheduled
<1>1. /\ {"in_progress", "scheduled", "rate_limited"} \subseteq DeliveryState
      /\ {"in_progress", "scheduled", "rate_limited"} \cap TerminalState = {}
      /\ "NONE" \in BlockedReason
      /\ NoToken \in Nat
      /\ delivery.version + 1 \in Nat
    BY DEF DeliveryState, TerminalState, BlockedReason, NoToken, Inductive, TypeOK, Delivery
<1>2. CASE AcquireLease(w)
    <2>1. CASE Leasable(w) /\ LeaseCommitted(w)
        <3>1. delivery' = Transition(delivery, "in_progress", delivery.version + 1, "NONE")
            BY <2>1 DEF LeaseCommitted
        <3>2. delivery.state \notin TerminalState
            BY <2>1 DEF Leasable, TerminalState
        <3>3. UNCHANGED <<attempts, accepted>>
            BY <2>1 DEF LeaseCommitted, partner
        <3> QED
            BY <1>1, <3>1, <3>2, <3>3, TransitionFields
    <2>2. CASE LeaseThrows(w) \/ UNCHANGED <<store, partner>>
        BY <2>2 DEF LeaseThrows, store, partner
    <2> QED
        BY <1>2, <2>1, <2>2 DEF AcquireLease
<1>3. CASE Defer(w)
    <2> DEFINE to == DeferredState(verdict[w])
               reason == DeferredReason(verdict[w])
    <2>1. reason \in BlockedReason /\ to \in {"scheduled", "rate_limited"}
        BY <1>3 DEF Defer, Inductive, StepInv, Refused, DeferredReason, DeferredState,
                    BlockedReason
    <2>2. CASE /\ OwnsLease(w)
               /\ delivery' = Transition(delivery, to, NoToken, reason)
               /\ UNCHANGED <<attempts>>
        <3>1. delivery.state = "in_progress"
            BY <1>3, <2>2, OwnerSawDelivery DEF Defer, Inductive, StepInv, Preparing
        <3>2. UNCHANGED <<attempts, accepted>>
            BY <1>3, <2>2 DEF Defer, partner
        <3> HIDE DEF to, reason
        <3> QED
            BY <1>1, <2>1, <2>2, <3>1, <3>2, TransitionFields
    <2>3. CASE UNCHANGED store
        BY <1>3, <2>3 DEF Defer, store, partner
    <2> QED
        BY <1>3, <2>2, <2>3 DEF Defer
<1> QED
    BY <1>2, <1>3

LEMMA StartShape ==
    ASSUME Inductive, NEW w \in Workers, StartAttempt(w)
    PROVE  Rescheduled \/ Started
<1>1. CASE MayStart(w) /\ AttemptStarted(w)
    <2>1. pc[w] = "start" /\ UNCHANGED accepted
        BY DEF StartAttempt, partner
    <2>2. seen[w] = delivery
        BY <1>1, OwnerSawDelivery DEF MayStart
    <2>3. /\ delivery.state = "in_progress"
          /\ delivery.activeAttemptId = NoToken
          /\ delivery.leaseToken # NoToken
          /\ delivery.attemptCount < MaxAttempts
        BY <2>1, <2>2 DEF Inductive, StepInv, Preparing
    <2>4. /\ delivery' = [delivery EXCEPT !.attemptCount = delivery.attemptCount + 1,
                                          !.activeAttemptId = delivery.leaseToken,
                                          !.version = @ + 1]
          /\ attempts' = [attempts EXCEPT ![delivery.attemptCount + 1] =
                              [id |-> delivery.leaseToken, outcome |-> "started"]]
        BY <1>1, <2>2, Zenon DEF AttemptStarted, NextAttempt
    <2>5. /\ delivery'.state = "in_progress"
          /\ delivery'.attemptCount = delivery.attemptCount + 1
          /\ delivery'.activeAttemptId # NoToken
        BY <2>3, <2>4 DEF Inductive, TypeOK, Delivery
    <2>6. attempts[delivery.attemptCount + 1].outcome = "none"
        BY <1>1, <2>2 DEF MayStart, NextAttempt
    <2>7. \A n \in Attempts : attempts[n].outcome # "none" => attempts'[n] = attempts[n]
        BY <2>4, <2>6 DEF Inductive, TypeOK
    <2> QED
        BY <2>1, <2>3, <2>5, <2>7 DEF Started, TerminalState
<1>2. CASE UNCHANGED store
    BY <1>2 DEF StartAttempt, Rescheduled, store, partner
<1> QED
    BY <1>1, <1>2 DEF StartAttempt

(* The writes of finalizeAttempt, whoever calls it.                          *)
LEMMA ConcludedShape ==
    ASSUME Inductive, NEW w \in Workers, MayFinalize(w), seen[w].activeAttemptId # NoToken,
           NEW to, NEW reason \in BlockedReason, NEW outcome, NEW records \in Nat,
           AttemptFinalized(w, to, reason, outcome, records), UNCHANGED accepted,
           to \in {"succeeded", "retry_scheduled", "failed_terminal", "dead_lettered"},
           to = "succeeded" => seen[w].attemptCount \in accepted,
           to = "dead_lettered" => seen[w].attemptCount >= MaxAttempts,
           to = "retry_scheduled" => seen[w].attemptCount < MaxAttempts
    PROVE  Concluded
<1>1. seen[w] = delivery
    BY OwnerSawDelivery DEF MayFinalize
<1>2. delivery.state = "in_progress" /\ delivery.activeAttemptId # NoToken
    BY <1>1 DEF Inductive, StoreInv, AttemptAccounting
<1>3. delivery.attemptCount \in Nat /\ delivery.attemptCount <= MaxAttempts
    BY DEF Inductive, TypeOK, Delivery, StoreInv, AttemptAccounting
<1>4. /\ delivery'.state = to
      /\ delivery'.attemptCount = delivery.attemptCount
      /\ delivery'.activeAttemptId = NoToken
    <2> DEFINE d == Transition(delivery, to, NoToken, reason)
    <2>1. delivery \in Delivery /\ to \in DeliveryState /\ NoToken \in Nat
        BY DEF Inductive, TypeOK, DeliveryState, NoToken
    <2>2. d \in Delivery /\ d.state = to /\ d.attemptCount = delivery.attemptCount
        BY <2>1, TransitionType
    <2>3. delivery' = [d EXCEPT !.activeAttemptId = NoToken]
        BY DEF AttemptFinalized
    <2> HIDE DEF d
    <2> QED
        BY <2>2, <2>3, ClearedAttempt
<1>5. attempts[delivery.attemptCount].outcome = "started"
    BY <1>1 DEF MayFinalize
<1>6. attempts' = [attempts EXCEPT ![delivery.attemptCount].outcome = outcome]
    BY <1>1 DEF AttemptFinalized
<1>7. \A n \in Attempts : attempts[n].outcome # "started" => attempts'[n] = attempts[n]
    BY <1>5, <1>6 DEF Inductive, TypeOK
<1> QED
    BY <1>1, <1>2, <1>3, <1>4, <1>7, AttemptsAssumption DEF Concluded

LEMMA FinalizeShape ==
    ASSUME Inductive, NEW w \in Workers, Finalize(w)
    PROVE  Rescheduled \/ Concluded
<1> DEFINE answer == verdict[w]
           to == StateAfter(seen[w], answer, MaxAttempts)
<1>1. pc[w] = "finalize" /\ UNCHANGED accepted
    BY DEF Finalize, partner
<1>2. /\ answer \in Answer
      /\ answer = "success" => seen[w].attemptCount \in accepted
      /\ seen[w].activeAttemptId # NoToken
    BY <1>1 DEF Inductive, StepInv, Preparing, InCall
<1>3. CASE /\ MayFinalize(w)
           /\ AttemptFinalized(w, to, ReasonAfter(answer), AttemptOutcome(answer),
                               RetryRecords(answer))
    <2>1. seen[w].attemptCount \in Nat /\ MaxAttempts \in Nat
        BY AttemptsAssumption DEF Inductive, TypeOK, Delivery
    <2>2. /\ to \in {"succeeded", "retry_scheduled", "failed_terminal", "dead_lettered"}
          /\ to = "succeeded" => answer = "success"
          /\ to = "dead_lettered" => seen[w].attemptCount >= MaxAttempts
          /\ to = "retry_scheduled" => seen[w].attemptCount < MaxAttempts
        BY <1>2, <2>1, StateAfterAnswer
    <2>3. ReasonAfter(answer) \in BlockedReason /\ RetryRecords(answer) \in Nat
        BY <1>2 DEF ReasonAfter, RetryRecords, BlockedReason, Answer
    <2> HIDE DEF answer, to
    <2> QED
        BY <1>1, <1>2, <1>3, <2>2, <2>3, ConcludedShape
<1>4. CASE UNCHANGED store
    BY <1>1, <1>4 DEF Rescheduled, store
<1> QED
    BY <1>3, <1>4 DEF Finalize

LEMMA RecoverShape ==
    ASSUME Inductive, NEW w \in Workers, RecoverCommit(w)
    PROVE  Rescheduled \/ Concluded
<1>1. pc[w] = "recoverCommit" /\ UNCHANGED accepted
    BY DEF RecoverCommit, partner
<1>2. CASE /\ RecoverableAttempt(w)
           /\ IF Exhausted(seen[w], "retryable", MaxAttempts)
              THEN AttemptFinalized(w, "dead_lettered", "TIMEOUT", "failed", 0)
              ELSE AttemptFinalized(w, "retry_scheduled", "TIMEOUT", "failed", 1)
    <2>1. seen[w].attemptCount \in Nat /\ MaxAttempts \in Nat /\ "TIMEOUT" \in BlockedReason
        BY AttemptsAssumption DEF Inductive, TypeOK, Delivery, BlockedReason
    <2>2. MayFinalize(w) /\ seen[w].activeAttemptId # NoToken
        BY <1>2 DEF RecoverableAttempt
    <2>3. CASE Exhausted(seen[w], "retryable", MaxAttempts)
        <3>1. seen[w].attemptCount >= MaxAttempts
            BY <2>3 DEF Exhausted
        <3> QED
            BY <1>1, <1>2, <2>1, <2>2, <2>3, <3>1, ConcludedShape
    <2>4. CASE ~Exhausted(seen[w], "retryable", MaxAttempts)
        <3>1. seen[w].attemptCount < MaxAttempts
            BY <2>1, <2>4 DEF Exhausted, Retryable
        <3> QED
            BY <1>1, <1>2, <2>1, <2>2, <2>4, <3>1, ConcludedShape
    <2> QED
        BY <2>3, <2>4
<1>3. CASE /\ RecoverableLease(w)
           /\ delivery' = Transition(delivery, "scheduled", NoToken, "NONE")
           /\ UNCHANGED attempts
    <2>1. delivery.state = "in_progress"
        BY <1>1, <1>3, OwnerSawDelivery DEF Inductive, StepInv, RecoverableLease
    <2>2. "scheduled" \in DeliveryState /\ "NONE" \in BlockedReason /\ NoToken \in Nat
        BY DEF DeliveryState, BlockedReason, NoToken
    <2> QED
        BY <1>1, <1>3, <2>1, <2>2, TransitionFields DEF Rescheduled, TerminalState
<1>4. CASE UNCHANGED store
    BY <1>1, <1>4 DEF Rescheduled, store
<1> QED
    BY <1>2, <1>3, <1>4 DEF RecoverCommit

LEMMA SendShape ==
    ASSUME Inductive, NEW w \in Workers, Send(w)
    PROVE  Rescheduled \/ Processed
<1> DEFINE n == seen[w].attemptCount
<1>1. pc[w] = "send" /\ UNCHANGED <<delivery, attempts>>
    BY DEF Send, store
<1>2. n \in 1..MaxAttempts /\ attempts[n].outcome # "none"
    BY <1>1 DEF Inductive, StepInv, InCall
<1>3. n <= delivery.attemptCount
    BY <1>2, AttemptsAssumption DEF Inductive, StoreInv, AttemptAccounting, Attempts
<1>4. UNCHANGED accepted \/ accepted' = accepted \cup {n}
    BY DEF Send, partner
<1> QED
    BY <1>1, <1>2, <1>3, <1>4 DEF Rescheduled, Processed

LEMMA StepShape ==
    ASSUME Inductive, [Next]_vars
    PROVE  Rescheduled \/ Started \/ Concluded \/ Processed
<1>1. ASSUME NEW w \in Workers, Deliver(w) \/ Crash(w)
      PROVE  Rescheduled \/ Started \/ Concluded \/ Processed
    <2>1. CASE Read(w) \/ Check(w) \/ RecoverRead(w) \/ Ack(w) \/ Return(w) \/ Crash(w)
        BY <2>1 DEF Read, Check, RecoverRead, Ack, Return, Crash, Rescheduled, store, partner
    <2> QED
        BY <1>1, <2>1, RescheduleSteps, StartShape, SendShape, FinalizeShape, RecoverShape
           DEF Deliver
<1>2. CASE Queue
    BY <1>2 DEF Queue, MarkPublished, PublisherCrash, PublishSend, DelayElapses,
                VisibilityTimeout, DeadLetter, Redrive, Receive, Rescheduled, store, partner
<1>3. CASE Clock
    BY <1>3 DEF Clock, BecomesDue, LeaseExpires, Rescheduled, store, partner
<1>4. CASE ResumeDestination
    <2>1. /\ delivery' = Transition(delivery, "scheduled", NoToken, "NONE")
          /\ delivery.state \notin TerminalState
          /\ UNCHANGED <<attempts, accepted>>
        BY <1>4 DEF ResumeDestination, partner
    <2>2. "scheduled" \in DeliveryState /\ "NONE" \in BlockedReason /\ NoToken \in Nat
        BY DEF DeliveryState, BlockedReason, NoToken
    <2> QED
        BY <2>1, <2>2, TransitionFields DEF Rescheduled, TerminalState
<1>5. CASE UNCHANGED vars
    BY <1>5 DEF vars, Rescheduled, store, partner
<1> QED
    BY <1>1, <1>2, <1>3, <1>4, <1>5 DEF Next

-------------------------------------------------------------------------------
(* The theorems.                                                             *)

(* Every reachable state of the delivery, its workers and its queue is typed.*)
THEOREM TypeCorrect == Spec => []TypeOK
    BY InductiveHolds, PTL DEF Inductive

(* The attempt records always agree with the delivery that counts them.      *)
THEOREM AttemptsAccounted == Spec => []AttemptAccounting
    BY InductiveHolds, PTL DEF Inductive, StoreInv

(* A delivery's outcome is always what its attempts say.                     *)
THEOREM OutcomesMatch == Spec => []OutcomeMatchesAttempts
    BY InductiveHolds, PTL DEF Inductive, StoreInv

(* No attempt is sent to the partner twice, and none before it is recorded.  *)
THEOREM SentOnce == Spec => []SendsOnce
<1>1. Inductive => SendsOnce
    BY SMTT(60) DEF Inductive, TypeOK, Delivery, StoreInv, AttemptAccounting, SendsOnce, Attempts
<1> QED
    BY <1>1, InductiveHolds, PTL

(* However many workers run, at most one of them can still write.            *)
THEOREM LeaseExcludes == Spec => []LeaseExclusive
<1>1. Inductive => LeaseExclusive
    BY DEF Inductive, TokenInv, LeaseExclusive, OwnsLease, Preparing, InCall
<1> QED
    BY <1>1, InductiveHolds, PTL

(* Concluded attempts and ended deliveries never change again.               *)
THEOREM OutcomesAreFinal == Spec => OutcomeFinal
<1> DEFINE Final == /\ delivery.state \in TerminalState => UNCHANGED delivery
                    /\ \A n \in Attempts :
                          attempts[n].outcome \in {"succeeded", "failed"} =>
                              attempts'[n] = attempts[n]
<1>1. ASSUME Inductive, [Next]_vars PROVE Final
    <2>1. CASE Rescheduled
        BY <2>1 DEF Rescheduled
    <2>2. CASE Started
        BY <2>2 DEF Started
    <2>3. CASE Concluded
        BY <2>3 DEF Concluded, TerminalState
    <2>4. CASE Processed
        BY <2>4 DEF Processed
    <2> QED
        BY <1>1, <2>1, <2>2, <2>3, <2>4, StepShape
<1>2. Inductive /\ [Next]_vars => [Final]_vars
    BY <1>1
<1> QED
    BY <1>2, InductiveHolds, PTL DEF Spec, OutcomeFinal

(* The workers, the queue and the publishers together implement the contract *)
(* of one delivery.                                                          *)
THEOREM ContractImplemented == Spec => ImplementsContract
<1>1. Init => Abstract!Open
    BY DEF Init, Abstract!Open, InitialDelivery, TerminalState, NoToken
<1>2. ASSUME Inductive, [Next]_vars
      PROVE  [Abstract!Begin \/ Abstract!Conclude
                 \/ \E n \in 1..MaxAttempts : Abstract!Process(n)]_Abstract!contract
    <2>1. CASE Rescheduled
        BY <2>1 DEF Rescheduled, Abstract!contract
    <2>2. CASE Started
        BY <2>2 DEF Started, Abstract!Begin
    <2>3. CASE Concluded
        BY <2>3 DEF Concluded, Abstract!Conclude, TerminalState
    <2>4. CASE Processed
        BY <2>4 DEF Processed, Abstract!Process
    <2> QED
        BY <1>2, <2>1, <2>2, <2>3, <2>4, StepShape
<1>3. Inductive /\ [Next]_vars =>
          [Abstract!Begin \/ Abstract!Conclude
              \/ \E n \in 1..MaxAttempts : Abstract!Process(n)]_Abstract!contract
    BY <1>2
<1> QED
    BY <1>1, <1>3, InductiveHolds, PTL DEF Spec, ImplementsContract, Abstract!Contract
===============================================================================
