---------------------------- MODULE DeliveryWorker ----------------------------
(***************************************************************************)
(* One delivery execution, the delivery workers that process its queue     *)
(* messages, the queue, and the transactional outbox that feeds the queue. *)
(*                                                                         *)
(* A worker is a run of DeliveryService.deliver (packages/application) for *)
(* one received message.  It suspends at every await, so each read, each   *)
(* conditional write and the partner call is a step of its own, and any    *)
(* other worker, a crash or the passing of an instant may come between.    *)
(* A conditional write (packages/persistence) is one DynamoDB transaction: *)
(* it changes the delivery, its attempt record and the outbox together or  *)
(* not at all.                                                             *)
(*                                                                         *)
(* What other parts of the system decide is nondeterministic here: the     *)
(* destination check and the circuit and rate permits (which verdict), the *)
(* partner (which answer), the clock (when an instant passes).             *)
(***************************************************************************)
EXTENDS DeliveryDomain, FiniteSets

CONSTANTS
    Workers,        \* concurrent runs of deliver()
    Messages,       \* the queue's message slots: at most this many are alive
    MaxAttempts,    \* delivery.maxAttempts, from the destination's retry policy
    MaxReceives,    \* the queue's maxReceiveCount: then a message is redriven
    Refusals,       \* which checks may refuse: "disabled", "circuit", "rate"
    CancelOps,      \* operations whose transaction may be cancelled although
                    \* its conditions hold (conflict, throttling)
    EarlyRedelivery,\* whether a message may be received again while it is held
    MaxFaults,      \* bound on crashes, cancellations, late leases, redeliveries
    MaxDeferrals,   \* bound on refusals
    NoWorker, NoMessage

CancellableOp == {"lease", "defer", "start", "finalize", "recover"}

ASSUME NullAssumption == NoWorker \notin Workers /\ NoMessage \notin Messages
ASSUME AttemptsAssumption == MaxAttempts \in Nat \ {0}
ASSUME ReceivesAssumption == MaxReceives \in Nat \ {0}
ASSUME EnvironmentAssumption ==
    /\ Refusals \subseteq {"disabled", "circuit", "rate"}
    /\ CancelOps \subseteq CancellableOp
    /\ EarlyRedelivery \in BOOLEAN
    /\ MaxFaults \in Nat
    /\ MaxDeferrals \in Nat

VARIABLES
    delivery,       \* the DELIVERY item
    attempts,       \* the DELIVERY_ATTEMPT items: attempt number -> id, outcome
    leaseExpired,   \* delivery.leaseExpiresAt is not in the future
    leasedFrom,     \* the message whose processing acquired the current lease
    due,            \* delivery.nextEligibleAt is absent or not in the future
    outbox,         \* how many OUTBOX items of this delivery are unpublished
    sent,           \* how many of those are in the queue but not yet marked
    status,         \* message slot -> where the message is
    holder,         \* message slot -> the worker whose receipt is current
    receives,       \* message slot -> its receive count
    pc, msg,        \* worker -> its next step, the message it processes
    seen,           \* worker -> the delivery as it last read or wrote it
    verdict,        \* worker -> what its checks or the partner answered
    requests,       \* attempt number -> requests the partner received (history)
    accepted,       \* the attempts the partner answered with success (history)
    faults, deferrals

store == <<delivery, attempts>>
clock == <<leaseExpired, leasedFrom, due>>
queue == <<status, holder, receives>>
worker == <<pc, msg, seen, verdict>>
partner == <<requests, accepted>>
budget == <<faults, deferrals>>
vars == <<store, clock, outbox, sent, queue, worker, partner, budget>>

-------------------------------------------------------------------------------
MessageStatus == {"none", "delayed", "visible", "held", "dead"}
Outcome == {"none", "started", "succeeded", "failed"}
Attempt == [id : Nat, outcome : Outcome]
(* One more than the policy permits, so that a delivery that overshoots is   *)
(* seen to do so.                                                            *)
Attempts == 1..(MaxAttempts + 1)
WorkerStep ==
    {"idle", "read", "lease", "check", "defer", "start", "send", "finalize",
     "recover", "recoverCommit", "ack", "return"}
Verdict == {"none"} \cup {"disabled", "circuit", "rate"} \cup Answer

(* The router's delivery (RoutingService.route): scheduled, due at once,     *)
(* with one DELIVER outbox record committed in the same transaction.         *)
InitialDelivery ==
    [ state |-> "scheduled", version |-> 1, attemptCount |-> 0,
      leaseToken |-> NoToken, activeAttemptId |-> NoToken,
      blockedReason |-> "NONE" ]
NoSnapshot == [InitialDelivery EXCEPT !.version = 0]

Init ==
    /\ delivery = InitialDelivery
    /\ attempts = [n \in Attempts |-> [id |-> NoToken, outcome |-> "none"]]
    /\ leaseExpired = FALSE
    /\ leasedFrom = NoMessage
    /\ due = TRUE
    /\ outbox = 1
    /\ sent = 0
    /\ status = [m \in Messages |-> "none"]
    /\ holder = [m \in Messages |-> NoWorker]
    /\ receives = [m \in Messages |-> 0]
    /\ pc = [w \in Workers |-> "idle"]
    /\ msg = [w \in Workers |-> NoMessage]
    /\ seen = [w \in Workers |-> NoSnapshot]
    /\ verdict = [w \in Workers |-> "none"]
    /\ requests = [n \in Attempts |-> 0]
    /\ accepted = {}
    /\ faults = 0
    /\ deferrals = 0

-------------------------------------------------------------------------------
(* Small steps shared by the actions.                                        *)

Goto(w, step) == pc' = [pc EXCEPT ![w] = step]
See(w, d) == seen' = [seen EXCEPT ![w] = d]

(* deliver() is over for worker w, whatever became of its message.           *)
End(w) ==
    /\ Goto(w, "idle")
    /\ msg' = [msg EXCEPT ![w] = NoMessage]
    /\ See(w, NoSnapshot)
    /\ verdict' = [verdict EXCEPT ![w] = "none"]

(* deliver() throws, or its process dies: the message stays hidden until its *)
(* visibility timeout, and its receipt is never used again.                  *)
Abandon(w) ==
    /\ End(w)
    /\ holder' = [m \in Messages |-> IF holder[m] = w THEN NoWorker ELSE holder[m]]
    /\ UNCHANGED <<status, receives>>

Fault == faults < MaxFaults /\ faults' = faults + 1 /\ UNCHANGED deferrals

(* A conditional write that does not happen: its condition is false, or the  *)
(* transaction is cancelled, which isConditionalFailure cannot tell apart.   *)
NotWritten(op, condition) ==
    \/ ~condition /\ UNCHANGED budget
    \/ op \in CancelOps /\ Fault

(* Mutant: the writes of a lease holder are unconditional.                   *)
BugOwnsLease(w) == TRUE

(* The condition of defer, startAttempt and finalizeAttempt on the DELIVERY  *)
(* item: the worker's version and its lease token are still the stored ones. *)
OwnsLease(w) ==
    /\ delivery.version = seen[w].version
    /\ delivery.leaseToken = seen[w].leaseToken

-------------------------------------------------------------------------------
(* The queue and the outbox publisher.                                       *)

(* outbox-worker, outbox-reconciler: send the record's message.  The delay   *)
(* ends at nextEligibleAt.                                                   *)
PublishSend(m) ==
    /\ sent < outbox
    /\ status[m] = "none"
    /\ sent' = sent + 1
    /\ status' = [status EXCEPT ![m] = IF due THEN "visible" ELSE "delayed"]
    /\ UNCHANGED <<store, clock, outbox, holder, receives, worker, partner, budget>>

(* ... then mark it published.                                               *)
MarkPublished ==
    /\ sent > 0
    /\ sent' = sent - 1
    /\ outbox' = outbox - 1
    /\ UNCHANGED <<store, clock, queue, worker, partner, budget>>

(* The publisher dies between the two, or both publishers had read the       *)
(* record: it is still unpublished for one of them, and is sent once more.   *)
PublisherCrash ==
    /\ sent > 0
    /\ sent' = sent - 1
    /\ Fault
    /\ UNCHANGED <<store, clock, outbox, queue, worker, partner>>

(* A delayed message becomes visible.  A message of an earlier schedule may  *)
(* do so before the delivery is due again.                                   *)
DelayElapses(m) ==
    /\ status[m] = "delayed"
    /\ IF due THEN UNCHANGED budget ELSE Fault
    /\ status' = [status EXCEPT ![m] = "visible"]
    /\ UNCHANGED <<store, clock, outbox, sent, holder, receives, worker, partner>>

Receive(w, m) ==
    /\ pc[w] = "idle"
    /\ status[m] = "visible"
    /\ receives[m] < MaxReceives
    /\ status' = [status EXCEPT ![m] = "held"]
    /\ holder' = [holder EXCEPT ![m] = w]
    /\ receives' = [receives EXCEPT ![m] = @ + 1]
    /\ Goto(w, "read")
    /\ msg' = [msg EXCEPT ![w] = m]
    /\ UNCHANGED <<store, clock, outbox, sent, seen, verdict, partner, budget>>

(* The visibility timeout (360 s) outlasts the handler and the lease it      *)
(* took (at most 35 s).  A standard queue may also hand a message out twice. *)
VisibilityTimeout(m) ==
    /\ status[m] = "held"
    /\ \/ /\ \A w \in Workers : msg[w] # m
          /\ (delivery.state = "in_progress" /\ leasedFrom = m) => leaseExpired
          /\ UNCHANGED budget
       \/ EarlyRedelivery /\ Fault
    /\ status' = [status EXCEPT ![m] = "visible"]
    /\ holder' = [holder EXCEPT ![m] = NoWorker]
    /\ UNCHANGED <<store, clock, outbox, sent, receives, worker, partner>>

(* The redrive policy of the queue, and an operator's redrive from the DLQ.  *)
DeadLetter(m) ==
    /\ status[m] = "visible"
    /\ receives[m] >= MaxReceives
    /\ status' = [status EXCEPT ![m] = "dead"]
    /\ UNCHANGED <<store, clock, outbox, sent, holder, receives, worker, partner, budget>>

Redrive(m) ==
    /\ status[m] = "dead"
    /\ Fault
    /\ status' = [status EXCEPT ![m] = "visible"]
    /\ receives' = [receives EXCEPT ![m] = 0]
    /\ UNCHANGED <<store, clock, outbox, sent, holder, worker, partner>>

-------------------------------------------------------------------------------
(* The clock.                                                                *)

BecomesDue ==
    /\ ~due
    /\ due' = TRUE
    /\ UNCHANGED <<store, leaseExpired, leasedFrom, outbox, sent, queue, worker,
                   partner, budget>>

(* A worker that leased the delivery and has not finished with it.           *)
LeaseHolder(w) ==
    /\ pc[w] \in {"check", "defer", "start", "send", "finalize"}
    /\ seen[w].leaseToken = delivery.leaseToken

(* The lease outlasts the request's timeout by five seconds, so it expires   *)
(* under its owner only if the owner is slow (a token request, a pause).     *)
LeaseExpires ==
    /\ delivery.state = "in_progress"
    /\ ~leaseExpired
    /\ IF \E w \in Workers : LeaseHolder(w) THEN Fault ELSE UNCHANGED budget
    /\ leaseExpired' = TRUE
    /\ UNCHANGED <<store, leasedFrom, due, outbox, sent, queue, worker, partner>>

(* The enabling of the destination resumes what its being disabled blocked   *)
(* (resumeDestination): one transaction per delivery.                        *)
ResumeDestination ==
    /\ delivery.blockedReason = "DESTINATION_DISABLED"
    /\ delivery.state \notin TerminalState
    /\ delivery' = Transition(delivery, "scheduled", NoToken, "NONE")
    /\ due' = TRUE
    /\ outbox' = outbox + 1
    /\ UNCHANGED <<attempts, leaseExpired, leasedFrom, sent, queue, worker, partner,
                   budget>>

-------------------------------------------------------------------------------
(* deliver(), one action per awaited operation.                              *)

(* Mutant: an expired lease is treated like a live one.                      *)
BugNextStepAfterRead ==
    CASE delivery.state \in TerminalState -> "ack"
      [] delivery.state = "in_progress"   -> "lease"
      [] delivery.state \notin TerminalState \cup {"in_progress"} ->
            IF due THEN "lease" ELSE "return"

(* The delivery as read decides what this run of deliver() does.             *)
NextStepAfterRead ==
    CASE delivery.state \in TerminalState                  -> "ack"
      [] delivery.state = "in_progress" /\ leaseExpired    -> "recover"
      [] delivery.state = "in_progress" /\ ~leaseExpired   -> "lease"
      [] delivery.state \notin TerminalState \cup {"in_progress"} ->
            IF due THEN "lease" ELSE "return"

Read(w) ==
    /\ pc[w] = "read"
    /\ Goto(w, NextStepAfterRead)
    /\ See(w, delivery)
    /\ UNCHANGED <<store, clock, outbox, sent, queue, msg, verdict, partner, budget>>

Leasable(w) ==
    /\ delivery.version = seen[w].version
    /\ delivery.state \in {"scheduled", "retry_scheduled", "rate_limited"}
    /\ due

LeaseCommitted(w) ==
    LET leased == Transition(delivery, "in_progress", delivery.version + 1, "NONE")
    IN  /\ delivery' = leased
        /\ See(w, leased)
        /\ leaseExpired' = FALSE
        /\ leasedFrom' = msg[w]
        /\ Goto(w, "check")
        /\ UNCHANGED <<attempts, due, outbox, sent, queue, msg, verdict, partner, budget>>

(* transitionDelivery refuses a transition out of the state the lease's      *)
(* condition accepts: deliver() throws.                                      *)
LeaseThrows(w) ==
    /\ Abandon(w)
    /\ UNCHANGED <<store, clock, outbox, sent, partner, budget>>

AcquireLease(w) ==
    /\ pc[w] = "lease"
    /\ \/ Leasable(w) /\ MayTransition(delivery, "in_progress") /\ LeaseCommitted(w)
       \/ Leasable(w) /\ ~MayTransition(delivery, "in_progress") /\ LeaseThrows(w)
       \/ /\ NotWritten("lease", Leasable(w))
          /\ Goto(w, "ack")
          /\ UNCHANGED <<store, clock, outbox, sent, queue, msg, seen, verdict, partner>>

(* The destination's enabled flag, the circuit's permit, the rate's permit,  *)
(* in this order; the first that refuses is the verdict.                     *)
Check(w) ==
    /\ pc[w] = "check"
    /\ \/ Goto(w, "start") /\ UNCHANGED <<verdict, budget>>
       \/ /\ deferrals < MaxDeferrals
          /\ deferrals' = deferrals + 1
          /\ \E refusal \in Refusals : verdict' = [verdict EXCEPT ![w] = refusal]
          /\ Goto(w, "defer")
          /\ UNCHANGED faults
    /\ UNCHANGED <<store, clock, outbox, sent, queue, msg, seen, partner>>

DeferredState(refusal) == IF refusal = "rate" THEN "rate_limited" ELSE "scheduled"
DeferredReason(refusal) ==
    CASE refusal = "disabled" -> "DESTINATION_DISABLED"
      [] refusal = "circuit"  -> "CIRCUIT_OPEN"
      [] refusal = "rate"     -> "RATE_LIMITED"

(* defer()'s result is ignored: the message is acknowledged either way.      *)
Defer(w) ==
    /\ pc[w] = "defer"
    /\ Goto(w, "ack")
    /\ \/ /\ OwnsLease(w)
          /\ delivery' = Transition(delivery, DeferredState(verdict[w]), NoToken,
                                    DeferredReason(verdict[w]))
          /\ due' = FALSE
          /\ outbox' = outbox + 1
          /\ UNCHANGED <<attempts, leaseExpired, leasedFrom, budget>>
       \/ NotWritten("defer", OwnsLease(w)) /\ UNCHANGED <<store, clock, outbox>>
    /\ UNCHANGED <<sent, queue, msg, seen, verdict, partner>>

-------------------------------------------------------------------------------
(* The number of the attempt the worker starts.                              *)
NextAttempt(w) == seen[w].attemptCount + 1

(* Mutant: startAttempt puts without a condition.                            *)
BugMayStart(w) == TRUE

MayStart(w) ==
    /\ OwnsLease(w)
    /\ delivery.activeAttemptId = NoToken
    /\ attempts[NextAttempt(w)].outcome = "none"

(* An attempt's id is drawn for this run of deliver(), as its lease token    *)
(* was: the token stands for both.                                           *)
AttemptStarted(w) ==
    LET started == [seen[w] EXCEPT !.attemptCount = NextAttempt(w),
                                   !.activeAttemptId = seen[w].leaseToken,
                                   !.version = @ + 1]
    IN  /\ delivery' = started
        /\ See(w, started)
        /\ attempts' = [attempts EXCEPT ![NextAttempt(w)] =
                            [id |-> seen[w].leaseToken, outcome |-> "started"]]
        /\ Goto(w, "send")
        /\ UNCHANGED budget

StartAttempt(w) ==
    /\ pc[w] = "start"
    /\ \/ MayStart(w) /\ AttemptStarted(w)
       \/ NotWritten("start", MayStart(w)) /\ Goto(w, "ack") /\ UNCHANGED <<store, seen>>
    /\ UNCHANGED <<clock, outbox, sent, queue, msg, verdict, partner>>

(* The partner call.  Without a secret or a token nothing is sent.  A call   *)
(* that times out may have been processed by the partner all the same.       *)
Send(w) ==
    /\ pc[w] = "send"
    /\ Goto(w, "finalize")
    /\ \E answer \in Answer :
          /\ verdict' = [verdict EXCEPT ![w] = answer]
          /\ \/ answer # "success" /\ UNCHANGED partner
             \/ LET n == seen[w].attemptCount
                IN  /\ requests' = [requests EXCEPT ![n] = @ + 1]
                    /\ \/ accepted' = accepted \cup {n}
                       \/ answer # "success" /\ UNCHANGED accepted
    /\ UNCHANGED <<store, clock, outbox, sent, queue, msg, seen, budget>>

(* finalizeAttempt's conditions on the DELIVERY and on the attempt record.   *)
MayFinalize(w) ==
    /\ OwnsLease(w)
    /\ delivery.activeAttemptId = seen[w].activeAttemptId
    /\ attempts[seen[w].attemptCount].outcome = "started"

(* Mutant: the active attempt's id survives.                                 *)
BugAttemptFinalized(w, to, reason, outcome, records) ==
    /\ delivery' = Transition(delivery, to, NoToken, reason)
    /\ attempts' = [attempts EXCEPT ![seen[w].attemptCount].outcome = outcome]
    /\ outbox' = outbox + records
    /\ due' = (records = 0)

(* ... and its writes: the delivery in its next state without an active      *)
(* attempt, the attempt's outcome, the outbox record of a retry.             *)
AttemptFinalized(w, to, reason, outcome, records) ==
    /\ delivery' = [Transition(delivery, to, NoToken, reason) EXCEPT
                        !.activeAttemptId = NoToken]
    /\ attempts' = [attempts EXCEPT ![seen[w].attemptCount].outcome = outcome]
    /\ outbox' = outbox + records
    /\ due' = (records = 0)

(* Mutant: the classification is stored as the outcome.                      *)
BugAttemptOutcome(answer) == answer

AttemptOutcome(answer) == IF answer = "success" THEN "succeeded" ELSE "failed"

(* Mutant: the retry is scheduled without its outbox record.                 *)
BugRetryRecords(answer) == 0

(* A retryable failure leaves an outbox record even when it was the last.    *)
RetryRecords(answer) == IF Retryable(answer) THEN 1 ELSE 0

Finalize(w) ==
    /\ pc[w] = "finalize"
    /\ LET answer == verdict[w]
       IN  \/ /\ MayFinalize(w)
              /\ AttemptFinalized(w, StateAfter(seen[w], answer, MaxAttempts),
                                  ReasonAfter(answer), AttemptOutcome(answer),
                                  RetryRecords(answer))
              /\ Goto(w, "ack")
              /\ UNCHANGED <<leaseExpired, leasedFrom, queue, msg, seen, verdict, budget>>
           \/ /\ NotWritten("finalize", MayFinalize(w))
              /\ Abandon(w)
              /\ UNCHANGED <<store, clock, outbox>>
    /\ UNCHANGED <<sent, partner>>

-------------------------------------------------------------------------------
(* recoverExpired: a reader that finds an expired lease takes the delivery   *)
(* back, charging a started attempt as a timeout.                            *)

RecoverRead(w) ==
    /\ pc[w] = "recover"
    /\ See(w, delivery)
    /\ IF /\ delivery.state = "in_progress"
          /\ delivery.leaseToken = seen[w].leaseToken
          /\ delivery.activeAttemptId # NoToken =>
                 attempts[delivery.attemptCount].id = delivery.activeAttemptId
       THEN Goto(w, "recoverCommit")
       ELSE Goto(w, "ack")
    /\ UNCHANGED <<store, clock, outbox, sent, queue, msg, verdict, partner, budget>>

RecoverableAttempt(w) == seen[w].activeAttemptId # NoToken /\ MayFinalize(w)
RecoverableLease(w) == seen[w].activeAttemptId = NoToken /\ OwnsLease(w)

RecoverCommit(w) ==
    /\ pc[w] = "recoverCommit"
    /\ Goto(w, "ack")
    /\ \/ /\ RecoverableAttempt(w)
          /\ IF Exhausted(seen[w], "retryable", MaxAttempts)
             THEN AttemptFinalized(w, "dead_lettered", "TIMEOUT", "failed", 0)
             ELSE AttemptFinalized(w, "retry_scheduled", "TIMEOUT", "failed", 1)
          /\ UNCHANGED <<leaseExpired, leasedFrom, budget>>
       \/ /\ RecoverableLease(w)
          /\ delivery' = Transition(delivery, "scheduled", NoToken, "NONE")
          /\ outbox' = outbox + 1
          /\ due' = TRUE
          /\ UNCHANGED <<attempts, leaseExpired, leasedFrom, budget>>
       \/ /\ NotWritten("recover", RecoverableAttempt(w) \/ RecoverableLease(w))
          /\ UNCHANGED <<store, clock, outbox>>
    /\ UNCHANGED <<sent, queue, msg, seen, verdict, partner>>

-------------------------------------------------------------------------------
(* The end of a message's processing (apps/delivery-worker).                 *)

(* The message is deleted, unless another worker's receipt is newer.         *)
Ack(w) ==
    /\ pc[w] = "ack"
    /\ LET mine(m) == m = msg[w] /\ holder[m] = w
       IN  /\ status' = [m \in Messages |-> IF mine(m) THEN "none" ELSE status[m]]
           /\ holder' = [m \in Messages |-> IF mine(m) THEN NoWorker ELSE holder[m]]
           /\ receives' = [m \in Messages |-> IF mine(m) THEN 0 ELSE receives[m]]
    /\ End(w)
    /\ UNCHANGED <<store, clock, outbox, sent, partner, budget>>

(* Not yet due: the polling worker hides the message until nextEligibleAt,   *)
(* the Lambda handler fails it.                                              *)
Return(w) ==
    /\ pc[w] = "return"
    /\ \/ LET mine(m) == m = msg[w] /\ holder[m] = w
          IN  /\ status' = [m \in Messages |-> IF mine(m) THEN "delayed" ELSE status[m]]
              /\ holder' = [m \in Messages |-> IF mine(m) THEN NoWorker ELSE holder[m]]
              /\ UNCHANGED receives
              /\ End(w)
       \/ Abandon(w)
    /\ UNCHANGED <<store, clock, outbox, sent, partner, budget>>

(* The process dies, or an operation throws, anywhere in deliver().          *)
Crash(w) ==
    /\ pc[w] # "idle"
    /\ Fault
    /\ Abandon(w)
    /\ UNCHANGED <<store, clock, outbox, sent, partner>>

-------------------------------------------------------------------------------
Deliver(w) ==
    \/ Read(w) \/ AcquireLease(w) \/ Check(w) \/ Defer(w)
    \/ StartAttempt(w) \/ Send(w) \/ Finalize(w)
    \/ RecoverRead(w) \/ RecoverCommit(w)
    \/ Ack(w) \/ Return(w)

Queue ==
    \/ MarkPublished \/ PublisherCrash
    \/ \E m \in Messages :
          \/ PublishSend(m) \/ DelayElapses(m) \/ VisibilityTimeout(m)
          \/ DeadLetter(m) \/ Redrive(m)
          \/ \E w \in Workers : Receive(w, m)

Clock == BecomesDue \/ LeaseExpires

Next ==
    \/ \E w \in Workers : Deliver(w) \/ Crash(w)
    \/ Queue \/ Clock \/ ResumeDestination

Spec == Init /\ [][Next]_vars

(* The scheduling the deployment provides: a started run of deliver() goes   *)
(* on, the publishers poll, the queue hands out what is visible, time passes. *)
Fairness ==
    /\ \A w \in Workers : WF_vars(Deliver(w))
    /\ WF_vars(MarkPublished)
    /\ WF_vars(BecomesDue)
    /\ WF_vars(LeaseExpires)
    /\ \A m \in Messages :
          /\ WF_vars(PublishSend(m))
          /\ WF_vars(DelayElapses(m))
          /\ WF_vars(VisibilityTimeout(m))
          /\ WF_vars(DeadLetter(m))
          /\ SF_vars(\E w \in Workers : Receive(w, m))

FairSpec == Spec /\ Fairness
===============================================================================
