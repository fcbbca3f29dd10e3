----------------------------- MODULE WakeUpProofs -----------------------------
(***************************************************************************)
(* No unfinished delivery is forgotten: WakeUp for any numbers of workers, *)
(* messages, attempts and faults.                                          *)
(***************************************************************************)
EXTENDS DeliveryProofs

-------------------------------------------------------------------------------
(* What the property rests on.                                               *)

(* Whom the queue knows as a message's holder works on it, and no one else.  *)
HoldInv ==
    /\ \A w \in Workers : \A m \in Messages : msg[w] = m <=> holder[m] = w
    /\ \A m \in Messages : holder[m] # NoWorker => status[m] = "held"
    /\ \A w \in Workers : pc[w] = "idle" <=> msg[w] = NoMessage

(* The worker that holds the lease works on the message the lease is from.   *)
Leaseholder(w) == pc[w] \in Preparing \cup InCall /\ OwnsLease(w)
OwnerInv ==
    \A w \in Workers :
        delivery.state = "in_progress" /\ Leaseholder(w) => msg[w] = leasedFrom

(* A worker on its way to take the delivery back.                            *)
Recovers(w) ==
    \/ pc[w] = "read"
    \/ pc[w] = "recover" /\ seen[w].leaseToken = delivery.leaseToken
    \/ pc[w] = "recoverCommit" /\ OwnsLease(w)

(* The message of the lease outlives it: nobody works on it but the holder   *)
(* of the lease or, once that has expired, someone who will recover it.      *)
LeaseKept ==
    delivery.state = "in_progress" =>
        /\ leasedFrom \in Messages
        /\ status[leasedFrom] # "none"
        /\ status[leasedFrom] # "held" => leaseExpired
        /\ \A w \in Workers :
              msg[w] = leasedFrom => Leaseholder(w) \/ (leaseExpired /\ Recovers(w))

(* A message whose worker, if it has one, will lease the delivery with it.   *)
Rouses(m) ==
    /\ status[m] # "none"
    /\ \A w \in Workers :
          msg[w] = m =>
              \/ pc[w] \in {"read", "return"}
              \/ pc[w] = "lease" /\ seen[w].version = delivery.version /\ due

(* A delivery is routed: it waits for its time, is leased or has ended.      *)
Waiting == delivery.state \in {"scheduled", "retry_scheduled", "rate_limited"}
RoutedInv == Waiting \/ delivery.state \in TerminalState \cup {"in_progress"}

(* While it waits, a record is still to be sent or a message will lease it.  *)
WaitingKept == Waiting => outbox > sent \/ \E m \in Messages : Rouses(m)

WakeInv == HoldInv /\ OwnerInv /\ LeaseKept /\ RoutedInv /\ WaitingKept

(* What the deployment must grant: a message is not handed out again while   *)
(* it is held, and no transaction but a finalization, whose worker keeps the *)
(* message, is cancelled although its conditions hold.                       *)
Granted == EarlyRedelivery = FALSE /\ CancelOps \subseteq {"finalize"}

-------------------------------------------------------------------------------
(* What a held message tells.                                                *)

(* A worker in the middle of a run holds exactly one message, and no other   *)
(* worker has that message.                                                  *)
LEMMA HeldAlone ==
    ASSUME TypeOK, HoldInv, NEW w \in Workers, pc[w] # "idle"
    PROVE  /\ msg[w] \in Messages
           /\ holder[msg[w]] = w
           /\ status[msg[w]] = "held"
           /\ \A v \in Workers : msg[v] = msg[w] => v = w
    BY NullAssumption DEF TypeOK, HoldInv

(* A message with no holder is in no worker's hands.                         *)
LEMMA HeldByNone ==
    ASSUME HoldInv, NEW m \in Messages, status[m] # "held"
    PROVE  holder[m] = NoWorker /\ \A w \in Workers : msg[w] # m
    BY NullAssumption DEF HoldInv

(* Storing a delivery that no longer runs, with a record if it waits, leaves *)
(* nothing to be kept but the hold on the messages.                          *)
LEMMA WrittenBack ==
    ASSUME HoldInv', RoutedInv', delivery'.state # "in_progress",
           Waiting' => outbox' > sent'
    PROVE  WakeInv'
    BY DEF WakeInv, OwnerInv, LeaseKept, WaitingKept

(* Not to acknowledge is always safe.                                        *)
LEMMA AbandonKeeps ==
    ASSUME TypeOK, WakeInv, NEW w \in Workers, Abandon(w),
           UNCHANGED <<delivery, leaseExpired, leasedFrom, due, outbox, sent>>
    PROVE  WakeInv'
<1>1. /\ pc' = [pc EXCEPT ![w] = "idle"]
      /\ msg' = [msg EXCEPT ![w] = NoMessage]
      /\ seen' = [seen EXCEPT ![w] = NoSnapshot]
      /\ holder' = [m \in Messages |-> IF holder[m] = w THEN NoWorker ELSE holder[m]]
      /\ status' = status
    BY DEF Abandon, End, Goto, See
<1>2. /\ pc'[w] = "idle"
      /\ msg'[w] = NoMessage
      /\ \A v \in Workers \ {w} : pc'[v] = pc[v] /\ msg'[v] = msg[v] /\ seen'[v] = seen[v]
    BY <1>1 DEF TypeOK
<1>3. HoldInv'
    BY <1>1, <1>2, NullAssumption DEF WakeInv, HoldInv
<1>4. \A v \in Workers \ {w} : Leaseholder(v)' = Leaseholder(v)
                             /\ Recovers(v)' = Recovers(v)
    BY <1>2 DEF Leaseholder, Recovers, OwnsLease
<1>5. ~Leaseholder(w)'
    BY <1>2 DEF Leaseholder, Preparing, InCall
<1>6. OwnerInv'
    BY <1>2, <1>4, <1>5 DEF WakeInv, OwnerInv
<1>7. LeaseKept'
    BY <1>1, <1>2, <1>4, NullAssumption DEF WakeInv, LeaseKept
<1>8. WaitingKept' /\ RoutedInv'
    BY <1>1, <1>2, NullAssumption DEF WakeInv, RoutedInv, WaitingKept, Waiting, Rouses
<1> QED
    BY <1>3, <1>6, <1>7, <1>8 DEF WakeInv

(* A run takes a step that writes nothing.  It may neither pass for the      *)
(* owner of a lease it did not take, nor drop a lease it owns or has come to *)
(* recover, nor let go of a waiting delivery it was to lease.                *)
LEMMA MoveKeeps ==
    ASSUME TypeOK, WakeInv, NEW w \in Workers, NEW s, s # "idle", pc[w] # "idle",
           pc' = [pc EXCEPT ![w] = s],
           \A v \in Workers \ {w} : seen'[v] = seen[v],
           UNCHANGED <<delivery, leaseExpired, leasedFrom, due, outbox, sent, status,
                       holder, msg>>,
           delivery.state = "in_progress" /\ Leaseholder(w)' => msg[w] = leasedFrom,
           delivery.state = "in_progress" /\ msg[w] = leasedFrom =>
               Leaseholder(w)' \/ (leaseExpired /\ Recovers(w)'),
           Waiting /\ Rouses(msg[w]) =>
               \/ s \in {"read", "return"}
               \/ s = "lease" /\ seen'[w].version = delivery.version /\ due
    PROVE  WakeInv'
<1>1. pc'[w] = s /\ \A v \in Workers \ {w} : pc'[v] = pc[v]
    BY DEF TypeOK
<1>2. HoldInv'
    BY <1>1 DEF WakeInv, HoldInv
<1>3. \A v \in Workers \ {w} : Leaseholder(v)' = Leaseholder(v)
                             /\ Recovers(v)' = Recovers(v)
    BY <1>1 DEF Leaseholder, Recovers, OwnsLease
<1>4. OwnerInv'
    BY <1>3 DEF WakeInv, OwnerInv
<1>5. LeaseKept'
    BY <1>3 DEF WakeInv, LeaseKept
<1>6. ASSUME NEW m \in Messages, Rouses(m), Waiting PROVE Rouses(m)'
    BY <1>1, <1>6 DEF Rouses
<1>7. WaitingKept' /\ RoutedInv'
    BY <1>6 DEF WakeInv, RoutedInv, WaitingKept, Waiting
<1> QED
    BY <1>2, <1>4, <1>5, <1>7 DEF WakeInv

-------------------------------------------------------------------------------
(* The queue, the publishers and the clock.                                  *)

(* A publisher turns a record into a message, and only then forgets it.      *)
LEMMA PublishersKeep ==
    ASSUME Inductive, WakeInv,
           MarkPublished \/ PublisherCrash \/ \E m \in Messages : PublishSend(m)
    PROVE  WakeInv'
<1> USE DEF Inductive, TypeOK
<1>1. CASE MarkPublished \/ PublisherCrash
    <2>1. UNCHANGED <<delivery, leaseExpired, leasedFrom, due, status, holder, pc, msg, seen>>
        BY <1>1 DEF MarkPublished, PublisherCrash, store, clock, queue, worker
    <2>2. HoldInv' /\ OwnerInv' /\ LeaseKept' /\ RoutedInv'
        BY <2>1 DEF WakeInv, HoldInv, OwnerInv, LeaseKept, RoutedInv, Waiting, Leaseholder,
                    Recovers, OwnsLease
    <2>3. outbox > sent => outbox' > sent'
        BY <1>1 DEF MarkPublished, PublisherCrash
    <2>4. WaitingKept'
        BY <2>1, <2>3 DEF WakeInv, WaitingKept, Waiting, Rouses
    <2> QED
        BY <2>2, <2>4 DEF WakeInv
<1>2. ASSUME NEW m \in Messages, PublishSend(m) PROVE WakeInv'
    <2>1. /\ UNCHANGED <<delivery, leaseExpired, leasedFrom, due, outbox, holder, pc, msg, seen>>
          /\ status[m] = "none"
          /\ status'[m] # "none"
          /\ \A k \in Messages \ {m} : status'[k] = status[k]
        BY <1>2 DEF PublishSend, store, clock, worker
    <2>2. holder[m] = NoWorker /\ \A w \in Workers : msg[w] # m
        BY <2>1, HeldByNone DEF WakeInv
    <2>3. HoldInv'
        BY <2>1, <2>2 DEF WakeInv, HoldInv
    <2>4. OwnerInv' /\ LeaseKept' /\ RoutedInv'
        BY <2>1 DEF WakeInv, OwnerInv, LeaseKept, RoutedInv, Waiting, Leaseholder,
                    Recovers, OwnsLease
    <2>5. WaitingKept'
        BY <2>1, <2>2 DEF WaitingKept, Rouses
    <2> QED
        BY <2>3, <2>4, <2>5 DEF WakeInv
<1> QED
    BY <1>1, <1>2

(* A message moves in the queue while no worker holds it.                    *)
LEMMA MessagesKeep ==
    ASSUME Granted, Inductive, WakeInv, NEW m \in Messages,
           DelayElapses(m) \/ VisibilityTimeout(m) \/ DeadLetter(m) \/ Redrive(m)
    PROVE  WakeInv'
<1> USE DEF Inductive, TypeOK
<1>1. /\ UNCHANGED <<delivery, leaseExpired, leasedFrom, due, outbox, sent, pc, msg, seen>>
      /\ status[m] # "none"
      /\ status'[m] \in {"visible", "dead"}
      /\ \A k \in Messages \ {m} : status'[k] = status[k] /\ holder'[k] = holder[k]
    BY DEF DelayElapses, VisibilityTimeout, DeadLetter, Redrive, store, clock, worker
<1>2. \A w \in Workers : msg[w] # m
    <2>1. CASE VisibilityTimeout(m)
        BY <2>1 DEF VisibilityTimeout, Granted
    <2>2. CASE DelayElapses(m) \/ DeadLetter(m) \/ Redrive(m)
        BY <2>2, HeldByNone DEF DelayElapses, DeadLetter, Redrive, WakeInv
    <2> QED
        BY <2>1, <2>2
<1>3. holder'[m] = NoWorker
    <2>1. CASE VisibilityTimeout(m)
        BY <2>1 DEF VisibilityTimeout
    <2>2. CASE DelayElapses(m) \/ DeadLetter(m) \/ Redrive(m)
        BY <2>2, HeldByNone DEF DelayElapses, DeadLetter, Redrive, WakeInv
    <2> QED
        BY <2>1, <2>2
<1>4. delivery.state = "in_progress" /\ leasedFrom = m => leaseExpired
    <2>1. CASE VisibilityTimeout(m)
        BY <2>1 DEF VisibilityTimeout, Granted
    <2>2. CASE DelayElapses(m) \/ DeadLetter(m) \/ Redrive(m)
        BY <2>2 DEF DelayElapses, DeadLetter, Redrive, WakeInv, LeaseKept
    <2> QED
        BY <2>1, <2>2
<1>5. HoldInv'
    BY <1>1, <1>2, <1>3, NullAssumption DEF WakeInv, HoldInv
<1>6. OwnerInv' /\ LeaseKept' /\ RoutedInv'
    BY <1>1, <1>4 DEF WakeInv, OwnerInv, LeaseKept, RoutedInv, Waiting, Leaseholder,
                      Recovers, OwnsLease
<1>7. WaitingKept'
    BY <1>1, <1>2 DEF WakeInv, WaitingKept, Waiting, Rouses
<1> QED
    BY <1>5, <1>6, <1>7 DEF WakeInv

(* A worker that receives a message is about to read the delivery.           *)
LEMMA ReceiveKeeps ==
    ASSUME Inductive, WakeInv, NEW w \in Workers, NEW m \in Messages, Receive(w, m)
    PROVE  WakeInv'
<1> USE DEF Inductive, TypeOK
<1>1. /\ UNCHANGED <<delivery, leaseExpired, leasedFrom, due, outbox, sent, seen>>
      /\ pc[w] = "idle" /\ status[m] = "visible"
      /\ pc'[w] = "read" /\ msg'[w] = m
      /\ status'[m] = "held" /\ holder'[m] = w
      /\ \A k \in Messages \ {m} : status'[k] = status[k] /\ holder'[k] = holder[k]
      /\ \A v \in Workers \ {w} : pc'[v] = pc[v] /\ msg'[v] = msg[v]
    BY DEF Receive, Goto, store, clock
<1>2. holder[m] = NoWorker /\ \A v \in Workers : msg[v] # m
    BY <1>1, HeldByNone DEF WakeInv
<1>3. msg[w] = NoMessage
    BY <1>1 DEF WakeInv, HoldInv
<1>4. HoldInv'
    BY <1>1, <1>2, <1>3, NullAssumption DEF WakeInv, HoldInv
<1>5. /\ ~Leaseholder(w)' /\ Recovers(w)'
      /\ \A v \in Workers \ {w} : Leaseholder(v)' = Leaseholder(v)
                               /\ Recovers(v)' = Recovers(v)
    BY <1>1 DEF Leaseholder, Recovers, OwnsLease, Preparing, InCall
<1>6. OwnerInv'
    BY <1>1, <1>5 DEF WakeInv, OwnerInv
<1>7. LeaseKept'
    BY <1>1, <1>5 DEF WakeInv, LeaseKept
<1>8. WaitingKept' /\ RoutedInv'
    BY <1>1 DEF WakeInv, RoutedInv, WaitingKept, Waiting, Rouses
<1> QED
    BY <1>4, <1>6, <1>7, <1>8 DEF WakeInv

(* The passing of an instant only widens what workers may do.                *)
LEMMA ClockKeeps ==
    ASSUME WakeInv, Clock PROVE WakeInv'
<1>1. /\ UNCHANGED <<delivery, leasedFrom, outbox, sent, status, holder, pc, msg, seen>>
      /\ leaseExpired => leaseExpired'
      /\ due => due'
    BY DEF Clock, BecomesDue, LeaseExpires, store, queue, worker
<1> QED
    BY <1>1 DEF WakeInv, HoldInv, OwnerInv, LeaseKept, RoutedInv, WaitingKept, Waiting, Rouses,
                Leaseholder, Recovers, OwnsLease

(* A resumed delivery gets a record of its own.                              *)
LEMMA ResumeKeeps ==
    ASSUME Inductive, WakeInv, ResumeDestination
    PROVE  WakeInv'
<1>1. delivery \in Delivery /\ delivery' = Transition(delivery, "scheduled", NoToken, "NONE")
    BY DEF ResumeDestination, Inductive, TypeOK
<1>2. "scheduled" \in DeliveryState /\ "NONE" \in BlockedReason /\ NoToken \in Nat
    BY DEF DeliveryState, BlockedReason, NoToken
<1>3. delivery'.state = "scheduled"
    BY <1>1, <1>2, TransitionType
<1>4. outbox' > sent'
    BY DEF ResumeDestination, Inductive, TypeOK
<1>5. HoldInv'
    BY DEF ResumeDestination, WakeInv, HoldInv, queue, worker
<1> QED
    BY <1>3, <1>4, <1>5, WrittenBack DEF RoutedInv, Waiting

-------------------------------------------------------------------------------
(* The end of a run.                                                         *)

(* The message of a run that acknowledges or returns it is neither the       *)
(* lease's nor the one a waiting delivery counts on, or it stays.            *)
LEMMA FinishKeeps ==
    ASSUME Inductive, WakeInv, NEW w \in Workers, Ack(w) \/ Return(w) \/ Crash(w)
    PROVE  WakeInv'
<1> USE DEF Inductive, TypeOK
<1>1. UNCHANGED <<delivery, leaseExpired, leasedFrom, due, outbox, sent>> /\ End(w)
    BY DEF Ack, Return, Crash, Abandon, store, clock
<1>2. CASE Abandon(w)
    BY <1>1, <1>2, AbandonKeeps
<1>3. ASSUME pc[w] \in {"ack", "return"},
             status' = [m \in Messages |-> IF m = msg[w] /\ holder[m] = w
                                           THEN IF pc[w] = "ack" THEN "none" ELSE "delayed"
                                           ELSE status[m]],
             holder' = [m \in Messages |-> IF m = msg[w] /\ holder[m] = w
                                           THEN NoWorker ELSE holder[m]]
      PROVE  WakeInv'
    <2>1. /\ msg[w] \in Messages /\ holder[msg[w]] = w
          /\ \A v \in Workers : msg[v] = msg[w] => v = w
        BY <1>3, HeldAlone DEF WakeInv
    <2>2. /\ pc'[w] = "idle" /\ msg'[w] = NoMessage
          /\ \A v \in Workers \ {w} : pc'[v] = pc[v] /\ msg'[v] = msg[v] /\ seen'[v] = seen[v]
        BY <1>1 DEF End, Goto, See
    <2>3. /\ \A m \in Messages \ {msg[w]} : status'[m] = status[m] /\ holder'[m] = holder[m]
          /\ status'[msg[w]] = IF pc[w] = "ack" THEN "none" ELSE "delayed"
          /\ holder'[msg[w]] = NoWorker
        BY <1>3, <2>1
    <2>4. HoldInv'
        BY <2>1, <2>2, <2>3, NullAssumption DEF WakeInv, HoldInv
    <2>5. delivery.state = "in_progress" => leasedFrom # msg[w]
        BY <1>3, <2>1 DEF WakeInv, LeaseKept, Leaseholder, Recovers, Preparing, InCall
    <2>6. /\ ~Leaseholder(w)'
          /\ \A v \in Workers \ {w} : Leaseholder(v)' = Leaseholder(v)
                                   /\ Recovers(v)' = Recovers(v)
        BY <1>1, <2>2 DEF Leaseholder, Recovers, OwnsLease, Preparing, InCall
    <2>7. OwnerInv'
        BY <1>1, <2>2, <2>6 DEF WakeInv, OwnerInv
    <2>8. LeaseKept'
        BY <1>1, <2>2, <2>3, <2>5, <2>6, NullAssumption DEF WakeInv, LeaseKept
    <2>9. ASSUME NEW m \in Messages, Rouses(m) PROVE Rouses(m)'
        <3>1. m = msg[w] => pc[w] = "return"
            BY <1>3, <2>9 DEF Rouses
        <3> QED
            BY <1>1, <2>1, <2>2, <2>3, <2>9, <3>1, NullAssumption DEF Rouses
    <2>10. WaitingKept' /\ RoutedInv'
        BY <1>1, <2>9 DEF WakeInv, RoutedInv, WaitingKept, Waiting
    <2> QED
        BY <2>4, <2>7, <2>8, <2>10 DEF WakeInv
<1>4. CASE Ack(w)
    BY <1>3, <1>4 DEF Ack
<1>5. CASE Return(w) /\ ~Abandon(w)
    BY <1>3, <1>5 DEF Return
<1>6. Crash(w) => Abandon(w)
    BY DEF Crash
<1> QED
    BY <1>2, <1>4, <1>5, <1>6

-------------------------------------------------------------------------------
(* The steps of a run.                                                       *)

(* An expired lease sends its reader to recover it, a waiting delivery that  *)
(* is due sends its reader to lease it.                                      *)
LEMMA ReadKeeps ==
    ASSUME Inductive, WakeInv, NEW w \in Workers, Read(w)
    PROVE  WakeInv'
<1>1. /\ pc[w] = "read"
      /\ pc' = [pc EXCEPT ![w] = NextStepAfterRead]
      /\ seen' = [seen EXCEPT ![w] = delivery]
      /\ UNCHANGED <<delivery, leaseExpired, leasedFrom, due, outbox, sent, status, holder, msg>>
    BY DEF Read, Goto, See, store, clock, queue
<1>2. TypeOK /\ seen'[w] = delivery /\ pc'[w] = NextStepAfterRead
    BY <1>1 DEF Inductive, TypeOK
<1>3. /\ NextStepAfterRead \in {"ack", "recover", "lease", "return"}
      /\ delivery.state = "in_progress" /\ leaseExpired => NextStepAfterRead = "recover"
      /\ Waiting => NextStepAfterRead = IF due THEN "lease" ELSE "return"
    BY DEF WakeInv, RoutedInv, Waiting, NextStepAfterRead, TerminalState
<1>4. ~Leaseholder(w) /\ ~Leaseholder(w)'
    BY <1>1, <1>2, <1>3 DEF Leaseholder, Preparing, InCall
<1>5. delivery.state = "in_progress" /\ msg[w] = leasedFrom => leaseExpired /\ Recovers(w)'
    BY <1>1, <1>2, <1>3, <1>4 DEF WakeInv, LeaseKept, Recovers
<1> QED
    BY <1>1, <1>2, <1>3, <1>4, <1>5, MoveKeeps DEF TypeOK

(* The lease passes to the new owner's message, and every earlier owner is   *)
(* fenced off.  A lease that is refused was not for this message to take.    *)
LEMMA LeaseKeeps ==
    ASSUME Granted, Inductive, WakeInv, NEW w \in Workers, AcquireLease(w)
    PROVE  WakeInv'
<1>1. TypeOK /\ pc[w] = "lease"
    BY DEF AcquireLease, Inductive
<1>2. /\ msg[w] \in Messages
      /\ status[msg[w]] = "held"
      /\ \A v \in Workers : msg[v] = msg[w] => v = w
    BY <1>1, HeldAlone DEF WakeInv
<1>3. CASE LeaseCommitted(w)
    <2>1. /\ delivery' = Transition(delivery, "in_progress", delivery.version + 1, "NONE")
          /\ seen' = [seen EXCEPT ![w] = delivery']
          /\ leaseExpired' = FALSE
          /\ leasedFrom' = msg[w]
          /\ pc' = [pc EXCEPT ![w] = "check"]
          /\ UNCHANGED <<due, outbox, sent, status, holder, msg>>
        BY <1>3 DEF LeaseCommitted, See, Goto, queue
    <2>2. delivery'.version = delivery.version + 1 /\ delivery'.state = "in_progress"
        <3>1. delivery \in Delivery /\ delivery.version + 1 \in Nat
            BY <1>1 DEF TypeOK, Delivery
        <3>2. "in_progress" \in DeliveryState /\ "NONE" \in BlockedReason
            BY DEF DeliveryState, BlockedReason
        <3> QED
            BY <2>1, <3>1, <3>2, TransitionType
    <2>3. pc'[w] = "check" /\ seen'[w] = delivery'
        BY <1>1, <2>1 DEF TypeOK
    <2>4. \A v \in Workers \ {w} : pc'[v] = pc[v] /\ seen'[v] = seen[v]
        BY <1>1, <2>1 DEF TypeOK
    <2>5. HoldInv'
        BY <1>1, <2>1, <2>3, <2>4 DEF WakeInv, HoldInv
    <2>6. Leaseholder(w)'
        BY <2>3 DEF Leaseholder, Preparing, OwnsLease
    <2>7. ASSUME NEW v \in Workers \ {w} PROVE ~Leaseholder(v)'
        <3>1. seen[v].version <= delivery.version
            BY DEF Inductive, SnapshotInv
        <3>2. seen[v].version \in Nat /\ delivery.version \in Nat
            BY <1>1 DEF TypeOK, Delivery
        <3> QED
            BY <2>2, <2>4, <3>1, <3>2 DEF Leaseholder, OwnsLease
    <2>8. OwnerInv' /\ LeaseKept'
        BY <1>2, <2>1, <2>6, <2>7 DEF OwnerInv, LeaseKept
    <2>9. WaitingKept' /\ RoutedInv'
        BY <2>2 DEF WaitingKept, RoutedInv, Waiting
    <2> QED
        BY <2>5, <2>8, <2>9 DEF WakeInv
<1>4. CASE LeaseThrows(w)
    BY <1>1, <1>4, AbandonKeeps DEF LeaseThrows, store, clock
<1>5. CASE /\ NotWritten("lease", Leasable(w))
           /\ Goto(w, "ack")
           /\ UNCHANGED <<store, clock, outbox, sent, queue, msg, seen, verdict, partner>>
    <2>1. ~Leasable(w)
        BY <1>5 DEF NotWritten, Granted
    <2>2. /\ pc' = [pc EXCEPT ![w] = "ack"]
          /\ UNCHANGED <<delivery, leaseExpired, leasedFrom, due, outbox, sent, status,
                         holder, msg, seen>>
        BY <1>5 DEF Goto, store, clock, queue
    <2>3. ~Leaseholder(w) /\ ~Recovers(w) /\ ~Leaseholder(w)'
        BY <1>1, <2>2 DEF Leaseholder, Recovers, Preparing, InCall, TypeOK
    <2>4. ~(delivery.state = "in_progress" /\ msg[w] = leasedFrom)
        BY <2>3 DEF WakeInv, LeaseKept
    <2>5. ~(Waiting /\ Rouses(msg[w]))
        BY <1>1, <2>1 DEF Waiting, Rouses, Leasable
    <2> QED
        BY <1>1, <2>2, <2>3, <2>4, <2>5, MoveKeeps
<1> QED
    BY <1>3, <1>4, <1>5 DEF AcquireLease

(* An owner goes on under its lease.                                         *)
LEMMA OwnerKeeps ==
    ASSUME Inductive, WakeInv, NEW w \in Workers, Check(w) \/ Send(w)
    PROVE  WakeInv'
<1>1. TypeOK /\ pc[w] \in {"check", "send"}
    BY DEF Inductive, Check, Send
<1>2. PICK s \in {"start", "defer", "finalize"} : pc' = [pc EXCEPT ![w] = s]
    BY DEF Check, Send, Goto
<1>3. UNCHANGED <<delivery, leaseExpired, leasedFrom, due, outbox, sent, status, holder, msg, seen>>
    BY DEF Check, Send, store, clock, queue
<1>4. Leaseholder(w)' = Leaseholder(w) /\ ~Recovers(w)
    BY <1>1, <1>2, <1>3 DEF Leaseholder, Recovers, OwnsLease, Preparing, InCall, TypeOK
<1>5. ~Rouses(msg[w])
    BY <1>1 DEF Rouses
<1> QED
    BY <1>1, <1>2, <1>3, <1>4, <1>5, MoveKeeps DEF WakeInv, OwnerInv, LeaseKept

(* A worker that acknowledges without having written has lost the lease, or  *)
(* was not recovering it.                                                    *)
LEMMA LoserKeeps ==
    ASSUME Inductive, WakeInv, NEW w \in Workers,
           pc[w] \in {"defer", "start", "recoverCommit"}, ~OwnsLease(w),
           pc' = [pc EXCEPT ![w] = "ack"],
           UNCHANGED <<delivery, leaseExpired, leasedFrom, due, outbox, sent, status, holder,
                       msg, seen>>
    PROVE  WakeInv'
<1>1. TypeOK /\ ~Leaseholder(w) /\ ~Recovers(w) /\ ~Leaseholder(w)'
    BY DEF Inductive, TypeOK, Leaseholder, Recovers, Preparing, InCall
<1>2. ~(delivery.state = "in_progress" /\ msg[w] = leasedFrom)
    BY <1>1 DEF WakeInv, LeaseKept
<1>3. ~Rouses(msg[w])
    BY DEF Rouses
<1> QED
    BY <1>1, <1>2, <1>3, MoveKeeps

(* An acknowledging worker still holds its message.                          *)
LEMMA AckHolds ==
    ASSUME TypeOK, HoldInv, NEW w \in Workers, pc[w] # "idle",
           pc' = [pc EXCEPT ![w] = "ack"], UNCHANGED <<status, holder, msg>>
    PROVE  HoldInv'
    BY DEF TypeOK, HoldInv

(* A refusal stores the delivery together with the record that wakes it.     *)
LEMMA DeferKeeps ==
    ASSUME Granted, Inductive, WakeInv, NEW w \in Workers, Defer(w)
    PROVE  WakeInv'
<1> DEFINE reason == DeferredReason(verdict[w])
           to == DeferredState(verdict[w])
<1>1. /\ TypeOK /\ pc[w] = "defer"
      /\ pc' = [pc EXCEPT ![w] = "ack"]
      /\ UNCHANGED <<sent, status, holder, msg, seen>>
    BY DEF Inductive, Defer, Goto, queue
<1>2. reason \in BlockedReason /\ to \in {"scheduled", "rate_limited"}
    BY <1>1 DEF Inductive, StepInv, Refused, DeferredReason, DeferredState, BlockedReason
<1> HIDE DEF reason, to
<1>3. CASE delivery' = Transition(delivery, to, NoToken, reason) /\ outbox' = outbox + 1
    <2>1. to \in DeliveryState /\ NoToken \in Nat /\ delivery \in Delivery
        BY <1>1, <1>2 DEF TypeOK, DeliveryState, NoToken
    <2>2. delivery'.state = to
        BY <1>2, <1>3, <2>1, TransitionType
    <2>3. outbox' > sent'
        BY <1>1, <1>3 DEF Inductive, TypeOK
    <2>4. HoldInv'
        BY <1>1, AckHolds DEF WakeInv
    <2> QED
        BY <1>2, <2>2, <2>3, <2>4, WrittenBack DEF RoutedInv, Waiting
<1>4. CASE NotWritten("defer", OwnsLease(w)) /\ UNCHANGED <<store, clock, outbox>>
    <2>1. ~OwnsLease(w)
        BY <1>4 DEF NotWritten, Granted
    <2> QED
        BY <1>1, <1>4, <2>1, LoserKeeps DEF store, clock
<1> QED
    BY <1>3, <1>4 DEF Defer, reason, to

(* A started attempt stays under the same lease, which its owner still holds.*)
LEMMA StartKeeps ==
    ASSUME Granted, Inductive, WakeInv, NEW w \in Workers, StartAttempt(w)
    PROVE  WakeInv'
<1>1. /\ TypeOK /\ pc[w] = "start"
      /\ UNCHANGED <<leaseExpired, leasedFrom, due, outbox, sent, status, holder, msg>>
    BY DEF Inductive, StartAttempt, clock, queue
<1>2. CASE MayStart(w) /\ AttemptStarted(w)
    <2>1. OwnsLease(w) /\ seen[w] = delivery
        BY <1>2, OwnerSawDelivery DEF MayStart
    <2>2. delivery.state = "in_progress"
        BY <1>1, <2>1 DEF Inductive, StepInv, Preparing
    <2>3. msg[w] = leasedFrom
        BY <1>1, <2>1, <2>2 DEF WakeInv, OwnerInv, Leaseholder, Preparing
    <2>4. /\ delivery' = [delivery EXCEPT !.attemptCount = NextAttempt(w),
                                         !.activeAttemptId = delivery.leaseToken,
                                         !.version = @ + 1]
          /\ seen' = [seen EXCEPT ![w] = delivery']
          /\ pc' = [pc EXCEPT ![w] = "send"]
        BY <1>2, <2>1, Zenon DEF AttemptStarted, See, Goto
    <2>5. delivery'.state = "in_progress" /\ delivery'.version = delivery.version + 1
        BY <1>1, <2>2, <2>4 DEF TypeOK, Delivery
    <2>6. /\ pc'[w] = "send" /\ seen'[w] = delivery'
          /\ \A v \in Workers \ {w} : pc'[v] = pc[v] /\ seen'[v] = seen[v]
        BY <1>1, <2>4 DEF TypeOK
    <2>7. HoldInv'
        BY <1>1, <2>6 DEF WakeInv, HoldInv
    <2>8. Leaseholder(w)'
        BY <2>6 DEF Leaseholder, InCall, OwnsLease
    <2>9. ASSUME NEW v \in Workers \ {w} PROVE ~Leaseholder(v)'
        <3>1. seen[v].version <= delivery.version
            BY DEF Inductive, SnapshotInv
        <3>2. seen[v].version \in Nat /\ delivery.version \in Nat
            BY <1>1 DEF TypeOK, Delivery
        <3> QED
            BY <2>5, <2>6, <3>1, <3>2 DEF Leaseholder, OwnsLease
    <2>10. \A v \in Workers : msg[v] = leasedFrom => v = w
        BY <1>1, <2>3, HeldAlone DEF WakeInv
    <2>11. OwnerInv' /\ LeaseKept'
        BY <1>1, <2>2, <2>3, <2>8, <2>9, <2>10 DEF WakeInv, OwnerInv, LeaseKept
    <2>12. WaitingKept' /\ RoutedInv'
        BY <2>5 DEF WaitingKept, RoutedInv, Waiting
    <2> QED
        BY <2>7, <2>11, <2>12 DEF WakeInv
<1>3. CASE NotWritten("start", MayStart(w)) /\ Goto(w, "ack") /\ UNCHANGED <<store, seen>>
    <2>1. ~MayStart(w)
        BY <1>3 DEF NotWritten, Granted
    <2>2. ASSUME OwnsLease(w) PROVE MayStart(w)
        <3>1. seen[w] = delivery
            BY <2>2, OwnerSawDelivery
        <3>2. delivery.activeAttemptId = NoToken /\ delivery.attemptCount < MaxAttempts
            BY <1>1, <3>1 DEF Inductive, StepInv, Preparing
        <3>3. delivery.attemptCount \in Nat
            BY <1>1 DEF TypeOK, Delivery
        <3>4. attempts[delivery.attemptCount + 1].outcome = "none"
            BY <3>2, <3>3, AttemptsAssumption
               DEF Inductive, StoreInv, AttemptAccounting, Attempts
        <3> QED
            BY <2>2, <3>1, <3>2, <3>4 DEF MayStart, NextAttempt
    <2> QED
        BY <1>1, <1>3, <2>1, <2>2, LoserKeeps DEF store, Goto
<1> QED
    BY <1>2, <1>3 DEF StartAttempt

(* What a conclusion stores in the delivery.                                 *)
LEMMA ConcludedState ==
    ASSUME TypeOK, NEW w \in Workers, NEW to \in DeliveryState, NEW reason \in BlockedReason,
           NEW outcome, NEW records, AttemptFinalized(w, to, reason, outcome, records)
    PROVE  delivery'.state = to
<1> DEFINE d == Transition(delivery, to, NoToken, reason)
<1>1. delivery \in Delivery /\ NoToken \in Nat
    BY DEF TypeOK, NoToken
<1>2. d \in Delivery /\ d.state = to
    BY <1>1, TransitionType
<1>3. delivery' = [d EXCEPT !.activeAttemptId = NoToken]
    BY DEF AttemptFinalized
<1> HIDE DEF d
<1> QED
    BY <1>2, <1>3 DEF Delivery

(* A concluded attempt that is to be retried leaves a record; a finalization *)
(* that is not written leaves the message to its visibility timeout.         *)
LEMMA FinalizeKeeps ==
    ASSUME Inductive, WakeInv, NEW w \in Workers, Finalize(w)
    PROVE  WakeInv'
<1> DEFINE answer == verdict[w]
           to == StateAfter(seen[w], answer, MaxAttempts)
           records == RetryRecords(answer)
<1>1. TypeOK /\ pc[w] = "finalize" /\ sent' = sent
    BY DEF Inductive, Finalize
<1>2. answer \in Answer
    BY <1>1 DEF Inductive, StepInv
<1>3. CASE /\ AttemptFinalized(w, to, ReasonAfter(answer), AttemptOutcome(answer), records)
           /\ Goto(w, "ack")
           /\ UNCHANGED <<leaseExpired, leasedFrom, queue, msg, seen, verdict, budget>>
    <2>1. seen[w].attemptCount \in Nat /\ MaxAttempts \in Nat
        BY <1>1, AttemptsAssumption DEF TypeOK, Delivery
    <2>2. to \in TerminalState \/ (to = "retry_scheduled" /\ records = 1)
        BY <1>2, <2>1 DEF StateAfter, RetryRecords, Answer, TerminalState, Retryable, Exhausted
    <2>3. ReasonAfter(answer) \in BlockedReason
        BY <1>2 DEF ReasonAfter, BlockedReason, Answer
    <2>4. to \in DeliveryState
        BY <2>2 DEF TerminalState, DeliveryState
    <2> HIDE DEF answer, to, records
    <2>5. delivery'.state = to /\ outbox' = outbox + records
        BY <1>1, <1>3, <2>3, <2>4, ConcludedState DEF AttemptFinalized
    <2>6. records = 1 => outbox' > sent'
        BY <1>1, <2>5 DEF Inductive, TypeOK
    <2>7. HoldInv'
        BY <1>1, <1>3, AckHolds DEF Goto, WakeInv, queue
    <2>8. RoutedInv' /\ delivery'.state # "in_progress"
        BY <2>2, <2>5 DEF RoutedInv, Waiting, TerminalState
    <2>9. Waiting' => outbox' > sent'
        BY <2>2, <2>5, <2>6 DEF Waiting, TerminalState
    <2> QED
        BY <2>7, <2>8, <2>9, WrittenBack
<1>4. CASE Abandon(w) /\ UNCHANGED <<store, clock, outbox>>
    BY <1>1, <1>4, AbandonKeeps DEF store, clock
<1> QED
    BY <1>3, <1>4 DEF Finalize

(* The reader of an expired lease finds it as it was, unless another         *)
(* recovered it first.                                                       *)
LEMMA RecoverReadKeeps ==
    ASSUME Inductive, WakeInv, NEW w \in Workers, RecoverRead(w)
    PROVE  WakeInv'
<1>1. /\ TypeOK /\ pc[w] = "recover"
      /\ seen' = [seen EXCEPT ![w] = delivery]
      /\ UNCHANGED <<delivery, leaseExpired, leasedFrom, due, outbox, sent, status, holder, msg>>
    BY DEF Inductive, RecoverRead, See, store, clock, queue
<1>2. PICK s \in {"recoverCommit", "ack"} :
          /\ pc' = [pc EXCEPT ![w] = s]
          /\ (/\ delivery.state = "in_progress"
              /\ delivery.leaseToken = seen[w].leaseToken
              /\ delivery.activeAttemptId # NoToken =>
                     attempts[delivery.attemptCount].id = delivery.activeAttemptId)
             => s = "recoverCommit"
    BY DEF RecoverRead, Goto
<1>3. /\ pc'[w] = s /\ seen'[w] = delivery
      /\ \A v \in Workers \ {w} : seen'[v] = seen[v]
    BY <1>1, <1>2 DEF TypeOK
<1>4. ~Leaseholder(w) /\ ~Leaseholder(w)' /\ ~Rouses(msg[w])
    BY <1>1, <1>2, <1>3 DEF Leaseholder, Preparing, InCall, Rouses
<1>5. ASSUME delivery.state = "in_progress", msg[w] = leasedFrom
      PROVE  leaseExpired /\ Recovers(w)'
    <2>1. leaseExpired /\ Recovers(w)
        BY <1>4, <1>5 DEF WakeInv, LeaseKept
    <2>2. delivery.leaseToken = seen[w].leaseToken
        BY <1>1, <2>1 DEF Recovers
    <2>3. s = "recoverCommit"
        BY <1>2, <1>5, <2>2 DEF Inductive, StoreInv, AttemptAccounting
    <2> QED
        BY <1>1, <1>3, <2>1, <2>3 DEF Recovers, OwnsLease
<1> QED
    BY <1>1, <1>2, <1>3, <1>4, <1>5, MoveKeeps

(* The recovery of the lease in force cannot fail its condition, and it      *)
(* leaves a record unless the last attempt is spent.                         *)
LEMMA RecoverCommitKeeps ==
    ASSUME Granted, Inductive, WakeInv, NEW w \in Workers, RecoverCommit(w)
    PROVE  WakeInv'
<1>1. /\ TypeOK /\ pc[w] = "recoverCommit"
      /\ pc' = [pc EXCEPT ![w] = "ack"]
      /\ UNCHANGED <<sent, status, holder, msg, seen>>
    BY DEF Inductive, RecoverCommit, Goto, queue
<1>2. HoldInv'
    BY <1>1, AckHolds DEF WakeInv
<1>3. /\ "dead_lettered" \in DeliveryState /\ "retry_scheduled" \in DeliveryState
      /\ "scheduled" \in DeliveryState
      /\ "TIMEOUT" \in BlockedReason /\ "NONE" \in BlockedReason /\ NoToken \in Nat
    BY DEF DeliveryState, BlockedReason, NoToken
<1>4. CASE AttemptFinalized(w, "dead_lettered", "TIMEOUT", "failed", 0)
    <2>1. delivery'.state = "dead_lettered"
        BY <1>1, <1>3, <1>4, ConcludedState
    <2> QED
        BY <1>2, <2>1, WrittenBack DEF RoutedInv, Waiting, TerminalState
<1>5. CASE AttemptFinalized(w, "retry_scheduled", "TIMEOUT", "failed", 1)
    <2>1. delivery'.state = "retry_scheduled"
        BY <1>1, <1>3, <1>5, ConcludedState
    <2>2. outbox' = outbox + 1
        BY <1>5 DEF AttemptFinalized
    <2>3. outbox' > sent'
        BY <1>1, <2>2 DEF Inductive, TypeOK
    <2> QED
        BY <1>2, <2>1, <2>3, WrittenBack DEF RoutedInv, Waiting
<1>6. CASE delivery' = Transition(delivery, "scheduled", NoToken, "NONE") /\ outbox' = outbox + 1
    <2>1. delivery'.state = "scheduled"
        <3>1. delivery \in Delivery
            BY <1>1 DEF TypeOK
        <3> QED
            BY <1>3, <1>6, <3>1, TransitionType
    <2>2. outbox' > sent'
        BY <1>1, <1>6 DEF Inductive, TypeOK
    <2> QED
        BY <1>2, <2>1, <2>2, WrittenBack DEF RoutedInv, Waiting
<1>7. CASE /\ NotWritten("recover", RecoverableAttempt(w) \/ RecoverableLease(w))
           /\ UNCHANGED <<store, clock, outbox>>
    <2>1. ~RecoverableAttempt(w) /\ ~RecoverableLease(w)
        BY <1>7 DEF NotWritten, Granted
    <2>2. ASSUME OwnsLease(w) PROVE FALSE
        <3>1. seen[w] = delivery
            BY <2>2, OwnerSawDelivery
        <3>2. delivery.activeAttemptId # NoToken
            BY <2>1, <2>2, <3>1 DEF RecoverableLease
        <3>3. /\ delivery.attemptCount \in Nat /\ delivery.attemptCount >= 1
              /\ delivery.attemptCount <= MaxAttempts
            BY <1>1, <3>2 DEF TypeOK, Delivery, Inductive, StoreInv, AttemptAccounting
        <3>4. attempts[delivery.attemptCount].outcome = "started"
            BY <3>2, <3>3, AttemptsAssumption
               DEF Inductive, StoreInv, AttemptAccounting, Attempts
        <3> QED
            BY <2>1, <2>2, <3>1, <3>2, <3>4 DEF RecoverableAttempt, MayFinalize
    <2> QED
        BY <1>1, <1>7, <2>2, LoserKeeps DEF store, clock
<1> QED
    BY <1>4, <1>5, <1>6, <1>7 DEF RecoverCommit

-------------------------------------------------------------------------------
(* The theorem.                                                              *)

(* Every step keeps what the property rests on.                              *)
LEMMA NextKeeps ==
    ASSUME Granted, Inductive, WakeInv, [Next]_vars
    PROVE  WakeInv'
<1>1. ASSUME NEW w \in Workers, Deliver(w) \/ Crash(w) PROVE WakeInv'
    BY <1>1, ReadKeeps, LeaseKeeps, OwnerKeeps, DeferKeeps, StartKeeps, FinalizeKeeps,
       RecoverReadKeeps, RecoverCommitKeeps, FinishKeeps DEF Deliver
<1>2. CASE Queue
    BY <1>2, PublishersKeep, MessagesKeep, ReceiveKeeps DEF Queue
<1>3. CASE UNCHANGED vars
    BY <1>3 DEF vars, store, clock, queue, worker, WakeInv, HoldInv, OwnerInv, LeaseKept,
                RoutedInv, WaitingKept, Waiting, Rouses, Leaseholder, Recovers, OwnsLease
<1> QED
    BY <1>1, <1>2, <1>3, ClockKeeps, ResumeKeeps DEF Next

(* A routed delivery begins with its record.                                 *)
LEMMA InitKept == Init => WakeInv
    BY NullAssumption
       DEF Init, InitialDelivery, WakeInv, HoldInv, OwnerInv, LeaseKept, RoutedInv, WaitingKept,
           Waiting, TerminalState

(* What is kept is a wake-up: a rousing message is not being acknowledged,   *)
(* and neither is the message of a lease.                                    *)
LEMMA KeptIsWakeUp ==
    ASSUME Inductive, WakeInv PROVE WakeUp
<1> SUFFICES ASSUME delivery.state \notin TerminalState PROVE WakeUp
    BY DEF WakeUp
<1>1. CASE Waiting /\ outbox > sent
    BY <1>1 DEF WakeUp, Inductive, TypeOK
<1>2. CASE \E m \in Messages : Rouses(m)
    BY <1>2 DEF WakeUp, Rouses
<1>3. CASE delivery.state = "in_progress"
    <2>1. leasedFrom \in Messages /\ status[leasedFrom] # "none"
        BY <1>3 DEF WakeInv, LeaseKept
    <2>2. \A w \in Workers : msg[w] = leasedFrom => pc[w] # "ack"
        BY <1>3 DEF WakeInv, LeaseKept, Leaseholder, Recovers, Preparing, InCall
    <2> QED
        BY <2>1, <2>2 DEF WakeUp
<1> QED
    BY <1>1, <1>2, <1>3 DEF WakeInv, RoutedInv, WaitingKept

(* No unfinished delivery is ever forgotten, whatever crashes, expires, is   *)
(* refused or dead-lettered, as long as messages that are held stay hidden   *)
(* and only finalizations are cancelled.                                     *)
THEOREM NeverForgotten ==
    ASSUME Granted PROVE Spec => []WakeUp
<1>1. Inductive /\ WakeInv /\ [Next]_vars => WakeInv'
    BY NextKeeps
<1>2. Inductive /\ WakeInv => WakeUp
    BY KeptIsWakeUp
<1> QED
    BY <1>1, <1>2, InitKept, InductiveHolds, PTL DEF Spec
===============================================================================
