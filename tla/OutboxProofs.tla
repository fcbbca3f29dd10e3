----------------------------- MODULE OutboxProofs ------------------------------
(***************************************************************************)
(* The safety of Outbox for any records, delays, shards and bounds.        *)
(***************************************************************************)
EXTENDS OutboxProperties, FiniteSetTheorems, TLAPS

-------------------------------------------------------------------------------
(* The inductive invariant.                                                  *)

(* Work is made of committed records, and published only by being sent.      *)
Handed(r) == work[r] = "pending" \/ Scheduled(r) \/ Queued(r)
StoreInv ==
    /\ \A r \in unpublished : Committed(r)
    /\ \A r \in Records : work[r] # "none" => Committed(r)
    /\ \A r \in Records : work[r] = "published" => Queued(r)

(* A publisher has only committed records on its page, in its second loop    *)
(* only those that are due, and marks only what it has handed over.          *)
Loop2 == {"sendWork", "markWork"}
PublisherOK(p) ==
    /\ \A r \in page[p] : Committed(r)
    /\ step[p] \in Loop2 => \A r \in page[p] : NotBefore(r) <= clock
    /\ step[p] = "mark" => \A r \in page[p] : AtHand(p, r) => Handed(r)
    /\ step[p] = "markWork" => \A r \in page[p] : AtHand(p, r) => Queued(r)
PublishersInv == \A p \in Publishers : PublisherOK(p)

Inductive == TypeOK /\ StoreInv /\ PublishersInv /\ NothingLost /\ NeverEarly

-------------------------------------------------------------------------------
(* Arithmetic.                                                               *)

(* The constants are numbers.                                                *)
LEMMA Numbers ==
    /\ ShardCount \in Nat \ {0} /\ Second \in Nat \ {0} /\ MaxDelay \in Nat
    /\ MaxTime \in Nat /\ MaxFaults \in Nat
    /\ Records \subseteq Nat \ {NoRecord} /\ Wait \in [Records -> Nat]
    BY BoundsAssumption, RecordsAssumption

(* A quotient rounded up covers what was divided.                            *)
LEMMA RoundedUp ==
    ASSUME NEW a \in Nat, NEW b \in Nat \ {0}
    PROVE  /\ (a + b - 1) \div b \in Nat
           /\ ((a + b - 1) \div b) * b >= a
<1> DEFINE q == (a + b - 1) \div b
<1>1. a + b - 1 \in Nat
    OBVIOUS
<1>2. q \in Nat /\ a + b - 1 < b * q + b
    BY <1>1, SMT
<1> HIDE DEF q
<1>3. b * q >= a /\ b * q = q * b
    BY <1>2, SMT
<1> QED
    BY <1>2, <1>3 DEF q

(* The delay in whole seconds never ends before the instant.                 *)
LEMMA DelayReaches ==
    ASSUME NEW t \in Nat, clock \in Nat
    PROVE  clock + SecondsUntil(t) * Second >= t
<1>1. CASE t <= clock
    BY <1>1, Numbers DEF SecondsUntil
<1>2. CASE t > clock
    <2> DEFINE a == t - clock
    <2>1. a \in Nat
        BY <1>2
    <2>2. SecondsUntil(t) = (a + Second - 1) \div Second
        BY <1>2 DEF SecondsUntil
    <2> HIDE DEF a
    <2>3. SecondsUntil(t) * Second >= a /\ SecondsUntil(t) \in Nat
        BY <2>1, <2>2, Numbers, RoundedUp
    <2>4. SecondsUntil(t) * Second \in Nat
        BY <2>3, Numbers
    <2> QED
        BY <2>1, <2>3, <2>4 DEF a
<1> QED
    BY <1>1, <1>2

(* The delay is a whole number.                                              *)
LEMMA SecondsAreWhole ==
    ASSUME NEW t \in Nat, clock \in Nat
    PROVE  SecondsUntil(t) \in Nat
<1>1. CASE t <= clock
    BY <1>1 DEF SecondsUntil
<1>2. CASE t > clock
    <2>1. t - clock \in Nat
        BY <1>2
    <2> QED
        BY <1>2, <2>1, Numbers, RoundedUp DEF SecondsUntil
<1> QED
    BY <1>1, <1>2

(* A record's instants.                                                      *)
LEMMA Instants ==
    ASSUME TypeOK, NEW r \in Records, Committed(r)
    PROVE  createdAt[r] \in Nat /\ NotBefore(r) \in Nat
<1>1. createdAt[r] \in Nat
    BY Numbers DEF TypeOK, Committed
<1> QED
    BY <1>1, Numbers DEF NotBefore

(* Only one record is at hand.                                               *)
LEMMA OneAtHand ==
    ASSUME TypeOK, NEW p \in Publishers, NEW r \in page[p], NEW q \in page[p],
           Committed(r), Committed(q), AtHand(p, r), AtHand(p, q)
    PROVE  r = q
<1>1. r \in Records /\ q \in Records
    BY DEF TypeOK
<1>2. /\ r \in Nat /\ q \in Nat
      /\ createdAt[r] \in Nat /\ createdAt[q] \in Nat
      /\ NotBefore(r) \in Nat /\ NotBefore(q) \in Nat
    BY <1>1, Instants, Numbers
<1> QED
    BY <1>2 DEF AtHand, CreatedBefore, DueBefore

-------------------------------------------------------------------------------
(* Steps in general.                                                         *)

(* What was handed over or sent stays so.                                    *)
Onward ==
    \A r \in Records : /\ Handed(r) => Handed(r)'
                       /\ Queued(r) => Queued(r)'

(* A record that leaves the outbox was handed over.                          *)
LEMMA NothingLostKept ==
    ASSUME Inductive, Onward, createdAt' = createdAt,
           \A r \in unpublished : r \notin unpublished' => Handed(r)'
    PROVE  NothingLost'
<1> SUFFICES ASSUME NEW r \in Records, Committed(r), r \notin unpublished'
             PROVE  Handed(r)'
    BY DEF NothingLost, Handed, Committed
<1>1. CASE r \in unpublished
    BY <1>1
<1>2. CASE r \notin unpublished
    BY <1>2 DEF Inductive, NothingLost, Handed, Onward
<1> QED
    BY <1>1, <1>2

(* A publisher that a step leaves alone.                                     *)
LEMMA PublisherKept ==
    ASSUME Inductive, Onward, NEW q \in Publishers,
           step'[q] = step[q], page'[q] = page[q], createdAt' = createdAt,
           clock' = clock
    PROVE  PublisherOK(q)'
<1>1. PublisherOK(q) /\ page[q] \subseteq Records
    BY DEF Inductive, PublishersInv, TypeOK
<1>2. \A r \in page[q] : AtHand(q, r)' => AtHand(q, r)
    BY DEF AtHand, CreatedBefore, DueBefore, NotBefore
<1> QED
    BY <1>1, <1>2 DEF PublisherOK, Committed, NotBefore, Onward

(* A publisher's step leaves the clock, the records and the other one alone. *)
Stepped(p) ==
    /\ UNCHANGED <<local, clock, createdAt, malformed>>
    /\ \A q \in Publishers \ {p} : step'[q] = step[q] /\ page'[q] = page[q]

(* What a step has to keep, of itself and of its publisher.                  *)
LEMMA StepKeeps ==
    ASSUME Inductive, NEW p \in Publishers, Stepped(p), TypeOK', Onward,
           \A r \in unpublished : r \notin unpublished' => Handed(r)',
           StoreInv', NeverEarly', PublisherOK(p)'
    PROVE  Inductive'
<1>1. NothingLost'
    BY NothingLostKept DEF Stepped
<1>2. PublishersInv'
    <2> SUFFICES ASSUME NEW q \in Publishers, q # p
                 PROVE  PublisherOK(q)'
        BY DEF PublishersInv
    <2> QED
        BY PublisherKept DEF Stepped
<1> QED
    BY <1>1, <1>2 DEF Inductive

(* A publisher's step that leaves the store and the queue alone.             *)
LEMMA QuietKeeps ==
    ASSUME Inductive, NEW p \in Publishers, Stepped(p), TypeOK',
           UNCHANGED <<work, queued, early, schedule, unpublished>>,
           PublisherOK(p)'
    PROVE  Inductive'
<1>1. Onward
    BY DEF Onward, Handed, Scheduled, Queued
<1>2. StoreInv' /\ NeverEarly'
    BY DEF Inductive, StoreInv, NeverEarly, Committed, Queued, Stepped
<1> QED
    BY <1>1, <1>2, StepKeeps

(* The types of what every publisher's step may change.                      *)
LEMMA TypesKept ==
    ASSUME TypeOK, NEW p \in Publishers, Stepped(p),
           unpublished' \subseteq Records,
           work' \in [Records -> {"none", "pending", "published"}],
           queued' \in [Records -> Nat],
           early' \subseteq Records,
           schedule' \in [Deliveries -> Records \cup {NoRecord}],
           step' \in [Publishers -> Step],
           shard' \in [Publishers -> Shards],
           page' \in [Publishers -> SUBSET Records],
           faults' \in 0..MaxFaults
    PROVE  TypeOK'
    BY DEF TypeOK, Stepped

(* Faults are counted up to their bound.                                     *)
LEMMA FaultType ==
    ASSUME TypeOK, Fault
    PROVE  faults' \in 0..MaxFaults
    BY Numbers DEF TypeOK, Fault

(* A publisher has moved on.                                                 *)
Moved(p) ==
    /\ step' \in [Publishers -> Step]
    /\ shard' \in [Publishers -> Shards]
    /\ page' \in [Publishers -> SUBSET Records]
    /\ \A q \in Publishers \ {p} : step'[q] = step[q] /\ page'[q] = page[q]

(* A step that keeps the page.                                               *)
LEMMA GotoMoves ==
    ASSUME TypeOK, NEW p \in Publishers, NEW s \in Step, Goto(p, s),
           UNCHANGED <<shard, page>>
    PROVE  Moved(p) /\ step'[p] = s /\ page'[p] = page[p]
    BY DEF TypeOK, Moved, Goto

(* A shard is left with no page.                                             *)
LEMMA LeaveMoves ==
    ASSUME TypeOK, NEW p \in Publishers, NEW scan \in {"scan", "scanWork"},
           LeaveShard(p, scan)
    PROVE  /\ Moved(p) /\ page'[p] = {}
           /\ step'[p] \in {"scan", "scanWork", "idle"}
<1>1. /\ page' = [page EXCEPT ![p] = {}]
      /\ shard' = [shard EXCEPT ![p] = IF @ < ShardCount THEN @ + 1 ELSE 1]
      /\ \E s \in {"scan", "scanWork", "idle"} : step' = [step EXCEPT ![p] = s]
    BY DEF LeaveShard, Goto
<1>2. shard' \in [Publishers -> Shards]
    BY <1>1, Numbers DEF TypeOK, Shards
<1>3. /\ step' \in [Publishers -> Step]
      /\ step'[p] \in {"scan", "scanWork", "idle"}
      /\ \A q \in Publishers \ {p} : step'[q] = step[q]
    BY <1>1 DEF TypeOK, Step
<1>4. /\ page' \in [Publishers -> SUBSET Records] /\ page'[p] = {}
      /\ \A q \in Publishers \ {p} : page'[q] = page[q]
    BY <1>1 DEF TypeOK
<1> QED
    BY <1>2, <1>3, <1>4 DEF Moved

(* The record at hand is done: on to the rest of the page, or to a new one.  *)
LEMMA ContinueMoves ==
    ASSUME TypeOK, NEW p \in Publishers, NEW r, NEW scan \in {"scan", "scanWork"},
           NEW send \in {"send", "sendWork"}, Continue(p, r, scan, send)
    PROVE  /\ Moved(p) /\ page'[p] \subseteq page[p]
           /\ step'[p] \in {"scan", "scanWork", "idle", send}
           /\ step'[p] = "sendWork" => send = "sendWork"
<1>1. CASE page[p] # {r}
    BY <1>1 DEF Continue, Goto, TypeOK, Moved, Step
<1>2. CASE page[p] = {r}
    BY <1>2, LeaveMoves DEF Continue
<1> QED
    BY <1>1, <1>2

(* Away from the marks a publisher needs no more than it had.                *)
LEMMA PassOK ==
    ASSUME Inductive, NEW p \in Publishers, createdAt' = createdAt, clock' = clock,
           page'[p] \subseteq page[p], step'[p] \notin {"mark", "markWork"},
           step'[p] = "sendWork" => step[p] \in Loop2
    PROVE  PublisherOK(p)'
<1>1. PublisherOK(p)
    BY DEF Inductive, PublishersInv
<1> QED
    BY <1>1 DEF PublisherOK, Committed, NotBefore, Loop2

(* What no publisher's quiet step changes.                                   *)
LEMMA QuietTypes ==
    ASSUME Inductive, NEW p \in Publishers, Moved(p),
           UNCHANGED <<local, clock, store, external>>, faults' \in 0..MaxFaults
    PROVE  Stepped(p) /\ TypeOK' /\ UNCHANGED <<work, queued, early, schedule, unpublished>>
<1>1. UNCHANGED <<local, clock, createdAt, malformed, unpublished, work, queued, early,
                  schedule>>
    BY DEF store, external
<1>2. Stepped(p)
    BY <1>1 DEF Stepped, Moved
<1>3. TypeOK'
    BY <1>1, <1>2, TypesKept DEF Inductive, TypeOK, Moved
<1> QED
    BY <1>1, <1>2, <1>3

(* A quiet step away from the marks.                                         *)
LEMMA PassKeeps ==
    ASSUME Inductive, NEW p \in Publishers, Moved(p),
           UNCHANGED <<local, clock, store, external>>, faults' \in 0..MaxFaults,
           page'[p] \subseteq page[p], step'[p] \notin {"mark", "markWork"},
           step'[p] = "sendWork" => step[p] \in Loop2
    PROVE  Inductive'
<1>1. Stepped(p) /\ TypeOK' /\ UNCHANGED <<work, queued, early, schedule, unpublished>>
    BY QuietTypes
<1>2. PublisherOK(p)'
    BY PassOK DEF store
<1> QED
    BY <1>1, <1>2, QuietKeeps

(* The beginning of a tick, the end of the process, a failed mark, and the   *)
(* count of a failure.                                                       *)
LEMMA PassesKeep ==
    ASSUME Inductive, NEW p \in Publishers,
           BeginTick(p) \/ Crash(p) \/ MarkFails(p) \/ RecordFailure(p)
    PROVE  Inductive'
<1> USE DEF Inductive
<1>1. UNCHANGED <<local, clock, store, external>> /\ faults' \in 0..MaxFaults
    BY FaultType DEF BeginTick, Crash, MarkFails, RecordFailure, TypeOK
<1>2. CASE BeginTick(p)
    <2>1. Moved(p) /\ step'[p] = "scan" /\ page'[p] = page[p]
        BY <1>2, GotoMoves DEF BeginTick, Step
    <2> QED
        BY <1>1, <2>1, PassKeeps
<1>3. CASE Crash(p)
    <2>1. Moved(p) /\ step'[p] = "idle" /\ page'[p] = {}
        BY <1>3, Numbers DEF Crash, EndTick, Goto, Moved, TypeOK, Step, Shards
    <2> QED
        BY <1>1, <2>1, PassKeeps
<1>4. CASE MarkFails(p)
    <2>1. Moved(p) /\ step'[p] = "fail" /\ page'[p] = page[p]
        BY <1>4, GotoMoves DEF MarkFails, Step
    <2> QED
        BY <1>1, <2>1, PassKeeps
<1>5. CASE RecordFailure(p)
    <2>1. /\ Moved(p) /\ page'[p] \subseteq page[p]
          /\ step'[p] \in {"scan", "scanWork", "idle", "send"}
        BY <1>5, ContinueMoves DEF RecordFailure
    <2> QED
        BY <1>1, <2>1, PassKeeps
<1> QED
    BY <1>2, <1>3, <1>4, <1>5

(* A query, whose records are committed, and due where that is asked for.    *)
LEMMA TakeKeeps ==
    ASSUME Inductive, NEW p \in Publishers, Scan(p) \/ ScanWork(p)
    PROVE  Inductive'
<1> USE DEF Inductive
<1>1. UNCHANGED <<local, clock, store, external>> /\ faults' \in 0..MaxFaults
    BY DEF Scan, ScanWork, Take, TypeOK
<1>2. ASSUME NEW records \in SUBSET Records, NEW scan \in {"scan", "scanWork"},
             NEW send \in {"send", "sendWork"}, Take(p, records, scan, send),
             \A r \in records : Committed(r),
             send = "sendWork" => \A r \in records : NotBefore(r) <= clock
      PROVE  Inductive'
    <2>1. CASE LeaveShard(p, scan)
        BY <1>1, <2>1, LeaveMoves, PassKeeps
    <2>2. CASE page' = [page EXCEPT ![p] = records] /\ Goto(p, send) /\ UNCHANGED shard
        <3>1. Moved(p) /\ step'[p] = send /\ page'[p] = records
            BY <2>2 DEF Moved, Goto, TypeOK, Step
        <3>2. PublisherOK(p)'
            BY <1>1, <1>2, <3>1 DEF PublisherOK, Committed, NotBefore, Loop2, store
        <3> QED
            BY <1>1, <3>1, <3>2, QuietTypes, QuietKeeps
    <2> QED
        BY <1>2, <2>1, <2>2 DEF Take
<1>3. CASE Scan(p)
    <2>1. Unpublished(p, shard[p]) \subseteq unpublished
        BY DEF Unpublished
    <2>2. /\ Unpublished(p, shard[p]) \in SUBSET Records
          /\ \A r \in Unpublished(p, shard[p]) : Committed(r)
        BY <2>1 DEF TypeOK, StoreInv
    <2> QED
        BY <1>2, <1>3, <2>2 DEF Scan
<1>4. CASE ScanWork(p)
    <2>1. /\ DueScheduledWork(shard[p]) \in SUBSET Records
          /\ \A r \in DueScheduledWork(shard[p]) : Committed(r) /\ NotBefore(r) <= clock
        BY DEF DueScheduledWork, StoreInv
    <2> QED
        BY <1>2, <1>4, <2>1 DEF ScanWork
<1> QED
    BY <1>3, <1>4

-------------------------------------------------------------------------------
(* Steps that write the store or send a message.                             *)

(* The store and the queue are as the invariant needs them after a step.     *)
StoreTypes ==
    /\ unpublished \subseteq Records
    /\ work \in [Records -> {"none", "pending", "published"}]
    /\ queued \in [Records -> Nat]
    /\ early \subseteq Records
    /\ schedule \in [Deliveries -> Records \cup {NoRecord}]
Stored ==
    /\ StoreTypes'
    /\ Onward
    /\ \A r \in unpublished : r \notin unpublished' => Handed(r)'
    /\ StoreInv'
    /\ NeverEarly'

(* Such a step keeps the invariant if its publisher is all right.            *)
LEMMA StoredKeeps ==
    ASSUME Inductive, NEW p \in Publishers, Moved(p), Stored,
           UNCHANGED <<local, clock, createdAt, malformed>>,
           faults' \in 0..MaxFaults, PublisherOK(p)'
    PROVE  Inductive'
<1>1. Stepped(p)
    BY DEF Stepped, Moved
<1>2. TypeOK'
    BY <1>1, TypesKept DEF Inductive, Moved, Stored, StoreTypes
<1> QED
    BY <1>1, <1>2, StepKeeps DEF Stored

(* Nothing was written or sent.                                              *)
LEMMA NothingStored ==
    ASSUME Inductive, NotHandedOver, createdAt' = createdAt
    PROVE  Stored
<1>1. UNCHANGED <<unpublished, work, queued, early, schedule>>
    BY DEF NotHandedOver, external
<1>2. Onward
    BY <1>1 DEF Onward, Handed, Scheduled, Queued
<1>3. StoreTypes' /\ StoreInv' /\ NeverEarly'
    BY <1>1 DEF Inductive, TypeOK, StoreTypes, StoreInv, NeverEarly, Committed, Queued
<1> QED
    BY <1>1, <1>2, <1>3 DEF Stored

(* A message is sent that becomes visible in time.                           *)
LEMMA MessageStored ==
    ASSUME Inductive, NEW r \in Records, NEW delay, Enqueue(r, delay),
           ~(clock + delay * Second < NotBefore(r)),
           UNCHANGED <<work, unpublished, createdAt>>,
           schedule' \in [Deliveries -> Records \cup {NoRecord}],
           \A q \in Records \ {r} : Scheduled(q) => Scheduled(q)'
    PROVE  Stored /\ Queued(r)'
<1> USE DEF Inductive, TypeOK
<1>1. /\ queued' = [queued EXCEPT ![r] = @ + 1]
      /\ early' = early
    BY DEF Enqueue
<1>2. /\ queued' \in [Records -> Nat] /\ Queued(r)'
      /\ \A q \in Records : Queued(q) => Queued(q)'
    BY <1>1 DEF Queued
<1>3. Onward
    BY <1>2 DEF Onward, Handed
<1>4. StoreTypes' /\ NeverEarly'
    BY <1>1, <1>2 DEF StoreTypes, NeverEarly
<1>5. StoreInv'
    BY <1>2 DEF StoreInv, Committed
<1> QED
    BY <1>2, <1>3, <1>4, <1>5 DEF Stored

(* A record becomes work.                                                    *)
LEMMA WorkStored ==
    ASSUME Inductive, NEW r \in Records, Committed(r), work[r] = "none",
           Materialize(r), createdAt' = createdAt
    PROVE  Stored /\ Handed(r)'
<1> USE DEF Inductive, TypeOK
<1>1. /\ work' = [work EXCEPT ![r] = "pending"]
      /\ unpublished' = unpublished \ {r}
      /\ UNCHANGED <<queued, early, schedule>>
    BY DEF Materialize, external
<1>2. /\ work' \in [Records -> {"none", "pending", "published"}]
      /\ work'[r] = "pending"
      /\ \A q \in Records \ {r} : work'[q] = work[q]
    BY <1>1
<1>3. Onward /\ Handed(r)'
    BY <1>1, <1>2 DEF Onward, Handed, Scheduled, Queued
<1>4. StoreTypes' /\ NeverEarly'
    BY <1>1, <1>2 DEF StoreTypes, NeverEarly
<1>5. StoreInv'
    BY <1>1, <1>2 DEF StoreInv, Committed, Queued
<1> QED
    BY <1>1, <1>3, <1>4, <1>5 DEF Stored

(* A record becomes a schedule, where there was none.                        *)
LEMMA ScheduleStored ==
    ASSUME Inductive, NEW r \in Records, MayCreateSchedule(r), CreateSchedule(r),
           createdAt' = createdAt
    PROVE  Stored /\ Handed(r)'
<1> USE DEF Inductive, TypeOK
<1>1. /\ schedule' = [schedule EXCEPT ![Delivery[r]] = r]
      /\ schedule[Delivery[r]] = NoRecord
      /\ UNCHANGED <<work, unpublished, queued, early>>
    BY DEF CreateSchedule, MayCreateSchedule
<1>2. Delivery[r] \in Deliveries
    BY DEF Deliveries
<1>3. /\ schedule' \in [Deliveries -> Records \cup {NoRecord}]
      /\ schedule'[Delivery[r]] = r
    BY <1>1, <1>2
<1>4. \A q \in Records : Scheduled(q) => Scheduled(q)'
    <2> SUFFICES ASSUME NEW q \in Records, schedule[Delivery[q]] = q
                 PROVE  schedule'[Delivery[q]] = q
        BY DEF Scheduled
    <2>1. q # NoRecord /\ Delivery[q] \in Deliveries
        BY Numbers DEF Deliveries
    <2> QED
        BY <1>1, <2>1
<1>5. Onward /\ Handed(r)'
    BY <1>1, <1>3, <1>4 DEF Onward, Handed, Scheduled, Queued
<1>6. StoreTypes' /\ NeverEarly' /\ StoreInv'
    BY <1>1, <1>3 DEF StoreTypes, NeverEarly, StoreInv, Committed, Queued
<1> QED
    BY <1>1, <1>5, <1>6 DEF Stored

(* Publishing a record hands it over, never too early.                       *)
LEMMA HandOverStored ==
    ASSUME Inductive, NEW r \in Records, Committed(r), Accepted(r), HandOver(r),
           createdAt' = createdAt
    PROVE  Stored /\ Handed(r)'
<1>1. CASE TooLong(r) /\ local
    <2>1. work[r] = "none" /\ Materialize(r)
        BY <1>1 DEF Accepted, HandOver, MayMaterialize
    <2> QED
        BY <2>1, WorkStored
<1>2. CASE TooLong(r) /\ ~local
    <2>1. MayCreateSchedule(r) /\ CreateSchedule(r)
        BY <1>2 DEF Accepted, HandOver
    <2> QED
        BY <2>1, ScheduleStored
<1>3. CASE ~TooLong(r)
    <2>1. /\ Enqueue(r, SecondsUntil(NotBefore(r)))
          /\ UNCHANGED <<work, unpublished, schedule>>
        BY <1>3 DEF HandOver
    <2>2. NotBefore(r) \in Nat /\ clock \in Nat
        BY Instants, Numbers DEF Inductive, TypeOK
    <2>3. clock + SecondsUntil(NotBefore(r)) * Second >= NotBefore(r)
        BY <2>2, DelayReaches
    <2>4. SecondsUntil(NotBefore(r)) \in Int
        BY <2>2, SecondsAreWhole
    <2>5. ~(clock + SecondsUntil(NotBefore(r)) * Second < NotBefore(r))
        BY <2>2, <2>3, <2>4, Numbers
    <2>6. Stored /\ Queued(r)'
        BY <2>1, <2>5, MessageStored DEF Inductive, TypeOK, Scheduled
    <2> QED
        BY <2>6 DEF Handed
<1> QED
    BY <1>1, <1>2, <1>3 DEF Inductive, TypeOK

(* After a send the publisher marks the record at hand, and no other.        *)
LEMMA MarkReady ==
    ASSUME Inductive, NEW p \in Publishers, NEW r \in page[p], AtHand(p, r),
           createdAt' = createdAt, clock' = clock, page'[p] = page[p],
           \/ step[p] = "send" /\ step'[p] = "mark" /\ Handed(r)'
           \/ step[p] = "sendWork" /\ step'[p] = "markWork" /\ Queued(r)'
    PROVE  PublisherOK(p)'
<1>1. PublisherOK(p)
    BY DEF Inductive, PublishersInv
<1>2. ASSUME NEW q \in page[p], AtHand(p, q)'
      PROVE  q = r
    <2>1. AtHand(p, q)
        BY <1>2 DEF AtHand, CreatedBefore, DueBefore, NotBefore
    <2> QED
        BY <1>1, <2>1, OneAtHand DEF Inductive, PublisherOK
<1>3. /\ \A q \in page'[p] : Committed(q)'
      /\ step'[p] \in Loop2 => \A q \in page'[p] : NotBefore(q)' <= clock'
    BY <1>1 DEF PublisherOK, Committed, NotBefore, Loop2
<1> QED
    BY <1>2, <1>3 DEF PublisherOK

(* The record at hand is a committed one.                                    *)
LEMMA HandIsCommitted ==
    ASSUME Inductive, NEW p \in Publishers, NEW r \in page[p]
    PROVE  r \in Records /\ Committed(r)
    BY DEF Inductive, TypeOK, PublishersInv, PublisherOK

(* A send.                                                                   *)
LEMMA SendKeeps ==
    ASSUME Inductive, NEW p \in Publishers, Send(p)
    PROVE  Inductive'
<1>1. PICK r \in page[p] :
        /\ AtHand(p, r)
        /\ \/ Accepted(r) /\ HandOver(r) /\ Goto(p, "mark")
           \/ ~Accepted(r) /\ NotHandedOver /\ Goto(p, "fail")
           \/ /\ r \notin malformed /\ TooLong(r) /\ ~local
              /\ schedule[Delivery[r]] = r
              /\ NotHandedOver /\ Goto(p, "mark")
    BY DEF Send
<1>2. /\ step[p] = "send"
      /\ UNCHANGED <<local, clock, createdAt, malformed>>
      /\ UNCHANGED <<shard, page>>
      /\ faults' \in 0..MaxFaults
    BY DEF Send, Inductive, TypeOK
<1>3. r \in Records /\ Committed(r)
    BY HandIsCommitted
<1>4. CASE Accepted(r) /\ HandOver(r) /\ Goto(p, "mark")
    <2>1. Stored /\ Handed(r)'
        BY <1>2, <1>3, <1>4, HandOverStored
    <2>2. Moved(p) /\ step'[p] = "mark" /\ page'[p] = page[p]
        BY <1>2, <1>4, GotoMoves DEF Inductive, Step
    <2>3. PublisherOK(p)'
        BY <1>1, <1>2, <2>1, <2>2, MarkReady
    <2> QED
        BY <1>2, <2>1, <2>2, <2>3, StoredKeeps
<1>5. CASE NotHandedOver /\ Goto(p, "fail")
    <2>1. Stored
        BY <1>2, <1>5, NothingStored
    <2>2. Moved(p) /\ step'[p] = "fail" /\ page'[p] = page[p]
        BY <1>2, <1>5, GotoMoves DEF Inductive, Step
    <2>3. PublisherOK(p)'
        BY <1>2, <2>2, PassOK
    <2> QED
        BY <1>2, <2>1, <2>2, <2>3, StoredKeeps
<1>6. CASE schedule[Delivery[r]] = r /\ NotHandedOver /\ Goto(p, "mark")
    <2>1. Stored /\ Handed(r)'
        BY <1>2, <1>3, <1>6, NothingStored DEF NotHandedOver, external, Handed, Scheduled
    <2>2. Moved(p) /\ step'[p] = "mark" /\ page'[p] = page[p]
        BY <1>2, <1>6, GotoMoves DEF Inductive, Step
    <2>3. PublisherOK(p)'
        BY <1>1, <1>2, <2>1, <2>2, MarkReady
    <2> QED
        BY <1>2, <2>1, <2>2, <2>3, StoredKeeps
<1> QED
    BY <1>1, <1>4, <1>5, <1>6

(* A send that fails, or whose answer is lost.                               *)
LEMMA SendFailsKeeps ==
    ASSUME Inductive, NEW p \in Publishers, SendFails(p)
    PROVE  Inductive'
<1>1. PICK r \in page[p] : NotHandedOver \/ (Accepted(r) /\ HandOver(r))
    BY DEF SendFails
<1>2. /\ Goto(p, "fail")
      /\ UNCHANGED <<local, clock, createdAt, malformed>>
      /\ UNCHANGED <<shard, page>>
      /\ faults' \in 0..MaxFaults
    BY FaultType DEF SendFails, Inductive
<1>3. r \in Records /\ Committed(r)
    BY HandIsCommitted
<1>4. Stored
    BY <1>1, <1>2, <1>3, NothingStored, HandOverStored
<1>5. Moved(p) /\ step'[p] = "fail" /\ page'[p] = page[p]
    BY <1>2, GotoMoves DEF Inductive, Step
<1>6. PublisherOK(p)'
    BY <1>2, <1>5, PassOK
<1> QED
    BY <1>2, <1>4, <1>5, <1>6, StoredKeeps

(* A mark: the record leaves the index, having been handed over.             *)
LEMMA MarkKeeps ==
    ASSUME Inductive, NEW p \in Publishers, Mark(p)
    PROVE  Inductive'
<1>1. PICK r \in page[p] : /\ AtHand(p, r)
                           /\ unpublished' = unpublished \ {r}
                           /\ Continue(p, r, "scan", "send")
    BY DEF Mark
<1>2. /\ step[p] = "mark"
      /\ UNCHANGED <<local, clock, createdAt, malformed, work>>
      /\ UNCHANGED <<queued, early, schedule>>
      /\ faults' \in 0..MaxFaults
    BY DEF Mark, external, Inductive, TypeOK
<1>3. Handed(r)
    BY <1>1, <1>2 DEF Inductive, PublishersInv, PublisherOK
<1>4. Onward /\ Handed(r)'
    BY <1>2, <1>3 DEF Onward, Handed, Scheduled, Queued
<1>5. StoreTypes' /\ StoreInv' /\ NeverEarly'
    BY <1>1, <1>2 DEF Inductive, TypeOK, StoreTypes, StoreInv, NeverEarly, Committed, Queued
<1>6. Stored
    BY <1>1, <1>4, <1>5 DEF Stored
<1>7. /\ Moved(p) /\ page'[p] \subseteq page[p]
      /\ step'[p] \in {"scan", "scanWork", "idle", "send"}
    BY <1>1, ContinueMoves DEF Inductive
<1>8. PublisherOK(p)'
    BY <1>2, <1>7, PassOK
<1> QED
    BY <1>2, <1>6, <1>7, <1>8, StoredKeeps

(* Due work is sent without a delay, and is not early.                       *)
LEMMA SendWorkKeeps ==
    ASSUME Inductive, NEW p \in Publishers, SendWork(p)
    PROVE  Inductive'
<1>1. PICK r \in page[p] : AtHand(p, r) /\ Enqueue(r, 0)
    BY DEF SendWork
<1>2. /\ step[p] = "sendWork" /\ Goto(p, "markWork")
      /\ UNCHANGED <<local, clock, createdAt, malformed>>
      /\ UNCHANGED <<work, unpublished, schedule>>
      /\ UNCHANGED <<shard, page>>
      /\ faults' \in 0..MaxFaults
    BY DEF SendWork, store, Inductive, TypeOK
<1>3. r \in Records /\ Committed(r)
    BY HandIsCommitted
<1>4. NotBefore(r) <= clock
    BY <1>2 DEF Inductive, PublishersInv, PublisherOK, Loop2
<1>5. NotBefore(r) \in Nat /\ clock \in Nat
    BY <1>3, Instants, Numbers DEF Inductive, TypeOK
<1>6. ~(clock + 0 * Second < NotBefore(r))
    BY <1>4, <1>5, Numbers
<1>7. Stored /\ Queued(r)'
    BY <1>1, <1>2, <1>3, <1>6, MessageStored DEF Inductive, TypeOK, Scheduled
<1>8. Moved(p) /\ step'[p] = "markWork" /\ page'[p] = page[p]
    BY <1>2, GotoMoves DEF Inductive, Step
<1>9. PublisherOK(p)'
    BY <1>1, <1>2, <1>7, <1>8, MarkReady
<1> QED
    BY <1>2, <1>7, <1>8, <1>9, StoredKeeps

(* Work is marked published once its message was sent.                       *)
LEMMA MarkWorkKeeps ==
    ASSUME Inductive, NEW p \in Publishers, MarkWork(p)
    PROVE  Inductive'
<1>1. PICK r \in page[p] : /\ AtHand(p, r)
                           /\ work' = [work EXCEPT ![r] = "published"]
                           /\ Continue(p, r, "scanWork", "sendWork")
    BY DEF MarkWork
<1>2. /\ step[p] = "markWork"
      /\ UNCHANGED <<local, clock, createdAt, malformed, unpublished>>
      /\ UNCHANGED <<queued, early, schedule>>
      /\ faults' \in 0..MaxFaults
    BY DEF MarkWork, external, Inductive, TypeOK
<1>3. r \in Records /\ Committed(r)
    BY HandIsCommitted
<1>4. Queued(r)
    BY <1>1, <1>2 DEF Inductive, PublishersInv, PublisherOK
<1>5. /\ work' \in [Records -> {"none", "pending", "published"}]
      /\ \A q \in Records \ {r} : work'[q] = work[q]
    BY <1>1 DEF Inductive, TypeOK
<1>6. Onward
    BY <1>2, <1>4, <1>5 DEF Onward, Handed, Scheduled, Queued
<1>7. StoreTypes' /\ NeverEarly'
    BY <1>2, <1>5 DEF Inductive, TypeOK, StoreTypes, NeverEarly
<1>8. StoreInv'
    BY <1>2, <1>3, <1>4, <1>5 DEF Inductive, StoreInv, Committed, Queued
<1>9. Stored
    BY <1>2, <1>6, <1>7, <1>8 DEF Stored
<1>10. /\ Moved(p) /\ page'[p] \subseteq page[p]
       /\ step'[p] \in {"scan", "scanWork", "idle", "sendWork"}
    BY <1>1, ContinueMoves DEF Inductive
<1>11. PublisherOK(p)'
    BY <1>2, <1>10, PassOK DEF Loop2
<1> QED
    BY <1>2, <1>9, <1>10, <1>11, StoredKeeps

-------------------------------------------------------------------------------
(* The steps of everyone else.                                               *)

(* EventBridge sends the message of a schedule.                              *)
LEMMA ScheduleFiresKeeps ==
    ASSUME Inductive, NEW d \in Deliveries, ScheduleFires(d)
    PROVE  Inductive'
<1> DEFINE r == schedule[d]
<1>1. /\ r # NoRecord /\ NotBefore(r) <= clock /\ Enqueue(r, 0)
      /\ schedule' = [schedule EXCEPT ![d] = NoRecord]
      /\ UNCHANGED <<local, clock, createdAt, malformed>>
      /\ UNCHANGED <<work, unpublished>>
      /\ UNCHANGED <<step, shard, page, faults>>
    BY DEF ScheduleFires, store, publisher
<1>2. r \in Records
    BY <1>1 DEF Inductive, TypeOK
<1>3. /\ schedule' \in [Deliveries -> Records \cup {NoRecord}]
      /\ \A q \in Records \ {r} : Scheduled(q) => Scheduled(q)'
    BY <1>1, Numbers DEF Inductive, TypeOK, Scheduled
<1>4. NotBefore(r) \in Int /\ clock \in Nat
    <2> HIDE DEF r
    <2>1. createdAt[r] \in Int /\ Wait[r] \in Nat /\ clock \in Nat
        BY <1>2, Numbers DEF Inductive, TypeOK, Never
    <2> QED
        BY <2>1 DEF NotBefore
<1>5. ~(clock + 0 * Second < NotBefore(r))
    BY <1>1, <1>4, Numbers
<1> HIDE DEF r
<1>6. Stored
    BY <1>1, <1>2, <1>3, <1>5, MessageStored
<1>7. TypeOK'
    BY <1>1, <1>6 DEF Stored, StoreTypes, Inductive, TypeOK
<1>8. PublishersInv'
    BY <1>1, <1>6, PublisherKept DEF Stored, PublishersInv
<1>9. NothingLost'
    BY <1>1, <1>6, NothingLostKept DEF Stored
<1> QED
    BY <1>6, <1>7, <1>8, <1>9 DEF Stored, Inductive

(* A record is committed, which none on a page was.                          *)
LEMMA CommitKeeps ==
    ASSUME Inductive, NEW r \in Records, Commit(r)
    PROVE  Inductive'
<1>1. /\ ~Committed(r)
      /\ createdAt' = [createdAt EXCEPT ![r] = clock]
      /\ unpublished' = unpublished \cup {r}
      /\ malformed' \in {malformed, malformed \cup ({r} \cap MaybeMalformed)}
      /\ UNCHANGED <<local, clock, work, queued, early, schedule>>
      /\ UNCHANGED <<step, shard, page, faults>>
    BY DEF Commit, external, publisher
<1>2. /\ createdAt' \in [Records -> (0..MaxTime) \cup {Never}]
      /\ createdAt'[r] = clock /\ clock # Never
      /\ \A q \in Records \ {r} : createdAt'[q] = createdAt[q]
    BY <1>1, Numbers DEF Inductive, TypeOK, Never
<1>3. TypeOK'
    BY <1>1, <1>2 DEF Inductive, TypeOK
<1>4. \A q \in Records : Committed(q) => Committed(q)' /\ q # r
    BY <1>1, <1>2 DEF Committed
<1>5. StoreInv' /\ NeverEarly'
    BY <1>1, <1>2, <1>4 DEF Inductive, TypeOK, StoreInv, NeverEarly, Committed, Queued
<1>6. NothingLost'
    BY <1>1, <1>2 DEF Inductive, NothingLost, Committed, Scheduled, Queued
<1>7. ASSUME NEW p \in Publishers
      PROVE  PublisherOK(p)'
    <2>1. PublisherOK(p) /\ page[p] \subseteq Records
        BY DEF Inductive, PublishersInv, TypeOK
    <2>2. \A q \in page[p] : q # r /\ q \in Records /\ createdAt'[q] = createdAt[q]
        BY <1>2, <1>4, <2>1 DEF PublisherOK
    <2>3. \A q \in page[p] : NotBefore(q)' = NotBefore(q) /\ Committed(q)' /\ Committed(q)
        BY <1>4, <2>1, <2>2 DEF NotBefore, PublisherOK
    <2>4. \A q \in page[p] : AtHand(p, q)' => AtHand(p, q)
        BY <1>1, <2>2, <2>3 DEF AtHand, CreatedBefore, DueBefore
    <2>5. \A q \in page[p] : Handed(q)' = Handed(q) /\ Queued(q)' = Queued(q)
        BY <1>1 DEF Handed, Scheduled, Queued
    <2> QED
        BY <1>1, <2>1, <2>3, <2>4, <2>5 DEF PublisherOK
<1> QED
    BY <1>3, <1>5, <1>6, <1>7 DEF Inductive, PublishersInv

(* Time passes: what is due stays due.                                       *)
LEMMA TickKeeps ==
    ASSUME Inductive, Tick
    PROVE  Inductive'
<1>1. /\ clock < MaxTime /\ clock' = clock + 1
      /\ UNCHANGED <<local, createdAt, malformed, unpublished, work>>
      /\ UNCHANGED <<queued, early, schedule>>
      /\ UNCHANGED <<step, shard, page, faults>>
    BY DEF Tick, store, external, publisher
<1>2. TypeOK'
    BY <1>1, Numbers DEF Inductive, TypeOK
<1>3. StoreInv' /\ NothingLost' /\ NeverEarly'
    BY <1>1 DEF Inductive, StoreInv, NothingLost, NeverEarly, Committed, Scheduled, Queued
<1>4. ASSUME NEW p \in Publishers
      PROVE  PublisherOK(p)'
    <2>1. PublisherOK(p) /\ page[p] \subseteq Records /\ clock \in Nat
        BY Numbers DEF Inductive, PublishersInv, TypeOK
    <2>2. \A q \in page[p] : NotBefore(q) \in Nat
        BY <2>1, Instants DEF PublisherOK, Inductive
    <2>3. \A q \in page[p] : /\ AtHand(p, q)' => AtHand(p, q)
                             /\ Handed(q)' = Handed(q) /\ Queued(q)' = Queued(q)
                             /\ NotBefore(q)' = NotBefore(q)
        BY <1>1 DEF AtHand, CreatedBefore, DueBefore, NotBefore, Handed, Scheduled, Queued
    <2>4. step'[p] \in Loop2 => \A q \in page'[p] : NotBefore(q)' <= clock'
        BY <1>1, <2>1, <2>2, <2>3 DEF PublisherOK
    <2> QED
        BY <1>1, <2>1, <2>3, <2>4 DEF PublisherOK, Committed
<1> QED
    BY <1>2, <1>3, <1>4 DEF Inductive, PublishersInv

-------------------------------------------------------------------------------
(* The theorems.                                                             *)

(* Nothing is committed, sent or held at the beginning.                      *)
LEMMA InitInductive ==
    ASSUME Init
    PROVE  Inductive
<1>1. TypeOK
    BY Numbers DEF Init, TypeOK, Step, Shards, Never
<1>2. \A r \in Records : ~Committed(r) /\ work[r] = "none"
    BY DEF Init, Committed
<1>3. StoreInv /\ NothingLost /\ NeverEarly
    BY <1>2 DEF Init, StoreInv, NothingLost, NeverEarly
<1>4. PublishersInv
    BY DEF Init, PublishersInv, PublisherOK, Loop2
<1> QED
    BY <1>1, <1>3, <1>4 DEF Inductive

(* Every step keeps the invariant.                                           *)
LEMMA NextInductive ==
    ASSUME Inductive, [Next]_vars
    PROVE  Inductive'
<1>1. CASE Tick
    BY <1>1, TickKeeps
<1>2. CASE \E r \in Records : Commit(r)
    BY <1>2, CommitKeeps
<1>3. ASSUME NEW p \in Publishers,
             TickStep(p) \/ SendFails(p) \/ MarkFails(p) \/ Crash(p)
      PROVE  Inductive'
    BY <1>3, PassesKeep, TakeKeeps, SendKeeps, SendFailsKeeps, MarkKeeps, SendWorkKeeps,
       MarkWorkKeeps DEF TickStep
<1>4. CASE \E d \in Deliveries : ScheduleFires(d)
    BY <1>4, ScheduleFiresKeeps
<1>5. CASE UNCHANGED vars
    BY <1>5 DEF vars, store, external, publisher, Inductive, TypeOK, StoreInv, PublishersInv,
       PublisherOK, NothingLost, NeverEarly, AtHand, CreatedBefore, DueBefore, NotBefore,
       Handed, Committed, Scheduled, Queued
<1> QED
    BY <1>1, <1>2, <1>3, <1>4, <1>5 DEF Next

(* The invariant holds forever.                                              *)
LEMMA AlwaysInductive == Spec => []Inductive
    BY InitInductive, NextInductive, PTL DEF Spec

(* Type correctness of the outbox, for any records, delays and shards.       *)
THEOREM TypeCorrect == Spec => []TypeOK
<1>1. Inductive => TypeOK
    BY DEF Inductive
<1> QED
    BY <1>1, AlwaysInductive, PTL

(* Whatever the publishers, their errors and their crashes do, a committed   *)
(* record is unpublished, or work, or a schedule, or was sent.               *)
THEOREM NothingEverLost == Spec => []NothingLost
<1>1. Inductive => NothingLost
    BY DEF Inductive
<1> QED
    BY <1>1, AlwaysInductive, PTL

(* For any delay, any length of a second and any limit of the queue, no      *)
(* message becomes visible before its instant.                               *)
THEOREM NeverEverEarly == Spec => []NeverEarly
<1>1. Inductive => NeverEarly
    BY DEF Inductive
<1> QED
    BY <1>1, AlwaysInductive, PTL

-------------------------------------------------------------------------------
(* How often a record can be sent.                                           *)

Bit(b) == IF b THEN 1 ELSE 0

(* A publisher that has the record at hand and has handed it over, and one   *)
(* that has it on its page and is yet to.                                    *)
Marking(p, r) == step[p] = "mark" /\ AtHand(p, r)
MaySend(p, r) ==
    /\ r \in page[p]
    /\ step[p] \in {"send", "mark", "fail"}
    /\ step[p] # "send" => ~AtHand(p, r)

(* Work that the second loop is yet to send.                                 *)
WorkWaits(r) ==
    /\ work[r] = "pending"
    /\ ~(step["reconciler"] = "markWork" /\ AtHand("reconciler", r))

(* The messages of a record, sent or bound to be.                            *)
Messages(r) == queued[r] + Bit(Scheduled(r)) + Bit(WorkWaits(r))

(* While a record is unpublished, each of its messages is a fault's or is    *)
(* about to be marked; after that each publisher sends it at most once more. *)
Counted(r) ==
    /\ r \in unpublished =>
           Messages(r) <= faults + Bit(Marking("worker", r)) + Bit(Marking("reconciler", r))
    /\ r \notin unpublished =>
           Messages(r) + Bit(MaySend("worker", r)) + Bit(MaySend("reconciler", r)) <= faults + 2

(* The second loop is the reconciler's, and works on what is pending.        *)
LoopInv ==
    /\ step["worker"] \notin {"scanWork"} \cup Loop2
    /\ step["reconciler"] \in Loop2 => \A r \in page["reconciler"] : work[r] = "pending"

(* A schedule carries a record of its own delivery.                          *)
ScheduleInv ==
    \A d \in Deliveries : schedule[d] # NoRecord => Delivery[schedule[d]] = d

CountInv ==
    /\ LoopInv
    /\ ScheduleInv
    /\ \A r \in Records :
          /\ ~Committed(r) => queued[r] = 0 /\ ~Scheduled(r) /\ r \notin unpublished
          /\ Counted(r)

-------------------------------------------------------------------------------
(* Counting.                                                                 *)

(* The value of a truth.                                                     *)
LEMMA Bits ==
    ASSUME NEW b \in BOOLEAN
    PROVE  Bit(b) \in {0, 1} /\ (Bit(b) = 1) = b
    BY DEF Bit

(* What is counted are truth values and numbers.                             *)
LEMMA CountTypes ==
    ASSUME TypeOK, NEW r \in Records, NEW p \in Publishers
    PROVE  /\ Marking(p, r) \in BOOLEAN /\ MaySend(p, r) \in BOOLEAN
           /\ Scheduled(r) \in BOOLEAN /\ WorkWaits(r) \in BOOLEAN
           /\ Bit(Marking(p, r)) \in {0, 1} /\ Bit(MaySend(p, r)) \in {0, 1}
           /\ Bit(Marking(p, r)) + Bit(MaySend(p, r)) <= 1
           /\ queued[r] \in Nat /\ Messages(r) \in Nat /\ faults \in Nat
<1>1. /\ Marking(p, r) \in BOOLEAN /\ MaySend(p, r) \in BOOLEAN
      /\ Scheduled(r) \in BOOLEAN /\ WorkWaits(r) \in BOOLEAN
    BY DEF Marking, MaySend, Scheduled, WorkWaits, AtHand
<1>2. queued[r] \in Nat /\ faults \in Nat
    BY Numbers DEF TypeOK
<1>3. Marking(p, r) => ~MaySend(p, r)
    BY DEF Marking, MaySend
<1>4. Bit(Marking(p, r)) + Bit(MaySend(p, r)) <= 1
    BY <1>1, <1>3 DEF Bit
<1>5. Messages(r) \in Nat
    BY <1>1, <1>2, Bits DEF Messages
<1> QED
    BY <1>1, <1>2, <1>4, <1>5, Bits

(* The same of the next state.                                               *)
LEMMA CountTypesNext ==
    ASSUME TypeOK', NEW r \in Records, NEW p \in Publishers
    PROVE  /\ Bit(Marking(p, r)') \in {0, 1} /\ Bit(MaySend(p, r)') \in {0, 1}
           /\ Messages(r)' \in Nat /\ faults' \in Nat
<1>1. queued'[r] \in Nat /\ faults' \in Nat
    BY Numbers DEF TypeOK
<1>2. Bit(Scheduled(r))' \in {0, 1} /\ Bit(WorkWaits(r))' \in {0, 1}
    BY DEF Bit
<1>3. Messages(r)' \in Nat
    BY <1>1, <1>2 DEF Messages
<1> QED
    BY <1>1, <1>3 DEF Bit

(* A step of publisher p keeps the account of a record if what it adds is    *)
(* paid for by a mark to come, a send less to come, or a fault.              *)
LEMMA CountKept ==
    ASSUME TypeOK, TypeOK', NEW r \in Records, Counted(r),
           NEW p \in Publishers, NEW q \in Publishers, p # q,
           Marking(q, r)' = Marking(q, r), MaySend(q, r)' = MaySend(q, r),
           r \notin unpublished => r \notin unpublished',
           r \in unpublished' =>
               Messages(r)' + faults + Bit(Marking(p, r))
                   <= Messages(r) + faults' + Bit(Marking(p, r)'),
           r \notin unpublished =>
               Messages(r)' + faults + Bit(MaySend(p, r)')
                   <= Messages(r) + faults' + Bit(MaySend(p, r)),
           r \in unpublished /\ r \notin unpublished' =>
               Messages(r)' + faults + Bit(MaySend(p, r)') + Bit(Marking(p, r))
                   <= Messages(r) + faults' + 1
    PROVE  Counted(r)'
<1>1. \/ p = "worker" /\ q = "reconciler"
      \/ p = "reconciler" /\ q = "worker"
    BY DEF Publishers
<1> DEFINE m == Messages(r)
           n == Messages(r)'
           f == faults
           g == faults'
           mp == Bit(Marking(p, r))
           mq == Bit(Marking(q, r))
           sp == Bit(MaySend(p, r))
           sq == Bit(MaySend(q, r))
           np == Bit(Marking(p, r)')
           tp == Bit(MaySend(p, r)')
<1>2. /\ m \in Nat /\ f \in Nat
      /\ mp \in {0, 1} /\ mq \in {0, 1} /\ sp \in {0, 1} /\ sq \in {0, 1}
      /\ mq + sq <= 1
    BY CountTypes
<1>3. n \in Nat /\ g \in Nat /\ np \in {0, 1} /\ tp \in {0, 1}
    BY CountTypesNext
<1>4. /\ Bit(Marking(q, r))' = mq
      /\ Bit(MaySend(q, r))' = sq
      /\ Bit(Marking(p, r))' = np
      /\ Bit(MaySend(p, r))' = tp
    BY DEF Bit
<1>5. r \in unpublished => m <= f + mp + mq
    BY <1>1, <1>2 DEF Counted
<1>6. r \notin unpublished => m + sp + sq <= f + 2
    BY <1>1, <1>2 DEF Counted
<1>7. /\ r \in unpublished' => n + f + mp <= m + g + np
      /\ r \notin unpublished => n + f + tp <= m + g + sp
      /\ r \in unpublished /\ r \notin unpublished' => n + f + tp + mp <= m + g + 1
    OBVIOUS
<1> HIDE DEF m, n, f, g, mp, mq, sp, sq, np, tp
<1>8. r \in unpublished' => n <= g + np + mq
    BY <1>2, <1>3, <1>5, <1>7
<1>9. r \notin unpublished' => n + tp + sq <= g + 2
    BY <1>2, <1>3, <1>5, <1>6, <1>7
<1>10. /\ r \in unpublished' =>
              n <= g + Bit(Marking("worker", r))' + Bit(Marking("reconciler", r))'
       /\ r \notin unpublished' =>
              n + Bit(MaySend("worker", r))' + Bit(MaySend("reconciler", r))' <= g + 2
    BY <1>1, <1>2, <1>3, <1>4, <1>8, <1>9
<1> QED
    BY <1>10 DEF Counted, n, g

(* A publisher that a step leaves alone sees the same record at hand.        *)
LEMMA SameAtHand ==
    ASSUME NEW q \in Publishers, step'[q] = step[q], page'[q] = page[q],
           createdAt' = createdAt, NEW r
    PROVE  /\ AtHand(q, r)' = AtHand(q, r)
           /\ Marking(q, r)' = Marking(q, r)
           /\ MaySend(q, r)' = MaySend(q, r)
<1>1. AtHand(q, r)' = AtHand(q, r)
    BY DEF AtHand, CreatedBefore, DueBefore, NotBefore
<1> QED
    BY <1>1 DEF Marking, MaySend

(* The account of a publisher's step.                                        *)
LEMMA StepCounts ==
    ASSUME Inductive, Inductive', NEW p \in Publishers, Stepped(p),
           NEW r \in Records, Counted(r),
           r \notin unpublished => r \notin unpublished',
           r \in unpublished' =>
               Messages(r)' + faults + Bit(Marking(p, r))
                   <= Messages(r) + faults' + Bit(Marking(p, r)'),
           r \notin unpublished =>
               Messages(r)' + faults + Bit(MaySend(p, r)')
                   <= Messages(r) + faults' + Bit(MaySend(p, r)),
           r \in unpublished /\ r \notin unpublished' =>
               Messages(r)' + faults + Bit(MaySend(p, r)') + Bit(Marking(p, r))
                   <= Messages(r) + faults' + 1
    PROVE  Counted(r)'
<1>1. PICK q \in Publishers : q # p
    BY DEF Publishers
<1>2. Marking(q, r)' = Marking(q, r) /\ MaySend(q, r)' = MaySend(q, r)
    BY <1>1, SameAtHand DEF Stepped
<1> QED
    BY <1>1, <1>2, CountKept DEF Inductive

(* A step that hands nothing over and costs nothing, or that is a fault.     *)
LEMMA QuietCounts ==
    ASSUME Inductive, Inductive', NEW p \in Publishers, Stepped(p),
           NEW r \in Records, Counted(r),
           queued' = queued, schedule' = schedule, unpublished' = unpublished,
           MaySend(p, r)' => MaySend(p, r) \/ r \in unpublished,
           \/ /\ faults' = faults /\ ~Marking(p, r)
              /\ WorkWaits(r)' => WorkWaits(r)
           \/ /\ faults' = faults + 1
              /\ Marking(p, r) => (WorkWaits(r)' => WorkWaits(r))
    PROVE  Counted(r)'
<1>1. Scheduled(r)' = Scheduled(r)
    BY DEF Scheduled
<1>2. /\ queued[r] \in Nat /\ faults \in Nat
      /\ Scheduled(r) \in BOOLEAN /\ WorkWaits(r) \in BOOLEAN
      /\ Marking(p, r) \in BOOLEAN /\ MaySend(p, r) \in BOOLEAN
    BY CountTypes DEF Inductive
<1>3. /\ Bit(Scheduled(r))' = Bit(Scheduled(r))
      /\ Bit(Scheduled(r)) \in {0, 1}
      /\ Bit(WorkWaits(r)) \in {0, 1} /\ Bit(WorkWaits(r))' \in {0, 1}
      /\ (WorkWaits(r)' => WorkWaits(r)) => Bit(WorkWaits(r))' <= Bit(WorkWaits(r))
      /\ Bit(Marking(p, r)) \in {0, 1} /\ Bit(MaySend(p, r)) \in {0, 1}
      /\ Bit(Marking(p, r)') \in {0, 1} /\ Bit(MaySend(p, r)') \in {0, 1}
      /\ ~Marking(p, r) => Bit(Marking(p, r)) = 0
      /\ (MaySend(p, r)' => MaySend(p, r)) => Bit(MaySend(p, r)') <= Bit(MaySend(p, r))
    BY <1>1, <1>2 DEF Bit
<1>4. Messages(r)' - Messages(r) = Bit(WorkWaits(r))' - Bit(WorkWaits(r))
    BY <1>2, <1>3 DEF Messages
<1>5. Messages(r) \in Nat /\ Messages(r)' \in Nat /\ faults' \in Nat
    BY CountTypes, CountTypesNext DEF Inductive
<1>6. r \notin unpublished => Bit(MaySend(p, r)') <= Bit(MaySend(p, r))
    BY <1>3
<1> DEFINE m == Messages(r)
           n == Messages(r)'
           f == faults
           g == faults'
           w == Bit(WorkWaits(r))
           x == Bit(WorkWaits(r))'
           mp == Bit(Marking(p, r))
           np == Bit(Marking(p, r)')
           sp == Bit(MaySend(p, r))
           tp == Bit(MaySend(p, r)')
<1>7. n + f + mp <= m + g + np /\ (r \notin unpublished => n + f + tp <= m + g + sp)
    <2>1. /\ m \in Nat /\ n \in Nat /\ f \in Nat /\ g \in Nat
          /\ w \in {0, 1} /\ x \in {0, 1} /\ n - m = x - w
          /\ mp \in {0, 1} /\ np \in {0, 1} /\ sp \in {0, 1} /\ tp \in {0, 1}
          /\ r \notin unpublished => tp <= sp
        BY <1>2, <1>3, <1>4, <1>5, <1>6
    <2>2. \/ g = f /\ mp = 0 /\ x <= w
          \/ g = f + 1 /\ (mp = 0 \/ x <= w)
        BY <1>3
    <2> HIDE DEF m, n, f, g, w, x, mp, np, sp, tp
    <2> QED
        BY <2>1, <2>2
<1> QED
    BY <1>7, StepCounts

(* Away from the second loop work waits as it did.                           *)
LEMMA WorkWaitsSame ==
    ASSUME NEW p \in Publishers, Stepped(p), NEW r \in Records, work'[r] = work[r],
           step[p] # "markWork", step'[p] # "markWork"
    PROVE  WorkWaits(r)' = WorkWaits(r)
<1>1. CASE p = "reconciler"
    BY <1>1 DEF WorkWaits
<1>2. CASE p # "reconciler"
    BY <1>2, SameAtHand DEF Stepped, WorkWaits, Publishers
<1> QED
    BY <1>1, <1>2

(* Where the reconciler's second loop comes from.                            *)
LEMMA LoopKept ==
    ASSUME LoopInv, NEW p \in Publishers, Stepped(p),
           p = "worker" => step'[p] \notin {"scanWork"} \cup Loop2,
           p = "reconciler" /\ step'[p] \in Loop2 => \A r \in page'[p] : work'[r] = "pending",
           p = "worker" /\ step["reconciler"] \in Loop2 =>
               \A r \in page["reconciler"] : work'[r] = work[r]
    PROVE  LoopInv'
    BY DEF LoopInv, Stepped, Publishers

(* What a step keeps of a record it does not commit.                         *)
LEMMA UncommittedKept ==
    ASSUME NEW r \in Records, createdAt' = createdAt, ~Committed(r)',
           ~Committed(r) => queued[r] = 0 /\ ~Scheduled(r) /\ r \notin unpublished,
           Committed(r) \/ (queued'[r] = queued[r] /\ (Scheduled(r)' => Scheduled(r))
                              /\ (r \in unpublished' => r \in unpublished))
    PROVE  queued'[r] = 0 /\ ~Scheduled(r)' /\ r \notin unpublished'
    BY DEF Committed

(* A page is left for the next scan, which only the reconciler makes of work.*)
LEMMA LeaveGoes ==
    ASSUME TypeOK, NEW p \in Publishers, NEW scan \in {"scan", "scanWork"},
           LeaveShard(p, scan), p = "worker" => scan = "scan"
    PROVE  page'[p] = {} /\ step'[p] \in {"scan", "scanWork", "idle"}
           /\ (p = "worker" => step'[p] # "scanWork")
<1>1. /\ page' = [page EXCEPT ![p] = {}]
      /\ \E s \in {"scan", "scanWork", "idle"} :
            step' = [step EXCEPT ![p] = s] /\ (p = "worker" => s # "scanWork")
    BY DEF LeaveShard, Goto
<1> QED
    BY <1>1 DEF TypeOK

(* The record at hand is left, with the rest of the page or with none.       *)
LEMMA ContinueGoes ==
    ASSUME TypeOK, NEW p \in Publishers, NEW r \in page[p], NEW scan \in {"scan", "scanWork"},
           NEW send \in {"send", "sendWork"}, Continue(p, r, scan, send),
           p = "worker" => scan = "scan"
    PROVE  /\ page'[p] \subseteq page[p] \ {r}
           /\ step'[p] \in {"scan", "scanWork", "idle", send}
           /\ p = "worker" => step'[p] # "scanWork"
<1>1. CASE page[p] # {r}
    BY <1>1 DEF Continue, Goto, TypeOK
<1>2. CASE page[p] = {r}
    BY <1>2, LeaveGoes DEF Continue
<1> QED
    BY <1>1, <1>2

-------------------------------------------------------------------------------
(* The publishers' steps.                                                    *)

(* Steps that hand nothing over.                                             *)
LEMMA IdleCounts ==
    ASSUME Inductive, Inductive', CountInv, NEW p \in Publishers, Stepped(p), LoopInv',
           UNCHANGED <<queued, schedule, unpublished>>,
           \A r \in Records :
              /\ MaySend(p, r)' => MaySend(p, r) \/ r \in unpublished
              /\ \/ /\ faults' = faults /\ ~Marking(p, r)
                    /\ WorkWaits(r)' => WorkWaits(r)
                 \/ /\ faults' = faults + 1
                    /\ Marking(p, r) => (WorkWaits(r)' => WorkWaits(r))
    PROVE  CountInv'
<1>1. ASSUME NEW r \in Records PROVE Counted(r)'
    BY QuietCounts DEF CountInv
<1>2. ScheduleInv'
    BY DEF CountInv, ScheduleInv
<1>3. \A r \in Records : ~Committed(r)' =>
          queued'[r] = 0 /\ ~Scheduled(r)' /\ r \notin unpublished'
    BY DEF CountInv, Committed, Scheduled, Stepped
<1> QED
    BY <1>1, <1>2, <1>3 DEF CountInv

(* The beginning and the end of a tick, and what follows a failure.          *)
LEMMA PassesCount ==
    ASSUME Inductive, Inductive', CountInv, NEW p \in Publishers,
           BeginTick(p) \/ Crash(p) \/ MarkFails(p) \/ RecordFailure(p)
    PROVE  CountInv'
<1>1. TypeOK /\ LoopInv
    BY DEF Inductive, CountInv
<1>2. UNCHANGED <<local, clock, createdAt, malformed, unpublished, work, queued, schedule>>
    BY DEF BeginTick, Crash, MarkFails, RecordFailure, store, external
<1>3. CASE BeginTick(p)
    <2>1. Stepped(p) /\ step[p] = "idle" /\ step'[p] = "scan"
        BY <1>1, <1>2, <1>3 DEF BeginTick, Goto, Stepped, TypeOK
    <2>2. LoopInv'
        BY <1>1, <1>2, <2>1, LoopKept DEF Loop2
    <2>3. \A r \in Records : ~Marking(p, r) /\ ~MaySend(p, r)'
        BY <2>1 DEF Marking, MaySend
    <2>4. \A r \in Records : WorkWaits(r)' = WorkWaits(r)
        BY <1>2, <2>1, WorkWaitsSame
    <2>5. faults' = faults
        BY <1>3 DEF BeginTick
    <2> QED
        BY <1>2, <2>1, <2>2, <2>3, <2>4, <2>5, IdleCounts
<1>4. CASE Crash(p)
    <2>1. Stepped(p) /\ step'[p] = "idle" /\ faults' = faults + 1
        BY <1>1, <1>2, <1>4 DEF Crash, EndTick, Goto, Stepped, TypeOK, Fault
    <2>2. LoopInv'
        BY <1>1, <1>2, <2>1, LoopKept DEF Loop2
    <2>3. \A r \in Records : ~MaySend(p, r)'
        BY <2>1 DEF MaySend
    <2>4. \A r \in Records : Marking(p, r) => WorkWaits(r)' = WorkWaits(r)
        BY <1>2, <2>1, WorkWaitsSame DEF Marking
    <2> QED
        BY <1>2, <2>1, <2>2, <2>3, <2>4, IdleCounts
<1>5. CASE MarkFails(p)
    <2>1. /\ Stepped(p) /\ step[p] = "mark" /\ step'[p] = "fail" /\ faults' = faults + 1
          /\ page'[p] = page[p]
        BY <1>1, <1>2, <1>5 DEF MarkFails, Goto, Stepped, TypeOK, Fault
    <2>2. LoopInv'
        BY <1>1, <1>2, <2>1, LoopKept DEF Loop2
    <2>3. \A r \in Records : AtHand(p, r)' = AtHand(p, r)
        BY <1>2, <2>1 DEF AtHand, CreatedBefore
    <2>4. \A r \in Records : MaySend(p, r)' => MaySend(p, r)
        BY <2>1, <2>3 DEF MaySend
    <2>5. \A r \in Records : WorkWaits(r)' = WorkWaits(r)
        BY <1>2, <2>1, WorkWaitsSame
    <2> QED
        BY <1>2, <2>1, <2>2, <2>4, <2>5, IdleCounts
<1>6. CASE RecordFailure(p)
    <2>1. PICK h \in page[p] : AtHand(p, h) /\ Continue(p, h, "scan", "send")
        BY <1>6 DEF RecordFailure
    <2>2. /\ Stepped(p) /\ step[p] = "fail" /\ faults' = faults
          /\ page'[p] \subseteq page[p] \ {h}
          /\ step'[p] \in {"scan", "scanWork", "idle", "send"}
          /\ p = "worker" => step'[p] # "scanWork"
        BY <1>1, <1>2, <1>6, <2>1, ContinueMoves, ContinueGoes
           DEF RecordFailure, Stepped, Moved
    <2>3. LoopInv'
        BY <1>1, <1>2, <2>2, LoopKept DEF Loop2
    <2>4. ASSUME NEW r \in Records
          PROVE  /\ MaySend(p, r)' => MaySend(p, r)
                 /\ ~Marking(p, r)
        <3>1. r \in page'[p] => ~AtHand(p, r)
            BY <1>1, <2>1, <2>2, HandIsCommitted, OneAtHand
        <3> QED
            BY <2>2, <3>1 DEF MaySend, Marking
    <2>5. \A r \in Records : WorkWaits(r)' = WorkWaits(r)
        BY <1>2, <2>2, WorkWaitsSame
    <2> QED
        BY <1>2, <2>2, <2>3, <2>4, <2>5, IdleCounts
<1> QED
    BY <1>3, <1>4, <1>5, <1>6

(* A query puts only unpublished records on a page, or pending work.         *)
LEMMA TakeCounts ==
    ASSUME Inductive, Inductive', CountInv, NEW p \in Publishers, Scan(p) \/ ScanWork(p)
    PROVE  CountInv'
<1>1. TypeOK /\ LoopInv
    BY DEF Inductive, CountInv
<1>2. /\ UNCHANGED <<local, clock, createdAt, malformed, unpublished, work, queued, schedule>>
      /\ faults' = faults
    BY DEF Scan, ScanWork, Take, store, external
<1>3. /\ Stepped(p) /\ step[p] \in {"scan", "scanWork"}
      /\ step'[p] \in {"scan", "scanWork", "idle", "send", "sendWork"}
      /\ step'[p] = "send" => page'[p] \subseteq unpublished
      /\ step'[p] = "sendWork" => \A r \in page'[p] : work[r] = "pending"
      /\ p = "worker" => step'[p] \notin {"scanWork", "sendWork"}
    <2>1. CASE Scan(p)
        <3>1. Take(p, Unpublished(p, shard[p]), "scan", "send") /\ step[p] = "scan"
            BY <2>1 DEF Scan, Take
        <3>2. Unpublished(p, shard[p]) \subseteq unpublished
            BY DEF Unpublished
        <3>3. CASE LeaveShard(p, "scan")
            BY <1>1, <1>2, <3>1, <3>3, LeaveMoves, LeaveGoes DEF Stepped, Moved
        <3>4. CASE page' = [page EXCEPT ![p] = Unpublished(p, shard[p])] /\ Goto(p, "send")
            BY <1>1, <1>2, <3>1, <3>2, <3>4 DEF Goto, Stepped, TypeOK
        <3> QED
            BY <3>1, <3>3, <3>4 DEF Take
    <2>2. CASE ScanWork(p)
        <3>1. Take(p, DueScheduledWork(shard[p]), "scanWork", "sendWork") /\ step[p] = "scanWork"
            BY <2>2 DEF ScanWork, Take
        <3>2. p # "worker" /\ \A r \in DueScheduledWork(shard[p]) : work[r] = "pending"
            BY <1>1, <3>1 DEF DueScheduledWork, LoopInv
        <3>3. CASE LeaveShard(p, "scanWork")
            BY <1>1, <1>2, <3>1, <3>2, <3>3, LeaveMoves, LeaveGoes DEF Stepped, Moved
        <3>4. CASE page' = [page EXCEPT ![p] = DueScheduledWork(shard[p])] /\ Goto(p, "sendWork")
            BY <1>1, <1>2, <3>1, <3>2, <3>4 DEF Goto, Stepped, TypeOK
        <3> QED
            BY <3>1, <3>3, <3>4 DEF Take
    <2> QED
        BY <2>1, <2>2
<1>4. LoopInv'
    BY <1>1, <1>2, <1>3, LoopKept DEF Loop2
<1>5. \A r \in Records : ~Marking(p, r) /\ (MaySend(p, r)' => r \in unpublished)
    BY <1>3 DEF Marking, MaySend
<1>6. \A r \in Records : WorkWaits(r)' = WorkWaits(r)
    BY <1>2, <1>3, WorkWaitsSame
<1> QED
    BY <1>2, <1>3, <1>4, <1>5, <1>6, IdleCounts

(* Handing a record over makes one message of it, and none of another.       *)
LEMMA HandOverCounts ==
    ASSUME Inductive, CountInv, NEW p \in Publishers, Stepped(p), step[p] = "send",
           step'[p] \in {"mark", "fail"}, NEW h \in Records, Accepted(h), HandOver(h)
    PROVE  /\ Messages(h)' <= Messages(h) + 1
           /\ \A r \in Records \ {h} : Messages(r)' = Messages(r)
           /\ unpublished' = unpublished \/ unpublished' = unpublished \ {h}
           /\ \A r \in Records \ {h} :
                 queued'[r] = queued[r] /\ (Scheduled(r)' => Scheduled(r))
           /\ ScheduleInv'
           /\ p = "worker" /\ step["reconciler"] \in Loop2 =>
                  \A r \in page["reconciler"] : work'[r] = work[r]
<1> USE DEF Inductive, TypeOK
<1>1. \A r \in Records : work'[r] = work[r] => WorkWaits(r)' = WorkWaits(r)
    BY WorkWaitsSame
<1>2. \A r \in Records :
          /\ queued[r] \in Nat
          /\ Scheduled(r) \in BOOLEAN /\ WorkWaits(r) \in BOOLEAN
          /\ Bit(Scheduled(r)) \in {0, 1} /\ Bit(WorkWaits(r)) \in {0, 1}
          /\ Bit(Scheduled(r))' \in {0, 1} /\ Bit(WorkWaits(r))' \in {0, 1}
    BY CountTypes DEF Bit
<1>3. CASE TooLong(h) /\ local
    <2>1. /\ work[h] = "none"
          /\ work' = [work EXCEPT ![h] = "pending"]
          /\ unpublished' = unpublished \ {h}
          /\ UNCHANGED <<queued, schedule>>
        BY <1>3 DEF Accepted, HandOver, MayMaterialize, Materialize, external
    <2>2. \A r \in Records : Bit(Scheduled(r))' = Bit(Scheduled(r)) /\ queued'[r] = queued[r]
                              /\ (Scheduled(r)' => Scheduled(r))
        BY <2>1 DEF Scheduled, Bit
    <2>3. \A r \in Records \ {h} : WorkWaits(r)' = WorkWaits(r)
        BY <1>1, <2>1
    <2>4. \A r \in Records \ {h} : Bit(WorkWaits(r))' = Bit(WorkWaits(r))
        BY <2>3 DEF Bit
    <2>5. \A r \in Records \ {h} : Messages(r)' = Messages(r)
        BY <1>2, <2>2, <2>4 DEF Messages
    <2>6. Messages(h)' <= Messages(h) + 1
        BY <1>2, <2>2 DEF Messages
    <2>7. p = "worker" /\ step["reconciler"] \in Loop2 =>
              \A r \in page["reconciler"] : work'[r] = work[r]
        BY <2>1 DEF CountInv, LoopInv
    <2> QED
        BY <2>1, <2>2, <2>5, <2>6, <2>7 DEF CountInv, ScheduleInv
<1>4. CASE TooLong(h) /\ ~local
    <2>1. /\ schedule[Delivery[h]] = NoRecord
          /\ schedule' = [schedule EXCEPT ![Delivery[h]] = h]
          /\ UNCHANGED <<work, unpublished, queued>>
        BY <1>4 DEF Accepted, HandOver, MayCreateSchedule, CreateSchedule
    <2>2. Delivery[h] \in Deliveries /\ \A r \in Records : Delivery[r] \in Deliveries /\ r # NoRecord
        BY Numbers DEF Deliveries
    <2>3. \A r \in Records : WorkWaits(r)' = WorkWaits(r)
        BY <1>1, <2>1
    <2>4. \A r \in Records : Bit(WorkWaits(r))' = Bit(WorkWaits(r)) /\ queued'[r] = queued[r]
        BY <2>1, <2>3 DEF Bit
    <2>5. \A r \in Records \ {h} : schedule'[Delivery[r]] = r <=> schedule[Delivery[r]] = r
        BY <2>1, <2>2
    <2>6. \A r \in Records \ {h} : Bit(Scheduled(r))' = Bit(Scheduled(r))
                                    /\ (Scheduled(r)' => Scheduled(r))
        BY <2>5 DEF Scheduled, Bit
    <2>7. \A r \in Records \ {h} : Messages(r)' = Messages(r)
        BY <1>2, <2>4, <2>6 DEF Messages
    <2>8. Messages(h)' <= Messages(h) + 1
        BY <1>2, <2>4 DEF Messages
    <2>9. ScheduleInv'
        BY <2>1, <2>2 DEF CountInv, ScheduleInv
    <2> QED
        BY <2>1, <2>4, <2>6, <2>7, <2>8, <2>9
<1>5. CASE ~TooLong(h)
    <2>1. /\ queued' = [queued EXCEPT ![h] = @ + 1]
          /\ UNCHANGED <<work, unpublished, schedule>>
        BY <1>5 DEF HandOver, Enqueue
    <2>2. \A r \in Records : WorkWaits(r)' = WorkWaits(r)
        BY <1>1, <2>1
    <2>3. \A r \in Records : Bit(WorkWaits(r))' = Bit(WorkWaits(r))
        BY <2>2 DEF Bit
    <2>4. \A r \in Records : Bit(Scheduled(r))' = Bit(Scheduled(r)) /\ (Scheduled(r)' => Scheduled(r))
        BY <2>1 DEF Scheduled, Bit
    <2>5. queued'[h] = queued[h] + 1 /\ \A r \in Records \ {h} : queued'[r] = queued[r]
        BY <2>1
    <2>6. \A r \in Records \ {h} : Messages(r)' = Messages(r)
        BY <1>2, <2>3, <2>4, <2>5 DEF Messages
    <2>7. Messages(h)' <= Messages(h) + 1
        BY <1>2, <2>3, <2>4, <2>5 DEF Messages
    <2> QED
        BY <2>1, <2>4, <2>5, <2>6, <2>7 DEF CountInv, ScheduleInv
<1> QED
    BY <1>3, <1>4, <1>5

(* Nothing written: nothing counted.                                         *)
LEMMA NothingCounts ==
    ASSUME Inductive, NEW p \in Publishers, Stepped(p), step[p] # "markWork",
           step'[p] # "markWork", UNCHANGED <<work, queued, schedule>>
    PROVE  \A r \in Records : Messages(r)' = Messages(r)
<1>1. \A r \in Records : WorkWaits(r)' = WorkWaits(r)
    BY WorkWaitsSame
<1>2. \A r \in Records : Bit(WorkWaits(r))' = Bit(WorkWaits(r))
    BY <1>1 DEF Bit
<1>3. \A r \in Records : Bit(Scheduled(r))' = Bit(Scheduled(r))
    BY DEF Scheduled, Bit
<1> QED
    BY <1>2, <1>3 DEF Messages

(* A send, whatever comes of it: the record at hand gets a message that is   *)
(* about to be marked, or one that a fault pays for.                         *)
LEMMA SendsCount ==
    ASSUME Inductive, Inductive', CountInv, NEW p \in Publishers, Send(p) \/ SendFails(p)
    PROVE  CountInv'
<1> DEFINE Nothing == UNCHANGED <<work, unpublished, queued, schedule>>
<1>1. PICK h \in page[p] :
          /\ AtHand(p, h)
          /\ \/ Accepted(h) /\ HandOver(h) /\ step' = [step EXCEPT ![p] = "mark"]
                 /\ faults' = faults
             \/ Nothing /\ step' = [step EXCEPT ![p] = "fail"] /\ faults' = faults
             \/ Nothing /\ step' = [step EXCEPT ![p] = "mark"] /\ faults' = faults
             \/ /\ Nothing \/ (Accepted(h) /\ HandOver(h))
                /\ step' = [step EXCEPT ![p] = "fail"]
                /\ faults' = faults + 1
    BY DEF Send, SendFails, Goto, NotHandedOver, external, Fault
<1>2. /\ step[p] = "send" /\ step'[p] \in {"mark", "fail"}
      /\ page' = page /\ createdAt' = createdAt
      /\ Stepped(p)
    BY <1>1 DEF Send, SendFails, Stepped, Inductive, TypeOK
<1>3. h \in Records /\ Committed(h)
    BY HandIsCommitted
<1>4. \A r \in Records : AtHand(p, r)' <=> r = h
    <2>1. \A r \in Records : AtHand(p, r)' <=> AtHand(p, r)
        BY <1>2 DEF AtHand, CreatedBefore
    <2>2. \A r \in Records : AtHand(p, r) => r \in page[p]
        BY DEF AtHand
    <2>3. \A r \in Records : AtHand(p, r) => r = h
        BY <1>1, <2>2, HandIsCommitted, OneAtHand DEF Inductive
    <2> QED
        BY <1>1, <2>1, <2>3
<1>5. /\ \A r \in Records : ~Marking(p, r) /\ (MaySend(p, r) <=> r \in page[p])
      /\ \A r \in Records \ {h} : MaySend(p, r)' => MaySend(p, r)
      /\ MaySend(p, h) /\ ~MaySend(p, h)'
      /\ step'[p] = "mark" => Marking(p, h)'
    BY <1>2, <1>3, <1>4 DEF Marking, MaySend
<1>6. /\ Messages(h)' <= Messages(h) + 1
      /\ Nothing => Messages(h)' = Messages(h)
      /\ \A r \in Records \ {h} : Messages(r)' = Messages(r)
      /\ unpublished' = unpublished \/ unpublished' = unpublished \ {h}
      /\ \A r \in Records \ {h} :
            queued'[r] = queued[r] /\ (Scheduled(r)' => Scheduled(r))
      /\ ScheduleInv'
      /\ p = "worker" /\ step["reconciler"] \in Loop2 =>
             \A r \in page["reconciler"] : work'[r] = work[r]
    <2>1. CASE Nothing
        <3>1. \A r \in Records : Messages(r)' = Messages(r) /\ Messages(r) \in Nat
            BY <1>2, <2>1, NothingCounts, CountTypes DEF Inductive
        <3> QED
            BY <1>3, <2>1, <3>1 DEF CountInv, ScheduleInv, Scheduled
    <2>2. CASE ~Nothing /\ Accepted(h) /\ HandOver(h)
        BY <1>2, <1>3, <2>2, HandOverCounts
    <2> QED
        BY <1>1, <2>1, <2>2
<1>7. LoopInv'
    BY <1>2, <1>6, LoopKept DEF CountInv, Loop2
<1>8. ASSUME NEW r \in Records PROVE Counted(r)'
    <2>1. /\ Counted(r) /\ Messages(r) \in Nat /\ Messages(r)' \in Nat
          /\ faults \in Nat /\ faults' \in Nat
        BY CountTypes, CountTypesNext DEF CountInv, Inductive
    <2>2. /\ Bit(Marking(p, r)) = 0 /\ Bit(Marking(p, r)') \in {0, 1}
          /\ Bit(MaySend(p, r)) \in {0, 1} /\ Bit(MaySend(p, r)') \in {0, 1}
        BY <1>5 DEF Bit
    <2>3. CASE r # h
        <3>1. Bit(MaySend(p, r)') <= Bit(MaySend(p, r)) /\ Messages(r)' = Messages(r)
              /\ (r \in unpublished <=> r \in unpublished') /\ faults <= faults'
            BY <1>1, <1>5, <1>6, <2>1, <2>3 DEF Bit
        <3> QED
            BY <1>2, <2>1, <2>2, <3>1, StepCounts
    <2>4. CASE r = h
        <3>1. Bit(MaySend(p, r)) = 1 /\ Bit(MaySend(p, r)') = 0
              /\ (step'[p] = "mark" => Bit(Marking(p, r)') = 1)
            BY <1>5, <2>4 DEF Bit
        <3>2. \/ faults' = faults /\ step'[p] = "mark"
              \/ faults' = faults /\ Nothing
              \/ faults' = faults + 1
            BY <1>1 DEF Inductive, TypeOK
        <3>3. /\ Messages(r)' + faults <= Messages(r) + faults' + Bit(Marking(p, r)')
              /\ Messages(r)' + faults <= Messages(r) + faults' + 1
            BY <1>6, <2>1, <2>2, <2>4, <3>1, <3>2
        <3> QED
            BY <1>2, <1>6, <2>1, <2>2, <3>1, <3>3, StepCounts
    <2> QED
        BY <2>3, <2>4
<1>9. \A r \in Records : ~Committed(r)' =>
          queued'[r] = 0 /\ ~Scheduled(r)' /\ r \notin unpublished'
    BY <1>2, <1>3, <1>6 DEF CountInv, Committed
<1> QED
    BY <1>6, <1>7, <1>8, <1>9 DEF CountInv

(* A mark: a record handed over leaves the index, and this publisher sends   *)
(* it no more.                                                               *)
LEMMA MarkCounts ==
    ASSUME Inductive, Inductive', CountInv, NEW p \in Publishers, Mark(p)
    PROVE  CountInv'
<1>1. PICK h \in page[p] : /\ AtHand(p, h)
                           /\ unpublished' = unpublished \ {h}
                           /\ Continue(p, h, "scan", "send")
    BY DEF Mark
<1>2. /\ TypeOK /\ LoopInv
      /\ UNCHANGED <<local, clock, createdAt, malformed>>
      /\ UNCHANGED <<work, queued, schedule>>
      /\ faults' = faults
      /\ step[p] = "mark"
    BY DEF Mark, external, Inductive, CountInv
<1>3. /\ Stepped(p)
      /\ page'[p] \subseteq page[p] \ {h}
      /\ step'[p] \in {"scan", "scanWork", "idle", "send"}
      /\ p = "worker" => step'[p] # "scanWork"
    BY <1>1, <1>2, ContinueMoves, ContinueGoes DEF Stepped, Moved
<1>4. LoopInv'
    BY <1>2, <1>3, LoopKept DEF Loop2
<1>5. h \in Records /\ \A r \in page[p] : AtHand(p, r) => r = h
    BY <1>1, <1>2, HandIsCommitted, OneAtHand
<1>6. /\ \A r \in Records : Marking(p, r) => r = h
      /\ \A r \in Records : MaySend(p, r)' => MaySend(p, r) /\ r # h
    BY <1>2, <1>3, <1>5 DEF Marking, MaySend, AtHand
<1>7. ASSUME NEW r \in Records PROVE Counted(r)'
    <2>1. /\ Counted(r) /\ Messages(r) \in Nat /\ Messages(r)' = Messages(r)
          /\ faults \in Nat /\ faults' = faults
        BY <1>2, <1>3, CountTypes, NothingCounts DEF CountInv, Inductive
    <2>2. /\ Bit(Marking(p, r)) \in {0, 1} /\ Bit(Marking(p, r)') \in {0, 1}
          /\ Bit(MaySend(p, r)) \in {0, 1} /\ Bit(MaySend(p, r)') \in {0, 1}
          /\ Bit(MaySend(p, r)') <= Bit(MaySend(p, r))
          /\ r # h => Bit(Marking(p, r)) = 0
          /\ r = h => Bit(MaySend(p, r)') = 0
        BY <1>6 DEF Bit
    <2>3. /\ r \in unpublished' => r # h
          /\ r \notin unpublished => r \notin unpublished'
          /\ r # h => (r \in unpublished => r \in unpublished')
        BY <1>1
    <2> QED
        BY <1>3, <2>1, <2>2, <2>3, StepCounts
<1>8. /\ ScheduleInv'
      /\ \A r \in Records : ~Committed(r)' =>
              queued'[r] = 0 /\ ~Scheduled(r)' /\ r \notin unpublished'
    BY <1>1, <1>2 DEF CountInv, ScheduleInv, Committed, Scheduled
<1> QED
    BY <1>4, <1>7, <1>8 DEF CountInv

(* Work that is sent waits no longer.                                        *)
LEMMA SendWorkCounts ==
    ASSUME Inductive, Inductive', CountInv, NEW p \in Publishers, SendWork(p)
    PROVE  CountInv'
<1>1. PICK h \in page[p] : /\ AtHand(p, h)
                           /\ queued' = [queued EXCEPT ![h] = @ + 1]
    BY DEF SendWork, Enqueue
<1>2. /\ TypeOK /\ LoopInv /\ Stepped(p)
      /\ UNCHANGED <<createdAt, work, unpublished, schedule, faults>>
      /\ step[p] = "sendWork" /\ step'[p] = "markWork" /\ page' = page
    BY DEF SendWork, Inductive, TypeOK, CountInv, Goto, Stepped, store
<1>3. p = "reconciler"
    BY <1>2 DEF LoopInv, Loop2, Publishers
<1>4. LoopInv'
    BY <1>2, <1>3, LoopKept DEF LoopInv, Loop2
<1>5. h \in Records /\ Committed(h) /\ work[h] = "pending"
    BY <1>2, <1>3, HandIsCommitted DEF LoopInv, Loop2
<1>6. \A r \in Records : AtHand(p, r)' <=> r = h
    <2>1. \A r \in Records : AtHand(p, r)' <=> AtHand(p, r)
        BY <1>2 DEF AtHand, DueBefore, NotBefore
    <2>2. \A r \in Records : AtHand(p, r) => r \in page[p]
        BY DEF AtHand
    <2>3. \A r \in Records : AtHand(p, r) => r = h
        BY <1>1, <1>2, <2>2, HandIsCommitted, OneAtHand
    <2> QED
        BY <1>1, <2>1, <2>3
<1>7. ASSUME NEW r \in Records PROVE Counted(r)'
    <2>1. /\ Counted(r) /\ queued[r] \in Nat /\ Messages(r) \in Nat /\ faults \in Nat
        BY <1>2, CountTypes DEF CountInv
    <2>2. /\ Bit(Marking(p, r)) = 0 /\ Bit(Marking(p, r)') = 0
          /\ Bit(MaySend(p, r)) = 0 /\ Bit(MaySend(p, r)') = 0
        BY <1>2 DEF Bit, Marking, MaySend
    <2>3. Bit(Scheduled(r))' = Bit(Scheduled(r)) /\ Bit(Scheduled(r)) \in {0, 1}
        BY <1>2 DEF Bit, Scheduled
    <2>4. /\ r # h => (WorkWaits(r)' <=> WorkWaits(r))
          /\ WorkWaits(h) /\ ~WorkWaits(h)'
        BY <1>2, <1>3, <1>5, <1>6 DEF WorkWaits
    <2>5. /\ Bit(WorkWaits(r)) \in {0, 1} /\ Bit(WorkWaits(r))' \in {0, 1}
          /\ r # h => Bit(WorkWaits(r))' = Bit(WorkWaits(r))
          /\ r = h => Bit(WorkWaits(r)) = 1 /\ Bit(WorkWaits(r))' = 0
        BY <2>4 DEF Bit
    <2>6. queued'[r] = IF r = h THEN queued[r] + 1 ELSE queued[r]
        BY <1>1, <1>2 DEF TypeOK
    <2>7. Messages(r)' = Messages(r)
        BY <2>1, <2>3, <2>5, <2>6 DEF Messages
    <2> QED
        BY <1>2, <2>1, <2>2, <2>7, StepCounts
<1>8. /\ ScheduleInv'
      /\ \A r \in Records : ~Committed(r)' =>
              queued'[r] = 0 /\ ~Scheduled(r)' /\ r \notin unpublished'
    BY <1>1, <1>2, <1>5 DEF CountInv, ScheduleInv, Committed, Scheduled, TypeOK
<1> QED
    BY <1>4, <1>7, <1>8 DEF CountInv

(* Work that was sent is marked.                                             *)
LEMMA MarkWorkCounts ==
    ASSUME Inductive, Inductive', CountInv, NEW p \in Publishers, MarkWork(p)
    PROVE  CountInv'
<1>1. PICK h \in page[p] : /\ AtHand(p, h)
                           /\ work' = [work EXCEPT ![h] = "published"]
                           /\ Continue(p, h, "scanWork", "sendWork")
    BY DEF MarkWork
<1>2. /\ TypeOK /\ LoopInv
      /\ UNCHANGED <<local, clock, createdAt, malformed>>
      /\ UNCHANGED <<unpublished, queued, schedule>>
      /\ faults' = faults
      /\ step[p] = "markWork"
    BY DEF MarkWork, external, Inductive, CountInv
<1>3. p = "reconciler"
    BY <1>2 DEF LoopInv, Loop2, Publishers
<1>4. /\ Stepped(p)
      /\ page'[p] \subseteq page[p] \ {h}
      /\ step'[p] \in {"scan", "scanWork", "idle", "sendWork"}
    BY <1>1, <1>2, <1>3, ContinueMoves, ContinueGoes DEF Stepped, Moved
<1>5. h \in Records /\ \A r \in page[p] : AtHand(p, r) => r = h
    BY <1>1, <1>2, HandIsCommitted, OneAtHand
<1>6. /\ work'[h] = "published"
      /\ \A r \in Records \ {h} : work'[r] = work[r]
    BY <1>1, <1>2, <1>5 DEF TypeOK
<1>7. \A r \in page'[p] : work'[r] = "pending"
    BY <1>2, <1>3, <1>4, <1>6, HandIsCommitted DEF LoopInv, Loop2
<1>8. LoopInv'
    BY <1>2, <1>3, <1>4, <1>7, LoopKept
<1>9. ASSUME NEW r \in Records
       PROVE  /\ ~Marking(p, r)
              /\ MaySend(p, r)' => r \in unpublished
              /\ WorkWaits(r)' => WorkWaits(r)
    <2>1. AtHand("reconciler", r) => r = h
        BY <1>3, <1>5 DEF AtHand
    <2>2. WorkWaits(r)' => WorkWaits(r)
        BY <1>6, <2>1 DEF WorkWaits
    <2> QED
        BY <1>2, <1>4, <2>2 DEF Marking, MaySend
<1> QED
    BY <1>2, <1>4, <1>8, <1>9, IdleCounts

-------------------------------------------------------------------------------
(* Everyone else's steps.                                                    *)

(* Both publishers are where they were.                                      *)
LEMMA ElseCounts ==
    ASSUME Inductive, Inductive', NEW r \in Records, Counted(r),
           \A q \in Publishers : Marking(q, r)' = Marking(q, r) /\ MaySend(q, r)' = MaySend(q, r),
           (r \in unpublished') = (r \in unpublished), faults' = faults,
           Messages(r)' = Messages(r)
    PROVE  Counted(r)'
<1>1. /\ Bit(Marking("worker", r))' = Bit(Marking("worker", r))
      /\ Bit(Marking("reconciler", r))' = Bit(Marking("reconciler", r))
      /\ Bit(MaySend("worker", r))' = Bit(MaySend("worker", r))
      /\ Bit(MaySend("reconciler", r))' = Bit(MaySend("reconciler", r))
    BY DEF Bit, Publishers
<1> QED
    BY <1>1 DEF Counted

(* A schedule that fires turns into a message.                               *)
LEMMA ScheduleFiresCounts ==
    ASSUME Inductive, Inductive', CountInv, NEW d \in Deliveries, ScheduleFires(d)
    PROVE  CountInv'
<1> DEFINE h == schedule[d]
<1>1. /\ TypeOK /\ h # NoRecord
      /\ queued' = [queued EXCEPT ![h] = @ + 1]
      /\ schedule' = [schedule EXCEPT ![d] = NoRecord]
      /\ UNCHANGED <<createdAt, work, unpublished, step, page, faults>>
    BY DEF ScheduleFires, Enqueue, store, publisher, Inductive
<1>2. h \in Records /\ Delivery[h] = d /\ \A r \in Records : r # NoRecord /\ Delivery[r] \in Deliveries
    BY <1>1, Numbers DEF TypeOK, CountInv, ScheduleInv, Deliveries
<1>3. Scheduled(h) /\ schedule[d] = h
    BY <1>2 DEF Scheduled
<1> HIDE DEF h
<1>4. ASSUME NEW r \in Records
      PROVE  Scheduled(r)' <=> (r # h /\ Scheduled(r))
    <2>1. schedule'[Delivery[r]] = IF Delivery[r] = d THEN NoRecord ELSE schedule[Delivery[r]]
        BY <1>1, <1>2 DEF TypeOK
    <2> QED
        BY <1>2, <1>3, <2>1 DEF Scheduled
<1>5. /\ \A q \in Publishers, r \in Records :
            Marking(q, r)' = Marking(q, r) /\ MaySend(q, r)' = MaySend(q, r)
      /\ \A r \in Records : WorkWaits(r)' = WorkWaits(r)
    BY <1>1, SameAtHand DEF WorkWaits, Publishers
<1>6. ASSUME NEW r \in Records PROVE Counted(r)'
    <2>1. /\ Counted(r) /\ queued[r] \in Nat
        BY <1>1 DEF CountInv, TypeOK
    <2>2. /\ Bit(Scheduled(r)) \in {0, 1} /\ Bit(Scheduled(r))' \in {0, 1}
          /\ r # h => Bit(Scheduled(r))' = Bit(Scheduled(r))
          /\ r = h => Bit(Scheduled(r)) = 1 /\ Bit(Scheduled(r))' = 0
        <3>1. Scheduled(r)' <=> (r # h /\ Scheduled(r))
            BY <1>4
        <3>2. r = h => Scheduled(r)
            BY <1>3
        <3> QED
            BY <3>1, <3>2 DEF Bit
    <2>3. Bit(WorkWaits(r))' = Bit(WorkWaits(r)) /\ Bit(WorkWaits(r)) \in {0, 1}
        BY <1>5 DEF Bit
    <2>4. queued'[r] = IF r = h THEN queued[r] + 1 ELSE queued[r]
        BY <1>1 DEF TypeOK
    <2>5. Messages(r)' = Messages(r)
        BY <2>1, <2>2, <2>3, <2>4 DEF Messages
    <2> QED
        BY <1>1, <1>5, <2>1, <2>5, ElseCounts
<1>7. LoopInv' /\ ScheduleInv'
    BY <1>1 DEF CountInv, LoopInv, ScheduleInv, TypeOK
<1>8. \A r \in Records : ~Committed(r)' =>
          queued'[r] = 0 /\ ~Scheduled(r)' /\ r \notin unpublished'
    <2> SUFFICES ASSUME NEW r \in Records, ~Committed(r)'
                 PROVE  queued'[r] = 0 /\ ~Scheduled(r)' /\ r \notin unpublished'
        OBVIOUS
    <2>1. queued[r] = 0 /\ ~Scheduled(r) /\ r \notin unpublished
        BY <1>1 DEF CountInv, Committed
    <2>2. r # h
        BY <1>3, <2>1
    <2> QED
        BY <1>1, <1>4, <2>1, <2>2 DEF TypeOK
<1> QED
    BY <1>6, <1>7, <1>8 DEF CountInv

(* A record is committed, and no message of it exists.                       *)
LEMMA CommitCounts ==
    ASSUME Inductive, Inductive', CountInv, NEW h \in Records, Commit(h)
    PROVE  CountInv'
<1>1. /\ TypeOK /\ ~Committed(h)
      /\ createdAt' = [createdAt EXCEPT ![h] = clock]
      /\ unpublished' = unpublished \cup {h}
      /\ UNCHANGED <<work, queued, schedule, step, page, faults>>
    BY DEF Commit, external, publisher, Inductive
<1>2. \A p \in Publishers : \A r \in page[p] : r # h /\ createdAt'[r] = createdAt[r]
    BY <1>1, HandIsCommitted DEF TypeOK
<1>3. \A p \in Publishers : \A r \in page[p] : NotBefore(r)' = NotBefore(r)
    BY <1>2 DEF NotBefore
<1>4. \A q \in Publishers, r \in Records : AtHand(q, r)' <=> AtHand(q, r)
    BY <1>1, <1>2, <1>3 DEF AtHand, CreatedBefore, DueBefore
<1>5. /\ \A q \in Publishers, r \in Records :
            Marking(q, r)' = Marking(q, r) /\ MaySend(q, r)' = MaySend(q, r)
      /\ \A r \in Records : WorkWaits(r)' = WorkWaits(r)
    BY <1>1, <1>4 DEF WorkWaits, Marking, MaySend, Publishers
<1>6. \A r \in Records : Messages(r)' = Messages(r)
    BY <1>1, <1>5 DEF Messages, Bit, Scheduled
<1>7. ASSUME NEW r \in Records PROVE Counted(r)'
    <2>1. CASE r # h
        BY <1>1, <1>5, <1>6, <2>1, ElseCounts DEF CountInv
    <2>2. CASE r = h
        <3>1. queued[r] = 0 /\ ~Scheduled(r) /\ ~WorkWaits(r)
            BY <1>1, <2>2 DEF CountInv, Inductive, StoreInv, WorkWaits
        <3>2. Messages(r) = 0
            BY <3>1 DEF Messages, Bit
        <3>3. /\ Bit(Marking("worker", r))' \in {0, 1} /\ Bit(Marking("reconciler", r))' \in {0, 1}
              /\ faults' \in Nat /\ Messages(r)' = 0
            BY <1>6, <3>2, Numbers DEF Bit, Inductive, TypeOK
        <3>4. r \in unpublished'
            BY <1>1, <2>2
        <3> QED
            BY <3>3, <3>4 DEF Counted
    <2> QED
        BY <2>1, <2>2
<1>8. LoopInv' /\ ScheduleInv'
    BY <1>1 DEF CountInv, LoopInv, ScheduleInv
<1>9. \A r \in Records : ~Committed(r)' => ~Committed(r) /\ r # h
    BY <1>1, Numbers DEF Committed, TypeOK, Inductive, Never
<1>10. \A r \in Records : ~Committed(r)' =>
          queued'[r] = 0 /\ ~Scheduled(r)' /\ r \notin unpublished'
    BY <1>1, <1>9 DEF CountInv, Scheduled
<1> QED
    BY <1>7, <1>8, <1>10 DEF CountInv

(* Time takes no part in the account.                                        *)
LEMMA StillCounts ==
    ASSUME CountInv,
           UNCHANGED <<createdAt, work, unpublished, queued, schedule, step, page, faults>>
    PROVE  CountInv'
<1>1. \A q \in Publishers, r \in Records : AtHand(q, r)' = AtHand(q, r)
    BY SameAtHand
<1> QED
    BY <1>1 DEF CountInv, LoopInv, ScheduleInv, Counted, Messages, Marking, MaySend, WorkWaits,
                Scheduled, Committed, Bit, Publishers

(* Every step keeps the account.                                             *)
LEMMA NextCounts ==
    ASSUME Inductive, Inductive', CountInv, [Next]_vars
    PROVE  CountInv'
<1>1. CASE Tick
    BY <1>1, StillCounts DEF Tick, store, external, publisher
<1>2. CASE \E r \in Records : Commit(r)
    BY <1>2, CommitCounts
<1>3. ASSUME NEW p \in Publishers,
             TickStep(p) \/ SendFails(p) \/ MarkFails(p) \/ Crash(p)
      PROVE  CountInv'
    BY <1>3, PassesCount, TakeCounts, SendsCount, MarkCounts, SendWorkCounts,
       MarkWorkCounts DEF TickStep
<1>4. CASE \E d \in Deliveries : ScheduleFires(d)
    BY <1>4, ScheduleFiresCounts
<1>5. CASE UNCHANGED vars
    BY <1>5, StillCounts DEF vars, store, external, publisher
<1> QED
    BY <1>1, <1>2, <1>3, <1>4, <1>5 DEF Next

(* Nothing is committed, and nothing sent.                                   *)
LEMMA InitCounts == Init => CountInv
<1> SUFFICES ASSUME Init PROVE CountInv
    OBVIOUS
<1>1. TypeOK
    BY InitInductive DEF Inductive
<1>2. LoopInv /\ ScheduleInv
    BY DEF Init, LoopInv, ScheduleInv, Loop2, Publishers
<1>3. ASSUME NEW r \in Records
      PROVE  /\ queued[r] = 0 /\ ~Scheduled(r) /\ r \notin unpublished
             /\ Counted(r)
    <2>1. r # NoRecord /\ Delivery[r] \in Deliveries
        BY Numbers DEF Deliveries
    <2>2. queued[r] = 0 /\ ~Scheduled(r) /\ r \notin unpublished /\ ~WorkWaits(r)
        BY <2>1 DEF Init, Scheduled, WorkWaits
    <2>3. ~MaySend("worker", r) /\ ~MaySend("reconciler", r)
        BY DEF Init, MaySend, Publishers
    <2>4. faults = 0
        BY DEF Init
    <2> QED
        BY <2>2, <2>3, <2>4 DEF Counted, Messages, Bit
<1> QED
    BY <1>2, <1>3 DEF CountInv

(* The account bounds the messages.                                          *)
LEMMA CountedIsBounded ==
    ASSUME Inductive, CountInv PROVE DuplicatesBounded
<1>1. Cardinality(Publishers) = 2
    <2>1. IsFiniteSet({}) /\ Cardinality({}) = 0
        BY FS_EmptySet
    <2>2. IsFiniteSet({} \cup {"worker"}) /\ Cardinality({} \cup {"worker"}) = 1
        BY <2>1, FS_AddElement
    <2>3. Cardinality(({} \cup {"worker"}) \cup {"reconciler"}) = 2
        BY <2>2, FS_AddElement
    <2>4. Publishers = ({} \cup {"worker"}) \cup {"reconciler"}
        BY DEF Publishers
    <2> QED
        BY <2>3, <2>4
<1>2. ASSUME NEW r \in Records PROVE queued[r] <= 2 + faults
    <2>1. queued[r] \in Nat /\ faults \in Nat
        BY Numbers DEF Inductive, TypeOK
    <2>2. /\ Bit(Scheduled(r)) \in {0, 1} /\ Bit(WorkWaits(r)) \in {0, 1}
          /\ Bit(Marking("worker", r)) \in {0, 1} /\ Bit(Marking("reconciler", r)) \in {0, 1}
          /\ Bit(MaySend("worker", r)) \in {0, 1} /\ Bit(MaySend("reconciler", r)) \in {0, 1}
        BY DEF Bit
    <2>3. queued[r] <= Messages(r) /\ Messages(r) \in Nat
        BY <2>1, <2>2 DEF Messages
    <2> QED
        BY <2>1, <2>2, <2>3 DEF CountInv, Counted
<1> QED
    BY <1>1, <1>2 DEF DuplicatesBounded

(* Whatever the publishers, their errors and their crashes do, a record is   *)
(* sent at most once by each publisher and once more for each fault.         *)
THEOREM DuplicatesAreBounded == Spec => []DuplicatesBounded
<1>1. Inductive /\ Inductive' /\ CountInv /\ [Next]_vars => CountInv'
    BY NextCounts
<1>2. Inductive /\ CountInv => DuplicatesBounded
    BY CountedIsBounded
<1> QED
    BY <1>1, <1>2, InitCounts, AlwaysInductive, PTL DEF Spec
===============================================================================
