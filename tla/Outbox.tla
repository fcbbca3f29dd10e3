-------------------------------- MODULE Outbox --------------------------------
(***************************************************************************)
(* The transactional outbox: the records other components commit together  *)
(* with their own writes, and the two publishers that hand them over.      *)
(*                                                                         *)
(* outbox-worker and outbox-reconciler run the same tick over all shards.  *)
(* A tick reads one page of a shard's unpublished records, and sends and   *)
(* then marks each of them; every send and every write is an await, so the *)
(* other publisher, an error or the end of the process may come between.   *)
(* A record of a delay beyond what the queue can hold becomes an item of   *)
(* scheduled work (local) or an EventBridge schedule (hosted); the         *)
(* reconciler's tick then also publishes the scheduled work that is due.   *)
(***************************************************************************)
EXTENDS Integers, FiniteSets

CONSTANTS
    Records,        \* the outbox records that may be committed, in id order
    Wait,           \* record -> notBefore - createdAt, in ticks of the clock; 0
                    \* for every kind but SCHEDULE_DELIVERY
    Delivery,       \* record -> the delivery it is about
    MaybeMalformed, \* records whose queue message the schema may refuse
    ShardOf,        \* stableShard: record -> shard
    ShardCount,     \* OUTBOX_SHARD_COUNT
    Page,           \* the limit of one query: 25
    Second,         \* ticks of the clock in a second
    MaxDelay,       \* seconds the queue can delay a message: 900
    Stale,          \* OUTBOX_RECONCILE_STALE_MS, in ticks
    LastCommit,     \* bound on the instants at which records are committed
    MaxTime,        \* bound on the clock
    MaxFaults       \* bound on errors and crashes

Publishers == {"worker", "reconciler"}
Shards == 1..ShardCount
NoRecord == 0
Never == 0 - 1

ASSUME RecordsAssumption ==
    /\ Records \subseteq Nat \ {NoRecord}
    /\ MaybeMalformed \subseteq Records
    /\ Wait \in [Records -> Nat]
    /\ ShardOf \in [Records -> Shards]
    /\ DOMAIN Delivery = Records
ASSUME BoundsAssumption ==
    /\ ShardCount \in Nat \ {0}
    /\ Page \in Nat \ {0}
    /\ Second \in Nat \ {0}
    /\ MaxDelay \in Nat
    /\ Stale \in Nat
    /\ LastCommit \in Nat
    /\ MaxTime \in Nat
    /\ MaxFaults \in Nat

VARIABLES
    local,          \* APP_ENV = "local": scheduled work, else EventBridge
    clock,
    createdAt,      \* record -> the instant of its commit, or Never
    malformed,      \* records whose queue message the schema refuses
    unpublished,    \* the records in the OUTBOX#UNPUBLISHED partitions of GSI1
    work,           \* record -> its SCHEDULED_WORK item, "none" if there is none
    queued,         \* record -> how many messages were sent for it (history)
    early,          \* records of a message visible before its instant (history)
    schedule,       \* delivery -> the record its EventBridge schedule carries
    step, shard,    \* publisher -> its next step, the shard it is at
    page,           \* publisher -> the records left of its page
    faults

store == <<createdAt, malformed, unpublished, work>>
external == <<queued, early, schedule>>
publisher == <<step, shard, page>>
vars == <<local, clock, store, external, publisher, faults>>

-------------------------------------------------------------------------------
Deliveries == {Delivery[r] : r \in Records}
Step ==
    {"idle", "scan", "send", "mark", "fail", "scanWork", "sendWork", "markWork"}
Committed(r) == createdAt[r] # Never
NotBefore(r) == createdAt[r] + Wait[r]

Init ==
    /\ local \in BOOLEAN
    /\ clock = 0
    /\ createdAt = [r \in Records |-> Never]
    /\ malformed = {}
    /\ unpublished = {}
    /\ work = [r \in Records |-> "none"]
    /\ queued = [r \in Records |-> 0]
    /\ early = {}
    /\ schedule = [d \in Deliveries |-> NoRecord]
    /\ step = [p \in Publishers |-> "idle"]
    /\ shard = [p \in Publishers |-> 1]
    /\ page = [p \in Publishers |-> {}]
    /\ faults = 0

Goto(p, next) == step' = [step EXCEPT ![p] = next]
Fault == faults < MaxFaults /\ faults' = faults + 1

(* Another component commits a record with its own writes.                   *)
Commit(r) ==
    /\ ~Committed(r)
    /\ clock <= LastCommit
    /\ createdAt' = [createdAt EXCEPT ![r] = clock]
    /\ unpublished' = unpublished \cup {r}
    /\ malformed' \in {malformed, malformed \cup ({r} \cap MaybeMalformed)}
    /\ UNCHANGED <<local, clock, work, external, publisher, faults>>

Tick ==
    /\ clock < MaxTime
    /\ clock' = clock + 1
    /\ UNCHANGED <<local, store, external, publisher, faults>>

-------------------------------------------------------------------------------
(* The queries.  Keys sort by an instant first and by the id second.         *)

CreatedBefore(r, q) ==
    createdAt[r] < createdAt[q] \/ (createdAt[r] = createdAt[q] /\ r < q)
DueBefore(r, q) ==
    NotBefore(r) < NotBefore(q) \/ (NotBefore(r) = NotBefore(q) /\ r < q)

(* Mutant: the reconciler's bound on the age is turned round.                *)
BugOldEnough(p, r) ==
    IF p = "worker" THEN createdAt[r] <= clock ELSE createdAt[r] > clock - Stale

OldEnough(p, r) ==
    IF p = "worker" THEN createdAt[r] <= clock ELSE createdAt[r] < clock - Stale

(* getUnpublished: the first Page of the shard's records that are old enough.*)
Ahead(r) == {q \in unpublished : ShardOf[q] = ShardOf[r] /\ CreatedBefore(q, r)}
Unpublished(p, s) ==
    {r \in unpublished : /\ ShardOf[r] = s
                         /\ OldEnough(p, r)
                         /\ Cardinality(Ahead(r)) < Page}

(* getDueScheduledWork: the first Page of the shard's items that are due,    *)
(* and of these the ones not yet published: publishing leaves an item in its *)
(* partition, where it counts against the limit.                             *)
WorkAhead(r) == {q \in Records : /\ work[q] # "none"
                                 /\ ShardOf[q] = ShardOf[r]
                                 /\ DueBefore(q, r)}
DueScheduledWork(s) ==
    {r \in Records : /\ work[r] = "pending"
                     /\ ShardOf[r] = s
                     /\ NotBefore(r) <= clock
                     /\ Cardinality(WorkAhead(r)) < Page}

(* A page is gone through in the order of its keys.                          *)
AtHand(p, r) ==
    /\ r \in page[p]
    /\ \A q \in page[p] \ {r} :
        IF step[p] \in {"sendWork", "markWork"} THEN DueBefore(r, q)
        ELSE CreatedBefore(r, q)

-------------------------------------------------------------------------------
(* The tick of a publisher.                                                  *)

BeginTick(p) ==
    /\ step[p] = "idle"
    /\ Goto(p, "scan")
    /\ UNCHANGED <<local, clock, store, external, shard, page, faults>>

(* Mutant: the shard number is not reset.                                    *)
BugLeaveShard(p, scan) ==
    /\ page' = [page EXCEPT ![p] = {}]
    /\ shard' = [shard EXCEPT ![p] = @ + 1]
    /\ Goto(p, IF shard[p] < ShardCount THEN scan ELSE "idle")

(* The page is done: the next shard, the scheduled work after the            *)
(* reconciler's last shard, or the end of the tick.                          *)
LeaveShard(p, scan) ==
    /\ page' = [page EXCEPT ![p] = {}]
    /\ shard' = [shard EXCEPT ![p] = IF @ < ShardCount THEN @ + 1 ELSE 1]
    /\ Goto(p, IF shard[p] < ShardCount THEN scan
               ELSE IF scan = "scan" /\ p = "reconciler" THEN "scanWork" ELSE "idle")

Continue(p, r, scan, send) ==
    IF page[p] # {r}
    THEN page' = [page EXCEPT ![p] = @ \ {r}] /\ Goto(p, send) /\ UNCHANGED shard
    ELSE LeaveShard(p, scan)

EndTick(p) ==
    /\ Goto(p, "idle")
    /\ shard' = [shard EXCEPT ![p] = 1]
    /\ page' = [page EXCEPT ![p] = {}]

Take(p, records, scan, send) ==
    /\ step[p] = scan
    /\ IF records = {}
       THEN LeaveShard(p, scan)
       ELSE page' = [page EXCEPT ![p] = records] /\ Goto(p, send) /\ UNCHANGED shard
    /\ UNCHANGED <<local, clock, store, external, faults>>

Scan(p) == Take(p, Unpublished(p, shard[p]), "scan", "send")
ScanWork(p) == Take(p, DueScheduledWork(shard[p]), "scanWork", "sendWork")

(* Mutant: rounded down.                                                     *)
BugSecondsUntil(t) == IF t <= clock THEN 0 ELSE (t - clock) \div Second

(* Whole seconds until notBefore, as the queue's DelaySeconds.               *)
SecondsUntil(t) == IF t <= clock THEN 0 ELSE (t - clock + Second - 1) \div Second

TooLong(r) == SecondsUntil(NotBefore(r)) > MaxDelay

(* SendMessage with its DelaySeconds.                                        *)
Enqueue(r, delay) ==
    /\ queued' = [queued EXCEPT ![r] = @ + 1]
    /\ early' = IF clock + delay * Second < NotBefore(r) THEN early \cup {r} ELSE early

(* materializeScheduledWork: the item and the mark in one transaction, which *)
(* is cancelled when the item exists.                                        *)
MayMaterialize(r) == work[r] = "none"

Materialize(r) ==
    /\ work' = [work EXCEPT ![r] = "pending"]
    /\ unpublished' = unpublished \ {r}
    /\ UNCHANGED external

(* CreateSchedule.  The name has the delivery and the attempt number, but no *)
(* message carries an attempt number, so a delivery has one name at a time.  *)
MayCreateSchedule(r) == schedule[Delivery[r]] = NoRecord

CreateSchedule(r) ==
    /\ schedule' = [schedule EXCEPT ![Delivery[r]] = r]
    /\ UNCHANGED <<work, unpublished, queued, early>>

(* What publishing a record does, and when it is refused: the schema refuses *)
(* the message, or the item or the schedule exists.                          *)
Accepted(r) ==
    /\ r \notin malformed
    /\ TooLong(r) => IF local THEN MayMaterialize(r) ELSE MayCreateSchedule(r)

HandOver(r) ==
    IF TooLong(r)
    THEN IF local THEN Materialize(r) ELSE CreateSchedule(r)
    ELSE /\ Enqueue(r, SecondsUntil(NotBefore(r)))
         /\ UNCHANGED <<work, unpublished, schedule>>

NotHandedOver == UNCHANGED <<work, unpublished, external>>

(* EventBridge may know the client token of the schedule it has, and grant   *)
(* the second request too.                                                   *)
Send(p) ==
    /\ step[p] = "send"
    /\ \E r \in page[p] :
        /\ AtHand(p, r)
        /\ \/ Accepted(r) /\ HandOver(r) /\ Goto(p, "mark")
           \/ ~Accepted(r) /\ NotHandedOver /\ Goto(p, "fail")
           \/ /\ r \notin malformed /\ TooLong(r) /\ ~local
              /\ schedule[Delivery[r]] = r
              /\ NotHandedOver /\ Goto(p, "mark")
    /\ UNCHANGED <<local, clock, createdAt, malformed, shard, page, faults>>

(* Mutant: an error of the call is not noticed.                              *)
BugSendFails(p) ==
    /\ step[p] = "send"
    /\ Fault
    /\ NotHandedOver
    /\ Goto(p, "mark")
    /\ UNCHANGED <<local, clock, createdAt, malformed, shard, page>>

(* The call fails, or only its answer is lost.                               *)
SendFails(p) ==
    /\ step[p] = "send"
    /\ Fault
    /\ \E r \in page[p] :
        /\ AtHand(p, r)
        /\ NotHandedOver \/ (Accepted(r) /\ HandOver(r))
    /\ Goto(p, "fail")
    /\ UNCHANGED <<local, clock, createdAt, malformed, shard, page>>

(* Mutant: the record keeps its index attributes.                            *)
BugMark(p) ==
    /\ step[p] = "mark"
    /\ \E r \in page[p] : AtHand(p, r) /\ Continue(p, r, "scan", "send")
    /\ UNCHANGED <<local, clock, store, external, faults>>

(* markPublished: the record leaves the index, whoever else has marked it.   *)
Mark(p) ==
    /\ step[p] = "mark"
    /\ \E r \in page[p] :
        /\ AtHand(p, r)
        /\ unpublished' = unpublished \ {r}
        /\ Continue(p, r, "scan", "send")
    /\ UNCHANGED <<local, clock, createdAt, malformed, work, external, faults>>

MarkFails(p) ==
    /\ step[p] = "mark"
    /\ Fault
    /\ Goto(p, "fail")
    /\ UNCHANGED <<local, clock, store, external, shard, page>>

(* recordPublicationFailure: only a counter; the record stays where it is.   *)
RecordFailure(p) ==
    /\ step[p] = "fail"
    /\ \E r \in page[p] : AtHand(p, r) /\ Continue(p, r, "scan", "send")
    /\ UNCHANGED <<local, clock, store, external, faults>>

(* The reconciler's second loop publishes without a delay, and catches no    *)
(* error.                                                                    *)
SendWork(p) ==
    /\ step[p] = "sendWork"
    /\ \E r \in page[p] : AtHand(p, r) /\ Enqueue(r, 0)
    /\ Goto(p, "markWork")
    /\ UNCHANGED <<local, clock, store, schedule, shard, page, faults>>

MarkWork(p) ==
    /\ step[p] = "markWork"
    /\ \E r \in page[p] :
        /\ AtHand(p, r)
        /\ work' = [work EXCEPT ![r] = "published"]
        /\ Continue(p, r, "scanWork", "sendWork")
    /\ UNCHANGED <<local, clock, createdAt, malformed, unpublished, external, faults>>

(* The process ends, or an error leaves tick(): a failing query, a failing   *)
(* recordPublicationFailure, any failure of the second loop.                 *)
Crash(p) ==
    /\ step[p] # "idle"
    /\ Fault
    /\ EndTick(p)
    /\ UNCHANGED <<local, clock, store, external>>

(* EventBridge sends the schedule's message at its instant, and deletes the  *)
(* schedule after that.                                                      *)
ScheduleFires(d) ==
    /\ schedule[d] # NoRecord
    /\ NotBefore(schedule[d]) <= clock
    /\ Enqueue(schedule[d], 0)
    /\ schedule' = [schedule EXCEPT ![d] = NoRecord]
    /\ UNCHANGED <<local, clock, store, publisher, faults>>

TickStep(p) ==
    \/ BeginTick(p)
    \/ Scan(p)
    \/ Send(p)
    \/ Mark(p)
    \/ RecordFailure(p)
    \/ ScanWork(p)
    \/ SendWork(p)
    \/ MarkWork(p)

Next ==
    \/ Tick
    \/ \E r \in Records : Commit(r)
    \/ \E p \in Publishers :
          TickStep(p) \/ SendFails(p) \/ MarkFails(p) \/ Crash(p)
    \/ \E d \in Deliveries : ScheduleFires(d)

Spec == Init /\ [][Next]_vars

(* Time passes, schedules fire, and a timer starts the reconciler again and  *)
(* again.  The worker gets no fairness: hosted it runs only when the table's *)
(* stream says that something was written.                                   *)
Fairness ==
    /\ WF_vars(Tick)
    /\ WF_vars(TickStep("reconciler"))
    /\ \A d \in Deliveries : WF_vars(ScheduleFires(d))

FairSpec == Spec /\ Fairness
===============================================================================
