------------------------------- MODULE Admission -------------------------------
(***************************************************************************)
(* The two requests that make new work: a producer submits an event, an    *)
(* operator replays a failed delivery.  Each carries an idempotency key,   *)
(* and the service keeps a guard item per key so that a retry finds what   *)
(* the first request created.                                              *)
(*                                                                         *)
(* A call is authenticated, checked, looked up under its key and only then *)
(* written, in one transaction with the guard; each of these is an await.  *)
(* Guards and records expire: a read hides an expired item at once, while  *)
(* the table deletes it some time later, and until then a write that wants *)
(* its key free still fails.                                               *)
(***************************************************************************)
EXTENDS Naturals, Sequences

CONSTANTS
    Calls,          \* the HTTP requests that may be sent
    EventKeys,      \* idempotency keys of producers
    ReplayKeys,     \* idempotency keys of operators
    Bodies,         \* what the hash of a request tells apart
    Confirming,     \* the replay requests that confirm a correction
    Secrets,        \* versions of the producer's secret
    GraceUntil,     \* secret -> when its grace ends; beyond MaxTime if active
    Skew,           \* greatest age of a signed timestamp: 300 s
    GuardLife,      \* 7 days
    RecordLife,     \* EVENT_RETENTION_DAYS: 30
    Requests,       \* the requests clients send: key, body and credential
    MaxTime,        \* bound on the clock
    MaxChanges,     \* bound on changes of the configuration
    MaxFaults       \* bound on failing awaits

Keys == EventKeys \cup ReplayKeys
Roles == {"admin", "operator", "viewer", "inactive"}

ASSUME AdmissionAssumption ==
    /\ EventKeys \cap ReplayKeys = {}
    /\ Confirming \subseteq Bodies
    /\ GraceUntil \in [Secrets -> Nat]
    /\ Requests \subseteq [key : EventKeys, body : Bodies, by : Secrets]
                        \cup [key : ReplayKeys, body : Bodies, by : Roles]
    /\ Skew \in Nat /\ GuardLife \in Nat \ {0} /\ RecordLife \in Nat
    /\ RecordLife > GuardLife
    /\ MaxTime \in Nat /\ MaxChanges \in Nat /\ MaxFaults \in Nat

VARIABLES
    hosted,     \* DynamoDB itself, not the local one: its reads may lag, and
                \* it cancels a transaction another one is in the way of
    clock,
    original,   \* the delivery the replays are of
    available,  \* its event, destination and partner allow a new delivery
    records,    \* the events and replays created, oldest first
    guard,      \* key -> its guard item
    nonces,     \* calls whose nonce was taken
    call,       \* call -> how far it is
    changes, faults

vars == <<hosted, clock, original, available, records, guard, nonces, call,
          changes, faults>>

-------------------------------------------------------------------------------
NoGuard == [id |-> 0, until |-> 0]
Unsent == [step |-> "unsent", id |-> 0, ended |-> 0]
Outcomes == {"accepted", "duplicate", "conflict", "refused", "unauthorized",
             "forbidden", "error"}
Open == {"authenticate", "original", "configuration", "guard", "fetch", "write",
         "reread"}
(* The delivery's state: dead-lettered, failed for a reason that a correction*)
(* helps with, or any other, under way or at its end.                        *)
Originals == {"dead_lettered", "correctable", "other"}

Init ==
    /\ hosted \in BOOLEAN
    /\ clock = 0
    /\ original = "other"
    /\ available = TRUE
    /\ records = <<>>
    /\ guard = [k \in Keys |-> NoGuard]
    /\ nonces = {}
    /\ call = [c \in Calls |-> Unsent]
    /\ changes = 0
    /\ faults = 0

Goto(c, step) == call' = [call EXCEPT ![c].step = step]
Answer(c, outcome, i) ==
    call' = [call EXCEPT ![c].step = outcome, ![c].id = i, ![c].at = 0,
                         ![c].ended = IF outcome = "conflict" THEN clock ELSE 0]

-------------------------------------------------------------------------------
(* What is not a step of a call.                                             *)

(* A client sends a request: a producer signs it with a secret, an operator  *)
(* is signed in with a role.                                                 *)
Send(c) ==
    \E r \in Requests :
        /\ call[c] = Unsent
        /\ call' = [call EXCEPT ![c] =
               [step |-> "authenticate", key |-> r.key, body |-> r.body,
                by |-> r.by, nonce |-> c, stamp |-> clock, at |-> 0,
                id |-> 0, ended |-> 0]]
        /\ UNCHANGED <<hosted, clock, original, available, records, guard,
                       nonces, changes, faults>>

(* The network delivers a producer's request a second time.                  *)
Duplicate(c, d) ==
    /\ call[c] = Unsent
    /\ call[d].step # "unsent"
    /\ call[d].key \in EventKeys
    /\ call[d].nonce = d
    /\ call' = [call EXCEPT ![c] = [call[d] EXCEPT !.step = "authenticate",
                                                   !.id = 0, !.ended = 0]]
    /\ UNCHANGED <<hosted, clock, original, available, records, guard, nonces,
                   changes, faults>>

Tick ==
    /\ clock < MaxTime
    /\ clock' = clock + 1
    /\ UNCHANGED <<hosted, original, available, records, guard, nonces, call,
                   changes, faults>>

(* The table deletes a guard that has expired.                               *)
Expired(k) == guard[k].until <= clock
Delete(k) ==
    /\ guard[k] # NoGuard
    /\ Expired(k)
    /\ guard' = [guard EXCEPT ![k] = NoGuard]
    /\ UNCHANGED <<hosted, clock, original, available, records, nonces, call,
                   changes, faults>>

(* The delivery worker ends the original; an operator changes what a replay  *)
(* needs.                                                                    *)
Settle ==
    /\ original = "other"
    /\ original' \in Originals \ {"other"}
    /\ UNCHANGED <<hosted, clock, available, records, guard, nonces, call,
                   changes, faults>>

Reconfigure ==
    /\ changes < MaxChanges
    /\ changes' = changes + 1
    /\ available' = ~available
    /\ UNCHANGED <<hosted, clock, original, records, guard, nonces, call, faults>>

-------------------------------------------------------------------------------
(* Authentication.                                                           *)

(* A version in grace verifies until its grace ends, an active one always.   *)
Verifies(secret) == GraceUntil[secret] > clock
(* The timestamp is signed once: a request that comes late is refused, and   *)
(* so is one whose nonce was seen.                                           *)
MayEnter(c) ==
    /\ clock <= call[c].stamp + Skew
    /\ Verifies(call[c].by)
    /\ call[c].nonce \notin nonces

AuthenticateProducer(c) ==
    /\ call[c].step = "authenticate"
    /\ call[c].key \in EventKeys
    /\ IF MayEnter(c)
       THEN nonces' = nonces \cup {call[c].nonce} /\ Goto(c, "guard")
       ELSE nonces' = nonces /\ Answer(c, "unauthorized", 0)
    /\ UNCHANGED <<hosted, clock, original, available, records, guard, changes,
                   faults>>

AuthenticateOperator(c) ==
    /\ call[c].step = "authenticate"
    /\ call[c].key \in ReplayKeys
    /\ CASE call[c].by = "inactive" -> Answer(c, "unauthorized", 0)
         [] call[c].by = "viewer"   -> Answer(c, "forbidden", 0)
         [] OTHER                   -> Goto(c, "original")
    /\ UNCHANGED <<hosted, clock, original, available, records, guard, nonces,
                   changes, faults>>

-------------------------------------------------------------------------------
(* What a replay is checked for before its key is looked at.                 *)

Eligible(state, confirmed) ==
    \/ state = "dead_lettered"
    \/ state = "correctable" /\ confirmed

CheckOriginal(c) ==
    /\ call[c].step = "original"
    /\ IF Eligible(original, call[c].body \in Confirming)
       THEN Goto(c, "configuration")
       ELSE Answer(c, "refused", 0)
    /\ UNCHANGED <<hosted, clock, original, available, records, guard, nonces,
                   changes, faults>>

CheckConfiguration(c) ==
    /\ call[c].step = "configuration"
    /\ IF available THEN Goto(c, "guard") ELSE Answer(c, "refused", 0)
    /\ UNCHANGED <<hosted, clock, original, available, records, guard, nonces,
                   changes, faults>>

-------------------------------------------------------------------------------
(* The guard.  A hosted read may miss an item written a moment ago.          *)

Created(i) == records[i]
Lags(i) == hosted /\ Created(i).committed = clock
SeenGuards(k) ==
    (IF guard[k] # NoGuard /\ ~Expired(k) THEN {guard[k].id} ELSE {0})
        \cup (IF guard[k] # NoGuard /\ Lags(guard[k].id) THEN {0} ELSE {})
SeenRecords(i) ==
    (IF Created(i).started + RecordLife > clock THEN {i} ELSE {0})
        \cup (IF Lags(i) THEN {0} ELSE {})
SameRequest(c, i) == Created(i).body = call[c].body

(* The instant of the record is taken before the first read.                 *)
ReadGuard(c) ==
    /\ call[c].step = "guard"
    /\ \E i \in SeenGuards(call[c].key) :
        IF i = 0
        THEN call' = [call EXCEPT ![c].step = "write", ![c].at = clock]
        ELSE IF SameRequest(c, i)
             THEN call' = [call EXCEPT ![c].step = "fetch", ![c].id = i]
             ELSE Answer(c, "conflict", 0)
    /\ UNCHANGED <<hosted, clock, original, available, records, guard, nonces,
                   changes, faults>>

Fetch(c) ==
    /\ call[c].step = "fetch"
    /\ \E i \in SeenRecords(call[c].id) :
        Answer(c, IF i = 0 THEN "conflict" ELSE "duplicate", i)
    /\ UNCHANGED <<hosted, clock, original, available, records, guard, nonces,
                   changes, faults>>

(* Mutant: the transaction does not ask for the guard's key to be free.      *)
BugFree(c) == TRUE
Free(c) == guard[call[c].key] = NoGuard

(* Every creation counts in a rollup item others count in, so the service    *)
(* may cancel a transaction while another one is under way, whatever its key.*)
Contended(c) == hosted /\ \E d \in Calls \ {c} : call[d].step = "write"

(* An event's guard is dated when it is written, a replay's when it is asked.*)
GuardUntil(c) ==
    (IF call[c].key \in EventKeys THEN clock ELSE call[c].at) + GuardLife

(* One transaction: the record with its lookups, index entries, history,     *)
(* outbox message and audit event, and the guard.  (Mutant: the guard alone.)*)
BugCommit(c) ==
    /\ records' = records
    /\ guard' = [guard EXCEPT ![call[c].key] =
                    [id |-> Len(records) + 1, until |-> GuardUntil(c)]]
Commit(c) ==
    /\ records' = Append(records, [key |-> call[c].key, body |-> call[c].body,
                                   started |-> call[c].at, committed |-> clock])
    /\ guard' = [guard EXCEPT ![call[c].key] =
                    [id |-> Len(records) + 1, until |-> GuardUntil(c)]]

Write(c) ==
    /\ call[c].step = "write"
    /\ \/ Free(c) /\ Commit(c) /\ Answer(c, "accepted", Len(records) + 1)
       \/ /\ ~Free(c) \/ Contended(c)
          /\ Goto(c, "reread")
          /\ UNCHANGED <<records, guard>>
    /\ UNCHANGED <<hosted, clock, original, available, nonces, changes, faults>>

(* Mutants: whoever loses the race is told its key was reused; nobody asks   *)
(* whether the winner's request was the same.                                *)
BugAfterRace(c, i) == Answer(c, "conflict", 0)
BugAfterRaceAnyBody(c, i) ==
    IF i # 0
    THEN call' = [call EXCEPT ![c].step = "fetch", ![c].id = i]
    ELSE Answer(c, "conflict", 0)
AfterRace(c, i) ==
    IF i # 0 /\ SameRequest(c, i)
    THEN call' = [call EXCEPT ![c].step = "fetch", ![c].id = i]
    ELSE Answer(c, "conflict", 0)

(* The transaction failed for its conditions, or was cancelled: the code     *)
(* does not tell the two apart.                                              *)
Reread(c) ==
    /\ call[c].step = "reread"
    /\ \E i \in SeenGuards(call[c].key) : AfterRace(c, i)
    /\ UNCHANGED <<hosted, clock, original, available, records, guard, nonces,
                   changes, faults>>

(* An await fails, or the process ends: the client gets an error, although   *)
(* a write or a nonce may have been stored.  A secret that cannot be read    *)
(* and a token that cannot be verified are answered like wrong ones.         *)
Fail(c) ==
    /\ call[c].step \in Open
    /\ faults < MaxFaults
    /\ faults' = faults + 1
    /\ \/ Answer(c, "error", 0)
       \/ call[c].step = "authenticate" /\ Answer(c, "unauthorized", 0)
    /\ \/ UNCHANGED <<records, guard, nonces>>
       \/ call[c].step = "write" /\ Free(c) /\ Commit(c) /\ UNCHANGED nonces
       \/ /\ call[c].step = "authenticate"
          /\ call[c].key \in EventKeys /\ MayEnter(c)
          /\ nonces' = nonces \cup {call[c].nonce}
          /\ UNCHANGED <<records, guard>>
    /\ UNCHANGED <<hosted, clock, original, available, changes>>

-------------------------------------------------------------------------------
Submit(c) == AuthenticateProducer(c) \/ ReadGuard(c) \/ Fetch(c) \/ Write(c)
                 \/ Reread(c) \/ Fail(c)
Replay(c) == AuthenticateOperator(c) \/ CheckOriginal(c) \/ CheckConfiguration(c)

Next ==
    \/ \E c \in Calls : Send(c) \/ Submit(c) \/ Replay(c)
    \/ \E c, d \in Calls : Duplicate(c, d)
    \/ \E k \in Keys : Delete(k)
    \/ Tick \/ Settle \/ Reconfigure

Spec == Init /\ [][Next]_vars
===============================================================================
