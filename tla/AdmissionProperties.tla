-------------------------- MODULE AdmissionProperties --------------------------
(***************************************************************************)
(* What the two requests of Admission promise the client that repeats one. *)
(***************************************************************************)
EXTENDS Admission

Answered(c) == call[c].step \in Outcomes
Sent(c) == call[c].step # "unsent"

(* Every variable keeps its type: guards and finished calls refer to records *)
(* that exist (Admission's records, guards and requests).                    *)
TypeOK ==
    /\ hosted \in BOOLEAN /\ available \in BOOLEAN
    /\ clock \in 0..MaxTime
    /\ original \in Originals
    /\ \A i \in DOMAIN records : /\ records[i].key \in Keys
                                 /\ records[i].body \in Bodies
                                 /\ records[i].started <= records[i].committed
                                 /\ records[i].committed <= clock
    /\ \A k \in Keys : /\ guard[k].id \in 0..Len(records)
                       /\ guard[k] # NoGuard => records[guard[k].id].key = k
    /\ nonces \subseteq Calls
    /\ \A c \in Calls : /\ call[c].step \in {"unsent"} \cup Open \cup Outcomes
                        /\ call[c].id \in 0..Len(records)
                        /\ call[c].ended <= clock
    /\ changes \in 0..MaxChanges /\ faults \in 0..MaxFaults

(* One idempotency key makes at most one event or replay in the life of its  *)
(* guard, however many calls use it at once, however often the client        *)
(* retries, and whether or not the answer of the first write arrived         *)
(* (EventAcceptanceWriter.accept and createReplay).                          *)
CreatedOnce ==
    \A i, j \in DOMAIN records :
        i < j /\ records[i].key = records[j].key
            => records[j].committed >= records[i].started + GuardLife

(* A client told "accepted" or "previously accepted" is told the identity of *)
(* a record made from its own request, under its own key, and only one       *)
(* client is told it made it: a request with the same key and another        *)
(* content never gets another request's event (the body hash of the guard).  *)
AnswersAgree ==
    /\ \A c \in Calls :
        call[c].step \in {"accepted", "duplicate"} =>
            /\ call[c].id \in DOMAIN records
            /\ records[call[c].id].key = call[c].key
            /\ SameRequest(c, call[c].id)
    /\ \A c, d \in Calls :
        /\ call[c].step = "accepted" /\ call[d].step = "accepted"
        /\ call[c].id = call[d].id
        => c = d

(* Reasons to answer IDEMPOTENCY_KEY_REUSED: another request did use the key,*)
(* or the key's guard has had its time and the table has not deleted it yet. *)
ReallyReused(c) ==
    \E i \in DOMAIN records : /\ records[i].key = call[c].key
                              /\ records[i].body # call[c].body
Outlived(c) ==
    \E i \in DOMAIN records : /\ records[i].key = call[c].key
                              /\ records[i].started + GuardLife <= call[c].ended

(* On the local table a client is told that its key was reused only for one  *)
(* of these reasons: the loser of a race between two equal requests finds    *)
(* the winner's record (the second read of the guard).                       *)
ConflictExplained ==
    \A c \in Calls : call[c].step = "conflict" /\ ~hosted
                        => ReallyReused(c) \/ Outlived(c)
===============================================================================
