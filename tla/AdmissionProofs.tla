---------------------------- MODULE AdmissionProofs ----------------------------
(***************************************************************************)
(* The safety of Admission for any calls, keys, bodies, secrets and        *)
(* lifetimes, on the local table and on the hosted one.                    *)
(***************************************************************************)
EXTENDS AdmissionProperties, TLAPS

-------------------------------------------------------------------------------
(* The inductive invariant.                                                  *)

RecordType == [key : Keys, body : Bodies, started : Nat, committed : Nat]
GuardType == [id : Nat, until : Nat]
SentType ==
    [step : Open \cup Outcomes, key : Keys, body : Bodies, by : Secrets \cup Roles,
     nonce : Calls, stamp : Nat, at : Nat, id : Nat, ended : Nat]

Types ==
    /\ hosted \in BOOLEAN /\ available \in BOOLEAN
    /\ clock \in Nat /\ clock <= MaxTime
    /\ original \in Originals
    /\ records \in Seq(RecordType)
    /\ guard \in [Keys -> GuardType]
    /\ nonces \subseteq Calls
    /\ call \in [Calls -> SentType \cup {Unsent}]
    /\ changes \in 0..MaxChanges /\ faults \in 0..MaxFaults

RecordsInv ==
    \A i \in DOMAIN records : /\ records[i].started <= records[i].committed
                              /\ records[i].committed <= clock

(* A guard is about a record made under its key.                             *)
GuardNames ==
    \A k \in Keys :
        guard[k] # NoGuard => /\ guard[k].id \in DOMAIN records
                              /\ records[guard[k].id].key = k

(* A key is guarded for as long as any of its records asks for.              *)
Passed(i) == records[i].started + GuardLife <= clock
Guarded(i) ==
    /\ guard[records[i].key] # NoGuard
    /\ guard[records[i].key].until >= records[i].started + GuardLife
GuardLasts == \A i \in DOMAIN records : Passed(i) \/ Guarded(i)

(* What a call refers to is a record of its own request.                     *)
Names(c) ==
    /\ call[c].id \in DOMAIN records
    /\ records[call[c].id].key = call[c].key
    /\ SameRequest(c, call[c].id)
KeyUsed(c) == \E i \in DOMAIN records : records[i].key = call[c].key
CallOK(c) ==
    /\ call[c].id <= Len(records)
    /\ call[c].ended <= clock
    /\ Sent(c) => call[c].at <= clock
    /\ call[c].step \in {"fetch", "accepted", "duplicate"} => Names(c)
    /\ call[c].step = "reread" /\ ~hosted => KeyUsed(c)
    /\ call[c].step = "conflict" /\ ~hosted => ReallyReused(c) \/ Outlived(c)

AcceptedOnce ==
    \A c, d \in Calls :
        /\ call[c].step = "accepted" /\ call[d].step = "accepted"
        /\ call[c].id = call[d].id
        => c = d

StoreInv == RecordsInv /\ GuardNames /\ GuardLasts /\ CreatedOnce
CallsInv == (\A c \in Calls : CallOK(c)) /\ AcceptedOnce
Inductive == Types /\ StoreInv /\ CallsInv

-------------------------------------------------------------------------------
(* The constants.                                                            *)

(* Lifetimes and bounds are numbers.                                         *)
LEMMA Lifetimes ==
    /\ GuardLife \in Nat /\ RecordLife \in Nat /\ GuardLife < RecordLife
    /\ MaxTime \in Nat /\ MaxChanges \in Nat /\ MaxFaults \in Nat
    BY AdmissionAssumption

(* A call under way or answered is not an unsent one.                        *)
LEMMA SentCalls ==
    ASSUME Types, NEW c \in Calls, call[c].step # "unsent"
    PROVE  call[c] \in SentType
    BY DEF Types, Unsent

(* The fields of a record.                                                   *)
LEMMA RecordFields ==
    ASSUME Types, NEW i \in DOMAIN records
    PROVE  /\ records[i] \in RecordType
           /\ records[i].key \in Keys
           /\ records[i].body \in Bodies
           /\ records[i].started \in Nat
           /\ records[i].committed \in Nat
<1>1. records \in Seq(RecordType)
    BY DEF Types
<1>2. records[i] \in RecordType
    BY <1>1
<1> QED
    BY <1>2 DEF RecordType

(* The invariant holds at the beginning.                                     *)
LEMMA InitInductive == Init => Inductive
<1> SUFFICES ASSUME Init
             PROVE  Inductive
    OBVIOUS
<1>1. Types
    BY AdmissionAssumption, SMT
    DEF Init, Types, Originals, NoGuard, GuardType, Keys
<1>2. StoreInv
    BY DEF Init, StoreInv, RecordsInv, GuardNames, GuardLasts, CreatedOnce, NoGuard
<1>3. CallsInv
    BY DEF Init, CallsInv, CallOK, AcceptedOnce, Unsent, Sent
<1> QED
    BY <1>1, <1>2, <1>3 DEF Inductive

-------------------------------------------------------------------------------
(* Steps that leave the table alone.                                         *)

(* What a call refers to stays while records are kept and the call is.       *)
LEMMA OthersKept ==
    ASSUME Inductive, NEW d \in Calls, call'[d] = call[d], hosted' = hosted,
           clock' \in Nat, clock <= clock',
           Len(records') \in Nat, Len(records) <= Len(records'),
           DOMAIN records \subseteq DOMAIN records',
           \A i \in DOMAIN records : records'[i] = records[i]
    PROVE  CallOK(d)'
<1> USE DEF Inductive, CallsInv
<1>1. CallOK(d)
    OBVIOUS
<1>2. call[d].id \in Nat /\ call[d].ended \in Nat /\ Len(records) \in Nat /\ clock \in Nat
    BY DEF Types, SentType, Unsent
<1>3. /\ call'[d].id <= Len(records')
      /\ call'[d].ended <= clock'
    BY <1>1, <1>2 DEF CallOK
<1>4. Sent(d)' => call'[d].at <= clock'
    <2> SUFFICES ASSUME Sent(d)
                 PROVE  call'[d].at <= clock'
        BY DEF Sent
    <2>1. call[d].at \in Nat
        BY SentCalls DEF Sent, SentType
    <2> QED
        BY <1>1, <1>2, <2>1 DEF CallOK
<1>5. Names(d) => Names(d)'
    BY DEF Names, SameRequest, Created
<1>6. KeyUsed(d) => KeyUsed(d)'
    BY DEF KeyUsed
<1>7. ReallyReused(d) \/ Outlived(d) => (ReallyReused(d) \/ Outlived(d))'
    BY DEF ReallyReused, Outlived
<1> QED
    BY <1>1, <1>3, <1>4, <1>5, <1>6, <1>7 DEF CallOK

(* A step of one call that leaves records and guards alone, and does not end *)
(* it as accepted.                                                           *)
LEMMA CallMoves ==
    ASSUME Inductive, NEW c \in Calls, NEW new \in SentType,
           call' = [call EXCEPT ![c] = new],
           UNCHANGED <<hosted, clock, original, available, records, guard, changes>>,
           nonces' \subseteq Calls, faults' \in 0..MaxFaults,
           CallOK(c)', new.step # "accepted"
    PROVE  Inductive'
<1>1. Types'
    BY DEF Inductive, Types
<1>2. StoreInv'
    BY DEF Inductive, StoreInv, RecordsInv, GuardNames, GuardLasts, CreatedOnce,
           Passed, Guarded
<1>3. \A d \in Calls : CallOK(d)'
    <2> SUFFICES ASSUME NEW d \in Calls, d # c
                 PROVE  CallOK(d)'
        OBVIOUS
    <2>1. call'[d] = call[d]
        BY DEF Inductive, Types
    <2>2. Len(records) \in Nat /\ clock \in Nat
        BY DEF Inductive, Types
    <2> QED
        BY <2>1, <2>2, OthersKept
<1>4. AcceptedOnce'
    BY DEF Inductive, CallsInv, AcceptedOnce, Types
<1> QED
    BY <1>1, <1>2, <1>3, <1>4 DEF Inductive, CallsInv

(* Steps of the environment.                                                 *)
LEMMA TickKeeps ==
    ASSUME Inductive, Tick
    PROVE  Inductive'
<1>1. clock \in Nat /\ clock' = clock + 1 /\ Len(records) \in Nat
    BY DEF Inductive, Types, Tick
<1>2. Types'
    BY AdmissionAssumption DEF Inductive, Types, Tick
<1>3. StoreInv'
    <2>1. \A i \in DOMAIN records : /\ records[i].started \in Nat
                                    /\ records[i].committed \in Nat
        BY RecordFields DEF Inductive
    <2>2. RecordsInv'
        BY <1>1, <2>1 DEF Inductive, StoreInv, RecordsInv, Tick
    <2>3. GuardLasts'
        BY <1>1, <2>1, Lifetimes
        DEF Inductive, StoreInv, GuardLasts, Passed, Guarded, Tick
    <2> QED
        BY <2>2, <2>3 DEF Inductive, StoreInv, GuardNames, CreatedOnce, Tick
<1>4. \A d \in Calls : CallOK(d)'
    BY <1>1, OthersKept DEF Tick
<1> QED
    BY <1>2, <1>3, <1>4 DEF Inductive, CallsInv, AcceptedOnce, Tick

(* The table deletes only guards that no record still asks for.              *)
LEMMA DeleteKeeps ==
    ASSUME Inductive, NEW k \in Keys, Delete(k)
    PROVE  Inductive'
<1>1. clock \in Nat /\ Len(records) \in Nat
    BY DEF Inductive, Types
<1>2. Types'
    BY DEF Inductive, Types, Delete, NoGuard, GuardType
<1>3. GuardLasts'
    <2> SUFFICES ASSUME NEW i \in DOMAIN records, ~Passed(i)
                 PROVE  Guarded(i)'
        BY DEF GuardLasts, Passed, Delete
    <2>1. records[i].started \in Nat /\ records[i].key \in Keys
        BY RecordFields DEF Inductive
    <2>2. Guarded(i)
        BY DEF Inductive, StoreInv, GuardLasts
    <2>3. guard[k].until \in Nat /\ guard[k].until <= clock
        BY DEF Delete, Expired, Inductive, Types, GuardType
    <2>4. records[i].key # k
        BY <1>1, <2>1, <2>2, <2>3, Lifetimes DEF Guarded, Passed
    <2> QED
        BY <2>1, <2>2, <2>4 DEF Guarded, Delete, Inductive, Types
<1>4. RecordsInv' /\ GuardNames' /\ CreatedOnce'
    BY DEF Inductive, StoreInv, RecordsInv, GuardNames, CreatedOnce, Delete, Types
<1>5. \A d \in Calls : CallOK(d)'
    BY <1>1, OthersKept DEF Delete
<1> QED
    BY <1>2, <1>3, <1>4, <1>5 DEF Inductive, StoreInv, CallsInv, AcceptedOnce, Delete

(* The deliveries and the configuration are no part of the argument.         *)
LEMMA WorldKeeps ==
    ASSUME Inductive, Settle \/ Reconfigure
    PROVE  Inductive'
<1>1. clock \in Nat /\ Len(records) \in Nat
    BY DEF Inductive, Types
<1>2. UNCHANGED <<hosted, clock, records, guard, nonces, call, faults>>
    BY DEF Settle, Reconfigure
<1>3. Types'
    <2>1. available' \in BOOLEAN
        BY ZenonT(30) DEF Settle, Reconfigure, Inductive, Types
    <2>2. original' \in Originals /\ changes' \in 0..MaxChanges
        BY Lifetimes DEF Inductive, Types, Settle, Reconfigure
    <2> QED
        BY <1>2, <2>1, <2>2 DEF Inductive, Types
<1>4. StoreInv'
    BY <1>2 DEF Inductive, StoreInv, RecordsInv, GuardNames, GuardLasts, CreatedOnce,
                Passed, Guarded
<1>5. \A d \in Calls : CallOK(d)'
    BY <1>1, <1>2, OthersKept
<1> QED
    BY <1>2, <1>3, <1>4, <1>5 DEF Inductive, CallsInv, AcceptedOnce

-------------------------------------------------------------------------------
(* Steps of a call that write nothing.                                       *)

Unwritten == UNCHANGED <<hosted, clock, original, available, records, guard, changes>>
Plain == (Open \ {"fetch", "reread"}) \cup {"refused", "unauthorized", "forbidden", "error"}

(* A call that goes on to a step at which it refers to nothing.              *)
LEMMA PlainKeeps ==
    ASSUME Inductive, NEW c \in Calls, NEW new \in SentType,
           call' = [call EXCEPT ![c] = new], Unwritten,
           nonces' \subseteq Calls, faults' \in 0..MaxFaults,
           new.step \in Plain, new.id <= Len(records),
           new.at <= clock, new.ended <= clock
    PROVE  Inductive'
<1>1. call'[c] = new
    BY DEF Inductive, Types
<1>2. new.step \notin {"fetch", "accepted", "duplicate", "reread", "conflict"}
    BY DEF Plain, Open
<1>3. CallOK(c)'
    BY <1>1, <1>2 DEF CallOK, Unwritten
<1> QED
    BY <1>2, <1>3, CallMoves DEF Unwritten

(* The fields of a call, for the steps that change some of them.             *)
LEMMA CallFields ==
    ASSUME Inductive, NEW c \in Calls, call[c].step # "unsent"
    PROVE  /\ call[c] \in SentType
           /\ call[c].key \in Keys /\ call[c].nonce \in Calls
           /\ call[c].at \in Nat /\ call[c].at <= clock
           /\ call[c].id \in Nat /\ call[c].id <= Len(records)
           /\ call[c].ended \in Nat /\ call[c].ended <= clock
           /\ clock \in Nat /\ Len(records) \in Nat
<1>1. call[c] \in SentType
    BY SentCalls DEF Inductive
<1>2. CallOK(c) /\ Sent(c)
    BY DEF Inductive, CallsInv, Sent
<1> QED
    BY <1>1, <1>2 DEF CallOK, SentType, Inductive, Types

(* A call that only goes on to another step.                                 *)
LEMMA GotoKeeps ==
    ASSUME Inductive, NEW c \in Calls, call[c].step # "unsent", NEW s \in Open,
           s # "fetch", s # "reread", Goto(c, s), Unwritten,
           nonces' \subseteq Calls, faults' \in 0..MaxFaults
    PROVE  Inductive'
<1> DEFINE new == [call[c] EXCEPT !.step = s]
<1>1. call[c] \in SentType
    BY CallFields
<1>2. new \in SentType /\ new.step \in Plain
    BY <1>1 DEF SentType, Plain
<1>3. new.id = call[c].id /\ new.at = call[c].at /\ new.ended = call[c].ended
    BY <1>1 DEF SentType
<1>4. call' = [call EXCEPT ![c] = new]
    BY DEF Goto
<1> HIDE DEF new
<1> QED
    BY <1>2, <1>3, <1>4, CallFields, PlainKeeps

(* Reasons for an answer.                                                    *)
OutlivedNow(c) ==
    \E i \in DOMAIN records : records[i].key = call[c].key /\ Passed(i)
Deserved(c, outcome, i) ==
    /\ outcome \in Outcomes \ {"accepted"}
    /\ i \in Nat /\ i <= Len(records)
    /\ outcome = "duplicate" =>
            /\ i \in DOMAIN records
            /\ records[i].key = call[c].key
            /\ SameRequest(c, i)
    /\ outcome = "conflict" /\ ~hosted => ReallyReused(c) \/ OutlivedNow(c)

(* A call that is answered for a reason, other than with a new record.       *)
LEMMA AnswerKeeps ==
    ASSUME Inductive, NEW c \in Calls, call[c].step # "unsent",
           NEW outcome, NEW i, Deserved(c, outcome, i), Answer(c, outcome, i),
           Unwritten, nonces' \subseteq Calls, faults' \in 0..MaxFaults
    PROVE  Inductive'
<1> DEFINE new == [call[c] EXCEPT !.step = outcome, !.id = i, !.at = 0,
                                  !.ended = IF outcome = "conflict" THEN clock ELSE 0]
<1>1. call[c] \in SentType /\ clock \in Nat
    BY CallFields
<1>2. new \in SentType
    BY <1>1 DEF SentType, Deserved
<1>3. /\ new.step = outcome /\ new.id = i /\ new.at = 0
      /\ new.ended = IF outcome = "conflict" THEN clock ELSE 0
      /\ new.key = call[c].key /\ new.body = call[c].body
    BY <1>1 DEF SentType
<1>4. call' = [call EXCEPT ![c] = new]
    BY DEF Answer
<1> HIDE DEF new
<1>5. call'[c] = new
    BY <1>4 DEF Inductive, Types
<1>6. outcome \notin {"fetch", "reread", "accepted"}
    BY DEF Deserved, Outcomes
<1>7. outcome = "duplicate" => Names(c)'
    BY <1>3, <1>5 DEF Deserved, Names, SameRequest, Created, Unwritten
<1>8. outcome = "conflict" /\ ~hosted' => (ReallyReused(c) \/ Outlived(c))'
    BY <1>3, <1>5 DEF Deserved, ReallyReused, Outlived, OutlivedNow, Passed, Unwritten
<1>9. CallOK(c)'
    BY <1>1, <1>3, <1>5, <1>6, <1>7, <1>8 DEF CallOK, Deserved, Unwritten
<1> QED
    BY <1>2, <1>3, <1>4, <1>6, <1>9, CallMoves DEF Unwritten

(* A new request refers to nothing yet.                                      *)
LEMMA SendKeeps ==
    ASSUME Inductive, NEW c \in Calls, Send(c)
    PROVE  Inductive'
<1>1. PICK r \in Requests :
        call' = [call EXCEPT ![c] =
               [step |-> "authenticate", key |-> r.key, body |-> r.body,
                by |-> r.by, nonce |-> c, stamp |-> clock, at |-> 0,
                id |-> 0, ended |-> 0]]
    BY DEF Send
<1> DEFINE new == [step |-> "authenticate", key |-> r.key, body |-> r.body,
                   by |-> r.by, nonce |-> c, stamp |-> clock, at |-> 0,
                   id |-> 0, ended |-> 0]
<1>2. r.key \in Keys /\ r.body \in Bodies /\ r.by \in Secrets \cup Roles
    BY AdmissionAssumption DEF Keys
<1>3. clock \in Nat /\ Len(records) \in Nat
    BY DEF Inductive, Types
<1>4. new \in SentType /\ new.step \in Plain
    BY <1>2, <1>3 DEF SentType, Plain, Open
<1>5. Unwritten /\ nonces' \subseteq Calls /\ faults' \in 0..MaxFaults
    BY DEF Send, Unwritten, Inductive, Types
<1>6. new.id <= Len(records) /\ new.at <= clock /\ new.ended <= clock
    BY <1>3
<1>7. call' = [call EXCEPT ![c] = new]
    BY <1>1
<1> HIDE DEF new
<1> QED
    BY <1>4, <1>5, <1>6, <1>7, PlainKeeps

(* So does its second delivery.                                              *)
LEMMA DuplicateKeeps ==
    ASSUME Inductive, NEW c \in Calls, NEW d \in Calls, Duplicate(c, d)
    PROVE  Inductive'
<1> DEFINE new == [call[d] EXCEPT !.step = "authenticate", !.id = 0, !.ended = 0]
<1>1. call[d].step # "unsent" /\ call' = [call EXCEPT ![c] = new]
    BY DEF Duplicate
<1>2. call[d] \in SentType /\ call[d].at <= clock /\ clock \in Nat /\ Len(records) \in Nat
    BY <1>1, CallFields
<1>3. new \in SentType /\ new.step \in Plain
    BY <1>2 DEF SentType, Plain, Open
<1>4. new.id = 0 /\ new.at = call[d].at /\ new.ended = 0
    BY <1>2 DEF SentType
<1>5. Unwritten /\ nonces' \subseteq Calls /\ faults' \in 0..MaxFaults
    BY DEF Duplicate, Unwritten, Inductive, Types
<1>6. call' = [call EXCEPT ![c] = new]
    BY <1>1
<1> HIDE DEF new
<1>7. new.id <= Len(records) /\ new.at <= clock /\ new.ended <= clock
    BY <1>2, <1>4
<1> QED
    BY <1>3, <1>5, <1>6, <1>7, PlainKeeps

(* An answer that needs no reason.                                           *)
LEMMA PlainlyDeserved ==
    ASSUME Inductive, NEW c \in Calls,
           NEW outcome \in {"refused", "unauthorized", "forbidden", "error"}
    PROVE  Deserved(c, outcome, 0)
<1>1. Len(records) \in Nat
    BY DEF Inductive, Types
<1> QED
    BY <1>1 DEF Deserved, Outcomes

(* Authentication, of a producer or of an operator.                          *)
LEMMA AuthenticateKeeps ==
    ASSUME Inductive, NEW c \in Calls, AuthenticateProducer(c) \/ AuthenticateOperator(c)
    PROVE  Inductive'
<1>1. call[c].step # "unsent" /\ Unwritten /\ faults' \in 0..MaxFaults
    BY DEF AuthenticateProducer, AuthenticateOperator, Unwritten, Inductive, Types
<1>2. nonces' \subseteq Calls
    BY <1>1, CallFields
    DEF AuthenticateProducer, AuthenticateOperator, Inductive, Types
<1>3. \/ Goto(c, "guard") \/ Goto(c, "original")
      \/ Answer(c, "unauthorized", 0) \/ Answer(c, "forbidden", 0)
    BY DEF AuthenticateProducer, AuthenticateOperator
<1> QED
    BY <1>1, <1>2, <1>3, GotoKeeps, AnswerKeeps, PlainlyDeserved DEF Open

(* The checks of a replay.                                                   *)
LEMMA ChecksKeep ==
    ASSUME Inductive, NEW c \in Calls, CheckOriginal(c) \/ CheckConfiguration(c)
    PROVE  Inductive'
<1>1. /\ call[c].step # "unsent" /\ Unwritten
      /\ nonces' \subseteq Calls /\ faults' \in 0..MaxFaults
    BY DEF CheckOriginal, CheckConfiguration, Unwritten, Inductive, Types
<1>2. Goto(c, "configuration") \/ Goto(c, "guard") \/ Answer(c, "refused", 0)
    BY DEF CheckOriginal, CheckConfiguration
<1> QED
    BY <1>1, <1>2, GotoKeeps, AnswerKeeps, PlainlyDeserved DEF Open

-------------------------------------------------------------------------------
(* The reads of the guard and of the record it names.                        *)

(* A guard that is seen is one that is there.                                *)
LEMMA SeenIsThere ==
    ASSUME Inductive, NEW k \in Keys, NEW i \in SeenGuards(k), i # 0
    PROVE  i \in DOMAIN records /\ records[i].key = k
<1>1. guard[k] # NoGuard /\ guard[k].id = i
    BY DEF SeenGuards
<1> QED
    BY <1>1 DEF Inductive, StoreInv, GuardNames

(* On the local table a guard is missed only when its time is over, and then *)
(* every record of the key has had the life of its guard.                    *)
LEMMA MissedIsOutlived ==
    ASSUME Inductive, ~hosted, NEW c \in Calls, call[c].step # "unsent",
           0 \in SeenGuards(call[c].key), KeyUsed(c)
    PROVE  OutlivedNow(c)
<1> DEFINE k == call[c].key
<1>1. k \in Keys /\ clock \in Nat
    BY CallFields
<1>2. PICK i \in DOMAIN records : records[i].key = k
    BY DEF KeyUsed
<1>3. records[i].started \in Nat
    BY RecordFields DEF Inductive
<1>4. CASE Passed(i)
    BY <1>2, <1>4 DEF OutlivedNow
<1>5. CASE Guarded(i)
    <2>1. guard[k] # NoGuard /\ guard[k].until >= records[i].started + GuardLife
        BY <1>2, <1>5 DEF Guarded
    <2>2. guard[k].id \in DOMAIN records /\ guard[k].until \in Nat
        BY <1>1, <2>1 DEF Inductive, StoreInv, GuardNames, Types, GuardType
    <2>3. guard[k].id # 0
        BY <2>2 DEF Inductive, Types
    <2>4. Expired(k)
        BY <2>1, <2>3 DEF SeenGuards, Lags
    <2>5. Passed(i)
        BY <1>1, <1>3, <2>1, <2>2, <2>4, Lifetimes DEF Expired, Passed
    <2> QED
        BY <1>2, <2>5 DEF OutlivedNow
<1> QED
    BY <1>4, <1>5 DEF Inductive, StoreInv, GuardLasts

(* A call that has found the record of its own request goes to fetch it.     *)
LEMMA FoundKeeps ==
    ASSUME Inductive, NEW c \in Calls, call[c].step # "unsent",
           NEW i \in SeenGuards(call[c].key), i # 0, SameRequest(c, i),
           call' = [call EXCEPT ![c].step = "fetch", ![c].id = i],
           Unwritten, nonces' \subseteq Calls, faults' \in 0..MaxFaults
    PROVE  Inductive'
<1> DEFINE new == [call[c] EXCEPT !.step = "fetch", !.id = i]
<1>1. /\ call[c] \in SentType /\ clock \in Nat /\ Len(records) \in Nat
      /\ call[c].at \in Nat /\ call[c].at <= clock
      /\ call[c].ended \in Nat /\ call[c].ended <= clock
    BY CallFields
<1>2. i \in DOMAIN records /\ records[i].key = call[c].key
    BY CallFields, SeenIsThere
<1>3. i \in Nat /\ i <= Len(records)
    BY <1>2 DEF Inductive, Types
<1>4. new \in SentType
    BY <1>1, <1>3 DEF SentType, Open
<1>5. /\ new.step = "fetch" /\ new.id = i /\ new.at = call[c].at
      /\ new.ended = call[c].ended /\ new.key = call[c].key /\ new.body = call[c].body
    BY <1>1 DEF SentType
<1>6. call' = [call EXCEPT ![c] = new]
    OBVIOUS
<1> HIDE DEF new
<1>7. call'[c] = new
    BY <1>6 DEF Inductive, Types
<1>8. Names(c)'
    BY <1>2, <1>5, <1>7 DEF Names, SameRequest, Created, Unwritten
<1>9. CallOK(c)'
    BY <1>1, <1>3, <1>5, <1>7, <1>8 DEF CallOK, Unwritten
<1> QED
    BY <1>4, <1>5, <1>6, <1>9, CallMoves DEF Unwritten

(* A guard of another content under the same key explains the conflict.      *)
LEMMA OtherBodyDeserves ==
    ASSUME Inductive, NEW c \in Calls, call[c].step # "unsent",
           NEW i \in SeenGuards(call[c].key), i # 0, ~SameRequest(c, i)
    PROVE  Deserved(c, "conflict", 0)
<1>1. i \in DOMAIN records /\ records[i].key = call[c].key
    BY CallFields, SeenIsThere
<1>2. ReallyReused(c)
    BY <1>1 DEF ReallyReused, SameRequest, Created
<1>3. Len(records) \in Nat
    BY DEF Inductive, Types
<1> QED
    BY <1>2, <1>3 DEF Deserved, Outcomes

(* The first read of the guard.                                              *)
LEMMA ReadGuardKeeps ==
    ASSUME Inductive, NEW c \in Calls, ReadGuard(c)
    PROVE  Inductive'
<1>1. /\ call[c].step = "guard" /\ call[c].step # "unsent" /\ Unwritten
      /\ nonces' \subseteq Calls /\ faults' \in 0..MaxFaults
    BY DEF ReadGuard, Unwritten, Inductive, Types
<1>2. PICK i \in SeenGuards(call[c].key) :
        IF i = 0
        THEN call' = [call EXCEPT ![c].step = "write", ![c].at = clock]
        ELSE IF SameRequest(c, i)
             THEN call' = [call EXCEPT ![c].step = "fetch", ![c].id = i]
             ELSE Answer(c, "conflict", 0)
    BY DEF ReadGuard
<1>3. CASE i = 0
    <2> DEFINE new == [call[c] EXCEPT !.step = "write", !.at = clock]
    <2>1. /\ call[c] \in SentType /\ clock \in Nat /\ Len(records) \in Nat
          /\ call[c].id <= Len(records) /\ call[c].ended <= clock
        BY <1>1, CallFields
    <2>2. new \in SentType /\ new.step \in Plain
        BY <2>1 DEF SentType, Plain, Open
    <2>3. new.id = call[c].id /\ new.at = clock /\ new.ended = call[c].ended
        BY <2>1 DEF SentType
    <2>4. call' = [call EXCEPT ![c] = new]
        BY <1>2, <1>3
    <2> HIDE DEF new
    <2>5. new.id <= Len(records) /\ new.at <= clock /\ new.ended <= clock
        BY <2>1, <2>3
    <2> QED
        BY <1>1, <2>2, <2>4, <2>5, PlainKeeps
<1>4. CASE i # 0 /\ SameRequest(c, i)
    BY <1>1, <1>2, <1>4, FoundKeeps
<1>5. CASE i # 0 /\ ~SameRequest(c, i)
    BY <1>1, <1>2, <1>5, OtherBodyDeserves, AnswerKeeps
<1> QED
    BY <1>3, <1>4, <1>5

(* The second read of the guard, after a failed transaction.                 *)
LEMMA RereadKeeps ==
    ASSUME Inductive, NEW c \in Calls, Reread(c)
    PROVE  Inductive'
<1>1. /\ call[c].step = "reread" /\ call[c].step # "unsent" /\ Unwritten
      /\ nonces' \subseteq Calls /\ faults' \in 0..MaxFaults
    BY DEF Reread, Unwritten, Inductive, Types
<1>2. PICK i \in SeenGuards(call[c].key) : AfterRace(c, i)
    BY DEF Reread
<1>3. CASE i # 0 /\ SameRequest(c, i)
    BY <1>1, <1>2, <1>3, FoundKeeps DEF AfterRace
<1>4. CASE i # 0 /\ ~SameRequest(c, i)
    BY <1>1, <1>2, <1>4, OtherBodyDeserves, AnswerKeeps DEF AfterRace
<1>5. CASE i = 0
    <2>1. ~hosted => KeyUsed(c)
        BY <1>1 DEF Inductive, CallsInv, CallOK
    <2>2. ~hosted => OutlivedNow(c)
        BY <1>1, <1>5, <2>1, MissedIsOutlived
    <2>3. Deserved(c, "conflict", 0)
        BY <2>2 DEF Deserved, Outcomes, Inductive, Types
    <2> QED
        BY <1>1, <1>2, <1>5, <2>3, AnswerKeeps DEF AfterRace
<1> QED
    BY <1>3, <1>4, <1>5

(* The read of the record: a record lives longer than its guard, so one that *)
(* is gone explains the conflict.                                            *)
LEMMA FetchKeeps ==
    ASSUME Inductive, NEW c \in Calls, Fetch(c)
    PROVE  Inductive'
<1>1. /\ call[c].step = "fetch" /\ call[c].step # "unsent" /\ Unwritten
      /\ nonces' \subseteq Calls /\ faults' \in 0..MaxFaults
    BY DEF Fetch, Unwritten, Inductive, Types
<1>2. PICK i \in SeenRecords(call[c].id) :
        Answer(c, IF i = 0 THEN "conflict" ELSE "duplicate", i)
    BY DEF Fetch
<1>3. Names(c)
    BY <1>1 DEF Inductive, CallsInv, CallOK
<1>4. Len(records) \in Nat /\ call[c].id \in 1..Len(records) /\ clock \in Nat
    BY <1>3 DEF Names, Inductive, Types
<1>5. records[call[c].id].started \in Nat
    BY <1>3, RecordFields DEF Names, Inductive
<1>6. CASE i # 0
    <2>1. i = call[c].id
        BY <1>6 DEF SeenRecords
    <2>2. Deserved(c, "duplicate", i)
        BY <1>3, <1>4, <2>1 DEF Deserved, Outcomes, Names
    <2> QED
        BY <1>1, <1>2, <1>6, <2>2, AnswerKeeps
<1>7. CASE i = 0
    <2>1. ~hosted => Passed(call[c].id)
        BY <1>4, <1>5, <1>7, Lifetimes DEF SeenRecords, Lags, Created, Passed
    <2>2. ~hosted => OutlivedNow(c)
        BY <1>3, <2>1 DEF OutlivedNow, Names
    <2>3. Deserved(c, "conflict", 0)
        BY <1>4, <2>2 DEF Deserved, Outcomes
    <2> QED
        BY <1>1, <1>2, <1>7, <2>3, AnswerKeeps
<1> QED
    BY <1>6, <1>7

-------------------------------------------------------------------------------
(* The transaction.                                                          *)

Written == UNCHANGED <<hosted, clock, original, available, changes>>

(* The record that a call's transaction appends, and what it leaves alone.   *)
LEMMA CommitAppends ==
    ASSUME Inductive, NEW c \in Calls, call[c].step = "write", Commit(c)
    PROVE  /\ records' \in Seq(RecordType)
           /\ Len(records') = Len(records) + 1
           /\ DOMAIN records' = DOMAIN records \cup {Len(records) + 1}
           /\ \A i \in DOMAIN records : records'[i] = records[i]
           /\ records'[Len(records) + 1].key = call[c].key
           /\ records'[Len(records) + 1].body = call[c].body
           /\ records'[Len(records) + 1].started = call[c].at
           /\ records'[Len(records) + 1].committed = clock
           /\ DOMAIN records = 1..Len(records) /\ Len(records) \in Nat
<1> DEFINE r == [key |-> call[c].key, body |-> call[c].body,
                 started |-> call[c].at, committed |-> clock]
<1>1. r \in RecordType
    BY CallFields DEF RecordType, SentType
<1>2. records \in Seq(RecordType) /\ records' = Append(records, r)
    BY DEF Inductive, Types, Commit
<1>3. /\ r.key = call[c].key /\ r.body = call[c].body
      /\ r.started = call[c].at /\ r.committed = clock
    OBVIOUS
<1> HIDE DEF r
<1> QED
    BY <1>1, <1>2, <1>3

(* The guard that it writes, dated no earlier than the record asks for.      *)
LEMMA CommitGuards ==
    ASSUME Inductive, NEW c \in Calls, call[c].step = "write", Commit(c)
    PROVE  /\ guard' \in [Keys -> GuardType]
           /\ \A k \in Keys \ {call[c].key} : guard'[k] = guard[k]
           /\ guard'[call[c].key].id = Len(records) + 1
           /\ guard'[call[c].key].until >= call[c].at + GuardLife
           /\ guard'[call[c].key] # NoGuard
<1>1. /\ call[c].key \in Keys /\ call[c].at \in Nat /\ call[c].at <= clock
      /\ clock \in Nat /\ Len(records) \in Nat
    BY CallFields
<1>2. GuardUntil(c) \in Nat /\ GuardUntil(c) >= call[c].at + GuardLife
    BY <1>1, Lifetimes DEF GuardUntil
<1> DEFINE g == [id |-> Len(records) + 1, until |-> GuardUntil(c)]
<1>3. g \in GuardType /\ g.id = Len(records) + 1 /\ g.until = GuardUntil(c) /\ g # NoGuard
    BY <1>1, <1>2 DEF GuardType, NoGuard
<1>4. guard \in [Keys -> GuardType] /\ guard' = [guard EXCEPT ![call[c].key] = g]
    BY DEF Inductive, Types, Commit
<1> HIDE DEF g
<1>5. guard'[call[c].key] = g
    BY <1>1, <1>4
<1>6. \A k \in Keys \ {call[c].key} : guard'[k] = guard[k]
    BY <1>4
<1>7. guard' \in [Keys -> GuardType]
    BY <1>1, <1>3, <1>4
<1> QED
    BY <1>2, <1>3, <1>5, <1>6, <1>7

(* The transaction keeps what is said of the table: the key was free, so     *)
(* every older record under it has had the life of its guard.                *)
LEMMA CommitKeepsStore ==
    ASSUME Inductive, NEW c \in Calls, call[c].step = "write",
           Free(c), Commit(c), Written
    PROVE  StoreInv'
<1> DEFINE k == call[c].key
           n == Len(records) + 1
<1>1. /\ k \in Keys /\ call[c].at \in Nat /\ call[c].at <= clock /\ clock \in Nat
    BY CallFields
<1>2. /\ DOMAIN records' = DOMAIN records \cup {n}
      /\ \A i \in DOMAIN records : records'[i] = records[i]
      /\ records'[n].key = k
      /\ records'[n].started = call[c].at /\ records'[n].committed = clock
      /\ DOMAIN records = 1..Len(records) /\ Len(records) \in Nat
    BY CommitAppends
<1>3. /\ \A l \in Keys \ {k} : guard'[l] = guard[l]
      /\ guard'[k].id = n /\ guard'[k].until >= call[c].at + GuardLife
      /\ guard'[k] # NoGuard
    BY CommitGuards
<1>4. clock' = clock
    BY DEF Written
<1>5. \A i \in DOMAIN records : records[i].key = k => Passed(i)
    BY DEF Inductive, StoreInv, GuardLasts, Guarded, Free
<1> HIDE DEF n
<1>6. RecordsInv'
    <2> SUFFICES ASSUME NEW i \in DOMAIN records'
                 PROVE  records'[i].started <= records'[i].committed
                        /\ records'[i].committed <= clock
        BY <1>4 DEF RecordsInv
    <2>1. CASE i = n
        BY <1>1, <1>2, <2>1
    <2>2. CASE i \in DOMAIN records
        BY <1>2, <2>2 DEF Inductive, StoreInv, RecordsInv
    <2> QED
        BY <1>2, <2>1, <2>2
<1>7. GuardNames'
    <2> SUFFICES ASSUME NEW l \in Keys, guard'[l] # NoGuard
                 PROVE  /\ guard'[l].id \in DOMAIN records'
                        /\ records'[guard'[l].id].key = l
        BY DEF GuardNames
    <2>1. CASE l = k
        BY <1>2, <1>3, <2>1
    <2>2. CASE l # k
        BY <1>2, <1>3, <2>2 DEF Inductive, StoreInv, GuardNames
    <2> QED
        BY <2>1, <2>2
<1>8. GuardLasts'
    <2> SUFFICES ASSUME NEW i \in DOMAIN records'
                 PROVE  Passed(i)' \/ Guarded(i)'
        BY DEF GuardLasts
    <2>1. CASE i = n
        BY <1>2, <1>3, <2>1 DEF Guarded
    <2>2. CASE i \in DOMAIN records /\ records[i].key = k
        BY <1>2, <1>4, <1>5, <2>2 DEF Passed
    <2>3. CASE i \in DOMAIN records /\ records[i].key # k
        <3>1. records[i].key \in Keys \ {k} /\ records'[i] = records[i]
            BY <1>2, <2>3, RecordFields DEF Inductive
        <3>2. guard'[records[i].key] = guard[records[i].key]
            BY <1>3, <3>1
        <3>3. Passed(i) \/ Guarded(i)
            BY <2>3 DEF Inductive, StoreInv, GuardLasts
        <3> QED
            BY <1>4, <3>1, <3>2, <3>3 DEF Passed, Guarded
    <2> QED
        BY <1>2, <2>1, <2>2, <2>3
<1>9. CreatedOnce'
    <2> SUFFICES ASSUME NEW i \in DOMAIN records', NEW j \in DOMAIN records',
                        i < j, records'[i].key = records'[j].key
                 PROVE  records'[j].committed >= records'[i].started + GuardLife
        BY DEF CreatedOnce
    <2>1. i \in DOMAIN records
        BY <1>2 DEF n
    <2>2. records[i].started \in Nat
        BY <2>1, RecordFields DEF Inductive
    <2>3. CASE j = n
        <3>1. Passed(i)
            BY <1>2, <1>5, <2>1, <2>3
        <3> QED
            BY <1>1, <1>2, <2>1, <2>2, <2>3, <3>1, Lifetimes DEF Passed
    <2>4. CASE j \in DOMAIN records
        BY <1>2, <2>1, <2>4 DEF Inductive, StoreInv, CreatedOnce
    <2> QED
        BY <1>2, <2>3, <2>4
<1> QED
    BY <1>6, <1>7, <1>8, <1>9 DEF StoreInv

(* A call whose transaction is stored is told so, or gets an error.          *)
Told(c, new) ==
    /\ new \in SentType
    /\ new.key = call[c].key /\ new.body = call[c].body
    /\ new.at = 0 /\ new.ended = 0
    /\ \/ new.step = "accepted" /\ new.id = Len(records) + 1
       \/ new.step = "error" /\ new.id = 0

(* The transaction keeps the invariant.                                      *)
LEMMA CommitKeeps ==
    ASSUME Inductive, NEW c \in Calls, call[c].step = "write",
           Free(c), Commit(c), Written, NEW new, Told(c, new),
           call' = [call EXCEPT ![c] = new],
           nonces' \subseteq Calls, faults' \in 0..MaxFaults
    PROVE  Inductive'
<1>1. /\ records' \in Seq(RecordType)
      /\ Len(records') = Len(records) + 1 /\ Len(records) \in Nat
      /\ DOMAIN records' = DOMAIN records \cup {Len(records) + 1}
      /\ \A i \in DOMAIN records : records'[i] = records[i]
      /\ records'[Len(records) + 1].key = call[c].key
      /\ records'[Len(records) + 1].body = call[c].body
    BY CommitAppends
<1>2. guard' \in [Keys -> GuardType]
    BY CommitGuards
<1>3. call'[c] = new /\ \A d \in Calls \ {c} : call'[d] = call[d]
    BY DEF Inductive, Types
<1>4. clock \in Nat /\ clock' = clock /\ hosted' = hosted
    BY DEF Inductive, Types, Written
<1>5. Types'
    <2>1. call' \in [Calls -> SentType \cup {Unsent}]
        BY DEF Inductive, Types, Told
    <2> QED
        BY <1>1, <1>2, <2>1 DEF Inductive, Types, Written
<1>6. StoreInv'
    BY CommitKeepsStore
<1>7. CallOK(c)'
    <2>1. new.id <= Len(records') /\ new.ended <= clock' /\ new.at <= clock'
        BY <1>1, <1>4 DEF Told
    <2>2. new.step \notin {"fetch", "duplicate", "reread", "conflict"}
        BY DEF Told
    <2>3. new.step = "accepted" => Names(c)'
        BY <1>1, <1>3 DEF Told, Names, SameRequest, Created
    <2> QED
        BY <1>3, <2>1, <2>2, <2>3 DEF CallOK
<1>8. \A d \in Calls \ {c} : CallOK(d)'
    BY <1>1, <1>3, <1>4, OthersKept
<1>9. AcceptedOnce'
    <2> SUFFICES ASSUME NEW d \in Calls, NEW e \in Calls,
                        call'[d].step = "accepted", call'[e].step = "accepted",
                        call'[d].id = call'[e].id
                 PROVE  d = e
        BY DEF AcceptedOnce
    <2>1. \A b \in Calls \ {c} : call[b].id \in Nat /\ call[b].id <= Len(records)
        BY DEF Inductive, CallsInv, CallOK, Types, SentType, Unsent
    <2>2. d = c => e = c
        BY <1>1, <1>3, <2>1 DEF Told
    <2>3. e = c => d = c
        BY <1>1, <1>3, <2>1 DEF Told
    <2> QED
        BY <1>3, <2>2, <2>3 DEF Inductive, CallsInv, AcceptedOnce
<1> QED
    BY <1>5, <1>6, <1>7, <1>8, <1>9 DEF Inductive, CallsInv

(* The answer of a call whose transaction is stored.                         *)
LEMMA ToldByAnswer ==
    ASSUME Inductive, NEW c \in Calls, call[c].step = "write",
           NEW outcome, NEW i, Answer(c, outcome, i),
           \/ outcome = "accepted" /\ i = Len(records) + 1
           \/ outcome = "error" /\ i = 0
    PROVE  \E new : Told(c, new) /\ call' = [call EXCEPT ![c] = new]
<1> DEFINE new == [call[c] EXCEPT !.step = outcome, !.id = i, !.at = 0,
                                  !.ended = IF outcome = "conflict" THEN clock ELSE 0]
<1>1. call[c] \in SentType /\ Len(records) \in Nat
    BY CallFields
<1>2. new \in SentType
    <2>1. outcome \in Outcomes /\ outcome # "conflict" /\ i \in Nat
        BY <1>1 DEF Outcomes
    <2> QED
        BY <1>1, <2>1 DEF SentType
<1>3. /\ new.step = outcome /\ new.id = i /\ new.at = 0 /\ new.ended = 0
      /\ new.key = call[c].key /\ new.body = call[c].body
    BY <1>1 DEF SentType
<1>4. call' = [call EXCEPT ![c] = new]
    BY DEF Answer
<1> HIDE DEF new
<1>5. Told(c, new)
    BY <1>2, <1>3 DEF Told
<1> QED
    BY <1>4, <1>5

(* The write: it is stored, or it has lost a race or was cancelled.          *)
LEMMA WriteKeeps ==
    ASSUME Inductive, NEW c \in Calls, Write(c)
    PROVE  Inductive'
<1>1. call[c].step = "write" /\ Written /\ nonces' \subseteq Calls /\ faults' \in 0..MaxFaults
    BY DEF Write, Written, Inductive, Types
<1>2. CASE Free(c) /\ Commit(c) /\ Answer(c, "accepted", Len(records) + 1)
    BY <1>1, <1>2, ToldByAnswer, CommitKeeps
<1>3. CASE /\ ~Free(c) \/ Contended(c)
           /\ Goto(c, "reread")
           /\ UNCHANGED <<records, guard>>
    <2> DEFINE new == [call[c] EXCEPT !.step = "reread"]
    <2>1. /\ call[c] \in SentType /\ clock \in Nat /\ Len(records) \in Nat
          /\ call[c].id <= Len(records) /\ call[c].at <= clock /\ call[c].ended <= clock
          /\ call[c].key \in Keys
        BY <1>1, CallFields
    <2>2. new \in SentType
        BY <2>1 DEF SentType, Open
    <2>3. /\ new.step = "reread" /\ new.id = call[c].id /\ new.at = call[c].at
          /\ new.ended = call[c].ended /\ new.key = call[c].key
        BY <2>1 DEF SentType
    <2>4. call' = [call EXCEPT ![c] = new]
        BY <1>3 DEF Goto
    <2> HIDE DEF new
    <2>5. call'[c] = new /\ Unwritten
        BY <1>1, <1>3, <2>4 DEF Inductive, Types, Written, Unwritten
    <2>6. ~hosted => KeyUsed(c)
        BY <1>3, <2>1 DEF Contended, Free, Inductive, StoreInv, GuardNames, KeyUsed
    <2>7. ~hosted' => KeyUsed(c)'
        BY <2>3, <2>5, <2>6 DEF KeyUsed, Unwritten
    <2>8. CallOK(c)'
        BY <2>1, <2>3, <2>5, <2>7 DEF CallOK, Unwritten
    <2> QED
        BY <1>1, <2>2, <2>3, <2>4, <2>5, <2>8, CallMoves DEF Unwritten
<1> QED
    BY <1>2, <1>3 DEF Write

(* An error: nothing was stored, or a nonce, or the whole transaction.       *)
LEMMA FailKeeps ==
    ASSUME Inductive, NEW c \in Calls, Fail(c)
    PROVE  Inductive'
<1>1. /\ call[c].step # "unsent" /\ Written
      /\ Answer(c, "error", 0) \/ Answer(c, "unauthorized", 0)
      /\ call[c].step = "write" => Answer(c, "error", 0)
    BY DEF Fail, Written, Open
<1>2. faults' \in 0..MaxFaults
    BY Lifetimes DEF Fail, Inductive, Types
<1>3. nonces' \subseteq Calls
    BY <1>1, CallFields DEF Fail, Inductive, Types
<1>4. CASE UNCHANGED <<records, guard>>
    <2>1. Unwritten
        BY <1>1, <1>4 DEF Written, Unwritten
    <2> QED
        BY <1>1, <1>2, <1>3, <2>1, AnswerKeeps, PlainlyDeserved
<1>5. CASE call[c].step = "write" /\ Free(c) /\ Commit(c)
    BY <1>1, <1>2, <1>3, <1>5, ToldByAnswer, CommitKeeps
<1> QED
    BY <1>4, <1>5 DEF Fail

-------------------------------------------------------------------------------
(* The theorems.                                                             *)

(* Every step keeps the invariant.                                           *)
LEMMA NextInductive == Inductive /\ [Next]_vars => Inductive'
<1> SUFFICES ASSUME Inductive, [Next]_vars
             PROVE  Inductive'
    OBVIOUS
<1>1. ASSUME NEW c \in Calls, Submit(c)
      PROVE  Inductive'
    BY <1>1, AuthenticateKeeps, ReadGuardKeeps, FetchKeeps, WriteKeeps, RereadKeeps,
       FailKeeps DEF Submit
<1>2. ASSUME NEW c \in Calls, Replay(c)
      PROVE  Inductive'
    BY <1>2, AuthenticateKeeps, ChecksKeep DEF Replay
<1>3. CASE UNCHANGED vars
    <2>1. UNCHANGED <<hosted, clock, original, available, records, guard, nonces,
                      call, changes, faults>>
        BY <1>3 DEF vars
    <2> QED
        BY <2>1 DEF Inductive, Types, StoreInv, CallsInv, RecordsInv, GuardNames,
           GuardLasts, Passed, Guarded, CreatedOnce, CallOK, AcceptedOnce, Sent, Names,
           SameRequest, Created, KeyUsed, ReallyReused, Outlived
<1> QED
    BY <1>1, <1>2, <1>3, SendKeeps, DuplicateKeeps, DeleteKeeps, TickKeeps, WorldKeeps
    DEF Next

(* The invariant implies the types that TLC checks.                          *)
LEMMA InductiveTyped == Inductive => TypeOK
<1> SUFFICES ASSUME Inductive
             PROVE  TypeOK
    OBVIOUS
<1>1. clock \in 0..MaxTime /\ Len(records) \in Nat
    BY Lifetimes DEF Inductive, Types
<1>2. \A i \in DOMAIN records : /\ records[i].key \in Keys
                                /\ records[i].body \in Bodies
                                /\ records[i].started <= records[i].committed
                                /\ records[i].committed <= clock
    BY RecordFields DEF Inductive, StoreInv, RecordsInv
<1>3. \A k \in Keys : /\ guard[k].id \in 0..Len(records)
                      /\ guard[k] # NoGuard => records[guard[k].id].key = k
    BY <1>1 DEF Inductive, StoreInv, GuardNames, NoGuard, Types
<1>4. \A c \in Calls : /\ call[c].step \in {"unsent"} \cup Open \cup Outcomes
                       /\ call[c].id \in 0..Len(records)
                       /\ call[c].ended <= clock
    <2> SUFFICES ASSUME NEW c \in Calls
                 PROVE  /\ call[c].step \in {"unsent"} \cup Open \cup Outcomes
                        /\ call[c].id \in 0..Len(records)
                        /\ call[c].ended <= clock
        OBVIOUS
    <2>1. call[c].id <= Len(records) /\ call[c].ended <= clock
        BY DEF Inductive, CallsInv, CallOK
    <2>2. call[c] \in SentType \cup {Unsent}
        BY DEF Inductive, Types
    <2>3. call[c].step \in {"unsent"} \cup Open \cup Outcomes /\ call[c].id \in Nat
        BY <2>2 DEF SentType, Unsent
    <2> QED
        BY <1>1, <2>1, <2>3
<1> QED
    BY <1>1, <1>2, <1>3, <1>4 DEF Inductive, Types, TypeOK

(* The invariant always holds.                                               *)
LEMMA AlwaysInductive == Spec => []Inductive
    BY InitInductive, NextInductive, PTL DEF Spec

(* Every reachable state is well typed.                                      *)
THEOREM TypeCorrect == Spec => []TypeOK
    BY AlwaysInductive, InductiveTyped, PTL

(* One idempotency key makes one event or replay in the life of its guard,   *)
(* for any number of simultaneous calls, duplicates, faults and lagging      *)
(* reads.                                                                    *)
THEOREM CreatedOnceAlways == Spec => []CreatedOnce
<1>1. Inductive => CreatedOnce
    BY DEF Inductive, StoreInv
<1> QED
    BY AlwaysInductive, <1>1, PTL

(* An answer names a record of the caller's own request.                     *)
THEOREM AnswersAlwaysAgree == Spec => []AnswersAgree
<1>1. Inductive => AnswersAgree
    BY DEF Inductive, CallsInv, CallOK, Names, AcceptedOnce, AnswersAgree
<1> QED
    BY AlwaysInductive, <1>1, PTL

(* On the local table a conflict always has a reason.                        *)
THEOREM ConflictsExplained == Spec => []ConflictExplained
<1>1. Inductive => ConflictExplained
    BY DEF Inductive, CallsInv, CallOK, ConflictExplained
<1> QED
    BY AlwaysInductive, <1>1, PTL
===============================================================================
