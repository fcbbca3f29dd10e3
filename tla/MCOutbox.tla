------------------------------- MODULE MCOutbox -------------------------------
(***************************************************************************)
(* Small instances of Outbox for TLC: three records of one delivery in one *)
(* of two shards, with delays on both sides of the queue's limit.          *)
(***************************************************************************)
EXTENDS OutboxProperties

MCWait == [r \in Records |-> IF r = 3 THEN 4 ELSE 3]
MCShardOf == [r \in Records |-> ShardCount]
MCDelivery == [r \in Records |-> "d1"]
===============================================================================
