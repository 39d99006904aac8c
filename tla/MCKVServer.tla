------------------------------- MODULE MCKVServer -------------------------------
(***************************************************************************)
(* Instances of KVServer for TLC: one client writes, another reads.           *)
(***************************************************************************)
EXTENDS KVServer, MCSequencePaxos

MCCommand == [id \in EntryId |-> IF id = 1 THEN [op |-> "Put", key |-> 1, value |-> 1] ELSE [op |-> "Get", key |-> 1, value |-> 0]]
MCCoordinator == [id \in EntryId |-> s1]

\* What the servers have applied and answered, besides the core
KVView == <<LiveView, kv, applied>>
===============================================================================
