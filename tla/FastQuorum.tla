------------------------------ MODULE FastQuorum ------------------------------
(***************************************************************************)
(* Quorum arithmetic of Sequence Paxos with the fast path: how many promises *)
(* and accepts a leader waits for, how many fast votes decide an index, and  *)
(* how many unsynced logs must hold an entry for a new leader to recover it. *)
(* A Quorum is a record [read, write] of the sizes it stands for.            *)
(***************************************************************************)
EXTENDS Integers, FiniteSets

\* num_nodes / 2 + 1, of Quorum::Majority
MajoritySize(n) == n \div 2 + 1
Majority(n) == [read |-> MajoritySize(n), write |-> MajoritySize(n)]

\* ClusterConfig::validate for num_nodes servers: a FlexibleQuorum it accepts.
\* Majority(n) is one of them.
IsValidQuorum(q, n) ==
    /\ n > 1
    /\ q.read + q.write > n
    /\ q.read \in 2..n /\ q.write \in 2..n
    /\ q.read >= q.write

\* is_prepare_quorum and is_accept_quorum
IsPrepareQuorum(q, k) == k >= q.read
IsAcceptQuorum(q, k) == k >= q.write

\* The fast quorum of the table in README.md: f + floor(f/2) + 1.
DocumentedFastQuorumSize(n) == LET f == n \div 2 IN f + f \div 2 + 1

\* fast_quorum = f + ceil(f/2) + 1, where f = num_nodes / 2.
FastQuorumSize(n) == LET f == n \div 2 IN f + (f + 1) \div 2 + 1

\* recover_threshold = ceil(f/2) + 1.
RecoverThreshold(n) == LET f == n \div 2 IN (f + 1) \div 2 + 1
===============================================================================
