------------------------ MODULE MCBallotLeaderElection ------------------------
(***************************************************************************)
(* Instances of the election. Of three servers with equal priorities server 3 *)
(* wins the first round, 1 and 2 are alike until one of them is touched.      *)
(***************************************************************************)
EXTENDS BallotLeaderElection

\* Any connections change, a leader or a follower restarts or claims the leadership, or
\* a follower gets a larger priority. Prepares of the others reach 2 and 3 only.
MCAffected == [PromiseLeader |-> {2, 3}, ChangeLinks |-> Servers, Restart |-> {2, 3},
               TryBecomeLeader |-> {2, 3}, SetPriority |-> {2}]
===============================================================================
