------------------------------ MODULE KVSnapshot ------------------------------
(***************************************************************************)
(* The key-value snapshot of the benchmark (KVSnapshot in common.rs). A       *)
(* snapshot is a map and, when it is a delta, the keys the map's entries lack *)
(* because the last command on them is a deletion.  The benchmark's Command   *)
(* does not name this type, so its server runs with NoSnapshot; it stands     *)
(* here for the snapshot of an application.                                   *)
(***************************************************************************)
EXTENDS Integers, Sequences, TLC
Seqs == INSTANCE SequencesExt

Put(key, value) == [op |-> "Put", key |-> key, value |-> value]
Delete(key) == [op |-> "Delete", key |-> key, value |-> 0]

Without(map, keys) == [k \in DOMAIN map \ keys |-> map[k]]

Empty == [snapshotted |-> << >>, deleted |-> {}]

CreateStep(snap, cmd) ==
    IF cmd.op = "Put"
    THEN [snap EXCEPT !.snapshotted = (cmd.key :> cmd.value) @@ @]
    ELSE IF cmd.key \in DOMAIN snap.snapshotted
         THEN [snap EXCEPT !.snapshotted = Without(@, {cmd.key})]
         ELSE [snap EXCEPT !.deleted = @ \cup {cmd.key}]

\* KVSnapshot::create; keys that were put back are not deleted
Create(cmds) ==
    LET snap == Seqs!FoldLeft(CreateStep, Empty, cmds)
    IN  [snap EXCEPT !.deleted = @ \ DOMAIN snap.snapshotted]

\* Mutant of Merge: the deletions of the delta are forgotten.
MergeMaps(snap, delta) ==
    [snapshotted |-> delta.snapshotted @@ snap.snapshotted, deleted |-> {}]

\* KVSnapshot::merge
Merge(snap, delta) ==
    [snapshotted |-> Without(delta.snapshotted @@ snap.snapshotted, delta.deleted), deleted |-> {}]

--------------------------------------------------------------------------------
\* What the commands mean: the last one on a key decides.

LastOn(key, cmds) == {i \in DOMAIN cmds :
    cmds[i].key = key /\ \A j \in (i + 1)..Len(cmds) : cmds[j].key # key}

Replay(cmds) ==
    LET present == {key \in {cmds[i].key : i \in DOMAIN cmds} :
                        \E i \in LastOn(key, cmds) : cmds[i].op = "Put"}
    IN  [key \in present |-> cmds[CHOOSE i \in LastOn(key, cmds) : TRUE].value]

\* The keys whose deletion Create may hide: put, put again and deleted. When the first put
\* is in the snapshot and the others are in the delta, the delta does not show the deletion.
HiddenDeletions(cmds) ==
    {cmds[k].key : k \in {k \in DOMAIN cmds :
        /\ cmds[k].op = "Delete"
        /\ \E j \in 1..(k - 1) : \E i \in 1..(j - 1) :
              /\ {cmds[i].key, cmds[j].key} = {cmds[k].key}
              /\ \A m \in i..j : cmds[m].key = cmds[k].key => cmds[m].op = "Put"}}

\* Two maps agree on every key outside of keys.
AgreeExcept(keys, m1, m2) == Without(m1, keys) = Without(m2, keys)
===============================================================================
