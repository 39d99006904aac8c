-------------------------- MODULE ReplicatedDatabase --------------------------
(***************************************************************************)
(* What the benchmark's servers promise together: one growing log of client   *)
(* commands.  Every server executes a prefix of it, never goes back, and      *)
(* answers the commands it coordinates, in the order of the log, with what    *)
(* the log before them makes of the database.                                 *)
(***************************************************************************)
EXTENDS Integers, Sequences, SequencesExt, FiniteSetsExt

CONSTANTS
    Server,         \* the servers
    Command,        \* Command[id]: op, key and value of a client's command
    Coordinator     \* Coordinator[id]: the server the client sent it to

VARIABLES
    log,            \* ids of commands, in the order all servers agree on
    executed,       \* executed[s]: how much of the log s has executed
    replies         \* replies[s]: what s has told its clients so far

Absent == 0         \* no value

\* What a read of key gives when the commands before index i are executed
ValueAt(l, i, key) ==
    LET writes == {j \in 1..(i - 1) : Command[l[j]].key = key /\ Command[l[j]].op # "Get"}
    IN  IF writes = {} THEN Absent
        ELSE LET last == Command[l[Max(writes)]]
             IN  IF last.op = "Put" THEN last.value ELSE Absent

Answer(l, i) ==
    IF Command[l[i]].op = "Get"
    THEN [type |-> "Read", id |-> l[i], value |-> ValueAt(l, i, Command[l[i]].key)]
    ELSE [type |-> "Write", id |-> l[i]]

\* The answers of s to its commands in (from, to] of the log
Answers(s, l, from, to) ==
    LET own == SetToSortSeq({i \in (from + 1)..to : Coordinator[l[i]] = s}, LAMBDA i, j : i < j)
    IN  [k \in DOMAIN own |-> Answer(l, own[k])]

Init ==
    /\ log = << >>
    /\ executed = [s \in Server |-> 0]
    /\ replies = [s \in Server |-> << >>]

\* s executes more commands; the log grows when nobody has executed them before.
Execute(s) ==
    /\ IsPrefix(log, log')
    /\ executed' = [executed EXCEPT ![s] = executed'[s]]
    /\ executed[s] < executed'[s] /\ executed'[s] <= Len(log')
    /\ Len(log') > Len(log) => executed'[s] = Len(log')
    /\ replies' = [replies EXCEPT ![s] = @ \o Answers(s, log', executed[s], executed'[s])]

Next == \E s \in Server : Execute(s)

Spec == Init /\ [][Next]_<<log, executed, replies>>
===============================================================================
