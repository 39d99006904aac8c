-------------------------------- MODULE KVServer --------------------------------
(***************************************************************************)
(* The benchmark's server (benchmark/src/server/) on top of the replication   *)
(* core: its event loop decides when OmniPaxos is called and when decided     *)
(* commands reach the database and the clients.  The network between servers  *)
(* is the core's.  A server keeps everything in memory and is not restarted.  *)
(***************************************************************************)
EXTENDS SequencePaxos

CONSTANTS
    Command,        \* Command[id]: the KVCommand of an entry: op, key and value
    Coordinator     \* Coordinator[id]: coordinator_id, the server of the client

Commands == [op : {"Put", "Delete", "Get"}, key : Nat, value : Nat]
ASSUME CommandAssumption == Command \in [EntryId -> Commands] /\ Coordinator \in [EntryId -> Proposers]

VARIABLES
    kv,             \* kv[s]: current_decided_idx, database and the replies sent to clients
    applied         \* history: the entries s has handed to its database

kvVars == <<kv, applied>>

Absent == 0
DatabaseKeys == {Command[id].key : id \in EntryId}

KVInit ==
    /\ Init
    /\ kv = [s \in Server |-> [current |-> 0, db |-> [k \in DatabaseKeys |-> Absent], replies |-> << >>]]
    /\ applied = [s \in Server |-> << >>]

--------------------------------------------------------------------------------
\* Database::handle_command: the new database; what a Get reads is in the old one.
HandleCommand(db, cmd) ==
    CASE cmd.op = "Put" -> [db EXCEPT ![cmd.key] = cmd.value]
      [] cmd.op = "Delete" -> [db EXCEPT ![cmd.key] = Absent]
      [] OTHER -> db

Response(db, id) ==
    IF Command[id].op = "Get" THEN [type |-> "Read", id |-> id, value |-> db[Command[id].key]]
    ELSE [type |-> "Write", id |-> id]

\* Mutant of UpdateAndRespond: the response is made before the commands in front of it are run.
RespondFirst(s, own, ids) ==
    LET mine == SelectSeq(ids, LAMBDA id : Coordinator[id] = s)
    IN  [own EXCEPT !.db = FoldLeft(LAMBDA db, id : HandleCommand(db, Command[id]), @, ids),
                    !.replies = @ \o [k \in DOMAIN mine |-> Response(own.db, mine[k])]]

\* update_database_and_respond, command by command
UpdateAndRespond(s, own, ids) ==
    FoldLeft(LAMBDA o, id : [o EXCEPT !.db = HandleCommand(@, Command[id]),
                                      !.replies = IF Coordinator[id] = s
                                                  THEN Append(@, Response(o.db, id)) ELSE @],
             own, ids)

\* read_decided_suffix. It reads None for a decided index beyond the log, which
\* handle_decided_entries would unwrap: DecidedIsAccepted says that there is none.
DecidedSuffix(st, from) == SubSeq(st.log, from + 1, Min({st.decided, Len(st.log)}))

\* handle_decided_entries, on the storage the handled message leaves
HandleDecidedEntries(s, st) ==
    IF kv[s].current < st.decided
    THEN LET ids == DecidedSuffix(st, kv[s].current)
             own == [kv[s] EXCEPT !.current = st.decided]
         IN  /\ kv' = [kv EXCEPT ![s] = UpdateAndRespond(s, own, ids)]
             /\ applied' = [applied EXCEPT ![s] = @ \o ids]
    ELSE UNCHANGED kvVars

--------------------------------------------------------------------------------
\* The arms of the event loop

\* handle_client_messages
ClientAppend(s, id, deadline, ext) ==
    /\ Coordinator[id] = s
    /\ AppendWithId(s, id, deadline, ext)
    /\ UNCHANGED kvVars

\* poll_timeout: what poll decides is not applied here.
Poll(s) == Release(s) /\ UNCHANGED kvVars

\* election_interval: elections, resends and, again, no look at what is decided
Tick(s) ==
    /\ Elect(s) \/ ResendAtLeader(s) \/ ResendPromise(s) \/ ResendPrepareReq(s)
    /\ UNCHANGED kvVars

\* handle_cluster_messages with a message for the core
ClusterMessage(from, s) == Handle(from, s) /\ HandleDecidedEntries(s, store'[s])

\* handle_cluster_messages with a heartbeat, which changes nothing in the core
HeartbeatMessage(s) ==
    /\ kv[s].current < store[s].decided
    /\ HandleDecidedEntries(s, store[s])
    /\ UNCHANGED vars

KVNext ==
    \/ \E s \in Server, id \in EntryId, deadline \in 1..MaxDeadline, ext \in Extensions :
           ClientAppend(s, id, deadline, ext)
    \/ \E s \in Server : Poll(s) \/ Tick(s) \/ HeartbeatMessage(s)
    \/ \E s \in Server : \E t \in Peers(s) : ClusterMessage(t, s)

KVSpec == KVInit /\ [][KVNext]_<<vars, kvVars>>

\* Connections deliver, heartbeats among them, the poll timer runs and elections end.
KVFairness ==
    \A s \in Server :
        /\ WF_<<vars, kvVars>>(Elect(s) /\ UNCHANGED kvVars)
        /\ WF_<<vars, kvVars>>(Poll(s)) /\ WF_<<vars, kvVars>>(HeartbeatMessage(s))
        /\ \A t \in Peers(s) : WF_<<vars, kvVars>>(ClusterMessage(t, s))
KVFairSpec == KVSpec /\ KVFairness

--------------------------------------------------------------------------------
\* Properties

\* The longest of the applied logs
AppliedLog == applied[CHOOSE s \in Server : \A t \in Server : Len(applied[t]) <= Len(applied[s])]

Database == INSTANCE ReplicatedDatabase
    WITH log <- AppliedLog,
         executed <- [s \in Server |-> Len(applied[s])],
         replies <- [s \in Server |-> kv[s].replies]

\* All servers together are one database: what any of them applies extends one log, and
\* every client is answered according to that log, once per entry and in its order, across
\* changes of the leader (handle_decided_entries, update_database_and_respond).
IsReplicatedDatabase == Database!Spec

\* Under one stable leader every command is applied everywhere and its client answered,
\* also when the leader decides it in poll, which applies nothing.
EntriesAnswered ==
    \A id \in EntryId :
        id \in submitted ~> /\ \A s \in Server : id \in ToSet(applied[s])
                            /\ \E i \in DOMAIN kv[Coordinator[id]].replies :
                                   kv[Coordinator[id]].replies[i].id = id
===============================================================================
