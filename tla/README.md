# A TLA+ verification of CA-OP

CA-OP is OmniPaxos (Sequence Paxos with ballot leader election) extended with a
fast path: proposals carry a deadline, every server holds them in an *early
buffer* until its clock has passed the deadline, and servers that release the
same proposals in the same order can decide without waiting for the leader's
log. This directory models the program, model-checks it with TLC and proves
what can be proved with TLAPS.

## 1. The system

| Component | Code | State | Operations |
|---|---|---|---|
| Replication core | `lib/omnipaxos/src/sequence_paxos/` | role and phase, leader state, speculative (*unsynced*) log and hashes, sequence number, cached promise, outgoing messages | `append_with_id`, `handle_leader`, one handler per message, release of proposals, resend and flush timeouts, `reconnected`, recovery at start |
| Leader bookkeeping | `util.rs` (`LeaderState`) | promises, accepted indexes, accepted map (fast and slow votes by index), most recent promise, unsynced logs of the promisers | called by the core |
| Quorums | `util.rs` (`Quorum`), `leader.rs` | none | majority, fast quorum, recovery threshold |
| Deadline-ordered multicast (DOM) | `dom/mod.rs`, `dom/buffer.rs` | priority queue of proposals, last released key | insert, release the ready ones, extend a late one, remove by id |
| One-way-delay estimation | `dom/owd_estimator.rs` | windows of samples by peer | update, estimate, maximum |
| Simulated clock | `benchmark/src/clock.rs` | offset, drift, last reading, last synchronisation | read, resynchronise |
| Leader election (BLE) | `ballot_leader_election.rs` | ballot, round, replies, happiness | heartbeat request and reply, timeout |
| Facade | `omni_paxos.rs` | logical clocks | `tick`, `poll`, `append`, `reconfigure`, reads |
| Internal storage | `storage/` | cache of promise, round, indexes; batch | append with batching, `sync_log`, trim, snapshot |
| Back ends | `lib/omnipaxos_storage/` | memory or RocksDB | atomic batches of operations |
| Reconfiguration | stop sign code of the core | stop sign | `reconfigure`, `forward_stopsign`, accept, decide |
| Benchmark server | `benchmark/src/server/` | database, applied index, connections | event loop, apply decided entries |
| Key-value snapshot | `benchmark/src/common.rs` | map and deleted keys | create, merge |
| Client, macros, UniCache, logging | | | not modelled: no protocol state (UniCache: see section 7) |

How they interact. A server is one event loop. Cluster messages call
`handle`; a 1 ms timer calls `poll`, which hands the ready proposals of the
early buffer to `handle_dom_release`; a slower timer calls `tick`, which drives
elections, resends and batch flushing. Every call may push messages to
`outgoing`, which the loop then writes to TCP connections. A client's request
becomes a `DomPropose` to every peer and to the local buffer. At the leader a
released proposal is appended and sent in `AcceptDecide` (slow path); at a
follower it goes into the unsynced log and a `FastAccepted` vote is sent (fast
path). The leader decides an index on a majority of `Accepted`, or on a fast
quorum of votes for its candidate. A new leader collects promises with logs and
unsynced logs, adopts the most recent log and extends it with the unsynced
entries that enough promisers agree on.

What is hard here, and what a test would hardly reach: votes, log
synchronisation and buffer releases in any order; changes of leader at any
point of a decision; resynchronisation in the middle of a ballot (lost message,
reconnection, restart); memory that a crash erases; repeated messages from
resend timers; equal deadlines; quorum sizes. `PROJECT.json` lists each hazard
at its line.

What makes each component correct: agreement and stability of decided logs,
recoverability of everything decided, promises that bind, logs without gaps,
and progress under a stable leader (core); intersection (quorums); release in
key order, each proposal at most once (DOM); monotone and within its bound
(clock); one leader eventually, ballots never reused (BLE); cache equal to the
store, decided at most accepted (storage); nothing after a stop sign
(reconfiguration); snapshot equal to replay (key-value snapshot).

## 2. How the modules are built on each other

| Abstract | Detailed | Shown by |
|---|---|---|
| `ReplicatedDatabase`: one log of commands, executed and answered | `KVServer` on `SequencePaxos` on `FastQuorum` | refinement `IsReplicatedDatabase` (TLC) |
| `PhysicalClock`: monotone readings with honest uncertainty | `SimClock`; `DeadlineMulticast` uses the contract, with `OwdEstimator` | refinement, proved |
| one log (`SameLog`) | `MemoryStorage` and `PersistentStorage`, side by side in `LogStorage` (with `KVSnapshot`), driven by `LogReplication` | `BackEndsAgree`, proved |
| one sequence of messages per follower | `Session`: outgoing buffers, losses, retries, stop signs | `SessionKeepsOrder`, proved |
| one leader with a rising ballot | `BallotLeaderElection` | invariants, proved, and liveness |

The core was done first, then the clocks, the multicast and the election, then the
storage, and last what surrounds the core: the server, the back ends, flexible
quorums and the session between leader and follower. The proofs followed in the same
order. What remains of the plan:

1. batches together with the fast path;
2. a proof of the server's refinement without the fast path, step by step.

## 3. The model of the core

`SequencePaxos.tla` (with `FastQuorum.tla` for the arithmetic) has one action
per handler, user call, timer and failure.

| Variable | Code |
|---|---|
| `store[s]` | what survives a crash: promise, accepted round, decided index, log (`InternalStorage`) |
| `state[s]` | `state`, `current_seq_num`, `cached_promise_message` |
| `fast[s]` | `unsynced_log`, `accepted_prefix_hash`, `unsynced_hash` |
| `lead[s]` | `LeaderState` |
| `dom[s]` | `EarlyBuffer` |
| `net[s][t]` | the TCP connection from `s` to `t`: FIFO, until a message is lost |
| `submitted`, `faults` | entries appended so far; counters for the bounds |

| Actions | Code |
|---|---|
| `AppendWithId`, `ReceiveDomPropose` | `append_with_id`, `send_dom_propose`, `handle_dom_propose` |
| `ReleaseAtLeader`, `ReleaseAtFollower`, `ReleaseNothing` | `release_requests`, `handle_dom_release`, `accept_entry_leader`, `send_acceptdecide`, `try_fast_decide_idx` |
| `BecomeLeader`, `BecomeFollower` | `handle_leader`, `become_follower` |
| `ReceivePrepare`, `ReceivePromise` (`HandleMajorityPromises`), `ReceiveLatePromise` | `handle_prepare`, `handle_promise_prepare`, `handle_majority_promises`, `handle_promise_accept`, `send_accsync` |
| `ReceiveAcceptSync`, `ReceiveAcceptDecide`, `ReceiveDecide` | `handle_acceptsync`, `handle_acceptdecide` with its clean-up and rebuild, `handle_decide` |
| `ReceiveAccepted`, `ReceiveFastAccepted` | `handle_accepted`, `handle_fast_accepted`, `send_decide` |
| `ReceivePrepareReq`, `ReceiveNotAccepted`, `RejectOldBallot`, `DetectDropped`, `Reconnected` | `handle_preparereq`, `handle_notaccepted`, `check_valid_ballot`, `handle_sequence_num`, `reconnected` |
| `ResendAtLeader`, `ResendPromise`, `ResendPrepareReq` | `resend_message_timeout` |
| `CrashRestart`, `Lose` | `SequencePaxos::with` on the old storage (`Restart`); a broken connection |
| `CrashInRecovery` | the same, on what `handle_majority_promises` leaves after `sync_log` and some of its appends |
| `Ignore` | every early return of `handle` |

Abstractions, and why they keep what the properties speak of:

- *Hashes.* A proposal, its buffer key and its `DOMHash` are the pair
  (deadline, id). The hash of a prefix is the XOR of its entries' hashes, here
  the set of the entries that occur an odd number of times: a prefix hash says
  nothing of the order, as in the code. Hash collisions are left out.
- *Clocks* (modelled by themselves, section 4). In the core, clock readings,
  uncertainty, delays and `DomAck` only influence which deadline a proposal gets and when it is released. Deadlines are
  arbitrary numbers up to `MaxDeadline` and the earliest buffered proposal may
  be released at any time: every behaviour of every clock, the wrong ones
  included. Releasing several ready proposals in one poll is a sequence of
  single releases. `Extensions` are the steps by which `extend_deadline` moves
  a late proposal behind the last released deadline.
- *Batches and buffers.* `batch_size` is 1 (the default of `ServerConfig`), and
  outgoing messages are taken after every call. `LogReplication` has batches,
  `Session` has the merging of messages in the outgoing buffer.
- *Quorums.* `Quorum` is any pair of sizes that `ClusterConfig::validate` accepts
  (`QuorumAssumption`), majorities in the runs.
- *Not in this module.* Stop signs (`Session`, `LogReplication`), trim and
  snapshots (`LogReplication`).
- *Atomicity.* A handler is one step, and its storage writes are durable when it
  returns. The handler that a crash may interrupt between two writes is
  `handle_majority_promises`, which appends entry by entry; the writes of
  `handle_acceptdecide` are split in `LogReplication`.
- *Network.* Messages to oneself go nowhere, as in `send_to_cluster`. A crash
  loses everything under way to the server.
- *Choice.* `HashMap` order in the re-proposals of a new leader is any order.
  `Recovered` states the result of the recovery loop (the longest run with one
  winner per index and no repeated id) in place of the loop.

Two constants say how well behaved the environment is: `Timely` (a proposal is
in every buffer before its deadline, which lies after everything released so
far) and `UniqueDeadlines` (no proposal takes the deadline of a buffered one).
With both the fast path does what its design intends; without them the
deadlines mean nothing and only the slow path's guarantees remain.

### The server on top of the core

`KVServer` extends `SequencePaxos` with the event loop of `server.rs`: each arm
is an action that calls the core and, where the code does, hands what is decided
to the database.

| Variable | Code |
|---|---|
| `kv[s]` | `current_decided_idx`, `Database`, the replies sent to clients |
| `applied` | history: the commands `s` has executed |

| Actions | Code |
|---|---|
| `ClientAppend`, `Poll`, `Tick` | `handle_client_messages`; the arms of `poll_timeout` and `election_interval`: none applies anything |
| `ClusterMessage`, `HeartbeatMessage` | `handle_cluster_messages` message by message, with `handle_decided_entries` and `update_database_and_respond` after each |

`ReplicatedDatabase` is what the clients may rely on: one log, which every server
executes a prefix of, and replies that follow from the log. `KVServer` implements
it with `log <-` the longest list of applied commands (`AppliedLog`); that the lists of
the others are prefixes of it is part of what is checked. What `database.rs`
returns for a read is compared with a definition that looks for the last write in
the log. Servers of the benchmark keep everything in memory, so these runs have no
crashes. Clients and the start-up phase (`establish_initial_leader`, which makes
one server try to lead) are the environment: anyone may be elected at any time.

## 4. The model of the clocks and of the multicast

`PhysicalClock` is the contract of the trait of that name: readings are
monotone, and a reading given with an uncertainty is within it of true time.
`SimClock` is the benchmark's clock, one action per read function and one for
time passing; `now` is true time, the other variables are the fields of
`ClockState` (`last_sim_us` and `last_sim_time` are always equal and are one
variable). The loop that catches up with missed synchronisations is stated by
its result (`Synced`). `Physical!ClockSpec` with `trueTime <- lastTrue` and
`reading <- lastSim` is a property of the run and a theorem. The clock is used
by one thread, so reading `Instant::now` and taking the lock are one step; with
several readers a later reading could be computed from an earlier instant.

`DeadlineMulticast` is `dom/` as seen by all servers together. `trueTime` is what
no server knows; `Readings` are the readings the contract allows, without
monotonicity, which `SystemClock` does not have. A handler takes no time.

| Variable | Code |
|---|---|
| `early`, `lastReleased` | `EarlyBuffer` of each server |
| `incoming`, `outgoing` | `OwdEstimator` windows by sender, `OutgoingOwdTracker` |
| `network` | `DomPropose` and `DomAck` under way, delivered in any order, or never |
| `proposed`, `released`, `late`, `gone` | history, for the properties |
| `panicked` | servers at which `expect("proposal cannot be late")` failed |

| Actions | Code |
|---|---|
| `AppendWithId` | `append_with_id`, `create_dom_propose`, `send_dom_propose`, the own ack |
| `ReceiveDomPropose`, `ReceiveDomAck` | `handle_dom_propose` with `extend_deadline` at a leader, `handle_dom_ack` |
| `ReleaseReady` | `release_ready` with `pop_ready`: one reading, every ready proposal |
| `RemoveFromBuffers`, `Restart`, `Pass` | `remove_from_buffers`; `Dom::new` after a crash; time |

Roles are arbitrary: any server may handle a proposal as leader. `OwdEstimator`
has the sliding window and the three strategies; percentiles are in per cent.

The link to the core: `NothingSkipped` says when buffers may disagree (only
about proposals that were late in true time), which is what the core's `Timely`
abbreviates; `ReleasedInOrder` is why `SequencePaxos` may release the earliest
proposal at any time and never anything else.

### The model of the election

`BallotLeaderElection` has every server's heartbeat rounds and, of Sequence
Paxos, the promise: `hb_timeout` reads it, `handle_leader` writes it.

| Variable | Code |
|---|---|
| `ble[s]` | `current_ballot`, `leader`, `happy` |
| `replies[s]` | `heartbeat_replies` of the present round |
| `promise[s]` | `get_promise()` |
| `links` | which servers are connected |
| `retired`, `events` | history: the promise at the last restart; counter for the bound |

`Heartbeat(s, t)` is a request of `s` answered by `t` and taken in by `s`: what a
reply says is fixed when it is sent, and replies of earlier rounds are dropped
(`handle_reply`). `HbTimeout` is `election_timeout`: `update_leader`,
`update_happiness`, `check_takeover`, the new round, the synchronisation with
the promise, and `handle_leader` when the server leads. `TryBecomeLeader`,
`SetPriority` and `Restart` are the user's calls and a crash, `PromiseLeader` is
a `Prepare` that arrives, `ChangeLinks` changes any connections in either
direction at once. The core needs nothing of all this for its safety: in
`SequencePaxos` any server may be handed any larger ballot at any time.

### The model of the storage

`KVSnapshot` has `create` and `merge` of the benchmark's snapshot, and `Replay`,
what the commands mean. `Command` derives `Entry` without `#[snapshot(KVSnapshot)]`
(`common.rs:55`), so the macro gives it `NoSnapshot` (`omnipaxos_macros/src/lib.rs:219`)
and the benchmark's server uses no snapshots: `KVSnapshot` stands here for the
snapshot of an application that names one, which the storage is built for. `LogStorage` is `InternalStorage` over a back end: a
storage is a record of `disk` (what the back end keeps) and `cache` (the state
cache with the batch), and every function of the code is an operator from
storages to storages, so `sync_log` and the rest compose as in the code.

`MemoryStorage` and `PersistentStorage` are the two back ends, one module each
with the functions of the trait `Storage` that touch the log: a vector and
`trimmed_idx` in one, keys, `next_log_key` and the compacted index in the other,
where trimming and overwriting delete ranges of keys and `Open` finds the next key
again. `disk` holds both side by side: every write goes to both, `MemoryStorage`
answers the reads, and `BackEndsAgree` (with `SameLog` of `BackEnds`) says that
the other one would give the same answers. The remaining fields (rounds, decided
index, snapshot, stop sign) are one value under one key in both and are kept once.

`LogReplication` drives a leader's and a follower's storage:

| Variable | Code |
|---|---|
| `store[s]` | `InternalStorage` with its back end |
| `phase`, `promise`, `channel` | the follower's phase, its `Promise`, the leader's messages since `AcceptSync` |
| `acked`, `trimmed` | the leader's `accepted_indexes` of the follower; `Compaction::Trim` messages |
| `useSnapshots` | `T::Snapshot::use_snapshots()` |
| `logs`, `byDelta`, `sessions` | history: what the storages stand for; whether a delta was merged; counter for the bound |

| Actions | Code |
|---|---|
| `LeaderAppend`, `FlushLeader`, `LeaderStopSign`, `LeaderDecide` | `accept_entry_leader`, `flush_batch_leader`, `accept_stopsign_leader`, `handle_accepted` |
| `SendAcceptSync`, `ReceiveAcceptSync` | `send_accsync` with `create_log_sync`; `handle_acceptsync` with `sync_log` |
| `ReceiveAcceptDecide`, `ReceiveDecide`, `ReceiveAcceptStopSign`, `FlushFollower` | the follower's handlers with their batch |
| `ReceivePrepare`, `Crash` | `handle_prepare` (first or after a reconnection); restart on the same back end |
| `CrashInAcceptDecide` | a crash between the writes of `handle_acceptdecide`: the entries are appended, perhaps flushed, the decided index is not written |
| `OldAppend`, `OldStopSign`, `OldDecide` | the same handlers under an earlier leader |
| `Trim`, `ForwardedTrim`, `Snapshot` | `trim`, `handle_compaction`, `snapshot` |

There is one leader, which is never replaced, and the rest of the cluster is what
lets it decide: any index it has accepted may become decided, and an earlier
leader may have decided what the leader's log has. The entries a follower has
from an earlier leader are never taken as valid beyond its decided index (the
code also trusts those of the leader's own last round). A `Decide` merged into a
waiting `AcceptDecide` is two messages here. `trim` is used without snapshots and
`snapshot` with them. `StopSignCases` names what the passing run leaves out around
a stop sign.

### The model of a session

`Session` is the traffic between one leader and its followers during its reign,
with what `SequencePaxos` leaves out: the buffers of outgoing messages in which
later entries, decided indexes and accepted indexes are merged into messages that
still wait, lost messages of every kind, the retries, and the stop sign.

| Variable | Code |
|---|---|
| `lead` | the leader's phase, log and `LeaderState`: promises, sequence numbers, accepted indexes, `latest_accept_meta` |
| `foll[f]` | the follower's phase, log, decided index, `current_seq_num`, `cached_promise_message`, `latest_accepted_meta` |
| `out[f]`, `reply[f]` | `outgoing` of the leader, by receiver, and of the follower |
| `down[f]`, `up[f]` | connections, FIFO |
| `buffered` | `buffered_stopsign` |
| `count` | counters for the bounds |

| Actions | Code |
|---|---|
| `AppendEntry`, `Reconfigure` | `accept_entry_leader` with `send_acceptdecide`; `reconfigure` and `forward_stopsign` of any server's user |
| `ReceiveForwardStopSign`, `ReceivePrepareReq`, `ReceivePromiseInPrepare`, `ReceivePromiseInAccept`, `ReceiveAccepted` | the leader's handlers with `send_accsync`, `accept_stopsign_leader`, `send_decide` |
| `ReceivePrepare`, `ReceiveAcceptSync`, `ReceiveAcceptDecide`, `ReceiveAcceptStopSign`, `ReceiveDecide` | the follower's handlers with `handle_sequence_num` and `reply_accepted` |
| `TakeAtLeader`, `TakeAtFollower` | `take_outgoing_msgs` |
| `ResendAtLeader`, `ResendAtFollower`, `UserReconnected`, `Lose` | `resend_message_timeout`, `reconnected`, a broken connection |

The leader is elected at the start and stays; its own log is the most recent one,
so entries are just numbered. `outgoing` is one vector in the code and its indexes
are stable, so one sequence per receiver loses nothing.

## 5. What is checked

`MCSequencePaxos.tla` gives the owners of the ballots and the view `LiveView`, which
identifies states that differ only in data no later step and no property reads
(answers to a ballot the addressee no longer leads; the logs a leader collected
while preparing; the buffer of a server that will not lead, when the fast path
is off). `fast_path`, with a liveness property, does not use it; `slow_path`
adds what the servers have applied and answered (`KVView`).

| Run | Instance | Shows |
|---|---|---|
| `fast_path` | the server on 3 servers with quorums of 3 and 2, 1 ballot, a write and a read, timely, fairness | `UnsyncedExtendsLog`, liveness `EntriesAnswered`, refinement `IsReplicatedDatabase` |
| `slow_path` | the server on 3 servers without the fast path, 2 ballots of different owners, a write and a read, at most 4 messages under way | `DecidedAgree`, `LeaderHoldsDecided`, `FollowerLogIsPrefix`, `DecidedIsAccepted`, `LogSyncFits`, refinement `IsReplicatedDatabase` |
| `failover` | 3 servers with the fast path, 2 ballots, 1 entry, untimely, at most 5 messages under way | `LeaderHoldsDecided`, `EveryQuorumRecovers` |
| `recovery` | 2 servers, 2 ballots, 1 entry, one crash of either, between handlers or in `handle_majority_promises`, one loss, one resend, one reconnection, at most 3 messages under way | type and ballots, `AcceptedIsHeld`, `SessionCarriesLog`, `LeaderMessagesPromised`, `LogSyncFits`, `PromiseKept`, `DecidedStable` |
| `sim_clock` | 5 drifts, period 4, uncertainty 2, true time up to 24 in steps of 1, 3 and 9 | `ReadingInRange`, `ReadingIsStable`, `SyncOnSchedule`, refinement `IsPhysicalClock` |
| `deadline_multicast` | 2 servers, 2 proposals of one of them, uncertainty 1, `max_owd` 3, true time 0 to 3: estimates of 2, of 3 and beyond the cap | `ReleasedInOrder`, `NotBeforeDeadline`, `NothingSkipped`, `ExtendedIsNeverLate`, `DeadlineWithinMaxOwd` |
| `election` | 3 servers, synchronous rounds, fairness, one event: a change of any connections, restart or claim of the leader or of a follower, another priority of a follower | `LeaderEmerges`, `LeaderOnlyRises`, `NoRetainedLeadership` |
| `log_storage` | leader and follower, with and without snapshots, batches of 2, logs up to 3 commands and a stop sign, one entry of an earlier leader, 2 synchronisations, at most 3 messages under way | `CacheIsStore`, `StoreHoldsLog`, `FollowerHoldsPrefix`, `SnapshotIsReplay`, `ReadsAreComplete`, `BackEndsAgree` |
| `session` | leader and follower, 2 entries, a stop sign of either, 1 lost message, 1 eager resend timeout or reconnection, fairness | `SessionKeepsOrder`, `DecidedIsHeld`, liveness `StopSignDecided` |
| `resync` | 3 servers, 1 entry, one reconnection | violated: `EveryQuorumRecovers` |
| `stop_sign` | the same, synchronised with a stop sign it has | violated: `CacheIsStore` |
| `delta` | the same, with snapshots | violated: `DeltaCompletesSnapshot` |

The properties, in the order of what they are worth:

- `EveryQuorumRecovers` is the heart of the fast path: at any moment, for any
  read quorum, the log that `handle_majority_promises` would build from that
  quorum's present logs and unsynced logs begins with everything anyone has
  decided. It is stated on states and not on an actual election, so it also
  covers changes of leader beyond the second ballot of the run.
- `DecidedAgree`, `LeaderHoldsDecided` and `DecidedStable` are agreement,
  leader completeness and stability. `FollowerLogIsPrefix` and
  `AcceptedIsHeld` are the leader's picture of its followers.
- `SessionCarriesLog` says why sequence numbers suffice: who has seen the last
  number has the whole log.
- `DecidedIsAccepted` is what lets the server unwrap `read_decided_suffix`
  (`server.rs:251`), which is `None` for a decided index beyond the log.
- `LogSyncFits` is the assumption `sync_log` makes when it computes the cached
  accepted index from the message alone.
- `PromiseKept` and `LeaderMessagesPromised` are the ballots' discipline.
- `UnsyncedExtendsLog` keeps index, prefix hash and unsynced hash in step.
- `IsReplicatedDatabase` is the promise to the clients: whatever the leaders do,
  all servers execute one log, and a reply says what the log before the command
  made of the database.
- `EntriesAnswered` is progress: every command is executed everywhere and its
  client is answered. The leader may decide an entry in `poll`, which applies
  nothing, so it rests on further messages. Fairness (`KVFairSpec`): every
  connection delivers, heartbeats keep coming, every poll finally passes a
  deadline, elections end (there is one ballot). Nothing is lost and nobody crashes: a lost
  `DomPropose` is never sent again, so the code promises nothing then.

- `NothingSkipped` is what the fast path needs of the multicast: where one
  server has released a proposal and another has moved past it, the other had
  no chance of releasing it. `ReleasedInOrder` gives the common order,
  `NotBeforeDeadline` the conservative use of the uncertainty,
  `ExtendedIsNeverLate` that an `expect` holds, `DeadlineWithinMaxOwd` that no
  measurement can postpone a proposal beyond `max_owd`.
- `IsPhysicalClock` is what the multicast needs of the clock.
- `LeaderEmerges` is what the election is for: once the connections settle and
  some server reaches a majority, one such server leads in its own eyes and for
  Sequence Paxos, for good, even if it is the only one and the old leader is
  alive behind broken connections. `LeaderOnlyRises` relates the leader a server
  follows before and after every step, `NoRetainedLeadership` is the comment in
  `BallotLeaderElection::with`. Fairness (`FairSpec`): at every server timers go
  on and connected peers are heard from. `PromiseLeader` has none: an election
  does not depend on the progress of Sequence Paxos.

- `CacheIsStore` and `StoreHoldsLog` say that cache and back end are the same log,
  whatever was batched, trimmed, snapshotted, synchronised or lost in a crash in
  between; `FollowerHoldsPrefix` that batches, stop sign and decided index keep
  the leader's order; `SnapshotIsReplay` that a compacted prefix is represented
  by its effect; `BackEndsAgree` that the database of keys is the vector, also after it was opened again; `ReadsAreComplete` that a read of any range shows it.

- `SessionKeepsOrder` is why sequence numbers, sessions and merging work together:
  a follower never has anything but a prefix of the leader's log, stop sign
  included. `DecidedIsHeld` adds that what is decided a write quorum really
  has, and that the leader decides nothing beyond its log, except where a follower has
  counted its stop sign twice (the `stop_sign` finding below; `again` remembers it). `StopSignDecided` is the comment of `resend_message_timeout`
  (`mod.rs:354-356`): what is lost of what leads to a decided stop sign is detected
  and sent again. It excepts followers that hit the `stop_sign` finding
  below. Fairness (`FairSpec`): messages that are not lost are delivered and
  handled, outgoing messages are taken (both weak), and the resend timers go
  off again and again while nothing is under way (strong: a timer is not
  always enabled in between).

Bounds of the session. One follower suffices for the order of one link, since the
links meet only in the decided index; two followers with one entry (38 thousand
states, safety) give the same result. Two entries are an entry that is merged and one
that is sent by itself, or both merged, around a stop sign. `Losable` is
everything that `resend_message_timeout` or a gap in the sequence numbers is there
for; a lost `Accepted` or `ForwardStopSign` is never sent again by the code.
`MaxEager` is one timeout while messages are under way, or one `reconnected`.

Bounds of the storage. Three commands (a put and a deletion of one key) give a
compacted entry, a decided one and an undecided one at the same time, a full and
a half-full batch of two, and a deletion before, in and after a snapshot. Two
synchronisations give one from any earlier state and one within the session, and
a crash between them, or within a handler. All three commands of `Put(1, 1), Put(1, 2), Delete(1)`
(2.2 million states) give the same result. The follower is at most three messages
behind (`ShortChannel`): a batch, a stop sign and a decision; without that limit
(650 thousand states) the result is the same.

Bounds of the election. `Synchronous` lets a round end only when every connected
peer has answered, which is what a timeout well above the round trip gives;
without it no timeout-based election terminates. Rounds of different servers
interleave in every way. The event strikes in every reachable state, during the
first election or after it. Ballot numbers stay below 3, so `MaxBallot` (3) cuts
nothing off. Servers 1 and 2 differ only as pids below the first leader's, so the
leader and one follower stand for all; likewise servers 2 and 3 are the ones that
may promise another's ballot (610 thousand states when all may, with the same
result). Two changes of connections in a row
(1.1 million states, not kept as a run) give the same result.

Bounds of the clocks and the multicast. `sim_clock` drifts by up to a tick per
tick, so that a clock leaves its uncertainty within a period, and the step of 9
skips two synchronisations. In `deadline_multicast` two proposals suffice for a
release out of order, a tie of deadlines and an extension behind a released
proposal; both come from one server (`Proposers`), their readings, delays and
arrival at either buffer are free, and `Times` (0 to 3) covers a deadline, the
uncertainty on either side of it and a proposal that arrives after it. With an
uncertainty of 1 at each end the margin is 2, so a `max_owd` of 3 lets a measured delay
be used as it is (2), reach the cap (3) and pass it. A run without the margin
(`Beta` = 0) and a `max_owd` of 2 (1.8 million states) gives the same result.

Bounds of the core. One entry is enough for a fast and a slow decision of one index to
compete across two ballots (`failover`); two are needed for order, prefix hashes,
the tail of the unsynced log (`fast_path`) and for logs that can
disagree at all (`slow_path`: a follower that dropped the first proposal leads
and appends the second at its index). Two ballots with different owners give one
complete change of leader; three servers are the smallest cluster with a
majority that misses someone; for other sizes of the cluster and of the quorums
there are the theorems about quorums in `SequencePaxosProofs`. `fast_path` has a flexible quorum
(all three promise, two accept), so that a promise may also fall short of the
read quorum, which with a majority of three it never does. `slow_path` with
flexible quorums of 3 and 2, and of 3 and 3, out of three (67 and 41 thousand
states) gives the same result, and so does the core with two timely entries and
one ballot under a majority, with `EveryQuorumRecovers` as well (75 thousand
states). One fault of each kind reaches every recovery action. To keep every
run under a minute, three runs leave out states with more messages under way
than `AtMost3`, `AtMost4` or `AtMost5` says. In `slow_path` the limit of 4 is two
messages to each of two followers, or a whole exchange of the old leader
crossing one of the new; in `failover` 5 adds a vote; in `recovery`, with one
connection, 3 is a message behind two others. The larger instances give the same
result: `slow_path` with up to two messages in each channel (650 thousand
states), `failover` (370 thousand) and `recovery` (960 thousand) without any
limit. Four servers with two entries or
two ballots were beyond what TLC finishes in minutes; two entries on the fast
path across two ballots violate `EveryQuorumRecovers` (below).

### Findings

1. `resync`: `handle_acceptsync` clears the unsynced log "as they are now
   included in the log sync" (`follower.rs:77`). In a resynchronisation within
   a ballot they are not: the leader ignores the unsynced log of a late promise.
   The follower's vote is still counted, the entry is decided, and a majority
   of servers can no longer rebuild it.
2. `stop_sign`: the accepted index of a follower with a stop sign counts the stop
   sign, `send_accsync` takes it for a common prefix, and `sync_log` counts the
   stop sign again (`internal_storage.rs:345-350`). A reconnection in the same
   ballot is enough. The follower acknowledges an index beyond the log; two such
   followers of three let the leader decide it, and then no server takes the stop
   sign for decided (`decided_idx == accepted_idx` fails at the leader).
3. `delta`: `sync_log` sets the cached decided index to the leader's
   (`internal_storage.rs:322`) before it makes the base of a delta from "its"
   decided entries (`:337`). `get_entries` is asked for more than the log has and
   returns nothing, so entries that were decided, not compacted and not in the
   delta are lost from the snapshot.

Seen under other bounds, and left out of the passing runs by named constants and
definitions, or by the property's condition:

- Two entries with **equal deadlines** (`UniqueDeadlines = FALSE`):
  `EveryQuorumRecovers` fails even for timely proposals. `AcceptDecide` cuts
  the unsynced tail by deadline alone (`follower.rs:142`) while buffers order
  by (deadline, id).
- Two **untimely** entries: it fails because `set_accepted_map` keeps the hashes of
  whoever votes first for an index, "the leader's candidate" (`util.rs:106`,
  `util.rs:452`, `leader.rs:185`). An early vote of a follower for another entry
  becomes the candidate and the leader is counted for it.
- No entry twice in a log is not an invariant: entries adopted through `sync_log`
  stay in the new leader's buffer and are appended again, as the comments say
  (`leader.rs:407-414`, `buffer.rs:80`). The server then executes the command
  twice and answers its client twice. `IsReplicatedDatabase` holds, since both are
  in the log. On the fast path it meets the candidate above: with two timely entries
  and two ballots the followers' votes for the second entry make it the candidate of
  the index where the new leader repeats the first, the leader is counted for it, and
  `EveryQuorumRecovers` fails.
- One **crash** in a fast quorum: it fails because the unsynced log is only in
  memory (`mod.rs:113-118`).
- `src/README.md:34` gives the fast quorum as `f + floor(f/2) + 1`; the code
  uses `f + ceil(f/2) + 1`. The mutant `DocumentedFastQuorumSize` shows the
  documented size to be unsafe; `FastQuorumRecoverable` proves the code's.
  With two servers the fast quorum is three and the fast path never decides.
- A second `PrepareReq`, handled after its sender is back in the Accept phase,
  resets the promise (`leader.rs:76`) and the follower ignores the `Prepare`
  (`follower.rs:16`): it gets nothing more in this ballot. `Session` with
  `MaxEager = 2` (a reconnection and a `Prepare` sent again early, 1.2 million
  states) and one lost `Promise` gets there although messages arrive in order, and
  `StopSignDecided` fails, against the comment of `resend_message_timeout`
  (`mod.rs:354`).
- A `Promise` sent again that is handled while an `AcceptDecide` to its sender waits in
  outgoing (`TakenBeforePromise = FALSE` in `Session`): `send_accsync` does not
  reset `latest_accept_meta`, so a later entry is merged into the `AcceptDecide`
  of the old session, in front of the `AcceptSync` (`leader.rs:258-291`). If an
  earlier `AcceptSync` was lost, the follower ignores that message, misses the
  entry and puts the next one at its index: `SessionKeepsOrder` fails. The
  benchmark's server takes the outgoing messages after every arm of its loop and
  releases nothing within a batch of received messages; an application that
  takes them on a timer of its own is exposed.
- "Shouldn't be possible" at `follower.rs:310` is possible: a leader deposed in
  its prepare phase is (Follower, Prepare) without a cached promise. Harmless.
- The decided index of a server that promises late may fall when it applies
  `AcceptSync`, and entries below it may be rewritten, by the same entries
  (`DecidedStable` holds).

- Entries released **behind an accepted stop sign** (`"append"` in
  `StopSignCases`): `handle_dom_release` and `poll` look for a decided stop sign
  only, so what the buffer held is appended, and `FollowerHoldsPrefix` fails: the
  stop sign is last by definition, and the index that the others acknowledged for
  it now belongs to an entry.
- `KVSnapshot::create` drops a deletion when its range also puts the key
  (`common.rs:82`): put in the snapshot, put and deleted in the delta, the key
  comes back. `SnapshotIsReplay` excepts these keys (`HiddenDeletions`). The benchmark
  never meets this, as no entry type of it names `KVSnapshot`.
- "Note that changing the priority triggers a leader re-election"
  (`ballot_leader_election.rs:153`): it changes the own ballot only. If that
  ballot becomes larger than the leader's, the others follow it, while its owner
  compares *replies* with its leader and never its own ballot: it stays a happy
  follower of a server that is not leader any more. Nobody is elected until a
  server stops answering. `LeaderEmerges` excludes behaviours in which a priority
  is changed (`PrioritiesKept`).

- A fast simulated clock that is read often is hardly set back by a
  synchronisation: `resync_at` sets the offset to zero, but the next read clamps
  to the last reading, for monotony, and adds the difference to the offset again
  (`clock.rs:191-203`). It loses only the time since the read before and then
  drifts on, so it stays near its upper bound. `IsPhysicalClock` holds all the same.
- After a server's own acknowledgement `get_max_owd` covers no peer until the
  peers' acknowledgements arrive (`owd_estimator.rs:254`): deadlines are then
  too early. `ONE_MICRO_SECOND` is 1000, a microsecond for `SystemClock`'s
  nanoseconds and a millisecond for the simulated clock's microseconds.

Each property of a passing run has a mutant in `PROJECT.json`: a plausible bug
(the operators with "Mutant of" in their comment), under which TLC finds the
property violated. The mutants are in the modules next to what they change and
no behaviour uses them.

## 6. What is proved

For every set of servers, number of ballots and entries, owner of ballots and
bound on failures. The assumptions are `ServerAssumption` (a finite set that
does not contain 0), `BallotAssumption`, `EntryAssumption` and
`BoundAssumption`, which TLC evaluates in every run.

- `SequencePaxosProofs`, quorums: for every cluster size and every quorum sizes that
  `ClusterConfig::validate` lets pass (majorities among them, `MajorityIsValid`).
  From the cardinality of an overlap (`Overlap`), promises and accepts intersect
  (`QuorumsIntersect`); a read quorum is at least a majority
  (`ReadQuorumIsMajority`), which is why it keeps the recovery threshold of any
  fast quorum (`FastQuorumRecoverable`) although `validate` knows nothing of the
  fast path; nobody outside a fast quorum can reach the threshold
  (`FastDecisionHasNoRival`); among the promises of a bare majority no two
  entries of one index reach it (`RecoveryIsUnique`).
- `SequencePaxosProofs`, types and promises: `TypeCorrect == Spec => []TypeOK`, with one lemma per
  operator on the leader's state, the buffer, the network and the unsynced log,
  and one per action. `TypeOK` carries the order of the ballots (`BallotsOrdered`),
  because the pid of the leader's ballot is what its messages are sent to. Then
  `BallotInv` is the inductive strengthening for the promises: everything that
  speaks of a server's promise (a promise recorded at
  a leader, a cached promise, a `Promise` or a leader's message under way)
  names a ballot that the server has really promised, and a server in the
  Accept phase has a log of the ballot it promised. With it
  `LeaderMessagesArePromised` (`Spec => []LeaderMessagesPromised`, so the
  "Should never happen" branch of `check_valid_ballot` is never reached) and
  `PromisesAreKept` (`Spec => PromiseKept`) follow: a new `AcceptSync` goes only
  to recorded promisers, and promises never decrease. The step is proved once
  for "promises only grow and new messages respect them" (`BallotStep`) and
  then action by action. These theorems hold with and without the fast path.
- `SequencePaxosHistory` and `SequencePaxosAgreement`: agreement without the fast
  path, for every set of servers, valid quorum, number of ballots, entries, crashes
  (also between the writes of `handle_majority_promises`), restarts, lost messages
  and reconnections. Next section.

### Agreement on the slow path

The hypothesis is `~EnableFastPath`, a setting of `ClusterConfig`. With the fast path
`EveryQuorumRecovers`, on which the other properties rest, is violated (see the
findings). So the theorems generalise the run `slow_path`, and say of the other runs'
properties what holds without the fast path; with it they stay with TLC.

The servers do not keep what the argument is about: the log that each ballot's
leader has had, how much of it each server has ever accepted, and which length a
sequence number stands for. Instead of adding history variables to the
specification, the invariant says that a suitable record exists:

    AgreementInv == BallotInv /\ NoUnsynced /\ \E h \in History : Fits(h)

`h.started` is the set of ballots with a log, `h.base[b]` the length that the leader
of `b` adopted, `h.log[b]` its log so far, `h.voted[t][b]` how many entries of it `t`
holds or held, `h.top[f][b][q]` the length of the log when the message numbered `q`
went to `f`. `Fits(h)` has four parts:

- `HistoryOK`: the record is consistent with itself and with the promises;
- `Safe`: whatever a write quorum has accepted in a ballot, or may still accept
  because its promises allow it (`Choosable`), is in what every later ballot adopted.
  This is what makes the invariant inductive: "accepted by a quorum" alone
  says nothing about a message that is still under way when a new leader starts;
- `ServersFit`: each log is a part of the log of its ballot, whatever is decided was
  accepted by a write quorum in some ballot (`DecidedBy`), a leader in the prepare phase
  knows the latest log of each promiser (`Known`), and a follower's sequence number
  stands for exactly the entries it holds;
- `ChannelsFit`: each message carries what the record says, an `AcceptSync` fits
  the log of the server it goes to, and the messages of one leader are in order.

`NoUnsynced` says that without the fast path no server, leader or message has
unsynced entries. Every step of `Next` leads from a record that fits to one that
fits and extends it (`NextFits`): most steps keep the record (`SameHistoryFits`),
the leader's append and a follower's accepts extend a ballot, and the majority of
promises starts one. There a read quorum meets every write quorum
(`QuorumsIntersect`), the member of both is no more up to
date than the promise the leader adopted, and that promise holds what was choosable.

From the invariant: `Agreement` (`DecidedAgree`), `DecisionsAreHeld`
(`DecidedIsAccepted`), `LeadersAreComplete` (`LeaderHoldsDecided`),
`FollowersHoldPrefixes` (`FollowerLogIsPrefix`), `AcceptedEntriesAreHeld`
(`AcceptedIsHeld`), `SequenceNumbersCarryTheLog` (`SessionCarriesLog`), `LogSyncsFit`
(`LogSyncFits`), `QuorumsRecover` (`EveryQuorumRecovers`), and from the steps
`DecisionsAreStable` (`DecidedStable`).

### The session

`SessionProofs`: for any followers, valid quorum, bounds, lost messages and retries,
`OrderHolds` (`SessionKeepsOrder`) and `DecidedHolds` (`DecidedIsHeld`). Both have the
hypothesis `TakenBeforePromise`, which the benchmark's server justifies and without
which `SessionKeepsOrder` is violated (see the findings).

No server keeps which length of the log a sequence number stands for. `SessionInv`
says of every link that a map `top` from numbers to lengths of the leader's log exists:

- `TopOK`: it grows with the numbers, and the leader's last number stands for its
  whole log;
- `InStep`: a follower in its session has just the entries its own number stands for;
- `MsgFits`, `InOrder`: every message, on the connection or still in `outgoing`,
  carries the entries between the number before and its own, or in an `AcceptSync` those
  behind what the follower holds; numbers do not decrease along the way, and once an
  `AcceptSync` has carried the stop sign later ones do;
- `MergeOK`: the `AcceptDecide` that later entries join is the last message and
  has the last number, until the stop sign follows. Here `TakenBeforePromise` is needed;
- `UpOK`: whatever a promise, an `Accepted` or the leader's `accepted_indexes` says a
  follower holds, it `Holds`, and it never holds less later; hence `DecidedOK`, a write
  quorum holds the decided index.

Each action changes one part of one link, or appends to all of them; `SessionHolds` has a
lemma for each. A message that the leader makes gives its number a length (`SentFresh`), and
an entry that is merged moves the length of the last number (`EntryMerged`).

### The other components

- `BallotLeaderElectionProofs`: for any servers, priorities, connections and timing.
  `ElectionInv` counts ballot numbers only, since a priority may change at any
  time: a server's own ballot has number 0 (recovered) or a larger one than its promise
  when it restarted, and so has a promise to itself that it does not follow yet.
  `LeadershipIsNotRetained` (`NoRetainedLeadership`) follows, and
  `LeadersOnlyRise` (`LeaderOnlyRises`) from the order of ballots.
- `SimClockProofs`: `ClockInvariant` and `ImplementsPhysicalClock` rest on
  `Clamped`: the reading kept as a lower bound was in the range of an earlier
  instant, so it is never above the upper bound of the present one. `ScheduleInv` adds
  `SynchronisedOnSchedule` (`SyncOnSchedule`), by the arithmetic of the catch-up loop
  (`WholePeriods`, `CaughtUp`), and `ReadingsAreStable` (`ReadingIsStable`).
- `DeadlineMulticastProofs`: for any servers, entries, delays, clocks within
  their uncertainty, losses and restarts. `MulticastInv` adds to the properties
  that buffered proposals come after the released ones (`BufferedLater`), that
  the key released last is past in true time (`LastIsPast`, hence whatever is
  late is late in true time, `LateInTrueTime`) and that every proposal is
  somewhere at every server (`AllPlaced`). Deadlines are integers by the bound
  `Times`; none of this depends on how delays are estimated. `DeadlinesAreNear`
  (`DeadlineWithinMaxOwd`) has an invariant of its own (`DelayInv`): every delay
  acknowledged or on its way is at most `MaxOwd`, whatever is in the windows.

- `LogReplicationProofs`, first the back ends: for all entries, lengths and indexes, every write keeps the
  vector and the keys the same log (`AppendKeepsSame`, `AppendOnPrefixKeepsSame`,
  `CompactionKeepsSame`, and `SnapshotKeepsSame` for the transaction of `sync_log`
  that trims beyond the end), both start so (`NewBackEnds`), reopening finds the
  next key (`OpenFindsNextKey`) and both give the same reads (`ReadsAgree`). The
  steps count the keys below an index (`KeysInOrder`), because the iterator of RocksDB
  goes from key to key.

### The storage

The second part of `LogReplicationProofs`: for any commands, batch size, bounds and
kinds of compaction, `CacheHolds` (`CacheIsStore`) and `BackEndsHold` (`BackEndsAgree`).
Both have the hypothesis `"again" \notin StopSignCases`: a follower that has the leader's
stop sign does not synchronise once more. Without it the code breaks `CacheIsStore` (run
`stop_sign`, see the findings). With it the leader may still release entries behind an
accepted stop sign (`"append"`).

A storage is `Sound` when it is made from one log: both back ends hold it
(`MemoryAt`, `RocksAt`), and the cached indexes count it and the stop sign (`Counts`).
Every operation of the storage leads from a sound one to a sound one (`FlushGrows`,
`AppendGrows`, `DecideGrows`, `UpdateGrows`, `StopGrows`, `OpenGrows`, `CompactShrinks`),
but `sync_log` only when what it writes fits: it trims beyond the end of the log, or
overwrites from an index that the log must reach. So the invariant `StorageInv` is about the
protocol, too:

- `SyncFits`: the `AcceptSync` under way starts behind what the follower compacted and
  decided, behind all it accepted if that is the leader's, and without a snapshot
  no further than its log goes;
- `LeaderOK`, `AckedOK`: the leader compacts with a snapshot, or what the follower has
  acknowledged and still holds; hence it has every entry behind the common prefix
  (`SuffixFits`, `SnapshotFits`);
- `PhaseOK`, `PromiseOK`: a promise under way is what the follower still has. A follower of an
  earlier round has compacted decided entries only. One of the leader's round may have: its
  decided index falls when a leader that decided less synchronises it.

`SoundStorage` and the lemmas before it only compute records: each function of the storage
is one equation between storages given by their parts (`StorageOf`).

The third part says which entries the storages hold: `StoreHolds` (`StoreHoldsLog`) and
`FollowerHolds` (`FollowerHoldsPrefix`). Both have two hypotheses. `StopSignCases = {}`
also excludes entries behind an accepted stop sign, with which the code breaks
`FollowerHoldsPrefix` (see the findings); this is how the run `log_storage` is set up.
`StopEntry \notin Commands` says that no command is the value that `Full` puts in a log
for the stop sign, which in the code is a field of its own. The theorems rest on
`StorageInv` and on a second invariant, `ContentsInv`, whose parts are

- `Tied`: a storage has the entries of its log behind the compacted index, each at its
  place; `Quiet`: nothing is batched behind a stop sign;
- `Agree`: up to the follower's decided index both logs have the same entries, and a stop
  sign at the same place; `Follows`: what a follower has in the leader's round, batched
  entries included, is how the leader's log starts;
- `SyncHas`: the `AcceptSync` under way has the leader's entries behind its index, and
  before that index the follower has them already. This needs what the leader takes for
  the common prefix of a promise to be common (`ValidCommon`);
- `Chain`: there are indexes along the messages under way such that each message takes the
  follower from one to the next and the last is all that the leader has flushed. Without it
  the entries of an `AcceptDecide` could land at an index that is not theirs.

Each operation of the storage extends the entries or leaves them (`AppendExtends`,
`FlushExtends`, `FieldsExtend`), or compacts or replaces them (`CompactTied`, `SyncTied`),
and one lemma per action puts them together (`LeaderAppends` to `AcceptsKeep`, `NextKeeps`).

The assumptions of these modules (`SessionAssumption`, `ReplicationAssumption`, `BatchAssumption`, `ConfigAssumption`,
`TimeAssumption`, `EstimatorAssumption`, `MulticastAssumption`, `NoKeyAssumption`) are what the
constructors assert or validate, and are evaluated by their runs.

Only model-checked: everything with the fast path beyond types and promises
(the properties of `fast_path`, `failover` and `recovery` about logs, and
`UnsyncedExtendsLog`); the server and its refinement `IsReplicatedDatabase`; the snapshots of the
storage and its reads (`SnapshotIsReplay`, a fold over the commands, and `ReadsAreComplete`, a
selection from a sequence, are such inductions as the end of this list names); liveness (of the session `StopSignDecided`) and what needs `ENABLED`; the order of
`Recovered`, a choice of a longest sequence, and what a recursive definition computes
for every input, which would take an induction over data.

## 7. Not modelled

See the components of `PROJECT.json`:

- batches together with the fast path (`pending_accept_meta`): the core with one
  more dimension is beyond what TLC finishes;
- `LogicalClock` and the tick counters of the facade: which call comes when is left
  open in every module, which covers every setting of them;
- a stop sign that is forwarded across a change of leader;
- the start-up phase of the benchmark's server, its output files, the client: no
  protocol state;
- UniCache, which this version cannot be built with (`AcceptDecide` and
  `AcceptedMetaData` have no `entries` under the feature, `messages.rs:100`,
  `util.rs:728`, and `follower.rs:104` reads them), the `Entry` macro, logging and plotting.
