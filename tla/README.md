# Verification of the distributed database

TLA+ models of the Raft peer and its apply loop, the key/value server with its
clerk, the shard controller with its rebalancing, and the simulated network
with the harness that crashes peers on it; the TLC runs that check them on
small instances; and theorems that TLAPS proves for instances of any size. `raft.go` below is
`src/db_files/raft/raft.go` of the repository; other files are named from
`src/db_files/` or `src/util_files/`.

## 1. The system

| Part | State | Operations | Interacts with |
|---|---|---|---|
| Raft peer (`raft/raft.go`, `raft/persister.go`) | role, term, vote, log from the last snapshot on, `commitIndex`, `lastApplied`, `nextIndex`, `matchIndex`; on disk term, vote, log, snapshot | timers `DoElection`, `DoHeartbeat`; RPC handlers `RequestVote`, `AppendEntries`, `InstallSnapshot`; reply handlers in `DoElection`, `Sync`, `Replicate`; `Start`, `Snapshot`, `CondInstallSnapshot`, `Make` | peers by RPC, the service by `applyCh` and direct calls |
| Apply loop (`DoApply` of `raft.go`) | where it is between check, wait, take and send | wait on `applyCond`, send on `applyCh` | handlers that commit, the service |
| Key/value server (`raft-db`) | map, last request of each client, waiting calls by log index, `lastApplied` | `Get`, `PutAppend`, `DoApply`, `apply`, snapshot | Raft, clerks |
| Shard controller (`shard-controller`) | list of configurations, last request of each client, waiting calls, `lastApplied` | `Join`, `Leave`, `Move`, `Query`, `DoApply`, `apply`, `rebalance` | Raft, clerks |
| Sharded key/value service (`raft-db-sharded`) | none yet: the server is a stub | the clerk's `Get`, `PutAppend` over the groups of a configuration | shard controller |
| Network (`labrpc/labrpc.go`) and its harness (`raft/config.go`, `raft-db/config.go`) | ends that are enabled, the instance registered for each peer, calls under way; persisters and instances of peers | `Call`, `processReq`, `isServerDead`, `AddServer`, `DeleteServer`, `Enable`, `Cleanup`; `start1`, `crash1`, `connect`, `disconnect`, `partition`, `ConnectClient` | everybody |
| `labgob`, `raft/util.go`, `porcupine`, `models`, the other `config.go` harnesses | – | encoding, debug output, tests | – |

What is hard in it: every handler runs under one mutex, but a call to a peer
is made without it and its reply is handled whenever it arrives, late, out of
order or not at all; a crashed instance of a peer cannot be stopped and goes on
calling and writing; the services find the call to answer by its log index
alone; two goroutines write to `applyCh`, so a snapshot may
overtake a command; handlers persist in two steps; a condition variable is
signalled without its lock; clerks repeat requests they got no answer to. The
properties that make the parts correct:

- Raft: one leader per term; committed entries are unique, durable and held by
  every later leader; a leader knows only what is true of its peers; services
  execute the same entries, once, in order; no handler meets a missing entry.
- Apply loop: never ahead of `commitIndex`; every committed entry is delivered.
- Rebalancing: ends, loses no shard, is even, moves no more than it must.
- Controller: one history of configurations, each request counted once; a
  configuration that was answered stands.
- Key/value server: each write counts once, and an answer is one the map could
  have given while the request was outstanding.
- Network: a call returns; a call that returned true is on the disk the next
  instance reads; a killed instance reaches nobody.

The hazards behind these, each with its line, are in `PROJECT.json`.

## 2. The modules

**Raft** models the peer with the part of the key/value server that reads
`applyCh`. A handler that runs under `rf.mu` is one action; where the code
unlocks to call a peer there are a request and a reply in the sets
`voteReqs`, `voteReplies`, `appendReqs`, `appendReplies`, `snapReqs`,
`snapReplies`. `DoElection`, `RequestVote`, `VoteReply`, `Start`, `Replicate`,
`AppendEntries`, `Sync`, `InstallSnapshot`, `InstallReply`, `DoApply`,
`CondInstallSnapshot` are the functions of the same names (`VoteReply` and
`InstallReply` are what `DoElection` and `Replicate` do with a reply), each
split into actions by its early returns. `Apply` is `apply` of
`raft-db/server.go` with the snapshot at its end, for a service that gets no
duplicates. `Crash` is a crash and a restart from what is persisted;
`CrashInElection`, `CrashInRequestVote` and `CrashInAppendEntries` are crashes
after `resetTerm` has written and before the handler writes again. Timers fire
whenever they like. A request of `AppendEntries` or `InstallSnapshot`, and its
reply, stays on the wire after a delivery: the heartbeat sends the same
request again and again, and `labrpc` loses, delays and reorders. `Drop` loses
one. A vote request is sent once in a term, so it is delivered at most once;
that it may never be delivered needs no action, since nothing forces a step.
`elected` and `committed` record the past for the properties; `leaderLog` (the
log of each term's leader) and `acked` (who stored a leader's log up to where)
record it for the proofs. No action reads them. Payloads are
reduced to commands, a service to the sequence of entries it executed, the
size of the Raft state to the length of the log.

**ApplyLoop** is `DoApply` in the steps its locks allow: the check under
`rf.mu`, the wait, the wake-up, the take under `rf.mu` again, the send. Its
environment is the two handlers that commit, the installation of a snapshot
and `Kill`. A broadcast reaches the goroutine only when it is on the
condition's list.

**Sharding** has `rebalance` and `maxmin` as operators; `ct` is a function from
groups to the sequences of their shards. Go iterates over `conf.Groups` in
any order and sorts, so the order of the groups is that of their numbers.
**Rebalance** runs the loop turn by turn from every configuration; **MCRebalance**
starts it, for ten shards, from the assignments in which the shards of group 0
come first, then those of the first group and so on, since a turn depends on
how many shards a group has and not on which. The operator `rebalance` lets the
loop take `EnoughTurns` turns, more than it ever takes (`RebalanceCorrect`).

**ShardCtrler** takes Raft for what module Raft shows: one log of committed
commands that each replica applies in order from where its snapshot ends. Its
actions are the clerk's call, the append of a request to the log (again and
again until the clerk has its answer), `DoApply` with `apply`, deduplication,
`rebalance` and snapshot, the installation of another replica's snapshot, and
`StartServer` after a crash. A duplicate does not move `lastApplied`, as in
the code. A snapshot that arrives is installed by `readSnapshot` only when
`CondInstallSnapshot` says that it is not outdated. `from`, a history variable,
is the index after which the commands behind a replica's configurations begin:
0, until it restarts past a snapshot, whose content `StartServer` does not read,
or installs a snapshot that goes back to a replica that did. That a leader
answers through `sc.done`, and that `Command` gives up after a timeout, is reduced
to `Return`: the clerk has its answer once some replica has applied the request.

**KVServer** is both halves of `raft-db`: the clerk's `Get` and `PutAppend`, the
handlers from `Start` through the channel they enter into the table of their
log index to the answer or the timeout, and `DoApply` with `apply`,
deduplication, snapshot and `StartKVServer`. Raft is reduced to what its own
theorems show of it: a log of entries with terms per server (`rlog`), leaders of
rising terms that hold everything decided (`lead`), followers that take over
the newest leader's log (`AppendEntries`), entries that leader commits
(`Commit`). A leader steps down when it hears of any newer term, the newest one
only while `MaxElections` leaves an election to follow; until then it goes on
appending to its log. A log that `CondInstallSnapshot` splices without having verified its
tail loses that tail (`Spliced`): its last term is older than the snapshot's,
so it wins no vote of a majority and is overwritten before anything of it is
committed. A lost request or a
server that does not lead only moves the clerk's `nextLeader`, so a call of the
model may reach any server. `OrphanStarts` is a handler of a write whose call has
already returned false. `overtaken` is a command that Raft had taken off its log when a
snapshot came first; `apply` rejects it and `DoApply` still answers.
Two things rest on time, and the model assumes them where it says so: a handler
waits `TimeoutInterval` (500 ms), which is no longer than the shortest election
(`ElectionTimeoutMin`, 500 ms), so calls whose entry was replaced at a server
are over before that server leads again (`CallsTimedOut`); and no handler is
held up before `Start` until its clerk is at the next request. Without the
second a write could be repeated after its client's later one, which `dedup`,
holding one request of each client, would not notice.

**Network** is `labrpc.go` with `start1`, `crash1`, `connect` and `disconnect` of
`raft/config.go` and the clerks of `raft-db/config.go`. Every call is a goroutine of `processReq`, in the steps between
which the network may change: the look-up of end and server, the delay, the
handler in a goroutine of its own, the check that the server is still the one
that was looked up, the reply. The harness is one goroutine that interleaves
with them between its own locks: disconnect, delete the server, copy the
persister, make a new instance, register it. An instance the harness has
killed may go on calling, handling and writing to its own persister (`disk`).
Clerks, as in `raft-db/config.go`, call over ends that outlive the instances they
reach, and `partition` cuts the peers in two; a test does that while every
server is up. `ShutdownServer` and `StartServer` of that harness take the steps of
`crash1` and `start1`. The loops over ends in `connect`, `disconnect`, `partition` and
`ConnectClient` are one step, and `longDelays` and `longReordering` change only how long a step takes.

**ReplicatedLog** is what both services are written against: one growing
sequence of decided entries, of which each has executed a prefix, moved
forward by a command or a snapshot and back only by a crash. **RaftRefinement**
maps `Raft` to it: the entries committed so far, ordered by index, are the log,
and what a service executed is its `state`. KVServer and ShardCtrler start from
this promise.

**MCRaft**, **MCShardCtrler** and **MCKVServer** define the symmetries and the
views of the runs; the cfg files give the constants values. The theorems are in
**RaftProofs** (the shape of logs, elections, and the facts about logs that the
next one uses), **SafetyProofs** (with **SafetyInv**, its invariant),
**ApplyLoopProofs**, **KVProofs**, **NetworkProofs**, **ShardingLemmas** (the
operators of Sharding), **RebalanceProofs** and **CtrlerProofs**.

An operator that is a wrong variant of the one that follows it
(`VoteAgain` before `CanVote`) is a bug the property it is listed with in
`PROJECT.json` catches.

## 3. The runs

| Run | Bounds | Shows |
|---|---|---|
| `old_terms` | 3 servers, 4 elections, 1 entry | later leaders hold what earlier ones committed; the rule of `raft.go:741` is needed with four leaders and one index |
| `replication` | 3 servers, 2 leaders, 2 entries, 2 replies waiting | logs merge without gaps, `matchIndex` is true, committed entries agree, no nil entry is reached |
| `splice` | 2 leaders, 2 entries, snapshots, 1 apply | `CondInstallSnapshot` keeps a suffix it has not verified, and that is safe, even at a server that leads by then; no service is taken back |
| `recovery` | 2 leaders, 1 entry, snapshots, 2 applies, 1 crash | log and snapshot fit after a restart, nothing committed is lost, a snapshot that overtakes a command on `applyCh` neither repeats nor takes back anything, one leader per term; **Raft implements `ReplicatedLog`** |
| `apply_loop` | indices up to 4 | the loop is never ahead; a broadcast that finds it waiting delivers everything |
| `lost_wakeup` | index 1 | **fails**: a broadcast between check and wait is lost |
| `rebalance` | 10 shards, up to 5 groups, every assignment up to the naming of shards | the loop ends evenly, loses nothing, and a join moves shards to new groups only |
| `leave_minimal` | 6 shards, 2 groups left of 3 | **fails**: a leave moves shards between groups that stay |
| `controller` | 2 replicas, 2 clerks, 3 commands, snapshot from 2 entries on, 1 restart | every replica has the history of the commands since `from`, which is the whole log unless a restart lost some; a configuration a replica had is replaced only when it restarts or installs a snapshot with another `from`; a leave leaves nothing on the groups it names, whether they had joined or shards were moved there |
| `controller_restart` | the same | **fails**: `StartServer` does not read the snapshot |
| `kv` | 2 servers, 2 clerks, 2 requests (Get, Append), 3 commands started, 2 leaders, 1 restart, snapshot from 3 entries on | writes count once and answers are linearizable, although clerks repeat, channels are found by log index, an old leader may still answer and rejected commands are answered too |
| `network` | 2 peers, 2 instances of each, 1 clerk, 1 call, any crashes, partitions and restarts | a positive reply is on the disk the next instance reads, killed instances reach no handler, calls return, handlers end |

The bounds are large enough that each wrong variant of the code listed under
"mutants" in PROJECT.json is caught. Three servers are the least with a majority that is
not everyone; four elections are what it takes to elect a leader, commit
behind its back and come back to it; two entries are what it takes for a log
to have a suffix beyond a snapshot. One command value is enough because
entries differ by index and term. `MaxRequests` and `MaxReplies` bound what is
on the wire at one time and count only what somebody can still react to.
`ElectionSafety` is proved for every instance, so the run that crashes servers
checks it with two elections. In `kv` two clerks and three commands are the
least with a repeated request and another clerk's in between; three entries
before a snapshot let one arrive while a command is under way; its writes are
appends, which show a repetition and an order that a put would hide. In `network` one
call is enough because calls share nothing but the persisters, to which each
adds its own mark, and two instances of a peer are enough because a check
compares with the instance that was looked up: it does not matter how often
that one was replaced.

`rebalance` has the ten shards of `common.go` because `JoinMinimal` is a fact about
that number: with eight shards, four on each of two groups, a third group that
joins gets two of the first, the lists are then 2, 4 and 2, and the next turn
gives one to the first group, which had shards before. With ten the corresponding
lists are 3, 5 and 2, and the third group is the smallest.

`SYMMETRY`: servers are compared for equality only, and so are clerks. `network`
checks liveness and uses no symmetry. Groups
are not symmetric, ties are broken by number. `VIEW LiveView` in the Raft runs
identifies states that differ only in what no step can read again (replies to
candidacies and leaderships that are over, requests that could produce only
such replies, the indices of servers that do not lead, which are overwritten
before they are read, the votes recorded for an election, and the histories
kept for the proofs). Of the properties only `TypeOK` reads any of it: the run
checks it on one state of each kind, `TypeCorrectness` proves it of all.
`VIEW LiveView` in `kv` does so for what a clerk without a call is asked for once
no command can be started any more, and for `kv.lastApplied`, whose two
comparisons always come out the same; there, too, only `TypeOK` reads it, and
`KVTyped` proves that.

Some properties say more than the small instance can show. In `replication`
there are no snapshots and nothing is applied, so what `NoPanic` says of those is
vacuous there; in `recovery` there is one index, so the order of entries in
`StateMachineSafety` and `ImplementsLog` is hardly tested, and two elections are
few for `ElectionSafety`. `NeverPanics`, `StateMachinesSafe`, `RaftImplementsLog` and
`ElectionSafe` prove them without these bounds. `JoinMinimal` begins without
unassigned shards; what becomes of those is the subject of `leave_minimal`.

`CHECK_DEADLOCK FALSE`: the program has no final state, its timers and clerks
go on forever; the models stop only where a bound does not let them continue,
`Rebalance` because the loop ends.

Fairness appears in three runs. `Rebalance` assumes that the loop takes its next
turn, which is what a loop does. `ApplyLoop` assumes weak fairness of the
goroutine `DoApply`, including that the service receives from `applyCh`: Go
schedules a goroutine that can run, and both services receive in a loop. It
assumes nothing of commits: a cluster may be idle. `Network` assumes weak
fairness of the goroutines of each call (`processReq(n)`): they are scheduled,
their sleeps end, and the handlers return, as every handler of Raft does. It
assumes nothing of the harness, which may stop between any two of its steps.

### What the failing runs say

- `lost_wakeup`: `raft/README.md:23` promises an `ApplyMsg` for each committed
  entry. In the window between `needApply` and `Wait` the broadcast of
  `raft.go:319` or `:748` wakes nobody. The next commit repairs it
  (`WokenApplies`), a cluster without one does not: a heartbeat makes a follower
  broadcast only if `LeaderCommit` is above its own `commitIndex`.
- `controller_restart`: after about 1000 bytes of log the controller snapshots,
  and a replica that restarts after that has an empty first configuration and
  none of the earlier ones. `StartKVServer` reads its snapshot, `StartServer`
  does not. The loss spreads: when that replica applies more commands and takes
  a snapshot again, `CondInstallSnapshot` of another replica accepts it, and
  `readSnapshot` replaces the right configurations of a replica that never
  restarted. That is the exception `AnswersStand` has to make.
- `leave_minimal`: `shard-controller/test_test.go:244` asserts minimal
  transfers after leaves. Its numbers of groups and shards do not show that
  the shards of the departed group all go to one group and the evening-out
  then takes the first shards of that group, its own.

## 4. The theorems

All are proved for any finite set of servers, any clerks, keys, peers and calls
and any bounds. Each is `Spec => []P` or `Spec => P` for a property `P` that a
run checks on a small instance, or the invariant the others follow from; three
about rebalancing (`RebalanceCorrect`, `EndsInEvenness`, `EveryTurnSeparates`) state
for any number of shards what `EndsEven` says of ten.

### The shape of logs, elections, the apply loop

- `TypeCorrectness` and `ContiguousLogs` (RaftProofs): `TypeOK` and
  `LogsContiguous` are invariants. A log stays contiguous only because what is
  merged into it follows the entry it names and because what a restart reads
  back is contiguous, so the inductive invariant `ShapeInv` adds
  `RequestsFollow` and `PersistedContiguous`. Lemmas describe `Merge`
  (`MergeCases`: it keeps the log or cuts it and appends a tail of the
  entries), `Trim`, `Installed` and what `Replicate` sends; then there is one
  lemma per action.
- `ElectionSafe` (RaftProofs): no two servers win one term. A vote has to
  be followed from the handler that casts it through the reply and the
  candidate's count to the election. `ElectionInv` says that a granted vote
  binds its voter to a term at least as high, in memory and on disk
  (`VotesKept`, `VoteDurable`), that a server grants one vote per term
  (`OneVote`), and what is left of the vote a candidate gave itself once
  `resetTerm` has cleared it: a server that won keeps it (`WinnersKeepVote`,
  `WinnersVoteOnce`). Two majorities share a server (`MajoritiesShare`, by
  cardinality). Most actions cast no vote, which `NoVoteStep` captures once.
- `LoopNeverAhead` (ApplyLoopProofs): `NeverAhead`, strengthened by the fact
  that a message the service lacks is the one at `lastApplied`.

### The safety of Raft's log (SafetyProofs)

`SafetyInvariant` is the inductive invariant `Good`: `ShapeInv`, `ElectionInv` and
`LogInv` of SafetyInv. Its idea is to write the log of every term's leader down
once (`leaderLog`) and to relate everything else to these logs. An entry is the
node `(t, x)`: what the leader of `t` put at `x`.

- `TreeFits`: the leaders' logs form a tree (`LogTree`: where the log of `t` has
  an entry of `u`, it is the log of `u` up to there), and a later leader has
  every node that a majority has stored or may still store (`Complete`,
  `Choosable`). This is stronger than leader completeness and is what is
  inductive: a vote or a term that grows only makes fewer nodes choosable.
- `LogsFit`, `LeadersFit`: a server's log above its base is a piece of one
  leader's log; the part behind the base is the snapshot, which is a prefix of
  what was committed. The two need not belong together, because
  `CondInstallSnapshot` keeps a tail it has not verified: that is why the log is
  related to a leader only above its base.
- `RequestsFit`, `SnapshotsFit`, `RepliesFit` (what is on the wire, however old),
  `IndicesFit` (`matchIndex`, `nextIndex`), `AcksFit` (a server still covers what
  it stored and that may still be chosen), `VotesFit` (so does a candidate that
  has the vote of such a server), `CommitsFit`, `ServicesFit`.

The proof has one lemma per action under a lemma for what the action leaves
alone. From `Good` follow `SnapshotsFitLogs`, `StateMachinesSafe`, `CommitsSafe`,
`CommitsDurable`, `NewestLeaderComplete`, `MatchesTruthful`, `NeverPanics`, and the
action properties `NeverRollsBack` and `LeadersAppendOnly`. `RaftImplementsLog`
proves the refinement: the first state maps to the first state of
`ReplicatedLog`, and each step to one of its steps or to a stutter, with
`StateMachinesSafe` and `CommitsSafe` for the services and for the order of the
one log.

### The network (NetworkProofs)

`NetInv` says what the harness knows of a peer (`PeerOK`: its newest instance or
none, and whoever is registered writes to the persister that the harness would
read), that the peer is cut off while it is crashed and restarted and
unregistered from `DeleteServer` on (`HarnessOK`), that only the instance the
harness knows has ends that are enabled (`EndsOK`), and of each call how far its
handler and the mark it writes have come (`RecordOK`). Every step lets the
persisters only grow (`DisksGrow`). `RepliesPersisted` and `KilledStaySilent`
follow: a reply passes the check of `isServerDead` only while its instance is
registered, so that the harness has yet to copy the persister with its mark; and
the ends of a killed instance are disabled or no longer the peer's.

### The key/value server (KVProofs)

`KVInvariant` is the inductive invariant `KVInv`:

- `LogOK` of every log and of what is decided: the writes of a clerk stand in it
  in the order of their ids, none newer than what the clerk does now
  (`Ordered`), and an entry with the term of a server that leads is in that
  server's log at the same place (`FromLeaders`).
- `ServerOK`: the map is `Replay` of the entries delivered, `dedup` remembers the
  newest write of each client among them (`Remembers`), and the same holds of
  the snapshot and its index.
- `CallOK`: a call under way at a leader has its own entry, by term and command,
  at its index, and that entry was not decided before the clerk was asked.

`Duplicate` is then exactly "this write is in the log already" (`DuplicateIff`,
which needs `Ordered`: it is where one remembered request per client is enough),
and a leader that applies index `x` applies the entry of the call waiting there
(`AnswerIs`), although `DoApply` compares only the index. `Replay` is defined by
the places of writes, not by recursion: what one more entry adds to it
(`ReplayNext`) is a statement about ranks in finite sets of places
(`RankExists`, by the least number of places that would be a counterexample).
`KVTyped`, `WritesCountOnce` and `RepliesLinearizable` follow. They rest on the two
assumptions about time named in section 2, which are guards of the model
(`CallsTimedOut`, `OrphanStarts`), and on Raft as `RaftImplementsLog`,
`ElectionSafe` and `NewestLeaderComplete` describe it.

### Rebalancing (ShardingLemmas, RebalanceProofs)

`ShardsByGroup`, `Rebalanced` and, in the controller, `History` are recursive
functions. What the library's induction theorems would say about them is out of
the provers' reach, because those take an operator as a parameter; the lemmas here
take a set instead. `AllNat` is induction for a set of numbers (a set with 0 and
the successor of each of its numbers has them all), and `IterationExists` says
that a step function on a set can be iterated, with which the `CHOOSE` behind a
recursive function is unfolded (`RebalancedUnfolds`, `HistoryIs`).

- `EachOnce`: every shard stands at exactly one place of the lists. The lists made
  from `conf.Shards` have it (`ByGroupOnce`) and a turn keeps it (`TurnKeeps`),
  which `Turned` describes as "the first `c` shards of `a` go to the end of `b`".
  With the fact that lists of groups outside the configuration are not touched
  it is the inductive invariant `ListsKept`, and `Partition` follows
  (`ListsPartition`).
- Termination: each turn but the first, which hands out what is unassigned,
  lowers the number of pairs of shards that are together (`Together`,
  `EveryTurnSeparates`), so at most `NShards * NShards + 1` turns are taken; and
  when `maxmin` finds nothing to do, the assignment is even (`EndsInEvenness`).
  These are the two halves of `EndsEven` without its fairness. `RebalanceCorrect`
  puts them together for the operator the controller uses.
- `JoinsAreMinimal`, for `NShards = 10`: the numbers of shards of the groups go
  through few shapes on the way (`Spreads`: all on one; five and five; five,
  three and two; one four and threes; at most three each; level), and in none of
  them is the smallest group one that had shards (`PassesOn`).

### The shard controller (CtrlerProofs)

- `CtrlerTypeCorrect`: `TypeOK`, which includes that a snapshot is never ahead of
  what was delivered and that one that can be installed has a configuration.
- `CtrlersAgree`: `AgreeInv` says that configurations and `dedup` of every
  replica, and of every snapshot, are those of the commands from `from` up to its
  index, as if these were the first (`After`, `History`, `DedupAt`). A restart past
  a snapshot begins such a suffix anew with nothing in it, and a snapshot brings
  the suffix of the server that took it. That `dedup`, which keeps one command of
  each client, tells every command that was in the suffix before (`DuplicateIs`)
  needs the commands of a clerk to stand in the log in the order of their
  numbers, and one number to be one command (`Numbered`): a clerk asks for one
  thing at a time. A suffix inherits that order (`AfterOrdered`).
- `AnswersStay`: the history of a longer part of the same suffix extends the
  history of a shorter one (`HistoryGrows`), and a snapshot that
  `CondInstallSnapshot` accepts is not shorter than what was delivered. So a list
  is only extended, except by a restart of that replica and by a snapshot with
  another `from` than its own.
- `ShardsHaveOwners`: `OwnedInv` says of the last configuration of every replica,
  and of every snapshot with its index, that a shard out of place was put there
  by a Move among the commands given so far, after which no first Leave named
  that group. The step for Join and Leave is `RebalanceCorrect`, the one for Leave
  with the shards it takes away first; that a Leave that is at its first place
  in the log is not taken for a duplicate comes from `AgreeInv`. It holds of
  replicas that lost their past too: a restart begins with a configuration in
  which every shard is where it belongs.

### Assumptions, and what is checked by TLC only

The assumptions on the constants (`ServerAssumption`, `NilAssumption`,
`BoundAssumption`, `IndexAssumption`, `KVAssumption`, `NetworkAssumption`,
`ShardingAssumption`, `CtrlerAssumption`) say that the servers are finitely many
where majorities are counted, that `Nil` is none of the things it is compared
with, that there is at least one shard and group 0 is no group, that commands
name groups and shards that exist, and that bounds are numbers. `JoinsAreMinimal`
alone assumes `NShards = 10`.

Checked by TLC only are the liveness properties: `WokenApplies`, `EndsEven` (whose
safety halves are proved), `CallReturns` and `HandlersEnd`. The runs that fail have
no theorem.

## 5. Not modelled

- Time: election and heartbeat intervals, `lastHeartbeat`, the 500 ms
  timeouts. Anything may fire at any time. One thing rests on time and is
  noted as a hazard: `Make` starts `DoElection` before `readPersist`, and only
  its first sleep keeps it from persisting an empty log.
- `DoReplicate`: nothing signals its condition, so it never gets past `Wait`.
- That a stable leader brings its peers up to date by heartbeats alone: with
  real intervals between elections this is a matter of time, and without them
  elections may interrupt it for ever.
- The controller's own table of waiting calls. It is the one of the key/value
  server, line for line, and `Linearizable` is about that one.
- The sharded service: its server and handlers are stubs that answer nothing,
  and its clerk has nobody to talk to.
- The harnesses of `shard-controller` and `raft-db-sharded`, which repeat the
  other two for another server type, and the checks and statistics of all of
  them (`checkOneLeader`, `nCommitted`, `one`, byte counts).
- The dispatch by reflection in `labrpc`, `labgob` and debug output.
- `porcupine`, a third-party linearizability checker, and the model of the
  map for it.

## 6. Plan

1. Raft, its runs and the first theorems; the apply loop; rebalancing and the
   controller (done).
2. The key/value server with its waiting calls and clerk; `ReplicatedLog` and
   the refinement; the network and its harness (done).
3. Proofs of the safety of Raft's log and of the refinement, of the network and
   of the key/value server (done).
4. Proofs about rebalancing, for any number of shards, and about the controller
   (done). The attempt to prove `JoinMinimal` for any number of shards showed that
   it is a fact about ten.
5. What is left needs a model that does not exist yet: the sharded service once
   its server is more than a stub, and the controller's table of waiting calls
   as part of `ShardCtrler`.
