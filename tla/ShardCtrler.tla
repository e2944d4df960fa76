---------------------------- MODULE ShardCtrler ----------------------------
(* The replicated shard controller of shard-controller/server.go and its     *)
(* clerks.  Raft is what module Raft shows it to be: one committed log that  *)
(* every server applies in order from where its snapshot ends.               *)
EXTENDS Sharding

CONSTANTS
    Server,         \* the controller's replicas
    Client,         \* its clerks
    Nil,            \* no request outstanding
    Joins, Leaves,  \* the sets of groups a Join or a Leave may name
    Moves,          \* the [shard, gid] pairs a Move may name
    maxraftstate,   \* log length that triggers a snapshot
    MaxLog,         \* bound: commands in the log
    MaxRestarts     \* bound: restarts in a behaviour

ASSUME CtrlerAssumption ==
    /\ Joins \subseteq SUBSET GID /\ Leaves \subseteq SUBSET GID
    /\ Moves \subseteq [shard : Shard, gid : GID]
    /\ maxraftstate \in Nat /\ MaxLog \in Nat /\ MaxRestarts \in Nat

VARIABLES
    current,        \* the request each clerk waits for
    requests,       \* how many requests each clerk made: RequestId
    log,            \* the commands Raft committed
    configs,        \* sc.configs
    dedup,          \* sc.dedup: the last command of each client
    lastApplied,    \* sc.lastApplied
    next,           \* rf.lastApplied: what applyCh delivered
    persister,      \* the snapshot, with the index the Raft log begins at
    restarts,
    from            \* history: the commands behind a server's configurations
                    \* begin after this index, 0 unless a restart lost some

clerkVars == <<current, requests>>
stateVars == <<configs, dedup, lastApplied>>
vars == <<clerkVars, log, stateVars, next, persister, restarts, from>>

(* JoinArgs, LeaveArgs, MoveArgs and QueryArgs, which has no client.         *)
Operation ==
    [op : {"Join"}, gids : Joins] \cup [op : {"Leave"}, gids : Leaves]
    \cup [op : {"Move"}, to : Moves] \cup [op : {"Query"}]

(* A request with the identity Command gives it.                             *)
Request == [client : Client, id : Nat, args : Operation]

(* A clerk that waits for nothing is told from one that waits.               *)
ASSUME NilAssumption == Nil \notin Request

StartConfigs == <<EmptyConfig>>

NoDedup == [c \in Client |-> Nil]

Init ==
    /\ current = [c \in Client |-> Nil]
    /\ requests = [c \in Client |-> 0]
    /\ log = << >>
    /\ configs = [i \in Server |-> StartConfigs]
    /\ dedup = [i \in Server |-> NoDedup]
    /\ lastApplied = [i \in Server |-> 0]
    /\ next = [i \in Server |-> 0]
    /\ persister = [i \in Server |-> [index |-> 0, configs |-> << >>, dedup |-> NoDedup, from |-> 0]]
    /\ restarts = 0 /\ from = [i \in Server |-> 0]

-----------------------------------------------------------------------------
(* Clerks.                                                                   *)

(* The requests that are not in the log yet.  A clerk makes one only while   *)
(* the bound leaves room for it: without an entry it would have no effect.   *)
Pending == {c \in Client : current[c] # Nil /\ \A k \in DOMAIN log : log[k] # current[c]}

Call(c, o) ==
    /\ current[c] = Nil
    /\ Len(log) + Cardinality(Pending) < MaxLog
    /\ requests' = [requests EXCEPT ![c] = @ + 1]
    /\ current' = [current EXCEPT ![c] = [client |-> c, id |-> requests'[c], args |-> o]]
    /\ UNCHANGED <<log, stateVars, next, persister, restarts, from>>

(* Command at a leader whose Raft commits the request.  A clerk that hears   *)
(* nothing sends it again, so it may be in the log more than once.           *)
Command(c) ==
    /\ current[c] # Nil
    /\ Len(log) < MaxLog
    /\ log' = Append(log, current[c])
    /\ UNCHANGED <<clerkVars, stateVars, next, persister, restarts, from>>

(* The leader has applied the request and answers OK through sc.done, or     *)
(* Command times out and the clerk, who sends again, is answered later.      *)
(* Which call an answer finds is the subject of KVServer.                    *)
Return(c) ==
    /\ current[c] # Nil
    /\ \E i \in Server : \E k \in 1..next[i] : log[k] = current[c]
    /\ current' = [current EXCEPT ![c] = Nil]
    /\ UNCHANGED <<requests, log, stateVars, next, persister, restarts, from>>

-----------------------------------------------------------------------------
(* The replicas.                                                             *)

(* conf: the next configuration, a copy of the last one.                     *)
conf(cs) == [Last(cs) EXCEPT !.num = @ + 1]

LeaveKeepingShards(c, o) ==
    IF o.op = "Join" THEN rebalance([c EXCEPT !.groups = @ \cup o.gids])
    ELSE IF o.op = "Leave" THEN rebalance([c EXCEPT !.groups = @ \ o.gids])
    ELSE [c EXCEPT !.shards[o.to.shard] = o.to.gid]

(* What a Join, Leave or Move makes of a copy of the last configuration.     *)
Changed(c, o) ==
    IF o.op = "Join" THEN rebalance([c EXCEPT !.groups = @ \cup o.gids])
    ELSE IF o.op = "Leave"
    THEN rebalance([c EXCEPT !.groups = @ \ o.gids,
                             !.shards = [s \in Shard |-> IF @[s] \in o.gids THEN 0 ELSE @[s]]])
    ELSE [c EXCEPT !.shards[o.to.shard] = o.to.gid]

(* The request is the last one of its client, and of the same type.          *)
Duplicate(d, m) == m.args.op # "Query" /\ d[m.client] = m

(* apply, up to the snapshot.  A duplicate does not even move lastApplied.   *)
(* A Query carries no client: what it leaves in dedup is under no clerk's id.*)
Applied(i, x) ==
    LET m == log[x] IN
    IF x <= lastApplied[i] \/ Duplicate(dedup[i], m)
    THEN [configs |-> configs[i], dedup |-> dedup[i], lastApplied |-> lastApplied[i]]
    ELSE IF m.args.op = "Query"
    THEN [configs |-> configs[i], dedup |-> dedup[i], lastApplied |-> x]
    ELSE [configs |-> Append(configs[i], Changed(conf(configs[i]), m.args)),
          dedup |-> [dedup[i] EXCEPT ![m.client] = m], lastApplied |-> x]

SnapshotOfConfigs(i, x, a) == [index |-> x, configs |-> a.configs, dedup |-> NoDedup, from |-> from[i]]

SnapshotAhead(i, x, a) == [index |-> x + 1, configs |-> a.configs, dedup |-> a.dedup, from |-> from[i]]

(* The snapshot apply encodes at its end; from goes with it, for the         *)
(* properties.                                                               *)
Snapshot(i, x, a) == [index |-> x, configs |-> a.configs, dedup |-> a.dedup, from |-> from[i]]

(* DoApply takes the next command from applyCh.  The size of the Raft state  *)
(* counts the entries of its log, of which this server has some beyond x.    *)
(* What a leader then writes to sc.done becomes Return.                      *)
DoApply(i) ==
    LET x == next[i] + 1
        a == Applied(i, x)
    IN /\ x <= Len(log)
       /\ next' = [next EXCEPT ![i] = x]
       /\ configs' = [configs EXCEPT ![i] = a.configs]
       /\ dedup' = [dedup EXCEPT ![i] = a.dedup]
       /\ lastApplied' = [lastApplied EXCEPT ![i] = a.lastApplied]
       /\ \E tail \in x..Len(log) :
            persister' = IF a.lastApplied = x /\ tail - persister[i].index + 1 >= maxraftstate
                         THEN [persister EXCEPT ![i] = Snapshot(i, x, a)]
                         ELSE persister
       /\ UNCHANGED <<clerkVars, log, restarts, from>>

NeverOutdated(i, s) == FALSE

(* CondInstallSnapshot refuses a snapshot of less than what Raft committed,  *)
(* which is at least what it delivered.                                      *)
Outdated(i, s) == s.index < next[i]

(* Nothing but the snapshot's content is left, without sc.mu.                *)
readSnapshot(i, s) ==
    /\ configs' = [configs EXCEPT ![i] = s.configs]
    /\ dedup' = [dedup EXCEPT ![i] = s.dedup]

(* A leader's snapshot that CondInstallSnapshot accepts.                     *)
InstallSnapshot(i, j) ==
    LET s == persister[j] IN
    /\ i # j
    /\ s.index > 0
    /\ ~Outdated(i, s)
    /\ next' = [next EXCEPT ![i] = s.index]
    /\ lastApplied' = [lastApplied EXCEPT ![i] = s.index]
    /\ readSnapshot(i, s)
    /\ persister' = [persister EXCEPT ![i] = s]
    /\ from' = [from EXCEPT ![i] = s.from]
    /\ UNCHANGED <<clerkVars, log, restarts>>

(* Where Raft resumes: readPersist sets lastApplied to the snapshot's index. *)
ResumeIndex(i) == persister[i].index

(* StartServer after a crash.  It makes new configs and a new dedup and does *)
(* not read the snapshot: what it holds from here on are the commands after. *)
StartServer(i) ==
    /\ restarts < MaxRestarts
    /\ restarts' = restarts + 1
    /\ configs' = [configs EXCEPT ![i] = StartConfigs]
    /\ dedup' = [dedup EXCEPT ![i] = NoDedup]
    /\ lastApplied' = [lastApplied EXCEPT ![i] = 0]
    /\ next' = [next EXCEPT ![i] = ResumeIndex(i)]
    /\ from' = [from EXCEPT ![i] = persister[i].index]
    /\ UNCHANGED <<clerkVars, log, persister>>

Next ==
    \/ \E c \in Client, o \in Operation : Call(c, o)
    \/ \E c \in Client : Command(c) \/ Return(c)
    \/ \E i \in Server : DoApply(i) \/ StartServer(i)
    \/ \E i, j \in Server : InstallSnapshot(i, j)

Spec == Init /\ [][Next]_vars
-----------------------------------------------------------------------------
TypeOK ==
    /\ current \in [Client -> {Nil} \cup Request]
    /\ requests \in [Client -> Nat]
    /\ log \in Seq(Request)
    /\ configs \in [Server -> Seq(Config)]
    /\ dedup \in [Server -> [Client -> {Nil} \cup Request]]
    /\ lastApplied \in [Server -> Nat] /\ next \in [Server -> Nat]
    /\ persister \in [Server -> [index : Nat, configs : Seq(Config), dedup : [Client -> {Nil} \cup Request], from : Nat]]
    /\ from \in [Server -> Nat]
    /\ \A i \in Server :
         /\ configs[i] # << >>
         /\ lastApplied[i] <= next[i] /\ next[i] <= Len(log)
         /\ persister[i].index <= next[i]
         /\ persister[i].index > 0 => persister[i].configs # << >>
         /\ from[i] <= next[i] /\ persister[i].from <= persister[i].index
    /\ restarts \in 0..MaxRestarts

(* Place n of the commands l is where a request that makes a configuration   *)
(* stands for the first time.                                                *)
First(l, n) == l[n].args.op # "Query" /\ \A j \in 1..(n - 1) : l[j] # l[n]

(* The configurations that the first n commands of l stand for when each     *)
(* request counts once, at its first place.                                  *)
History(l) ==
    LET h[n \in 0..Len(l)] ==
          IF n = 0 THEN StartConfigs
          ELSE IF First(l, n) THEN Append(h[n - 1], Changed(conf(h[n - 1]), l[n].args))
          ELSE h[n - 1]
    IN h

(* Every replica holds exactly the configurations of the commands it was     *)
(* given, each request having counted once, so that a Query of a number has  *)
(* one answer ("Historical queries" of test_test.go).                        *)
OneHistory ==
    LET h == History(log) IN \A i \in Server : configs[i] = h[next[i]]

(* The commands of l after index n.                                          *)
After(l, n) == SubSeq(l, n + 1, Len(l))

(* That holds of every replica as far back as its state goes, whatever the   *)
(* clerks sent again, whatever came as a snapshot instead and whoever        *)
(* restarted and replayed the log: of the whole log where from is 0, and of  *)
(* the commands since, as if they were the first, at a replica that          *)
(* restarted past a snapshot and at those that installed a snapshot it took  *)
(* after that (apply, readSnapshot, StartServer).                            *)
ReplicasAgree ==
    \A i \in Server : configs[i] = History(After(log, from[i]))[next[i] - from[i]]

(* A number that a Query was given names the same configuration when Query   *)
(* reads it, which is after Command has returned and with sc.mu taken anew:  *)
(* whatever apply appended or readSnapshot replaced meanwhile, a server      *)
(* loses or changes a configuration it had only when it restarts, or when it *)
(* installs a snapshot whose configurations begin after another index, as    *)
(* that of a server does that restarted past a snapshot before it took this  *)
(* one.                                                                      *)
AnswersStand ==
    [][\A i \in Server :
         \/ IsPrefix(configs[i], configs'[i])
         \/ StartServer(i)
         \/ \E j \in Server : InstallSnapshot(i, j) /\ persister[j].from # from[i]]_vars

(* Server i was given a Move of shard s to group g, and no Leave of that     *)
(* group since, a request counting at its first place.                       *)
MovedTo(i, s, g) ==
    \E k \in 1..next[i] :
        /\ log[k].args.op = "Move" /\ log[k].args.to = [shard |-> s, gid |-> g]
        /\ \A j \in (k + 1)..next[i] :
             First(log, j) /\ log[j].args.op = "Leave" => g \notin log[j].args.gids

(* A shard belongs to a group of its configuration, or to none when there is *)
(* no group.  Only a Move can have put it elsewhere, and only as long as no  *)
(* Leave of that group followed: a Leave leaves nothing on the groups it     *)
(* removes, joined or not, and counts on every replica, also on one that     *)
(* restarted past a snapshot (apply, rebalance).                             *)
ShardsOwned ==
    \A i \in Server : \A s \in Shard :
        LET c == Last(configs[i]) IN
        \/ c.shards[s] \in c.groups
        \/ c.groups = {} /\ c.shards[s] = 0
        \/ MovedTo(i, s, c.shards[s])
=============================================================================
