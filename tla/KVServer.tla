----------------------------- MODULE KVServer -----------------------------
(* The key/value server of raft-db/server.go and its clerk of client.go.     *)
(* Raft below it is what module Raft shows: logs that differ only beyond     *)
(* what is decided, leaders that hold everything decided, and followers that *)
(* take over the log of the newest leader.                                   *)
EXTENDS Integers, Sequences, FiniteSets, SequencesExt

CONSTANTS
    Server,
    Client, Key,
    Op,             \* the operations clerks call: "Get", "Put", "Append"
    Nil,            \* no request outstanding, no request remembered
    maxraftstate,   \* log length that triggers a snapshot
    MaxRequests,    \* bound: requests in a behaviour
    MaxStarts,      \* bound: commands handed to Raft in a behaviour
    MaxElections,   \* bound: leaders elected in a behaviour
    MaxRestarts     \* bound: restarts in a behaviour

ASSUME KVAssumption ==
    /\ Op \subseteq {"Get", "Put", "Append"}
    /\ Nil \notin Client \cup Server \cup Nat
    /\ maxraftstate \in Nat /\ MaxRequests \in Nat /\ MaxStarts \in Nat
    /\ MaxElections \in Nat /\ MaxRestarts \in Nat

VARIABLES
    current,        \* what each clerk is asked to do
    call,           \* the clerk's RPC and its handler
    requests,       \* how many requests clerks were asked for
    starts,         \* how many commands leaders took
    rlog, lead,     \* each Raft log; the term a server leads in, or 0
    elections,      \* the newest term with a leader
    decided,        \* the entries Raft has committed
    next,           \* rf.lastApplied
    overtaken,      \* the command that a snapshot overtook on applyCh, or 0
    kv, dedup, lastApplied,     \* the fields of KVServer
    persister,      \* its snapshot, with the index the Raft log begins at
    restarts,
    since           \* history: how much was decided when the clerk was asked for a Get

clerkVars == <<current, since>>
raftVars == <<rlog, lead, elections, decided>>
stateVars == <<kv, dedup, lastApplied>>
deliveryVars == <<next, overtaken, persister>>
vars == <<clerkVars, call, requests, starts, raftVars, stateVars, deliveryVars, restarts>>

(* GetArgs carries no client, PutAppendArgs its client and request id; the   *)
(* value is told by the id.                                                  *)
Request(c, op, k) ==
    IF op = "Get" THEN [op |-> op, key |-> k]
    ELSE [op |-> op, key |-> k, client |-> c, id |-> requests + 1]

IsGet(m) == m.op = "Get"

Idle == [pc |-> "idle", server |-> Nil, index |-> 0, term |-> 0, value |-> << >>]

EmptyMap == [k \in Key |-> << >>]

NoDedup == [c \in Client |-> Nil]

Init ==
    /\ current = [c \in Client |-> Nil]
    /\ since = [c \in Client |-> 0]
    /\ call = [c \in Client |-> Idle]
    /\ requests = 0 /\ starts = 0
    /\ rlog = [i \in Server |-> << >>]
    /\ lead = [i \in Server |-> 0]
    /\ elections = 0 /\ decided = << >>
    /\ next = [i \in Server |-> 0]
    /\ overtaken = [i \in Server |-> 0]
    /\ kv = [i \in Server |-> EmptyMap]
    /\ dedup = [i \in Server |-> NoDedup]
    /\ lastApplied = [i \in Server |-> 0]
    /\ persister = [i \in Server |-> [index |-> 0, kv |-> EmptyMap, dedup |-> NoDedup]]
    /\ restarts = 0

-----------------------------------------------------------------------------
(* The clerk: Get and PutAppend of client.go.                                *)

Ask(c, op, k) ==
    /\ current[c] = Nil
    /\ requests < MaxRequests /\ starts < MaxStarts
    /\ requests' = requests + 1
    /\ current' = [current EXCEPT ![c] = Request(c, op, k)]
    /\ since' = [since EXCEPT ![c] = IF op = "Get" THEN Len(decided) ELSE 0]
    /\ UNCHANGED <<call, starts, raftVars, stateVars, deliveryVars, restarts>>

(* A request that is lost, or a server that does not lead, only makes the    *)
(* clerk try the next server, so that its call may reach any of them.        *)
Trying(c) == current[c] # Nil /\ call[c].pc = "idle"

(* The clerk leaves the call and will try again: the same server after       *)
(* ErrTimeout, else the next one.                                            *)
TryAgain(c) ==
    /\ call' = [call EXCEPT ![c] = Idle]
    /\ UNCHANGED <<clerkVars, requests, starts, raftVars, stateVars, deliveryVars,
                   restarts>>

(* Call returns false later: the reply was lost, or the connection was cut   *)
(* while the handler waited.  Nobody notices what that handler still does.   *)
ReplyLost(c) == call[c].pc # "idle" /\ TryAgain(c)

(* The reply OK arrives.                                                     *)
Return(c) ==
    /\ call[c].pc = "answered"
    /\ call' = [call EXCEPT ![c] = Idle]
    /\ current' = [current EXCEPT ![c] = Nil]
    /\ since' = [since EXCEPT ![c] = 0]
    /\ UNCHANGED <<requests, starts, raftVars, stateVars, deliveryVars, restarts>>

-----------------------------------------------------------------------------
(* The handlers Get and PutAppend of server.go.                              *)

(* Whether server i takes itself for the leader.                             *)
GetState(i) == lead[i] # 0

(* rf.Start of a leader.                                                     *)
Appended(i, m) ==
    /\ GetState(i)
    /\ starts < MaxStarts
    /\ starts' = starts + 1
    /\ rlog' = [rlog EXCEPT ![i] = Append(@, [term |-> lead[i], command |-> m])]
    /\ UNCHANGED <<lead, elections, decided>>

(* The clerk's call reaches a leader, whose handler calls Start.             *)
Start(c, i) ==
    /\ Trying(c)
    /\ Appended(i, current[c])
    /\ call' = [call EXCEPT ![c] = [Idle EXCEPT !.pc = "started", !.server = i,
                                               !.index = Len(rlog[i]) + 1, !.term = lead[i]]]
    /\ UNCHANGED <<clerkVars, requests, stateVars, deliveryVars, restarts>>

(* Start reads rf.state again after it let go of rf.mu to broadcast, and     *)
(* says that it does not lead, although the entry is in its log.             *)
WrongLeader(c) ==
    /\ call[c].pc = "started"
    /\ ~GetState(call[c].server)
    /\ TryAgain(c)

(* Calls that wait at server i for index x, for a Get or for a PutAppend:    *)
(* the tables kv.get and kv.done have one channel for each index.            *)
WaitingAt(i, x, get) ==
    {c \in Client : /\ call[c].pc = "waiting" /\ call[c].server = i /\ call[c].index = x
                    /\ IsGet(current[c]) = get}

(* The channel enters the table, in place of the one that was there: nobody  *)
(* will write to that one, and its handler can only time out.                *)
Register(c) ==
    LET replaced == WaitingAt(call[c].server, call[c].index, IsGet(current[c])) IN
    /\ call[c].pc = "started"
    /\ call' = [d \in Client |->
                  IF d = c THEN [call[c] EXCEPT !.pc = "waiting"]
                  ELSE IF d \in replaced THEN Idle ELSE call[d]]
    /\ UNCHANGED <<clerkVars, requests, starts, raftVars, stateVars, deliveryVars, restarts>>

(* ErrTimeout after TimeoutInterval.                                         *)
Timeout(c) == call[c].pc = "waiting" /\ TryAgain(c)

(* The handler of an earlier call of the same write, which has returned      *)
(* false, comes to Start while the next call is under way (for a Get, that   *)
(* entry would change nothing and answer nobody).  None is assumed to come   *)
(* after the clerk has been answered elsewhere: it would have to             *)
(* stand still for more than RetryInterval.                                  *)
OrphanStarts(c, i) ==
    /\ call[c].pc # "idle" /\ ~IsGet(current[c])
    /\ Appended(i, current[c])
    /\ UNCHANGED <<clerkVars, call, requests, stateVars, deliveryVars, restarts>>

-----------------------------------------------------------------------------
(* What KVServer uses of Raft.                                               *)

(* A new leader's election takes longer than a handler waits: the calls at   *)
(* server i whose entry was replaced have timed out (TimeoutInterval is not  *)
(* above ElectionTimeoutMin).                                                *)
CallsTimedOut(i) ==
    \A c \in Client :
        call[c].pc \in {"started", "waiting"} /\ call[c].server = i
            => /\ call[c].index <= Len(rlog[i])
               /\ rlog[i][call[c].index] = [term |-> call[c].term, command |-> current[c]]

(* A server that holds everything decided becomes the leader of a new term.  *)
Elect(i) ==
    /\ lead[i] = 0
    /\ elections < MaxElections
    /\ IsPrefix(decided, rlog[i])
    /\ CallsTimedOut(i)
    /\ elections' = elections + 1
    /\ lead' = [lead EXCEPT ![i] = elections + 1]
    /\ UNCHANGED <<clerkVars, call, requests, starts, rlog, decided, stateVars, deliveryVars, restarts>>

(* A leader hears of a newer term, of a leader or of a candidate that need   *)
(* not win; the newest leader only while the bound leaves an election for it.*)
StepDown(i) ==
    /\ lead[i] # 0
    /\ lead[i] < elections \/ elections < MaxElections
    /\ lead' = [lead EXCEPT ![i] = 0]
    /\ UNCHANGED <<clerkVars, call, requests, starts, rlog, elections, decided,
                   stateVars, deliveryVars, restarts>>

Leads(l) == GetState(l) /\ lead[l] = elections

(* Server j takes over the log of the newest leader; a log that only has     *)
(* more entries is left alone.                                               *)
AppendEntries(l, j) ==
    /\ Leads(l) /\ l # j
    /\ ~IsPrefix(rlog[l], rlog[j]) \/ lead[j] # 0
    /\ rlog' = [rlog EXCEPT ![j] = IF IsPrefix(rlog[l], @) THEN @ ELSE rlog[l]]
    /\ lead' = [lead EXCEPT ![j] = 0]
    /\ UNCHANGED <<clerkVars, call, requests, starts, elections, decided,
                   stateVars, deliveryVars, restarts>>

(* The newest leader commits more of its log.                                *)
Commit(l, n) ==
    /\ Leads(l)
    /\ n > Len(decided)
    /\ decided' = SubSeq(rlog[l], 1, n)
    /\ UNCHANGED <<clerkVars, call, requests, starts, rlog, lead, elections,
                   stateVars, deliveryVars, restarts>>

-----------------------------------------------------------------------------
(* DoApply and apply of server.go.                                           *)

State(i) == [kv |-> kv[i], dedup |-> dedup[i], lastApplied |-> lastApplied[i]]

(* The request is the last one its client got through.                       *)
Duplicate(d, m) == d[m.client] = m.id

Written(v, m) == IF m.op = "Put" THEN <<m.id>> ELSE Append(v, m.id)

(* The command at index x.                                                   *)
Decided(x) == decided[x].command

(* apply, up to the snapshot.  A duplicate does not even move lastApplied.   *)
Applied(i, x) ==
    LET m == Decided(x) IN
    CASE IsGet(m) -> [State(i) EXCEPT !.lastApplied = x]
      [] ~IsGet(m) /\ Duplicate(dedup[i], m) -> State(i)
      [] OTHER -> [kv |-> [kv[i] EXCEPT ![m.key] = Written(@, m)],
                   dedup |-> [dedup[i] EXCEPT ![m.client] = m.id], lastApplied |-> x]

SnapshotOfMap(i, x, a) ==
    IF Len(rlog[i]) - persister[i].index + 1 >= maxraftstate
    THEN [index |-> x, kv |-> a.kv, dedup |-> NoDedup]
    ELSE persister[i]

SnapshotAhead(i, x, a) ==
    IF Len(rlog[i]) - persister[i].index + 1 >= maxraftstate
    THEN [index |-> x + 1, kv |-> a.kv, dedup |-> a.dedup]
    ELSE persister[i]

(* The snapshot apply encodes at its end, once GetStateSize, the entries the *)
(* Raft log still has, reaches maxraftstate.                                 *)
Snapshot(i, x, a) ==
    IF Len(rlog[i]) - persister[i].index + 1 >= maxraftstate
    THEN [index |-> x, kv |-> a.kv, dedup |-> a.dedup]
    ELSE persister[i]

AnyAnswered(i, x) == WaitingAt(i, x, IsGet(Decided(x)))

(* The calls DoApply answers at index x: it looks them up by the index only. *)
Answered(i, x) ==
    IF GetState(i) THEN WaitingAt(i, x, IsGet(Decided(x))) ELSE {}

Answer(i, x) ==
    call' = [c \in Client |->
               IF c \in Answered(i, x)
               THEN [Idle EXCEPT !.pc = "answered",
                                 !.value = IF IsGet(current[c])
                                           THEN kv'[i][Decided(x).key] ELSE << >>]
               ELSE call[c]]

(* The next command on applyCh.                                              *)
DoApply(i) ==
    LET x == next[i] + 1
        a == Applied(i, x)
    IN /\ overtaken[i] = 0
       /\ x > lastApplied[i]
       /\ x <= Len(decided) /\ IsPrefix(SubSeq(decided, 1, x), rlog[i])
       /\ next' = [next EXCEPT ![i] = x]
       /\ kv' = [kv EXCEPT ![i] = a.kv]
       /\ dedup' = [dedup EXCEPT ![i] = a.dedup]
       /\ lastApplied' = [lastApplied EXCEPT ![i] = a.lastApplied]
       /\ persister' = [persister EXCEPT ![i] = Snapshot(i, x, a)]
       /\ Answer(i, x)
       /\ UNCHANGED <<clerkVars, requests, starts, raftVars, overtaken, restarts>>

(* apply rejects a command that a snapshot has overtaken, and DoApply still  *)
(* answers the call that waits for it.                                       *)
ApplyRejected(i) ==
    /\ overtaken[i] # 0 /\ overtaken[i] <= lastApplied[i]
    /\ overtaken' = [overtaken EXCEPT ![i] = 0]
    /\ UNCHANGED stateVars
    /\ Answer(i, overtaken[i])
    /\ UNCHANGED <<clerkVars, requests, starts, raftVars, next, persister, restarts>>

(* The log after CondInstallSnapshot: the entries behind the snapshot stay.  *)
(* Entries that continue another log have a term that wins no election and   *)
(* are never committed: they are left out.                                   *)
Spliced(i, x) ==
    LET held == SubSeq(decided, 1, x) IN IF IsPrefix(held, rlog[i]) THEN rlog[i] ELSE held

(* A snapshot of server j that CondInstallSnapshot accepts, and readSnapshot.*)
(* The handler that received it made a leader of an older term step down     *)
(* (StepDown); who was elected since holds what the snapshot holds.          *)
(* Raft may have taken the next command off its log already, and be about to *)
(* write it to applyCh: that matters if a call here is after its index.      *)
(* A snapshot of no more than was delivered is left out: one of as much      *)
(* brings the map that is here already.                                      *)
InstallSnapshot(i, j) ==
    LET s == persister[j] IN
    /\ i # j
    /\ s.index > next[i]
    /\ lead[i] = 0 \/ IsPrefix(SubSeq(decided, 1, s.index), rlog[i])
    /\ next' = [next EXCEPT ![i] = s.index]
    /\ kv' = [kv EXCEPT ![i] = s.kv]
    /\ dedup' = [dedup EXCEPT ![i] = s.dedup]
    /\ lastApplied' = [lastApplied EXCEPT ![i] = s.index]
    /\ persister' = [persister EXCEPT ![i] = s]
    /\ rlog' = [rlog EXCEPT ![i] = Spliced(i, s.index)]
    /\ \/ UNCHANGED overtaken
       \/ /\ overtaken[i] = 0
          /\ \E c \in Client : call[c].server = i /\ call[c].index = next[i] + 1
          /\ IsPrefix(SubSeq(decided, 1, next[i] + 1), rlog[i])
          /\ overtaken' = [overtaken EXCEPT ![i] = next[i] + 1]
    /\ UNCHANGED <<clerkVars, call, requests, starts, lead, elections, decided, restarts>>

(* What readSnapshot restores at a start.                                    *)
Restarted(i) == [kv |-> persister[i].kv, dedup |-> persister[i].dedup]

(* Kill and StartKVServer: handlers are cut off, Raft resumes after the      *)
(* snapshot, and kv.lastApplied begins at 0.  A restart that has nothing to  *)
(* lose is left out.                                                         *)
StartKVServer(i) ==
    /\ restarts < MaxRestarts
    /\ lead[i] # 0 \/ next[i] > persister[i].index
    /\ restarts' = restarts + 1
    /\ lead' = [lead EXCEPT ![i] = 0]
    /\ kv' = [kv EXCEPT ![i] = Restarted(i).kv]
    /\ dedup' = [dedup EXCEPT ![i] = Restarted(i).dedup]
    /\ lastApplied' = [lastApplied EXCEPT ![i] = 0]
    /\ next' = [next EXCEPT ![i] = persister[i].index]
    /\ overtaken' = [overtaken EXCEPT ![i] = 0]
    /\ call' = [c \in Client |-> IF call[c].server = i THEN Idle ELSE call[c]]
    /\ UNCHANGED <<current, since, requests, starts, rlog, elections, decided, persister>>

Next ==
    \/ \E c \in Client, op \in Op, k \in Key : Ask(c, op, k)
    \/ \E c \in Client, i \in Server : Start(c, i) \/ OrphanStarts(c, i)
    \/ \E c \in Client : WrongLeader(c) \/ Register(c) \/ Timeout(c)
    \/ \E c \in Client : ReplyLost(c) \/ Return(c)
    \/ \E i \in Server : Elect(i) \/ StepDown(i)
    \/ \E i, j \in Server : AppendEntries(i, j) \/ InstallSnapshot(i, j)
    \/ \E i \in Server : \E n \in 1..Len(rlog[i]) : Commit(i, n)
    \/ \E i \in Server : DoApply(i) \/ ApplyRejected(i) \/ StartKVServer(i)

Spec == Init /\ [][Next]_vars
-----------------------------------------------------------------------------
TypeOK ==
    /\ \A c \in Client :
         /\ call[c].server \in Server \cup {Nil}
         /\ call[c].pc \in {"idle", "started", "waiting", "answered"}
         /\ call[c].index \in 0..MaxStarts /\ since[c] \in 0..Len(decided)
         /\ call[c].pc # "idle" => current[c] # Nil
    /\ \A i \in Server :
         /\ lead[i] \in 0..elections
         /\ next[i] \in 0..Len(decided) /\ lastApplied[i] \in 0..next[i]
         /\ overtaken[i] \in 0..next[i] /\ persister[i].index \in 0..next[i]
    /\ requests \in 0..MaxRequests /\ starts \in 0..MaxStarts /\ elections \in 0..MaxElections
    /\ restarts \in 0..MaxRestarts

(* The places among the first n decided entries where a write stands first.  *)
Firsts(n) ==
    {x \in 1..n : ~IsGet(Decided(x)) /\ \A y \in 1..(x - 1) : Decided(y) # Decided(x)}

(* Those of key k that no later Put overwrites.                              *)
Live(n, k) ==
    {x \in Firsts(n) : /\ Decided(x).key = k
                       /\ \A y \in Firsts(n) : Decided(y).key = k /\ Decided(y).op = "Put" => y <= x}

(* What the writes at these places left, in the order of the log.            *)
Content(places) ==
    [p \in 1..Cardinality(places) |->
       Decided(CHOOSE x \in places : Cardinality({y \in places : y <= x}) = p).id]

(* The map that the first n decided entries stand for when each write counts *)
(* once, at its first place in the log.                                      *)
Replay(n) == [k \in Key |-> Content(Live(n, k))]

(* A write counts once on every server, however often its clerk sent it      *)
(* again, whatever came as a snapshot instead and wherever a server started  *)
(* again, although dedup holds one request of each client (apply,            *)
(* readSnapshot).                                                            *)
ExactlyOnce == \A i \in Server : kv[i] = Replay(next[i])

(* A reply OK means what the clerk takes it for: a write has taken effect,   *)
(* and a Get returns a value the key had since the clerk was asked, although *)
(* the handlers find their channel by the log index alone and a former       *)
(* leader may still answer (Get, PutAppend, DoApply).                        *)
Linearizable ==
    \A c \in Client :
        call[c].pc = "answered" =>
            LET m == current[c] IN
            IF IsGet(m)
            THEN \E n \in since[c]..Len(decided) : call[c].value = Replay(n)[m.key]
            ELSE \E x \in 1..Len(decided) : Decided(x) = m
=============================================================================
