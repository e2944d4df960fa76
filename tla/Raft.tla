------------------------------- MODULE Raft -------------------------------
(* The Raft peer of raft/raft.go with the part of the service that reads     *)
(* applyCh (DoApply of raft-db/server.go).  Every handler runs under rf.mu,  *)
(* so a handler is one action.  Where the code unlocks and calls a peer, the *)
(* call becomes messages: the request, and the reply the goroutine waits for.*)
EXTENDS Integers, Sequences, FiniteSets, SequencesExt

CONSTANTS
    Server,         \* the peers
    Command,        \* what clients hand to Start
    Nil,            \* votedFor = -1, Command = nil
    maxraftstate,   \* log length that triggers a snapshot, -1 for never
    MaxElections,   \* bound: elections in a behaviour
    MaxIndex,       \* bound: highest log index Start may create
    MaxApplies,     \* bound: entries DoApply takes in a behaviour
    MaxCrashes,     \* bound: crashes in a behaviour
    MaxRequests,    \* bound: AppendEntries/InstallSnapshot requests on the wire
    MaxReplies      \* bound: replies to them that a leader waits for

ASSUME ServerAssumption == IsFiniteSet(Server)
ASSUME NilAssumption == Nil \notin Server /\ Nil \notin Command
ASSUME BoundAssumption ==
    /\ MaxElections \in Nat /\ MaxIndex \in Nat /\ MaxApplies \in Nat
    /\ MaxCrashes \in Nat /\ MaxRequests \in Nat /\ MaxReplies \in Nat
    /\ maxraftstate \in Nat \cup {-1}

VARIABLES
    state, term, votedFor,      \* rf.state, rf.term, rf.votedFor
    votes,                      \* DoElection's local count, as the set of voters
    log,                        \* rf.log; the first entry is the snapshot's
    commitIndex, lastApplied,
    nextIndex, matchIndex,
    persister,                  \* the bytes of persister.go, decoded
    pending,                    \* the command DoApply is sending on applyCh
    snapMsgs,                   \* the snapshots waiting to be sent on applyCh
    service,                    \* the service: its lastApplied and its state
    voteReqs, voteReplies,      \* RequestVote RPCs on the wire
    appendReqs, appendReplies,  \* AppendEntries RPCs on the wire
    snapReqs, snapReplies,      \* InstallSnapshot RPCs on the wire
    elections, applies, crashes,\* how many there were
    elected,                    \* history: who became leader, by which votes
    committed,                  \* history: the entries leaders have committed
    leaderLog,                  \* history: for each term won, its leader's whole log
    acked                       \* history: who stored a leader's log up to where

serverVars == <<state, term, votedFor, votes>>
logVars == <<log, commitIndex, lastApplied>>
leaderVars == <<nextIndex, matchIndex>>
serviceVars == <<pending, snapMsgs, service>>
voteNet == <<voteReqs, voteReplies>>
logNet == <<appendReqs, appendReplies, snapReqs, snapReplies>>
counters == <<elections, applies, crashes>>
history == <<elected, committed, leaderLog, acked>>
vars == <<serverVars, logVars, leaderVars, persister, serviceVars, voteNet,
          logNet, counters, history>>

Entry == [term : Nat, index : Nat, cmd : Command \cup {Nil}]

-----------------------------------------------------------------------------
(* Helpers on the log.                                                       *)

IsMajority(S) == Cardinality(S) >= Cardinality(Server) \div 2 + 1

Base(l) == l[1].index

LogTail(l) == l[Len(l)]

LogIndexToSubscript(l, x) == x - Base(l) + 1

(* GetLogAtIndex returns nil exactly when HasIndex is false.                 *)
HasIndex(l, x) == x >= Base(l) /\ LogIndexToSubscript(l, x) <= Len(l)

GetLogAtIndex(l, x) == l[LogIndexToSubscript(l, x)]

AlwaysUpToDate(m, l) == TRUE

isAtLeastUpToDate(m, l) ==
    IF m.lastTerm = LogTail(l).term THEN m.lastIndex >= LogTail(l).index
                                    ELSE m.lastTerm >= LogTail(l).term

PrevMissingIgnored(m, l) ==
    HasIndex(l, m.prevIndex) /\ GetLogAtIndex(l, m.prevIndex).term # m.prevTerm

(* The consistency check of AppendEntries fails.                             *)
PrevConflict(m, l) ==
    /\ m.prevIndex > 0
    /\ m.prevIndex >= Base(l)
    /\ ~ (HasIndex(l, m.prevIndex) /\ GetLogAtIndex(l, m.prevIndex).term = m.prevTerm)

MergeKeepingConflicts(l, es) ==
    l \o SelectSeq(es, LAMBDA e : e.index > LogTail(l).index)

(* What AppendEntries makes of its log l given the entries es.               *)
Merge(l, es) ==
    LET present == {k \in DOMAIN es : HasIndex(l, es[k].index)}
        conflict == {k \in present : GetLogAtIndex(l, es[k].index).term # es[k].term}
        first == Min(conflict)
        kept == IF conflict = {} THEN l
                ELSE SubSeq(l, 1, LogIndexToSubscript(l, es[first].index) - 1)
        appendLeft == IF conflict # {} THEN first
                      ELSE IF present = {} THEN 1 ELSE Max(present) + 1
    IN IF es = << >> \/ LogTail(es).index < Base(l) THEN l
       ELSE kept \o SubSeq(es, appendLeft, Len(es))

(* The hint of a failed AppendEntries: the first index of the term found at  *)
(* PrevLogIndex, or the tail when the log is too short.                      *)
Conflicting(m, l) ==
    IF HasIndex(l, m.prevIndex)
    THEN LET t == GetLogAtIndex(l, m.prevIndex).term
             first == Min({k \in DOMAIN l : l[k].term = t})
         IN [term |-> t, index |-> l[first].index]
    ELSE [term |-> 0, index |-> LogTail(l).index]

BackOffToZero(next, m, l) == Min({next, m.conflict.index})

(* Where the leader's log l continues after that hint.                       *)
BackOff(next, m, l) ==
    LET same == {k \in 2..Len(l) : l[k].term = m.conflict.term}
    IN IF m.conflict.term > 0 /\ same # {}
       THEN Min({next, l[Max(same)].index + 1})
       ELSE Max({Min({next, m.conflict.index}), 1})

CommitOfAnyTerm(l, commit, match, t, last) ==
    Max({x \in commit..last : IsMajority({p \in Server : match[p] >= x})} \cup {commit})

(* The commit index Sync computes from the leader's matchIndex.              *)
NewCommit(l, commit, match, t, last) ==
    LET agreed == {x \in commit..last :
                     /\ IsMajority({p \in Server : match[p] >= x})
                     /\ GetLogAtIndex(l, x).term = t}
    IN Max(agreed \cup {commit})

-----------------------------------------------------------------------------
Sentinel == [term |-> 0, index |-> 0, cmd |-> Nil]

Init ==
    /\ state = [i \in Server |-> "Follower"]
    /\ term = [i \in Server |-> 0]
    /\ votedFor = [i \in Server |-> Nil]
    /\ votes = [i \in Server |-> {}]
    /\ log = [i \in Server |-> <<Sentinel>>]
    /\ commitIndex = [i \in Server |-> 0]
    /\ lastApplied = [i \in Server |-> 0]
    /\ matchIndex = [i \in Server |-> [peer \in Server |-> 0]]
    /\ nextIndex = [i \in Server |-> [peer \in Server |-> 1]]
    /\ persister = [i \in Server |-> [term |-> 0, votedFor |-> Nil,
                                      log |-> <<Sentinel>>, snapshot |-> << >>]]
    /\ pending = [i \in Server |-> << >>]
    /\ snapMsgs = [i \in Server |-> {}]
    /\ service = [i \in Server |-> [lastApplied |-> 0, state |-> << >>]]
    /\ voteReqs = {} /\ voteReplies = {}
    /\ appendReqs = {} /\ appendReplies = {}
    /\ snapReqs = {} /\ snapReplies = {}
    /\ elections = 0 /\ applies = 0 /\ crashes = 0
    /\ elected = {}
    /\ committed = {}
    /\ leaderLog = [t \in {0} |-> << >>]
    /\ acked = {}

PersistLogOnly(i) == persister' = [persister EXCEPT ![i].log = log'[i]]

PersistVoteOnly(i) ==
    persister' = [persister EXCEPT ![i].term = term'[i], ![i].votedFor = votedFor'[i]]

(* persist: term, votedFor and log as the handler leaves them.               *)
Persist(i) ==
    persister' = [persister EXCEPT ![i] =
        [term |-> term'[i], votedFor |-> votedFor'[i], log |-> log'[i],
         snapshot |-> @.snapshot]]

SaveStateOnly(i, data) == Persist(i)

(* SaveStateAndSnapshot: the same, together with the service's snapshot.     *)
SaveStateAndSnapshot(i, data) ==
    persister' = [persister EXCEPT ![i] =
        [term |-> term'[i], votedFor |-> votedFor'[i], log |-> log'[i], snapshot |-> data]]

(* The count of a candidacy is dropped with it.                              *)
BecomeFollower(i) ==
    /\ state' = [state EXCEPT ![i] = "Follower"]
    /\ votes' = [votes EXCEPT ![i] = {}]

(* becomeFollower and resetTerm of a handler that learns of term t.          *)
StepDown(i, t) ==
    /\ BecomeFollower(i)
    /\ term' = [term EXCEPT ![i] = t]
    /\ votedFor' = [votedFor EXCEPT ![i] = Nil]

-----------------------------------------------------------------------------
(* Elections.                                                                *)

DoElection(i) ==
    /\ state[i] # "Leader"
    /\ elections < MaxElections
    /\ elections' = elections + 1
    /\ state' = [state EXCEPT ![i] = "Candidate"]
    /\ term' = [term EXCEPT ![i] = term[i] + 1]
    /\ votedFor' = [votedFor EXCEPT ![i] = i]
    /\ votes' = [votes EXCEPT ![i] = {i}]
    /\ voteReqs' = voteReqs \cup
         {[from |-> i, to |-> j, term |-> term[i] + 1, lastIndex |-> LogTail(log[i]).index,
           lastTerm |-> LogTail(log[i]).term] : j \in Server \ {i}}
    /\ UNCHANGED <<logVars, leaderVars, serviceVars, voteReplies, logNet, applies, crashes, history>>
    /\ Persist(i)

ReplyVote(m, granted) ==
    /\ voteReqs' = voteReqs \ {m}
    /\ voteReplies' = voteReplies \cup
         {[from |-> m.to, to |-> m.from, term |-> m.term,
           replyTerm |-> term[m.to], granted |-> granted]}
    /\ UNCHANGED <<logVars, leaderVars, serviceVars, logNet, counters, history>>

RequestVoteStale(m) ==
    /\ m.term < term[m.to]
    /\ ReplyVote(m, FALSE)
    /\ UNCHANGED <<serverVars, persister>>

(* votedFor after the term check of RequestVote.                             *)
VotedInTerm(m) == IF m.term > term[m.to] THEN Nil ELSE votedFor[m.to]

VoteAgain(m) == isAtLeastUpToDate(m, log[m.to])

CanVote(m) == VotedInTerm(m) \in {Nil, m.from} /\ isAtLeastUpToDate(m, log[m.to])

RequestVoteGrant(m) ==
    /\ m.term >= term[m.to]
    /\ CanVote(m)
    /\ ReplyVote(m, TRUE)
    /\ IF m.term > term[m.to] THEN BecomeFollower(m.to) ELSE UNCHANGED <<state, votes>>
    /\ term' = [term EXCEPT ![m.to] = m.term]
    /\ votedFor' = [votedFor EXCEPT ![m.to] = m.from]
    /\ Persist(m.to)

RequestVoteDeny(m) ==
    /\ m.term >= term[m.to]
    /\ ~ CanVote(m)
    /\ ReplyVote(m, FALSE)
    /\ IF m.term > term[m.to] THEN StepDown(m.to, m.term) /\ Persist(m.to)
                              ELSE UNCHANGED <<serverVars, persister>>

RequestVote(m) == RequestVoteStale(m) \/ RequestVoteGrant(m) \/ RequestVoteDeny(m)

(* The reply m finds the candidacy it was sent for still running.            *)
CandidacyRuns(m) == state[m.to] = "Candidate" /\ term[m.to] = m.term

VoteReplyIgnored(m) ==
    /\ ~ CandidacyRuns(m) \/ (m.replyTerm <= m.term /\ ~ m.granted)
    /\ UNCHANGED <<serverVars, logVars, leaderVars, persister, elected, leaderLog>>

VoteReplyStepDown(m) ==
    /\ CandidacyRuns(m)
    /\ m.replyTerm > m.term
    /\ StepDown(m.to, m.replyTerm)
    /\ UNCHANGED <<logVars, leaderVars, elected, leaderLog>>
    /\ Persist(m.to)

VoteReplyCount(m) ==
    /\ CandidacyRuns(m)
    /\ m.replyTerm <= m.term
    /\ m.granted
    /\ ~ IsMajority(votes[m.to] \cup {m.from})
    /\ votes' = [votes EXCEPT ![m.to] = @ \cup {m.from}]
    /\ UNCHANGED <<state, term, votedFor, logVars, leaderVars, persister, elected, leaderLog>>

(* The log of server i from the first entry on: what its snapshot replaced,  *)
(* and what follows its base.                                                *)
FullLog(i) == persister[i].snapshot \o SubSeq(log[i], 2, Len(log[i]))

VoteReplyWin(m) ==
    /\ CandidacyRuns(m)
    /\ m.replyTerm <= m.term
    /\ m.granted
    /\ IsMajority(votes[m.to] \cup {m.from})
    /\ state' = [state EXCEPT ![m.to] = "Leader"]
    /\ votes' = [votes EXCEPT ![m.to] = {}]
    /\ nextIndex' = [nextIndex EXCEPT ![m.to] =
                       [j \in Server |-> LogTail(log[m.to]).index + 1]]
    /\ matchIndex' = [matchIndex EXCEPT ![m.to] =
                       [j \in Server |-> IF j = m.to THEN LogTail(log[m.to]).index ELSE 0]]
    /\ elected' = elected \cup {[term |-> m.term, leader |-> m.to,
                                 votes |-> votes[m.to] \cup {m.from}]}
    /\ leaderLog' = [t \in DOMAIN leaderLog \cup {m.term} |->
                       IF t = m.term THEN FullLog(m.to) ELSE leaderLog[t]]
    /\ UNCHANGED <<term, votedFor, logVars, persister>>

VoteReply(m) ==
    /\ \/ VoteReplyIgnored(m) \/ VoteReplyStepDown(m)
       \/ VoteReplyCount(m) \/ VoteReplyWin(m)
    /\ voteReplies' = voteReplies \ {m}
    /\ UNCHANGED <<serviceVars, voteReqs, logNet, counters, committed, acked>>

-----------------------------------------------------------------------------
(* Replication.  The heartbeat timer sends the same request any number of    *)
(* times, so a request or reply stays on the wire after a delivery and goes  *)
(* away by Drop.                                                             *)

Start(i, c) ==
    LET e == [term |-> term[i], index |-> LogTail(log[i]).index + 1, cmd |-> c] IN
    /\ state[i] = "Leader"
    /\ LogTail(log[i]).index < MaxIndex
    /\ log' = [log EXCEPT ![i] = Append(@, e)]
    /\ matchIndex' = [matchIndex EXCEPT ![i][i] = @ + 1]
    /\ leaderLog' = [leaderLog EXCEPT ![e.term] = Append(@, e)]
    /\ acked' = acked \cup {[server |-> i, term |-> e.term, index |-> e.index]}
    /\ UNCHANGED <<serverVars, commitIndex, lastApplied, nextIndex, serviceVars,
                   voteNet, logNet, counters, elected, committed>>
    /\ Persist(i)

(* Sync's goroutine and its args die with the process, and a leader keeps    *)
(* its state as long as its term, so the reply is for a leader of m.term.    *)
LeadsTerm(m) == state[m.to] = "Leader" /\ term[m.to] = m.term

(* Requests that can still change a server or get a reply somebody waits for.*)
LiveRequest(m) == m.term >= term[m.to] \/ (state[m.from] = "Leader" /\ term[m.from] = m.term)

RoomForRequest == Cardinality({m \in appendReqs : LiveRequest(m)})
                  + Cardinality({m \in snapReqs : LiveRequest(m)}) < MaxRequests

RoomForReply == Cardinality({m \in appendReplies : LeadsTerm(m)})
                + Cardinality({m \in snapReplies : LeadsTerm(m)}) < MaxReplies

(* Replicate finds the entry before the next one; it panics when it is nil.  *)
PrevInLog(i, j) == HasIndex(log[i], nextIndex[i][j] - 1)

(* Replicate to a peer whose next entry is still in the log.                 *)
SendEntries(i, j) ==
    LET prev == GetLogAtIndex(log[i], nextIndex[i][j] - 1) IN
    /\ state[i] = "Leader"
    /\ nextIndex[i][j] > Base(log[i])
    /\ PrevInLog(i, j)
    /\ RoomForRequest
    /\ appendReqs' = appendReqs \cup
         {[from |-> i, to |-> j, term |-> term[i],
           prevIndex |-> prev.index, prevTerm |-> prev.term,
           entries |-> SubSeq(log[i], LogIndexToSubscript(log[i], nextIndex[i][j]), Len(log[i])),
           leaderCommit |-> commitIndex[i]]}
    /\ UNCHANGED <<serverVars, logVars, leaderVars, persister, serviceVars, voteNet,
                   appendReplies, snapReqs, snapReplies, counters, history>>

(* Replicate to a peer that needs an entry the snapshot replaced.            *)
SendSnapshot(i, j) ==
    /\ state[i] = "Leader"
    /\ nextIndex[i][j] <= Base(log[i])
    /\ RoomForRequest
    /\ snapReqs' = snapReqs \cup
         {[from |-> i, to |-> j, term |-> term[i], index |-> Base(log[i]),
           lastTerm |-> log[i][1].term, data |-> persister[i].snapshot]}
    /\ UNCHANGED <<serverVars, logVars, leaderVars, persister, serviceVars, voteNet,
                   appendReqs, appendReplies, snapReplies, counters, history>>

Replicate(i, j) == SendEntries(i, j) \/ SendSnapshot(i, j)

(* An AppendEntries or InstallSnapshot of term t makes its receiver reset.   *)
Resets(i, t) == t > term[i] \/ state[i] = "Candidate"

(* What its term does to the receiver, a resetTerm included: votedFor is     *)
(* cleared even when a candidate hears from the leader of its own term.      *)
AcceptLeader(i, t) ==
    IF Resets(i, t) THEN StepDown(i, t) ELSE UNCHANGED serverVars

ReplyAppend(m, success, conflict) ==
    /\ RoomForReply
    /\ appendReplies' = appendReplies \cup
         {[from |-> m.to, to |-> m.from, term |-> m.term, replyTerm |-> term[m.to],
           last |-> IF m.entries = << >> THEN 0 ELSE LogTail(m.entries).index,
           success |-> success, conflict |-> conflict]}
    /\ UNCHANGED <<lastApplied, leaderVars, serviceVars, voteNet, appendReqs,
                   snapReqs, snapReplies, counters, elected, committed, leaderLog>>

NoConflict == [term |-> 0, index |-> 0]

AppendEntriesStale(m) ==
    /\ m.term < term[m.to]
    /\ ReplyAppend(m, FALSE, NoConflict)
    /\ UNCHANGED <<serverVars, log, commitIndex, persister, acked>>

AppendEntriesConflict(m) ==
    /\ m.term >= term[m.to]
    /\ PrevConflict(m, log[m.to])
    /\ ReplyAppend(m, FALSE, Conflicting(m, log[m.to]))
    /\ AcceptLeader(m.to, m.term)
    /\ UNCHANGED <<log, commitIndex, acked>>
    /\ IF Resets(m.to, m.term) THEN Persist(m.to) ELSE UNCHANGED persister

CommitToTail(leaderCommit, commit, l) ==
    IF leaderCommit > commit THEN LogTail(l).index ELSE commit

(* The commit index AppendEntries leaves, l being the merged log.            *)
FollowerCommit(leaderCommit, commit, l) ==
    IF leaderCommit > commit THEN Min({leaderCommit, LogTail(l).index}) ELSE commit

(* The record of the entries of request m that its receiver stores: none if  *)
(* its snapshot has replaced them all.                                       *)
StoredBy(m) ==
    IF m.entries = << >> \/ LogTail(m.entries).index <= Base(log[m.to]) THEN {}
    ELSE {[server |-> m.to, term |-> m.term, index |-> LogTail(m.entries).index]}

AppendEntriesAccept(m) ==
    /\ m.term >= term[m.to]
    /\ ~ PrevConflict(m, log[m.to])
    /\ ReplyAppend(m, TRUE, NoConflict)
    /\ AcceptLeader(m.to, m.term)
    /\ log' = [log EXCEPT ![m.to] = Merge(@, m.entries)]
    /\ commitIndex' = [commitIndex EXCEPT ![m.to] =
                         FollowerCommit(m.leaderCommit, @, log'[m.to])]
    /\ acked' = acked \cup StoredBy(m)
    /\ IF Resets(m.to, m.term) \/ m.entries # << >> THEN Persist(m.to)
                                                    ELSE UNCHANGED persister

AppendEntries(m) ==
    AppendEntriesStale(m) \/ AppendEntriesConflict(m) \/ AppendEntriesAccept(m)

ReplyStepDown(m) ==
    /\ LeadsTerm(m)
    /\ m.replyTerm > term[m.to]
    /\ StepDown(m.to, m.replyTerm)
    /\ UNCHANGED <<logVars, leaderVars, serviceVars, voteNet, logNet, counters, history>>
    /\ Persist(m.to)

MatchedNext(m) == m.last + 1

MatchedAtTail(m) == LogTail(log[m.to]).index

(* How far Sync knows the follower to match: the last entry of the request.  *)
Matched(m) == m.last

SyncSuccess(m) ==
    LET i == m.to IN
    /\ LeadsTerm(m)
    /\ m.replyTerm <= term[i]
    /\ m.success
    /\ m.last > 0
    /\ matchIndex' = [matchIndex EXCEPT ![i][m.from] = Matched(m)]
    /\ nextIndex' = [nextIndex EXCEPT ![i][m.from] = Matched(m) + 1]
    /\ commitIndex' = [commitIndex EXCEPT ![i] =
                         NewCommit(log[i], @, matchIndex'[i], term[i], Matched(m))]
    /\ committed' = committed \cup
         {e \in {log[i][k] : k \in 2..Len(log[i])} : e.index <= commitIndex'[i]}
    /\ UNCHANGED <<serverVars, log, lastApplied, persister, serviceVars, voteNet,
                   logNet, counters, elected, leaderLog, acked>>

SyncFailure(m) ==
    LET i == m.to IN
    /\ LeadsTerm(m)
    /\ m.replyTerm = term[i]
    /\ ~ m.success
    /\ matchIndex' = [matchIndex EXCEPT ![i][m.from] = 0]
    /\ nextIndex' = [nextIndex EXCEPT ![i][m.from] = BackOff(@, m, log[i])]
    /\ UNCHANGED <<serverVars, logVars, persister, serviceVars, voteNet, logNet,
                   counters, history>>

Sync(m) == ReplyStepDown(m) \/ SyncSuccess(m) \/ SyncFailure(m)

-----------------------------------------------------------------------------
(* Snapshots.                                                                *)

ReplySnapshot(m) ==
    /\ RoomForReply
    /\ snapReplies' = snapReplies \cup
         {[from |-> m.to, to |-> m.from, term |-> m.term, index |-> m.index,
           replyTerm |-> term[m.to]]}
    /\ UNCHANGED <<logVars, leaderVars, pending, service, voteNet, appendReqs,
                   appendReplies, snapReqs, counters, history>>

InstallSnapshotStale(m) ==
    /\ m.term < term[m.to]
    /\ ReplySnapshot(m)
    /\ UNCHANGED <<serverVars, persister, snapMsgs>>

InstallSnapshotAccept(m) ==
    /\ m.term >= term[m.to]
    /\ ReplySnapshot(m)
    /\ AcceptLeader(m.to, m.term)
    /\ snapMsgs' = [snapMsgs EXCEPT ![m.to] = @ \cup
                      {[index |-> m.index, term |-> m.lastTerm, data |-> m.data]}]
    /\ IF Resets(m.to, m.term) THEN Persist(m.to) ELSE UNCHANGED persister

InstallSnapshot(m) == InstallSnapshotStale(m) \/ InstallSnapshotAccept(m)

InstallReplyNext(m) ==
    /\ LeadsTerm(m)
    /\ m.replyTerm <= term[m.to]
    /\ nextIndex' = [nextIndex EXCEPT ![m.to][m.from] = m.index + 1]
    /\ UNCHANGED <<serverVars, logVars, matchIndex, persister, serviceVars, voteNet,
                   logNet, counters, history>>

InstallReply(m) == ReplyStepDown(m) \/ InstallReplyNext(m)

-----------------------------------------------------------------------------
(* The apply loop and the service behind applyCh.                            *)

(* DoApply finds the entry to apply; it panics when it is nil.               *)
NextInLog(i) == HasIndex(log[i], lastApplied[i] + 1)

(* DoApply takes one entry and blocks on applyCh until the service reads it. *)
DoApply(i) ==
    /\ pending[i] = << >>
    /\ commitIndex[i] > lastApplied[i]
    /\ NextInLog(i)
    /\ applies < MaxApplies
    /\ applies' = applies + 1
    /\ lastApplied' = [lastApplied EXCEPT ![i] = @ + 1]
    /\ pending' = [pending EXCEPT ![i] = <<GetLogAtIndex(log[i], lastApplied[i] + 1)>>]
    /\ UNCHANGED <<serverVars, log, commitIndex, leaderVars, persister, snapMsgs,
                   service, voteNet, logNet, elections, crashes, history>>

(* Raft.Snapshot at an index of the log.                                     *)
Trim(l, x) == [SubSeq(l, LogIndexToSubscript(l, x), Len(l)) EXCEPT ![1].cmd = Nil]

(* Raft.Snapshot finds the entry it is asked to snapshot up to.              *)
SnapshotDue(i, x) ==
    /\ maxraftstate # -1
    /\ Len(log[i]) >= maxraftstate
    /\ \E k \in DOMAIN log[i] : log[i][k].index = x

AlwaysFresh(i) == TRUE

(* The service has not executed the command DoApply sends it.                *)
Fresh(i) == pending[i][1].index > service[i].lastApplied

ApplyRejected(i) ==
    /\ pending[i] # << >>
    /\ ~ Fresh(i)
    /\ pending' = [pending EXCEPT ![i] = << >>]
    /\ UNCHANGED <<serverVars, logVars, leaderVars, persister, snapMsgs, service,
                   voteNet, logNet, counters, history>>

(* apply of the service, with the snapshot it takes at its end.              *)
Apply(i) ==
    LET e == pending[i][1] IN
    /\ pending[i] # << >>
    /\ Fresh(i)
    /\ pending' = [pending EXCEPT ![i] = << >>]
    /\ service' = [service EXCEPT ![i] = [lastApplied |-> e.index,
                                          state |-> Append(@.state, e)]]
    /\ UNCHANGED <<serverVars, commitIndex, lastApplied, leaderVars, snapMsgs,
                   voteNet, logNet, counters, history>>
    /\ IF SnapshotDue(i, e.index)
       THEN /\ log' = [log EXCEPT ![i] = Trim(@, e.index)]
            /\ SaveStateAndSnapshot(i, service'[i].state)
       ELSE UNCHANGED <<log, persister>>

InstalledWithoutSuffix(l, s) == <<[term |-> s.term, index |-> s.index, cmd |-> Nil]>>

InstalledTwice(l, s) ==
    <<[term |-> s.term, index |-> s.index, cmd |-> Nil]>>
    \o SelectSeq(l, LAMBDA e : e.index >= s.index)

(* The log CondInstallSnapshot leaves: its first entry becomes the snapshot's*)
Installed(l, s) ==
    LET rest == IF s.index >= LogTail(l).index THEN << >>
                ELSE SubSeq(l, LogIndexToSubscript(l, s.index) + 1, Len(l))
    IN <<[term |-> s.term, index |-> s.index, cmd |-> Nil]>> \o rest

NeverOutdated(i, s) == FALSE

(* The check CondInstallSnapshot starts with.                                *)
Outdated(i, s) == s.index < commitIndex[i]

SnapshotRejected(i, s) ==
    /\ Outdated(i, s)
    /\ snapMsgs' = [snapMsgs EXCEPT ![i] = @ \ {s}]
    /\ UNCHANGED <<serverVars, logVars, leaderVars, persister, pending, service,
                   voteNet, logNet, counters, history>>

CondInstallSnapshot(i, s) ==
    /\ ~ Outdated(i, s)
    /\ s.index >= Base(log[i])      \* or the slice expression panics
    /\ snapMsgs' = [snapMsgs EXCEPT ![i] = @ \ {s}]
    /\ log' = [log EXCEPT ![i] = Installed(@, s)]
    /\ commitIndex' = [commitIndex EXCEPT ![i] = s.index]
    /\ lastApplied' = [lastApplied EXCEPT ![i] = s.index]
    /\ service' = [service EXCEPT ![i] = [lastApplied |-> s.index, state |-> s.data]]
    /\ UNCHANGED <<serverVars, leaderVars, pending, voteNet, logNet, counters, history>>
    /\ SaveStateAndSnapshot(i, s.data)

-----------------------------------------------------------------------------
(* Failures.                                                                 *)

RestartAtZero(p) == 0

(* commitIndex and lastApplied as readPersist sets them.                     *)
RestartIndex(p) == Base(p.log)

(* The process dies after its last persist left p; Make and the service's    *)
(* start rebuild the peer from the persister.                                *)
Restart(i, p) ==
    /\ crashes < MaxCrashes
    /\ crashes' = crashes + 1
    /\ state' = [state EXCEPT ![i] = "Follower"]
    /\ votes' = [votes EXCEPT ![i] = {}]
    /\ persister' = [persister EXCEPT ![i] = p]
    /\ term' = [term EXCEPT ![i] = p.term]
    /\ votedFor' = [votedFor EXCEPT ![i] = p.votedFor]
    /\ log' = [log EXCEPT ![i] = p.log]
    /\ commitIndex' = [commitIndex EXCEPT ![i] = RestartIndex(p)]
    /\ lastApplied' = [lastApplied EXCEPT ![i] = RestartIndex(p)]
    /\ matchIndex' = [matchIndex EXCEPT ![i] = [peer \in Server |-> 0]]
    /\ pending' = [pending EXCEPT ![i] = << >>]
    /\ nextIndex' = [nextIndex EXCEPT ![i] = [peer \in Server |-> 1]]
    /\ snapMsgs' = [snapMsgs EXCEPT ![i] = {}]
    /\ service' = [service EXCEPT ![i] = [lastApplied |-> 0, state |-> p.snapshot]]

Crash(i) ==
    /\ Restart(i, persister[i])
    /\ UNCHANGED <<voteNet, logNet, elections, applies, history>>

ResetBeforeRead(i, t) ==
    [persister[i] EXCEPT !.term = t, !.votedFor = Nil, !.log = SubSeq(@, 1, 1)]

(* What resetTerm(t) has written when the process dies before the handler's  *)
(* next persist.                                                             *)
AfterResetTerm(i, t) == [persister[i] EXCEPT !.term = t, !.votedFor = Nil]

CrashInElection(i) ==
    /\ state[i] # "Leader"
    /\ elections < MaxElections
    /\ elections' = elections + 1
    /\ Restart(i, AfterResetTerm(i, term[i] + 1))
    /\ UNCHANGED <<voteNet, logNet, applies, history>>

CrashInRequestVote(m) ==
    /\ m.term > term[m.to]
    /\ Restart(m.to, AfterResetTerm(m.to, m.term))
    /\ voteReqs' = voteReqs \ {m}
    /\ UNCHANGED <<voteReplies, logNet, elections, applies, history>>

CrashInAppendEntries(m) ==
    /\ m.term >= term[m.to]
    /\ Resets(m.to, m.term)
    /\ Restart(m.to, AfterResetTerm(m.to, m.term))
    /\ UNCHANGED <<voteNet, logNet, elections, applies, history>>

Drop ==
    /\ \/ \E m \in appendReqs : appendReqs' = appendReqs \ {m} /\ UNCHANGED <<appendReplies, snapReqs, snapReplies>>
       \/ \E m \in appendReplies : appendReplies' = appendReplies \ {m} /\ UNCHANGED <<appendReqs, snapReqs, snapReplies>>
       \/ \E m \in snapReqs : snapReqs' = snapReqs \ {m} /\ UNCHANGED <<appendReqs, appendReplies, snapReplies>>
       \/ \E m \in snapReplies : snapReplies' = snapReplies \ {m} /\ UNCHANGED <<appendReqs, appendReplies, snapReqs>>
    /\ UNCHANGED <<serverVars, logVars, leaderVars, persister, serviceVars, voteNet,
                   counters, history>>

-----------------------------------------------------------------------------
Next ==
    \/ \E i \in Server : DoElection(i)
    \/ \E m \in voteReqs : RequestVote(m)
    \/ \E m \in voteReplies : VoteReply(m)
    \/ \E i \in Server, c \in Command : Start(i, c)
    \/ \E i \in Server, j \in Server : i # j /\ Replicate(i, j)
    \/ \E m \in appendReqs : AppendEntries(m)
    \/ \E m \in appendReplies : Sync(m)
    \/ \E m \in snapReqs : InstallSnapshot(m)
    \/ \E m \in snapReplies : InstallReply(m)
    \/ \E i \in Server : DoApply(i) \/ ApplyRejected(i) \/ Apply(i)
    \/ \E i \in Server : \E s \in snapMsgs[i] : SnapshotRejected(i, s) \/ CondInstallSnapshot(i, s)
    \/ \E i \in Server : Crash(i) \/ CrashInElection(i)
    \/ \E m \in voteReqs : CrashInRequestVote(m)
    \/ \E m \in appendReqs : CrashInAppendEntries(m)
    \/ Drop

Spec == Init /\ [][Next]_vars
-----------------------------------------------------------------------------
(* Properties.                                                               *)

VoteReq == [from : Server, to : Server, term : Nat, lastIndex : Nat, lastTerm : Nat]
VoteRep == [from : Server, to : Server, term : Nat, replyTerm : Nat, granted : BOOLEAN]
AppendReq == [from : Server, to : Server, term : Nat, prevIndex : Nat, prevTerm : Nat,
              entries : Seq(Entry), leaderCommit : Nat]
AppendRep == [from : Server, to : Server, term : Nat, replyTerm : Nat, last : Nat,
              success : BOOLEAN, conflict : [term : Nat, index : Nat]]
SnapReq == [from : Server, to : Server, term : Nat, index : Nat, lastTerm : Nat,
            data : Seq(Entry)]
SnapRep == [from : Server, to : Server, term : Nat, index : Nat, replyTerm : Nat]
SnapMsg == [index : Nat, term : Nat, data : Seq(Entry)]
Persisted == [term : Nat, votedFor : Server \cup {Nil}, log : Seq(Entry) \ {<< >>},
              snapshot : Seq(Entry)]

TypeServer ==
    /\ state \in [Server -> {"Follower", "Candidate", "Leader"}]
    /\ term \in [Server -> Nat]
    /\ votedFor \in [Server -> Server \cup {Nil}]
    /\ votes \in [Server -> SUBSET Server]
TypeLog ==
    /\ log \in [Server -> Seq(Entry) \ {<< >>}]
    /\ commitIndex \in [Server -> Nat]
    /\ lastApplied \in [Server -> Nat]
TypeLeader ==
    /\ nextIndex \in [Server -> [Server -> Nat \ {0}]]
    /\ matchIndex \in [Server -> [Server -> Nat]]
TypePersister == persister \in [Server -> Persisted]
TypeService ==
    /\ pending \in [Server -> Seq(Entry)]
    /\ snapMsgs \in [Server -> SUBSET SnapMsg]
    /\ service \in [Server -> [lastApplied : Nat, state : Seq(Entry)]]
TypeVoteNet == voteReqs \subseteq VoteReq /\ voteReplies \subseteq VoteRep
TypeLogNet ==
    /\ appendReqs \subseteq AppendReq /\ appendReplies \subseteq AppendRep
    /\ snapReqs \subseteq SnapReq /\ snapReplies \subseteq SnapRep
TypeHistory ==
    /\ elections \in Nat /\ applies \in Nat /\ crashes \in Nat
    /\ elected \subseteq [term : Nat, leader : Server, votes : SUBSET Server]
    /\ committed \subseteq Entry
    /\ DOMAIN leaderLog \subseteq Nat /\ leaderLog \in [DOMAIN leaderLog -> Seq(Entry)]
    /\ acked \subseteq [server : Server, term : Nat, index : Nat]

(* Every variable keeps its type: the fields of struct Raft, the RPC         *)
(* arguments and replies, the ApplyMsgs on applyCh and the persisted bytes.  *)
(* A log is never empty and nextIndex never 0, which every handler assumes.  *)
TypeOK ==
    /\ TypeServer /\ TypeLog /\ TypeLeader /\ TypePersister /\ TypeService
    /\ TypeVoteNet /\ TypeLogNet /\ TypeHistory

(* No two servers ever win the same term (checkOneLeader of config.go), over *)
(* the whole history, although AppendEntries and InstallSnapshot clear the   *)
(* vote a candidate has cast in its own term.                                *)
ElectionSafety ==
    \A e, f \in elected : e.term = f.term => e.leader = f.leader

(* Log l holds the committed entry e, or a snapshot that covers it.          *)
Holds(l, e) ==
    \/ e.index < Base(l)
    \/ e.index = Base(l) /\ l[1].term = e.term
    \/ HasIndex(l, e.index) /\ GetLogAtIndex(l, e.index) = e

(* Leaders never commit two entries at one index, and whatever a server      *)
(* believes committed is what a leader committed there: commitIndex never    *)
(* reaches an entry that was not replicated to a majority, although          *)
(* AppendEntries takes the minimum with its own tail, stale entries included.*)
CommitSafety ==
    /\ \A e, f \in committed : e.index = f.index => e = f
    /\ \A i \in Server : \A x \in 1..commitIndex[i] :
         \E e \in committed : e.index = x /\ Holds(log[i], e)

(* Every service executed the committed entries from the first on, in order, *)
(* each once and without a gap, through restarts and through snapshots that  *)
(* overtake commands blocked on applyCh (checkLogs and applierSnap of        *)
(* config.go).                                                               *)
StateMachineSafety ==
    \A i \in Server : \A k \in DOMAIN service[i].state :
        service[i].state[k] \in committed /\ service[i].state[k].index = k

(* Nothing a leader committed can be lost by crashes: a majority has it in   *)
(* what it persisted.                                                        *)
CommittedDurable ==
    \A e \in committed : IsMajority({i \in Server : Holds(persister[i].log, e)})

(* The newest leader has every committed entry, so the votes RequestVote     *)
(* grants and the snapshots CondInstallSnapshot splices in never elect a     *)
(* server that lacks one.                                                    *)
LeaderCompleteness ==
    \A i \in Server :
        state[i] = "Leader" /\ (\A e \in elected : e.term <= term[i])
        => \A e \in committed : Holds(log[i], e)

(* A leader counts for x only peers of its term that persisted the leader's  *)
(* entry at x, although replies arrive late, twice and out of order in Sync. *)
MatchIndexTruthful ==
    \A i, j \in Server :
        LET x == matchIndex[i][j] IN
        state[i] = "Leader" /\ term[j] = term[i] /\ x > Base(persister[j].log) /\ x > Base(log[i])
        => /\ HasIndex(log[i], x) /\ HasIndex(persister[j].log, x)
           /\ GetLogAtIndex(persister[j].log, x) = GetLogAtIndex(log[i], x)

Contiguous(l) == \A k \in DOMAIN l : l[k].index = Base(l) + k - 1

(* The entries of every log carry consecutive indices, so that the entry at  *)
(* a subscript is the one asked for: AppendEntries' "LMP violated" panic and *)
(* the loop of Snapshot rely on it, whatever is merged, cut or spliced.      *)
LogsContiguous == \A i \in Server : Contiguous(log[i])

(* The nil dereferences, panics and slice expressions of Replicate ("atIndex *)
(* == nil"), DoApply ("entry == nil"), CondInstallSnapshot and Sync never    *)
(* stop a server.                                                            *)
NoPanic ==
    /\ \A i, j \in Server : state[i] = "Leader" /\ i # j /\ nextIndex[i][j] > Base(log[i])
                            => PrevInLog(i, j)
    /\ \A i \in Server : commitIndex[i] > lastApplied[i] => NextInLog(i)
    /\ \A i \in Server : \A s \in snapMsgs[i] : ~ Outdated(i, s) => s.index >= Base(log[i])
    /\ \A m \in appendReplies :
         LeadsTerm(m) /\ m.success => commitIndex[m.to] >= Base(log[m.to])
                                       /\ m.last <= LogTail(log[m.to]).index

(* The snapshot and the log a restart reads back fit together: the service   *)
(* restarts exactly where the log begins (SaveStateAndSnapshot).             *)
SnapshotFitsLog ==
    \A i \in Server :
        /\ Len(persister[i].snapshot) = Base(persister[i].log)
        /\ persister[i].log = log[i]

(* Without a crash neither the commit index nor the service moves back, and  *)
(* not even a crash takes a term back.                                       *)
NoRollback ==
    [][\A i \in Server :
         /\ term'[i] >= term[i]
         /\ crashes' = crashes => /\ commitIndex'[i] >= commitIndex[i]
                                  /\ IsPrefix(service[i].state, service'[i].state)]_vars

(* As long as a server leads, the entries of its log stay: not a late        *)
(* snapshot on applyCh nor an AppendEntries removes one past the new base.   *)
LeaderAppendOnly ==
    [][\A i \in Server : state[i] = "Leader" /\ state'[i] = "Leader" =>
         \A k \in DOMAIN log[i] :
             LET x == log[i][k].index IN
             x > Base(log'[i]) => HasIndex(log'[i], x) /\ GetLogAtIndex(log'[i], x) = log[i][k]]_vars
=============================================================================
