----------------------------- MODULE SafetyInv -----------------------------
(* The invariant behind the safety of Raft's log.  Every leader's log is     *)
(* written down once, under its term (leaderLog); the logs of servers, the   *)
(* entries and snapshots on the wire, the indices leaders count with and the *)
(* state of the services are all related to these logs.  The predicates take *)
(* the histories as arguments: L is leaderLog, A acked, C committed, T term. *)
EXTENDS Raft

(* The leader of term t put the entry at x into its log: the node (t, x).    *)
Node(L, t, x) == t \in DOMAIN L /\ x \in 1..Len(L[t]) /\ L[t][x].term = t

(* The logs of the leaders of t and u are the same up to n.                  *)
Agree(L, t, u, n) ==
    n <= Len(L[t]) /\ n <= Len(L[u]) /\ \A k \in 1..n : L[t][k] = L[u][k]

(* Who stored the log of the leader of t up to x or further.                 *)
Acks(A, t, x) == {v \in Server : \E a \in A : a.server = v /\ a.term = t /\ a.index >= x}

(* A majority has stored the node.                                           *)
Chosen(L, A, t, x) == Node(L, t, x) /\ IsMajority(Acks(A, t, x))

(* A majority has stored the node or may still do so: it has not gone past t.*)
Choosable(L, A, T, t, x) ==
    Node(L, t, x) /\ IsMajority(Acks(A, t, x) \cup {v \in Server : T[v] <= t})

(* The node is chosen, and leaders committed everything up to it.            *)
Sealed(L, A, C, t, x) == Chosen(L, A, t, x) /\ \A k \in 1..x : L[t][k] \in C

(* Leaders up to term T have committed everything up to x.                   *)
SealedUpTo(L, A, C, T, x) ==
    \E t \in DOMAIN L : \E y \in 1..Len(L[t]) : Sealed(L, A, C, t, y) /\ t <= T /\ x <= y

(* The sequence s begins what leaders up to term T have committed.           *)
Decided(L, A, C, T, s) ==
    Len(s) > 0 => \E t \in DOMAIN L : \E y \in 1..Len(L[t]) :
        /\ Sealed(L, A, C, t, y) /\ t <= T /\ Len(s) <= y
        /\ \A k \in 1..Len(s) : s[k] = L[t][k]

(* The committed entry e lies on the way to a sealed node.                   *)
OnWay(L, A, C, e) ==
    \E t \in DOMAIN L : \E y \in 1..Len(L[t]) :
        Sealed(L, A, C, t, y) /\ e.index \in 1..y /\ e = L[t][e.index]

LastIndex(l) == LogTail(l).index

(* Above its base and up to n the log l is that of the leader of t.          *)
Matches(L, l, t, n) ==
    n <= Len(L[t]) /\ \A x \in (Base(l) + 1)..n : GetLogAtIndex(l, x) = L[t][x]

(* A log that ends in (t1, x1) is at least as up-to-date as the node (t, x). *)
Covers(t1, x1, t, x) == t1 > t \/ (t1 = t /\ x1 >= x)

LogCovers(l, t, x) == Covers(LogTail(l).term, LastIndex(l), t, x)

(* A log that ends in (t, x) ends in a node, or is empty.                    *)
EndsIn(L, t, x) == (t = 0 /\ x = 0) \/ Node(L, t, x)

-----------------------------------------------------------------------------
(* The logs of leaders form a tree: where the log of term t has an entry of  *)
(* term u, it is up to there the log of u.                                   *)
LogTree(L) ==
    /\ 0 \in DOMAIN L /\ L[0] = << >>
    /\ \A t \in DOMAIN L : \A k \in 1..Len(L[t]) :
         LET u == L[t][k].term IN
         /\ L[t][k].index = k
         /\ u \in DOMAIN L /\ u <= t /\ Agree(L, t, u, k)
         /\ \A j \in 1..k : L[t][j].term <= u

(* A later leader has every entry that can still be chosen.                  *)
Complete(L, A, T) ==
    \A t, u \in DOMAIN L : \A x \in 1..Len(L[t]) :
        Choosable(L, A, T, t, x) /\ t < u => x <= Len(L[u]) /\ L[u][x].term = t

(* Snapshot s replaces what was decided up to x; the entry at x is of term t.*)
SnapshotFits(L, A, C, T, s, x, t) ==
    /\ Len(s) = x /\ Decided(L, A, C, T, s)
    /\ t = IF x = 0 THEN 0 ELSE s[x].term

(* Log l continues snapshot s, and its entries above the base are those of   *)
(* one leader.  They need not continue the snapshot's entries: AppendEntries *)
(* verifies them, CondInstallSnapshot does not.                              *)
LogFits(L, A, C, T, l, s) ==
    /\ SnapshotFits(L, A, C, T, s, Base(l), l[1].term)
    /\ LogTail(l).term <= T
    /\ LastIndex(l) > Base(l) => /\ Node(L, LogTail(l).term, LastIndex(l))
                                 /\ Matches(L, l, LogTail(l).term, LastIndex(l))

(* Leader i has its own log, and stored it.                                  *)
LeaderFits(L, A, i, t, l) ==
    /\ t \in DOMAIN L
    /\ LastIndex(l) = Len(L[t])
    /\ Matches(L, l, t, LastIndex(l))
    /\ \A x \in 1..Len(L[t]) : Node(L, t, x) => i \in Acks(A, t, x)

(* Request m carries a piece of its leader's log that ends where that log    *)
(* ended when it was sent.                                                   *)
RequestFits(L, A, C, T, m) ==
    LET n == m.prevIndex + Len(m.entries) IN
    /\ m.term \in DOMAIN L /\ n <= Len(L[m.term])
    /\ \A k \in 1..Len(m.entries) : m.entries[k] = L[m.term][m.prevIndex + k]
    /\ m.prevIndex > 0 => L[m.term][m.prevIndex].term = m.prevTerm
    /\ m.leaderCommit <= n
    /\ m.leaderCommit > 0 => SealedUpTo(L, A, C, m.term, m.leaderCommit)
    /\ \A t \in DOMAIN L : \A x \in 1..Len(L[t]) :
         Choosable(L, A, T, t, x) /\ t < m.term => x <= n

(* What a server with log l takes for committed, leaders committed.          *)
CommitFits(L, A, C, T, l, c) ==
    /\ Base(l) <= c /\ c <= LastIndex(l)
    /\ c > 0 => \E t \in DOMAIN L : \E y \in 1..Len(L[t]) :
         Sealed(L, A, C, t, y) /\ t <= T /\ c <= y /\ Matches(L, l, t, c)

(* Server v with log l still has what it stored in its present term, and     *)
(* ends at least at the nodes it stored that can still be chosen.            *)
AckFits(L, A, T, v, l) ==
    /\ \A a \in A : a.server = v =>
         /\ a.term <= T[v] /\ a.term \in DOMAIN L /\ a.index \in 1..Len(L[a.term])
         /\ a.term = T[v] => \/ a.index <= Base(l)
                             \/ a.index <= LastIndex(l) /\ Matches(L, l, a.term, a.index)
    /\ \A t \in DOMAIN L : \A x \in 1..Len(L[t]) :
         v \in Acks(A, t, x) /\ Choosable(L, A, T, t, x) => LogCovers(l, t, x)

(* Server v with log l stored the log of the leader of t up to x, or has a   *)
(* snapshot instead.                                                         *)
Known(L, A, C, l, v, t, x) ==
    x <= Len(L[t]) /\ (v \in Acks(A, t, x) \/ (x <= Base(l) /\ SealedUpTo(L, A, C, t, x)))

(* The service of a server whose log has base b: its state s, the entry p it *)
(* is sent (if it will execute it), and the server's lastApplied.            *)
StateFits(L, A, C, T, s, b, applied, fresh, p) ==
    /\ Decided(L, A, C, T, s) /\ b <= Len(s)
    /\ IF fresh THEN /\ p.index = Len(s) + 1 /\ applied = Len(s) + 1
                     /\ Decided(L, A, C, T, Append(s, p))
                ELSE applied = Len(s)
-----------------------------------------------------------------------------
(* The parts of the invariant.                                               *)

TermsFit ==
    /\ DOMAIN leaderLog = {0} \cup {e.term : e \in elected}
    /\ \A i \in Server : state[i] # "Follower" => term[i] > 0
    /\ \A i \in Server : state[i] = "Leader" => \E e \in elected : e.term = term[i] /\ e.leader = i
    /\ \A m \in voteReqs : m.term <= term[m.from]
    /\ \A m \in voteReplies : m.term <= term[m.to]

TreeFits == LogTree(leaderLog) /\ Complete(leaderLog, acked, term)

LogOK(i) ==
    /\ persister[i].log = log[i]
    /\ LogFits(leaderLog, acked, committed, term[i], log[i], persister[i].snapshot)
LogsFit == \A i \in Server : LogOK(i)

LeaderOK(i) == state[i] = "Leader" => LeaderFits(leaderLog, acked, i, term[i], log[i])
LeadersFit == \A i \in Server : LeaderOK(i)

RequestOK(m) ==
    /\ RequestFits(leaderLog, acked, committed, term, m)
    /\ m.from # m.to
    /\ \E e \in elected : e.term = m.term /\ e.leader = m.from
RequestsFit == \A m \in appendReqs : RequestOK(m)

SnapReqOK(m) ==
    /\ m.term \in DOMAIN leaderLog
    /\ SnapshotFits(leaderLog, acked, committed, m.term, m.data, m.index, m.lastTerm)
SnapMsgOK(i, s) == SnapshotFits(leaderLog, acked, committed, term[i], s.data, s.index, s.term)
SnapshotsFit ==
    /\ \A m \in snapReqs : SnapReqOK(m)
    /\ \A i \in Server : \A s \in snapMsgs[i] : SnapMsgOK(i, s)

CommitOK(i) == CommitFits(leaderLog, acked, committed, term[i], log[i], commitIndex[i])
CommitsFit == \A i \in Server : CommitOK(i)

ServiceOK(i) ==
    /\ StateFits(leaderLog, acked, committed, term[i], service[i].state, Base(log[i]),
                 lastApplied[i], pending[i] # << >> /\ Fresh(i), pending[i][1])
    /\ lastApplied[i] <= commitIndex[i]
    /\ service[i].lastApplied <= Len(service[i].state)
    /\ pending[i] # << >> => pending[i][1].index <= lastApplied[i]
ServicesFit == \A i \in Server : ServiceOK(i)

AckOK(v) == AckFits(leaderLog, acked, term, v, log[v])
AcksFit == \A v \in Server : AckOK(v)

(* A candidate ends at least where voter v ended, and where its own request  *)
(* m says, as far as nodes that can still be chosen go.                      *)
VoterFits(v, c) ==
    \A t \in DOMAIN leaderLog : \A x \in 1..Len(leaderLog[t]) :
        /\ t < term[c]
        /\ v \in Acks(acked, t, x) /\ Choosable(leaderLog, acked, term, t, x)
        => LogCovers(log[c], t, x)
CandidateFits(m) ==
    \A t \in DOMAIN leaderLog : \A x \in 1..Len(leaderLog[t]) :
        /\ t < m.term
        /\ Choosable(leaderLog, acked, term, t, x) /\ Covers(m.lastTerm, m.lastIndex, t, x)
        => LogCovers(log[m.from], t, x)

(* Server v has voted for c in term t: the reply is on its way, counted by   *)
(* the candidate, or part of an election that c won.                         *)
Granted(v, c, t) ==
    \/ \E m \in voteReplies : m.from = v /\ m.to = c /\ m.term = t /\ m.granted
    \/ v \in votes[c] /\ term[c] = t
    \/ \E e \in elected : e.leader = c /\ e.term = t /\ v \in e.votes

VotesFit ==
    /\ \A m \in voteReqs : EndsIn(leaderLog, m.lastTerm, m.lastIndex)
    /\ \A c, v \in Server : state[c] = "Candidate" /\ Granted(v, c, term[c]) => VoterFits(v, c)
    /\ \A m \in voteReqs : state[m.from] = "Candidate" /\ term[m.from] = m.term => CandidateFits(m)

AppendRepOK(m) ==
    /\ m.from # m.to /\ m.term \in DOMAIN leaderLog
    /\ m.success /\ m.last > 0
       => Known(leaderLog, acked, committed, log[m.from], m.from, m.term, m.last)
SnapRepOK(m) == m.term \in DOMAIN leaderLog /\ m.index <= Len(leaderLog[m.term])
RepliesFit ==
    /\ \A m \in appendReplies : AppendRepOK(m)
    /\ \A m \in snapReplies : SnapRepOK(m)

(* Leader i knows of server j what matchIndex and nextIndex say.             *)
IndexOK(i, j) ==
    /\ j = i => matchIndex[i][i] = LastIndex(log[i])
    /\ j # i /\ matchIndex[i][j] > 0 =>
         Known(leaderLog, acked, committed, log[j], j, term[i], matchIndex[i][j])
    /\ nextIndex[i][j] <= LastIndex(log[i]) + 1
IndicesFit == \A i, j \in Server : state[i] = "Leader" => IndexOK(i, j)

CommittedFit == \A e \in committed : OnWay(leaderLog, acked, committed, e)

(* The inductive invariant behind the safety of the log.                     *)
LogInv ==
    /\ TermsFit /\ TreeFits /\ LogsFit /\ LeadersFit /\ RequestsFit /\ SnapshotsFit /\ CommitsFit
    /\ ServicesFit /\ AcksFit /\ VotesFit /\ RepliesFit /\ IndicesFit /\ CommittedFit
=============================================================================
