---------------------------- MODULE SafetyProofs ----------------------------
(* The safety of Raft's log, for any number of servers and any bounds: every *)
(* step preserves the invariant of SafetyInv, so that it holds in every      *)
(* reachable state, and it implies what raft/config.go tests.  First what a  *)
(* step leaves alone, part by part and server by server, then the actions,   *)
(* then the theorems.                                                        *)
EXTENDS RaftProofs, RaftRefinement

(* The states the steps are taken from.                                      *)
Good == ShapeInv /\ ElectionInv /\ LogInv

(* The histories after the step continue those before it.                    *)
Grow == HistoryStep(leaderLog, acked, committed, term, leaderLog', acked', committed', term')

(* The types of the histories.                                               *)
LEMMA HistoryTyped ==
    ASSUME ShapeInv
    PROVE  HistoryType(leaderLog, acked, term)
  BY DEF ShapeInv, TypeOK, TypeHistory, TypeServer, HistoryType

(* The types of what a server has.                                           *)
LEMMA ServerTyped ==
    ASSUME ShapeInv, NEW i \in Server
    PROVE  /\ log[i] \in Log /\ Contiguous(log[i]) /\ term[i] \in Nat
           /\ commitIndex[i] \in Nat /\ lastApplied[i] \in Nat
           /\ persister[i].snapshot \in Seq(Entry) /\ persister[i].log \in Log
           /\ service[i].state \in Seq(Entry) /\ service[i].lastApplied \in Nat
           /\ pending[i] \in Seq(Entry)
           /\ state[i] \in {"Follower", "Candidate", "Leader"}
  <1>1. /\ log[i] \in Log /\ term[i] \in Nat /\ commitIndex[i] \in Nat /\ lastApplied[i] \in Nat
        /\ state[i] \in {"Follower", "Candidate", "Leader"}
    BY DEF ShapeInv, TypeOK, TypeLog, TypeServer, Log
  <1>2. Contiguous(log[i])
    BY DEF ShapeInv, LogsContiguous
  <1>3. persister[i] \in Persisted
    BY DEF ShapeInv, TypeOK, TypePersister
  <1>4. persister[i].snapshot \in Seq(Entry) /\ persister[i].log \in Log
    BY <1>3 DEF Persisted, Log
  <1>5. /\ service[i].state \in Seq(Entry) /\ service[i].lastApplied \in Nat
        /\ pending[i] \in Seq(Entry)
    BY DEF ShapeInv, TypeOK, TypeService
  <1> QED
    BY <1>1, <1>2, <1>4, <1>5

(* The facts about the histories in one place.                               *)
LEMMA World ==
    ASSUME Good
    PROVE  /\ HistoryType(leaderLog, acked, term)
           /\ LogTree(leaderLog) /\ Complete(leaderLog, acked, term)
  BY HistoryTyped DEF Good, LogInv, TreeFits

(* What the invariant says of one server.                                    *)
LEMMA ServerFits ==
    ASSUME Good, NEW i \in Server
    PROVE  LogOK(i) /\ LeaderOK(i) /\ CommitOK(i) /\ ServiceOK(i) /\ AckOK(i)
  BY DEF Good, LogInv, LogsFit, LeadersFit, CommitsFit, ServicesFit, AcksFit

-----------------------------------------------------------------------------
(* What a step leaves alone.                                                 *)

SameLog(i) ==
    /\ log'[i] = log[i] /\ persister'[i].log = log'[i]
    /\ persister'[i].snapshot = persister[i].snapshot

SameService(i) ==
    service'[i] = service[i] /\ pending'[i] = pending[i] /\ lastApplied'[i] = lastApplied[i]

(* Who leads after the step led before it, and has not extended its log.     *)
SameLead(i) ==
    state'[i] = "Leader" =>
        state[i] = "Leader" /\ term'[i] = term[i] /\ leaderLog'[term[i]] = leaderLog[term[i]]

(* Server i records nothing.                                                 *)
SameAcks(i) == \A a \in acked' : a.server = i => a \in acked

(* Terms grow in a step of the histories.                                    *)
LEMMA TermGrows ==
    ASSUME Good, ShapeInv', Grow, NEW i \in Server
    PROVE  term[i] \in Nat /\ term'[i] \in Nat /\ term[i] <= term'[i]
  <1>1. term'[i] \in Nat /\ term[i] \in Nat
    BY DEF Good, ShapeInv, TypeOK, TypeServer
  <1> QED
    BY <1>1 DEF Grow, HistoryStep, HistoryGrows

(* The log of a server that writes none still fits.                          *)
LEMMA KeepLog ==
    ASSUME Good, ShapeInv', Grow, NEW i \in Server, SameLog(i)
    PROVE  LogOK(i)'
  <1>1. /\ term[i] \in Nat /\ term'[i] \in Nat /\ term[i] <= term'[i]
        /\ log[i] \in Log /\ persister[i].snapshot \in Seq(Entry)
    BY TermGrows, ServerTyped DEF Good
  <1>2. LogFits(leaderLog, acked, committed, term[i], log[i], persister[i].snapshot)
    BY ServerFits DEF LogOK
  <1>3. LogFits(leaderLog', acked', committed', term'[i], log[i], persister[i].snapshot)
    BY <1>1, <1>2, LogStays DEF Grow
  <1> QED
    BY <1>3 DEF LogOK, SameLog

(* So does its commit index.                                                 *)
LEMMA KeepCommit ==
    ASSUME Good, ShapeInv', Grow, NEW i \in Server, log'[i] = log[i], commitIndex'[i] = commitIndex[i]
    PROVE  CommitOK(i)'
  <1>1. /\ term[i] \in Nat /\ term'[i] \in Nat /\ term[i] <= term'[i]
        /\ log[i] \in Log /\ commitIndex[i] \in Nat
    BY TermGrows, ServerTyped DEF Good
  <1>2. CommitFits(leaderLog, acked, committed, term[i], log[i], commitIndex[i])
    BY ServerFits DEF CommitOK
  <1>3. CommitFits(leaderLog', acked', committed', term'[i], log[i], commitIndex[i])
    BY <1>1, <1>2, CommitStays DEF Grow
  <1> QED
    BY <1>3 DEF CommitOK

(* So does the log of a leader.                                              *)
LEMMA KeepLeader ==
    ASSUME Good, ShapeInv', Grow, NEW i \in Server, log'[i] = log[i], SameLead(i)
    PROVE  LeaderOK(i)'
  <1> SUFFICES ASSUME state'[i] = "Leader"
               PROVE  LeaderFits(leaderLog', acked', i, term'[i], log'[i])
    BY DEF LeaderOK
  <1>1. log[i] \in Log
    BY ServerTyped DEF Good
  <1>2. state[i] = "Leader" /\ term'[i] = term[i] /\ leaderLog'[term[i]] = leaderLog[term[i]]
    BY DEF SameLead
  <1>3. LeaderFits(leaderLog, acked, i, term[i], log[i])
    BY <1>2, ServerFits DEF LeaderOK
  <1>4. LeaderFits(leaderLog', acked', i, term[i], log[i])
    BY <1>1, <1>2, <1>3, LeaderStays DEF Grow
  <1> QED
    BY <1>2, <1>4

(* So do the records of a server that adds none.                             *)
LEMMA KeepAck ==
    ASSUME Good, ShapeInv', Grow, NEW i \in Server, log'[i] = log[i], SameAcks(i)
    PROVE  AckOK(i)'
  <1>1. log[i] \in Log
    BY ServerTyped DEF Good
  <1>2. AckFits(leaderLog, acked, term, i, log[i])
    BY ServerFits DEF AckOK
  <1>3. AckFits(leaderLog', acked', term', i, log[i])
    BY <1>1, <1>2, AckStays DEF Grow, SameAcks
  <1> QED
    BY <1>3 DEF AckOK

(* So does the state of a service that is left alone.                        *)
LEMMA KeepService ==
    ASSUME Good, ShapeInv', Grow, NEW i \in Server, SameService(i), Base(log'[i]) = Base(log[i]),
           commitIndex'[i] \in Nat, commitIndex'[i] >= commitIndex[i]
    PROVE  ServiceOK(i)'
  <1>1. /\ term[i] \in Nat /\ term'[i] \in Nat /\ term[i] <= term'[i]
        /\ service[i].state \in Seq(Entry) /\ pending[i] \in Seq(Entry)
        /\ commitIndex[i] \in Nat /\ lastApplied[i] \in Nat
    BY TermGrows, ServerTyped DEF Good
  <1> DEFINE fresh == pending[i] # << >> /\ Fresh(i)
  <1>2. StateFits(leaderLog, acked, committed, term[i], service[i].state, Base(log[i]),
                  lastApplied[i], fresh, pending[i][1])
    BY ServerFits DEF ServiceOK
  <1>3. fresh \in BOOLEAN /\ (fresh => pending[i][1] \in Entry)
    <2>1. pending[i] # << >> => pending[i][1] \in Entry
      BY <1>1
    <2> QED
      BY <2>1
  <1>4. fresh' = fresh
    BY DEF SameService, Fresh
  <1> HIDE DEF fresh
  <1>5. StateFits(leaderLog', acked', committed', term'[i], service[i].state, Base(log[i]),
                  lastApplied[i], fresh, pending[i][1])
    BY <1>1, <1>2, <1>3, StateStays DEF Grow
  <1>6. /\ lastApplied[i] <= commitIndex'[i]
        /\ service[i].lastApplied <= Len(service[i].state)
        /\ pending[i] # << >> => pending[i][1].index <= lastApplied[i]
    <2>1. lastApplied[i] <= commitIndex[i]
      BY ServerFits DEF ServiceOK
    <2> QED
      BY <2>1, <1>1, ServerFits DEF ServiceOK
  <1> QED
    BY <1>4, <1>5, <1>6 DEF ServiceOK, SameService, fresh

(* A snapshot on the wire still fits.                                        *)
LEMMA KeepSnapReq ==
    ASSUME Good, ShapeInv', Grow, NEW m \in snapReqs
    PROVE  SnapReqOK(m)'
  <1>1. m.term \in Nat /\ m.data \in Seq(Entry)
    BY DEF Good, ShapeInv, TypeOK, TypeLogNet, SnapReq
  <1>2. /\ m.term \in DOMAIN leaderLog
        /\ SnapshotFits(leaderLog, acked, committed, m.term, m.data, m.index, m.lastTerm)
    BY DEF Good, LogInv, SnapshotsFit, SnapReqOK
  <1>3. SnapshotFits(leaderLog', acked', committed', m.term, m.data, m.index, m.lastTerm)
    BY <1>1, <1>2, SnapshotStays DEF Grow
  <1>4. m.term \in DOMAIN leaderLog'
    BY <1>2 DEF Grow, HistoryStep, HistoryGrows, Extends
  <1> QED
    BY <1>3, <1>4 DEF SnapReqOK

(* So does a snapshot on its way to the service.                             *)
LEMMA KeepSnapMsg ==
    ASSUME Good, ShapeInv', Grow, NEW i \in Server, NEW s \in snapMsgs[i]
    PROVE  SnapMsgOK(i, s)'
  <1>1. s.data \in Seq(Entry) /\ term[i] \in Nat /\ term'[i] \in Nat /\ term[i] <= term'[i]
    <2>1. s \in SnapMsg
      BY DEF Good, ShapeInv, TypeOK, TypeService
    <2> QED
      BY <2>1, TermGrows DEF SnapMsg
  <1>2. SnapshotFits(leaderLog, acked, committed, term[i], s.data, s.index, s.term)
    BY DEF Good, LogInv, SnapshotsFit, SnapMsgOK
  <1>3. SnapshotFits(leaderLog', acked', committed', term'[i], s.data, s.index, s.term)
    BY <1>1, <1>2, SnapshotStays DEF Grow
  <1> QED
    BY <1>3 DEF SnapMsgOK

(* So do the entries on the wire.                                            *)
LEMMA KeepRequest ==
    ASSUME Good, ShapeInv', Grow, elected \subseteq elected', NEW m \in appendReqs
    PROVE  RequestOK(m)'
  <1>1. m \in AppendReq
    BY DEF Good, ShapeInv, TypeOK, TypeLogNet
  <1>2. RequestOK(m)
    BY DEF Good, LogInv, RequestsFit
  <1>3. RequestFits(leaderLog', acked', committed', term', m)
    BY <1>1, <1>2, RequestStays DEF Grow, RequestOK
  <1> QED
    BY <1>2, <1>3 DEF RequestOK

(* An answer to AppendEntries still says what its sender has.                *)
LEMMA KeepAppendRep ==
    ASSUME Good, ShapeInv', Grow, NEW m \in appendReplies,
           Base(log[m.from]) <= Base(log'[m.from])
    PROVE  AppendRepOK(m)'
  <1>1. m.from \in Server /\ m.term \in Nat /\ m.last \in Nat
    BY DEF Good, ShapeInv, TypeOK, TypeLogNet, AppendRep
  <1>2. AppendRepOK(m)
    BY DEF Good, LogInv, RepliesFit
  <1>3. log[m.from] \in Log /\ log'[m.from] \in Log
    BY <1>1 DEF Good, ShapeInv, TypeOK, TypeLog, Log
  <1>4. m.term \in DOMAIN leaderLog /\ m.term \in DOMAIN leaderLog'
    BY <1>2 DEF AppendRepOK, Grow, HistoryStep, HistoryGrows, Extends
  <1>5. ASSUME m.success, m.last > 0
        PROVE  Known(leaderLog', acked', committed', log'[m.from], m.from, m.term, m.last)
    <2>1. Known(leaderLog, acked, committed, log[m.from], m.from, m.term, m.last)
      BY <1>2, <1>5 DEF AppendRepOK
    <2> QED
      BY <2>1, <1>1, <1>3, <1>4, KnownStays DEF Grow
  <1> QED
    BY <1>2, <1>4, <1>5 DEF AppendRepOK

(* An answer to InstallSnapshot stays within its leader's log.               *)
LEMMA KeepSnapRep ==
    ASSUME Good, ShapeInv', Grow, NEW m \in snapReplies
    PROVE  SnapRepOK(m)'
  <1>1. m.index \in Nat
    BY DEF Good, ShapeInv, TypeOK, TypeLogNet, SnapRep
  <1>2. m.term \in DOMAIN leaderLog /\ m.index <= Len(leaderLog[m.term])
    BY DEF Good, LogInv, RepliesFit, SnapRepOK
  <1>3. /\ m.term \in DOMAIN leaderLog' /\ Len(leaderLog[m.term]) <= Len(leaderLog'[m.term])
        /\ Len(leaderLog[m.term]) \in Nat /\ Len(leaderLog'[m.term]) \in Nat
    BY <1>2, StepKeeps DEF Grow
  <1> QED
    BY <1>1, <1>2, <1>3 DEF SnapRepOK

(* What leader i knows of server j stays known.                              *)
LEMMA KeepKnown ==
    ASSUME Good, ShapeInv', Grow, NEW i \in Server, NEW j \in Server, state[i] = "Leader",
           NEW x \in Nat, Known(leaderLog, acked, committed, log[j], j, term[i], x),
           Base(log[j]) <= Base(log'[j])
    PROVE  Known(leaderLog', acked', committed', log'[j], j, term[i], x)
  <1>1. log[j] \in Log /\ log'[j] \in Log
    BY DEF Good, ShapeInv, TypeOK, TypeLog, Log
  <1>2. term[i] \in DOMAIN leaderLog
    BY ServerFits DEF LeaderOK, LeaderFits
  <1> QED
    BY <1>1, <1>2, KnownStays DEF Grow

(* What a leader counts with still fits.                                     *)
LEMMA KeepIndex ==
    ASSUME Good, ShapeInv', Grow, NEW i \in Server, NEW j \in Server, state[i] = "Leader",
           term'[i] = term[i], LastIndex(log'[i]) = LastIndex(log[i]),
           matchIndex'[i][j] = matchIndex[i][j], nextIndex'[i][j] = nextIndex[i][j],
           Base(log[j]) <= Base(log'[j])
    PROVE  IndexOK(i, j)'
  <1>1. IndexOK(i, j)
    BY DEF Good, LogInv, IndicesFit
  <1>2. matchIndex[i][j] \in Nat
    BY DEF Good, ShapeInv, TypeOK, TypeLeader
  <1>3. ASSUME j # i, matchIndex[i][j] > 0
        PROVE  Known(leaderLog', acked', committed', log'[j], j, term[i], matchIndex[i][j])
    BY <1>1, <1>2, <1>3, KeepKnown DEF IndexOK
  <1> QED
    BY <1>1, <1>3 DEF IndexOK

(* A committed entry stays one.                                              *)
LEMMA KeepOnWay ==
    ASSUME Good, Grow, NEW e \in committed
    PROVE  OnWay(leaderLog', acked', committed', e)
  <1>1. OnWay(leaderLog, acked, committed, e)
    BY DEF Good, LogInv, CommittedFit
  <1> QED
    BY <1>1, OnWayStays DEF Grow

-----------------------------------------------------------------------------
(* Steps that win no election.                                               *)

(* Server i stays what it is, steps down, or runs for a later term.          *)
SameRole(i) ==
    \/ state'[i] = "Follower"
    \/ state'[i] = state[i] /\ term'[i] = term[i]
    \/ state'[i] = "Candidate" /\ term'[i] > term[i]

(* The terms of leaders, candidates and votes still fit.                     *)
LEMMA TermsStep ==
    ASSUME Good, ShapeInv', Grow, elected' = elected, DOMAIN leaderLog' = DOMAIN leaderLog,
           \A i \in Server : SameRole(i),
           \A m \in voteReqs' : m \in voteReqs \/ m.term <= term'[m.from],
           \A m \in voteReplies' : m \in voteReplies \/ m.term <= term[m.to]
    PROVE  TermsFit'
  <1>0. TermsFit
    BY DEF Good, LogInv
  <1>1. DOMAIN leaderLog' = {0} \cup {e.term : e \in elected'}
    BY <1>0 DEF TermsFit
  <1>2. ASSUME NEW i \in Server, state'[i] # "Follower" PROVE term'[i] > 0
    <2>1. term[i] \in Nat /\ term'[i] \in Nat
      BY TermGrows
    <2> QED
      BY <2>1, <1>0, <1>2 DEF SameRole, TermsFit
  <1>3. ASSUME NEW i \in Server, state'[i] = "Leader"
        PROVE  \E e \in elected' : e.term = term'[i] /\ e.leader = i
    BY <1>0, <1>3 DEF SameRole, TermsFit
  <1>4. ASSUME NEW m \in voteReqs' PROVE m.term <= term'[m.from]
    <2>1. CASE m \in voteReqs
      <3>1. m.from \in Server /\ m.term \in Nat /\ m.term <= term[m.from]
        BY <2>1, <1>0 DEF TermsFit, Good, ShapeInv, TypeOK, TypeVoteNet, VoteReq
      <3> QED
        BY <3>1, TermGrows
    <2> QED
      BY <2>1, <1>4
  <1>5. ASSUME NEW m \in voteReplies' PROVE m.term <= term'[m.to]
    <2>1. m.to \in Server /\ m.term \in Nat
      BY <1>5 DEF ShapeInv, TypeOK, TypeVoteNet, VoteRep
    <2>2. m.term <= term[m.to]
      BY <1>0, <1>5 DEF TermsFit
    <2> QED
      BY <2>1, <2>2, TermGrows
  <1> QED
    BY <1>1, <1>2, <1>3, <1>4, <1>5 DEF TermsFit

(* Nobody has a vote for a term it has not reached.                          *)
LEMMA GrantedTerm ==
    ASSUME Good, NEW v \in Server, NEW c \in Server, NEW t \in Nat, Granted(v, c, t)
    PROVE  t <= term[c]
  <1>1. CASE \E m \in voteReplies : m.from = v /\ m.to = c /\ m.term = t /\ m.granted
    BY <1>1 DEF Good, LogInv, TermsFit
  <1>2. CASE v \in votes[c] /\ term[c] = t
    BY <1>2
  <1>3. CASE \E e \in elected : e.leader = c /\ e.term = t /\ v \in e.votes
    <2>1. term[c] > t \/ term[c] = t
      BY <1>3 DEF Good, ElectionInv, WinnersKeepVote
    <2>2. term[c] \in Nat
      BY ServerTyped DEF Good
    <2> QED
      BY <2>1, <2>2
  <1> QED
    BY <1>1, <1>2, <1>3 DEF Granted

(* Server c is a candidate as before, with a log as up-to-date, or runs for  *)
(* a term it had not reached.                                                *)
SameCandidate(c) ==
    state'[c] = "Candidate" =>
        \/ term'[c] > term[c]
        \/ /\ state[c] = "Candidate" /\ term'[c] = term[c]
           /\ CoversKept(leaderLog, acked, term, log[c], log'[c])

(* A new request for votes describes the log of its sender.                  *)
OwnLog(m) ==
    /\ m.lastTerm = LogTail(log'[m.from]).term /\ m.lastIndex = LastIndex(log'[m.from])
    /\ EndsIn(leaderLog', m.lastTerm, m.lastIndex)

(* Who voted for c has left the terms whose nodes c must have, so it stores  *)
(* no more of them.                                                          *)
LEMMA VoterStays ==
    ASSUME Good, ShapeInv', Grow, NEW v \in Server, NEW c \in Server, v # c,
           state'[c] = "Candidate", SameCandidate(c), Granted(v, c, term'[c]),
           \A a \in acked' : a \in acked \/ term[a.server] <= a.term
    PROVE  VoterFits(v, c)'
  <1>1. term[c] \in Nat /\ term'[c] \in Nat /\ term[v] \in Nat
    BY TermGrows
  <1>2. term'[c] <= term[c]
    BY <1>1, GrantedTerm
  <1>3. state[c] = "Candidate" /\ term'[c] = term[c] /\ CoversKept(leaderLog, acked, term, log[c], log'[c])
    BY <1>1, <1>2 DEF SameCandidate
  <1>4. VoterFits(v, c)
    BY <1>3 DEF Good, LogInv, VotesFit
  <1>5. term[v] >= term[c]
    BY <1>1, <1>3 DEF Good, ElectionInv, VotesKept
  <1> SUFFICES ASSUME NEW t \in DOMAIN leaderLog', NEW x \in 1..Len(leaderLog'[t]), t < term'[c],
                      v \in Acks(acked', t, x), Choosable(leaderLog', acked', term', t, x)
               PROVE  LogCovers(log'[c], t, x)
    BY DEF VoterFits
  <1>6. PICK a \in acked' : a.server = v /\ a.term = t /\ a.index >= x
    BY DEF Acks
  <1>7. t \in Nat /\ Len(leaderLog'[t]) \in Nat /\ leaderLog'[t][x].term = t
    <2>1. HistoryType(leaderLog', acked', term')
      BY DEF Grow, HistoryStep
    <2> QED
      BY <2>1, LeaderLogType DEF Choosable, Node
  <1>8. a \in acked
    BY <1>1, <1>3, <1>5, <1>6, <1>7
  <1>9. t \in DOMAIN leaderLog /\ a.index \in 1..Len(leaderLog[t])
    BY <1>6, <1>8, ServerFits DEF AckOK, AckFits
  <1>10. /\ Len(leaderLog[t]) \in Nat /\ a.index \in Nat
         /\ \A k \in 1..Len(leaderLog[t]) : leaderLog'[t][k] = leaderLog[t][k]
    <2>1. Len(leaderLog[t]) \in Nat /\ \A k \in 1..Len(leaderLog[t]) : leaderLog'[t][k] = leaderLog[t][k]
      BY <1>9, LeaderLogType, HistoryTyped DEF Good, Grow, HistoryStep, HistoryGrows, Extends
    <2> QED
      BY <2>1, <1>9
  <1>11. x \in 1..Len(leaderLog[t])
    BY <1>6, <1>7, <1>9, <1>10
  <1>12. Node(leaderLog, t, x)
    BY <1>7, <1>9, <1>10, <1>11 DEF Node
  <1>13. Choosable(leaderLog, acked, term, t, x)
    BY <1>12, StepChoosable DEF Grow
  <1>14. v \in Acks(acked, t, x)
    BY <1>6, <1>8 DEF Acks
  <1>15. LogCovers(log[c], t, x)
    BY <1>3, <1>4, <1>9, <1>11, <1>13, <1>14 DEF VoterFits
  <1> QED
    BY <1>3, <1>13, <1>15 DEF CoversKept

(* A request for votes still describes what its candidate has.               *)
LEMMA CandidateStays ==
    ASSUME Good, ShapeInv', Grow, NEW m \in voteReqs,
           state'[m.from] = "Candidate", term'[m.from] = m.term, SameCandidate(m.from)
    PROVE  CandidateFits(m)'
  <1> DEFINE c == m.from
  <1>0. c \in Server /\ m.term \in Nat /\ m.lastTerm \in Nat /\ m.lastIndex \in Nat
    BY DEF Good, ShapeInv, TypeOK, TypeVoteNet, VoteReq
  <1>1. term[c] \in Nat /\ term'[c] \in Nat /\ m.term <= term[c]
    BY <1>0, TermGrows DEF Good, LogInv, TermsFit
  <1>2. state[c] = "Candidate" /\ term'[c] = term[c] /\ CoversKept(leaderLog, acked, term, log[c], log'[c])
    BY <1>0, <1>1 DEF SameCandidate
  <1>3. CandidateFits(m) /\ EndsIn(leaderLog, m.lastTerm, m.lastIndex)
    BY <1>2 DEF Good, LogInv, VotesFit
  <1> SUFFICES ASSUME NEW t \in DOMAIN leaderLog', NEW x \in 1..Len(leaderLog'[t]), t < m.term,
                      Choosable(leaderLog', acked', term', t, x), Covers(m.lastTerm, m.lastIndex, t, x)
               PROVE  LogCovers(log'[c], t, x)
    BY DEF CandidateFits
  <1>4. t \in Nat /\ Len(leaderLog'[t]) \in Nat /\ leaderLog'[t][x].term = t
    <2>1. HistoryType(leaderLog', acked', term')
      BY DEF Grow, HistoryStep
    <2> QED
      BY <2>1, LeaderLogType DEF Choosable, Node
  <1>5. Choosable(leaderLog, acked, term, t, x)
    <2> SUFFICES ASSUME ~ Node(leaderLog, t, x), \A u \in DOMAIN leaderLog' : u <= t PROVE FALSE
      BY StepChoosable DEF Grow
    <2>1. Node(leaderLog, m.lastTerm, m.lastIndex)
      <3>1. ~ (m.lastTerm = 0 /\ m.lastIndex = 0)
        BY <1>4 DEF Covers
      <3> QED
        BY <3>1, <1>3 DEF EndsIn
    <2>2. m.lastTerm \in DOMAIN leaderLog /\ m.lastTerm \in DOMAIN leaderLog' /\ m.lastIndex \in 1..Len(leaderLog[m.lastTerm])
      BY <2>1 DEF Node, Grow, HistoryStep, HistoryGrows, Extends
    <2>3. m.lastTerm = t /\ m.lastIndex >= x
      BY <2>2, <1>0, <1>4 DEF Covers
    <2>4. /\ Len(leaderLog[t]) \in Nat
          /\ \A k \in 1..Len(leaderLog[t]) : leaderLog'[t][k] = leaderLog[t][k]
      BY <2>2, <2>3, LeaderLogType, HistoryTyped DEF Good, Grow, HistoryStep, HistoryGrows, Extends
    <2>5. x \in 1..Len(leaderLog[t])
      BY <2>2, <2>3, <2>4, <1>4
    <2> QED
      BY <2>2, <2>3, <2>4, <2>5, <1>4 DEF Node
  <1>6. t \in DOMAIN leaderLog /\ x \in 1..Len(leaderLog[t])
    BY <1>5 DEF Choosable, Node
  <1>7. LogCovers(log[c], t, x)
    BY <1>3, <1>5, <1>6 DEF CandidateFits
  <1> QED
    BY <1>2, <1>5, <1>7 DEF CoversKept

(* Votes go on meaning what they meant.                                      *)
LEMMA VotesStep ==
    ASSUME Good, ShapeInv', Grow, AcksFit', \A c \in Server : SameCandidate(c),
           \A v, c \in Server : v # c /\ state'[c] = "Candidate" /\ Granted(v, c, term[c])'
                                => Granted(v, c, term'[c]) \/ VoterFits(v, c)',
           \A a \in acked' : a \in acked \/ term[a.server] <= a.term,
           \A m \in voteReqs' : m \in voteReqs \/ OwnLog(m)
    PROVE  VotesFit'
  <1>1. ASSUME NEW m \in voteReqs' PROVE EndsIn(leaderLog', m.lastTerm, m.lastIndex)
    <2>1. CASE m \in voteReqs
      <3>1. EndsIn(leaderLog, m.lastTerm, m.lastIndex)
        BY <2>1 DEF Good, LogInv, VotesFit
      <3>2. \A t, x : Node(leaderLog, t, x) => Node(leaderLog', t, x)
        BY StepKeeps DEF Grow
      <3> QED
        BY <3>1, <3>2 DEF EndsIn
    <2> QED
      BY <2>1, <1>1 DEF OwnLog
  <1>2. ASSUME NEW c \in Server, NEW v \in Server, state'[c] = "Candidate", Granted(v, c, term[c])'
        PROVE  VoterFits(v, c)'
    <2>1. CASE v = c
      <3>1. AckFits(leaderLog', acked', term', c, log'[c])
        BY DEF AcksFit, AckOK
      <3> QED
        BY <3>1, <2>1 DEF AckFits, VoterFits
    <2>2. CASE v # c
      BY <2>2, <1>2, VoterStays
    <2> QED
      BY <2>1, <2>2
  <1>3. ASSUME NEW m \in voteReqs', state'[m.from] = "Candidate", term'[m.from] = m.term
        PROVE  CandidateFits(m)'
    <2>1. CASE m \in voteReqs
      <3>1. SameCandidate(m.from)
        BY <2>1 DEF Good, ShapeInv, TypeOK, TypeVoteNet, VoteReq
      <3> QED
        BY <3>1, <2>1, <1>3, CandidateStays
    <2>2. CASE OwnLog(m)
      BY <2>2 DEF OwnLog, CandidateFits, LogCovers
    <2> QED
      BY <2>1, <2>2, <1>3
  <1> QED
    BY <1>1, <1>2, <1>3 DEF VotesFit

(* A step that adds no leader's log and no node is a step of the histories.  *)
LEMMA QuietGrows ==
    ASSUME Good, ShapeInv', leaderLog' = leaderLog,
           Quiet(acked, committed, term, acked', committed', term')
    PROVE  Grow /\ TreeFits'
  <1>1. /\ HistoryType(leaderLog, acked, term) /\ LogTree(leaderLog)
        /\ Complete(leaderLog, acked, term)
    BY World
  <1>2. HistoryType(leaderLog, acked', term')
    <2>1. HistoryType(leaderLog', acked', term')
      BY DEF ShapeInv, TypeOK, TypeHistory, TypeServer, HistoryType
    <2> QED
      BY <2>1
  <1>3. /\ HistoryStep(leaderLog, acked, committed, term, leaderLog, acked', committed', term')
        /\ Complete(leaderLog, acked', term')
    BY <1>1, <1>2, QuietStep
  <1> QED
    BY <1>1, <1>3 DEF Grow, TreeFits

(* The messages about logs, and the snapshots for the service, are old or    *)
(* fit.                                                                      *)
NetFits ==
    /\ \A m \in appendReqs' : m \in appendReqs \/ RequestOK(m)'
    /\ \A m \in snapReqs' : m \in snapReqs \/ SnapReqOK(m)'
    /\ \A i \in Server : \A s \in snapMsgs'[i] : s \in snapMsgs[i] \/ SnapMsgOK(i, s)'
    /\ \A m \in appendReplies' : m \in appendReplies \/ AppendRepOK(m)'
    /\ \A m \in snapReplies' : m \in snapReplies \/ SnapRepOK(m)'

BasesGrow == \A j \in Server : Base(log[j]) <= Base(log'[j])

(* Then all of them fit.                                                     *)
LEMMA NetStep ==
    ASSUME Good, ShapeInv', Grow, elected \subseteq elected', BasesGrow, NetFits
    PROVE  RequestsFit' /\ SnapshotsFit' /\ RepliesFit'
  <1>1. ASSUME NEW m \in appendReqs' PROVE RequestOK(m)'
    BY <1>1, KeepRequest DEF NetFits
  <1>2. ASSUME NEW m \in snapReqs' PROVE SnapReqOK(m)'
    BY <1>2, KeepSnapReq DEF NetFits
  <1>3. ASSUME NEW i \in Server, NEW s \in snapMsgs'[i] PROVE SnapMsgOK(i, s)'
    BY <1>3, KeepSnapMsg DEF NetFits
  <1>4. ASSUME NEW m \in appendReplies' PROVE AppendRepOK(m)'
    <2>1. CASE m \in appendReplies
      <3>1. m.from \in Server
        BY <2>1 DEF Good, ShapeInv, TypeOK, TypeLogNet, AppendRep
      <3>2. Base(log[m.from]) <= Base(log'[m.from])
        BY <3>1 DEF BasesGrow
      <3> QED
        BY <3>2, <2>1, KeepAppendRep
    <2> QED
      BY <2>1, <1>4 DEF NetFits
  <1>5. ASSUME NEW m \in snapReplies' PROVE SnapRepOK(m)'
    BY <1>5, KeepSnapRep DEF NetFits
  <1> QED
    BY <1>1, <1>2, <1>3, <1>4, <1>5 DEF RequestsFit, SnapshotsFit, RepliesFit

(* Nobody wins, terms grow, and a vote that is new fits its candidate.       *)
VotesCalm ==
    /\ elected' = elected /\ \A i \in Server : term[i] <= term'[i]
    /\ \A v, c \in Server : v # c /\ state'[c] = "Candidate" /\ Granted(v, c, term[c])'
                             => Granted(v, c, term'[c]) \/ VoterFits(v, c)'

(* So it is when nobody votes for another server.                            *)
LEMMA NoVoteCalm ==
    ASSUME Good, ShapeInv', NoVoteStep
    PROVE  VotesCalm
  <1>1. ASSUME NEW i \in Server PROVE term[i] <= term'[i] /\ term'[i] \in Nat
    <2>1. term[i] \in Nat /\ term'[i] \in Nat
      BY DEF Good, ShapeInv, TypeOK, TypeServer
    <2>2. KeepsVote(i)
      BY DEF NoVoteStep
    <2> QED
      BY <2>1, <2>2 DEF KeepsVote
  <1>2. ASSUME NEW v \in Server, NEW c \in Server, v # c, Granted(v, c, term[c])'
        PROVE  Granted(v, c, term'[c])
    <2>1. PICK k \in Nat : k = term'[c]
      BY <1>1
    <2>2. Granted(v, c, k)'
      BY <2>1, <1>2 DEF Granted
    <2>3. Granted(v, c, k)
      BY <2>2, <1>2 DEF NoVoteStep
    <2> QED
      BY <2>1, <2>3
  <1> QED
    BY <1>1, <1>2 DEF VotesCalm, NoVoteStep

(* No log, no leader's log and no record changes.                            *)
CalmLogs ==
    /\ VotesCalm /\ UNCHANGED <<leaderLog, acked, committed>>
    /\ \A i \in Server : SameLog(i) /\ SameRole(i)
    /\ \A m \in voteReqs' : m \in voteReqs \/ (m.term <= term'[m.from] /\ OwnLog(m))
    /\ \A m \in voteReplies' : m \in voteReplies \/ m.term <= term[m.to]

(* What such a step keeps.                                                   *)
LEMMA CalmKeeps ==
    ASSUME Good, ShapeInv', CalmLogs
    PROVE  /\ Grow /\ BasesGrow /\ TermsFit' /\ TreeFits' /\ LogsFit' /\ LeadersFit' /\ AcksFit'
           /\ VotesFit' /\ CommittedFit'
  <1>1. \A i \in Server : term[i] <= term'[i]
    BY DEF CalmLogs, VotesCalm
  <1>2. Grow /\ TreeFits'
    <2>1. Quiet(acked, committed, term, acked', committed', term')
      BY <1>1 DEF Quiet, CalmLogs
    <2> QED
      BY <2>1, QuietGrows DEF CalmLogs
  <1>3. \A i \in Server : SameLog(i) /\ SameRole(i) /\ SameAcks(i) /\ SameLead(i) /\ log'[i] = log[i]
    BY DEF CalmLogs, SameAcks, SameLead, SameRole, SameLog
  <1>4. LogsFit'
    BY <1>2, <1>3, KeepLog DEF LogsFit
  <1>5. LeadersFit'
    BY <1>2, <1>3, KeepLeader DEF LeadersFit
  <1>6. AcksFit'
    BY <1>2, <1>3, KeepAck DEF AcksFit
  <1>7. TermsFit'
    BY <1>2, TermsStep DEF CalmLogs, VotesCalm
  <1>8. \A c \in Server : SameCandidate(c)
    <2>1. \A l : CoversKept(leaderLog, acked, term, l, l)
      BY DEF CoversKept
    <2> QED
      BY <2>1, <1>3 DEF SameCandidate, SameRole
  <1>10. VotesFit'
    BY <1>2, <1>6, <1>8, VotesStep DEF CalmLogs, VotesCalm
  <1>11. CommittedFit'
    BY <1>2, KeepOnWay DEF CommittedFit, CalmLogs
  <1>12. BasesGrow
    <2> SUFFICES ASSUME NEW i \in Server PROVE Base(log[i]) <= Base(log'[i])
      BY DEF BasesGrow
    <2>1. log[i] \in Log /\ log'[i] = log[i]
      BY <1>3, ServerTyped DEF Good
    <2> QED
      BY <2>1, LogFacts
  <1> QED
    BY <1>2, <1>4, <1>5, <1>6, <1>7, <1>10, <1>11, <1>12

(* Commit indices and services are left alone or fit.                        *)
ServersFit ==
    \A i \in Server : \/ commitIndex'[i] = commitIndex[i] /\ SameService(i)
                      \/ CommitOK(i)' /\ ServiceOK(i)'

(* The indices of leaders are left alone or fit.                             *)
LeadsFit ==
    \A i, j \in Server : state'[i] = "Leader" =>
        \/ matchIndex'[i][j] = matchIndex[i][j] /\ nextIndex'[i][j] = nextIndex[i][j]
        \/ IndexOK(i, j)'

(* With what is new fitting, the step keeps the invariant.                   *)
LEMMA CalmStep ==
    ASSUME Good, ShapeInv', CalmLogs, NetFits, ServersFit, LeadsFit
    PROVE  LogInv'
  <1>1. /\ Grow /\ BasesGrow /\ TermsFit' /\ TreeFits' /\ LogsFit' /\ LeadersFit' /\ AcksFit'
        /\ VotesFit' /\ CommittedFit'
    BY CalmKeeps
  <1>2. RequestsFit' /\ SnapshotsFit' /\ RepliesFit'
    BY <1>1, NetStep DEF CalmLogs, VotesCalm
  <1>3. ASSUME NEW i \in Server PROVE CommitOK(i)' /\ ServiceOK(i)'
    <2>1. CASE commitIndex'[i] = commitIndex[i] /\ SameService(i)
      <3>1. log'[i] = log[i] /\ commitIndex[i] \in Nat
        BY ServerTyped DEF CalmLogs, SameLog, Good
      <3> QED
        BY <3>1, <2>1, <1>1, KeepCommit, KeepService
    <2> QED
      BY <2>1 DEF ServersFit
  <1>4. ASSUME NEW i \in Server, NEW j \in Server, state'[i] = "Leader" PROVE IndexOK(i, j)'
    <2>1. CASE matchIndex'[i][j] = matchIndex[i][j] /\ nextIndex'[i][j] = nextIndex[i][j]
      <3>1. state[i] = "Leader" /\ term'[i] = term[i] /\ log'[i] = log[i]
        BY <1>4 DEF CalmLogs, SameLog, SameRole
      <3> QED
        BY <3>1, <2>1, <1>1, KeepIndex DEF BasesGrow
    <2> QED
      BY <2>1, <1>4 DEF LeadsFit
  <1> QED
    BY <1>1, <1>2, <1>3, <1>4 DEF LogInv, CommitsFit, ServicesFit, IndicesFit

-----------------------------------------------------------------------------
(* The actions that change no log.                                           *)

(* persist writes a log that has not changed.                                *)
LEMMA PersistSame ==
    ASSUME Good, UNCHANGED log, UNCHANGED persister \/ \E i \in Server : Persist(i)
    PROVE  \A j \in Server : SameLog(j)
  <1> SUFFICES ASSUME NEW j \in Server PROVE SameLog(j)
    OBVIOUS
  <1>1. persister[j].log = log[j]
    BY ServerFits DEF LogOK
  <1>2. CASE UNCHANGED persister
    BY <1>1, <1>2 DEF SameLog
  <1>3. ASSUME NEW i \in Server, Persist(i) PROVE SameLog(j)
    <2>1. persister \in [Server -> Persisted]
      BY DEF Good, ShapeInv, TypeOK, TypePersister
    <2> QED
      BY <2>1, <1>1, <1>3 DEF SameLog, Persist
  <1> QED
    BY <1>2, <1>3

(* Who steps down, or does nothing, takes no role that is new.               *)
LEMMA AcceptSame ==
    ASSUME Good, NEW i \in Server, NEW t,
           StepDown(i, t) \/ AcceptLeader(i, t) \/ UNCHANGED serverVars
    PROVE  \A j \in Server : SameRole(j)
  <1> SUFFICES ASSUME NEW j \in Server PROVE SameRole(j)
    OBVIOUS
  <1>1. state \in [Server -> {"Follower", "Candidate", "Leader"}] /\ term \in [Server -> Nat]
    BY DEF Good, ShapeInv, TypeOK, TypeServer
  <1>2. CASE UNCHANGED serverVars
    BY <1>2 DEF serverVars, SameRole
  <1>3. CASE StepDown(i, t)
    BY <1>1, <1>3 DEF StepDown, BecomeFollower, SameRole
  <1> QED
    BY <1>2, <1>3 DEF AcceptLeader

(* A step of a server's election state alone.                                *)
LEMMA RestSame ==
    ASSUME UNCHANGED <<logVars, leaderVars, serviceVars, logNet>>
    PROVE  NetFits /\ ServersFit /\ LeadsFit
  BY DEF logVars, leaderVars, serviceVars, logNet, NetFits, ServersFit, LeadsFit, SameService

(* DoElection: the requests describe the candidate's log.                    *)
LEMMA DoElectionStep ==
    ASSUME Good, ShapeInv', NEW i \in Server, DoElection(i)
    PROVE  LogInv'
  <1>0. UNCHANGED <<log, leaderLog, acked, committed>> /\ Persist(i) /\ voteReplies' = voteReplies
    BY DEF DoElection, logVars, history
  <1>1. VotesCalm
    BY DoElectionNoVote, NoVoteCalm DEF Good
  <1>2. \A j \in Server : SameLog(j)
    BY <1>0, PersistSame
  <1>3. ASSUME NEW j \in Server PROVE SameRole(j)
    <2>1. state \in [Server -> {"Follower", "Candidate", "Leader"}] /\ term \in [Server -> Nat]
      BY DEF Good, ShapeInv, TypeOK, TypeServer
    <2>2. term[i] + 1 > term[i]
      BY <2>1
    <2> QED
      BY <2>1, <2>2 DEF SameRole, DoElection
  <1>4. ASSUME NEW m \in voteReqs', m \notin voteReqs
        PROVE  m.term <= term'[m.from] /\ OwnLog(m)
    <2>1. PICK j \in Server \ {i} :
             m = [from |-> i, to |-> j, term |-> term[i] + 1, lastIndex |-> LogTail(log[i]).index,
                  lastTerm |-> LogTail(log[i]).term]
      BY <1>4 DEF DoElection
    <2>2. /\ m.from = i /\ m.term = term[i] + 1 /\ m.lastIndex = LogTail(log[i]).index
          /\ m.lastTerm = LogTail(log[i]).term
      BY <2>1
    <2>3. term'[i] = term[i] + 1 /\ term[i] + 1 <= term[i] + 1
      BY DEF DoElection, Good, ShapeInv, TypeOK, TypeServer
    <2>4. EndsIn(leaderLog, LogTail(log[i]).term, LastIndex(log[i]))
      <3>1. /\ log[i] \in Log /\ Contiguous(log[i]) /\ persister[i].snapshot \in Seq(Entry)
            /\ LogFits(leaderLog, acked, committed, term[i], log[i], persister[i].snapshot)
        BY ServerTyped, ServerFits DEF Good, LogOK
      <3> QED
        BY <3>1, World, LogEnds
    <2> QED
      BY <2>2, <2>3, <2>4, <1>0 DEF OwnLog, LastIndex
  <1>5. CalmLogs
    BY <1>0, <1>1, <1>2, <1>3, <1>4 DEF CalmLogs
  <1>6. NetFits /\ ServersFit /\ LeadsFit
    BY RestSame DEF DoElection
  <1> QED
    BY <1>5, <1>6, CalmStep

(* The reply of RequestVote is for a term its candidate has reached.         *)
LEMMA VoteReplyTerm ==
    ASSUME Good, NEW m \in voteReqs, NEW g, ReplyVote(m, g)
    PROVE  /\ \A r \in voteReplies' : r \in voteReplies \/ r.term <= term[r.to]
           /\ voteReqs' \subseteq voteReqs
  <1>1. m.term <= term[m.from]
    BY DEF Good, LogInv, TermsFit
  <1> QED
    BY <1>1 DEF ReplyVote

(* RequestVote that denies the vote.                                         *)
LEMMA RequestVoteDeniedStep ==
    ASSUME Good, ShapeInv', NEW m \in voteReqs, RequestVoteStale(m) \/ RequestVoteDeny(m)
    PROVE  LogInv'
  <1>0. /\ ReplyVote(m, FALSE) /\ m.to \in Server /\ m.term \in Nat
        /\ UNCHANGED <<log, leaderLog, acked, committed>>
        /\ UNCHANGED <<logVars, leaderVars, serviceVars, logNet>>
    BY DEF RequestVoteStale, RequestVoteDeny, ReplyVote, logVars, history, Good, ShapeInv, TypeOK,
           TypeVoteNet, VoteReq
  <1>1. VotesCalm
    BY DeniedNoVote, NoVoteCalm DEF Good
  <1>2. \A j \in Server : SameLog(j)
    <2>1. UNCHANGED persister \/ Persist(m.to)
      BY DEF RequestVoteStale, RequestVoteDeny
    <2> QED
      BY <2>1, <1>0, PersistSame
  <1>3. \A j \in Server : SameRole(j)
    <2>1. StepDown(m.to, m.term) \/ UNCHANGED serverVars
      BY DEF RequestVoteStale, RequestVoteDeny
    <2> QED
      BY <2>1, <1>0, AcceptSame
  <1>4. CalmLogs
    BY <1>0, <1>1, <1>2, <1>3, VoteReplyTerm DEF CalmLogs
  <1>5. NetFits /\ ServersFit /\ LeadsFit
    BY <1>0, RestSame
  <1> QED
    BY <1>4, <1>5, CalmStep

(* RequestVote that grants it: what the voter stored, it finds covered by    *)
(* the request, and so by the candidate's log.                               *)
LEMMA RequestVoteGrantStep ==
    ASSUME Good, ShapeInv', NEW m \in voteReqs, RequestVoteGrant(m)
    PROVE  LogInv'
  <1> DEFINE w == m.to
  <1>0. /\ ReplyVote(m, TRUE) /\ w \in Server /\ m.from \in Server /\ m.term \in Nat
        /\ m.lastTerm \in Nat /\ m.lastIndex \in Nat /\ w # m.from
        /\ UNCHANGED <<log, leaderLog, acked, committed, elected>>
        /\ UNCHANGED <<logVars, leaderVars, serviceVars, logNet>> /\ Persist(w)
    BY DEF RequestVoteGrant, ReplyVote, logVars, history, Good, ShapeInv, TypeOK,
           TypeVoteNet, VoteReq, ElectionInv, RequestsToOthers
  <1>1. /\ term \in [Server -> Nat] /\ state \in [Server -> {"Follower", "Candidate", "Leader"}]
        /\ votes \in [Server -> SUBSET Server]
    BY DEF Good, ShapeInv, TypeOK, TypeServer
  <1>2. /\ \A j \in Server : term'[j] = IF j = w THEN m.term ELSE term[j]
        /\ m.term >= term[w] /\ CanVote(m)
        /\ m.term > term[w] => BecomeFollower(w)
        /\ m.term = term[w] => UNCHANGED <<state, votes>>
    BY <1>0, <1>1 DEF RequestVoteGrant
  <1>3. \A j \in Server : term[j] <= term'[j]
    BY <1>0, <1>1, <1>2
  <1>4. \A j \in Server \ {w} : state'[j] = state[j] /\ votes'[j] = votes[j]
    BY <1>0, <1>1, <1>2 DEF BecomeFollower
  <1>5. \/ term'[w] = term[w] /\ UNCHANGED <<state, votes>>
        \/ state'[w] = "Follower" /\ votes'[w] = {}
    BY <1>0, <1>1, <1>2 DEF BecomeFollower
  <1>6. \A j \in Server : SameRole(j)
    BY <1>0, <1>2, <1>4, <1>5 DEF SameRole
  <1>7. ASSUME state'[m.from] = "Candidate", term'[m.from] = m.term
        PROVE  VoterFits(w, m.from)'
    <2>1. state[m.from] = "Candidate" /\ term[m.from] = m.term
      BY <1>0, <1>2, <1>4, <1>7
    <2>2. CandidateFits(m)
      BY <2>1 DEF Good, LogInv, VotesFit
    <2>3. AckFits(leaderLog, acked, term, w, log[w])
      BY <1>0, ServerFits DEF AckOK
    <2> SUFFICES ASSUME NEW t \in DOMAIN leaderLog, NEW x \in 1..Len(leaderLog[t]), t < m.term,
                        w \in Acks(acked, t, x), Choosable(leaderLog, acked, term', t, x)
                 PROVE  LogCovers(log[m.from], t, x)
      BY <1>0, <1>7 DEF VoterFits
    <2>4. Choosable(leaderLog, acked, term, t, x)
      <3>1. HistoryType(leaderLog, acked, term) /\ HistoryType(leaderLog, acked, term')
        BY <1>0 DEF Good, ShapeInv, TypeOK, TypeHistory, TypeServer, HistoryType
      <3>2. Quiet(acked, committed, term, acked, committed, term')
        BY <1>3 DEF Quiet
      <3> QED
        BY <3>1, <3>2, QuietChoosable
    <2>5. LogCovers(log[w], t, x)
      BY <2>3, <2>4 DEF AckFits
    <2>6. Covers(m.lastTerm, m.lastIndex, t, x)
      <3>1. LogTail(log[w]).term \in Nat /\ LogTail(log[w]).index \in Nat
        BY <1>0, ServerTyped, LogFacts DEF Good
      <3>2. isAtLeastUpToDate(m, log[w])
        BY <1>2 DEF CanVote
      <3>3. t \in Nat /\ x \in Nat
        BY LeaderLogType, World
      <3> QED
        BY <3>1, <3>2, <3>3, <2>5, <1>0 DEF isAtLeastUpToDate, LogCovers, Covers, LastIndex
    <2> QED
      BY <2>2, <2>4, <2>6 DEF CandidateFits
  <1>8. ASSUME NEW v \in Server, NEW c \in Server, v # c, state'[c] = "Candidate", Granted(v, c, term[c])'
        PROVE  Granted(v, c, term'[c]) \/ VoterFits(v, c)'
    <2>1. CASE \E r \in voteReplies' : r.from = v /\ r.to = c /\ r.term = term'[c] /\ r.granted
      <3>1. PICK r \in voteReplies' : r.from = v /\ r.to = c /\ r.term = term'[c] /\ r.granted
        BY <2>1
      <3>2. CASE r \in voteReplies
        BY <3>1, <3>2 DEF Granted
      <3>3. CASE r \notin voteReplies
        <4>1. r.from = w /\ r.to = m.from /\ r.term = m.term
          BY <3>3, <1>0 DEF ReplyVote
        <4> QED
          BY <4>1, <3>1, <1>7, <1>8
      <3> QED
        BY <3>2, <3>3
    <2>2. CASE v \in votes'[c]
      BY <2>2, <1>0, <1>2, <1>4, <1>5 DEF Granted
    <2>3. CASE \E e \in elected' : e.leader = c /\ e.term = term'[c] /\ v \in e.votes
      BY <2>3, <1>0 DEF Granted
    <2> QED
      BY <2>1, <2>2, <2>3, <1>8 DEF Granted
  <1>9. VotesCalm
    BY <1>0, <1>3, <1>8 DEF VotesCalm
  <1>10. CalmLogs
    BY <1>0, <1>6, <1>9, PersistSame, VoteReplyTerm DEF CalmLogs
  <1>11. NetFits /\ ServersFit /\ LeadsFit
    BY <1>0, RestSame
  <1> QED
    BY <1>10, <1>11, CalmStep

(* A reply to RequestVote that decides nothing.                              *)
LEMMA VoteReplyUndecidedStep ==
    ASSUME Good, ShapeInv', NEW m \in voteReplies, VoteReply(m), ~ VoteReplyWin(m)
    PROVE  LogInv'
  <1>0. /\ UNCHANGED <<log, leaderLog, acked, committed>>
        /\ UNCHANGED <<logVars, leaderVars, serviceVars, logNet>>
        /\ voteReqs' = voteReqs /\ voteReplies' \subseteq voteReplies /\ m.to \in Server
    BY DEF VoteReply, VoteReplyIgnored, VoteReplyStepDown, VoteReplyCount, logVars, Good, ShapeInv,
           TypeOK, TypeVoteNet, VoteRep
  <1>1. VotesCalm
    BY UndecidedNoVote, NoVoteCalm DEF Good
  <1>2. \A j \in Server : SameLog(j)
    <2>1. UNCHANGED persister \/ Persist(m.to)
      BY DEF VoteReply, VoteReplyIgnored, VoteReplyStepDown, VoteReplyCount
    <2> QED
      BY <2>1, <1>0, PersistSame
  <1>3. \A j \in Server : SameRole(j)
    <2>1. \/ StepDown(m.to, m.replyTerm) \/ UNCHANGED serverVars
          \/ UNCHANGED <<state, term>>
      BY DEF VoteReply, VoteReplyIgnored, VoteReplyStepDown, VoteReplyCount
    <2>2. CASE UNCHANGED <<state, term>>
      BY <2>2 DEF SameRole
    <2> QED
      BY <2>1, <2>2, <1>0, AcceptSame
  <1>4. CalmLogs
    BY <1>0, <1>1, <1>2, <1>3 DEF CalmLogs
  <1>5. NetFits /\ ServersFit /\ LeadsFit
    BY <1>0, RestSame
  <1> QED
    BY <1>4, <1>5, CalmStep

(* A step in which no server changes its role, its log or its vote.          *)
LEMMA AloneCalm ==
    ASSUME Good, ShapeInv', NoVoteStep,
           UNCHANGED <<serverVars, log, persister, voteNet, leaderLog, acked, committed>>
    PROVE  CalmLogs
  <1>1. VotesCalm
    BY NoVoteCalm
  <1>2. \A j \in Server : SameLog(j)
    BY PersistSame
  <1>3. \A j \in Server : SameRole(j)
    BY DEF SameRole, serverVars
  <1> QED
    BY <1>1, <1>2, <1>3 DEF CalmLogs, voteNet

(* Replicate: what it sends is a piece of the leader's log, or its snapshot. *)
LEMMA ReplicateStep ==
    ASSUME Good, ShapeInv', NEW i \in Server, NEW j \in Server, i # j, Replicate(i, j)
    PROVE  LogInv'
  <1>0. /\ UNCHANGED <<serverVars, logVars, leaderVars, persister, serviceVars, voteNet, appendReplies,
                       snapReplies>>
        /\ UNCHANGED <<log, commitIndex, lastApplied, nextIndex, matchIndex, pending, service, snapMsgs>>
        /\ UNCHANGED <<leaderLog, acked, committed, elected, term>> /\ state[i] = "Leader"
    BY DEF Replicate, SendEntries, SendSnapshot, history, logVars, leaderVars, serviceVars, serverVars
  <1>1. CalmLogs
    <2>1. NoVoteStep
      BY LocalNoVote DEF Good
    <2> QED
      BY <2>1, <1>0, AloneCalm
  <1>2. /\ log[i] \in Log /\ Contiguous(log[i]) /\ term[i] \in Nat /\ commitIndex[i] \in Nat
        /\ persister[i].snapshot \in Seq(Entry)
        /\ LogFits(leaderLog, acked, committed, term[i], log[i], persister[i].snapshot)
        /\ LeaderFits(leaderLog, acked, i, term[i], log[i])
        /\ CommitFits(leaderLog, acked, committed, term[i], log[i], commitIndex[i])
    BY <1>0, ServerTyped, ServerFits DEF Good, LogOK, LeaderOK, CommitOK
  <1>3. ASSUME NEW m \in appendReqs', m \notin appendReqs PROVE RequestOK(m)'
    <2> DEFINE prev == GetLogAtIndex(log[i], nextIndex[i][j] - 1)
    <2>1. /\ m = [from |-> i, to |-> j, term |-> term[i],
                  prevIndex |-> prev.index, prevTerm |-> prev.term,
                  entries |-> SubSeq(log[i], LogIndexToSubscript(log[i], nextIndex[i][j]), Len(log[i])),
                  leaderCommit |-> commitIndex[i]]
          /\ HasIndex(log[i], nextIndex[i][j] - 1)
      BY <1>3 DEF Replicate, SendEntries, SendSnapshot, PrevInLog
    <2>2. PICK p \in Nat : p = nextIndex[i][j] - 1 /\ nextIndex[i][j] = p + 1
      BY DEF Good, ShapeInv, TypeOK, TypeLeader
    <2>3. p \in Base(log[i])..LastIndex(log[i]) /\ prev.index = p /\ prev = GetLogAtIndex(log[i], p)
      BY <2>1, <2>2, <1>2, IndexRange
    <2>4. /\ m.term = term[i] /\ m.prevIndex = p /\ m.prevTerm = GetLogAtIndex(log[i], p).term
          /\ m.entries = SubSeq(log[i], LogIndexToSubscript(log[i], p + 1), Len(log[i]))
          /\ m.leaderCommit = commitIndex[i] /\ m.from = i /\ m.to = j
      BY <2>1, <2>2, <2>3
    <2> HIDE DEF prev
    <2>5. RequestFits(leaderLog, acked, committed, term, m)
      BY <2>3, <2>4, <1>2, World, RequestSent
    <2>6. \E e \in elected : e.term = m.term /\ e.leader = m.from
      BY <2>4, <1>0 DEF Good, LogInv, TermsFit
    <2> QED
      BY <2>4, <2>5, <2>6, <1>0 DEF RequestOK
  <1>4. ASSUME NEW m \in snapReqs', m \notin snapReqs PROVE SnapReqOK(m)'
    <2>1. m = [from |-> i, to |-> j, term |-> term[i], index |-> Base(log[i]),
               lastTerm |-> log[i][1].term, data |-> persister[i].snapshot]
      BY <1>4 DEF Replicate, SendEntries, SendSnapshot
    <2>2. /\ m.term = term[i] /\ m.index = Base(log[i]) /\ m.lastTerm = log[i][1].term
          /\ m.data = persister[i].snapshot
      BY <2>1
    <2>3. /\ term[i] \in DOMAIN leaderLog
          /\ SnapshotFits(leaderLog, acked, committed, term[i], persister[i].snapshot,
                          Base(log[i]), log[i][1].term)
      BY <1>2 DEF LeaderFits, LogFits
    <2> QED
      BY <2>2, <2>3, <1>0 DEF SnapReqOK
  <1>5. NetFits
    BY <1>0, <1>3, <1>4 DEF NetFits
  <1>6. ServersFit /\ LeadsFit
    BY <1>0 DEF ServersFit, LeadsFit, SameService
  <1> QED
    BY <1>1, <1>5, <1>6, CalmStep

(* AppendEntries that is stale or finds a conflict: only the term may move.  *)
LEMMA AppendEntriesRefusedStep ==
    ASSUME Good, ShapeInv', NEW m \in appendReqs, AppendEntriesStale(m) \/ AppendEntriesConflict(m)
    PROVE  LogInv'
  <1>0. /\ UNCHANGED <<log, commitIndex, lastApplied, nextIndex, matchIndex, pending, service, snapMsgs>>
        /\ UNCHANGED <<leaderLog, acked, committed, elected, voteReqs, voteReplies, appendReqs, snapReqs,
                       snapReplies>>
        /\ \E c : ReplyAppend(m, FALSE, c)
        /\ m.to \in Server /\ m.from \in Server
    BY DEF AppendEntriesStale, AppendEntriesConflict, ReplyAppend, leaderVars, serviceVars, voteNet,
           Good, ShapeInv, TypeOK, TypeLogNet, AppendReq
  <1>1. VotesCalm
    BY LogTrafficNoVote, NoVoteCalm DEF Good, AppendEntries
  <1>2. \A j \in Server : SameLog(j)
    <2>1. UNCHANGED persister \/ Persist(m.to)
      BY DEF AppendEntriesStale, AppendEntriesConflict
    <2> QED
      BY <2>1, <1>0, PersistSame
  <1>3. \A j \in Server : SameRole(j)
    <2>1. AcceptLeader(m.to, m.term) \/ UNCHANGED serverVars
      BY DEF AppendEntriesStale, AppendEntriesConflict
    <2> QED
      BY <2>1, <1>0, AcceptSame
  <1>4. CalmLogs
    BY <1>0, <1>1, <1>2, <1>3 DEF CalmLogs
  <1>5. ASSUME NEW r \in appendReplies', r \notin appendReplies PROVE AppendRepOK(r)'
    <2>1. r.from = m.to /\ r.to = m.from /\ r.term = m.term /\ r.success = FALSE
      BY <1>0, <1>5 DEF ReplyAppend
    <2>2. m.from # m.to /\ m.term \in DOMAIN leaderLog
      BY DEF Good, LogInv, RequestsFit, RequestOK, RequestFits
    <2> QED
      BY <2>1, <2>2, <1>0 DEF AppendRepOK
  <1>6. NetFits
    BY <1>0, <1>5 DEF NetFits
  <1>7. ServersFit /\ LeadsFit
    BY <1>0 DEF ServersFit, LeadsFit, SameService
  <1> QED
    BY <1>4, <1>6, <1>7, CalmStep

(* A leader that learns of a higher term from a reply.                       *)
LEMMA ReplyStepDownStep ==
    ASSUME Good, ShapeInv', NoVoteStep, NEW m, m.to \in Server, ReplyStepDown(m)
    PROVE  LogInv'
  <1>0. /\ UNCHANGED <<log, leaderLog, acked, committed, voteReqs, voteReplies>> /\ Persist(m.to)
        /\ UNCHANGED <<logVars, leaderVars, serviceVars, logNet>> /\ StepDown(m.to, m.replyTerm)
    BY DEF ReplyStepDown, logVars, history, voteNet
  <1>1. CalmLogs
    BY <1>0, NoVoteCalm, PersistSame, AcceptSame DEF CalmLogs
  <1>2. NetFits /\ ServersFit /\ LeadsFit
    BY <1>0, RestSame
  <1> QED
    BY <1>1, <1>2, CalmStep

(* Sync after a failed AppendEntries: nextIndex moves back.                  *)
LEMMA SyncFailureStep ==
    ASSUME Good, ShapeInv', NEW m \in appendReplies, SyncFailure(m)
    PROVE  LogInv'
  <1> DEFINE i == m.to
  <1>0. /\ UNCHANGED <<serverVars, log, persister, voteNet, leaderLog, acked, committed>>
        /\ UNCHANGED <<commitIndex, lastApplied, pending, service, snapMsgs, term>>
        /\ UNCHANGED <<appendReqs, appendReplies, snapReqs, snapReplies>>
        /\ state[i] = "Leader"
    BY DEF SyncFailure, LeadsTerm, logVars, history, logNet, serviceVars, serverVars
  <1>1. m \in AppendRep /\ m.from \in Server /\ i \in Server /\ m.conflict.index \in Nat /\ m.from # i
    <2>1. m \in AppendRep
      BY DEF Good, ShapeInv, TypeOK, TypeLogNet
    <2> QED
      BY <2>1 DEF AppendRep, Good, LogInv, RepliesFit, AppendRepOK
  <1>2. CalmLogs
    <2>1. NoVoteStep
      BY LogTrafficNoVote DEF Good, Sync
    <2> QED
      BY <2>1, <1>0, AloneCalm
  <1>3. NetFits /\ ServersFit
    BY <1>0 DEF NetFits, ServersFit, SameService
  <1>4. IndexOK(i, m.from)'
    <2> DEFINE next == nextIndex[i][m.from]
    <2>1. nextIndex \in [Server -> [Server -> Nat \ {0}]] /\ matchIndex \in [Server -> [Server -> Nat]]
      BY DEF Good, ShapeInv, TypeOK, TypeLeader
    <2>2. next \in Nat \ {0} /\ log[i] \in Log /\ LastIndex(log[i]) \in Nat
      BY <2>1, <1>1, ServerTyped, IndexRange DEF Good
    <2>3. BackOff(next, m, log[i]) \in Nat
      BY <2>2, <1>1, BackOffType
    <2>4. BackOff(next, m, log[i]) <= next
      <3>1. Len(log[i]) \in Nat /\ \A k \in 2..Len(log[i]) : log[i][k].index \in Nat
        BY <2>2, LogFacts
      <3> QED
        BY <3>1, <2>2, <2>3, <1>1, BackOffLower
    <2>5. next <= LastIndex(log[i]) + 1
      BY <1>0, <1>1 DEF Good, LogInv, IndicesFit, IndexOK
    <2>6. nextIndex'[i][m.from] = BackOff(next, m, log[i]) /\ matchIndex'[i][m.from] = 0
      BY <2>1, <1>1 DEF SyncFailure
    <2> HIDE DEF next
    <2>7. BackOff(next, m, log[i]) <= LastIndex(log[i]) + 1
      BY <2>2, <2>3, <2>4, <2>5
    <2> QED
      BY <2>6, <2>7, <1>0, <1>1 DEF IndexOK
  <1>5. LeadsFit
    <2>1. nextIndex \in [Server -> [Server -> Nat \ {0}]] /\ matchIndex \in [Server -> [Server -> Nat]]
      BY DEF Good, ShapeInv, TypeOK, TypeLeader
    <2>2. \A k, j \in Server : (k # i \/ j # m.from)
             => matchIndex'[k][j] = matchIndex[k][j] /\ nextIndex'[k][j] = nextIndex[k][j]
      BY <2>1, <1>1 DEF SyncFailure
    <2> QED
      BY <2>2, <1>4 DEF LeadsFit
  <1> QED
    BY <1>2, <1>3, <1>5, CalmStep

(* InstallSnapshot: the snapshot was decided in its leader's term.           *)
LEMMA InstallSnapshotStep ==
    ASSUME Good, ShapeInv', NEW m \in snapReqs, InstallSnapshot(m)
    PROVE  LogInv'
  <1>0. /\ UNCHANGED <<log, commitIndex, lastApplied, nextIndex, matchIndex, pending, service>>
        /\ UNCHANGED <<leaderLog, acked, committed, voteReqs, voteReplies, appendReqs, appendReplies,
                       snapReqs>>
        /\ ReplySnapshot(m)
    BY DEF InstallSnapshot, InstallSnapshotStale, InstallSnapshotAccept, ReplySnapshot, leaderVars,
           logVars, voteNet, history
  <1>1. m.to \in Server /\ m.term \in Nat /\ m.index \in Nat /\ m.data \in Seq(Entry)
    BY DEF Good, ShapeInv, TypeOK, TypeLogNet, SnapReq
  <1>2. VotesCalm
    BY LogTrafficNoVote, NoVoteCalm DEF Good
  <1>3. \A j \in Server : SameLog(j)
    <2>1. UNCHANGED persister \/ Persist(m.to)
      BY DEF InstallSnapshot, InstallSnapshotStale, InstallSnapshotAccept
    <2> QED
      BY <2>1, <1>0, <1>1, PersistSame
  <1>4. \A j \in Server : SameRole(j)
    <2>1. AcceptLeader(m.to, m.term) \/ UNCHANGED serverVars
      BY DEF InstallSnapshot, InstallSnapshotStale, InstallSnapshotAccept
    <2> QED
      BY <2>1, <1>1, AcceptSame
  <1>5. CalmLogs
    BY <1>0, <1>2, <1>3, <1>4 DEF CalmLogs
  <1>6. /\ m.term \in DOMAIN leaderLog
        /\ SnapshotFits(leaderLog, acked, committed, m.term, m.data, m.index, m.lastTerm)
    BY DEF Good, LogInv, SnapshotsFit, SnapReqOK
  <1>7. ASSUME NEW r \in snapReplies', r \notin snapReplies PROVE SnapRepOK(r)'
    <2>1. r.term = m.term /\ r.index = m.index
      BY <1>0, <1>7 DEF ReplySnapshot
    <2>2. Begins(m.data, leaderLog[m.term])
      <3>1. Decided(leaderLog, acked, committed, m.term, m.data) /\ m.term <= m.term
        BY <1>1, <1>6 DEF SnapshotFits
      <3> QED
        BY <3>1, <1>1, <1>6, World, DecidedKept
    <2>3. m.index <= Len(leaderLog[m.term])
      BY <2>2, <1>6 DEF Begins, SnapshotFits
    <2> QED
      BY <2>1, <2>3, <1>0, <1>6 DEF SnapRepOK
  <1>8. ASSUME NEW j \in Server, NEW s \in snapMsgs'[j], s \notin snapMsgs[j] PROVE SnapMsgOK(j, s)'
    <2>1. InstallSnapshotAccept(m)
      BY <1>8 DEF InstallSnapshot, InstallSnapshotStale
    <2>2. snapMsgs \in [Server -> SUBSET SnapMsg]
      BY DEF Good, ShapeInv, TypeOK, TypeService
    <2>3. j = m.to /\ s = [index |-> m.index, term |-> m.lastTerm, data |-> m.data]
      BY <2>1, <2>2, <1>1, <1>8 DEF InstallSnapshotAccept
    <2>4. term'[m.to] = m.term
      <3>1. term \in [Server -> Nat] /\ m.term >= term[m.to] /\ AcceptLeader(m.to, m.term)
        BY <2>1 DEF Good, ShapeInv, TypeOK, TypeServer, InstallSnapshotAccept
      <3>2. CASE Resets(m.to, m.term)
        BY <3>1, <3>2, <1>1 DEF AcceptLeader, StepDown
      <3>3. CASE ~ Resets(m.to, m.term)
        BY <3>1, <3>3, <1>1 DEF AcceptLeader, Resets, serverVars
      <3> QED
        BY <3>2, <3>3
    <2> QED
      BY <2>3, <2>4, <1>0, <1>6 DEF SnapMsgOK
  <1>9. NetFits
    BY <1>0, <1>7, <1>8 DEF NetFits
  <1>10. ServersFit /\ LeadsFit
    BY <1>0 DEF ServersFit, LeadsFit, SameService
  <1> QED
    BY <1>5, <1>9, <1>10, CalmStep

(* The reply to InstallSnapshot: nextIndex moves behind the snapshot, which  *)
(* the leader's log includes.                                                *)
LEMMA InstallReplyNextStep ==
    ASSUME Good, ShapeInv', NEW m \in snapReplies, InstallReplyNext(m)
    PROVE  LogInv'
  <1> DEFINE i == m.to
  <1>0. /\ UNCHANGED <<serverVars, log, persister, voteNet, leaderLog, acked, committed>>
        /\ UNCHANGED <<commitIndex, lastApplied, pending, service, snapMsgs, term, matchIndex>>
        /\ UNCHANGED <<appendReqs, appendReplies, snapReqs, snapReplies>>
        /\ state[i] = "Leader" /\ term[i] = m.term
    BY DEF InstallReplyNext, LeadsTerm, logVars, history, logNet, serviceVars, serverVars
  <1>1. m.from \in Server /\ i \in Server /\ m.index \in Nat
    BY DEF Good, ShapeInv, TypeOK, TypeLogNet, SnapRep
  <1>2. CalmLogs
    <2>1. NoVoteStep
      BY LogTrafficNoVote DEF Good, InstallReply
    <2> QED
      BY <2>1, <1>0, AloneCalm
  <1>3. NetFits /\ ServersFit
    BY <1>0 DEF NetFits, ServersFit, SameService
  <1>4. nextIndex \in [Server -> [Server -> Nat \ {0}]]
    BY DEF Good, ShapeInv, TypeOK, TypeLeader
  <1>5. IndexOK(i, m.from)'
    <2>1. LastIndex(log[i]) = Len(leaderLog[term[i]]) /\ LastIndex(log[i]) \in Nat
      BY <1>0, <1>1, ServerFits, ServerTyped, IndexRange DEF LeaderOK, LeaderFits, Good
    <2>2. m.index <= Len(leaderLog[m.term])
      BY DEF Good, LogInv, RepliesFit, SnapRepOK
    <2>3. m.index + 1 <= LastIndex(log[i]) + 1
      BY <2>1, <2>2, <1>0, <1>1
    <2>4. nextIndex'[i][m.from] = m.index + 1
      BY <1>1, <1>4 DEF InstallReplyNext
    <2>5. IndexOK(i, m.from)
      BY <1>0, <1>1 DEF Good, LogInv, IndicesFit
    <2> QED
      BY <2>3, <2>4, <2>5, <1>0 DEF IndexOK
  <1>6. LeadsFit
    <2>1. \A k, j \in Server : (k # i \/ j # m.from) => nextIndex'[k][j] = nextIndex[k][j]
      BY <1>1, <1>4 DEF InstallReplyNext
    <2> QED
      BY <2>1, <1>0, <1>5 DEF LeadsFit
  <1> QED
    BY <1>2, <1>3, <1>6, CalmStep

(* DoApply: the entry it sends continues the state of the service.           *)
LEMMA DoApplyStep ==
    ASSUME Good, ShapeInv', NEW i \in Server, DoApply(i)
    PROVE  LogInv'
  <1>0. /\ UNCHANGED <<serverVars, log, persister, voteNet, leaderLog, acked, committed>>
        /\ UNCHANGED <<commitIndex, service, snapMsgs, term, nextIndex, matchIndex>>
        /\ UNCHANGED <<appendReqs, appendReplies, snapReqs, snapReplies>>
        /\ pending[i] = << >>
    BY DEF DoApply, leaderVars, history, logNet, serverVars
  <1>1. CalmLogs
    <2>1. NoVoteStep
      BY LocalNoVote DEF Good
    <2> QED
      BY <2>1, <1>0, AloneCalm
  <1>2. NetFits /\ LeadsFit
    BY <1>0 DEF NetFits, LeadsFit
  <1>3. lastApplied \in [Server -> Nat] /\ pending \in [Server -> Seq(Entry)]
    BY DEF Good, ShapeInv, TypeOK, TypeLog, TypeService
  <1>4. CommitOK(i)'
    <2>1. CommitOK(i)
      BY ServerFits
    <2> QED
      BY <2>1, <1>0 DEF CommitOK
  <1>5. ServiceOK(i)'
    <2>0. service[i].state \in Seq(Entry)
      BY ServerTyped DEF Good
    <2>s. PICK s \in Seq(Entry) : s = service[i].state
      BY <2>0
    <2>e. PICK e : e = GetLogAtIndex(log[i], lastApplied[i] + 1)
      OBVIOUS
    <2>1. /\ log[i] \in Log /\ Contiguous(log[i]) /\ term[i] \in Nat /\ commitIndex[i] \in Nat
          /\ service[i].lastApplied \in Nat
      BY ServerTyped DEF Good
    <2>2. /\ Decided(leaderLog, acked, committed, term[i], s) /\ Base(log[i]) <= Len(s)
          /\ lastApplied[i] = Len(s) /\ service[i].lastApplied <= Len(s)
      BY <2>s, <1>0, ServerFits DEF ServiceOK, StateFits
    <2>3. PICK n \in Nat : n = Len(s)
      OBVIOUS
    <2>4. commitIndex[i] > n
      BY <2>2, <2>3 DEF DoApply
    <2>5. /\ e \in Entry /\ e.index = Len(s) + 1
          /\ Decided(leaderLog, acked, committed, term[i], Append(s, e))
      <3>1. CommitFits(leaderLog, acked, committed, term[i], log[i], commitIndex[i])
        BY ServerFits DEF CommitOK
      <3>2. Len(s) < commitIndex[i]
        BY <2>1, <2>3, <2>4
      <3>3. e = GetLogAtIndex(log[i], Len(s) + 1)
        BY <2>2, <2>e
      <3> QED
        <4>1. PICK l \in Log, r \in Nat, c \in Nat :
                 l = log[i] /\ r = term[i] /\ c = commitIndex[i]
          BY <2>1
        <4>2. /\ Contiguous(l) /\ CommitFits(leaderLog, acked, committed, r, l, c)
              /\ Decided(leaderLog, acked, committed, r, s) /\ Base(l) <= Len(s) /\ Len(s) < c
              /\ e = GetLogAtIndex(l, Len(s) + 1)
          BY <4>1, <3>1, <3>2, <3>3, <2>1, <2>2
        <4>3. /\ HistoryType(leaderLog, acked, term)
              /\ LogTree(leaderLog) /\ Complete(leaderLog, acked, term)
          BY World
        <4>4. /\ e \in Entry /\ e.index = Len(s) + 1
              /\ Decided(leaderLog, acked, committed, r, Append(s, e))
          BY ONLY <4>2, <4>3, ApplyNext
        <4> QED
          BY <4>1, <4>4
    <2>6. pending'[i] = <<e>> /\ lastApplied'[i] = n + 1 /\ service'[i] = service[i]
      BY <2>2, <2>3, <2>e, <1>0, <1>3 DEF DoApply
    <2>7. pending'[i] # << >> /\ pending'[i][1] = e
      BY <2>6
    <2>8. Fresh(i)'
      BY <2>1, <2>2, <2>3, <2>5, <2>6, <2>7 DEF Fresh
    <2>9. StateFits(leaderLog, acked, committed, term[i], s, Base(log[i]), n + 1, TRUE, e)
      BY <2>2, <2>3, <2>5 DEF StateFits
    <2>10. n + 1 <= commitIndex[i] /\ e.index <= n + 1
      BY <2>1, <2>3, <2>4, <2>5
    <2> QED
      BY <2>s, <2>2, <2>6, <2>7, <2>8, <2>9, <2>10, <1>0 DEF ServiceOK
  <1>6. ServersFit
    <2>1. \A j \in Server \ {i} : lastApplied'[j] = lastApplied[j] /\ pending'[j] = pending[j]
      BY <1>3 DEF DoApply
    <2> QED
      BY <2>1, <1>0, <1>4, <1>5 DEF ServersFit, SameService
  <1> QED
    BY <1>1, <1>2, <1>6, CalmStep

(* A command that the service has already executed.                          *)
LEMMA ApplyRejectedStep ==
    ASSUME Good, ShapeInv', NEW i \in Server, ApplyRejected(i)
    PROVE  LogInv'
  <1>0. /\ UNCHANGED <<serverVars, log, persister, voteNet, leaderLog, acked, committed>>
        /\ UNCHANGED <<commitIndex, lastApplied, service, snapMsgs, term, nextIndex, matchIndex>>
        /\ UNCHANGED <<appendReqs, appendReplies, snapReqs, snapReplies>>
        /\ ~ Fresh(i)
    BY DEF ApplyRejected, logVars, leaderVars, history, logNet, serverVars
  <1>1. CalmLogs
    <2>1. NoVoteStep
      BY LocalNoVote DEF Good
    <2> QED
      BY <2>1, <1>0, AloneCalm
  <1>2. NetFits /\ LeadsFit
    BY <1>0 DEF NetFits, LeadsFit
  <1>3. pending \in [Server -> Seq(Entry)]
    BY DEF Good, ShapeInv, TypeOK, TypeService
  <1>4. pending'[i] = << >> /\ \A j \in Server \ {i} : pending'[j] = pending[j]
    BY <1>3 DEF ApplyRejected
  <1>5. CommitOK(i)' /\ ServiceOK(i)'
    BY <1>0, <1>4, ServerFits DEF CommitOK, ServiceOK, StateFits
  <1>6. ServersFit
    BY <1>0, <1>4, <1>5 DEF ServersFit, SameService
  <1> QED
    BY <1>1, <1>2, <1>6, CalmStep

(* A snapshot that is older than what the server has committed.              *)
LEMMA SnapshotRejectedStep ==
    ASSUME Good, ShapeInv', NEW i \in Server, NEW s \in snapMsgs[i], SnapshotRejected(i, s)
    PROVE  LogInv'
  <1>0. /\ UNCHANGED <<serverVars, log, persister, voteNet, leaderLog, acked, committed>>
        /\ UNCHANGED <<commitIndex, lastApplied, service, pending, term, nextIndex, matchIndex>>
        /\ UNCHANGED <<appendReqs, appendReplies, snapReqs, snapReplies>>
    BY DEF SnapshotRejected, logVars, leaderVars, history, logNet, serverVars
  <1>1. CalmLogs
    <2>1. NoVoteStep
      BY LocalNoVote DEF Good
    <2> QED
      BY <2>1, <1>0, AloneCalm
  <1>2. \A j \in Server : snapMsgs'[j] \subseteq snapMsgs[j]
    <2>1. snapMsgs \in [Server -> SUBSET SnapMsg]
      BY DEF Good, ShapeInv, TypeOK, TypeService
    <2> QED
      BY <2>1 DEF SnapshotRejected
  <1>3. NetFits /\ LeadsFit /\ ServersFit
    BY <1>0, <1>2 DEF NetFits, LeadsFit, ServersFit, SameService
  <1> QED
    BY <1>1, <1>3, CalmStep

(* A lost message.                                                           *)
LEMMA DropStep ==
    ASSUME Good, ShapeInv', Drop
    PROVE  LogInv'
  <1>0. /\ UNCHANGED <<serverVars, log, persister, voteNet, leaderLog, acked, committed>>
        /\ UNCHANGED <<commitIndex, lastApplied, service, pending, snapMsgs, term, nextIndex, matchIndex>>
    BY DEF Drop, logVars, leaderVars, serviceVars, history, serverVars
  <1>1. CalmLogs
    <2>1. NoVoteStep
      BY LocalNoVote DEF Good
    <2> QED
      BY <2>1, <1>0, AloneCalm
  <1>2. /\ appendReqs' \subseteq appendReqs /\ appendReplies' \subseteq appendReplies
        /\ snapReqs' \subseteq snapReqs /\ snapReplies' \subseteq snapReplies
    BY DEF Drop
  <1>3. NetFits /\ LeadsFit /\ ServersFit
    BY <1>0, <1>2 DEF NetFits, LeadsFit, ServersFit, SameService
  <1> QED
    BY <1>1, <1>3, CalmStep

(* A restart: the commit index and the service fall back to the snapshot.    *)
LEMMA RestartStep ==
    ASSUME Good, ShapeInv', NoVoteStep, NEW i \in Server, NEW p, Restart(i, p),
           p.log = persister[i].log, p.snapshot = persister[i].snapshot,
           voteReqs' \subseteq voteReqs, UNCHANGED <<voteReplies, logNet, history>>
    PROVE  LogInv'
  <1>0. UNCHANGED <<leaderLog, acked, committed, appendReqs, appendReplies, snapReqs, snapReplies>>
    BY DEF logNet, history
  <1>1. /\ persister \in [Server -> Persisted] /\ log \in [Server -> Log]
        /\ state \in [Server -> {"Follower", "Candidate", "Leader"}] /\ term \in [Server -> Nat]
        /\ commitIndex \in [Server -> Nat] /\ lastApplied \in [Server -> Nat]
        /\ nextIndex \in [Server -> [Server -> Nat \ {0}]] /\ matchIndex \in [Server -> [Server -> Nat]]
        /\ pending \in [Server -> Seq(Entry)] /\ snapMsgs \in [Server -> SUBSET SnapMsg]
        /\ service \in [Server -> [lastApplied : Nat, state : Seq(Entry)]]
    BY DEF Good, ShapeInv, TypeOK, TypeServer, TypePersister, TypeLog, TypeLeader, TypeService, Log
  <1>2. /\ persister'[i] = p /\ log'[i] = p.log /\ state'[i] = "Follower"
        /\ commitIndex'[i] = Base(p.log) /\ lastApplied'[i] = Base(p.log)
        /\ pending'[i] = << >> /\ snapMsgs'[i] = {}
        /\ service'[i] = [lastApplied |-> 0, state |-> p.snapshot]
    BY <1>1 DEF Restart, RestartIndex
  <1>3. \A j \in Server \ {i} :
           /\ persister'[j] = persister[j] /\ log'[j] = log[j] /\ state'[j] = state[j]
           /\ term'[j] = term[j] /\ commitIndex'[j] = commitIndex[j] /\ lastApplied'[j] = lastApplied[j]
           /\ pending'[j] = pending[j] /\ snapMsgs'[j] = snapMsgs[j] /\ service'[j] = service[j]
           /\ nextIndex'[j] = nextIndex[j] /\ matchIndex'[j] = matchIndex[j]
    BY <1>1 DEF Restart
  <1>4. CalmLogs
    <2>1. \A j \in Server : persister[j].log = log[j]
      BY ServerFits DEF LogOK
    <2>2. \A j \in Server : SameLog(j)
      BY <2>1, <1>2, <1>3 DEF SameLog
    <2>3. \A j \in Server : SameRole(j)
      BY <1>2, <1>3 DEF SameRole
    <2> QED
      BY <2>2, <2>3, <1>0, NoVoteCalm DEF CalmLogs
  <1>5. NetFits
    BY <1>0, <1>2, <1>3 DEF NetFits
  <1>6. LeadsFit
    BY <1>2, <1>3 DEF LeadsFit
  <1>7. CommitOK(i)' /\ ServiceOK(i)'
    <2>1. LogOK(i)'
      BY <1>4, CalmKeeps DEF LogsFit
    <2>2. /\ LogFits(leaderLog', acked', committed', term'[i], p.log, p.snapshot)
          /\ p.log \in Log /\ Contiguous(p.log) /\ p.snapshot \in Seq(Entry) /\ term'[i] \in Nat
      <3>1. persister'[i] \in Persisted /\ Contiguous(log'[i]) /\ term'[i] \in Nat
        BY DEF ShapeInv, TypeOK, TypePersister, TypeServer, LogsContiguous
      <3> QED
        BY <3>1, <2>1, <1>2 DEF LogOK, Persisted, Log
    <2>3. HistoryType(leaderLog', acked', term')
      BY DEF ShapeInv, TypeOK, TypeHistory, TypeServer, HistoryType
    <2>4. CommitFits(leaderLog', acked', committed', term'[i], p.log, Base(p.log))
      BY <2>2, <2>3, BaseCommitted
    <2>5. Len(p.snapshot) = Base(p.log) /\ Decided(leaderLog', acked', committed', term'[i], p.snapshot)
      BY <2>2 DEF LogFits, SnapshotFits
    <2>6. Base(p.log) \in Nat
      BY <2>2, LogFacts
    <2>7. StateFits(leaderLog', acked', committed', term'[i], p.snapshot, Base(p.log), Base(p.log),
                    FALSE, pending'[i][1])
      BY <2>5, <2>6 DEF StateFits
    <2>8. 0 <= Len(p.snapshot) /\ Base(p.log) <= Base(p.log)
      BY <2>5, <2>6
    <2>9. (pending'[i] # << >> /\ Fresh(i)') = FALSE
      BY <1>2
    <2>10. service'[i].state = p.snapshot /\ service'[i].lastApplied = 0
      BY <1>2
    <2>11. CommitOK(i)'
      BY <2>4, <1>2 DEF CommitOK
    <2>12. ServiceOK(i)'
      BY <2>7, <2>8, <2>9, <2>10, <1>2 DEF ServiceOK
    <2> QED
      BY <2>11, <2>12
  <1>8. ServersFit
    BY <1>3, <1>7 DEF ServersFit, SameService
  <1> QED
    BY <1>4, <1>5, <1>6, <1>8, CalmStep

(* A crash, also one between the two writes of a handler.                    *)
LEMMA CrashStep ==
    ASSUME Good, ShapeInv',
           \/ \E i \in Server : Crash(i) \/ CrashInElection(i)
           \/ \E m \in voteReqs : CrashInRequestVote(m)
           \/ \E m \in appendReqs : CrashInAppendEntries(m)
    PROVE  LogInv'
  <1>1. NoVoteStep
    BY CrashNoVote DEF Good
  <1>2. \E i \in Server : \E p : /\ Restart(i, p)
                                 /\ p.log = persister[i].log /\ p.snapshot = persister[i].snapshot
    <2>1. ASSUME NEW i \in Server, NEW t
          PROVE  /\ AfterResetTerm(i, t).log = persister[i].log
                 /\ AfterResetTerm(i, t).snapshot = persister[i].snapshot
      <3>1. persister[i] \in Persisted
        BY DEF Good, ShapeInv, TypeOK, TypePersister
      <3> QED
        BY <3>1 DEF AfterResetTerm, Persisted
    <2>2. \A m \in voteReqs : m.to \in Server
      BY DEF Good, ShapeInv, TypeOK, TypeVoteNet, VoteReq
    <2>3. \A m \in appendReqs : m.to \in Server
      BY DEF Good, ShapeInv, TypeOK, TypeLogNet, AppendReq
    <2> QED
      BY <2>1, <2>2, <2>3 DEF Crash, CrashInElection, CrashInRequestVote, CrashInAppendEntries
  <1>3. voteReqs' \subseteq voteReqs /\ UNCHANGED <<voteReplies, logNet, history>>
    BY DEF Crash, CrashInElection, CrashInRequestVote, CrashInAppendEntries, voteNet
  <1> QED
    BY <1>1, <1>2, <1>3, RestartStep

-----------------------------------------------------------------------------
(* The actions that change the log of one server, or commit.                 *)

(* The other servers are left alone.                                         *)
Others(w) ==
    \A j \in Server \ {w} :
        /\ SameLog(j) /\ SameLead(j) /\ SameAcks(j) /\ SameRole(j)
        /\ commitIndex'[j] = commitIndex[j] /\ SameService(j)

(* What the server has after the step fits.                                  *)
OneFits(w) ==
    /\ LogOK(w)' /\ LeaderOK(w)' /\ CommitOK(w)' /\ ServiceOK(w)' /\ AckOK(w)'
    /\ SameRole(w) /\ SameCandidate(w) /\ Base(log[w]) <= Base(log'[w])

(* What leaders count with is left alone or fits.                            *)
LeadsOn ==
    \A i, j \in Server : state'[i] = "Leader" =>
        \/ /\ LastIndex(log'[i]) = LastIndex(log[i])
           /\ matchIndex'[i][j] = matchIndex[i][j] /\ nextIndex'[i][j] = nextIndex[i][j]
        \/ IndexOK(i, j)'

(* Then the step keeps the invariant.                                        *)
LEMMA OneStep ==
    ASSUME Good, ShapeInv', Grow, TreeFits', VotesCalm, DOMAIN leaderLog' = DOMAIN leaderLog,
           UNCHANGED voteNet, NEW w \in Server, Others(w), OneFits(w), NetFits, LeadsOn,
           \A a \in acked' : a \in acked \/ term[a.server] <= a.term,
           \A e \in committed' : e \in committed \/ OnWay(leaderLog', acked', committed', e)
    PROVE  LogInv'
  <1>1. ASSUME NEW j \in Server, j # w PROVE LogOK(j)' /\ LeaderOK(j)' /\ CommitOK(j)' /\ ServiceOK(j)' /\ AckOK(j)'
    <2>1. /\ SameLog(j) /\ SameLead(j) /\ SameAcks(j) /\ commitIndex'[j] = commitIndex[j] /\ SameService(j)
          /\ log'[j] = log[j] /\ Base(log'[j]) = Base(log[j]) /\ commitIndex[j] \in Nat
      BY <1>1, ServerTyped DEF Others, SameLog, Good
    <2> QED
      BY <2>1, KeepLog, KeepLeader, KeepCommit, KeepService, KeepAck
  <1>2. LogsFit' /\ LeadersFit' /\ CommitsFit' /\ ServicesFit' /\ AcksFit'
    BY <1>1 DEF OneFits, LogsFit, LeadersFit, CommitsFit, ServicesFit, AcksFit
  <1>3. \A j \in Server : SameRole(j)
    BY DEF Others, OneFits
  <1>4. \A c \in Server : SameCandidate(c)
    <2>1. \A l : CoversKept(leaderLog, acked, term, l, l)
      BY DEF CoversKept
    <2> QED
      BY <2>1, <1>3 DEF SameCandidate, SameRole, Others, OneFits, SameLog
  <1>5. BasesGrow
    <2> SUFFICES ASSUME NEW j \in Server PROVE Base(log[j]) <= Base(log'[j])
      BY DEF BasesGrow
    <2>1. CASE j = w
      BY <2>1 DEF OneFits
    <2>2. CASE j # w
      <3>1. log[j] \in Log /\ log'[j] = log[j]
        BY <2>2, ServerTyped DEF Good, Others, SameLog
      <3> QED
        BY <3>1, LogFacts
    <2> QED
      BY <2>1, <2>2
  <1>6. TermsFit'
    BY <1>3, TermsStep DEF VotesCalm, voteNet
  <1>7. VotesFit'
    BY <1>2, <1>4, VotesStep DEF VotesCalm, voteNet
  <1>8. RequestsFit' /\ SnapshotsFit' /\ RepliesFit'
    BY <1>5, NetStep DEF VotesCalm
  <1>9. ASSUME NEW i \in Server, NEW j \in Server, state'[i] = "Leader" PROVE IndexOK(i, j)'
    <2>1. CASE /\ LastIndex(log'[i]) = LastIndex(log[i])
               /\ matchIndex'[i][j] = matchIndex[i][j] /\ nextIndex'[i][j] = nextIndex[i][j]
      <3>1. state[i] = "Leader" /\ term'[i] = term[i]
        BY <1>3, <1>9 DEF SameRole
      <3> QED
        BY <3>1, <2>1, <1>5, KeepIndex DEF BasesGrow
    <2> QED
      BY <2>1, <1>9 DEF LeadsOn
  <1>10. CommittedFit'
    BY KeepOnWay DEF CommittedFit
  <1> QED
    BY <1>2, <1>6, <1>7, <1>8, <1>9, <1>10 DEF LogInv, IndicesFit

(* Two leaders have different terms.                                         *)
LEMMA LeadersDiffer ==
    ASSUME Good, NEW i \in Server, NEW j \in Server, state[i] = "Leader", state[j] = "Leader", i # j
    PROVE  term[i] # term[j]
  <1>1. PICK e \in elected : e.term = term[i] /\ e.leader = i
    BY DEF Good, LogInv, TermsFit
  <1>2. PICK f \in elected : f.term = term[j] /\ f.leader = j
    BY DEF Good, LogInv, TermsFit
  <1>3. ElectionSafety
    BY ElectionInvSafe DEF Good
  <1> QED
    BY <1>1, <1>2, <1>3 DEF ElectionSafety

(* A majority has reached every term that was won.                           *)
LEMMA TermsReached ==
    ASSUME Good
    PROVE  Reached(leaderLog, term)
  <1> SUFFICES ASSUME NEW u \in DOMAIN leaderLog, u > 0
               PROVE  IsMajority({v \in Server : term[v] >= u})
    BY DEF Reached
  <1>1. u \in Nat
    BY DEF Good, ShapeInv, TypeOK, TypeHistory
  <1>2. PICK e \in elected : e.term = u
    BY <1>1 DEF Good, LogInv, TermsFit
  <1>3. e.leader \in Server /\ e.votes \in SUBSET Server
    BY DEF Good, ShapeInv, TypeOK, TypeHistory
  <1>4. IsMajority(e.votes)
    BY DEF Good, ElectionInv, WinnersKeepVote
  <1>5. ASSUME NEW v \in e.votes PROVE term[v] >= u
    <2>1. term[v] \in Nat
      BY <1>3, ServerTyped DEF Good
    <2>2. CASE v = e.leader
      BY <2>1, <2>2, <1>1, <1>2 DEF Good, ElectionInv, WinnersKeepVote
    <2>3. CASE v # e.leader
      <3>1. Granted(v, e.leader, u)
        BY <1>2 DEF Granted
      <3> QED
        BY <3>1, <2>1, <2>3, <1>1, <1>3 DEF Good, ElectionInv, VotesKept
    <2> QED
      BY <2>2, <2>3
  <1> QED
    BY <1>3, <1>4, <1>5, MajorityGrows

(* Start: the leader's log and its copy in the history grow by one entry.    *)
LEMMA StartStep ==
    ASSUME Good, ShapeInv', NEW i \in Server, NEW c \in Command, Start(i, c)
    PROVE  LogInv'
  <1>e. PICK e : e = [term |-> term[i], index |-> LogTail(log[i]).index + 1, cmd |-> c]
    OBVIOUS
  <1>0. /\ UNCHANGED <<state, term, commitIndex, lastApplied, nextIndex, pending, snapMsgs, service>>
        /\ UNCHANGED <<appendReqs, appendReplies, snapReqs, snapReplies, elected, committed, voteNet>>
        /\ state[i] = "Leader" /\ Persist(i)
        /\ log' = [log EXCEPT ![i] = Append(@, e)]
        /\ matchIndex' = [matchIndex EXCEPT ![i][i] = @ + 1]
        /\ leaderLog' = [leaderLog EXCEPT ![term[i]] = Append(@, e)]
        /\ acked' = acked \cup {[server |-> i, term |-> term[i], index |-> e.index]}
    <2>1. e.term = term[i]
      BY <1>e
    <2> QED
      BY <1>e, <2>1 DEF Start, serverVars, serviceVars, logNet
  <1>1. /\ log \in [Server -> Log] /\ matchIndex \in [Server -> [Server -> Nat]]
        /\ persister \in [Server -> Persisted]
    BY DEF Good, ShapeInv, TypeOK, TypeLog, TypeLeader, TypePersister, Log
  <1>2. /\ log[i] \in Log /\ Contiguous(log[i]) /\ term[i] \in Nat /\ commitIndex[i] \in Nat
        /\ persister[i].snapshot \in Seq(Entry)
        /\ LogFits(leaderLog, acked, committed, term[i], log[i], persister[i].snapshot)
        /\ LeaderFits(leaderLog, acked, i, term[i], log[i])
        /\ CommitFits(leaderLog, acked, committed, term[i], log[i], commitIndex[i])
        /\ AckFits(leaderLog, acked, term, i, log[i])
    BY <1>0, ServerTyped, ServerFits DEF Good, LogOK, LeaderOK, CommitOK, AckOK
  <1>3. /\ HistoryType(leaderLog, acked, term) /\ LogTree(leaderLog)
        /\ Complete(leaderLog, acked, term) /\ Reached(leaderLog, term)
    BY World, TermsReached
  <1>4. e \in Entry /\ e.index = LastIndex(log[i]) + 1 /\ LastIndex(log[i]) \in Nat /\ e.term = term[i]
    <2>1. LastIndex(log[i]) \in Nat
      BY <1>2, IndexRange
    <2> QED
      BY <2>1, <1>2, <1>e DEF Entry, LastIndex
  <1>5. Appends(leaderLog, acked, term, leaderLog', acked', i, term[i], e)
    <2>1. term[i] \in DOMAIN leaderLog /\ LastIndex(log[i]) = Len(leaderLog[term[i]])
      BY <1>2 DEF LeaderFits
    <2>2. term[i] > 0
      BY <1>0 DEF Good, LogInv, TermsFit
    <2>3. ASSUME NEW a \in acked
          PROVE  a.term \in DOMAIN leaderLog /\ a.index \in 1..Len(leaderLog[a.term])
      <3>1. a.server \in Server
        BY DEF Good, ShapeInv, TypeOK, TypeHistory
      <3> QED
        BY <3>1, ServerFits DEF AckOK, AckFits
    <2> QED
      BY <2>1, <2>2, <2>3, <1>0, <1>4 DEF Appends
  <1>6. LogTree(leaderLog')
    BY <1>3, <1>5, AppendsTree
  <1>7. /\ HistoryStep(leaderLog, acked, committed, term, leaderLog', acked', committed, term)
        /\ Complete(leaderLog', acked', term)
    BY <1>3, <1>5, AppendsStep
  <1>8. Grow /\ TreeFits'
    BY <1>0, <1>6, <1>7 DEF Grow, TreeFits
  <1>9. DOMAIN leaderLog' = DOMAIN leaderLog /\ \A u \in DOMAIN leaderLog : u # term[i] => leaderLog'[u] = leaderLog[u]
    BY <1>3, <1>5, AppendsLogs
  <1>10. VotesCalm
    BY LocalNoVote, NoVoteCalm DEF Good
  <1>11. log'[i] = Append(log[i], e) /\ \A j \in Server \ {i} : log'[j] = log[j]
    BY <1>0, <1>1
  <1>12. /\ Base(log'[i]) = Base(log[i]) /\ Base(log[i]) \in Nat
         /\ LastIndex(log'[i]) = LastIndex(log[i]) + 1
    BY <1>2, <1>4, <1>11, AppendFacts, IndexRange
  <1>13. persister'[i].log = log'[i] /\ persister'[i].snapshot = persister[i].snapshot
    BY <1>0, <1>1 DEF Persist
  <1>14. Others(i)
    <2> SUFFICES ASSUME NEW j \in Server, j # i
                 PROVE  SameLog(j) /\ SameLead(j) /\ SameAcks(j)
      BY <1>0 DEF Others, SameRole, SameService
    <2>1. SameLog(j)
      <3>1. persister'[j] = persister[j] /\ persister[j].log = log[j]
        BY <1>0, <1>1, ServerFits DEF Persist, LogOK
      <3> QED
        BY <3>1, <1>11 DEF SameLog
    <2>2. SameAcks(j)
      BY <1>0 DEF SameAcks
    <2>3. SameLead(j)
      <3> SUFFICES ASSUME state[j] = "Leader" PROVE leaderLog'[term[j]] = leaderLog[term[j]]
        BY <1>0 DEF SameLead
      <3>1. term[j] # term[i] /\ term[j] \in DOMAIN leaderLog
        BY <1>0, LeadersDiffer, ServerFits DEF LeaderOK, LeaderFits
      <3> QED
        BY <3>1, <1>9
    <2> QED
      BY <2>1, <2>2, <2>3
  <1>15. OneFits(i)
    <2>1. LeaderFits(leaderLog', acked', i, term[i], Append(log[i], e))
      BY <1>2, <1>3, <1>5, <1>7, StartFits
    <2>2. /\ LogFits(leaderLog', acked', committed, term[i], Append(log[i], e), persister[i].snapshot)
          /\ CommitFits(leaderLog', acked', committed, term[i], Append(log[i], e), commitIndex[i])
          /\ AckFits(leaderLog', acked', term, i, Append(log[i], e))
      BY <1>2, <1>3, <1>5, <1>7, StartKeeps
    <2>3. LogOK(i)' /\ LeaderOK(i)' /\ CommitOK(i)' /\ AckOK(i)'
      BY <2>1, <2>2, <1>0, <1>11, <1>13 DEF LogOK, LeaderOK, CommitOK, AckOK
    <2>4. ServiceOK(i)'
      <3>1. SameService(i) /\ commitIndex'[i] \in Nat /\ commitIndex'[i] >= commitIndex[i]
        BY <1>0, <1>2 DEF SameService
      <3> QED
        BY <3>1, <1>8, <1>12, KeepService
    <2>5. SameRole(i) /\ SameCandidate(i)
      BY <1>0 DEF SameRole, SameCandidate
    <2> QED
      BY <2>3, <2>4, <2>5, <1>12 DEF OneFits
  <1>16. NetFits
    BY <1>0 DEF NetFits
  <1>17. LeadsOn
    <2> SUFFICES ASSUME NEW k \in Server, NEW j \in Server, state[k] = "Leader"
                 PROVE  \/ /\ LastIndex(log'[k]) = LastIndex(log[k])
                           /\ matchIndex'[k][j] = matchIndex[k][j] /\ nextIndex'[k][j] = nextIndex[k][j]
                        \/ IndexOK(k, j)'
      BY <1>0 DEF LeadsOn
    <2>1. CASE k # i
      BY <2>1, <1>0, <1>1, <1>11
    <2>2. CASE k = i
      <3>1. IndexOK(i, j) /\ matchIndex[i][j] \in Nat /\ nextIndex[i][j] \in Nat
        <4>1. IndexOK(i, j)
          BY <1>0 DEF Good, LogInv, IndicesFit
        <4>2. nextIndex \in [Server -> [Server -> Nat \ {0}]]
          BY DEF Good, ShapeInv, TypeOK, TypeLeader
        <4> QED
          BY <4>1, <4>2, <1>1
      <3>2. nextIndex[i][j] <= LastIndex(log'[i]) + 1
        BY <3>1, <1>4, <1>12 DEF IndexOK
      <3>3. CASE j = i
        <4>1. matchIndex'[i][i] = matchIndex[i][i] + 1
          BY <1>0, <1>1
        <4> QED
          BY <4>1, <3>1, <3>2, <3>3, <2>2, <1>0, <1>12 DEF IndexOK
      <3>4. CASE j # i
        <4>1. matchIndex'[i][j] = matchIndex[i][j]
          BY <3>4, <1>0, <1>1
        <4>2. Base(log[j]) <= Base(log'[j])
          <5>1. log'[j] = log[j] /\ log[j] \in Log
            BY <3>4, <1>11, <1>1
          <5> QED
            BY <5>1, LogFacts
        <4>3. ASSUME matchIndex[i][j] > 0
              PROVE  Known(leaderLog', acked', committed', log'[j], j, term[i], matchIndex[i][j])
          BY <4>2, <4>3, <3>1, <3>4, <1>0, <1>8, KeepKnown DEF IndexOK
        <4> QED
          BY <4>1, <4>3, <3>2, <3>4, <2>2, <1>0 DEF IndexOK
      <3> QED
        BY <3>3, <3>4
    <2> QED
      BY <2>1, <2>2
  <1>18. \A a \in acked' : a \in acked \/ term[a.server] <= a.term
    BY <1>0, <1>2
  <1> QED
    BY <1>0, <1>8, <1>9, <1>10, <1>14, <1>15, <1>16, <1>17, <1>18, OneStep

(* What a server has heard of the leader of t, it takes over t.              *)
LEMMA AcceptTerm ==
    ASSUME Good, NEW w \in Server, NEW t \in Nat, t >= term[w], AcceptLeader(w, t)
    PROVE  /\ term'[w] = t /\ state'[w] \in {state[w], "Follower"} /\ state'[w] # "Candidate"
           /\ \A j \in Server \ {w} : term'[j] = term[j] /\ state'[j] = state[j]
           /\ state'[w] = state[w] => term[w] = t \/ state[w] = "Follower"
  <1>1. term \in [Server -> Nat] /\ state \in [Server -> {"Follower", "Candidate", "Leader"}]
    BY DEF Good, ShapeInv, TypeOK, TypeServer
  <1>2. CASE Resets(w, t)
    BY <1>1, <1>2 DEF AcceptLeader, StepDown, BecomeFollower
  <1>3. CASE ~ Resets(w, t)
    BY <1>1, <1>3 DEF AcceptLeader, Resets, serverVars
  <1> QED
    BY <1>2, <1>3

(* Nobody hears from the leader of the term it leads itself.                 *)
LEMMA OtherLeader ==
    ASSUME Good, NEW m \in appendReqs, term[m.to] = m.term
    PROVE  state[m.to] # "Leader"
  <1>1. m.to \in Server /\ RequestOK(m)
    BY DEF Good, ShapeInv, TypeOK, TypeLogNet, AppendReq, LogInv, RequestsFit
  <1> SUFFICES ASSUME state[m.to] = "Leader" PROVE FALSE
    OBVIOUS
  <1>2. PICK e \in elected : e.term = term[m.to] /\ e.leader = m.to
    BY <1>1 DEF Good, LogInv, TermsFit
  <1>3. PICK f \in elected : f.term = m.term /\ f.leader = m.from
    BY <1>1 DEF RequestOK
  <1>4. ElectionSafety
    BY ElectionInvSafe DEF Good
  <1> QED
    BY <1>1, <1>2, <1>3, <1>4 DEF ElectionSafety, RequestOK

(* AppendEntries that merges: the server stores what of the request its      *)
(* snapshot has not replaced, and gives up nothing that counts.              *)
LEMMA AppendEntriesAcceptStep ==
    ASSUME Good, ShapeInv', NEW m \in appendReqs, AppendEntriesAccept(m)
    PROVE  LogInv'
  <1> DEFINE w == m.to
  <1>0. /\ UNCHANGED <<lastApplied, nextIndex, matchIndex, pending, snapMsgs, service, voteNet>>
        /\ UNCHANGED <<appendReqs, snapReqs, snapReplies, elected, committed, leaderLog>>
        /\ m.term >= term[w] /\ ~ PrevConflict(m, log[w]) /\ ReplyAppend(m, TRUE, NoConflict)
        /\ AcceptLeader(w, m.term) /\ acked' = acked \cup StoredBy(m)
    BY DEF AppendEntriesAccept, ReplyAppend, leaderVars, serviceVars
  <1>1. m \in AppendReq /\ Follows(m.entries, m.prevIndex) /\ RequestOK(m)
    BY DEF Good, ShapeInv, TypeOK, TypeLogNet, RequestsFollow, LogInv, RequestsFit
  <1>2. /\ w \in Server /\ m.term \in Nat /\ m.entries \in Seq(Entry) /\ m.prevIndex \in Nat
        /\ m.from \in Server
        /\ RequestFits(leaderLog, acked, committed, term, m) /\ m.from # w
    BY <1>1 DEF AppendReq, RequestOK
  <1>3. /\ log[w] \in Log /\ Contiguous(log[w]) /\ term[w] \in Nat /\ commitIndex[w] \in Nat
        /\ persister[w].snapshot \in Seq(Entry) /\ persister[w].log = log[w]
        /\ LogFits(leaderLog, acked, committed, term[w], log[w], persister[w].snapshot)
        /\ CommitFits(leaderLog, acked, committed, term[w], log[w], commitIndex[w])
        /\ AckFits(leaderLog, acked, term, w, log[w])
    BY <1>2, ServerTyped, ServerFits DEF Good, LogOK, CommitOK, AckOK
  <1>4. /\ log \in [Server -> Log] /\ persister \in [Server -> Persisted] /\ commitIndex \in [Server -> Nat]
    BY DEF Good, ShapeInv, TypeOK, TypeLog, TypePersister, Log
  <1>5. /\ log'[w] = Merge(log[w], m.entries)
        /\ commitIndex'[w] = FollowerCommit(m.leaderCommit, commitIndex[w], Merge(log[w], m.entries))
        /\ \A j \in Server \ {w} : log'[j] = log[j] /\ commitIndex'[j] = commitIndex[j]
    BY <1>2, <1>4 DEF AppendEntriesAccept
  <1>6. /\ persister'[w].log = log'[w] /\ persister'[w].snapshot = persister[w].snapshot
        /\ \A j \in Server \ {w} : persister'[j] = persister[j]
    <2>1. CASE Persist(w)
      BY <2>1, <1>2, <1>4 DEF Persist
    <2>2. CASE UNCHANGED persister /\ m.entries = << >>
      BY <2>2, <1>3, <1>5 DEF Merge
    <2> QED
      BY <2>1, <2>2 DEF AppendEntriesAccept
  <1>7. /\ term'[w] = m.term /\ state'[w] = "Follower"
        /\ \A j \in Server \ {w} : term'[j] = term[j] /\ state'[j] = state[j]
    <2>1. /\ term'[w] = m.term /\ state'[w] \in {state[w], "Follower"}
          /\ \A j \in Server \ {w} : term'[j] = term[j] /\ state'[j] = state[j]
          /\ state'[w] # "Candidate" /\ (state'[w] = state[w] => term[w] = m.term \/ state[w] = "Follower")
      BY <1>0, <1>2, AcceptTerm
    <2>2. state[w] \in {"Follower", "Candidate", "Leader"}
      BY <1>2, ServerTyped DEF Good
    <2> QED
      BY <2>1, <2>2, OtherLeader
  <1>8. \A a \in acked' : a \in acked \/ (a.server = w /\ a.term = m.term)
    BY <1>0 DEF StoredBy
  <1>9. \A a \in acked' : a \in acked \/ term[a.server] <= a.term
    BY <1>0, <1>2, <1>3, <1>8
  <1>10. Grow /\ TreeFits'
    <2>1. \A j \in Server : term[j] <= term'[j]
      <3>1. \A j \in Server : term[j] \in Nat
        BY ServerTyped DEF Good
      <3> QED
        BY <3>1, <1>0, <1>2, <1>7
    <2>2. Quiet(acked, committed, term, acked', committed', term')
      BY <2>1, <1>0, <1>9 DEF Quiet
    <2> QED
      BY <2>2, <1>0, QuietGrows
  <1>11. PICK n \in Nat : n = m.prevIndex + Len(m.entries)
    BY <1>2
  <1>12. m.entries # << >> => LogTail(m.entries).index = n
    BY <1>1, <1>2, <1>11 DEF Follows, LogTail
  <1>13. /\ HistoryType(leaderLog, acked, term) /\ LogTree(leaderLog) /\ Complete(leaderLog, acked, term)
         /\ HistoryStep(leaderLog, acked, committed, term, leaderLog, acked', committed, term')
    BY <1>0, <1>10, World DEF Grow
  <1>14. /\ LogFits(leaderLog, acked, committed, m.term, log'[w], persister[w].snapshot)
         /\ Base(log'[w]) = Base(log[w])
    BY <1>0, <1>1, <1>2, <1>3, <1>5, <1>13, MergeLog
  <1>15. /\ commitIndex'[w] >= commitIndex[w] /\ commitIndex'[w] \in Nat
         /\ CommitFits(leaderLog, acked, committed, m.term, log'[w], commitIndex'[w])
    <2>1. PICK c2 : c2 = FollowerCommit(m.leaderCommit, commitIndex[w], Merge(log[w], m.entries))
      OBVIOUS
    <2>2. /\ c2 >= commitIndex[w] /\ c2 \in Nat
          /\ CommitFits(leaderLog, acked, committed, m.term, Merge(log[w], m.entries), c2)
      BY <2>1, <1>0, <1>1, <1>2, <1>3, <1>13, MergeCommit
    <2> QED
      BY <2>1, <2>2, <1>5
  <1>16. /\ LogFits(leaderLog', acked', committed', m.term, log'[w], persister[w].snapshot)
         /\ CommitFits(leaderLog', acked', committed', m.term, log'[w], commitIndex'[w])
         /\ log'[w] \in Log /\ Contiguous(log'[w])
    <2>1. log'[w] \in Log /\ Contiguous(log'[w]) /\ m.term <= m.term
      BY <1>2 DEF ShapeInv, TypeOK, TypeLog, Log, LogsContiguous
    <2>2. LogFits(leaderLog', acked', committed', m.term, log'[w], persister[w].snapshot)
      BY <2>1, <1>2, <1>3, <1>10, <1>14, LogStays DEF Grow
    <2>3. CommitFits(leaderLog', acked', committed', m.term, log'[w], commitIndex'[w])
      BY <2>1, <1>2, <1>10, <1>15, <1>0, CommitStays DEF Grow
    <2> QED
      BY <2>1, <2>2, <2>3
  <1>17. AckFits(leaderLog, acked', term', w, log'[w])
    <2>1. Stores(acked, acked', w, log[w], m.term, n)
      <3> SUFFICES ASSUME NEW a \in acked', a \notin acked
                   PROVE  a.term = m.term /\ a.index = n /\ n > Base(log[w])
        BY DEF Stores
      <3>1. /\ m.entries # << >> /\ ~ (LogTail(m.entries).index <= Base(log[w]))
            /\ a = [server |-> w, term |-> m.term, index |-> LogTail(m.entries).index]
        BY <1>0 DEF StoredBy
      <3>2. Base(log[w]) \in Nat
        BY <1>3, LogFacts
      <3> QED
        BY <3>1, <3>2, <1>11, <1>12
    <2>2. term[w] <= m.term
      BY <1>0, <1>2, <1>3
    <2> QED
      BY <2>1, <2>2, <1>0, <1>1, <1>2, <1>3, <1>5, <1>7, <1>11, <1>13, MergeAcks
  <1>18. OneFits(w)
    <2>1. LogOK(w)' /\ CommitOK(w)' /\ AckOK(w)'
      BY <1>0, <1>6, <1>7, <1>16, <1>17 DEF LogOK, CommitOK, AckOK
    <2>2. LeaderOK(w)' /\ SameRole(w) /\ SameCandidate(w)
      BY <1>7 DEF LeaderOK, SameRole, SameCandidate
    <2>3. ServiceOK(w)'
      <3>1. SameService(w)
        BY <1>0 DEF SameService
      <3> QED
        BY <3>1, <1>2, <1>10, <1>14, <1>15, KeepService
    <2>4. Base(log[w]) <= Base(log'[w])
      BY <1>3, <1>14, LogFacts
    <2> QED
      BY <2>1, <2>2, <2>3, <2>4 DEF OneFits
  <1>19. Others(w)
    <2> SUFFICES ASSUME NEW j \in Server, j # w PROVE SameLog(j) /\ SameAcks(j)
      BY <1>0, <1>5, <1>7 DEF Others, SameRole, SameService, SameLead
    <2>1. persister[j].log = log[j]
      BY ServerFits DEF LogOK
    <2> QED
      BY <2>1, <1>5, <1>6, <1>8 DEF SameLog, SameAcks
  <1>20. ASSUME NEW r \in appendReplies', r \notin appendReplies PROVE AppendRepOK(r)'
    <2>1. /\ r.from = w /\ r.to = m.from /\ r.term = m.term
          /\ r.last = IF m.entries = << >> THEN 0 ELSE LogTail(m.entries).index
      BY <1>0, <1>20 DEF ReplyAppend
    <2>2. m.term \in DOMAIN leaderLog /\ n <= Len(leaderLog[m.term])
      BY <1>2, <1>11 DEF RequestFits
    <2>3. ASSUME r.last > 0
          PROVE  Known(leaderLog', acked', committed', log'[w], w, m.term, r.last)
      <3>1. r.last = n /\ n > 0 /\ m.entries # << >>
        BY <2>1, <2>3, <1>11, <1>12
      <3>2. PICK b \in Nat : b = Base(log[w])
        BY <1>3, LogFacts
      <3>3. CASE n > b
        <4>1. [server |-> w, term |-> m.term, index |-> n] \in acked'
          BY <3>1, <3>2, <3>3, <1>0, <1>11, <1>12 DEF StoredBy
        <4>2. w \in Acks(acked', m.term, n)
          BY <4>1, <1>2, <1>11 DEF Acks
        <4> QED
          BY <4>2, <3>1, <2>2, <1>0 DEF Known
      <3>4. CASE n <= b
        <4>1. HistoryType(leaderLog', acked', term')
          BY <1>10 DEF Grow, HistoryStep
        <4>2. b > 0 => SealedUpTo(leaderLog', acked', committed', m.term, b)
          BY <4>1, <3>2, <1>2, <1>3, <1>14, <1>16, BaseCommitted
        <4>3. SealedUpTo(leaderLog', acked', committed', m.term, n)
          <5>1. b > 0
            BY <3>1, <3>2, <3>4, <1>11
          <5>2. PICK t \in DOMAIN leaderLog' : \E y \in 1..Len(leaderLog'[t]) :
                   Sealed(leaderLog', acked', committed', t, y) /\ t <= m.term /\ b <= y
            BY <4>2, <5>1 DEF SealedUpTo
          <5>3. PICK y \in 1..Len(leaderLog'[t]) :
                   Sealed(leaderLog', acked', committed', t, y) /\ t <= m.term /\ b <= y
            BY <5>2
          <5>4. y \in Nat
            BY <4>1, LeaderLogType
          <5>5. n <= y
            BY <5>3, <5>4, <3>2, <3>4, <1>11
          <5> QED
            BY <5>3, <5>5 DEF SealedUpTo
        <4> QED
          BY <4>3, <3>1, <3>2, <3>4, <2>2, <1>0, <1>14 DEF Known
      <3> QED
        BY <3>2, <3>3, <3>4, <1>11
    <2> QED
      BY <2>1, <2>2, <2>3, <1>0, <1>2 DEF AppendRepOK
  <1>21. NetFits
    BY <1>0, <1>20 DEF NetFits
  <1>22. LeadsOn
    BY <1>0, <1>2, <1>5, <1>7 DEF LeadsOn
  <1>23. VotesCalm
    BY LogTrafficNoVote, NoVoteCalm DEF Good, AppendEntries
  <1> QED
    BY <1>0, <1>2, <1>9, <1>10, <1>18, <1>19, <1>21, <1>22, <1>23, OneStep

(* Who is known to have a log up to x is so up to any lower index.           *)
LEMMA KnownLower ==
    ASSUME NEW L, NEW A, NEW T, NEW C, HistoryType(L, A, T), NEW l, NEW v, NEW t, NEW x \in Nat,
           Known(L, A, C, l, v, t, x), NEW c \in Nat, c <= x
    PROVE  v \in Acks(A, t, c) \/ SealedUpTo(L, A, C, t, c)
  <1>1. CASE v \in Acks(A, t, x)
    <2>1. PICK a \in A : a.server = v /\ a.term = t /\ a.index >= x
      BY <1>1 DEF Acks
    <2>2. a.index \in Nat /\ v \in Server
      BY <1>1 DEF HistoryType, Acks
    <2> QED
      BY <2>1, <2>2 DEF Acks
  <1>2. CASE SealedUpTo(L, A, C, t, x)
    <2>1. PICK w \in DOMAIN L : \E y \in 1..Len(L[w]) : Sealed(L, A, C, w, y) /\ w <= t /\ x <= y
      BY <1>2 DEF SealedUpTo
    <2>2. PICK y \in 1..Len(L[w]) : Sealed(L, A, C, w, y) /\ w <= t /\ x <= y
      BY <2>1
    <2>3. y \in Nat
      BY LeaderLogType
    <2>4. c <= y
      BY <2>2, <2>3
    <2> QED
      BY <2>2, <2>4 DEF SealedUpTo
  <1> QED
    BY <1>1, <1>2 DEF Known

(* Those a leader counts for x when it looks for a new commit index have its *)
(* log up to x, or a snapshot of what was committed.                         *)
LEMMA CountedKnow ==
    ASSUME Good, NEW m \in appendReplies, SyncSuccess(m), NEW x \in Nat, x > 0,
           x \in (Base(log[m.to]) + 1)..LastIndex(log[m.to]),
           GetLogAtIndex(log[m.to], x).term = term[m.to],
           NEW p \in Server, matchIndex'[m.to][p] >= x
    PROVE  \/ p \in Acks(acked, term[m.to], x)
           \/ SealedUpTo(leaderLog, acked, committed, term[m.to], x)
  <1> DEFINE i == m.to
  <1>0. /\ i \in Server /\ m.from \in Server /\ m.last \in Nat /\ m.from # i
        /\ state[i] = "Leader" /\ term[i] = m.term /\ m.success /\ m.last > 0
        /\ Known(leaderLog, acked, committed, log[m.from], m.from, m.term, m.last)
    <2>1. m \in AppendRep /\ AppendRepOK(m)
      BY DEF Good, ShapeInv, TypeOK, TypeLogNet, LogInv, RepliesFit
    <2> QED
      BY <2>1 DEF AppendRep, AppendRepOK, SyncSuccess, LeadsTerm
  <1>1. matchIndex \in [Server -> [Server -> Nat]]
    BY DEF Good, ShapeInv, TypeOK, TypeLeader
  <1>2. matchIndex'[i][p] = IF p = m.from THEN m.last ELSE matchIndex[i][p]
    BY <1>0, <1>1 DEF SyncSuccess, Matched
  <1>3. HistoryType(leaderLog, acked, term)
    BY World
  <1>4. CASE p = i
    <2>1. LeaderFits(leaderLog, acked, i, term[i], log[i])
      BY <1>0, ServerFits DEF LeaderOK
    <2>2. /\ term[i] \in DOMAIN leaderLog /\ LastIndex(log[i]) = Len(leaderLog[term[i]])
          /\ GetLogAtIndex(log[i], x) = leaderLog[term[i]][x]
      BY <2>1 DEF LeaderFits, Matches
    <2>3. LastIndex(log[i]) \in Nat /\ Base(log[i]) \in Nat
      BY <1>0, ServerTyped, IndexRange DEF Good
    <2>4. Node(leaderLog, term[i], x) /\ x \in 1..Len(leaderLog[term[i]])
      BY <2>2, <2>3 DEF Node
    <2> QED
      BY <2>1, <2>4, <1>4 DEF LeaderFits
  <1>5. CASE p = m.from
    BY <1>0, <1>2, <1>3, <1>5, KnownLower
  <1>6. CASE p # i /\ p # m.from
    <2>1. PICK y \in Nat : y = matchIndex[i][p]
      BY <1>0, <1>1
    <2>2. y >= x /\ y > 0
      BY <2>1, <1>2, <1>6
    <2>3. Known(leaderLog, acked, committed, log[p], p, term[i], y)
      BY <2>1, <2>2, <1>0, <1>6 DEF Good, LogInv, IndicesFit, IndexOK
    <2> QED
      BY <2>2, <2>3, <1>3, KnownLower
  <1> QED
    BY <1>4, <1>5, <1>6

(* Sync after a successful AppendEntries: what the leader commits is chosen. *)
LEMMA SyncSuccessStep ==
    ASSUME Good, ShapeInv', NEW m \in appendReplies, SyncSuccess(m)
    PROVE  LogInv'
  <1> DEFINE i == m.to
  <1>0. /\ UNCHANGED <<state, term, log, lastApplied, persister, pending, snapMsgs, service, voteNet>>
        /\ UNCHANGED <<appendReqs, appendReplies, snapReqs, snapReplies, elected, leaderLog, acked>>
        /\ state[i] = "Leader" /\ term[i] = m.term /\ m.success /\ m.last > 0
    BY DEF SyncSuccess, LeadsTerm, serverVars, serviceVars, logNet
  <1>1. /\ i \in Server /\ m.from \in Server /\ m.last \in Nat /\ m.from # i
        /\ Known(leaderLog, acked, committed, log[m.from], m.from, m.term, m.last)
    <2>1. m \in AppendRep /\ AppendRepOK(m)
      BY DEF Good, ShapeInv, TypeOK, TypeLogNet, LogInv, RepliesFit
    <2> QED
      BY <2>1, <1>0 DEF AppendRep, AppendRepOK
  <1>2. /\ log[i] \in Log /\ Contiguous(log[i]) /\ term[i] \in Nat /\ commitIndex[i] \in Nat
        /\ persister[i].snapshot \in Seq(Entry)
        /\ LogFits(leaderLog, acked, committed, term[i], log[i], persister[i].snapshot)
        /\ LeaderFits(leaderLog, acked, i, term[i], log[i])
        /\ CommitFits(leaderLog, acked, committed, term[i], log[i], commitIndex[i])
    BY <1>0, <1>1, ServerTyped, ServerFits DEF Good, LogOK, LeaderOK, CommitOK
  <1>3. /\ matchIndex \in [Server -> [Server -> Nat]] /\ commitIndex \in [Server -> Nat]
        /\ nextIndex \in [Server -> [Server -> Nat \ {0}]]
    BY DEF Good, ShapeInv, TypeOK, TypeLeader, TypeLog
  <1>4. /\ matchIndex'[i][m.from] = m.last /\ nextIndex'[i][m.from] = m.last + 1
        /\ \A k, p \in Server : k # i \/ p # m.from
             => matchIndex'[k][p] = matchIndex[k][p] /\ nextIndex'[k][p] = nextIndex[k][p]
        /\ \A k \in Server \ {i} : commitIndex'[k] = commitIndex[k]
    BY <1>1, <1>3 DEF SyncSuccess, Matched
  <1>5. PICK x : x = NewCommit(log[i], commitIndex[i], matchIndex'[i], term[i], m.last)
    OBVIOUS
  <1>6. commitIndex'[i] = x /\ committed' = committed \cup Committing(log[i], x)
    BY <1>1, <1>3, <1>5 DEF SyncSuccess, Matched, Committing
  <1>7. /\ x \in Nat /\ x >= commitIndex[i]
        /\ x > commitIndex[i] => /\ x <= m.last /\ GetLogAtIndex(log[i], x).term = term[i]
                                 /\ IsMajority({p \in Server : matchIndex'[i][p] >= x})
    <2>0. PICK c \in Nat, last \in Nat : c = commitIndex[i] /\ last = m.last
      BY <1>1, <1>2
    <2>1. PICK l, match, t : l = log[i] /\ match = matchIndex'[i] /\ t = term[i]
      OBVIOUS
    <2>2. LET y == NewCommit(l, c, match, t, last) IN
          /\ y \in Nat /\ y >= c
          /\ y > c => /\ y <= last /\ GetLogAtIndex(l, y).term = t
                      /\ IsMajority({p \in Server : match[p] >= y})
      BY ONLY NewCommitFacts, c \in Nat, last \in Nat
    <2>3. x = NewCommit(l, c, match, t, last)
      BY <2>0, <2>1, <1>5
    <2>4. /\ x \in Nat /\ x >= c
          /\ x > c => /\ x <= last /\ GetLogAtIndex(l, x).term = t
                      /\ IsMajority({p \in Server : match[p] >= x})
      BY <2>2, <2>3
    <2> QED
      BY <2>0, <2>1, <2>4
  <1>8. Grow /\ TreeFits'
    <2>1. \A j \in Server : term[j] <= term[j]
      BY ServerTyped DEF Good
    <2>2. Quiet(acked, committed, term, acked', committed', term')
      BY <2>1, <1>0, <1>6 DEF Quiet
    <2> QED
      BY <2>2, <1>0, QuietGrows
  <1>9. \A j \in Server : SameLog(j) /\ SameLead(j) /\ SameAcks(j) /\ SameRole(j) /\ SameService(j)
    <2>1. \A j \in Server : SameLog(j)
      BY <1>0, PersistSame
    <2> QED
      BY <2>1, <1>0 DEF SameLead, SameAcks, SameRole, SameService
  <1>10. m.last <= LastIndex(log[i]) /\ LastIndex(log[i]) \in Nat /\ Base(log[i]) \in Nat
    BY <1>0, <1>1, <1>2, IndexRange DEF Known, LeaderFits
  <1>11. /\ CommitOK(i)'
         /\ \A e \in committed' : e \in committed \/ OnWay(leaderLog', acked', committed', e)
    <2>1. CASE x = commitIndex[i]
      <3>1. CommitOK(i)'
        BY <2>1, <1>0, <1>1, <1>6, <1>8, KeepCommit
      <3>2. ASSUME NEW e \in Committing(log[i], x) PROVE e \in committed
        <4>1. /\ e.index \in (Base(log[i]) + 1)..LastIndex(log[i]) /\ e.index <= x
              /\ e = GetLogAtIndex(log[i], e.index)
          BY <1>2, <1>7, <3>2, CommittingFacts
        <4>2. e.index \in Nat /\ e.index > 0 /\ x > 0
          BY <4>1, <1>7, <1>10
        <4>3. PICK t \in DOMAIN leaderLog : \E y \in 1..Len(leaderLog[t]) :
                 /\ Sealed(leaderLog, acked, committed, t, y) /\ x <= y
                 /\ Matches(leaderLog, log[i], t, x)
          BY <4>2, <2>1, <1>2 DEF CommitFits
        <4>4. PICK y \in 1..Len(leaderLog[t]) :
                 /\ Sealed(leaderLog, acked, committed, t, y) /\ x <= y
                 /\ Matches(leaderLog, log[i], t, x)
          BY <4>3
        <4>5. y \in Nat
          BY World, LeaderLogType
        <4>6. e = leaderLog[t][e.index]
          BY <4>1, <4>2, <4>4, <1>7, <1>10 DEF Matches
        <4>7. e.index \in 1..y
          BY <4>1, <4>2, <4>4, <4>5, <1>7
        <4> QED
          BY <4>4, <4>6, <4>7 DEF Sealed
      <3> QED
        BY <3>1, <3>2, <1>6
    <2>2. CASE x > commitIndex[i]
      <3>1. x \in (Base(log[i]) + 1)..LastIndex(log[i]) /\ x > 0
        <4>1. Base(log[i]) <= commitIndex[i]
          BY <1>2 DEF CommitFits
        <4> QED
          BY <4>1, <2>2, <1>1, <1>2, <1>7, <1>10
      <3>2. PICK P \in SUBSET Server : P = {p \in Server : matchIndex'[i][p] >= x}
        OBVIOUS
      <3>3. ASSUME NEW p \in P
            PROVE  p \in Acks(acked, term[i], x) \/ SealedUpTo(leaderLog, acked, committed, term[i], x)
        BY <3>1, <3>2, <2>2, <1>7, CountedKnow
      <3>4. IsMajority(P) /\ GetLogAtIndex(log[i], x).term = term[i]
        BY <3>2, <2>2, <1>7
      <3>5. PICK C2 : C2 = committed \cup Committing(log[i], x)
        OBVIOUS
      <3>6. /\ CommitFits(leaderLog, acked, C2, term[i], log[i], x)
            /\ \A e \in Committing(log[i], x) : OnWay(leaderLog, acked, C2, e)
        <4>1. /\ HistoryType(leaderLog, acked, term) /\ LogTree(leaderLog)
              /\ Complete(leaderLog, acked, term)
          BY World
        <4>2. LET D == committed \cup Committing(log[i], x) IN
              /\ CommitFits(leaderLog, acked, D, term[i], log[i], x)
              /\ \A e \in Committing(log[i], x) : OnWay(leaderLog, acked, D, e)
          BY <4>1, <3>1, <3>3, <3>4, <1>2, <1>7, CommitAdvances
        <4> QED
          BY <4>2, <3>5
      <3> QED
        BY <3>5, <3>6, <1>0, <1>6 DEF CommitOK
    <2> QED
      BY <2>1, <2>2, <1>2, <1>7
  <1>12. OneFits(i)
    <2>1. LogOK(i)' /\ LeaderOK(i)' /\ AckOK(i)'
      BY <1>0, <1>1, <1>8, <1>9, KeepLog, KeepLeader, KeepAck
    <2>2. ServiceOK(i)'
      BY <1>0, <1>1, <1>6, <1>7, <1>8, <1>9, KeepService
    <2>3. SameCandidate(i)
      BY <1>0 DEF SameCandidate
    <2>4. Base(log[i]) <= Base(log'[i])
      BY <1>0, <1>10
    <2> QED
      BY <2>1, <2>2, <2>3, <2>4, <1>1, <1>9, <1>11 DEF OneFits
  <1>13. Others(i)
    BY <1>4, <1>9 DEF Others
  <1>14. LeadsOn
    <2>1. IndexOK(i, m.from)'
      <3>1. Base(log[m.from]) <= Base(log'[m.from])
        BY <1>0, <1>1, ServerTyped, LogFacts DEF Good
      <3>2. Known(leaderLog', acked', committed', log'[m.from], m.from, term[i], m.last)
        BY <3>1, <1>0, <1>1, <1>8, KeepKnown
      <3>3. m.last + 1 <= LastIndex(log'[i]) + 1
        BY <1>0, <1>1, <1>10
      <3> QED
        BY <3>2, <3>3, <1>0, <1>1, <1>4 DEF IndexOK
    <2> QED
      BY <2>1, <1>0, <1>4 DEF LeadsOn
  <1>15. NetFits
    BY <1>0 DEF NetFits
  <1>16. VotesCalm
    BY LogTrafficNoVote, NoVoteCalm DEF Good, Sync
  <1> QED
    BY <1>0, <1>1, <1>8, <1>11, <1>12, <1>13, <1>14, <1>15, <1>16, OneStep

(* A server replaces its log up to x by a snapshot of what is decided.       *)
LEMMA ShortenStep ==
    ASSUME Good, ShapeInv', NoVoteStep, NEW i \in Server,
           NEW s \in Seq(Entry), NEW x \in Nat, NEW w \in Nat,
           SnapshotFits(leaderLog, acked, committed, term[i], s, x, w),
           Shortened(log[i], log'[i], x, w),
           persister'[i].log = log'[i], persister'[i].snapshot = s,
           UNCHANGED <<state, term, elected, leaderLog, acked, committed, voteNet, logNet, leaderVars>>,
           \A j \in Server \ {i} : log'[j] = log[j] /\ persister'[j] = persister[j]
                                   /\ commitIndex'[j] = commitIndex[j] /\ SameService(j),
           \A j \in Server : snapMsgs'[j] \subseteq snapMsgs[j],
           CommitOK(i)', ServiceOK(i)'
    PROVE  LogInv'
  <1>0. UNCHANGED <<nextIndex, matchIndex, appendReqs, appendReplies, snapReqs, snapReplies>>
    BY DEF logNet, leaderVars
  <1>1. /\ log[i] \in Log /\ Contiguous(log[i]) /\ term[i] \in Nat
        /\ persister[i].snapshot \in Seq(Entry)
        /\ LogFits(leaderLog, acked, committed, term[i], log[i], persister[i].snapshot)
        /\ AckFits(leaderLog, acked, term, i, log[i])
    BY ServerTyped, ServerFits DEF Good, LogOK, AckOK
  <1>2. /\ HistoryType(leaderLog, acked, term) /\ LogTree(leaderLog) /\ Complete(leaderLog, acked, term)
    BY World
  <1>3. Grow /\ TreeFits'
    <2>1. \A j \in Server : term[j] <= term[j]
      BY ServerTyped DEF Good
    <2>2. Quiet(acked, committed, term, acked', committed', term')
      BY <2>1 DEF Quiet
    <2> QED
      BY <2>2, QuietGrows
  <1>4. LogFits(leaderLog, acked, committed, term[i], log'[i], s)
    BY <1>1, <1>2, ShortenedLog
  <1>5. CoversKept(leaderLog, acked, term, log[i], log'[i])
    BY <1>1, <1>2, ShortenedCovers
  <1>6. AckFits(leaderLog, acked, term, i, log'[i])
    BY <1>1, <1>2, <1>5, ShortenedAcks
  <1>7. ASSUME state[i] = "Leader"
        PROVE  LeaderFits(leaderLog, acked, i, term[i], log'[i]) /\ LastIndex(log'[i]) = LastIndex(log[i])
    <2>1. LeaderFits(leaderLog, acked, i, term[i], log[i])
      BY <1>7, ServerFits DEF LeaderOK
    <2> QED
      BY <2>1, <1>1, <1>2, ShortenedLeader
  <1>8. OneFits(i)
    <2>1. LogOK(i)' /\ LeaderOK(i)' /\ AckOK(i)'
      BY <1>4, <1>6, <1>7 DEF LogOK, LeaderOK, AckOK
    <2>2. SameRole(i) /\ SameCandidate(i)
      BY <1>5 DEF SameRole, SameCandidate
    <2>3. Base(log[i]) <= Base(log'[i])
      BY DEF Shortened, Cut
    <2> QED
      BY <2>1, <2>2, <2>3 DEF OneFits
  <1>9. Others(i)
    <2> SUFFICES ASSUME NEW j \in Server, j # i PROVE SameLog(j)
      BY DEF Others, SameRole, SameLead, SameAcks
    <2>1. persister[j].log = log[j]
      BY ServerFits DEF LogOK
    <2> QED
      BY <2>1 DEF SameLog
  <1>10. LeadsOn
    <2>1. \A k \in Server : state[k] = "Leader" => LastIndex(log'[k]) = LastIndex(log[k])
      BY <1>7
    <2> QED
      BY <2>1, <1>0 DEF LeadsOn
  <1>11. NetFits
    BY <1>0 DEF NetFits
  <1>12. VotesCalm
    BY NoVoteCalm
  <1> QED
    BY <1>3, <1>8, <1>9, <1>10, <1>11, <1>12, OneStep

(* apply of the service: it executes the next entry decided, and its         *)
(* snapshot is what it has executed.                                         *)
LEMMA ApplyStep ==
    ASSUME Good, ShapeInv', NEW i \in Server, Apply(i)
    PROVE  LogInv'
  <1>0. /\ UNCHANGED <<state, term, elected, leaderLog, acked, committed, voteNet, logNet, leaderVars>>
        /\ UNCHANGED <<commitIndex, lastApplied, snapMsgs, serverVars>>
        /\ pending[i] # << >> /\ Fresh(i)
    BY DEF Apply, serverVars, history
  <1>1. NoVoteStep
    BY LocalNoVote DEF Good
  <1>2. /\ log[i] \in Log /\ Contiguous(log[i]) /\ term[i] \in Nat /\ commitIndex[i] \in Nat
        /\ lastApplied[i] \in Nat /\ service[i].state \in Seq(Entry) /\ pending[i] \in Seq(Entry)
        /\ CommitFits(leaderLog, acked, committed, term[i], log[i], commitIndex[i])
    BY ServerTyped, ServerFits DEF Good, CommitOK
  <1>3. PICK e \in Entry : e = pending[i][1]
    BY <1>0, <1>2
  <1>4. PICK z \in Seq(Entry) : z = Append(service[i].state, e)
    <2>1. Append(service[i].state, e) \in Seq(Entry)
      BY <1>2
    <2> QED
      BY <2>1
  <1>5. PICK b \in Nat, x \in Nat, c \in Nat : b = Base(log[i]) /\ x = e.index /\ c = commitIndex[i]
    BY <1>2, LogFacts DEF Entry
  <1>6. /\ Decided(leaderLog, acked, committed, term[i], z) /\ Len(z) = x /\ x > b
        /\ lastApplied[i] = x /\ x <= c /\ z[x] = e
    <2>1. PICK s \in Seq(Entry) : s = service[i].state
      BY <1>2
    <2>2. StateFits(leaderLog, acked, committed, term[i], s, b, lastApplied[i], TRUE, e)
      <3>1. (pending[i] # << >> /\ Fresh(i)) = TRUE
        BY <1>0
      <3> QED
        BY <3>1, <2>1, <1>3, <1>5, ServerFits DEF ServiceOK
    <2>3. /\ x = Len(s) + 1 /\ lastApplied[i] = Len(s) + 1 /\ b <= Len(s)
          /\ Decided(leaderLog, acked, committed, term[i], Append(s, e))
      BY <2>2, <1>5 DEF StateFits
    <2>4. lastApplied[i] <= c
      BY <1>5, ServerFits DEF ServiceOK
    <2>5. z = Append(s, e) /\ Len(z) = Len(s) + 1 /\ z[Len(s) + 1] = e
      BY <2>1, <1>4
    <2> QED
      BY <2>3, <2>4, <2>5
  <1>7. /\ service \in [Server -> [lastApplied : Nat, state : Seq(Entry)]]
        /\ pending \in [Server -> Seq(Entry)] /\ log \in [Server -> Log] /\ persister \in [Server -> Persisted]
    BY DEF Good, ShapeInv, TypeOK, TypeService, TypeLog, TypePersister, Log
  <1>8. /\ service'[i] = [lastApplied |-> x, state |-> z] /\ pending'[i] = << >>
        /\ \A j \in Server \ {i} : SameService(j)
    BY <1>0, <1>3, <1>4, <1>5, <1>7 DEF Apply, SameService
  <1>9. ASSUME Base(log'[i]) <= x PROVE ServiceOK(i)'
    <2>1. (pending'[i] # << >> /\ Fresh(i)') = FALSE
      BY <1>8
    <2>2. service'[i].state = z /\ service'[i].lastApplied = x
      BY <1>8
    <2>3. StateFits(leaderLog, acked, committed, term[i], z, Base(log'[i]), x, FALSE, pending'[i][1])
      BY <1>6, <1>9 DEF StateFits
    <2>4. x <= Len(z)
      BY <1>5, <1>6
    <2> QED
      BY <2>1, <2>2, <2>3, <2>4, <1>0, <1>5, <1>6, <1>8 DEF ServiceOK
  <1>10. CASE ~ SnapshotDue(i, e.index)
    <2>1. UNCHANGED <<log, persister>>
      BY <1>3, <1>10 DEF Apply
    <2>2. CalmLogs
      BY <2>1, <1>0, <1>1, AloneCalm
    <2>3. CommitOK(i)'
      <3>1. CommitOK(i)
        BY ServerFits
      <3> QED
        BY <3>1, <2>1, <1>0 DEF CommitOK
    <2>4. ServiceOK(i)'
      BY <2>1, <1>5, <1>6, <1>9
    <2>5. ServersFit
      BY <2>3, <2>4, <1>0, <1>8 DEF ServersFit
    <2>6. NetFits /\ LeadsFit
      BY <1>0 DEF NetFits, LeadsFit, logNet, leaderVars
    <2> QED
      BY <2>2, <2>5, <2>6, CalmStep
  <1>11. CASE SnapshotDue(i, e.index)
    <2>1. /\ log' = [log EXCEPT ![i] = Trim(@, x)] /\ SaveStateAndSnapshot(i, service'[i].state)
      BY <1>3, <1>5, <1>11 DEF Apply
    <2>2. /\ log'[i] = Trim(log[i], x) /\ persister'[i].log = log'[i] /\ persister'[i].snapshot = z
          /\ \A j \in Server \ {i} : log'[j] = log[j] /\ persister'[j] = persister[j]
      <3>1. service'[i].state = z
        BY <1>8
      <3> QED
        BY <3>1, <2>1, <1>7 DEF SaveStateAndSnapshot
    <2>3. PICK w \in Nat : w = e.term
      BY DEF Entry
    <2>4. SnapshotFits(leaderLog, acked, committed, term[i], z, x, w)
      BY <2>3, <1>5, <1>6 DEF SnapshotFits
    <2>5. x \in b..LastIndex(log[i])
      <3>1. c <= LastIndex(log[i]) /\ LastIndex(log[i]) \in Nat
        BY <1>2, <1>5, IndexRange DEF CommitFits
      <3> QED
        BY <3>1, <1>5, <1>6
    <2>6. GetLogAtIndex(log[i], x) = e
      <3>1. x \in (Base(log[i]) + 1)..Len(z) /\ Len(z) <= commitIndex[i]
        BY <1>5, <1>6
      <3>2. /\ HistoryType(leaderLog, acked, term) /\ LogTree(leaderLog) /\ Complete(leaderLog, acked, term)
        BY World
      <3>3. GetLogAtIndex(log[i], x) = z[x]
        BY <3>1, <3>2, <1>2, <1>6, CommittedEntry
      <3> QED
        BY <3>3, <1>6
    <2>7. Shortened(log[i], log'[i], x, w)
      <3>1. LET l2 == Trim(log[i], x) IN
            /\ l2 \in Log /\ Contiguous(l2) /\ Cut(log[i], l2) /\ Base(l2) = x
            /\ l2[1].term = GetLogAtIndex(log[i], x).term
            /\ LogTail(l2).term = LogTail(log[i]).term /\ LastIndex(l2) = LastIndex(log[i])
        BY <2>5, <1>2, <1>5, TrimFacts
      <3> QED
        BY <3>1, <2>2, <2>3, <2>6 DEF Shortened
    <2>8. CommitOK(i)'
      <3>1. CommitFits(leaderLog, acked, committed, term[i], log'[i], commitIndex[i])
        BY <2>7, <1>2, <1>5, <1>6, ShortenedCommit
      <3> QED
        BY <3>1, <1>0 DEF CommitOK
    <2>9. ServiceOK(i)'
      BY <2>7, <1>5, <1>9 DEF Shortened
    <2> QED
      BY <2>2, <2>4, <2>7, <2>8, <2>9, <1>0, <1>1, <1>2, <1>8, ShortenStep
  <1> QED
    BY <1>10, <1>11

(* CondInstallSnapshot: the snapshot was decided, and goes past what the     *)
(* server knows to be committed; a command still blocked on applyCh is old.  *)
LEMMA CondInstallSnapshotStep ==
    ASSUME Good, ShapeInv', NEW i \in Server, NEW s \in snapMsgs[i], CondInstallSnapshot(i, s)
    PROVE  LogInv'
  <1>0. /\ UNCHANGED <<state, term, elected, leaderLog, acked, committed, voteNet, logNet, leaderVars>>
        /\ UNCHANGED pending /\ ~ (s.index < commitIndex[i]) /\ s.index >= Base(log[i])
    BY DEF CondInstallSnapshot, Outdated, serverVars, history
  <1>1. NoVoteStep
    BY LocalNoVote DEF Good
  <1>2. /\ log[i] \in Log /\ Contiguous(log[i]) /\ term[i] \in Nat /\ commitIndex[i] \in Nat
        /\ lastApplied[i] \in Nat /\ pending[i] \in Seq(Entry) /\ persister[i].snapshot \in Seq(Entry)
        /\ LogFits(leaderLog, acked, committed, term[i], log[i], persister[i].snapshot)
    BY ServerTyped, ServerFits DEF Good, LogOK
  <1>3. /\ service \in [Server -> [lastApplied : Nat, state : Seq(Entry)]]
        /\ snapMsgs \in [Server -> SUBSET SnapMsg] /\ log \in [Server -> Log]
        /\ persister \in [Server -> Persisted] /\ commitIndex \in [Server -> Nat] /\ lastApplied \in [Server -> Nat]
    BY DEF Good, ShapeInv, TypeOK, TypeService, TypeLog, TypePersister, Log
  <1>4. PICK d \in Seq(Entry), x \in Nat, w \in Nat : d = s.data /\ x = s.index /\ w = s.term
    <2>1. s \in SnapMsg
      BY <1>3
    <2>2. s.data \in Seq(Entry) /\ s.index \in Nat /\ s.term \in Nat
      BY <2>1 DEF SnapMsg
    <2> QED
      BY <2>2
  <1>5. /\ SnapshotFits(leaderLog, acked, committed, term[i], d, x, w)
        /\ Len(d) = x /\ Decided(leaderLog, acked, committed, term[i], d)
    BY <1>4 DEF Good, LogInv, SnapshotsFit, SnapMsgOK, SnapshotFits
  <1>6. /\ log'[i] = Installed(log[i], s) /\ commitIndex'[i] = x /\ lastApplied'[i] = x
        /\ service'[i] = [lastApplied |-> x, state |-> d]
        /\ persister'[i].log = log'[i] /\ persister'[i].snapshot = d
    BY <1>3, <1>4 DEF CondInstallSnapshot, SaveStateAndSnapshot
  <1>7. \A j \in Server \ {i} : log'[j] = log[j] /\ persister'[j] = persister[j]
                                /\ commitIndex'[j] = commitIndex[j] /\ SameService(j)
    BY <1>0, <1>3 DEF CondInstallSnapshot, SaveStateAndSnapshot, SameService
  <1>8. \A j \in Server : snapMsgs'[j] \subseteq snapMsgs[j]
    BY <1>3 DEF CondInstallSnapshot
  <1>9. Shortened(log[i], log'[i], x, w)
    <2>1. LET l2 == Installed(log[i], s) IN
          /\ l2 \in Log /\ Contiguous(l2) /\ Cut(log[i], l2) /\ Base(l2) = s.index
          /\ l2[1].term = s.term
          /\ IF s.index >= LastIndex(log[i])
             THEN LogTail(l2).term = s.term /\ LastIndex(l2) = s.index
             ELSE LogTail(l2) = LogTail(log[i]) /\ LastIndex(l2) = LastIndex(log[i])
      BY <1>0, <1>2, <1>3, InstalledFacts
    <2> QED
      BY <2>1, <1>4, <1>6 DEF Shortened
  <1>10. CommitOK(i)'
    <2>1. HistoryType(leaderLog, acked, term) /\ LogTree(leaderLog)
      BY World
    <2>2. LogFits(leaderLog, acked, committed, term[i], log'[i], d)
      BY <2>1, <1>2, <1>5, <1>9, ShortenedLog
    <2>3. log'[i] \in Log /\ Contiguous(log'[i]) /\ Base(log'[i]) = x
      BY <1>9 DEF Shortened
    <2>4. CommitFits(leaderLog, acked, committed, term[i], log'[i], Base(log'[i]))
      BY <2>1, <2>2, <2>3, <1>2, BaseCommitted
    <2> QED
      BY <2>3, <2>4, <1>0, <1>6 DEF CommitOK
  <1>11. ServiceOK(i)'
    <2>1. pending[i] # << >> => pending[i][1].index <= x
      <3> SUFFICES ASSUME pending[i] # << >> PROVE pending[i][1].index <= x
        OBVIOUS
      <3>1. pending[i][1].index \in Nat
        <4>1. pending[i][1] \in Entry
          BY <1>2
        <4> QED
          BY <4>1 DEF Entry
      <3>2. pending[i][1].index <= lastApplied[i] /\ lastApplied[i] <= commitIndex[i]
        BY ServerFits DEF ServiceOK
      <3> QED
        BY <3>1, <3>2, <1>0, <1>2, <1>4
    <2>2. service'[i].state = d /\ service'[i].lastApplied = x
      BY <1>6
    <2>3. (pending'[i] # << >> /\ Fresh(i)') = FALSE
      <3> SUFFICES ASSUME pending[i] # << >>, pending[i][1].index > x PROVE FALSE
        BY <2>2, <1>0 DEF Fresh
      <3>1. pending[i][1].index \in Nat
        <4>1. pending[i][1] \in Entry
          BY <1>2
        <4> QED
          BY <4>1 DEF Entry
      <3> QED
        BY <3>1, <2>1
    <2>4. StateFits(leaderLog, acked, committed, term[i], d, Base(log'[i]), x, FALSE, pending'[i][1])
      BY <1>5, <1>9 DEF StateFits, Shortened
    <2>5. x <= Len(d) /\ x <= x
      BY <1>5
    <2> QED
      BY <2>1, <2>2, <2>3, <2>4, <2>5, <1>0, <1>6 DEF ServiceOK
  <1> QED
    BY <1>0, <1>1, <1>5, <1>6, <1>7, <1>8, <1>9, <1>10, <1>11, ShortenStep

-----------------------------------------------------------------------------
(* The election of a leader.                                                 *)

(* Who counts for the candidate voted for it and has reached its term.       *)
LEMMA VotersVoted ==
    ASSUME Good, NEW m \in voteReplies, VoteReplyWin(m), NEW v \in votes[m.to] \cup {m.from}
    PROVE  /\ v \in Server /\ m.to \in Server /\ m.term \in Nat /\ term[m.to] = m.term
           /\ Granted(v, m.to, m.term) /\ term[v] \in Nat /\ term[v] >= m.term
  <1>1. m.to \in Server /\ m.from \in Server /\ m.term \in Nat /\ votes[m.to] \subseteq Server
    BY DEF Good, ShapeInv, TypeOK, TypeVoteNet, VoteRep, TypeServer
  <1>2. term[m.to] = m.term /\ m.granted
    BY DEF VoteReplyWin, CandidacyRuns
  <1>3. v \in Server /\ Granted(v, m.to, m.term)
    BY <1>1, <1>2 DEF Granted
  <1>4. term[v] \in Nat
    BY <1>3, ServerTyped DEF Good
  <1>5. term[v] >= m.term
    BY <1>1, <1>2, <1>3, <1>4 DEF Good, ElectionInv, VotesKept
  <1> QED
    BY <1>1, <1>2, <1>3, <1>4, <1>5

(* A term that is won was not won before.                                    *)
LEMMA NewTerm ==
    ASSUME Good, NEW m \in voteReplies, VoteReplyWin(m)
    PROVE  m.term \notin DOMAIN leaderLog /\ m.term > 0
  <1> DEFINE i == m.to
             V == votes[i] \cup {m.from}
  <1>1. i \in Server /\ m.from \in Server /\ m.term \in Nat /\ V \in SUBSET Server
    BY DEF Good, ShapeInv, TypeOK, TypeVoteNet, VoteRep, TypeServer
  <1>2. state[i] = "Candidate" /\ term[i] = m.term /\ IsMajority(V)
    BY DEF VoteReplyWin, CandidacyRuns
  <1>3. m.term > 0
    BY <1>1, <1>2 DEF Good, LogInv, TermsFit
  <1> SUFFICES ASSUME m.term \in DOMAIN leaderLog PROVE FALSE
    BY <1>3
  <1>4. PICK f \in elected : f.term = m.term
    BY <1>1, <1>3 DEF Good, LogInv, TermsFit
  <1>5. f.leader \in Server /\ f.votes \in SUBSET Server
    BY DEF Good, ShapeInv, TypeOK, TypeHistory
  <1>6. IsMajority(f.votes) /\ f.leader # i
    BY <1>1, <1>2, <1>4 DEF Good, ElectionInv, WinnersKeepVote
  <1>7. PICK v \in Server : v \in V /\ v \in f.votes
    BY <1>1, <1>2, <1>5, <1>6, MajoritiesShare
  <1>8. Granted(v, i, m.term)
    BY <1>7, VotersVoted
  <1>9. Granted(v, f.leader, m.term)
    BY <1>4, <1>7 DEF Granted
  <1>10. CASE v = i
    <2>1. votedFor[i] = i
      BY <1>1, <1>2 DEF Good, ElectionInv, SelfVote
    <2>2. term[i] > m.term \/ votedFor[i] = f.leader
      BY <1>1, <1>5, <1>6, <1>9, <1>10 DEF Good, ElectionInv, VotesKept
    <2> QED
      BY <2>1, <2>2, <1>1, <1>2, <1>6
  <1>11. CASE v = f.leader
    BY <1>1, <1>4, <1>6, <1>8, <1>11 DEF Good, ElectionInv, WinnersVoteOnce
  <1>12. CASE v # i /\ v # f.leader
    BY <1>1, <1>5, <1>6, <1>7, <1>8, <1>9, <1>12 DEF Good, ElectionInv, OneVote
  <1> QED
    BY <1>10, <1>11, <1>12

(* The winner's log covers every node that can still be chosen: a majority   *)
(* has or may get the node, a majority voted, and who is in both stored the  *)
(* node before it voted.                                                     *)
LEMMA WinnerCovers ==
    ASSUME Good, NEW m \in voteReplies, VoteReplyWin(m),
           NEW t, NEW x, Choosable(leaderLog, acked, term, t, x), t < m.term
    PROVE  LogCovers(log[m.to], t, x)
  <1> DEFINE i == m.to
             V == votes[i] \cup {m.from}
             S == Acks(acked, t, x) \cup {v \in Server : term[v] <= t}
  <1>1. i \in Server /\ m.from \in Server /\ m.term \in Nat /\ V \in SUBSET Server
    BY DEF Good, ShapeInv, TypeOK, TypeVoteNet, VoteRep, TypeServer
  <1>2. state[i] = "Candidate" /\ term[i] = m.term /\ IsMajority(V)
    BY DEF VoteReplyWin, CandidacyRuns
  <1>3. IsMajority(S) /\ S \in SUBSET Server /\ t \in DOMAIN leaderLog /\ x \in 1..Len(leaderLog[t])
    BY DEF Choosable, Acks, Node
  <1>4. PICK v \in Server : v \in V /\ v \in S
    BY <1>1, <1>2, <1>3, MajoritiesShare
  <1>5. Granted(v, i, m.term) /\ term[v] \in Nat /\ term[v] >= m.term
    BY <1>4, VotersVoted
  <1>6. t \in Nat
    BY <1>3 DEF Good, ShapeInv, TypeOK, TypeHistory
  <1>7. v \in Acks(acked, t, x)
    BY <1>1, <1>4, <1>5, <1>6
  <1>8. VoterFits(v, i)
    BY <1>1, <1>2, <1>4, <1>5 DEF Good, LogInv, VotesFit
  <1> QED
    BY <1>2, <1>3, <1>7, <1>8 DEF VoterFits

(* The election: the winner's log is written down as that of its term.       *)
LEMMA VoteReplyWinStep ==
    ASSUME Good, ShapeInv', NEW m \in voteReplies, VoteReply(m), VoteReplyWin(m)
    PROVE  LogInv'
  <1> DEFINE i == m.to
  <1>0. /\ UNCHANGED <<term, log, commitIndex, lastApplied, persister, committed, acked, voteReqs>>
        /\ UNCHANGED <<pending, snapMsgs, service, appendReqs, appendReplies, snapReqs, snapReplies>>
        /\ voteReplies' \subseteq voteReplies /\ state[i] = "Candidate" /\ term[i] = m.term
        /\ elected' = elected \cup {[term |-> m.term, leader |-> i, votes |-> votes[i] \cup {m.from}]}
    BY DEF VoteReply, VoteReplyWin, CandidacyRuns, logVars, serviceVars, logNet
  <1>1. i \in Server /\ m.term \in Nat
    BY DEF Good, ShapeInv, TypeOK, TypeVoteNet, VoteRep
  <1>2. /\ log[i] \in Log /\ Contiguous(log[i]) /\ persister[i].snapshot \in Seq(Entry)
        /\ LogFits(leaderLog, acked, committed, m.term, log[i], persister[i].snapshot)
        /\ Len(persister[i].snapshot) = Base(log[i])
    <2>1. /\ log[i] \in Log /\ Contiguous(log[i]) /\ persister[i].snapshot \in Seq(Entry)
          /\ LogFits(leaderLog, acked, committed, m.term, log[i], persister[i].snapshot)
      BY <1>0, <1>1, ServerTyped, ServerFits DEF Good, LogOK
    <2> QED
      BY <2>1 DEF LogFits, SnapshotFits
  <1>3. /\ HistoryType(leaderLog, acked, term) /\ LogTree(leaderLog) /\ Complete(leaderLog, acked, term)
    BY World
  <1>4. m.term \notin DOMAIN leaderLog /\ m.term > 0
    BY NewTerm
  <1>5. PICK F : F = persister[i].snapshot \o SubSeq(log[i], 2, Len(log[i]))
    OBVIOUS
  <1>6. Inherits(leaderLog, acked, term, F, m.term)
    <2>1. \A t, x : Choosable(leaderLog, acked, term, t, x) /\ t < m.term => LogCovers(log[i], t, x)
      BY WinnerCovers
    <2>2. Inherits(leaderLog, acked, term,
                   persister[i].snapshot \o SubSeq(log[i], 2, Len(log[i])), m.term)
      BY <2>1, <1>1, <1>2, <1>3, <1>4, WinnerLog
    <2> QED
      BY <2>2, <1>5
  <1>7. Wins(leaderLog, leaderLog', m.term, F)
    BY <1>4, <1>5 DEF Wins, VoteReplyWin, FullLog
  <1>8. LogTree(leaderLog')
    BY <1>1, <1>3, <1>6, <1>7, WinsTree
  <1>9. /\ HistoryStep(leaderLog, acked, committed, term, leaderLog', acked, committed, term)
        /\ Complete(leaderLog', acked, term)
    BY <1>1, <1>3, <1>6, <1>7, WinsStep
  <1>10. Grow /\ TreeFits'
    BY <1>0, <1>8, <1>9 DEF Grow, TreeFits
  <1>11. /\ state \in [Server -> {"Follower", "Candidate", "Leader"}]
         /\ nextIndex \in [Server -> [Server -> Nat \ {0}]] /\ matchIndex \in [Server -> [Server -> Nat]]
         /\ votes \in [Server -> SUBSET Server]
    BY DEF Good, ShapeInv, TypeOK, TypeServer, TypeLeader
  <1>12. /\ state'[i] = "Leader"
         /\ \A j \in Server \ {i} : /\ state'[j] = state[j] /\ votes'[j] = votes[j]
                                    /\ nextIndex'[j] = nextIndex[j] /\ matchIndex'[j] = matchIndex[j]
         /\ nextIndex'[i] = [j \in Server |-> LastIndex(log[i]) + 1]
         /\ matchIndex'[i] = [j \in Server |-> IF j = i THEN LastIndex(log[i]) ELSE 0]
    BY <1>1, <1>11 DEF VoteReplyWin, LastIndex
  <1>13. DOMAIN leaderLog' = DOMAIN leaderLog \cup {m.term} /\ \A u \in DOMAIN leaderLog : leaderLog'[u] = leaderLog[u]
    BY <1>4, <1>7 DEF Wins
  <1>14. TermsFit'
    <2>0. TermsFit
      BY DEF Good, LogInv
    <2>a. PICK r : r = [term |-> m.term, leader |-> i, votes |-> votes[i] \cup {m.from}]
      OBVIOUS
    <2>b. r.term = m.term /\ r.leader = i
      BY <2>a
    <2>c. elected' = elected \cup {r}
      BY <2>a, <1>0
    <2>1. DOMAIN leaderLog' = {0} \cup {e.term : e \in elected'}
      <3>1. DOMAIN leaderLog = {0} \cup {e.term : e \in elected}
        BY <2>0 DEF TermsFit
      <3>2. {e.term : e \in elected \cup {r}} = {e.term : e \in elected} \cup {r.term}
        OBVIOUS
      <3> QED
        BY <3>1, <3>2, <2>b, <2>c, <1>13
    <2>2. \A j \in Server : state'[j] # "Follower" => term'[j] > 0
      BY <2>0, <1>0, <1>4, <1>12 DEF TermsFit
    <2>3. ASSUME NEW j \in Server, state'[j] = "Leader"
          PROVE  \E e \in elected' : e.term = term'[j] /\ e.leader = j
      <3>1. CASE j = i
        <4>1. r \in elected' /\ r.term = term'[j] /\ r.leader = j
          BY <3>1, <2>b, <2>c, <1>0
        <4> QED
          BY <4>1
      <3>2. CASE j # i
        <4>1. state[j] = "Leader" /\ term'[j] = term[j]
          BY <3>2, <2>3, <1>0, <1>12
        <4>2. PICK e \in elected : e.term = term[j] /\ e.leader = j
          BY <4>1, <2>0 DEF TermsFit
        <4> QED
          BY <4>1, <4>2, <2>c
      <3> QED
        BY <3>1, <3>2
    <2> QED
      BY <2>0, <2>1, <2>2, <2>3, <1>0 DEF TermsFit
  <1>15. \A j \in Server : SameLog(j) /\ SameAcks(j) /\ SameService(j) /\ log'[j] = log[j]
    BY <1>0, PersistSame DEF SameAcks, SameService
  <1>16. LogsFit'
    BY <1>10, <1>15, KeepLog DEF LogsFit
  <1>17. LeadersFit'
    <2> SUFFICES ASSUME NEW j \in Server PROVE LeaderOK(j)'
      BY DEF LeadersFit
    <2>1. CASE j = i
      <3>1. LeaderFits(leaderLog', acked, i, m.term, log[i])
        BY <1>1, <1>2, <1>3, <1>5, <1>6, <1>7, WinnerLeads
      <3> QED
        BY <3>1, <2>1, <1>0 DEF LeaderOK
    <2>2. CASE j # i
      <3>1. SameLead(j)
        <4>1. ASSUME state[j] = "Leader" PROVE term[j] \in DOMAIN leaderLog
          BY <4>1, ServerFits DEF LeaderOK, LeaderFits
        <4> QED
          BY <4>1, <2>2, <1>0, <1>12, <1>13 DEF SameLead
      <3> QED
        BY <3>1, <1>10, <1>15, KeepLeader
    <2> QED
      BY <2>1, <2>2
  <1>18. BasesGrow
    <2> SUFFICES ASSUME NEW j \in Server PROVE Base(log[j]) <= Base(log'[j])
      BY DEF BasesGrow
    <2>1. log[j] \in Log /\ log'[j] = log[j]
      BY <1>0, ServerTyped DEF Good
    <2> QED
      BY <2>1, LogFacts
  <1>19. RequestsFit' /\ SnapshotsFit' /\ RepliesFit'
    <2>1. NetFits /\ elected \subseteq elected'
      BY <1>0 DEF NetFits
    <2> QED
      BY <2>1, <1>10, <1>18, NetStep
  <1>20. CommitsFit' /\ ServicesFit' /\ AcksFit'
    <2> SUFFICES ASSUME NEW j \in Server PROVE CommitOK(j)' /\ ServiceOK(j)' /\ AckOK(j)'
      BY DEF CommitsFit, ServicesFit, AcksFit
    <2>1. commitIndex[j] \in Nat /\ commitIndex'[j] = commitIndex[j]
      BY <1>0, ServerTyped DEF Good
    <2> QED
      BY <2>1, <1>10, <1>15, KeepCommit, KeepService, KeepAck
  <1>21. VotesFit'
    <2>1. \A c \in Server : SameCandidate(c)
      <3>1. \A l : CoversKept(leaderLog, acked, term, l, l)
        BY DEF CoversKept
      <3> QED
        BY <3>1, <1>0, <1>12 DEF SameCandidate
    <2>2. ASSUME NEW v \in Server, NEW c \in Server, v # c, state'[c] = "Candidate", Granted(v, c, term[c])'
          PROVE  Granted(v, c, term'[c])
      <3>1. c # i
        BY <2>2, <1>12
      <3> QED
        BY <3>1, <2>2, <1>0, <1>12 DEF Granted
    <2> QED
      BY <2>1, <2>2, <1>0, <1>10, <1>20, VotesStep
  <1>22. IndicesFit'
    <2> SUFFICES ASSUME NEW k \in Server, NEW j \in Server, state'[k] = "Leader" PROVE IndexOK(k, j)'
      BY DEF IndicesFit
    <2>1. CASE k = i
      <3>1. LastIndex(log[i]) \in Nat
        BY <1>2, IndexRange
      <3>2. nextIndex'[i][j] = LastIndex(log[i]) + 1 /\ matchIndex'[i][j] = IF j = i THEN LastIndex(log[i]) ELSE 0
        BY <1>12
      <3>3. LastIndex(log[i]) + 1 <= LastIndex(log[i]) + 1
        BY <3>1
      <3> QED
        BY <3>2, <3>3, <2>1, <1>0 DEF IndexOK
    <2>2. CASE k # i
      BY <2>2, <1>0, <1>10, <1>12, <1>18, KeepIndex DEF BasesGrow
    <2> QED
      BY <2>1, <2>2
  <1>23. CommittedFit'
    BY <1>0, <1>10, KeepOnWay DEF CommittedFit
  <1> QED
    BY <1>10, <1>14, <1>16, <1>17, <1>19, <1>20, <1>21, <1>22, <1>23 DEF LogInv

-----------------------------------------------------------------------------
(* The invariant is inductive, given the shape of the states and the votes.  *)
LEMMA LogStep ==
    ASSUME Good, ShapeInv', [Next]_vars
    PROVE  LogInv'
  <1>1. CASE UNCHANGED vars
    <2>1. UNCHANGED <<serverVars, log, persister, voteNet, leaderLog, acked, committed, elected>>
      BY <1>1 DEF vars, logVars, history
    <2>2. VoteDurable'
      BY <2>1 DEF Good, ElectionInv, VoteDurable, serverVars
    <2>3. NoVoteStep
      BY <2>1, <2>2, AloneNoVote DEF Good
    <2>4. CalmLogs
      BY <2>1, <2>3, AloneCalm
    <2>5. NetFits /\ ServersFit /\ LeadsFit
      BY <1>1, RestSame DEF vars
    <2> QED
      BY <2>4, <2>5, CalmStep
  <1>2. ASSUME NEW i \in Server, DoElection(i) PROVE LogInv'
    BY <1>2, DoElectionStep
  <1>3. ASSUME NEW m \in voteReqs, RequestVote(m) PROVE LogInv'
    BY <1>3, RequestVoteDeniedStep, RequestVoteGrantStep DEF RequestVote
  <1>4. ASSUME NEW m \in voteReplies, VoteReply(m) PROVE LogInv'
    BY <1>4, VoteReplyUndecidedStep, VoteReplyWinStep
  <1>5. ASSUME NEW i \in Server, NEW c \in Command, Start(i, c) PROVE LogInv'
    BY <1>5, StartStep
  <1>6. ASSUME NEW i \in Server, NEW j \in Server, i # j, Replicate(i, j) PROVE LogInv'
    BY <1>6, ReplicateStep
  <1>7. ASSUME NEW m \in appendReqs, AppendEntries(m) PROVE LogInv'
    BY <1>7, AppendEntriesRefusedStep, AppendEntriesAcceptStep DEF AppendEntries
  <1>8. ASSUME NEW m \in appendReplies, Sync(m) PROVE LogInv'
    <2>1. NoVoteStep
      BY <1>8, LogTrafficNoVote DEF Good
    <2>2. m.to \in Server
      BY <1>8 DEF Good, ShapeInv, TypeOK, TypeLogNet, AppendRep
    <2> QED
      BY <2>1, <2>2, <1>8, ReplyStepDownStep, SyncSuccessStep, SyncFailureStep DEF Sync
  <1>9. ASSUME NEW m \in snapReqs, InstallSnapshot(m) PROVE LogInv'
    BY <1>9, InstallSnapshotStep
  <1>10. ASSUME NEW m \in snapReplies, InstallReply(m) PROVE LogInv'
    <2>1. NoVoteStep
      BY <1>10, LogTrafficNoVote DEF Good
    <2>2. m.to \in Server
      BY <1>10 DEF Good, ShapeInv, TypeOK, TypeLogNet, SnapRep
    <2> QED
      BY <2>1, <2>2, <1>10, ReplyStepDownStep, InstallReplyNextStep DEF InstallReply
  <1>11. ASSUME NEW i \in Server, DoApply(i) \/ ApplyRejected(i) \/ Apply(i) PROVE LogInv'
    BY <1>11, DoApplyStep, ApplyRejectedStep, ApplyStep
  <1>12. ASSUME NEW i \in Server, NEW s \in snapMsgs[i], SnapshotRejected(i, s) \/ CondInstallSnapshot(i, s)
         PROVE  LogInv'
    BY <1>12, SnapshotRejectedStep, CondInstallSnapshotStep
  <1>13. CASE \/ \E i \in Server : Crash(i) \/ CrashInElection(i)
              \/ \E m \in voteReqs : CrashInRequestVote(m)
              \/ \E m \in appendReqs : CrashInAppendEntries(m)
    BY <1>13, CrashStep
  <1>14. CASE Drop
    BY <1>14, DropStep
  <1> QED
    BY <1>1, <1>2, <1>3, <1>4, <1>5, <1>6, <1>7, <1>8, <1>9, <1>10, <1>11, <1>12, <1>13, <1>14 DEF Next

(* Initially there are no leaders, and every log is empty.                   *)
LEMMA LogInit ==
    ASSUME Init
    PROVE  LogInv
  <1>0. /\ leaderLog = [t \in {0} |-> << >>] /\ acked = {} /\ committed = {} /\ elected = {}
        /\ voteReqs = {} /\ voteReplies = {} /\ appendReqs = {} /\ appendReplies = {}
        /\ snapReqs = {} /\ snapReplies = {}
    BY DEF Init
  <1>1. \A i \in Server :
           /\ state[i] = "Follower" /\ term[i] = 0 /\ log[i] = <<Sentinel>> /\ commitIndex[i] = 0
           /\ lastApplied[i] = 0 /\ persister[i].log = <<Sentinel>> /\ persister[i].snapshot = << >>
           /\ pending[i] = << >> /\ snapMsgs[i] = {} /\ votes[i] = {}
           /\ service[i].lastApplied = 0 /\ service[i].state = << >>
    BY DEF Init
  <1>2. /\ Base(<<Sentinel>>) = 0 /\ LastIndex(<<Sentinel>>) = 0
        /\ LogTail(<<Sentinel>>).term = 0 /\ <<Sentinel>>[1].term = 0
    BY DEF Base, LastIndex, LogTail, Sentinel
  <1>3. DOMAIN leaderLog = {0} /\ leaderLog[0] = << >> /\ 1..Len(leaderLog[0]) = {}
    BY <1>0
  <1>4. TermsFit
    BY <1>0, <1>1, <1>3 DEF TermsFit
  <1>5. TreeFits
    BY <1>3 DEF TreeFits, LogTree, Complete
  <1>6. LogsFit
    BY <1>1, <1>2 DEF LogsFit, LogOK, LogFits, SnapshotFits, Decided
  <1>7. LeadersFit /\ IndicesFit
    BY <1>1 DEF LeadersFit, LeaderOK, IndicesFit
  <1>8. RequestsFit /\ SnapshotsFit /\ RepliesFit /\ CommittedFit
    BY <1>0, <1>1 DEF RequestsFit, SnapshotsFit, RepliesFit, CommittedFit
  <1>9. CommitsFit
    BY <1>1, <1>2 DEF CommitsFit, CommitOK, CommitFits
  <1>10. ServicesFit
    BY <1>1, <1>2 DEF ServicesFit, ServiceOK, StateFits, Decided
  <1>11. AcksFit
    BY <1>0, <1>3 DEF AcksFit, AckOK, AckFits
  <1>12. VotesFit
    BY <1>0, <1>1 DEF VotesFit
  <1> QED
    BY <1>4, <1>5, <1>6, <1>7, <1>8, <1>9, <1>10, <1>11, <1>12 DEF LogInv

-----------------------------------------------------------------------------
(* The theorems.                                                             *)

(* Every reachable state has the shape and the votes of RaftProofs and the   *)
(* logs of SafetyInv.                                                        *)
THEOREM SafetyInvariant == Spec => []Good
  <1>1. Init => Good
    BY InitShape, ElectionInit, LogInit DEF Good
  <1>2. Good /\ [Next]_vars => Good'
    <2> SUFFICES ASSUME Good, [Next]_vars PROVE Good'
      OBVIOUS
    <2>1. ShapeInv'
      BY ShapeStep DEF Good
    <2>2. ElectionInv'
      BY <2>1, ElectionStep DEF Good
    <2>3. LogInv'
      BY <2>1, LogStep
    <2> QED
      BY <2>1, <2>2, <2>3 DEF Good
  <1> QED
    BY <1>1, <1>2, PTL DEF Spec

-----------------------------------------------------------------------------
(* What the invariant says of a log and of what was committed.               *)

(* A log that has the leader's entry at x, or a base no lower, holds it.     *)
LEMMA HoldsEntry ==
    ASSUME Good, NEW i \in Server, NEW t, NEW y, Sealed(leaderLog, acked, committed, t, y),
           NEW x \in Nat, x \in 1..y,
           x > Base(log[i]) => x <= LastIndex(log[i]) /\ GetLogAtIndex(log[i], x) = leaderLog[t][x]
    PROVE  Holds(log[i], leaderLog[t][x])
  <1>1. PICK l, s, r : l = log[i] /\ s = persister[i].snapshot /\ r = term[i]
    OBVIOUS
  <1>2. /\ l \in Log /\ Contiguous(l) /\ s \in Seq(Entry)
        /\ LogFits(leaderLog, acked, committed, r, l, s)
    BY <1>1, ServerTyped, ServerFits DEF Good, LogOK
  <1>3. HistoryType(leaderLog, acked, term) /\ LogTree(leaderLog) /\ Complete(leaderLog, acked, term)
    BY World
  <1>4. Choosable(leaderLog, acked, term, t, y) /\ t \in DOMAIN leaderLog /\ y \in 1..Len(leaderLog[t])
    BY ChosenChoosable DEF Sealed, Chosen, Node
  <1>5. Len(leaderLog[t]) \in Nat
    BY <1>3, <1>4, LeaderLogType
  <1>6. y \in Nat /\ x \in 1..Len(leaderLog[t])
    BY <1>4, <1>5
  <1>7. leaderLog[t][x].index = x
    BY <1>3, <1>4, <1>6 DEF LogTree
  <1>8. Base(l) \in Nat /\ LastIndex(l) \in Nat /\ \A z \in Nat : HasIndex(l, z) <=> z \in Base(l)..LastIndex(l)
    BY <1>2, IndexRange
  <1>9. CASE x < Base(l)
    BY <1>1, <1>7, <1>9 DEF Holds
  <1>10. CASE x = Base(l)
    <2>1. /\ Len(s) = x /\ Decided(leaderLog, acked, committed, r, s) /\ l[1].term = s[x].term
      BY <1>2, <1>10 DEF LogFits, SnapshotFits
    <2>2. Begins(s, leaderLog[t])
      <3>1. Len(s) <= y
        BY <2>1, <1>6
      <3> QED
        BY ONLY <3>1, <2>1, <1>2, <1>3, <1>4, DecidedSealed
    <2>3. s[x] = leaderLog[t][x]
      BY <2>1, <2>2, <1>6 DEF Begins
    <2> QED
      BY <2>1, <2>3, <1>1, <1>7, <1>10 DEF Holds
  <1>11. CASE x > Base(l)
    <2>1. x <= LastIndex(l) /\ GetLogAtIndex(l, x) = leaderLog[t][x]
      BY <1>1, <1>11
    <2>2. HasIndex(l, x)
      BY <2>1, <1>8, <1>11
    <2> QED
      BY <2>1, <2>2, <1>1, <1>7 DEF Holds
  <1> QED
    BY <1>8, <1>9, <1>10, <1>11

(* A committed entry is in the log of a leader, below a node of it that a    *)
(* majority stored.                                                          *)
LEMMA CommittedNode ==
    ASSUME Good, NEW e \in committed
    PROVE  \E t \in DOMAIN leaderLog : \E y \in 1..Len(leaderLog[t]) :
             /\ Sealed(leaderLog, acked, committed, t, y)
             /\ Choosable(leaderLog, acked, term, t, y)
             /\ t \in Nat /\ y \in Nat /\ Len(leaderLog[t]) \in Nat
             /\ e.index \in 1..y /\ e.index \in Nat /\ e = leaderLog[t][e.index]
  <1>1. OnWay(leaderLog, acked, committed, e)
    BY DEF Good, LogInv, CommittedFit
  <1>a. PICK t \in DOMAIN leaderLog : \E y \in 1..Len(leaderLog[t]) :
          Sealed(leaderLog, acked, committed, t, y) /\ e.index \in 1..y /\ e = leaderLog[t][e.index]
    BY <1>1 DEF OnWay
  <1>2. PICK y \in 1..Len(leaderLog[t]) :
          Sealed(leaderLog, acked, committed, t, y) /\ e.index \in 1..y /\ e = leaderLog[t][e.index]
    BY <1>a
  <1>3. t \in Nat /\ Len(leaderLog[t]) \in Nat
    BY World, LeaderLogType
  <1>4. y \in Nat
    BY <1>3
  <1>5. e.index \in Nat
    BY <1>2, <1>4
  <1>6. Choosable(leaderLog, acked, term, t, y)
    BY <1>2, ChosenChoosable DEF Sealed
  <1> QED
    BY <1>2, <1>3, <1>4, <1>5, <1>6

-----------------------------------------------------------------------------
(* The invariants.                                                           *)

(* What a restart reads back fits together.                                  *)
LEMMA SnapshotFit ==
    ASSUME Good
    PROVE  SnapshotFitsLog
  <1> SUFFICES ASSUME NEW i \in Server
               PROVE  Len(persister[i].snapshot) = Base(persister[i].log) /\ persister[i].log = log[i]
    BY DEF SnapshotFitsLog
  <1> QED
    BY ServerFits DEF LogOK, LogFits, SnapshotFits

(* For any number of servers, the snapshot a restarted service reads ends    *)
(* where the log it restarts with begins, whichever persist came last.       *)
THEOREM SnapshotsFitLogs == Spec => []SnapshotFitsLog
  <1>1. Good => SnapshotFitsLog
    BY SnapshotFit
  <1> QED
    BY <1>1, SafetyInvariant, PTL

(* A decided sequence consists of the committed entries from the first on.   *)
LEMMA DecidedCommitted ==
    ASSUME Good, NEW r, NEW s \in Seq(Entry), Decided(leaderLog, acked, committed, r, s),
           NEW k \in 1..Len(s)
    PROVE  s[k] \in committed /\ s[k].index = k
  <1>1. Len(s) \in Nat /\ Len(s) > 0
    BY LenProperties
  <1>2. PICK t \in DOMAIN leaderLog : \E y \in 1..Len(leaderLog[t]) :
           /\ Sealed(leaderLog, acked, committed, t, y) /\ Len(s) <= y
           /\ \A n \in 1..Len(s) : s[n] = leaderLog[t][n]
    BY <1>1 DEF Decided
  <1>3. PICK y \in 1..Len(leaderLog[t]) :
           /\ Sealed(leaderLog, acked, committed, t, y) /\ Len(s) <= y
           /\ \A n \in 1..Len(s) : s[n] = leaderLog[t][n]
    BY <1>2
  <1>4. Len(leaderLog[t]) \in Nat /\ LogTree(leaderLog)
    BY World, LeaderLogType
  <1>5. k \in 1..y /\ k \in 1..Len(leaderLog[t])
    BY <1>1, <1>3, <1>4
  <1>6. leaderLog[t][k] \in committed
    BY <1>3, <1>5 DEF Sealed
  <1>7. leaderLog[t][k].index = k
    BY <1>4, <1>5 DEF LogTree
  <1> QED
    BY <1>3, <1>6, <1>7

(* The services have executed decided sequences.                             *)
LEMMA MachinesSafe ==
    ASSUME Good
    PROVE  StateMachineSafety
  <1> SUFFICES ASSUME NEW i \in Server, NEW k \in DOMAIN service[i].state
               PROVE  service[i].state[k] \in committed /\ service[i].state[k].index = k
    BY DEF StateMachineSafety
  <1>1. PICK s, r : s = service[i].state /\ r = term[i]
    OBVIOUS
  <1>2. s \in Seq(Entry) /\ Decided(leaderLog, acked, committed, r, s)
    BY <1>1, ServerTyped, ServerFits DEF Good, ServiceOK, StateFits
  <1>3. k \in 1..Len(s)
    BY <1>1, <1>2
  <1> QED
    BY <1>1, <1>2, <1>3, DecidedCommitted

(* For any number of servers, every service has executed the committed       *)
(* entries from the first on, each once, in order and without a gap.         *)
THEOREM StateMachinesSafe == Spec => []StateMachineSafety
  <1>1. Good => StateMachineSafety
    BY MachinesSafe
  <1> QED
    BY <1>1, SafetyInvariant, PTL

(* Two leaders that committed at one index committed the same entry.         *)
LEMMA CommittedOnce ==
    ASSUME Good, NEW e \in committed, NEW f \in committed, e.index = f.index
    PROVE  e = f
  <1>1. HistoryType(leaderLog, acked, term) /\ LogTree(leaderLog) /\ Complete(leaderLog, acked, term)
    BY World
  <1>2. PICK t \in DOMAIN leaderLog : \E y \in 1..Len(leaderLog[t]) :
          /\ Choosable(leaderLog, acked, term, t, y) /\ t \in Nat /\ y \in Nat
          /\ e.index \in 1..y /\ e = leaderLog[t][e.index]
    BY CommittedNode
  <1>3. PICK y \in Nat :
          /\ Choosable(leaderLog, acked, term, t, y) /\ t \in Nat
          /\ e.index \in 1..y /\ e = leaderLog[t][e.index]
    BY <1>2
  <1>4. PICK u \in DOMAIN leaderLog : \E z \in 1..Len(leaderLog[u]) :
          /\ Choosable(leaderLog, acked, term, u, z) /\ u \in Nat /\ z \in Nat
          /\ f.index \in 1..z /\ f = leaderLog[u][f.index]
    BY CommittedNode
  <1>5. PICK z \in Nat :
          /\ Choosable(leaderLog, acked, term, u, z) /\ u \in Nat
          /\ f.index \in 1..z /\ f = leaderLog[u][f.index]
    BY <1>4
  <1>6. CASE t <= u
    <2>1. Agree(leaderLog, u, t, y)
      BY <1>1, <1>3, <1>6, ChoosableKept
    <2> QED
      BY <2>1, <1>3, <1>5 DEF Agree
  <1>7. CASE u <= t
    <2>1. Agree(leaderLog, t, u, z)
      BY <1>1, <1>5, <1>7, ChoosableKept
    <2> QED
      BY <2>1, <1>3, <1>5 DEF Agree
  <1> QED
    BY <1>3, <1>5, <1>6, <1>7

(* Commit indices reach only what leaders committed.                         *)
LEMMA CommitSafe ==
    ASSUME Good
    PROVE  CommitSafety
  <1>1. \A e, f \in committed : e.index = f.index => e = f
    BY CommittedOnce
  <1>2. ASSUME NEW i \in Server, NEW x \in 1..commitIndex[i]
        PROVE  \E e \in committed : e.index = x /\ Holds(log[i], e)
    <2>1. PICK l, c : l = log[i] /\ c = commitIndex[i]
      OBVIOUS
    <2>2. l \in Log /\ Contiguous(l) /\ c \in Nat /\ x \in Nat /\ x <= c /\ x >= 1
      <3>1. l \in Log /\ Contiguous(l) /\ c \in Nat
        BY <2>1, ServerTyped DEF Good
      <3> QED
        BY <3>1, <2>1
    <2>3. CommitFits(leaderLog, acked, committed, term[i], l, c)
      BY <2>1, ServerFits DEF CommitOK
    <2>4. PICK t \in DOMAIN leaderLog : \E y \in 1..Len(leaderLog[t]) :
             Sealed(leaderLog, acked, committed, t, y) /\ c <= y /\ Matches(leaderLog, l, t, c)
      BY <2>2, <2>3 DEF CommitFits
    <2>5. PICK y \in 1..Len(leaderLog[t]) :
             Sealed(leaderLog, acked, committed, t, y) /\ c <= y /\ Matches(leaderLog, l, t, c)
      BY <2>4
    <2>6. Len(leaderLog[t]) \in Nat /\ LogTree(leaderLog)
      BY World, LeaderLogType
    <2>7. x \in 1..y /\ x \in 1..Len(leaderLog[t])
      BY <2>2, <2>5, <2>6
    <2>8. leaderLog[t][x] \in committed /\ leaderLog[t][x].index = x
      BY <2>5, <2>6, <2>7 DEF Sealed, LogTree
    <2>9. Base(l) \in Nat /\ LastIndex(l) \in Nat
      BY <2>2, IndexRange
    <2>10. x > Base(l) => x <= LastIndex(l) /\ GetLogAtIndex(l, x) = leaderLog[t][x]
      <3>1. x <= LastIndex(l)
        BY <2>2, <2>3, <2>9 DEF CommitFits
      <3>2. x > Base(l) => x \in (Base(l) + 1)..c
        BY <2>2, <2>9
      <3> QED
        BY <3>1, <3>2, <2>5 DEF Matches
    <2>11. Holds(l, leaderLog[t][x])
      BY <2>1, <2>2, <2>5, <2>7, <2>10, HoldsEntry
    <2> QED
      BY <2>1, <2>8, <2>11
  <1> QED
    BY <1>1, <1>2 DEF CommitSafety

(* For any number of servers, no two entries are ever committed at one       *)
(* index, and no server takes for committed what no leader committed.        *)
THEOREM CommitsSafe == Spec => []CommitSafety
  <1>1. Good => CommitSafety
    BY CommitSafe
  <1> QED
    BY <1>1, SafetyInvariant, PTL

(* Who stored a node that can still be chosen has its leader's entries up to *)
(* it, above its own base.                                                   *)
LEMMA StorerHas ==
    ASSUME Good, NEW i \in Server, NEW t, NEW y, Choosable(leaderLog, acked, term, t, y),
           i \in Acks(acked, t, y), NEW x \in Nat, x \in 1..y, x > Base(log[i])
    PROVE  x <= LastIndex(log[i]) /\ GetLogAtIndex(log[i], x) = leaderLog[t][x]
  <1>1. PICK l, s, r : l = log[i] /\ s = persister[i].snapshot /\ r = term[i]
    OBVIOUS
  <1>2. /\ l \in Log /\ Contiguous(l) /\ s \in Seq(Entry)
        /\ LogFits(leaderLog, acked, committed, r, l, s)
        /\ AckFits(leaderLog, acked, term, i, l)
    BY <1>1, ServerTyped, ServerFits DEF Good, LogOK, AckOK
  <1>3. HistoryType(leaderLog, acked, term) /\ LogTree(leaderLog) /\ Complete(leaderLog, acked, term)
    BY World
  <1>4. t \in DOMAIN leaderLog /\ y \in 1..Len(leaderLog[t])
    BY DEF Choosable, Node
  <1>5. PICK w, n : w = LogTail(l).term /\ n = LastIndex(l)
    OBVIOUS
  <1>6. EndsIn(leaderLog, w, n)
    BY ONLY <1>2, <1>3, <1>5, LogEnds
  <1>7. Covers(w, n, t, y)
    BY <1>2, <1>4, <1>5 DEF AckFits, LogCovers
  <1>8. Node(leaderLog, w, n) /\ t <= w /\ y <= n /\ leaderLog[w][y] = leaderLog[t][y] /\ y \in 1..Len(leaderLog[w])
    BY <1>3, <1>6, <1>7, CoversLonger
  <1>9. /\ Base(l) \in Nat /\ n \in Nat
        /\ t \in Nat /\ Len(leaderLog[t]) \in Nat /\ w \in DOMAIN leaderLog /\ y \in Nat
    <2>1. w \in DOMAIN leaderLog
      BY <1>8 DEF Node
    <2>2. t \in Nat /\ Len(leaderLog[t]) \in Nat
      BY <1>3, <1>4, LeaderLogType
    <2> QED
      BY <2>1, <2>2, <1>2, <1>4, <1>5, IndexRange
  <1>10. Agree(leaderLog, w, t, y)
    BY <1>3, <1>4, <1>8, <1>9, LogMatching
  <1>11. x <= n /\ n > Base(l) /\ x > Base(l)
    BY <1>1, <1>8, <1>9
  <1>12. Matches(leaderLog, l, w, n)
    BY <1>2, <1>5, <1>11 DEF LogFits
  <1>13. x \in (Base(l) + 1)..n
    BY <1>9, <1>11
  <1>14. GetLogAtIndex(l, x) = leaderLog[w][x]
    BY <1>12, <1>13 DEF Matches
  <1>15. leaderLog[w][x] = leaderLog[t][x]
    BY <1>10 DEF Agree
  <1> QED
    BY <1>1, <1>5, <1>11, <1>14, <1>15

(* So the majority that stored a committed entry has it on disk.             *)
LEMMA CommittedKept ==
    ASSUME Good
    PROVE  CommittedDurable
  <1> SUFFICES ASSUME NEW e \in committed
               PROVE  IsMajority({i \in Server : Holds(persister[i].log, e)})
    BY DEF CommittedDurable
  <1>1. PICK t \in DOMAIN leaderLog : \E y \in 1..Len(leaderLog[t]) :
          /\ Sealed(leaderLog, acked, committed, t, y) /\ Choosable(leaderLog, acked, term, t, y)
          /\ y \in Nat /\ e.index \in 1..y /\ e.index \in Nat /\ e = leaderLog[t][e.index]
    BY CommittedNode
  <1>2. PICK y \in Nat :
          /\ Sealed(leaderLog, acked, committed, t, y) /\ Choosable(leaderLog, acked, term, t, y)
          /\ e.index \in 1..y /\ e.index \in Nat /\ e = leaderLog[t][e.index]
    BY <1>1
  <1>3. IsMajority(Acks(acked, t, y)) /\ Acks(acked, t, y) \in SUBSET Server
    BY <1>2 DEF Sealed, Chosen, Acks
  <1>4. ASSUME NEW i \in Acks(acked, t, y) PROVE i \in Server /\ Holds(persister[i].log, e)
    <2>1. i \in Server
      BY DEF Acks
    <2>2. PICK x \in Nat : x = e.index
      BY <1>2
    <2>3. x > Base(log[i]) => x <= LastIndex(log[i]) /\ GetLogAtIndex(log[i], x) = leaderLog[t][x]
      BY <2>1, <2>2, <1>2, StorerHas
    <2>4. Holds(log[i], leaderLog[t][x])
      BY <2>1, <2>2, <2>3, <1>2, HoldsEntry
    <2>5. persister[i].log = log[i]
      BY <2>1, ServerFits DEF LogOK
    <2> QED
      BY <2>1, <2>2, <2>4, <2>5, <1>2
  <1>5. Acks(acked, t, y) \subseteq {i \in Server : Holds(persister[i].log, e)}
    BY <1>4
  <1> QED
    BY <1>3, <1>5, MajorityGrows

(* For any number of servers and any crashes, whatever a leader committed is *)
(* persisted by a majority, for ever.                                        *)
THEOREM CommitsDurable == Spec => []CommittedDurable
  <1>1. Good => CommittedDurable
    BY CommittedKept
  <1> QED
    BY <1>1, SafetyInvariant, PTL

(* The newest leader's log goes through every node that was committed.       *)
LEMMA LeadersComplete ==
    ASSUME Good
    PROVE  LeaderCompleteness
  <1> SUFFICES ASSUME NEW i \in Server, state[i] = "Leader", \A f \in elected : f.term <= term[i],
                      NEW e \in committed
               PROVE  Holds(log[i], e)
    BY DEF LeaderCompleteness
  <1>1. PICK t \in DOMAIN leaderLog : \E y \in 1..Len(leaderLog[t]) :
          /\ Sealed(leaderLog, acked, committed, t, y) /\ Choosable(leaderLog, acked, term, t, y)
          /\ y \in Nat /\ e.index \in 1..y /\ e.index \in Nat /\ e = leaderLog[t][e.index]
    BY CommittedNode
  <1>2. PICK y \in Nat :
          /\ Sealed(leaderLog, acked, committed, t, y) /\ Choosable(leaderLog, acked, term, t, y)
          /\ e.index \in 1..y /\ e.index \in Nat /\ e = leaderLog[t][e.index]
    BY <1>1
  <1>3. PICK l, u : l = log[i] /\ u = term[i]
    OBVIOUS
  <1>4. l \in Log /\ Contiguous(l) /\ u \in Nat /\ LeaderFits(leaderLog, acked, i, u, l)
    BY <1>3, ServerTyped, ServerFits DEF Good, LeaderOK
  <1>5. u \in DOMAIN leaderLog /\ LastIndex(l) = Len(leaderLog[u]) /\ Matches(leaderLog, l, u, LastIndex(l))
    BY <1>4 DEF LeaderFits
  <1>6. t <= u
    <2>1. t = 0 \/ \E f \in elected : f.term = t
      BY DEF Good, LogInv, TermsFit
    <2> QED
      BY <2>1, <1>3, <1>4
  <1>7. y \in 1..Len(leaderLog[u]) /\ Agree(leaderLog, u, t, y)
    BY <1>2, <1>5, <1>6, World, ChoosableKept
  <1>8. PICK x \in Nat : x = e.index
    BY <1>2
  <1>9. Base(l) \in Nat /\ LastIndex(l) \in Nat
    BY <1>4, IndexRange
  <1>10. x > Base(l) => x <= LastIndex(l) /\ GetLogAtIndex(l, x) = leaderLog[t][x]
    <2>1. x <= LastIndex(l) /\ leaderLog[u][x] = leaderLog[t][x]
      BY <1>2, <1>5, <1>7, <1>8, <1>9 DEF Agree
    <2>2. x > Base(l) => x \in (Base(l) + 1)..LastIndex(l)
      BY <2>1, <1>9
    <2> QED
      BY <2>1, <2>2, <1>5 DEF Matches
  <1> QED
    BY <1>2, <1>3, <1>8, <1>10, HoldsEntry

(* For any number of servers, the leader of the newest term has every entry  *)
(* that was ever committed.                                                  *)
THEOREM NewestLeaderComplete == Spec => []LeaderCompleteness
  <1>1. Good => LeaderCompleteness
    BY LeadersComplete
  <1> QED
    BY <1>1, SafetyInvariant, PTL

(* Both logs are the leader's at what it counts the peer for.                *)
LEMMA MatchTruthful ==
    ASSUME Good
    PROVE  MatchIndexTruthful
  <1> SUFFICES ASSUME NEW i \in Server, NEW j \in Server, NEW x, x = matchIndex[i][j],
                      state[i] = "Leader", term[j] = term[i],
                      x > Base(persister[j].log), x > Base(log[i])
               PROVE  /\ HasIndex(log[i], x) /\ HasIndex(persister[j].log, x)
                      /\ GetLogAtIndex(persister[j].log, x) = GetLogAtIndex(log[i], x)
    BY DEF MatchIndexTruthful
  <1>1. PICK l, q, t : l = log[i] /\ q = log[j] /\ t = term[i]
    OBVIOUS
  <1>2. x \in Nat /\ l \in Log /\ Contiguous(l) /\ q \in Log /\ Contiguous(q) /\ persister[j].log = q
    BY <1>1, ServerTyped, ServerFits DEF Good, LogOK, ShapeInv, TypeOK, TypeLeader
  <1>3. /\ Base(l) \in Nat /\ LastIndex(l) \in Nat /\ Base(q) \in Nat /\ LastIndex(q) \in Nat
        /\ \A z \in Nat : HasIndex(l, z) <=> z \in Base(l)..LastIndex(l)
        /\ \A z \in Nat : HasIndex(q, z) <=> z \in Base(q)..LastIndex(q)
    BY <1>2, IndexRange
  <1>4. x > Base(l) /\ x > Base(q)
    BY <1>1, <1>2
  <1>5. CASE j = i
    <2>1. l = q /\ x = LastIndex(l)
      BY <1>1, <1>5 DEF Good, LogInv, IndicesFit, IndexOK
    <2>2. HasIndex(l, x)
      BY <2>1, <1>2, <1>3, <1>4
    <2> QED
      BY <2>1, <2>2, <1>1, <1>2
  <1>6. CASE j # i
    <2>1. Known(leaderLog, acked, committed, q, j, t, x)
      BY <1>1, <1>2, <1>3, <1>4, <1>6 DEF Good, LogInv, IndicesFit, IndexOK
    <2>2. x <= Len(leaderLog[t]) /\ j \in Acks(acked, t, x)
      BY <2>1, <1>2, <1>3, <1>4 DEF Known
    <2>3. PICK a \in acked : a.server = j /\ a.term = t /\ a.index >= x
      BY <2>2 DEF Acks
    <2>4. a.index \in Nat
      BY DEF Good, ShapeInv, TypeOK, TypeHistory
    <2>5. a.index <= LastIndex(q) /\ Matches(leaderLog, q, t, a.index)
      <3>1. AckFits(leaderLog, acked, term, j, q) /\ term[j] = t
        BY <1>1, ServerFits DEF AckOK
      <3>2. ~ (a.index <= Base(q))
        BY <2>3, <2>4, <1>2, <1>3, <1>4
      <3> QED
        BY <3>1, <3>2, <2>3 DEF AckFits
    <2>6. LastIndex(l) = Len(leaderLog[t]) /\ Matches(leaderLog, l, t, LastIndex(l))
      BY <1>1, ServerFits DEF LeaderOK, LeaderFits
    <2>7. x \in (Base(l) + 1)..LastIndex(l) /\ x \in (Base(q) + 1)..a.index /\ x <= LastIndex(q)
      BY <2>2, <2>3, <2>4, <2>5, <2>6, <1>2, <1>3, <1>4
    <2>8. GetLogAtIndex(l, x) = leaderLog[t][x] /\ GetLogAtIndex(q, x) = leaderLog[t][x]
      BY <2>5, <2>6, <2>7 DEF Matches
    <2> QED
      BY <2>7, <2>8, <1>1, <1>2, <1>3, <1>4
  <1> QED
    BY <1>5, <1>6

(* For any number of servers, what a leader counts a peer for, the peer has  *)
(* persisted, as long as it is in the leader's term.                         *)
THEOREM MatchesTruthful == Spec => []MatchIndexTruthful
  <1>1. Good => MatchIndexTruthful
    BY MatchTruthful
  <1> QED
    BY <1>1, SafetyInvariant, PTL

(* Each of the places that would stop a server finds what it asks for.       *)
LEMMA PanicFree ==
    ASSUME Good
    PROVE  NoPanic
  <1>0. ASSUME NEW i \in Server
        PROVE  /\ log[i] \in Log /\ Contiguous(log[i])
               /\ Base(log[i]) \in Nat /\ LastIndex(log[i]) \in Nat
               /\ commitIndex[i] \in Nat /\ lastApplied[i] \in Nat
               /\ Base(log[i]) <= commitIndex[i] /\ commitIndex[i] <= LastIndex(log[i])
               /\ \A x \in Nat : HasIndex(log[i], x) <=> x \in Base(log[i])..LastIndex(log[i])
    <2>1. log[i] \in Log /\ Contiguous(log[i]) /\ commitIndex[i] \in Nat /\ lastApplied[i] \in Nat
      BY ServerTyped DEF Good
    <2>2. Base(log[i]) <= commitIndex[i] /\ commitIndex[i] <= LastIndex(log[i])
      BY ServerFits DEF CommitOK, CommitFits
    <2> QED
      BY <2>1, <2>2, IndexRange
  <1>1. ASSUME NEW i \in Server, NEW j \in Server, state[i] = "Leader", i # j,
               nextIndex[i][j] > Base(log[i])
        PROVE  PrevInLog(i, j)
    <2>1. nextIndex[i][j] \in Nat /\ nextIndex[i][j] > 0
      BY DEF Good, ShapeInv, TypeOK, TypeLeader
    <2>2. nextIndex[i][j] <= LastIndex(log[i]) + 1
      BY <1>1 DEF Good, LogInv, IndicesFit, IndexOK
    <2>3. nextIndex[i][j] - 1 \in Nat /\ nextIndex[i][j] - 1 \in Base(log[i])..LastIndex(log[i])
      BY <2>1, <2>2, <1>0, <1>1
    <2> QED
      BY <2>3, <1>0 DEF PrevInLog
  <1>2. ASSUME NEW i \in Server, commitIndex[i] > lastApplied[i]
        PROVE  NextInLog(i)
    <2>1. PICK s : s = service[i].state /\ s \in Seq(Entry) /\ Len(s) \in Nat
      BY ServerTyped DEF Good
    <2>2. Base(log[i]) <= Len(s) /\ (lastApplied[i] = Len(s) \/ lastApplied[i] = Len(s) + 1)
      BY <2>1, ServerFits DEF ServiceOK, StateFits
    <2>3. lastApplied[i] + 1 \in Nat /\ lastApplied[i] + 1 \in Base(log[i])..LastIndex(log[i])
      BY <2>1, <2>2, <1>0, <1>2
    <2> QED
      BY <2>3, <1>0 DEF NextInLog
  <1>3. ASSUME NEW i \in Server, NEW s \in snapMsgs[i], ~ Outdated(i, s)
        PROVE  s.index >= Base(log[i])
    <2>1. s.index \in Nat
      <3>1. s \in SnapMsg
        BY DEF Good, ShapeInv, TypeOK, TypeService
      <3> QED
        BY <3>1 DEF SnapMsg
    <2> QED
      BY <2>1, <1>0, <1>3 DEF Outdated
  <1>4. ASSUME NEW m \in appendReplies, LeadsTerm(m), m.success
        PROVE  commitIndex[m.to] >= Base(log[m.to]) /\ m.last <= LogTail(log[m.to]).index
    <2>1. m.to \in Server /\ m.last \in Nat /\ m.term \in Nat
      BY DEF Good, ShapeInv, TypeOK, TypeLogNet, AppendRep
    <2>2. state[m.to] = "Leader" /\ term[m.to] = m.term
      BY <1>4 DEF LeadsTerm
    <2>3. LastIndex(log[m.to]) = Len(leaderLog[m.term])
      BY <2>1, <2>2, ServerFits DEF LeaderOK, LeaderFits
    <2>4. m.last > 0 => m.last <= Len(leaderLog[m.term])
      BY <1>4 DEF Good, LogInv, RepliesFit, AppendRepOK, Known
    <2>5. m.last <= LastIndex(log[m.to])
      BY <2>1, <2>3, <2>4, <1>0
    <2> QED
      BY <2>1, <2>5, <1>0 DEF LastIndex
  <1> QED
    BY <1>1, <1>2, <1>3, <1>4 DEF NoPanic

(* For any number of servers, no handler dereferences nil, cuts a log out of *)
(* its range or reaches one of its panics.                                   *)
THEOREM NeverPanics == Spec => []NoPanic
  <1>1. Good => NoPanic
    BY PanicFree
  <1> QED
    BY <1>1, SafetyInvariant, PTL

-----------------------------------------------------------------------------
(* What a step may never do.                                                 *)

(* A handler that is no crash and changes no log, commit index or service.   *)
Untouched == UNCHANGED <<log, commitIndex, service, committed, crashes>>

(* Every step is one of these or one of the five that do.                    *)
LEMMA StepKinds ==
    ASSUME [Next]_vars
    PROVE  \/ Untouched
           \/ \E i \in Server, c \in Command : Start(i, c)
           \/ \E m \in appendReqs : AppendEntriesAccept(m)
           \/ \E m \in appendReplies : SyncSuccess(m)
           \/ \E i \in Server : Apply(i)
           \/ \E i \in Server : \E s \in snapMsgs[i] : CondInstallSnapshot(i, s)
           \/ \/ \E i \in Server : Crash(i) \/ CrashInElection(i)
              \/ \E m \in voteReqs : CrashInRequestVote(m)
              \/ \E m \in appendReqs : CrashInAppendEntries(m)
  <1>1. CASE UNCHANGED vars
    BY <1>1 DEF vars, logVars, serviceVars, counters, history, Untouched
  <1>2. ASSUME NEW i \in Server, DoElection(i) PROVE Untouched
    BY <1>2 DEF DoElection, logVars, serviceVars, history, Untouched
  <1>3. ASSUME NEW m \in voteReqs, RequestVote(m) PROVE Untouched
    BY <1>3 DEF RequestVote, RequestVoteStale, RequestVoteGrant, RequestVoteDeny, ReplyVote,
                logVars, serviceVars, counters, history, Untouched
  <1>4. ASSUME NEW m \in voteReplies, VoteReply(m) PROVE Untouched
    BY <1>4 DEF VoteReply, VoteReplyIgnored, VoteReplyStepDown, VoteReplyCount, VoteReplyWin,
                logVars, serviceVars, counters, Untouched
  <1>5. ASSUME NEW i \in Server, NEW j \in Server, Replicate(i, j) PROVE Untouched
    BY <1>5 DEF Replicate, SendEntries, SendSnapshot, logVars, serviceVars, counters, history, Untouched
  <1>6. ASSUME NEW m, AppendEntriesStale(m) \/ AppendEntriesConflict(m) PROVE Untouched
    BY <1>6 DEF AppendEntriesStale, AppendEntriesConflict, ReplyAppend, serviceVars, counters, Untouched
  <1>7. ASSUME NEW m, ReplyStepDown(m) \/ SyncFailure(m) PROVE Untouched
    BY <1>7 DEF ReplyStepDown, SyncFailure, logVars, serviceVars, counters, history, Untouched
  <1>8. ASSUME NEW m \in snapReqs, InstallSnapshot(m) PROVE Untouched
    BY <1>8 DEF InstallSnapshot, InstallSnapshotStale, InstallSnapshotAccept, ReplySnapshot,
                logVars, counters, history, Untouched
  <1>9. ASSUME NEW m \in snapReplies, InstallReply(m) PROVE Untouched
    BY <1>7, <1>9 DEF InstallReply, InstallReplyNext, logVars, serviceVars, counters, history, Untouched
  <1>10. ASSUME NEW i \in Server, DoApply(i) \/ ApplyRejected(i) PROVE Untouched
    BY <1>10 DEF DoApply, ApplyRejected, logVars, counters, history, Untouched
  <1>11. ASSUME NEW i \in Server, NEW s \in snapMsgs[i], SnapshotRejected(i, s) PROVE Untouched
    BY <1>11 DEF SnapshotRejected, logVars, counters, history, Untouched
  <1>12. CASE Drop
    BY <1>12 DEF Drop, logVars, serviceVars, counters, history, Untouched
  <1> QED
    BY <1>1, <1>2, <1>3, <1>4, <1>5, <1>6, <1>7, <1>8, <1>9, <1>10, <1>11, <1>12
       DEF Next, AppendEntries, Sync

(* Terms never go back.                                                      *)
LEMMA TermsForward ==
    ASSUME Good, ShapeInv', [Next]_vars, NEW i \in Server
    PROVE  term'[i] >= term[i]
  <1>0. term[i] \in Nat
    BY ServerTyped DEF Good
  <1>1. CASE NoVoteStep
    <2>1. term[i] <= term'[i] /\ term'[i] \in Nat
      BY <1>1, NoVoteCalm DEF VotesCalm, ShapeInv, TypeOK, TypeServer
    <2> QED
      BY <2>1, <1>0
  <1>2. CASE UNCHANGED vars
    BY <1>0, <1>2 DEF vars, serverVars
  <1>3. ASSUME NEW m \in voteReqs, RequestVoteGrant(m) PROVE term'[i] >= term[i]
    <2>1. term \in [Server -> Nat] /\ m.to \in Server /\ m.term \in Nat
      BY DEF Good, ShapeInv, TypeOK, TypeServer, TypeVoteNet, VoteReq
    <2>2. term' = [term EXCEPT ![m.to] = m.term] /\ m.term >= term[m.to]
      BY <1>3 DEF RequestVoteGrant
    <2> QED
      BY <2>1, <2>2
  <1>4. ASSUME NEW m \in voteReplies, VoteReply(m), VoteReplyWin(m) PROVE term'[i] >= term[i]
    BY <1>0, <1>4 DEF VoteReplyWin
  <1>5. ASSUME NEW m \in voteReqs, RequestVote(m) PROVE term'[i] >= term[i]
    BY <1>1, <1>3, <1>5, DeniedNoVote DEF RequestVote, Good
  <1>6. ASSUME NEW m \in voteReplies, VoteReply(m) PROVE term'[i] >= term[i]
    BY <1>1, <1>4, <1>6, UndecidedNoVote DEF Good
  <1>7. ASSUME NEW j \in Server, DoElection(j) PROVE term'[i] >= term[i]
    BY <1>1, <1>7, DoElectionNoVote DEF Good
  <1> QED
    BY <1>1, <1>2, <1>5, <1>6, <1>7, LogTrafficNoVote, LocalNoVote, CrashNoVote DEF Next, Good

(* A sequence begins itself.                                                 *)
LEMMA PrefixSame ==
    ASSUME NEW s \in Seq(Entry)
    PROVE  IsPrefix(s, s)
  <1> QED
    BY LenProperties DEF IsPrefix

(* Of sequences, the one with the other's elements first continues it.       *)
LEMMA PrefixOf ==
    ASSUME NEW s \in Seq(Entry), NEW d \in Seq(Entry), Len(s) <= Len(d), \A k \in 1..Len(s) : s[k] = d[k]
    PROVE  IsPrefix(s, d)
  <1>1. Len(s) \in Nat /\ Len(d) \in Nat
    BY LenProperties
  <1>2. /\ SubSeq(s, 1, Len(s)) \in Seq(Entry) /\ Len(SubSeq(s, 1, Len(s))) = Len(s)
        /\ \A k \in 1..Len(s) : SubSeq(s, 1, Len(s))[k] = s[k]
    BY <1>1, SubSeqOfLog
  <1>3. /\ SubSeq(d, 1, Len(s)) \in Seq(Entry) /\ Len(SubSeq(d, 1, Len(s))) = Len(s)
        /\ \A k \in 1..Len(s) : SubSeq(d, 1, Len(s))[k] = d[k]
    BY <1>1, SubSeqOfLog
  <1>4. SubSeq(s, 1, Len(s)) = SubSeq(d, 1, Len(s))
    <2>1. PICK p \in Seq(Entry), q \in Seq(Entry) : p = SubSeq(s, 1, Len(s)) /\ q = SubSeq(d, 1, Len(s))
      BY <1>2, <1>3
    <2>2. Len(p) = Len(q) /\ \A k \in 1..Len(p) : p[k] = q[k]
      BY <2>1, <1>2, <1>3
    <2> QED
      BY <2>1, <2>2, SeqEqual
  <1> QED
    BY <1>4 DEF IsPrefix

(* Nothing a server knows to be committed, and nothing its service executed, *)
(* is given up.                                                              *)
Onward(i) == commitIndex'[i] >= commitIndex[i] /\ IsPrefix(service[i].state, service'[i].state)

(* So it is for a server whose service is left alone.                        *)
LEMMA OnwardSame ==
    ASSUME Good, NEW i \in Server, service'[i] = service[i], commitIndex'[i] >= commitIndex[i]
    PROVE  Onward(i)
  <1> QED
    BY ServerTyped, PrefixSame DEF Good, Onward

(* AppendEntries moves the commit index to the leader's, or to its own tail, *)
(* which the merge never takes below what is committed.                      *)
LEMMA AcceptOnward ==
    ASSUME Good, NEW m \in appendReqs, AppendEntriesAccept(m), NEW i \in Server
    PROVE  Onward(i)
  <1> DEFINE w == m.to
  <1>0. service' = service
    BY DEF AppendEntriesAccept, ReplyAppend, serviceVars
  <1>1. m \in AppendReq /\ Follows(m.entries, m.prevIndex) /\ RequestOK(m)
    BY DEF Good, ShapeInv, TypeOK, TypeLogNet, RequestsFollow, LogInv, RequestsFit
  <1>2. w \in Server /\ m.term \in Nat /\ RequestFits(leaderLog, acked, committed, term, m)
    BY <1>1 DEF AppendReq, RequestOK
  <1>3. log \in [Server -> Log] /\ commitIndex \in [Server -> Nat]
    BY DEF Good, ShapeInv, TypeOK, TypeLog, Log
  <1>4. commitIndex'[i] >= commitIndex[i]
    <2>1. CASE i # w
      BY <2>1, <1>2, <1>3 DEF AppendEntriesAccept
    <2>2. CASE i = w
      <3>1. PICK l, s, r, c : l = log[w] /\ s = persister[w].snapshot /\ r = term[w] /\ c = commitIndex[w]
        OBVIOUS
      <3>2. /\ l \in Log /\ Contiguous(l) /\ s \in Seq(Entry) /\ r \in Nat /\ c \in Nat
            /\ LogFits(leaderLog, acked, committed, r, l, s)
            /\ CommitFits(leaderLog, acked, committed, r, l, c)
        BY <3>1, <1>2, ServerTyped, ServerFits DEF Good, LogOK, CommitOK
      <3>3. r <= m.term /\ ~ PrevConflict(m, l)
        BY <3>1, <3>2, <1>2 DEF AppendEntriesAccept
      <3>4. FollowerCommit(m.leaderCommit, c, Merge(l, m.entries)) >= c
        <4>1. HistoryType(leaderLog, acked, term) /\ LogTree(leaderLog) /\ Complete(leaderLog, acked, term)
          BY World
        <4> QED
          BY ONLY <4>1, <3>2, <3>3, <1>1, <1>2, MergeCommit
      <3>5. commitIndex'[w] = FollowerCommit(m.leaderCommit, commitIndex[w], Merge(log[w], m.entries))
        BY <1>2, <1>3 DEF AppendEntriesAccept
      <3> QED
        BY <3>1, <3>4, <3>5, <2>2
    <2> QED
      BY <2>1, <2>2
  <1> QED
    BY <1>0, <1>4, OnwardSame

(* Sync moves the commit index to an index above it, or leaves it.           *)
LEMMA SyncOnward ==
    ASSUME Good, NEW m \in appendReplies, SyncSuccess(m), NEW i \in Server
    PROVE  Onward(i)
  <1> DEFINE w == m.to
  <1>0. service' = service
    BY DEF SyncSuccess, serviceVars
  <1>1. w \in Server /\ m.last \in Nat
    BY DEF Good, ShapeInv, TypeOK, TypeLogNet, AppendRep
  <1>2. commitIndex \in [Server -> Nat]
    BY DEF Good, ShapeInv, TypeOK, TypeLog
  <1>3. CASE i # w
    <2>1. commitIndex'[i] >= commitIndex[i]
      BY <1>1, <1>2, <1>3 DEF SyncSuccess
    <2> QED
      BY <2>1, <1>0, OnwardSame
  <1>4. CASE i = w
    <2>1. PICK c \in Nat, last \in Nat : c = commitIndex[w] /\ last = m.last
      BY <1>1, <1>2
    <2>2. PICK l, match, t : l = log[w] /\ match = matchIndex'[w] /\ t = term[w]
      OBVIOUS
    <2>3. NewCommit(l, c, match, t, last) >= c
      BY ONLY NewCommitFacts, c \in Nat, last \in Nat
    <2>4. commitIndex'[w] = NewCommit(l, c, match, t, last)
      BY <2>1, <2>2, <1>1, <1>2 DEF SyncSuccess, Matched
    <2> QED
      BY <2>1, <2>3, <2>4, <1>0, <1>4, OnwardSame
  <1> QED
    BY <1>3, <1>4

(* A command is executed after those before it.                              *)
LEMMA ApplyOnward ==
    ASSUME Good, NEW w \in Server, Apply(w), NEW i \in Server
    PROVE  Onward(i)
  <1>0. commitIndex'[i] >= commitIndex[i]
    <2>1. commitIndex[i] \in Nat
      BY ServerTyped DEF Good
    <2> QED
      BY <2>1 DEF Apply
  <1>1. service \in [Server -> [lastApplied : Nat, state : Seq(Entry)]] /\ pending[w] \in Seq(Entry)
    BY DEF Good, ShapeInv, TypeOK, TypeService
  <1>2. CASE i # w
    BY <1>0, <1>1, <1>2, OnwardSame DEF Apply
  <1>3. CASE i = w
    <2>1. PICK s \in Seq(Entry), e \in Entry : s = service[w].state /\ e = pending[w][1]
      <3>1. pending[w] # << >>
        BY DEF Apply
      <3>2. pending[w][1] \in Entry
        BY <3>1, <1>1, EmptySeq
      <3> QED
        BY <3>2, <1>1
    <2>2. service'[w].state = Append(s, e)
      BY <2>1, <1>1 DEF Apply
    <2>3. Append(s, e) \in Seq(Entry) /\ Len(s) <= Len(Append(s, e)) /\ \A k \in 1..Len(s) : s[k] = Append(s, e)[k]
      BY <2>1
    <2>4. IsPrefix(s, Append(s, e))
      BY <2>3, PrefixOf
    <2> QED
      BY <2>1, <2>2, <2>4, <1>0, <1>3 DEF Onward
  <1> QED
    BY <1>2, <1>3

(* A snapshot that is not outdated continues what the service has.           *)
LEMMA InstallOnward ==
    ASSUME Good, NEW w \in Server, NEW s \in snapMsgs[w], CondInstallSnapshot(w, s), NEW i \in Server
    PROVE  Onward(i)
  <1>1. /\ service \in [Server -> [lastApplied : Nat, state : Seq(Entry)]]
        /\ snapMsgs \in [Server -> SUBSET SnapMsg] /\ commitIndex \in [Server -> Nat]
    BY DEF Good, ShapeInv, TypeOK, TypeService, TypeLog
  <1>2. CASE i # w
    <2>1. service'[i] = service[i] /\ commitIndex'[i] = commitIndex[i] /\ commitIndex[i] \in Nat
      BY <1>1, <1>2 DEF CondInstallSnapshot
    <2> QED
      BY <2>1, OnwardSame
  <1>3. CASE i = w
    <2>1. PICK d \in Seq(Entry), x \in Nat : d = s.data /\ x = s.index
      <3>1. s \in SnapMsg
        BY <1>1
      <3>2. s.data \in Seq(Entry) /\ s.index \in Nat
        BY <3>1 DEF SnapMsg
      <3> QED
        BY <3>2
    <2>2. Len(d) = x /\ Decided(leaderLog, acked, committed, term[w], d)
      BY <2>1 DEF Good, LogInv, SnapshotsFit, SnapMsgOK, SnapshotFits
    <2>3. commitIndex'[w] = x /\ service'[w].state = d /\ ~ (x < commitIndex[w])
      BY <2>1, <1>1 DEF CondInstallSnapshot, Outdated
    <2>4. PICK q \in Seq(Entry) : q = service[w].state
      BY <1>1
    <2>5. Decided(leaderLog, acked, committed, term[w], q) /\ Len(q) <= commitIndex[w]
      <3>1. /\ Decided(leaderLog, acked, committed, term[w], q)
            /\ lastApplied[w] = Len(q) \/ lastApplied[w] = Len(q) + 1
            /\ lastApplied[w] <= commitIndex[w]
        BY <2>4, ServerFits DEF ServiceOK, StateFits
      <3>2. Len(q) \in Nat /\ commitIndex[w] \in Nat
        BY <1>1, LenProperties
      <3> QED
        BY <3>1, <3>2
    <2>6. Len(q) <= Len(d)
      <3>1. Len(q) \in Nat /\ commitIndex[w] \in Nat
        BY <1>1, LenProperties
      <3> QED
        BY <3>1, <2>2, <2>3, <2>5
    <2>7. \A k \in 1..Len(q) : q[k] = d[k]
      <3>1. HistoryType(leaderLog, acked, term) /\ LogTree(leaderLog) /\ Complete(leaderLog, acked, term)
        BY World
      <3> QED
        BY <3>1, <2>2, <2>5, <2>6, DecidedAgree
    <2>8. IsPrefix(q, d)
      BY <2>6, <2>7, PrefixOf
    <2>9. x >= commitIndex[w]
      BY <2>1, <2>3, <1>1
    <2> QED
      BY <2>3, <2>4, <2>8, <2>9, <1>3 DEF Onward
  <1> QED
    BY <1>2, <1>3

(* A crash is counted.                                                       *)
LEMMA CrashCounted ==
    ASSUME Good,
           \/ \E i \in Server : Crash(i) \/ CrashInElection(i)
           \/ \E m \in voteReqs : CrashInRequestVote(m)
           \/ \E m \in appendReqs : CrashInAppendEntries(m)
    PROVE  \E i \in Server : \E p :
             /\ Restart(i, p) /\ p.snapshot = persister[i].snapshot
             /\ crashes' = crashes + 1 /\ crashes' # crashes /\ UNCHANGED history
  <1>0. crashes \in Nat /\ persister \in [Server -> Persisted]
    BY DEF Good, ShapeInv, TypeOK, TypeHistory, TypePersister
  <1>1. ASSUME NEW i \in Server, NEW t PROVE AfterResetTerm(i, t).snapshot = persister[i].snapshot
    BY <1>0 DEF AfterResetTerm, Persisted
  <1>2. \A i \in Server : \A p : Restart(i, p) => crashes' = crashes + 1 /\ crashes' # crashes
    BY <1>0 DEF Restart
  <1>3. ASSUME NEW i \in Server, NEW p, Restart(i, p), p.snapshot = persister[i].snapshot, UNCHANGED history
        PROVE  \E j \in Server : \E q :
                 /\ Restart(j, q) /\ q.snapshot = persister[j].snapshot
                 /\ crashes' = crashes + 1 /\ crashes' # crashes /\ UNCHANGED history
    BY <1>2, <1>3
  <1>4. ASSUME NEW i \in Server, Crash(i) \/ CrashInElection(i)
        PROVE  \E p : Restart(i, p) /\ p.snapshot = persister[i].snapshot /\ UNCHANGED history
    BY <1>1, <1>4 DEF Crash, CrashInElection
  <1>5. ASSUME NEW m \in voteReqs, CrashInRequestVote(m)
        PROVE  /\ m.to \in Server
               /\ \E p : Restart(m.to, p) /\ p.snapshot = persister[m.to].snapshot /\ UNCHANGED history
    <2>1. m.to \in Server
      BY DEF Good, ShapeInv, TypeOK, TypeVoteNet, VoteReq
    <2> QED
      BY <2>1, <1>1, <1>5 DEF CrashInRequestVote
  <1>6. ASSUME NEW m \in appendReqs, CrashInAppendEntries(m)
        PROVE  /\ m.to \in Server
               /\ \E p : Restart(m.to, p) /\ p.snapshot = persister[m.to].snapshot /\ UNCHANGED history
    <2>1. m.to \in Server
      BY DEF Good, ShapeInv, TypeOK, TypeLogNet, AppendReq
    <2> QED
      BY <2>1, <1>1, <1>6 DEF CrashInAppendEntries
  <1> QED
    BY <1>3, <1>4, <1>5, <1>6

(* Nothing is given up without a crash.                                      *)
LEMMA StepOnward ==
    ASSUME Good, [Next]_vars, crashes' = crashes, NEW i \in Server
    PROVE  Onward(i)
  <1>0. commitIndex[i] \in Nat
    BY ServerTyped DEF Good
  <1>1. CASE Untouched
    BY <1>0, <1>1, OnwardSame DEF Untouched
  <1>2. ASSUME NEW w \in Server, NEW c \in Command, Start(w, c) PROVE Onward(i)
    BY <1>0, <1>2, OnwardSame DEF Start, serviceVars
  <1>3. CASE \/ \E j \in Server : Crash(j) \/ CrashInElection(j)
             \/ \E m \in voteReqs : CrashInRequestVote(m)
             \/ \E m \in appendReqs : CrashInAppendEntries(m)
    BY <1>3, CrashCounted
  <1> QED
    BY <1>1, <1>2, <1>3, StepKinds, AcceptOnward, SyncOnward, ApplyOnward, InstallOnward

(* For any number of servers, no step takes back a term, and none without a  *)
(* crash a commit index or what a service executed.                          *)
THEOREM NeverRollsBack == Spec => NoRollback
  <1>1. Good /\ Good' /\ [Next]_vars =>
          [\A i \in Server :
             /\ term'[i] >= term[i]
             /\ crashes' = crashes => /\ commitIndex'[i] >= commitIndex[i]
                                      /\ IsPrefix(service[i].state, service'[i].state)]_vars
    BY TermsForward, StepOnward DEF Onward, Good
  <1> QED
    BY <1>1, SafetyInvariant, PTL DEF Spec, NoRollback

(* Log l2 has every entry of l above its own base.                           *)
Kept(l, l2) ==
    \A k \in DOMAIN l :
        LET x == l[k].index IN
        x > Base(l2) => HasIndex(l2, x) /\ GetLogAtIndex(l2, x) = l[k]

(* So it has when it is l cut at some index, and no shorter.                 *)
LEMMA CutKeeps ==
    ASSUME NEW l \in Log, NEW l2 \in Log, Contiguous(l), Contiguous(l2), Cut(l, l2),
           LastIndex(l) <= LastIndex(l2)
    PROVE  Kept(l, l2)
  <1> SUFFICES ASSUME NEW k \in DOMAIN l, NEW x, x = l[k].index, x > Base(l2)
               PROVE  HasIndex(l2, x) /\ GetLogAtIndex(l2, x) = l[k]
    BY DEF Kept
  <1>1. /\ Base(l) \in Nat /\ LastIndex(l) \in Nat /\ LastIndex(l) = Base(l) + Len(l) - 1
        /\ Len(l) \in Nat
    BY IndexRange
  <1>2. /\ Base(l2) \in Nat /\ LastIndex(l2) \in Nat
        /\ \A y \in Nat : HasIndex(l2, y) <=> y \in Base(l2)..LastIndex(l2)
    BY IndexRange
  <1>3. k \in 1..Len(l) /\ x = Base(l) + k - 1
    BY LenProperties DEF Contiguous, Log
  <1>4. x \in Nat /\ x <= LastIndex(l) /\ x - Base(l) + 1 = k
    BY <1>1, <1>3
  <1>5. GetLogAtIndex(l, x) = l[k]
    BY <1>4 DEF GetLogAtIndex, LogIndexToSubscript
  <1>6. x \in (Base(l2) + 1)..LastIndex(l) /\ x \in Base(l2)..LastIndex(l2)
    BY <1>1, <1>2, <1>4
  <1> QED
    BY <1>2, <1>4, <1>5, <1>6 DEF Cut

(* A log keeps its own entries.                                              *)
LEMMA SameKept ==
    ASSUME NEW l \in Log, Contiguous(l)
    PROVE  Kept(l, l)
  <1>1. Base(l) \in Nat /\ LastIndex(l) \in Nat
    BY IndexRange
  <1>2. Cut(l, l)
    BY <1>1 DEF Cut
  <1> QED
    BY <1>1, <1>2, CutKeeps

(* A leader that goes on leading keeps its log, whatever the step.           *)
LEMMA LeaderKeeps ==
    ASSUME Good, [Next]_vars, NEW i \in Server, state[i] = "Leader", state'[i] = "Leader"
    PROVE  Kept(log[i], log'[i])
  <1>0. log[i] \in Log /\ Contiguous(log[i]) /\ log \in [Server -> Log]
    BY ServerTyped DEF Good, ShapeInv, TypeOK, TypeLog, Log
  <1>1. CASE log'[i] = log[i]
    BY <1>0, <1>1, SameKept
  <1>2. ASSUME NEW w \in Server, NEW c \in Command, Start(w, c) PROVE Kept(log[i], log'[i])
    <2>1. PICK e : e = [term |-> term[w], index |-> LogTail(log[w]).index + 1, cmd |-> c]
      OBVIOUS
    <2>2. log' = [log EXCEPT ![w] = Append(@, e)]
      BY <2>1, <1>2 DEF Start
    <2>3. CASE w # i
      BY <2>2, <2>3, <1>0, <1>1
    <2>4. CASE w = i
      <3>1. LastIndex(log[i]) \in Nat /\ term[i] \in Nat
        BY <1>0, IndexRange, ServerTyped DEF Good
      <3>2. e \in Entry /\ e.index = LastIndex(log[i]) + 1
        BY <3>1, <2>1, <2>4 DEF Entry, LastIndex
      <3>3. LET l2 == Append(log[i], e) IN
            /\ l2 \in Log /\ Contiguous(l2) /\ Cut(log[i], l2) /\ LastIndex(l2) = LastIndex(log[i]) + 1
        BY <3>2, <1>0, AppendFacts
      <3>4. log'[i] = Append(log[i], e)
        BY <2>2, <2>4, <1>0
      <3> QED
        BY <3>1, <3>3, <3>4, <1>0, CutKeeps
    <2> QED
      BY <2>3, <2>4
  <1>3. ASSUME NEW m \in appendReqs, AppendEntriesAccept(m) PROVE Kept(log[i], log'[i])
    <2>1. m \in AppendReq /\ RequestOK(m)
      BY DEF Good, ShapeInv, TypeOK, TypeLogNet, LogInv, RequestsFit
    <2>2. m.to \in Server /\ m.from \in Server /\ m.term \in Nat /\ m.from # m.to
      BY <2>1 DEF AppendReq, RequestOK
    <2>3. CASE m.to # i
      BY <2>2, <2>3, <1>0, <1>1, <1>3 DEF AppendEntriesAccept
    <2>4. CASE m.to = i
      <3>1. AcceptLeader(i, m.term) /\ m.term >= term[i] /\ term[i] \in Nat
        BY <2>4, <1>3, ServerTyped DEF AppendEntriesAccept, Good
      <3>2. state'[i] = state[i] => term[i] = m.term \/ state[i] = "Follower"
        BY <3>1, <2>2, AcceptTerm
      <3> QED
        BY <3>2, <2>2, <2>4, OtherLeader
    <2> QED
      BY <2>3, <2>4
  <1>4. ASSUME NEW w \in Server, Apply(w) PROVE Kept(log[i], log'[i])
    <2>1. PICK x : x = pending[w][1].index
      OBVIOUS
    <2>2. CASE w # i \/ UNCHANGED log
      BY <2>2, <1>0, <1>1, <1>4 DEF Apply
    <2>3. CASE w = i /\ log'[i] # log[i]
      <3>1. SnapshotDue(i, x) /\ log'[i] = Trim(log[i], x)
        BY <2>1, <2>3, <1>0, <1>4 DEF Apply
      <3>2. PICK k \in DOMAIN log[i] : log[i][k].index = x
        BY <3>1 DEF SnapshotDue
      <3>3. /\ Base(log[i]) \in Nat /\ LastIndex(log[i]) = Base(log[i]) + Len(log[i]) - 1
            /\ Len(log[i]) \in Nat /\ LastIndex(log[i]) \in Nat
        BY <1>0, IndexRange
      <3>4. k \in 1..Len(log[i]) /\ x = Base(log[i]) + k - 1
        BY <3>2, <1>0, LenProperties DEF Contiguous, Log
      <3>5. x \in Nat /\ x \in Base(log[i])..LastIndex(log[i])
        BY <3>3, <3>4
      <3>6. LET l2 == Trim(log[i], x) IN
            /\ l2 \in Log /\ Contiguous(l2) /\ Cut(log[i], l2) /\ LastIndex(l2) = LastIndex(log[i])
        BY <3>5, <1>0, TrimFacts
      <3> QED
        BY <3>1, <3>3, <3>6, <1>0, CutKeeps
    <2> QED
      BY <2>2, <2>3, <1>1
  <1>5. ASSUME NEW w \in Server, NEW s \in snapMsgs[w], CondInstallSnapshot(w, s) PROVE Kept(log[i], log'[i])
    <2>1. log' = [log EXCEPT ![w] = Installed(@, s)] /\ s.index >= Base(log[w]) /\ s \in SnapMsg
      BY <1>5 DEF CondInstallSnapshot, Good, ShapeInv, TypeOK, TypeService
    <2>2. CASE w # i
      BY <2>1, <2>2, <1>0, <1>1
    <2>3. CASE w = i
      <3>1. LET l2 == Installed(log[i], s) IN
            /\ l2 \in Log /\ Contiguous(l2) /\ Cut(log[i], l2)
            /\ IF s.index >= LastIndex(log[i]) THEN LastIndex(l2) = s.index ELSE LastIndex(l2) = LastIndex(log[i])
        BY <2>1, <2>3, <1>0, InstalledFacts
      <3>2. s.index \in Nat /\ LastIndex(log[i]) \in Nat
        BY <2>1, <1>0, IndexRange DEF SnapMsg
      <3>3. LastIndex(log[i]) <= LastIndex(Installed(log[i], s))
        BY <3>1, <3>2
      <3>4. log'[i] = Installed(log[i], s)
        BY <2>1, <2>3, <1>0
      <3> QED
        BY <3>1, <3>3, <3>4, <1>0, CutKeeps
    <2> QED
      BY <2>2, <2>3
  <1>6. CASE \/ \E j \in Server : Crash(j) \/ CrashInElection(j)
             \/ \E m \in voteReqs : CrashInRequestVote(m)
             \/ \E m \in appendReqs : CrashInAppendEntries(m)
    <2>0. PICK j \in Server : \E p : Restart(j, p)
      BY <1>6, CrashCounted
    <2>1. PICK p : Restart(j, p)
      BY <2>0
    <2>2. j # i
      <3>1. state \in [Server -> {"Follower", "Candidate", "Leader"}]
        BY DEF Good, ShapeInv, TypeOK, TypeServer
      <3>2. state'[j] = "Follower"
        BY <3>1, <2>1 DEF Restart
      <3> QED
        BY <3>2
    <2> QED
      BY <2>1, <2>2, <1>0, <1>1 DEF Restart
  <1>7. CASE Untouched
    BY <1>1, <1>7 DEF Untouched
  <1>8. ASSUME NEW m \in appendReplies, SyncSuccess(m) PROVE Kept(log[i], log'[i])
    BY <1>1, <1>8 DEF SyncSuccess
  <1> QED
    BY <1>2, <1>3, <1>4, <1>5, <1>6, <1>7, <1>8, StepKinds

(* For any number of servers, no step takes an entry above the base from the *)
(* log of a server that goes on leading.                                     *)
THEOREM LeadersAppendOnly == Spec => LeaderAppendOnly
  <1>1. Good /\ [Next]_vars =>
          [\A i \in Server : state[i] = "Leader" /\ state'[i] = "Leader" =>
             \A k \in DOMAIN log[i] :
                 LET x == log[i][k].index IN
                 x > Base(log'[i]) => HasIndex(log'[i], x) /\ GetLogAtIndex(log'[i], x) = log[i][k]]_vars
    BY LeaderKeeps DEF Kept
  <1> QED
    BY <1>1, SafetyInvariant, PTL DEF Spec, LeaderAppendOnly

-----------------------------------------------------------------------------
(* The refinement: Raft implements the one replicated log.                   *)

(* Of the committed entries there is a last one.                             *)
HasLast == committed = {} \/ \E e \in committed : \A f \in committed : f.index <= e.index

(* Sync adds entries up to its new commit index, and one at that index.      *)
LEMMA LastStep ==
    ASSUME Good, HasLast, ShapeInv', CommitSafety', [Next]_vars
    PROVE  HasLast'
  <1>1. CASE committed' = committed
    BY <1>1 DEF HasLast
  <1>2. ASSUME NEW m \in appendReplies, SyncSuccess(m) PROVE HasLast'
    <2> DEFINE i == m.to
    <2>1. i \in Server
      BY DEF Good, ShapeInv, TypeOK, TypeLogNet, AppendRep
    <2>2. PICK c \in Nat : c = commitIndex'[i]
      BY <2>1 DEF ShapeInv, TypeOK, TypeLog
    <2>3. committed' = committed \cup Committing(log[i], c)
      BY <2>2, <1>2 DEF SyncSuccess, Committing
    <2>4. log[i] \in Log /\ Contiguous(log[i]) /\ Base(log[i]) \in Nat /\ LastIndex(log[i]) \in Nat
      BY <2>1, ServerTyped, IndexRange DEF Good
    <2>5. \A e \in Committing(log[i], c) : e.index \in (Base(log[i]) + 1)..LastIndex(log[i]) /\ e.index <= c
      BY <2>4, CommittingFacts
    <2>6. \A e \in committed' : e.index \in Nat
      BY DEF ShapeInv, TypeOK, TypeHistory, Entry
    <2>7. CASE Committing(log[i], c) = {}
      BY <2>3, <2>7, <1>1
    <2>8. CASE Committing(log[i], c) # {}
      <3>1. c >= 1
        BY <2>4, <2>5, <2>8
      <3>2. PICK e \in committed' : e.index = c
        BY <3>1, <2>1, <2>2 DEF CommitSafety
      <3>3. CASE \A f \in committed : f.index <= c
        BY <3>2, <3>3, <2>3, <2>5 DEF HasLast
      <3>4. CASE \E f \in committed : ~ (f.index <= c)
        <4>1. PICK f \in committed : ~ (f.index <= c)
          BY <3>4
        <4>2. PICK g \in committed : \A h \in committed : h.index <= g.index
          BY <4>1 DEF HasLast
        <4>3. f \in committed' /\ g \in committed' /\ f.index \in Nat /\ g.index \in Nat
          BY <4>1, <4>2, <2>3, <2>6
        <4>4. g.index >= c
          BY <4>1, <4>2, <4>3
        <4>5. \A h \in committed' : h.index <= g.index
          BY <4>2, <4>3, <4>4, <2>3, <2>5, <2>6
        <4> QED
          BY <4>3, <4>5 DEF HasLast
      <3> QED
        BY <3>3, <3>4
    <2> QED
      BY <2>7, <2>8
  <1>3. ASSUME NEW i \in Server, NEW c \in Command, Start(i, c) PROVE committed' = committed
    BY <1>3 DEF Start
  <1>4. ASSUME NEW m \in appendReqs, AppendEntriesAccept(m) PROVE committed' = committed
    BY <1>4 DEF AppendEntriesAccept, ReplyAppend
  <1>5. ASSUME NEW i \in Server, Apply(i) PROVE committed' = committed
    BY <1>5 DEF Apply, history
  <1>6. ASSUME NEW i \in Server, NEW s \in snapMsgs[i], CondInstallSnapshot(i, s) PROVE committed' = committed
    BY <1>6 DEF CondInstallSnapshot, history
  <1>7. CASE \/ \E j \in Server : Crash(j) \/ CrashInElection(j)
             \/ \E m \in voteReqs : CrashInRequestVote(m)
             \/ \E m \in appendReqs : CrashInAppendEntries(m)
    BY <1>1, <1>7, CrashCounted DEF history
  <1>8. Untouched => committed' = committed
    BY DEF Untouched
  <1> QED
    BY <1>1, <1>2, <1>3, <1>4, <1>5, <1>6, <1>7, <1>8, StepKinds

(* DecidedLog is what it is called: the committed entries in their order.    *)
DecidedOK ==
    /\ DecidedLog \in Seq(Entry)
    /\ \A e \in committed : e.index \in 1..Len(DecidedLog) /\ DecidedLog[e.index] = e
    /\ \A x \in 1..Len(DecidedLog) : DecidedLog[x] \in committed /\ DecidedLog[x].index = x

(* For the committed entries have no gap and, at each index, no choice.      *)
LEMMA DecidedWhole ==
    ASSUME Good, HasLast
    PROVE  DecidedOK
  <1> DEFINE S == {0} \cup {e.index : e \in committed}
  <1>0. committed \subseteq Entry /\ \A e \in committed : e.index \in Nat
    BY DEF Good, ShapeInv, TypeOK, TypeHistory, Entry
  <1>1. PICK b \in Nat : b \in S /\ \A y \in S : y <= b
    <2>1. CASE committed = {}
      BY <2>1
    <2>2. CASE committed # {}
      <3>1. PICK e \in committed : \A f \in committed : f.index <= e.index
        BY <2>2 DEF HasLast
      <3>2. e.index \in Nat /\ e.index \in S
        BY <1>0
      <3> QED
        BY <3>1, <3>2, <1>0
    <2> QED
      BY <2>1, <2>2
  <1>2. S \in SUBSET (0..b) /\ S # {}
    BY <1>0, <1>1
  <1>3. PICK n : n = Max(S)
    OBVIOUS
  <1>4. n \in S /\ \A y \in S : n >= y
    BY <1>2, <1>3, NatMax
  <1>5. n \in Nat
    BY <1>2, <1>4
  <1>6. DecidedLog = [x \in 1..n |-> CHOOSE e \in committed : e.index = x]
    BY <1>3 DEF DecidedLog
  <1>7. ASSUME NEW x \in 1..n
        PROVE  \E e \in committed : e.index = x
    <2>1. PICK f \in committed : f.index = n
      BY <1>4, <1>5
    <2>2. PICK t \in DOMAIN leaderLog : \E y \in 1..Len(leaderLog[t]) :
            /\ Sealed(leaderLog, acked, committed, t, y)
            /\ t \in Nat /\ y \in Nat /\ Len(leaderLog[t]) \in Nat /\ f.index \in 1..y
      BY CommittedNode
    <2>3. PICK y \in Nat :
            /\ Sealed(leaderLog, acked, committed, t, y)
            /\ y \in 1..Len(leaderLog[t]) /\ Len(leaderLog[t]) \in Nat /\ f.index \in 1..y
      BY <2>2
    <2>4. x \in 1..y /\ x \in 1..Len(leaderLog[t])
      BY <2>1, <2>3, <1>5
    <2>5. leaderLog[t][x] \in committed
      BY <2>3, <2>4 DEF Sealed
    <2>6. leaderLog[t][x].index = x
      BY <2>4, World DEF LogTree
    <2> QED
      BY <2>5, <2>6
  <1>8. \A x \in 1..n : DecidedLog[x] \in committed /\ DecidedLog[x].index = x
    BY <1>6, <1>7
  <1>9. DecidedLog \in Seq(Entry) /\ Len(DecidedLog) = n
    <2>1. DecidedLog \in [1..n -> Entry]
      BY <1>0, <1>6, <1>8
    <2> QED
      BY <2>1, <1>5, <1>6
  <1>10. ASSUME NEW e \in committed PROVE e.index \in 1..n /\ DecidedLog[e.index] = e
    <2>1. e.index \in Nat /\ e.index <= n
      BY <1>0, <1>4, <1>5
    <2>2. e.index >= 1
      BY CommittedNode
    <2>3. e.index \in 1..n
      BY <2>1, <2>2, <1>5
    <2> QED
      BY <2>3, <1>8, CommittedOnce
  <1> QED
    BY <1>8, <1>9, <1>10 DEF DecidedOK

(* So it is in every reachable state.                                        *)
LEMMA DecidedAlways == Spec => []DecidedOK
  <1>1. Init => HasLast
    BY DEF Init, HasLast
  <1>2. Good /\ HasLast /\ Good' /\ CommitSafety' /\ [Next]_vars => HasLast'
    BY LastStep DEF Good
  <1>3. Good /\ HasLast => DecidedOK
    BY DecidedWhole
  <1> QED
    BY <1>1, <1>2, <1>3, SafetyInvariant, CommitsSafe, PTL DEF Spec

(* A sequence of committed entries from the first on begins DecidedLog.      *)
LEMMA BeginsDecided ==
    ASSUME DecidedOK, NEW s \in Seq(Entry), \A k \in 1..Len(s) : s[k] \in committed /\ s[k].index = k
    PROVE  Len(s) \in Nat /\ Len(DecidedLog) \in Nat /\ Len(s) <= Len(DecidedLog)
           /\ s = SubSeq(DecidedLog, 1, Len(s))
  <1>1. PICK d \in Seq(Entry) : d = DecidedLog
    BY DEF DecidedOK
  <1>2. Len(s) \in Nat /\ Len(d) \in Nat
    BY LenProperties
  <1>3. \A k \in 1..Len(s) : k \in 1..Len(d) /\ d[k] = s[k]
    BY <1>1 DEF DecidedOK
  <1>4. Len(s) <= Len(d)
    <2>1. CASE Len(s) = 0
      BY <2>1, <1>2
    <2>2. CASE Len(s) # 0
      <3>1. Len(s) \in 1..Len(s)
        BY <2>2, <1>2
      <3>2. Len(s) \in 1..Len(d)
        BY <3>1, <1>3
      <3> QED
        BY <3>2, <1>2
    <2> QED
      BY <2>1, <2>2
  <1>5. /\ SubSeq(d, 1, Len(s)) \in Seq(Entry) /\ Len(SubSeq(d, 1, Len(s))) = Len(s)
        /\ \A k \in 1..Len(s) : SubSeq(d, 1, Len(s))[k] = d[k]
    BY <1>2, <1>4, SubSeqOfLog
  <1>6. s = SubSeq(d, 1, Len(s))
    <2>1. PICK q \in Seq(Entry) : q = SubSeq(d, 1, Len(s))
      BY <1>5
    <2>2. Len(s) = Len(q) /\ \A k \in 1..Len(s) : s[k] = q[k]
      BY <2>1, <1>3, <1>5
    <2> QED
      BY <2>1, <2>2, SeqEqual
  <1> QED
    BY <1>1, <1>2, <1>4, <1>6

(* A step that changes one service alone moves it to a prefix of DecidedLog. *)
LEMMA ServiceMoves ==
    ASSUME Good, DecidedOK, NEW i \in Server, NEW s \in Seq(Entry), service'[i].state = s,
           \A j \in Server \ {i} : service'[j] = service[j], committed' = committed,
           \A k \in 1..Len(s) : s[k] \in committed /\ s[k].index = k
    PROVE  Len(s) \in Nat /\ Len(DecidedLog) \in Nat /\ Len(s) <= Len(DecidedLog)
           /\ OneLog!MoveTo(i, Len(s))
  <1>1. /\ Len(s) \in Nat /\ Len(DecidedLog) \in Nat /\ Len(s) <= Len(DecidedLog)
        /\ s = SubSeq(DecidedLog, 1, Len(s))
    BY BeginsDecided
  <1>2. DecidedLog' = DecidedLog
    BY DEF DecidedLog
  <1>3. [j \in Server |-> service[j].state]'
          = [[j \in Server |-> service[j].state] EXCEPT ![i] = SubSeq(DecidedLog, 1, Len(s))]
    BY <1>1
  <1> QED
    BY <1>1, <1>2, <1>3 DEF OneLog!MoveTo

(* Nothing is visible of a step that neither commits nor executes.           *)
LEMMA Invisible ==
    ASSUME UNCHANGED <<committed, service, crashes>>
    PROVE  UNCHANGED OneLog!vars
  <1>1. DecidedLog' = DecidedLog
    BY DEF DecidedLog
  <1> QED
    BY <1>1 DEF OneLog!vars

(* Sync decides further entries, or nothing that was not decided.            *)
LEMMA SyncDecides ==
    ASSUME Good, DecidedOK, DecidedOK', NEW m \in appendReplies, SyncSuccess(m)
    PROVE  [OneLog!Next]_(OneLog!vars)
  <1>1. committed \subseteq committed' /\ UNCHANGED <<service, crashes>>
    BY DEF SyncSuccess, serviceVars, counters
  <1>2. PICK d \in Seq(Entry), q \in Seq(Entry) : d = DecidedLog /\ q = DecidedLog'
    BY DEF DecidedOK
  <1>3. Len(d) \in Nat /\ Len(q) \in Nat
    BY LenProperties
  <1>4. \A k \in 1..Len(d) : k \in 1..Len(q) /\ q[k] = d[k]
    <2> SUFFICES ASSUME NEW k \in 1..Len(d) PROVE k \in 1..Len(q) /\ q[k] = d[k]
      OBVIOUS
    <2>1. d[k] \in committed /\ d[k].index = k
      BY <1>2 DEF DecidedOK
    <2>2. d[k] \in committed'
      BY <2>1, <1>1
    <2>3. \A e \in committed' : e.index \in 1..Len(q) /\ q[e.index] = e
      BY <1>2 DEF DecidedOK
    <2> QED
      BY <2>1, <2>2, <2>3
  <1>5. Len(d) <= Len(q)
    <2>1. CASE Len(d) = 0
      BY <2>1, <1>3
    <2>2. CASE Len(d) # 0
      <3>1. Len(d) \in 1..Len(d)
        BY <2>2, <1>3
      <3>2. Len(d) \in 1..Len(q)
        BY <3>1, <1>4
      <3> QED
        BY <3>2, <1>3
    <2> QED
      BY <2>1, <2>2
  <1>6. IsPrefix(d, q)
    BY <1>4, <1>5, PrefixOf
  <1>7. CASE d = q
    <2>1. UNCHANGED <<DecidedLog, [j \in Server |-> service[j].state], crashes>>
      BY <1>1, <1>2, <1>7
    <2> QED
      BY <2>1 DEF OneLog!vars
  <1>8. CASE d # q
    <2>1. IsStrictPrefix(DecidedLog, DecidedLog')
      BY <1>2, <1>6, <1>8 DEF IsStrictPrefix
    <2>2. OneLog!Decide
      BY <2>1, <1>1 DEF OneLog!Decide, OneLog!IsStrictPrefix, OneLog!IsPrefix, IsStrictPrefix, IsPrefix
    <2> QED
      BY <2>2 DEF OneLog!Next
  <1> QED
    BY <1>7, <1>8

(* Apply executes the next decided entry.                                    *)
LEMMA ApplyExecutes ==
    ASSUME Good, DecidedOK, NEW i \in Server, Apply(i)
    PROVE  [OneLog!Next]_(OneLog!vars)
  <1>0. UNCHANGED <<committed, crashes>>
    BY DEF Apply, history, counters
  <1>1. service \in [Server -> [lastApplied : Nat, state : Seq(Entry)]] /\ pending[i] \in Seq(Entry)
    BY DEF Good, ShapeInv, TypeOK, TypeService
  <1>2. PICK q \in Seq(Entry), e \in Entry : q = service[i].state /\ e = pending[i][1]
    <2>1. pending[i] # << >>
      BY DEF Apply
    <2>2. pending[i][1] \in Entry
      BY <2>1, <1>1, EmptySeq
    <2> QED
      BY <2>2, <1>1
  <1>3. PICK s \in Seq(Entry) : s = Append(q, e) /\ Len(s) = Len(q) + 1
    BY AppendProperties
  <1>4. service'[i].state = s /\ \A j \in Server \ {i} : service'[j] = service[j]
    BY <1>1, <1>2, <1>3 DEF Apply
  <1>5. Decided(leaderLog, acked, committed, term[i], s)
    <2>1. (pending[i] # << >> /\ Fresh(i)) = TRUE
      BY DEF Apply
    <2> QED
      BY <2>1, <1>2, <1>3, ServerFits DEF ServiceOK, StateFits
  <1>6. \A k \in 1..Len(s) : s[k] \in committed /\ s[k].index = k
    BY <1>5, DecidedCommitted
  <1>7. Len(s) \in Nat /\ Len(DecidedLog) \in Nat /\ Len(s) <= Len(DecidedLog) /\ OneLog!MoveTo(i, Len(s))
    BY <1>0, <1>4, <1>6, ServiceMoves
  <1>8. [j \in Server |-> service[j].state][i] = q /\ Len(q) \in Nat
    BY <1>2, LenProperties
  <1>9. OneLog!Execute(i)
    <2>1. Len([j \in Server |-> service[j].state][i]) < Len(DecidedLog)
      BY <1>3, <1>7, <1>8
    <2>2. Len([j \in Server |-> service[j].state][i]) + 1 = Len(s)
      BY <1>3, <1>8
    <2> QED
      BY <2>1, <2>2, <1>0, <1>7 DEF OneLog!Execute, OneLog!MoveTo
  <1> QED
    BY <1>9 DEF OneLog!Next

(* CondInstallSnapshot moves the service forward along the decided entries.  *)
LEMMA SnapshotInstalls ==
    ASSUME Good, DecidedOK, NEW i \in Server, NEW m \in snapMsgs[i], CondInstallSnapshot(i, m)
    PROVE  [OneLog!Next]_(OneLog!vars)
  <1>0. UNCHANGED <<committed, crashes>>
    BY DEF CondInstallSnapshot, history, counters
  <1>1. /\ service \in [Server -> [lastApplied : Nat, state : Seq(Entry)]]
        /\ snapMsgs \in [Server -> SUBSET SnapMsg]
    BY DEF Good, ShapeInv, TypeOK, TypeService
  <1>2. PICK s \in Seq(Entry) : s = m.data
    <2>1. m \in SnapMsg
      BY <1>1
    <2> QED
      BY <2>1 DEF SnapMsg
  <1>3. Decided(leaderLog, acked, committed, term[i], s)
    BY <1>2 DEF Good, LogInv, SnapshotsFit, SnapMsgOK, SnapshotFits
  <1>4. service'[i].state = s /\ \A j \in Server \ {i} : service'[j] = service[j]
    BY <1>1, <1>2 DEF CondInstallSnapshot
  <1>5. \A k \in 1..Len(s) : s[k] \in committed /\ s[k].index = k
    BY <1>3, DecidedCommitted
  <1>6. Len(s) \in Nat /\ Len(DecidedLog) \in Nat /\ Len(s) <= Len(DecidedLog) /\ OneLog!MoveTo(i, Len(s))
    BY <1>0, <1>4, <1>5, ServiceMoves
  <1>7. PICK q \in Seq(Entry) : q = service[i].state
    BY <1>1
  <1>8. Len(q) \in Nat /\ Len(q) <= Len(s)
    <2>1. IsPrefix(q, s)
      BY <1>4, <1>7, InstallOnward DEF Onward
    <2> QED
      BY <2>1, LenProperties DEF IsPrefix
  <1>9. Len(s) \in Len([j \in Server |-> service[j].state][i])..Len(DecidedLog)
    BY <1>6, <1>7, <1>8
  <1>10. OneLog!Install(i)
    BY <1>0, <1>6, <1>9 DEF OneLog!Install
  <1> QED
    BY <1>10 DEF OneLog!Next

(* A crash takes the service back to its snapshot, not further.              *)
LEMMA CrashRecovers ==
    ASSUME Good, DecidedOK,
           \/ \E i \in Server : Crash(i) \/ CrashInElection(i)
           \/ \E m \in voteReqs : CrashInRequestVote(m)
           \/ \E m \in appendReqs : CrashInAppendEntries(m)
    PROVE  [OneLog!Next]_(OneLog!vars)
  <1>0. PICK i \in Server : \E p : /\ Restart(i, p) /\ p.snapshot = persister[i].snapshot
                                   /\ crashes' = crashes + 1 /\ UNCHANGED history
    BY CrashCounted
  <1>1. PICK p : /\ Restart(i, p) /\ p.snapshot = persister[i].snapshot
                 /\ crashes' = crashes + 1 /\ UNCHANGED history
    BY <1>0
  <1>2. service \in [Server -> [lastApplied : Nat, state : Seq(Entry)]]
    BY DEF Good, ShapeInv, TypeOK, TypeService
  <1>3. PICK s \in Seq(Entry), q \in Seq(Entry) : s = persister[i].snapshot /\ q = service[i].state
    BY ServerTyped DEF Good
  <1>4. service'[i].state = s /\ \A j \in Server \ {i} : service'[j] = service[j]
    BY <1>1, <1>2, <1>3 DEF Restart
  <1>5. Decided(leaderLog, acked, committed, term[i], s) /\ Len(s) = Base(log[i])
    BY <1>3, ServerFits DEF LogOK, LogFits, SnapshotFits
  <1>6. Base(log[i]) <= Len(q)
    BY <1>3, ServerFits DEF ServiceOK, StateFits
  <1>7. \A k \in 1..Len(s) : s[k] \in committed /\ s[k].index = k
    BY <1>5, DecidedCommitted
  <1>8. Len(s) \in Nat /\ OneLog!MoveTo(i, Len(s))
    BY <1>1, <1>4, <1>7, ServiceMoves DEF history
  <1>9. Len(s) \in 0..Len([j \in Server |-> service[j].state][i])
    <2>1. Len(q) \in Nat /\ Len(s) <= Len(q)
      BY <1>5, <1>6, LenProperties
    <2> QED
      BY <2>1, <1>3, <1>8
  <1>10. OneLog!Recover(i)
    BY <1>1, <1>8, <1>9 DEF OneLog!Recover
  <1> QED
    BY <1>10 DEF OneLog!Next

(* For any number of servers, Raft implements the replicated log: what       *)
(* leaders committed is one sequence that only grows, and every service      *)
(* moves along it, forward by commands and snapshots, back only by a crash.  *)
THEOREM RaftImplementsLog == Spec => ImplementsLog
  <1>1. Init => OneLog!Init
    <2> SUFFICES ASSUME Init PROVE OneLog!Init
      OBVIOUS
    <2>1. committed = {} /\ crashes = 0 /\ service = [i \in Server |-> [lastApplied |-> 0, state |-> << >>]]
      BY DEF Init
    <2>2. DecidedLog = << >>
      <3>1. {0} \cup {e.index : e \in committed} = {0}
        BY <2>1
      <3>2. Max({0}) = 0
        BY DEF Max
      <3>3. DecidedLog = [x \in 1..0 |-> CHOOSE e \in committed : e.index = x]
        BY <3>1, <3>2 DEF DecidedLog
      <3>4. [x \in 1..0 |-> CHOOSE e \in committed : e.index = x] = << >>
        OBVIOUS
      <3> QED
        BY <3>3, <3>4
    <2>3. [i \in Server |-> service[i].state] = [i \in Server |-> << >>]
      BY <2>1
    <2> QED
      BY <2>1, <2>2, <2>3 DEF OneLog!Init
  <1>2. Good /\ DecidedOK /\ DecidedOK' /\ [Next]_vars => [OneLog!Next]_(OneLog!vars)
    <2> SUFFICES ASSUME Good, DecidedOK, DecidedOK', [Next]_vars PROVE [OneLog!Next]_(OneLog!vars)
      OBVIOUS
    <2>1. CASE Untouched
      BY <2>1, Invisible DEF Untouched
    <2>2. ASSUME NEW i \in Server, NEW c \in Command, Start(i, c) PROVE UNCHANGED OneLog!vars
      BY <2>2, Invisible DEF Start, serviceVars, counters
    <2>3. ASSUME NEW m \in appendReqs, AppendEntriesAccept(m) PROVE UNCHANGED OneLog!vars
      BY <2>3, Invisible DEF AppendEntriesAccept, ReplyAppend, serviceVars, counters
    <2> QED
      BY <2>1, <2>2, <2>3, StepKinds, SyncDecides, ApplyExecutes, SnapshotInstalls, CrashRecovers
  <1> QED
    BY <1>1, <1>2, SafetyInvariant, DecidedAlways, PTL DEF Spec, ImplementsLog, OneLog!Spec
=============================================================================
