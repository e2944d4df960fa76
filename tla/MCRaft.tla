------------------------------ MODULE MCRaft ------------------------------
(* Raft on small instances.  The servers are interchangeable: the code       *)
(* compares their numbers only for equality.                                 *)
EXTENDS RaftRefinement, TLC

(* maxraftstate of a service that never takes a snapshot.                    *)
NoSnapshots == -1

Symmetry == Permutations(Server)

(* Two states that differ only in what no step can read any more count as    *)
(* one: replies whose goroutine returns at its first check, requests whose   *)
(* only effect would be such a reply, the indices kept by servers that       *)
(* do not lead (a new leader rewrites them), and by whom a leader was elected*)
LiveView ==
    <<state, term, votedFor, votes, log, commitIndex, lastApplied, persister,
      [i \in Server |-> IF state[i] = "Leader" THEN <<nextIndex[i], matchIndex[i]>> ELSE << >>],
      pending, snapMsgs, service,
      {m \in voteReqs : m.term >= term[m.to] \/ (state[m.from] = "Candidate" /\ term[m.from] = m.term)},
      {m \in voteReplies : CandidacyRuns(m)},
      {m \in appendReqs : LiveRequest(m)}, {m \in appendReplies : LeadsTerm(m)},
      {m \in snapReqs : LiveRequest(m)}, {m \in snapReplies : LeadsTerm(m)}, counters,
      {<<e.term, e.leader>> : e \in elected}, committed>>
=============================================================================
