--------------------------- MODULE ApplyLoopProofs ---------------------------
(* The apply loop stays behind commitIndex for every bound on the indices.   *)
EXTENDS ApplyLoop, TLAPS

(* NeverAhead with what makes it inductive: a message the service still      *)
(* lacks is the one at lastApplied, so receiving it closes the gap.          *)
AheadInv ==
    /\ commitIndex \in Nat /\ lastApplied \in Nat /\ msg \in Nat /\ applied \in Nat
    /\ NeverAhead
    /\ applied < lastApplied => msg = lastApplied

(* The handlers: they raise commitIndex, and a snapshot brings Raft and the  *)
(* service to the same index while a message may still be on its way.        *)
LEMMA HandlerStep ==
    ASSUME AheadInv, NEW n \in 0..MaxIndex,
           FollowerCommit(n) \/ LeaderSync(n) \/ CondInstallSnapshot(n)
    PROVE AheadInv'
  <1>1. n \in Nat
    BY IndexAssumption
  <1>2. CASE FollowerCommit(n)
    BY <1>1, <1>2 DEF AheadInv, NeverAhead, FollowerCommit, Broadcast
  <1>3. CASE LeaderSync(n)
    BY <1>1, <1>3 DEF AheadInv, NeverAhead, LeaderSync, Broadcast
  <1>4. CASE CondInstallSnapshot(n)
    BY <1>1, <1>4 DEF AheadInv, NeverAhead, CondInstallSnapshot
  <1> QED
    BY <1>2, <1>3, <1>4

(* The goroutine: Take checks again before it moves lastApplied.             *)
LEMMA LoopStep ==
    ASSUME AheadInv, DoApply
    PROVE AheadInv'
  <1>1. CASE Check
    BY <1>1 DEF AheadInv, NeverAhead, Check
  <1>2. CASE Wait
    BY <1>2 DEF AheadInv, NeverAhead, Wait
  <1>3. CASE Wake
    BY <1>3 DEF AheadInv, NeverAhead, Wake
  <1>4. CASE Take
    BY <1>4 DEF AheadInv, NeverAhead, Take, needApply
  <1>5. CASE Send
    BY <1>5 DEF AheadInv, NeverAhead, Send
  <1> QED
    BY <1>1, <1>2, <1>3, <1>4, <1>5 DEF DoApply

(* DoApply never applies an entry that is not committed, and the service     *)
(* misses at most the entry that is being sent to it, in every behaviour.    *)
THEOREM LoopNeverAhead == Spec => []NeverAhead
  <1>1. Init => AheadInv
    BY DEF Init, AheadInv, NeverAhead
  <1>2. AheadInv /\ [Next]_vars => AheadInv'
    <2> SUFFICES ASSUME AheadInv, [Next]_vars PROVE AheadInv'
      OBVIOUS
    <2>1. CASE DoApply
      BY <2>1, LoopStep
    <2>2. CASE \E n \in 0..MaxIndex : FollowerCommit(n) \/ LeaderSync(n) \/ CondInstallSnapshot(n)
      BY <2>2, HandlerStep
    <2>3. CASE Kill
      BY <2>3 DEF AheadInv, NeverAhead, Kill
    <2>4. CASE UNCHANGED vars
      BY <2>4 DEF AheadInv, NeverAhead, vars
    <2> QED
      BY <2>1, <2>2, <2>3, <2>4 DEF Next
  <1>3. AheadInv => NeverAhead
    BY DEF AheadInv
  <1> QED
    BY <1>1, <1>2, <1>3, PTL DEF Spec
=============================================================================
