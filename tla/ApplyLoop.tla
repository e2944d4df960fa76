----------------------------- MODULE ApplyLoop -----------------------------
(* DoApply of raft/raft.go against the handlers that move commitIndex.       *)
(* Module Raft takes an entry from the log in one step; here the goroutine   *)
(* checks, waits on applyCond, is woken, takes and sends in steps of their   *)
(* own, because the broadcasts are made without the lock it holds.           *)
EXTENDS Naturals

CONSTANT MaxIndex   \* bound: commitIndex

ASSUME IndexAssumption == MaxIndex \in Nat

VARIABLES
    commitIndex, lastApplied,   \* the fields of Raft
    dead,       \* rf.dead
    pc,         \* where DoApply is
    msg,        \* the index of the ApplyMsg it sends
    applied     \* lastApplied of the service at the other end of applyCh

vars == <<commitIndex, lastApplied, dead, pc, msg, applied>>

Init ==
    /\ commitIndex = 0 /\ lastApplied = 0 /\ applied = 0 /\ msg = 0
    /\ dead = FALSE
    /\ pc = "check"

needApply == commitIndex > lastApplied

-----------------------------------------------------------------------------
(* Broadcast wakes DoApply only when it is on the condition's list already.  *)
Broadcast == pc' = IF pc = "waiting" THEN "woken" ELSE pc

(* AppendEntries of a follower: a larger LeaderCommit, of which the own tail *)
(* may allow nothing, with a broadcast in any case.                          *)
FollowerCommit(n) ==
    /\ n >= commitIndex
    /\ commitIndex' = n
    /\ Broadcast
    /\ UNCHANGED <<lastApplied, dead, msg, applied>>

(* Sync of a leader: a success with entries, whether it moves commitIndex    *)
(* or not.                                                                   *)
LeaderSync(n) ==
    /\ n >= commitIndex
    /\ commitIndex' = n
    /\ IF n > lastApplied THEN Broadcast ELSE pc' = pc
    /\ UNCHANGED <<lastApplied, dead, msg, applied>>

(* CondInstallSnapshot, called by the service between two messages.          *)
CondInstallSnapshot(n) ==
    /\ n >= commitIndex
    /\ commitIndex' = n
    /\ lastApplied' = n
    /\ applied' = n
    /\ UNCHANGED <<dead, pc, msg>>

(* Kill does not wake anyone.                                                *)
Kill == ~ dead /\ dead' = TRUE /\ UNCHANGED <<commitIndex, lastApplied, pc, msg, applied>>

-----------------------------------------------------------------------------
(* The condition of the inner loop, read under rf.mu and acted on after.     *)
Check ==
    /\ pc = "check"
    /\ pc' = IF needApply THEN "take" ELSE "wait"
    /\ UNCHANGED <<commitIndex, lastApplied, dead, msg, applied>>

(* applyCond.Wait puts the goroutine on the list.                            *)
Wait ==
    /\ pc = "wait"
    /\ pc' = "waiting"
    /\ UNCHANGED <<commitIndex, lastApplied, dead, msg, applied>>

WakeToWait == pc = "woken" /\ pc' = "wait" /\ UNCHANGED <<commitIndex, lastApplied, dead, msg, applied>>

(* Wait returns.                                                             *)
Wake ==
    /\ pc = "woken"
    /\ pc' = IF dead THEN "returned" ELSE "check"
    /\ UNCHANGED <<commitIndex, lastApplied, dead, msg, applied>>

TakeUnchecked ==
    /\ pc = "take"
    /\ lastApplied' = lastApplied + 1 /\ msg' = lastApplied' /\ pc' = "send"
    /\ UNCHANGED <<commitIndex, dead, applied>>

(* Under rf.mu again, with the condition checked again.                      *)
Take ==
    /\ pc = "take"
    /\ IF needApply
       THEN lastApplied' = lastApplied + 1 /\ msg' = lastApplied' /\ pc' = "send"
       ELSE pc' = "check" /\ UNCHANGED <<lastApplied, msg>>
    /\ UNCHANGED <<commitIndex, dead, applied>>

(* The service receives the message and rejects what it has already.         *)
Send ==
    /\ pc = "send"
    /\ pc' = "check"
    /\ applied' = IF msg > applied THEN msg ELSE applied
    /\ UNCHANGED <<commitIndex, lastApplied, dead, msg>>

DoApply == Check \/ Wait \/ Wake \/ Take \/ Send

Next ==
    \/ DoApply
    \/ \E n \in 0..MaxIndex : FollowerCommit(n) \/ LeaderSync(n) \/ CondInstallSnapshot(n)
    \/ Kill

(* A goroutine that can run does, and the service keeps receiving.  Nothing  *)
(* makes a handler commit again: the cluster may be idle from here on.       *)
Spec == Init /\ [][Next]_vars /\ WF_vars(DoApply)

-----------------------------------------------------------------------------
(* Raft never runs ahead of what is committed, although the check that found *)
(* work is out of date when the entry is taken and a snapshot may have done  *)
(* that work in between; and the service lags by at most the message sent.   *)
NeverAhead ==
    /\ lastApplied <= commitIndex
    /\ applied < lastApplied => pc = "send" /\ applied + 1 = lastApplied

(* A broadcast that finds DoApply waiting delivers every entry committed so  *)
(* far, the ones whose own broadcast was lost included.                      *)
WokenApplies ==
    \A n \in 1..MaxIndex : (pc = "woken" /\ commitIndex >= n) ~> (applied >= n \/ dead)

(* Every committed entry reaches the service: "each time a new entry is      *)
(* committed to the log, each Raft peer should send an ApplyMsg to the       *)
(* service" (raft/README.md).                                                *)
AppliedEventually ==
    \A n \in 1..MaxIndex : (commitIndex >= n) ~> (applied >= n \/ dead)
=============================================================================
