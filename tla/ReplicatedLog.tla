--------------------------- MODULE ReplicatedLog ---------------------------
(* What Raft promises to the services above it: one sequence of decided      *)
(* entries that only grows, of which every service has executed a prefix.    *)
(* A service executes the next entry, is moved forward by a snapshot, or     *)
(* starts again from an earlier prefix after a crash.                        *)
EXTENDS Naturals, Sequences, SequencesExt

CONSTANT Server

VARIABLES
    decided,    \* the entries the cluster has agreed on
    executed,   \* the entries each service has executed, in its order
    crashes     \* how many crashes there were

vars == <<decided, executed, crashes>>

Init ==
    /\ decided = << >>
    /\ executed = [i \in Server |-> << >>]
    /\ crashes = 0

(* Raft agrees on one or more further entries.                               *)
Decide ==
    /\ IsStrictPrefix(decided, decided')
    /\ UNCHANGED <<executed, crashes>>

(* Service i holds the first n decided entries, and nothing else changes.    *)
MoveTo(i, n) ==
    /\ executed' = [executed EXCEPT ![i] = SubSeq(decided, 1, n)]
    /\ UNCHANGED decided

(* An ApplyMsg with a command.                                               *)
Execute(i) ==
    /\ Len(executed[i]) < Len(decided)
    /\ MoveTo(i, Len(executed[i]) + 1)
    /\ UNCHANGED crashes

(* An ApplyMsg with a snapshot: never back.                                  *)
Install(i) ==
    /\ \E n \in Len(executed[i])..Len(decided) : MoveTo(i, n)
    /\ UNCHANGED crashes

(* A crash, and a restart from the last snapshot: the only way back.         *)
Recover(i) ==
    /\ \E n \in 0..Len(executed[i]) : MoveTo(i, n)
    /\ crashes' = crashes + 1

Next == Decide \/ \E i \in Server : Execute(i) \/ Install(i) \/ Recover(i)

Spec == Init /\ [][Next]_vars
=============================================================================
