------------------------------ MODULE Network ------------------------------
(* The simulated network of labrpc.go, and the harness of raft/config.go     *)
(* that crashes and restarts the peers on it.  An instance of a peer cannot  *)
(* really be killed: it may go on calling, handling calls and persisting.    *)
(* The harness of raft-db/config.go adds clerks, whose ends outlive the      *)
(* instances they call, and partitions; its ShutdownServer and StartServer   *)
(* take the steps of crash1 and start1.                                      *)
EXTENDS Naturals

CONSTANTS
    Peer, Clerk,
    Nil,
    MaxInstances,   \* bound: instances of a peer, the first included
    MaxCalls        \* bound: calls in a behaviour

ASSUME NetworkAssumption ==
    /\ MaxInstances \in Nat \ {0} /\ MaxCalls \in Nat
    /\ Peer \cap Clerk = {} /\ Nil \notin Peer \cup Clerk

VARIABLES
    made,           \* how many instances of each peer there were
    rafts,          \* cfg.rafts: the instance the harness knows, 0 for nil
    connected,      \* cfg.connected
    saved,          \* cfg.saved: an instance's persister, or what a copy holds
    harness,        \* where crash1 or start1 is
    disk,           \* the persister that each instance writes to
    enabled,        \* the ends for which rn.enabled is true
    servers,        \* rn.servers: an instance, 0 for nil
    reliable, done, \* rn.reliable; rn.done is closed
    rpc             \* the calls, in the order they were made

cfgVars == <<made, rafts, connected, saved, harness>>
netVars == <<enabled, servers, reliable, done>>
vars == <<cfgVars, disk, netVars, rpc>>

Instance == 1..MaxInstances
RPC == 1..MaxCalls

(* The end of instance k of peer p for calls to peer q.                      *)
End == [peer : Peer, instance : Instance, to : Peer]

(* makeClient: the ends of a clerk, made once and enabled.                   *)
ClerkEnd == [peer : Clerk, instance : {1}, to : Peer]

(* A persister holds what handlers have written: the calls they ran for.     *)
EmptyDisk == [p \in Peer |-> [k \in Instance |-> {}]]

Quiet == [step |-> "idle", peer |-> Nil, start |-> FALSE]

NoCall == [pc |-> "none", end |-> Nil, server |-> 0, reliable |-> TRUE,
           handler |-> "none", killed |-> FALSE]

(* make_config has started and connected everyone.                           *)
Init ==
    /\ made = [p \in Peer |-> 1]
    /\ rafts = [p \in Peer |-> 1]
    /\ connected = [p \in Peer |-> TRUE]
    /\ saved = [p \in Peer |-> [instance |-> 1, data |-> {}]]
    /\ harness = Quiet
    /\ disk = EmptyDisk
    /\ enabled = {e \in End : e.instance = 1} \cup ClerkEnd
    /\ servers = [p \in Peer |-> 1]
    /\ reliable \in BOOLEAN /\ done = FALSE
    /\ rpc = [n \in RPC |-> NoCall]

-----------------------------------------------------------------------------
(* The harness: one goroutine.                                               *)

EndnamesReused(p) == 1..made[p]

(* The instances whose ends cfg.endnames[p] names: start1 makes fresh names. *)
endnames(p) == {made[p]}

(* The ends from and to peer p that the harness has names for.               *)
EndsOf(p) == {e \in End : (e.peer = p \/ e.to = p) /\ e.instance \in endnames(e.peer)}

Enable(ends, on) == enabled' = IF on THEN enabled \cup ends ELSE enabled \ ends

Detach(p) ==
    /\ connected' = [connected EXCEPT ![p] = FALSE]
    /\ Enable(EndsOf(p), FALSE)

disconnect(p) ==
    /\ harness = Quiet /\ connected[p]
    /\ Detach(p)
    /\ UNCHANGED <<made, rafts, saved, harness, disk, servers, reliable, done, rpc>>

connect(p) ==
    /\ harness = Quiet /\ ~connected[p] /\ rafts[p] # 0
    /\ connected' = [connected EXCEPT ![p] = TRUE]
    /\ Enable({e \in EndsOf(p) : connected'[e.peer] /\ connected'[e.to]}, TRUE)
    /\ UNCHANGED <<made, rafts, saved, harness, disk, servers, reliable, done, rpc>>

setunreliable ==
    /\ harness = Quiet
    /\ reliable' = ~reliable
    /\ UNCHANGED <<cfgVars, disk, enabled, servers, done, rpc>>

cleanup ==
    /\ harness = Quiet /\ ~done
    /\ done' = TRUE
    /\ UNCHANGED <<cfgVars, disk, enabled, servers, reliable, rpc>>

(* partition of raft-db: ends are enabled within peers and within the rest,  *)
(* and disabled across; ConnectAll is the case where peers is everyone.      *)
(* Tests partition while every server is up.                                 *)
partition(peers) ==
    LET within == {e \in End : e.peer \in peers <=> e.to \in peers}
        named == {e \in End : e.instance \in endnames(e.peer)}
    IN /\ harness = Quiet /\ \A p \in Peer : rafts[p] # 0
       /\ enabled' = (enabled \ (named \ within)) \cup (named \cap within)
       /\ UNCHANGED <<cfgVars, disk, servers, reliable, done, rpc>>

(* ConnectClient and DisconnectClient.                                       *)
ConnectClient(c, to, on) ==
    /\ harness = Quiet
    /\ Enable({e \in ClerkEnd : e.peer = c /\ e.to \in to}, on)
    /\ UNCHANGED <<cfgVars, disk, servers, reliable, done, rpc>>

(* crash1, which is also the beginning of start1.                            *)
crash1(p, start) ==
    /\ harness = Quiet /\ ~done
    /\ IF start THEN made[p] < MaxInstances ELSE rafts[p] # 0
    /\ Detach(p)
    /\ harness' = [step |-> "disconnected", peer |-> p, start |-> start]
    /\ UNCHANGED <<made, rafts, saved, disk, servers, reliable, done, rpc>>

(* rn.servers gets an instance, or nil.                                      *)
Register(p, k) == servers' = [servers EXCEPT ![p] = k]

At(step, p) == harness.step = step /\ harness.peer = p

DeleteServer(p) ==
    /\ At("disconnected", p)
    /\ harness' = [harness EXCEPT !.step = "deleted"]
    /\ Register(p, 0)
    /\ UNCHANGED <<made, rafts, connected, saved, disk, enabled, reliable, done, rpc>>

(* What ReadRaftState of cfg.saved[p] returns.                               *)
Stored(p) == IF saved[p].instance = 0 THEN saved[p].data ELSE disk[p][saved[p].instance]

(* A copy that no instance writes to takes the place of the persister, and   *)
(* the instance is told to stop.                                             *)
Supersede(p) ==
    /\ At("deleted", p)
    /\ saved' = [saved EXCEPT ![p] = [instance |-> 0, data |-> Stored(p)]]
    /\ rafts' = [rafts EXCEPT ![p] = 0]
    /\ harness' = IF harness.start THEN [harness EXCEPT !.step = "superseded"] ELSE Quiet
    /\ UNCHANGED <<made, connected, disk, netVars, rpc>>

(* Fresh ends, a persister of its own with the same content, and Make.       *)
start1(p) ==
    LET k == made[p] + 1 IN
    /\ At("superseded", p)
    /\ made' = [made EXCEPT ![p] = k]
    /\ disk' = [disk EXCEPT ![p][k] = Stored(p)]
    /\ saved' = [saved EXCEPT ![p] = [instance |-> k, data |-> {}]]
    /\ rafts' = [rafts EXCEPT ![p] = k]
    /\ harness' = [harness EXCEPT !.step = "made"]
    /\ UNCHANGED <<connected, netVars, rpc>>

AddServer(p) ==
    /\ At("made", p)
    /\ Register(p, made[p])
    /\ harness' = Quiet
    /\ UNCHANGED <<made, rafts, connected, saved, disk, enabled, reliable, done, rpc>>

-----------------------------------------------------------------------------
(* ClientEnd.Call and the goroutines of processReq.                          *)

Unused == {n \in RPC : rpc[n].pc = "none"}

Call(e, killed) ==
    /\ Unused # {}
    /\ LET n == CHOOSE n \in Unused : \A m \in Unused : n <= m IN
       rpc' = [rpc EXCEPT ![n] = [NoCall EXCEPT !.pc = "sent", !.end = e, !.killed = killed]]
    /\ UNCHANGED <<cfgVars, disk, netVars>>

(* An instance calls, be it the one the harness knows or one it killed.      *)
PeerCall(e) ==
    /\ e.peer # e.to /\ e.instance <= made[e.peer]
    /\ Call(e, rafts[e.peer] # e.instance)

ClerkCall(e) == Call(e, FALSE)

(* A step of processReq that changes only where the call is.                 *)
Goto(n, from, to) ==
    /\ rpc[n].pc = from
    /\ rpc' = [rpc EXCEPT ![n].pc = to]
    /\ UNCHANGED <<cfgVars, disk, netVars>>

NeverDestroyed(n) == FALSE

(* Nobody receives from endCh any more, and Call sees that done is closed.   *)
Destroyed(n) == done /\ Goto(n, "sent", "false")

(* readEndnameInfo: everything is read once, before the delays.              *)
readEndnameInfo(n) ==
    LET s == servers[rpc[n].end.to] IN
    /\ ~done
    /\ rpc[n].pc = "sent"
    /\ rpc' = [rpc EXCEPT
                 ![n].pc = IF rpc[n].end \in enabled /\ s # 0 THEN "delayed" ELSE "unreachable",
                 ![n].server = s, ![n].reliable = reliable]
    /\ UNCHANGED <<cfgVars, disk, netVars>>

(* No reply, and an eventual timeout.                                        *)
Unreachable(n) == Goto(n, "unreachable", "false")

DropRequest(n) == ~rpc[n].reliable /\ Goto(n, "delayed", "false")

(* A goroutine for Server.dispatch.                                          *)
Dispatch(n) ==
    /\ rpc[n].pc = "delayed"
    /\ rpc' = [rpc EXCEPT ![n].pc = "waiting", ![n].handler = "running"]
    /\ UNCHANGED <<cfgVars, disk, netVars>>

(* Service.dispatch decodes the arguments, runs the handler on the instance  *)
(* that was looked up, whatever has become of it, and encodes the reply.     *)
(* The handler writes to that instance's persister.  The goroutine then      *)
(* waits for somebody to receive from ech.                                   *)
Handle(n) ==
    /\ rpc[n].handler = "running"
    /\ disk' = [disk EXCEPT ![rpc[n].end.to][rpc[n].server] = @ \cup {n}]
    /\ rpc' = [rpc EXCEPT ![n].handler = "returned"]
    /\ UNCHANGED <<cfgVars, netVars>>

Receive(n) ==
    /\ rpc[n].pc = "waiting" /\ rpc[n].handler = "returned"
    /\ rpc' = [rpc EXCEPT ![n].pc = "replying", ![n].handler = "ended"]
    /\ UNCHANGED <<cfgVars, disk, netVars>>

ServerDeleted(n) == rpc[n].end \notin enabled \/ servers[rpc[n].end.to] = 0

(* The end is disabled, or the server is not the one that was looked up.     *)
isServerDead(n) ==
    rpc[n].end \notin enabled \/ servers[rpc[n].end.to] # rpc[n].server

(* The check every 100 ms, which leaves the handler to a goroutine that      *)
(* drains ech.                                                               *)
Abandon(n) ==
    /\ rpc[n].pc = "waiting" /\ isServerDead(n)
    /\ Goto(n, "waiting", "false")

NeverDrained(n) == FALSE

Drain(n) ==
    /\ rpc[n].pc = "false" /\ rpc[n].handler = "returned"
    /\ rpc' = [rpc EXCEPT ![n].handler = "ended"]
    /\ UNCHANGED <<cfgVars, disk, netVars>>

(* The check before the reply is sent.                                       *)
CheckServer(n) == Goto(n, "replying", IF isServerDead(n) THEN "false" ELSE "checked")

DropReply(n) == ~rpc[n].reliable /\ Goto(n, "checked", "false")

(* The reply, which longReordering holds back for up to 2.2 seconds.         *)
Reply(n) == Goto(n, "checked", "true")

processReq(n) ==
    \/ Destroyed(n) \/ readEndnameInfo(n) \/ Unreachable(n) \/ DropRequest(n)
    \/ Dispatch(n) \/ Handle(n) \/ Receive(n) \/ Abandon(n) \/ Drain(n)
    \/ CheckServer(n) \/ DropReply(n) \/ Reply(n)

Next ==
    \/ \E p \in Peer : disconnect(p) \/ connect(p)
    \/ setunreliable \/ cleanup
    \/ \E p \in Peer, start \in BOOLEAN : crash1(p, start)
    \/ \E p \in Peer : DeleteServer(p) \/ Supersede(p) \/ start1(p) \/ AddServer(p)
    \/ \E peers \in SUBSET Peer : partition(peers)
    \/ \E c \in Clerk, to \in SUBSET Peer, on \in BOOLEAN : ConnectClient(c, to, on)
    \/ \E e \in End : PeerCall(e)
    \/ \E e \in ClerkEnd : ClerkCall(e)
    \/ \E n \in RPC : processReq(n)

(* Goroutines are scheduled, sleeps end and handlers return.                 *)
Spec == Init /\ [][Next]_vars /\ \A n \in RPC : WF_vars(processReq(n))
-----------------------------------------------------------------------------
(* A call that returns true has its effect in the persister that the next    *)
(* instance will read, although the handler may have run on an instance that *)
(* was crashed and replaced meanwhile, and a clerk's end stays enabled       *)
(* throughout ("a client gets a positive reply to an Append, but the server  *)
(* persisted the update into the old Persister", processReq, crash1, start1).*)
AckedPersisted ==
    \A n \in RPC : rpc[n].pc = "true" => n \in Stored(rpc[n].end.to)

(* What an instance calls after it was killed reaches no handler, although   *)
(* its goroutines may run on while its successor is connected ("so that old  *)
(* crashed instance's ClientEnds can't send", start1).                       *)
KilledSilent == \A n \in RPC : rpc[n].killed => rpc[n].handler = "none"

(* "Call() is guaranteed to return (perhaps after a delay)", also across     *)
(* crashes, partitions and the end of the network.                           *)
CallReturns == \A n \in RPC : rpc[n].pc = "sent" ~> rpc[n].pc \in {"true", "false"}

(* The goroutine of every handler terminates, also when the call was given   *)
(* up ("drain channel to let the goroutine created earlier terminate",       *)
(* processReq).                                                              *)
HandlersEnd == \A n \in RPC : rpc[n].handler = "running" ~> rpc[n].handler = "ended"
=============================================================================
