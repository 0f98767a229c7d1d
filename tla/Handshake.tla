------------------------------ MODULE Handshake ------------------------------
(***************************************************************************)
(* Injector composed with what surrounds it: the endpoint rotation and the *)
(* connect loop of main.py, the local TCP stack, the divert driver and the *)
(* upstream servers.  Packets now have causes: a SYN leaves because a      *)
(* socket is dialled, a SYN-ACK answers a SYN that was let through, and    *)
(* connect() returns only after a SYN-ACK reached the local stack.  Every  *)
(* step is a step of Injector; only the environment is less free.          *)
(***************************************************************************)
EXTENDS Injector, Sequences

CONSTANT ENDPOINTS   \* the configured endpoints, in order

ASSUME EndpointsAssumption ==
  /\ ENDPOINTS \in Seq(Ep) /\ Len(ENDPOINTS) > 0
  /\ Ep = {ENDPOINTS[i] : i \in 1 .. Len(ENDPOINTS)}

VARIABLES
  cycle,   \* _endpoint_cycle: where the next connection's rotation starts
  start,   \* where this connection's rotation started
  dial,    \* endpoints of its rotation that connect() has given up on
  tcp,     \* the local stack's view of the outgoing socket
  wire,    \* packets the driver may hand over; they stay, so they may come again
  held     \* the packet a closing handler still has to reinject

envVars == <<cycle, start, dial, tcp, wire, held>>
hvars == <<vars, envVars>>

TcpStates == {"idle", "syn_sent", "established", "refused", "late"}

HInit ==
  /\ Init
  /\ cycle = 0
  /\ start = [c \in Conn |-> 0] /\ dial = [c \in Conn |-> 0]
  /\ tcp = [c \in Conn |-> "idle"]
  /\ wire = {} /\ held = None

N == Len(ENDPOINTS)

\* pick_endpoints(): the rotation that starts at s.
Ordered(s) == [i \in 1 .. N |-> ENDPOINTS[((s + i - 1) % N) + 1]]
Dialled(c) == Ordered(start[c])[dial[c] + 1]

Pkt(dir, key, flags, seq, ack) ==
  [dir |-> dir, key |-> key, flags |-> flags, seq |-> seq, ack |-> ack]

Rst(key) == Pkt("in", key, "other", 0, 0)

-----------------------------------------------------------------------------
(* The network behind the driver. *)

\* A SYN reaches a server: it answers or refuses.
DeliverSyn(p) ==
  /\ p.dir = "out" /\ p.flags = "syn"
  /\ \/ wire' = wire \cup {Rst(p.key)}
     \/ \E isn \in Seq32 :
          wire' = wire \cup {Pkt("in", p.key, "synack", isn, Next1(p.seq))}
  /\ UNCHANGED tcp

\* The socket the local stack has for the key of an inbound packet.
Receiver(c, p) ==
  /\ p.dir = "in" /\ sock_open[c] /\ pc[c] = "connecting"
  /\ id[c][1] = p.key[1]
  /\ dial[c] < N /\ Dialled(c) = p.key[2]
  /\ tcp[c] = "syn_sent"

\* A SYN-ACK reaches the local stack: connected, and the ACK goes out.
DeliverSynAck(p) == \E c \in Conn :
  /\ Receiver(c, p) /\ p.flags = "synack"
  /\ tcp' = [tcp EXCEPT ![c] = "established"]
  /\ wire' = wire \cup {Pkt("out", p.key, "ack", p.ack, Next1(p.seq))}

DeliverRst(p) == \E c \in Conn :
  /\ Receiver(c, p) /\ p.flags = "other"
  /\ tcp' = [tcp EXCEPT ![c] = "refused"]
  /\ UNCHANGED wire

\* A packet let through arrives, or is lost or ignored.
Deliver(p) ==
  \/ DeliverSyn(p) \/ DeliverSynAck(p) \/ DeliverRst(p)
  \/ UNCHANGED <<tcp, wire>>

-----------------------------------------------------------------------------
(* handle(): endpoint rotation and try_connect(). *)

HAccept(c) ==
  /\ \E port \in Port, m \in Methods : Accept(c, port, ENDPOINTS[cycle + 1], m)
  /\ start' = [start EXCEPT ![c] = cycle]
  /\ cycle' = (cycle + 1) % N
  /\ UNCHANGED <<dial, tcp, wire, held>>

\* sock_connect() to the next endpoint sends a SYN.
Dial(c) ==
  /\ pc[c] = "connecting" /\ LoopFree(c) /\ sock_open[c]
  /\ dial[c] < N /\ tcp[c] = "idle"
  /\ tcp' = [tcp EXCEPT ![c] = "syn_sent"]
  /\ \E isn \in Seq32 :
       wire' = wire \cup {Pkt("out", <<id[c][1], Dialled(c)>>, "syn", isn, 0)}
  /\ UNCHANGED <<vars, cycle, start, dial, held>>

\* It fails, at once or after 5 s; a connection that came about at that very
\* moment stays, and the socket cannot be dialled again.
DialFails(c) ==
  /\ pc[c] = "connecting" /\ LoopFree(c)
  /\ dial[c] < N
  /\ tcp[c] # "idle" \/ ~sock_open[c]
  /\ dial' = [dial EXCEPT ![c] = @ + 1]
  /\ tcp' = [tcp EXCEPT ![c] = IF @ \in {"established", "late"} THEN "late" ELSE "idle"]
  /\ UNCHANGED <<vars, cycle, start, wire, held>>

HConnected(c) ==
  /\ dial[c] < N /\ tcp[c] = "established" /\ sock_open[c]
  /\ IF id[c][2] = Dialled(c) THEN ConnectFirst(c) ELSE ConnectOther(c, Dialled(c))
  /\ UNCHANGED envVars

HConnectFails(c) ==
  /\ dial[c] = N
  /\ ConnectFails(c)
  /\ UNCHANGED envVars

HHandle(c) ==
  /\ \/ Rekey(c) \/ Woken(c) \/ Timeout(c) \/ HandshakeFailed(c)
     \/ NoteFail(c) \/ NoteFinishFailed(c) \/ NoteIncrement(c) \/ HandshakeOk(c)
     \/ RelayCloses(c) \/ RelayEnds(c) \/ Exit(c)
  /\ UNCHANGED envVars

\* Shutdown cancels handle(); the reaper passes.
HDisturb(c) == (Cancel(c) \/ Reap(c)) /\ UNCHANGED envVars

-----------------------------------------------------------------------------
(* The injector on real traffic. *)

HRecv(p) == Recv(p) /\ UNCHANGED envVars

\* inject() finds no connection under the key and lets the packet through.
ForwardUntracked(p) ==
  /\ injpc = "recv" /\ connections[p.key] = None
  /\ Deliver(p)
  /\ UNCHANGED <<vars, cycle, start, dial, held>>

\* A handler reinjects its packet before its first other effect, a closing
\* handler after its last one, and the acknowledged fake data never.
HInject(c) ==
  /\ InjectorStep(c)
  /\ \/ injpc = "lock" /\ injpc' \in {"recv", "count"} /\ Deliver(injpkt) /\ UNCHANGED held
     \/ injpc = "lock" /\ injpc' = "close" /\ held' = injpkt /\ UNCHANGED <<tcp, wire>>
     \/ injpc = "closesig" /\ Deliver(held) /\ held' = None
     \/ (injpc = "lock" => injpc' = "succ") /\ injpc # "closesig" /\ UNCHANGED <<tcp, wire, held>>
  /\ UNCHANGED <<cycle, start, dial>>

\* A fake segment goes out: the server acknowledges what it already has, a box
\* on the way resets the connection, or nothing comes back.
HSend(c) ==
  /\ SendSegment(c)
  /\ wire' \in {wire, wire \cup {Rst(id[c])},
                wire \cup {Pkt("in", id[c], "ack", Next1(syn_ack_seq[c]), Next1(syn_seq[c]))}}
  /\ UNCHANGED <<cycle, start, dial, tcp, held>>

HSender(c) ==
  /\ \/ StartSend(c) \/ RetrySend(c) \/ SendFails(c) \/ Recheck(c)
     \/ SndClose(c) \/ SndEvict(c) \/ SndCountFailed(c) \/ SndSignalClose(c)
  /\ UNCHANGED envVars

HNext ==
  \/ \E p \in wire : HRecv(p) \/ ForwardUntracked(p)
  \/ \E c \in Conn :
       \/ HAccept(c) \/ Dial(c) \/ DialFails(c) \/ HConnected(c) \/ HConnectFails(c)
       \/ HHandle(c) \/ HDisturb(c) \/ HInject(c) \/ HSend(c) \/ HSender(c)

HSpec == HInit /\ [][HNext]_hvars

(***************************************************************************)
(* Fairness.  Threads are preempted but keep being scheduled, so a step of *)
(* the injector or of a job that stays possible is taken; the loop runs    *)
(* its ready coroutines in turn, so handle() gets its turn between the     *)
(* other coroutines' steps; connect() and the wait have timeouts.  Nothing *)
(* makes a client or a packet arrive, and nothing ends a relay: its remote *)
(* ends may go on for ever, or never read what is sent to them.            *)
(***************************************************************************)
HFairness == \A c \in Conn :
  /\ WF_hvars(HInject(c)) /\ WF_hvars(HSend(c) \/ HSender(c))
  /\ SF_hvars(\/ HHandle(c) /\ pc[c] # "relay"
              \/ Dial(c) \/ DialFails(c) \/ HConnected(c) \/ HConnectFails(c))

HFairSpec == HSpec /\ HFairness

-----------------------------------------------------------------------------
(* Correctness. *)

\* Type invariant of the environment.
HTypeOK ==
  /\ cycle \in 0 .. N - 1
  /\ start \in [Conn -> 0 .. N - 1] /\ dial \in [Conn -> 0 .. N]
  /\ tcp \in [Conn -> TcpStates]
  /\ wire \subseteq Packet /\ held \in Packet \cup {None}

\* No other connection object has had the source port of c: an object keeps its
\* port for good, so none has used it before c did.
PortUnique(c) == \A d \in Conn \ {c} : pc[d] # "new" => id[d][1] # id[c][1]

\* When connect() has returned at the first endpoint of the rotation, the
\* observer has seen the SYN and the SYN-ACK of the connection handle() now
\* waits for, so the wait can end well: the entry is registered before the
\* socket is dialled (main.py:772-776) and the port is not a reused one.
Observed(c) == syn_seq[c] # -1 /\ syn_ack_seq[c] # -1
FirstEndpointObserved ==
  \A c \in Conn : pc[c] = "waiting" /\ monitor[c] /\ PortUnique(c) /\ dial[c] = 0 => Observed(c)

\* The same of every endpoint connect() returns, which is what re-keying "to
\* the real endpoint so WinDivert filter matches" (main.py:792) is for.
WaitingIsObserved ==
  \A c \in Conn : pc[c] = "waiting" /\ monitor[c] /\ PortUnique(c) => Observed(c)

-----------------------------------------------------------------------------
(* The inductive invariant behind FirstEndpointObserved, on top of IInv.   *)

Closing == {"close", "evict", "closefin", "closesig"}

\* Every packet is of a source port some connection has, and the one a handler
\* has in hands is of the port of its connection.
WireInv ==
  /\ \A p \in wire : \E d \in Conn : pc[d] # "new" /\ id[d][1] = p.key[1]
  /\ injpc = "lock" => injpkt.key[1] = id[injc][1]
  /\ injpc \in Closing => held \in Packet /\ held.key[1] = id[injc][1]

\* The first endpoint that is dialled is the one of the key, and re-keying is for
\* a later one.
DialInv == \A c \in Conn :
  /\ pc[c] = "new" => tcp[c] = "idle"
  /\ pc[c] # "new" /\ dial[c] = 0 => id[c][2] = Dialled(c)
  /\ pc[c] = "rekey" => dial[c] # 0

\* Until it has a verdict or a second endpoint, a connection on a port of its own
\* stays in the dict, so that nothing reaches its socket unobserved.
Tracked(c) ==
  pc[c] \in {"connecting", "waiting"} /\ monitor[c] /\ PortUnique(c) /\ dial[c] = 0
TrackedInv == \A c \in Conn : Tracked(c) =>
  /\ connections[id[c]] = c
  /\ tcp[c] = "established" \/ pc[c] = "waiting" => Observed(c)

HInv == HTypeOK /\ WireInv /\ DialInv /\ TrackedInv
=============================================================================
