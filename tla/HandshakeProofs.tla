--------------------------- MODULE HandshakeProofs ---------------------------
(***************************************************************************)
(* Proofs about Handshake: it is Injector with a less free environment, so *)
(* every safety theorem about Injector holds of it, and the handshake with *)
(* the first endpoint is observed, for any number of connections, ports    *)
(* and endpoints.                                                          *)
(***************************************************************************)
EXTENDS Handshake, InjectorProofs

LEMMA NPositive == N \in Nat /\ N > 0
  BY EndpointsAssumption DEF N

LEMMA ModRange == ASSUME NEW a \in Nat PROVE a % N \in 0 .. N - 1
  BY NPositive

\* The places of a rotation hold endpoints.
LEMMA OrderedType ==
  ASSUME NEW s \in 0 .. N - 1, NEW i \in 1 .. N
  PROVE  Ordered(s)[i] \in Ep
  <1>1. s + i - 1 \in Nat
    BY NPositive
  <1>2. ((s + i - 1) % N) + 1 \in 1 .. Len(ENDPOINTS)
    BY <1>1, ModRange, NPositive DEF N
  <1>3. QED
    BY <1>2, EndpointsAssumption DEF Ordered

LEMMA FirstOfRotation ==
  ASSUME NEW s \in 0 .. N - 1
  PROVE  Ordered(s)[1] = ENDPOINTS[s + 1] /\ ENDPOINTS[s + 1] \in Ep
  <1>1. s % N = s
    BY NPositive
  <1>2. Ordered(s)[1] = ENDPOINTS[((s + 1 - 1) % N) + 1]
    BY NPositive DEF Ordered
  <1>3. Ordered(s)[1] = ENDPOINTS[s + 1]
    BY <1>1, <1>2
  <1>4. QED
    BY <1>3, OrderedType, NPositive

LEMMA Next1Type == ASSUME NEW s \in Seq32 \cup {-1} PROVE Next1(s) \in Seq32
  BY ConstantAssumption DEF Seq32, Next1

-----------------------------------------------------------------------------
(***************************************************************************)
(* Every step is a step of Injector.                                       *)
(***************************************************************************)
LEMMA Simulation ==
  ASSUME HTypeOK, [HNext]_hvars
  PROVE  [Next]_vars
  <1>1. CASE \E p \in wire : HRecv(p)
    BY <1>1 DEF HTypeOK, HRecv, Next
  <1>2. CASE \E p \in wire : ForwardUntracked(p)
    BY <1>2 DEF ForwardUntracked
  <1>3. ASSUME NEW c \in Conn, HAccept(c) PROVE Next
    <2>1. cycle \in 0 .. N - 1
      BY DEF HTypeOK
    <2>2. ENDPOINTS[cycle + 1] \in Ep
      BY <2>1, FirstOfRotation
    <2>3. QED
      BY <1>3, <2>2 DEF HAccept, Next
  <1>4. ASSUME NEW c \in Conn, Dial(c) \/ DialFails(c) PROVE UNCHANGED vars
    BY <1>4 DEF Dial, DialFails
  <1>5. ASSUME NEW c \in Conn, HConnected(c) PROVE Next
    <2>1. dial[c] + 1 \in 1 .. N /\ start[c] \in 0 .. N - 1
      BY <1>5, NPositive DEF HConnected, HTypeOK
    <2>2. Dialled(c) \in Ep
      BY <2>1, OrderedType DEF Dialled
    <2>3. ConnectFirst(c) \/ ConnectOther(c, Dialled(c))
      BY <1>5 DEF HConnected
    <2>4. QED
      BY <2>2, <2>3 DEF Next, HandleStep, ConnectEnds
  <1>6. ASSUME NEW c \in Conn, HConnectFails(c) \/ HHandle(c) \/ HDisturb(c) PROVE Next
    BY <1>6 DEF HConnectFails, HHandle, HDisturb, Next, HandleStep, ConnectEnds
  <1>7. ASSUME NEW c \in Conn, HInject(c) PROVE Next
    BY <1>7 DEF HInject, Next
  <1>8. ASSUME NEW c \in Conn, HSend(c) \/ HSender(c) PROVE Next
    BY <1>8 DEF HSend, HSender, SenderStep, Next
  <1>9. CASE UNCHANGED hvars
    BY <1>9 DEF hvars
  <1>10. QED
    BY <1>1, <1>2, <1>3, <1>4, <1>5, <1>6, <1>7, <1>8, <1>9 DEF HNext

-----------------------------------------------------------------------------
(***************************************************************************)
(* Frames, on top of those of InjectorProofs.                              *)
(***************************************************************************)

\* How the injector goes from step to step on connection d.
Moves(d) ==
  /\ injpc' \in Closing =>
       (injpc = "lock" /\ injpc' = "close") \/ injpc \in Closing \ {"closesig"}
  /\ connections' # connections => injpc \in {"signal", "evict"}
  /\ injpc = "lock" /\ monitor[d] /\ injpc' \in {"recv", "count"} /\ injpkt.flags = "synack"
       => syn_seq'[d] # -1 /\ syn_ack_seq'[d] # -1
  /\ Observed(d) => syn_seq'[d] # -1 /\ syn_ack_seq'[d] # -1

LEMMA InjectorMoves ==
  ASSUME TypeOK, NEW d \in Conn, InjectorStep(d)
  PROVE  Moves(d)
  <1> USE DEF InjGoto, InjReturn, Reinject, Release, HandleGoto, DropConn, Pop, CloseSockets,
          Entered, Monitored, connVars, obsVars, injVars, sndVars, statVars
  <1> USE ConstantAssumption DEF Moves, Closing, Observed, TypeOK, Packet, Seq32
  <1>1. CASE ForwardUnmonitored(d)
    BY <1>1 DEF ForwardUnmonitored
  <1>2. CASE ObserveSyn(d)
    BY <1>2 DEF ObserveSyn, IsSyn
  <1>3. CASE ObserveSynAck(d)
    BY <1>3 DEF ObserveSynAck, IsSynAck
  <1>4. CASE ObserveHandshakeAck(d)
    BY <1>4 DEF ObserveHandshakeAck, IsHandshakeAck
  <1>5. CASE CountActive(d)
    BY <1>5 DEF CountActive
  <1>6. CASE Submit(d)
    BY <1>6 DEF Submit
  <1>7. CASE ObserveFakeAck(d)
    BY <1>7 DEF ObserveFakeAck, IsFakeAck
  <1>8. CASE ReadCountedOnSuccess(d)
    BY <1>8 DEF ReadCountedOnSuccess
  <1>9. CASE CountSuccess(d)
    BY <1>9 DEF CountSuccess
  <1>10. CASE SignalSuccess(d)
    BY <1>10 DEF SignalSuccess
  <1>11. CASE Unexpected(d)
    BY <1>11 DEF Unexpected
  <1>12. CASE InjClose(d)
    BY <1>12 DEF InjClose
  <1>13. CASE InjEvict(d)
    BY <1>13 DEF InjEvict
  <1>14. CASE InjCountFailed(d)
    BY <1>14 DEF InjCountFailed
  <1>15. CASE InjSignalClose(d)
    BY <1>15 DEF InjSignalClose
  <1> QED
    BY <1>1, <1>2, <1>3, <1>4, <1>5, <1>6, <1>7, <1>8, <1>9, <1>10, <1>11, <1>12, <1>13, <1>14, <1>15 DEF InjectorStep

\* What handle() of d does to the others and to the dict.
HandleLocal(d) ==
  /\ \A c \in Conn \ {d} : pc'[c] = pc[c] /\ id'[c] = id[c]
  /\ pc[d] # "new" => id'[d][1] = id[d][1]
  /\ \/ connections' \in {connections, Pop(id[d])}
     \/ pc[d] = "rekey" /\ connections' = [connections EXCEPT ![id[d]] = d]
  /\ pc'[d] \in {"connecting", "waiting"} => pc[d] \in {"connecting", "waiting", "rekey"}

LEMMA HandlesLocal ==
  ASSUME TypeOK, NEW d \in Conn, HandleStep(d) \/ Cancel(d)
  PROVE  HandleLocal(d)
  <1> USE DEF InjGoto, InjReturn, Reinject, Release, HandleGoto, DropConn, Pop, CloseSockets,
          Entered, Monitored, connVars, obsVars, injVars, sndVars, statVars
  <1> USE DEF HandleLocal, TypeOK, Key
  <1>1. CASE ConnectFirst(d)
    BY <1>1 DEF ConnectFirst
  <1>2. CASE ConnectFails(d)
    BY <1>2 DEF ConnectFails
  <1>3. CASE Rekey(d)
    BY <1>3 DEF Rekey
  <1>4. CASE Woken(d)
    BY <1>4 DEF Woken
  <1>5. CASE Timeout(d)
    BY <1>5 DEF Timeout
  <1>6. CASE HandshakeFailed(d)
    BY <1>6 DEF HandshakeFailed
  <1>7. CASE NoteFail(d)
    BY <1>7 DEF NoteFail
  <1>8. CASE NoteFinishFailed(d)
    BY <1>8 DEF NoteFinishFailed
  <1>9. CASE NoteIncrement(d)
    BY <1>9 DEF NoteIncrement
  <1>10. CASE HandshakeOk(d)
    BY <1>10 DEF HandshakeOk
  <1>11. CASE RelayCloses(d)
    BY <1>11 DEF RelayCloses
  <1>12. CASE RelayEnds(d)
    BY <1>12 DEF RelayEnds
  <1>13. CASE Exit(d)
    BY <1>13 DEF Exit
  <1>14. CASE Cancel(d)
    BY <1>14 DEF Cancel
  <1>15. CASE \E ep \in Ep : ConnectOther(d, ep)
    BY <1>15 DEF ConnectOther
  <1> QED
    BY <1>1, <1>2, <1>3, <1>4, <1>5, <1>6, <1>7, <1>8, <1>9, <1>10, <1>11, <1>12, <1>13, <1>14, <1>15 DEF HandleStep, ConnectEnds

\* Seen from a connection c, any step keeps its port, does not start to monitor it
\* again and forgets nothing the observer has seen.
Onward(c) ==
  /\ pc[c] # "new" => pc'[c] # "new" /\ id'[c][1] = id[c][1]
  /\ monitor'[c] => monitor[c]
  /\ Observed(c) => Observed(c)'

LEMMA StepsOnward ==
  ASSUME TypeOK, [Next]_vars, NEW c \in Conn
  PROVE  Onward(c)
  <1> USE DEF Onward, Observed, connVars, obsVars, injVars, sndVars, statVars
  <1>1. ASSUME NEW p \in Packet, Recv(p) PROVE Onward(c)
    BY <1>1 DEF Recv
  <1>2. ASSUME NEW d \in Conn, InjectorStep(d) PROVE Onward(c)
    <2>1. InjectorFrame(d)
      BY <1>2, InjectorFrames
    <2>2. Moves(d)
      BY <1>2, InjectorMoves
    <2>3. QED
      BY <2>1, <2>2 DEF InjectorFrame, Moves
  <1>3. ASSUME NEW d \in Conn, SenderStep(d) PROVE Onward(c)
    BY <1>3, SenderFrames DEF SenderFrame
  <1>4. ASSUME NEW d \in Conn, HandleStep(d) \/ Cancel(d) PROVE Onward(c)
    BY <1>4, HandleFrames, HandlesLocal DEF HandleFrame, HandleLocal
  <1>5. ASSUME NEW d \in Conn, Reap(d) PROVE Onward(c)
    BY <1>5 DEF Reap
  <1>6. ASSUME NEW d \in Conn, NEW port \in Port, NEW first \in Ep, NEW m \in Methods,
               Accept(d, port, first, m)
        PROVE  Onward(c)
    BY <1>6, TypeOK DEF Accept, HandleGoto, TypeOK
  <1>7. CASE UNCHANGED vars
    BY <1>7 DEF vars
  <1>8. QED
    BY <1>1, <1>2, <1>3, <1>4, <1>5, <1>6, <1>7 DEF Next

-----------------------------------------------------------------------------
(***************************************************************************)
(* Type invariant and packets.                                             *)
(***************************************************************************)

\* A packet of a port some connection has.
Owned(p) == p \in Packet /\ \E d \in Conn : pc[d] # "new" /\ id[d][1] = p.key[1]

\* What Deliver adds to the wire is of the same port; it connects or refuses a
\* socket that was dialled.
LEMMA Delivered ==
  ASSUME TypeOK, HTypeOK, NEW p, Owned(p), Deliver(p)
  PROVE  /\ \A q \in wire' \ wire : q \in Packet /\ q.key = p.key
         /\ tcp' \in [Conn -> TcpStates]
         /\ \A c \in Conn : tcp'[c] # tcp[c] =>
              /\ pc[c] = "connecting" /\ p.dir = "in" /\ tcp[c] = "syn_sent"
              /\ id[c][1] = p.key[1] /\ Dialled(c) = p.key[2]
              /\ tcp'[c] = "established" => p.flags = "synack"
  <1> USE DEF Owned, HTypeOK, TcpStates
  <1>1. CASE DeliverSyn(p)
    <2>1. Rst(p.key) \in Packet /\ Rst(p.key).key = p.key
      BY ConstantAssumption DEF Rst, Pkt, Packet, Flags, Seq32
    <2>2. ASSUME NEW isn \in Seq32
          PROVE  /\ Pkt("in", p.key, "synack", isn, Next1(p.seq)) \in Packet
                 /\ Pkt("in", p.key, "synack", isn, Next1(p.seq)).key = p.key
      BY Next1Type DEF Pkt, Packet, Flags
    <2>3. QED
      BY <1>1, <2>1, <2>2 DEF DeliverSyn
  <1>2. CASE DeliverSynAck(p)
    <2>1. /\ Pkt("out", p.key, "ack", p.ack, Next1(p.seq)) \in Packet
          /\ Pkt("out", p.key, "ack", p.ack, Next1(p.seq)).key = p.key
      BY Next1Type DEF Pkt, Packet, Flags
    <2>2. QED
      BY <1>2, <2>1 DEF DeliverSynAck, Receiver
  <1>3. CASE DeliverRst(p)
    BY <1>3 DEF DeliverRst, Receiver
  <1>4. QED
    BY <1>1, <1>2, <1>3 DEF Deliver

\* The packet of a handler, and the one it has kept, are of a port in use.
LEMMA HandlersPacketsOwned ==
  ASSUME IInv, WireInv
  PROVE  /\ \A p \in wire : p \in Packet => Owned(p)
         /\ injpc = "lock" => Owned(injpkt)
         /\ injpc \in Closing => Owned(held)
  BY DEF IInv, TypeOK, InjectorInv, WireInv, Owned, Closing

\* What HInject does with packets.
LEMMA InjectCases ==
  ASSUME IInv, HTypeOK, WireInv, NEW c \in Conn, HInject(c)
  PROVE  \/ \E p : /\ Owned(p) /\ Deliver(p) /\ p.key[1] = id[c][1]
                   /\ \/ injpc = "lock" /\ p = injpkt /\ injpc' \in {"recv", "count"}
                         /\ held' = held
                      \/ injpc = "closesig" /\ held' = None
         \/ tcp' = tcp /\ wire' = wire /\ injpc = "lock" /\ injpc' = "close" /\ held' = injpkt
         \/ tcp' = tcp /\ wire' = wire /\ held' = held /\ injpc # "closesig"
            /\ (injpc = "lock" => injpc' = "succ")
  <1>1. injc = c /\ injpc # "recv"
    BY InjectorFrames DEF HInject, IInv, InjectorFrame
  <1>2. CASE injpc = "lock" /\ injpc' \in {"recv", "count"} /\ Deliver(injpkt) /\ UNCHANGED held
    BY <1>1, <1>2, HandlersPacketsOwned DEF WireInv
  <1>3. CASE injpc = "closesig" /\ Deliver(held) /\ held' = None
    BY <1>1, <1>3, HandlersPacketsOwned DEF WireInv, Closing
  <1>4. QED
    BY <1>2, <1>3 DEF HInject

LEMMA HTypeInit == HInit => HTypeOK
  BY NPositive DEF HInit, HTypeOK, TcpStates

LEMMA HTypeNext ==
  ASSUME IInv, HTypeOK, WireInv, [HNext]_hvars
  PROVE  HTypeOK'
  <1> USE DEF HTypeOK, TcpStates
  <1>1. ASSUME NEW p \in wire, HRecv(p) PROVE HTypeOK'
    BY <1>1 DEF HRecv, envVars
  <1>2. ASSUME NEW p \in wire, ForwardUntracked(p) PROVE HTypeOK'
    <2>1. Owned(p)
      BY HandlersPacketsOwned
    <2>2. wire' \subseteq Packet /\ tcp' \in [Conn -> TcpStates]
      BY <1>2, <2>1, Delivered DEF ForwardUntracked, IInv
    <2>3. QED
      BY <1>2, <2>2 DEF ForwardUntracked
  <1>3. ASSUME NEW c \in Conn, HAccept(c) PROVE HTypeOK'
    <2>1. (cycle + 1) % N \in 0 .. N - 1
      BY ModRange, NPositive
    <2>2. QED
      BY <1>3, <2>1 DEF HAccept
  <1>4. ASSUME NEW c \in Conn, Dial(c) PROVE HTypeOK'
    <2>1. id[c] \in Key /\ start[c] \in 0 .. N - 1 /\ dial[c] + 1 \in 1 .. N
      BY <1>4, NPositive DEF Dial, IInv, TypeOK
    <2>2. Dialled(c) \in Ep
      BY <2>1, OrderedType DEF Dialled
    <2>3. ASSUME NEW isn \in Seq32
          PROVE  Pkt("out", <<id[c][1], Dialled(c)>>, "syn", isn, 0) \in Packet
      BY <2>1, <2>2, ConstantAssumption DEF Pkt, Packet, Flags, Key, Seq32
    <2>4. QED
      BY <1>4, <2>3 DEF Dial
  <1>5. ASSUME NEW c \in Conn, DialFails(c) PROVE HTypeOK'
    <2>1. dial[c] + 1 \in 0 .. N
      BY <1>5, NPositive DEF DialFails
    <2>2. QED
      BY <1>5, <2>1 DEF DialFails
  <1>6. ASSUME NEW c \in Conn, HConnected(c) \/ HConnectFails(c) \/ HHandle(c)
                               \/ HDisturb(c) \/ HSender(c)
        PROVE  HTypeOK'
    BY <1>6 DEF HConnected, HConnectFails, HHandle, HDisturb, HSender, envVars
  <1>7. ASSUME NEW c \in Conn, HInject(c) PROVE HTypeOK'
    <2>1. CASE tcp' = tcp /\ wire' = wire
      <3>1. held' \in Packet \cup {None}
        BY <1>7, <2>1, InjectCases DEF IInv, TypeOK, Owned
      <3>2. QED
        BY <1>7, <2>1, <3>1 DEF HInject
    <2>2. ASSUME NEW p, Owned(p), Deliver(p), held' \in {held, None} PROVE HTypeOK'
      <3>1. wire' \subseteq Packet /\ tcp' \in [Conn -> TcpStates]
        BY <2>2, Delivered DEF IInv
      <3>2. QED
        BY <1>7, <2>2, <3>1 DEF HInject
    <2>3. QED
      BY <1>7, <2>1, <2>2, InjectCases
  <1>8. ASSUME NEW c \in Conn, HSend(c) PROVE HTypeOK'
    <2>1. id[c] \in Key
      BY <1>8 DEF HSend, SendSegment, IInv, TypeOK, SenderInv, ObserverInv
    <2>2. Rst(id[c]) \in Packet
      BY <2>1, ConstantAssumption DEF Rst, Pkt, Packet, Flags, Seq32
    <2>3. Pkt("in", id[c], "ack", Next1(syn_ack_seq[c]), Next1(syn_seq[c])) \in Packet
      BY <2>1, Next1Type DEF Pkt, Packet, Flags, IInv, TypeOK
    <2>4. QED
      BY <1>8, <2>2, <2>3 DEF HSend
  <1>9. CASE UNCHANGED hvars
    BY <1>9 DEF hvars, envVars
  <1>10. QED
    BY <1>1, <1>2, <1>3, <1>4, <1>5, <1>6, <1>7, <1>8, <1>9 DEF HNext

LEMMA WireNext ==
  ASSUME IInv, HTypeOK, WireInv, [HNext]_hvars
  PROVE  WireInv'
  <1> DEFINE InUse(k) == \E d \in Conn : pc'[d] # "new" /\ id'[d][1] = k
  <1>1. [Next]_vars /\ TypeOK
    BY Simulation DEF IInv
  <1>2. \A c \in Conn : Onward(c)
    BY <1>1, StepsOnward
  <1>3. \A p \in wire : InUse(p.key[1])
    BY <1>2 DEF WireInv, Onward
  <1>4. \A p : Owned(p) => InUse(p.key[1])
    BY <1>2 DEF Owned, Onward
  <1>5. ASSUME NEW p, Owned(p), Deliver(p) PROVE \A q \in wire' : InUse(q.key[1])
    BY <1>1, <1>3, <1>4, <1>5, Delivered
  <1>6. injpc # "recv" => injc \in Conn /\ pc[injc] # "new"
    BY DEF IInv, TypeOK, InjectorInv
  <1>7. ASSUME injVars' = injVars, held' = held
        PROVE  /\ (injpc = "lock" => injpkt.key[1] = id[injc][1])'
               /\ (injpc \in Closing => held \in Packet /\ held.key[1] = id[injc][1])'
    BY <1>2, <1>6, <1>7 DEF WireInv, Onward, injVars, Closing
  <1>8. ASSUME NEW p \in wire, HRecv(p) PROVE WireInv'
    <2>1. p \in Packet
      BY DEF HTypeOK
    <2>2. id'[injc'][1] = injpkt'.key[1] /\ injpc' = "lock"
      BY <1>8, <2>1 DEF HRecv, Recv, IInv, DictInv, TypeOK, Packet, connVars
    <2>3. wire' = wire
      BY <1>8 DEF HRecv, envVars
    <2>4. QED
      BY <1>3, <2>2, <2>3 DEF WireInv, Closing
  <1>9. ASSUME NEW p \in wire, ForwardUntracked(p) PROVE WireInv'
    <2>1. Owned(p) /\ Deliver(p)
      BY <1>9, HandlersPacketsOwned DEF HTypeOK, ForwardUntracked
    <2>2. \A q \in wire' : InUse(q.key[1])
      BY <1>5, <2>1
    <2>3. injVars' = injVars /\ held' = held
      BY <1>9 DEF ForwardUntracked, vars
    <2>4. QED
      BY <1>7, <2>2, <2>3 DEF WireInv
  <1>10. ASSUME NEW c \in Conn, Dial(c) PROVE WireInv'
    <2>1. pc[c] # "new" /\ InUse(id[c][1])
      BY <1>2, <1>10 DEF Dial, Onward
    <2>2. \A q \in wire' : InUse(q.key[1])
      BY <1>3, <1>10, <2>1 DEF Dial, Pkt
    <2>3. injVars' = injVars /\ held' = held
      BY <1>10 DEF Dial, vars
    <2>4. QED
      BY <1>7, <2>2, <2>3 DEF WireInv
  <1>11. ASSUME NEW c \in Conn, HSend(c) PROVE WireInv'
    <2>1. InUse(id[c][1])
      BY <1>2, <1>11 DEF HSend, SendSegment, IInv, SenderInv, ObserverInv, Onward
    <2>2. \A q \in wire' : InUse(q.key[1])
      BY <1>3, <1>11, <2>1 DEF HSend, Pkt, Rst
    <2>3. injVars' = injVars /\ held' = held
      BY <1>11 DEF HSend, SendSegment
    <2>4. QED
      BY <1>7, <2>2, <2>3 DEF WireInv
  <1>12. ASSUME NEW c \in Conn, HInject(c) PROVE WireInv'
    <2>1. InjectorFrame(c) /\ Moves(c)
      BY <1>1, <1>12, InjectorFrames, InjectorMoves DEF HInject
    <2>2. injpc' # "lock"
      BY <2>1 DEF InjectorFrame
    <2>3. \A q \in wire' : InUse(q.key[1])
      BY <1>3, <1>5, <1>12, InjectCases
    <2>4. ASSUME injpc' \in Closing PROVE held' \in Packet /\ held'.key[1] = id'[injc'][1]
      <3>1. injc' = injc /\ id' = id
        BY <2>1, <2>4 DEF InjectorFrame, Closing
      <3>2. CASE injpc = "lock" /\ injpc' = "close"
        <4>1. held' = injpkt
          BY <1>12, <3>2, InjectCases
        <4>2. QED
          BY <3>1, <3>2, <4>1 DEF WireInv, IInv, TypeOK
      <3>3. CASE injpc \in Closing \ {"closesig"}
        <4>1. held' = held
          BY <1>12, <3>3, InjectCases DEF Closing
        <4>2. QED
          BY <3>1, <3>3, <4>1 DEF WireInv
      <3>4. QED
        BY <2>1, <2>4, <3>2, <3>3 DEF Moves
    <2>5. QED
      BY <2>2, <2>3, <2>4 DEF WireInv
  <1>13. ASSUME wire' = wire, injVars' = injVars, held' = held PROVE WireInv'
    BY <1>3, <1>7, <1>13 DEF WireInv
  <1>14. ASSUME NEW c \in Conn, HSender(c) PROVE WireInv'
    <2>1. SenderStep(c) /\ wire' = wire /\ held' = held
      BY <1>14 DEF HSender, SenderStep, envVars
    <2>2. injVars' = injVars
      BY <1>1, <2>1, SenderFrames DEF SenderFrame
    <2>3. QED
      BY <1>13, <2>1, <2>2
  <1>15. ASSUME NEW c \in Conn, HConnected(c) \/ HConnectFails(c) \/ HHandle(c) \/ HDisturb(c)
         PROVE  WireInv'
    <2>1. [Next]_vars /\ wire' = wire /\ held' = held
      BY <1>1, <1>15 DEF HConnected, HConnectFails, HHandle, HDisturb, envVars
    <2>2. injVars' = injVars
      BY <1>15 DEF HConnected, HConnectFails, HHandle, HDisturb, ConnectFirst, ConnectOther,
         ConnectFails, Rekey, Woken, Timeout, HandshakeFailed, NoteFail, NoteFinishFailed,
         NoteIncrement, HandshakeOk, RelayCloses, RelayEnds, Exit, Cancel, Reap
    <2>3. QED
      BY <1>13, <2>1, <2>2
  <1>16. ASSUME NEW c \in Conn, HAccept(c) \/ DialFails(c) PROVE WireInv'
    <2>1. wire' = wire /\ held' = held /\ injVars' = injVars
      BY <1>16 DEF HAccept, DialFails, Accept, vars
    <2>2. QED
      BY <1>13, <2>1
  <1>17. CASE UNCHANGED hvars
    BY <1>13, <1>17 DEF hvars, vars, envVars
  <1>18. QED
    BY <1>8, <1>9, <1>10, <1>11, <1>12, <1>14, <1>15, <1>16, <1>17 DEF HNext

-----------------------------------------------------------------------------
(***************************************************************************)
(* The first endpoint.                                                     *)
(***************************************************************************)
LEMMA DialNext ==
  ASSUME IInv, HTypeOK, WireInv, DialInv, [HNext]_hvars
  PROVE  DialInv'
  <1> SUFFICES ASSUME NEW c \in Conn
               PROVE  /\ pc'[c] = "new" => tcp'[c] = "idle"
                      /\ pc'[c] # "new" /\ dial'[c] = 0 => id'[c][2] = Dialled(c)'
                      /\ pc'[c] = "rekey" => dial'[c] # 0
    BY DEF DialInv
  <1> DEFINE Good == /\ pc'[c] = "new" => tcp'[c] = "idle"
                     /\ pc'[c] # "new" /\ dial'[c] = 0 => id'[c][2] = Dialled(c)'
                     /\ pc'[c] = "rekey" => dial'[c] # 0
  <1>1. TypeOK
    BY DEF IInv
  <1>2. ASSUME pc'[c] = pc[c], id'[c] = id[c], start'[c] = start[c], dial'[c] = dial[c],
               tcp'[c] = tcp[c] \/ pc[c] # "new"
        PROVE  Good
    BY <1>2 DEF DialInv, Dialled, Ordered
  <1>3. ASSUME NEW p \in wire, HRecv(p) PROVE Good
    BY <1>2, <1>3 DEF HRecv, Recv, envVars, connVars
  <1>4. ASSUME NEW p \in wire, ForwardUntracked(p) PROVE Good
    <2>1. Owned(p) /\ Deliver(p)
      BY <1>4, HandlersPacketsOwned DEF HTypeOK, ForwardUntracked
    <2>2. tcp'[c] = tcp[c] \/ pc[c] # "new"
      BY <1>1, <2>1, Delivered
    <2>3. QED
      BY <1>2, <1>4, <2>2 DEF ForwardUntracked, vars, connVars
  <1>5. ASSUME NEW d \in Conn, HAccept(d) PROVE Good
    <2>1. CASE d = c
      <3>1. PICK port \in Port, m \in Methods : Accept(c, port, ENDPOINTS[cycle + 1], m)
        BY <1>5, <2>1 DEF HAccept
      <3>2. id'[c] = <<port, ENDPOINTS[cycle + 1]>> /\ pc'[c] = "connecting"
        BY <1>1, <3>1 DEF Accept, HandleGoto, TypeOK
      <3>3. start'[c] = cycle /\ dial'[c] = dial[c] /\ cycle \in 0 .. N - 1
        BY <1>5, <2>1 DEF HAccept, HTypeOK
      <3>4. dial'[c] = 0 => Dialled(c)' = Ordered(cycle)[1]
        BY <3>3 DEF Dialled, Ordered
      <3>5. QED
        BY <3>2, <3>3, <3>4, FirstOfRotation
    <2>2. CASE d # c
      BY <1>1, <1>2, <1>5, <2>2 DEF HAccept, Accept, HandleGoto, TypeOK, HTypeOK
    <2>3. QED
      BY <2>1, <2>2
  <1>6. ASSUME NEW d \in Conn, Dial(d) PROVE Good
    BY <1>2, <1>6 DEF Dial, vars, connVars, HTypeOK
  <1>7. ASSUME NEW d \in Conn, DialFails(d) PROVE Good
    <2>1. CASE d = c
      BY <1>7, <2>1, NPositive DEF DialFails, vars, HTypeOK
    <2>2. CASE d # c
      BY <1>2, <1>7, <2>2 DEF DialFails, vars, connVars, HTypeOK
    <2>3. QED
      BY <2>1, <2>2
  <1>8. ASSUME NEW d \in Conn, HConnected(d) PROVE Good
    <2>1. UNCHANGED <<start, dial, tcp>>
      BY <1>8 DEF HConnected, envVars
    <2>2. CASE ConnectFirst(d)
      BY <1>1, <2>1, <2>2 DEF ConnectFirst, HandleGoto, TypeOK, connVars, DialInv, Dialled, Ordered
    <2>3. CASE ConnectOther(d, Dialled(d)) /\ d = c
      <3>1. dial[c] # 0 /\ pc'[c] = "rekey"
        BY <1>1, <2>3 DEF ConnectOther, HandleGoto, TypeOK, DialInv
      <3>2. QED
        BY <2>1, <3>1
    <2>4. CASE ConnectOther(d, Dialled(d)) /\ d # c
      BY <1>1, <1>2, <2>1, <2>4 DEF ConnectOther, HandleGoto, TypeOK
    <2>5. QED
      BY <1>8, <2>2, <2>3, <2>4 DEF HConnected
  <1>9. ASSUME NEW d \in Conn, HConnectFails(d) \/ HHandle(d) \/ HDisturb(d) PROVE Good
    <2>1. UNCHANGED <<start, dial, tcp, id>>
      BY <1>9 DEF HConnectFails, HHandle, HDisturb, envVars, connVars,
         ConnectFails, Rekey, Woken, Timeout, HandshakeFailed, NoteFail, NoteFinishFailed,
         NoteIncrement, HandshakeOk, RelayCloses, RelayEnds, Exit, Cancel, Reap
    <2>2. pc'[c] # "rekey" \/ pc'[c] = pc[c]
      BY <1>1, <1>9 DEF HConnectFails, HHandle, HDisturb, HandleGoto, TypeOK,
         ConnectFails, Rekey, Woken, Timeout, HandshakeFailed, NoteFail, NoteFinishFailed,
         NoteIncrement, HandshakeOk, RelayCloses, RelayEnds, Exit, Cancel, Reap
    <2>3. pc'[c] = "new" <=> pc[c] = "new"
      BY <1>1, <1>9, HandleFrames DEF HandleFrame, HConnectFails, HHandle, HDisturb, HandleStep, ConnectEnds
    <2>4. QED
      BY <2>1, <2>2, <2>3 DEF DialInv, Dialled, Ordered
  <1>10. ASSUME NEW d \in Conn, HInject(d) PROVE Good
    <2>1. InjectorFrame(d)
      BY <1>1, <1>10, InjectorFrames DEF HInject
    <2>2. tcp'[c] = tcp[c] \/ pc[c] # "new"
      BY <1>1, <1>10, InjectCases, Delivered
    <2>3. QED
      BY <1>2, <1>10, <2>1, <2>2 DEF InjectorFrame, HInject
  <1>11. ASSUME NEW d \in Conn, HSend(d) \/ HSender(d) PROVE Good
    <2>1. SenderFrame(d)
      BY <1>1, <1>11, SenderFrames DEF HSend, HSender, SenderStep
    <2>2. UNCHANGED <<start, dial, tcp>>
      BY <1>11 DEF HSend, HSender, envVars
    <2>3. QED
      BY <1>2, <2>1, <2>2 DEF SenderFrame
  <1>12. CASE UNCHANGED hvars
    BY <1>2, <1>12 DEF hvars, vars, connVars, envVars
  <1>13. QED
    BY <1>3, <1>4, <1>5, <1>6, <1>7, <1>8, <1>9, <1>10, <1>11, <1>12 DEF HNext

\* A connection that is tracked after a step was tracked before it, or is new.
LEMMA TrackedBefore ==
  ASSUME IInv, HTypeOK, WireInv, DialInv, [HNext]_hvars, NEW c \in Conn, Tracked(c)', pc[c] # "new"
  PROVE  Tracked(c) /\ id'[c] = id[c]
  <1>1. [Next]_vars /\ TypeOK
    BY Simulation DEF IInv
  <1>2. monitor[c] /\ \A d \in Conn : pc[d] # "new" => pc'[d] # "new" /\ id'[d][1] = id[d][1]
    BY <1>1, StepsOnward DEF Onward, Tracked
  <1>3. PortUnique(c)
    BY <1>2 DEF PortUnique, Tracked
  <1>4. dial[c] = 0 /\ pc[c] # "rekey"
    <2>1. dial'[c] = dial[c] \/ dial'[c] # 0
      <3>1. ASSUME NEW d \in Conn, DialFails(d) PROVE dial'[c] = dial[c] \/ dial'[c] # 0
        BY <3>1, NPositive DEF DialFails, HTypeOK
      <3>2. QED
        BY <3>1 DEF HNext, HRecv, ForwardUntracked, HAccept, Dial, HConnected, HConnectFails,
           HHandle, HDisturb, HInject, HSend, HSender, envVars, hvars
    <2>2. QED
      BY <2>1 DEF Tracked, DialInv
  <1>5. DialInv'
    BY DialNext
  <1>6. id'[c][2] = id[c][2]
    <2>1. start'[c] = start[c]
      <3>1. ASSUME NEW d \in Conn, HAccept(d) PROVE d # c
        BY <3>1 DEF HAccept, Accept
      <3>2. QED
        BY <3>1 DEF HNext, HRecv, ForwardUntracked, HAccept, Dial, DialFails, HConnected,
           HConnectFails, HHandle, HDisturb, HInject, HSend, HSender, envVars, hvars, HTypeOK
    <2>2. Dialled(c)' = Dialled(c)
      BY <1>4, <2>1 DEF Tracked, Dialled, Ordered
    <2>3. QED
      BY <1>4, <1>5, <2>2 DEF DialInv, Tracked
  <1>7. id'[c] = id[c]
    <2>1. TypeOK'
      BY <1>1, TypeNext
    <2>2. id[c] \in Key /\ id'[c] \in Key
      BY <1>1, <1>2, <2>1 DEF TypeOK
    <2>3. QED
      BY <1>2, <1>6, <2>2 DEF Key
  <1>8. pc[c] \in {"connecting", "waiting"}
    <2>1. ASSUME NEW d \in Conn, HandleStep(d) \/ Cancel(d) PROVE pc[c] \in {"connecting", "waiting"}
      BY <1>1, <1>4, <2>1, HandlesLocal DEF HandleLocal, Tracked
    <2>2. CASE pc'[c] = pc[c]
      BY <2>2 DEF Tracked
    <2>3. ASSUME NEW d \in Conn, NEW port \in Port, NEW first \in Ep, NEW m \in Methods,
                 Accept(d, port, first, m)
          PROVE  pc'[c] = pc[c]
      BY <1>1, <2>3 DEF Accept, HandleGoto, TypeOK
    <2>4. ASSUME NEW d \in Conn, InjectorStep(d) \/ SenderStep(d) PROVE pc'[c] = pc[c]
      BY <1>1, <2>4, InjectorFrames, SenderFrames DEF InjectorFrame, SenderFrame
    <2>5. QED
      BY <1>1, <2>1, <2>2, <2>3, <2>4 DEF Next, Recv, Reap, vars
  <1>9. QED
    BY <1>2, <1>3, <1>4, <1>7, <1>8 DEF Tracked

\* A pop of the key of another connection, or one by a thread that has already
\* ended the monitoring of c, leaves the entry of c.
LEMMA EntryStays ==
  ASSUME IInv, HTypeOK, TrackedInv, [Next]_vars, NEW c \in Conn, Tracked(c), Tracked(c)', id'[c] = id[c]
  PROVE  connections'[id[c]] = c
  <1> USE DEF IInv, TypeOK
  <1>1. connections[id[c]] = c /\ id[c] \in Key /\ monitor[c]
    BY DEF TrackedInv, Tracked
  <1>2. ASSUME NEW d \in Conn, d # c, pc[d] # "new" PROVE id[d] # id[c] /\ id[d] \in Key
    BY <1>2 DEF Tracked, PortUnique
  <1>3. ASSUME NEW d \in Conn, connections' \in {connections, Pop(id[d])}, pc[d] # "new",
               connections' = connections \/ d # c
        PROVE  connections'[id[c]] = c
    BY <1>1, <1>2, <1>3 DEF Pop
  <1>4. ASSUME NEW d \in Conn, InjectorStep(d) PROVE connections'[id[c]] = c
    <2>1. InjectorFrame(d) /\ Moves(d)
      BY <1>4, InjectorFrames, InjectorMoves
    <2>2. pc[d] # "new" /\ (injpc = "evict" => ~monitor[d]) /\ (injpc = "signal" => ~monitor[d])
      BY <2>1 DEF InjectorFrame, InjectorInv
    <2>3. QED
      BY <1>1, <1>3, <2>1, <2>2 DEF InjectorFrame, Moves
  <1>5. ASSUME NEW d \in Conn, SenderStep(d) PROVE connections'[id[c]] = c
    <2>1. connections' \in {connections, Pop(id[d])}
      BY <1>5, SenderFrames DEF SenderFrame
    <2>2. sndpc[d] # "none"
      BY <1>5 DEF SenderStep, StartSend, RetrySend, SendSegment, SendFails, Recheck, SndClose,
         SndEvict, SndCountFailed, SndSignalClose
    <2>3. pc[d] # "new"
      BY <2>2 DEF SenderInv, ObserverInv
    <2>4. connections' = connections \/ sndpc[d] = "evict"
      BY <1>5 DEF SenderStep, StartSend, RetrySend, SendSegment, SendFails, Recheck, SndClose,
         SndEvict, SndCountFailed, SndSignalClose, connVars
    <2>5. sndpc[d] = "evict" => d # c
      BY <1>1 DEF SenderInv
    <2>6. QED
      BY <1>3, <2>1, <2>3, <2>4, <2>5
  <1>6. ASSUME NEW d \in Conn, HandleStep(d) \/ Cancel(d) PROVE connections'[id[c]] = c
    <2>1. HandleLocal(d)
      BY <1>6, HandlesLocal
    <2>2. pc[d] # "new"
      BY <1>6 DEF HandleStep, ConnectEnds, ConnectFirst, ConnectOther, ConnectFails, Rekey, Woken,
         Timeout, HandshakeFailed, NoteFail, NoteFinishFailed, NoteIncrement, HandshakeOk,
         RelayCloses, RelayEnds, Exit, Cancel
    <2>3. CASE d = c
      <3>1. pc'[c] \in {"connecting", "waiting"} /\ pc[c] \in {"connecting", "waiting"}
        BY DEF Tracked
      <3>2. connections' = connections
        BY <1>6, <2>3, <3>1 DEF HandleStep, ConnectEnds, ConnectFirst, ConnectOther, ConnectFails,
           Rekey, Woken, Timeout, HandshakeFailed, NoteFail, NoteFinishFailed, NoteIncrement,
           HandshakeOk, RelayCloses, RelayEnds, Exit, Cancel, HandleGoto, connVars
      <3>3. QED
        BY <1>1, <3>2
    <2>4. CASE d # c /\ pc[d] = "rekey" /\ connections' = [connections EXCEPT ![id[d]] = d]
      BY <1>1, <1>2, <2>2, <2>4
    <2>5. QED
      BY <1>3, <2>1, <2>2, <2>3, <2>4 DEF HandleLocal
  <1>7. ASSUME NEW d \in Conn, Reap(d) PROVE connections'[id[c]] = c
    BY <1>1, <1>7 DEF Reap, Pop
  <1>8. ASSUME NEW d \in Conn, NEW port \in Port, NEW first \in Ep, NEW m \in Methods,
               Accept(d, port, first, m)
        PROVE  connections'[id[c]] = c
    <2>1. d # c
      BY <1>8 DEF Accept, Tracked
    <2>2. pc'[d] # "new" /\ id'[d] = <<port, first>> /\ <<port, first>> \in Key
      BY <1>8 DEF Accept, HandleGoto, Key
    <2>3. <<port, first>> # id[c]
      BY <2>1, <2>2 DEF Tracked, PortUnique
    <2>4. QED
      BY <1>1, <1>8, <2>2, <2>3 DEF Accept
  <1>9. ASSUME NEW p \in Packet, Recv(p) PROVE connections'[id[c]] = c
    BY <1>1, <1>9 DEF Recv, connVars
  <1>10. CASE UNCHANGED vars
    BY <1>1, <1>10 DEF vars, connVars
  <1>11. QED
    BY <1>4, <1>5, <1>6, <1>7, <1>8, <1>9, <1>10 DEF Next

\* A socket becomes established by a SYN-ACK for its port and the endpoint that
\* is dialled, which the injector let through.
LEMMA Connects ==
  ASSUME IInv, HTypeOK, WireInv, [HNext]_hvars, NEW c \in Conn,
         tcp'[c] = "established", tcp[c] # "established"
  PROVE  /\ pc[c] = "connecting"
         /\ \E p \in Packet :
              /\ p.key[1] = id[c][1] /\ p.key[2] = Dialled(c) /\ p.flags = "synack"
              /\ \/ ForwardUntracked(p)
                 \/ \E d \in Conn :
                      /\ InjectorStep(d) /\ p.key[1] = id[d][1]
                      /\ \/ injpc = "lock" /\ p = injpkt /\ injpc' \in {"recv", "count"}
                         \/ injpc = "closesig"
  <1> DEFINE Cause == \E p \in Packet :
              /\ p.key[1] = id[c][1] /\ p.key[2] = Dialled(c) /\ p.flags = "synack"
              /\ \/ ForwardUntracked(p)
                 \/ \E d \in Conn :
                      /\ InjectorStep(d) /\ p.key[1] = id[d][1]
                      /\ \/ injpc = "lock" /\ p = injpkt /\ injpc' \in {"recv", "count"}
                         \/ injpc = "closesig"
  <1>1. ASSUME NEW p \in wire, ForwardUntracked(p) PROVE pc[c] = "connecting" /\ Cause
    <2>1. Owned(p) /\ Deliver(p) /\ p \in Packet
      BY <1>1, HandlersPacketsOwned DEF HTypeOK, ForwardUntracked
    <2>2. /\ pc[c] = "connecting" /\ p.flags = "synack"
          /\ id[c][1] = p.key[1] /\ Dialled(c) = p.key[2]
      BY <2>1, Delivered DEF IInv
    <2>3. QED
      BY <1>1, <2>1, <2>2
  <1>2. ASSUME NEW d \in Conn, HInject(d) PROVE pc[c] = "connecting" /\ Cause
    <2>1. PICK p : /\ Owned(p) /\ Deliver(p) /\ p.key[1] = id[d][1]
                   /\ \/ injpc = "lock" /\ p = injpkt /\ injpc' \in {"recv", "count"}
                      \/ injpc = "closesig"
      BY <1>2, InjectCases
    <2>2. /\ pc[c] = "connecting" /\ p.flags = "synack"
          /\ id[c][1] = p.key[1] /\ Dialled(c) = p.key[2]
      BY <2>1, Delivered DEF IInv
    <2>3. InjectorStep(d) /\ p \in Packet
      BY <1>2, <2>1 DEF HInject, Owned
    <2>4. QED
      BY <2>1, <2>2, <2>3
  <1>3. ASSUME NEW d \in Conn, Dial(d) \/ DialFails(d) PROVE FALSE
    BY <1>3 DEF Dial, DialFails, HTypeOK
  <1>4. QED
    BY <1>1, <1>2, <1>3 DEF HNext, HRecv, HAccept, HConnected, HConnectFails, HHandle, HDisturb,
       HSend, HSender, envVars, hvars

\* connect() returns when the socket is established.
LEMMA WaitsConnected ==
  ASSUME IInv, HTypeOK, [HNext]_hvars, NEW c \in Conn, pc[c] = "connecting", pc'[c] = "waiting"
  PROVE  tcp[c] = "established"
  <1>1. [Next]_vars /\ TypeOK
    BY Simulation DEF IInv
  <1>2. ASSUME NEW d \in Conn, HConnected(d) PROVE tcp[c] = "established"
    BY <1>1, <1>2 DEF HConnected, ConnectFirst, ConnectOther, HandleGoto, TypeOK
  <1>3. ASSUME NEW d \in Conn, HConnectFails(d) \/ HHandle(d) \/ HDisturb(d) PROVE FALSE
    BY <1>1, <1>3 DEF HConnectFails, HHandle, HDisturb, HandleGoto, TypeOK,
       ConnectFails, Rekey, Woken, Timeout, HandshakeFailed, NoteFail, NoteFinishFailed,
       NoteIncrement, HandshakeOk, RelayCloses, RelayEnds, Exit, Cancel, Reap
  <1>4. ASSUME NEW d \in Conn, HInject(d) \/ HSend(d) \/ HSender(d) PROVE FALSE
    BY <1>1, <1>4, InjectorFrames, SenderFrames DEF HInject, HSend, HSender, SenderStep,
       InjectorFrame, SenderFrame
  <1>5. ASSUME NEW d \in Conn, HAccept(d) PROVE FALSE
    BY <1>1, <1>5 DEF HAccept, Accept, HandleGoto, TypeOK
  <1>6. ASSUME NEW d \in Conn, Dial(d) \/ DialFails(d) PROVE FALSE
    BY <1>6 DEF Dial, DialFails, vars
  <1>7. QED
    BY <1>2, <1>3, <1>4, <1>5, <1>6 DEF HNext, HRecv, Recv, ForwardUntracked, hvars, vars

\* A connection that is tracked is connected only by a SYN-ACK that was observed.
LEMMA TrackedNext ==
  ASSUME IInv, HInv, [HNext]_hvars
  PROVE  TrackedInv'
  <1> USE DEF HInv
  <1>1. [Next]_vars /\ TypeOK
    BY Simulation DEF IInv
  <1> SUFFICES ASSUME NEW c \in Conn, Tracked(c)'
               PROVE  /\ connections'[id'[c]] = c
                      /\ tcp'[c] = "established" \/ pc'[c] = "waiting" => Observed(c)'
    BY DEF TrackedInv
  <1> DEFINE Seen == tcp'[c] = "established" \/ pc'[c] = "waiting" => Observed(c)'
  <1>2. CASE pc[c] = "new"
    <2>1. PICK port \in Port, first \in Ep, m \in Methods : Accept(c, port, first, m)
      <3>1. \A d \in Conn : HandleStep(d) \/ Cancel(d) \/ Reap(d) => (pc'[c] = "new" <=> pc[c] = "new")
        BY <1>1, HandleFrames DEF HandleFrame
      <3>2. \A d \in Conn : InjectorStep(d) \/ SenderStep(d) => pc' = pc
        BY <1>1, InjectorFrames, SenderFrames DEF InjectorFrame, SenderFrame
      <3>3. ASSUME NEW d \in Conn \ {c}, NEW port \in Port, NEW first \in Ep, NEW m \in Methods,
                   Accept(d, port, first, m)
            PROVE  pc'[c] = pc[c]
        BY <1>1, <3>3 DEF Accept, HandleGoto, TypeOK
      <3>4. QED
        BY <1>1, <1>2, <3>1, <3>2, <3>3 DEF Tracked, Next, Recv, vars
    <2>2. id'[c] = <<port, first>> /\ connections'[id'[c]] = c /\ pc'[c] = "connecting"
      BY <1>1, <2>1 DEF Accept, HandleGoto, TypeOK, Key
    <2>3. tcp'[c] # "established"
      BY <1>2, Connects DEF DialInv
    <2>4. QED
      BY <2>2, <2>3
  <1>3. CASE pc[c] # "new"
    <2>1. Tracked(c) /\ id'[c] = id[c]
      BY <1>3, TrackedBefore
    <2>2. connections'[id'[c]] = c
      BY <1>1, <2>1, EntryStays
    <2>3. Observed(c) => Observed(c)'
      BY <1>1, StepsOnward DEF Onward
    <2>4. pc[c] = "waiting" \/ tcp[c] = "established" => Seen
      BY <2>1, <2>3 DEF TrackedInv
    <2>5. ASSUME pc[c] = "connecting", tcp[c] # "established", tcp'[c] = "established"
          PROVE  Observed(c)'
      <3>1. PICK p \in Packet :
              /\ p.key[1] = id[c][1] /\ p.key[2] = Dialled(c) /\ p.flags = "synack"
              /\ \/ ForwardUntracked(p)
                 \/ \E d \in Conn :
                      /\ InjectorStep(d) /\ p.key[1] = id[d][1]
                      /\ \/ injpc = "lock" /\ p = injpkt /\ injpc' \in {"recv", "count"}
                         \/ injpc = "closesig"
        BY <2>5, Connects
      <3>2. p.key = id[c] /\ connections[p.key] = c
        <4>1. id[c][2] = Dialled(c) /\ id[c] \in Key /\ p.key \in Key
          BY <1>1, <1>3, <2>1 DEF DialInv, Tracked, TypeOK, Packet
        <4>2. QED
          BY <2>1, <3>1, <4>1 DEF Key, TrackedInv
      <3>3. ~ForwardUntracked(p)
        BY <3>2, ConstantAssumption DEF ForwardUntracked
      <3>4. PICK d \in Conn :
              /\ InjectorStep(d) /\ p.key[1] = id[d][1]
              /\ \/ injpc = "lock" /\ p = injpkt /\ injpc' \in {"recv", "count"}
                 \/ injpc = "closesig"
        BY <3>1, <3>3
      <3>5. injc = d /\ pc[d] # "new" /\ Moves(d)
        BY <1>1, <3>4, InjectorFrames, InjectorMoves DEF InjectorFrame, IInv, InjectorInv
      <3>6. d = c
        BY <2>1, <3>1, <3>4, <3>5 DEF Tracked, PortUnique
      <3>7. monitor[c] /\ injpc # "closesig"
        BY <2>1, <3>5, <3>6 DEF Tracked, IInv, InjectorInv
      <3>8. QED
        BY <3>1, <3>4, <3>5, <3>6, <3>7 DEF Moves, Observed
    <2>6. QED
      BY <2>1, <2>2, <2>4, <2>5, WaitsConnected DEF Tracked
  <1>4. QED
    BY <1>2, <1>3

-----------------------------------------------------------------------------
(***************************************************************************)
(* The theorems.                                                           *)
(***************************************************************************)
LEMMA HInvInit == HInit => IInv /\ HInv
  <1> SUFFICES ASSUME HInit PROVE IInv /\ HInv
    OBVIOUS
  <1>1. IInv /\ HTypeOK
    BY IInvInit, HTypeInit DEF HInit
  <1>2. WireInv /\ DialInv /\ TrackedInv
    BY DEF HInit, Init, WireInv, DialInv, TrackedInv, Tracked, Closing
  <1>3. QED
    BY <1>1, <1>2 DEF HInv

LEMMA HInvNext == IInv /\ HInv /\ [HNext]_hvars => (IInv /\ HInv)' /\ [Next]_vars
  <1> SUFFICES ASSUME IInv, HInv, [HNext]_hvars PROVE (IInv /\ HInv)' /\ [Next]_vars
    OBVIOUS
  <1>1. [Next]_vars
    BY Simulation DEF HInv
  <1>2. IInv'
    BY <1>1, TypeNext, LockInvNext, InjectorInvNext, SenderInvNext, ObserverInvNext,
       DictInvNext, SuccessIsEarnedNext DEF IInv
  <1>3. HInv'
    BY HTypeNext, WireNext, DialNext, TrackedNext DEF HInv
  <1>4. QED
    BY <1>1, <1>2, <1>3

\* The inductive invariant of Handshake: on top of that of Injector, what holds
\* of the packets around, of the endpoints dialled and of the dict entries.
THEOREM HandshakeInvariance == HSpec => [](IInv /\ HInv)
  BY HInvInit, HInvNext, PTL DEF HSpec

\* Handshake is Injector under a network, a TCP stack and a rotation: whatever is
\* proved of Injector under any packets at all holds with real dials.
THEOREM HandshakeIsInjector == HSpec => Spec
  <1>1. HInit => Init
    BY DEF HInit
  <1>2. IInv /\ HInv /\ [HNext]_hvars => [Next]_vars
    BY HInvNext
  <1>3. QED
    BY <1>1, <1>2, HandshakeInvariance, PTL DEF HSpec, Spec

\* For any number of connections, ports and endpoints: at the first endpoint of
\* its rotation a connection on a port of its own has been observed when
\* connect() returns, so its wait can end with a success.
THEOREM FirstIsObserved == HSpec => []FirstEndpointObserved
  <1>1. HInv => FirstEndpointObserved
    BY DEF HInv, TrackedInv, Tracked, FirstEndpointObserved
  <1>2. QED
    BY <1>1, HandshakeInvariance, PTL

-----------------------------------------------------------------------------
(***************************************************************************)
(* How far handle() still has to go.                                       *)
(***************************************************************************)
HandleRank ==
  [new |-> 0, connecting |-> 10, rekey |-> 9, waiting |-> 8, ok |-> 7, fail |-> 7, note |-> 6,
   notefin |-> 5, noteinc |-> 5, relay |-> 5, exit |-> 4, done |-> 0]

\* A bound on the steps handle() still takes: three for every endpoint that is left.
HandleLeft(c) ==
  HandleRank[pc[c]] + (IF pc[c] = "relay" /\ sock_open[c] THEN 1 ELSE 0)
    + (IF pc[c] = "connecting" THEN 3 * (N - dial[c]) ELSE 0)
    + (IF pc[c] = "connecting" /\ tcp[c] = "idle" THEN 2 ELSE 0)
    + (IF pc[c] = "connecting" /\ tcp[c] = "syn_sent" THEN 1 ELSE 0)

HandleStill(c) == UNCHANGED <<pc[c], dial[c], tcp[c]>>
HandleNearer(c) ==
  /\ HandleLeft(c)' <= HandleLeft(c)
  /\ HandleStill(c) \/ HandleLeft(c)' < HandleLeft(c)

\* handle() of an accepted client only goes on: nothing that happens, to it or to
\* others, takes it back, and each dial, each answer and each step of its own brings
\* it nearer to its end, of which it is never more than three steps for each endpoint
\* and 12 more away (handle(), try_connect()).
HandleAdvances ==
  /\ [](\A c \in Conn : HandleLeft(c) \in 0 .. 3 * N + 12)
  /\ [][\A c \in Conn : pc[c] # "new" => HandleNearer(c)]_hvars

\* A step that only disturbs: what is the end of handle() made of is left, or nearer.
LEMMA UndisturbedNearer ==
  ASSUME IInv, HTypeOK, NEW c \in Conn, HandleStill(c), sock_open'[c] => sock_open[c]
  PROVE  HandleNearer(c)
  <1>1. pc[c] \in HandleSteps /\ dial[c] \in 0 .. N /\ N \in Nat
    BY NPositive DEF IInv, TypeOK, HTypeOK
  <1>2. HandleLeft(c) \in Int
    BY <1>1 DEF HandleLeft, HandleRank, HandleSteps
  <1>3. CASE sock_open'[c] <=> sock_open[c]
    <2>1. HandleLeft(c)' = HandleLeft(c)
      BY <1>3 DEF HandleStill, HandleLeft
    <2>2. QED
      BY <1>2, <2>1 DEF HandleNearer
  <1>4. CASE ~sock_open'[c] /\ sock_open[c]
    BY <1>1, <1>2, <1>4 DEF HandleNearer, HandleStill, HandleLeft, HandleRank, HandleSteps
  <1>5. QED
    BY <1>3, <1>4

\* A packet that arrives brings connect() nearer to its end.
LEMMA DeliveredNearer ==
  ASSUME IInv, HTypeOK, NEW c \in Conn, NEW p, Deliver(p),
         UNCHANGED <<pc[c], dial[c]>>, sock_open'[c] => sock_open[c]
  PROVE  HandleNearer(c)
  <1>1. CASE tcp'[c] = tcp[c]
    BY <1>1, UndisturbedNearer DEF HandleStill
  <1>2. CASE tcp'[c] # tcp[c]
    <2>1. /\ pc[c] = "connecting" /\ tcp[c] = "syn_sent"
          /\ tcp'[c] \in {"established", "refused"}
      BY <1>2 DEF Deliver, DeliverSyn, DeliverSynAck, DeliverRst, Receiver, HTypeOK
    <2>2. dial[c] \in 0 .. N /\ N \in Nat
      BY NPositive DEF HTypeOK
    <2>3. QED
      BY <2>1, <2>2 DEF HandleNearer, HandleLeft, HandleRank
  <1>3. QED
    BY <1>1, <1>2

\* No step opens the socket of a connection that is accepted.
LEMMA SocketsStayClosed ==
  ASSUME IInv, [Next]_vars, NEW c \in Conn, pc[c] # "new"
  PROVE  sock_open'[c] => sock_open[c]
  <1> USE DEF CloseSockets, InjGoto, HandleGoto, IInv, TypeOK
  <1>1. ASSUME NEW d \in Conn, InjectorStep(d) PROVE sock_open'[c] => sock_open[c]
    <2>1. CASE InjClose(d)
      BY <2>1 DEF InjClose
    <2>2. CASE ~InjClose(d)
      BY <1>1, <2>2 DEF InjectorStep, ForwardUnmonitored, ObserveSyn, ObserveSynAck,
         ObserveHandshakeAck, CountActive, Submit, ObserveFakeAck, ReadCountedOnSuccess, CountSuccess,
         SignalSuccess, Unexpected, InjEvict, InjCountFailed, InjSignalClose
    <2>3. QED
      BY <2>1, <2>2
  <1>2. ASSUME NEW d \in Conn, SenderStep(d) PROVE sock_open'[c] => sock_open[c]
    <2>1. CASE SndClose(d)
      BY <2>1 DEF SndClose
    <2>2. CASE ~SndClose(d)
      BY <1>2, <2>2 DEF SenderStep, StartSend, RetrySend, SendSegment, SendFails, Recheck,
         SndEvict, SndCountFailed, SndSignalClose
    <2>3. QED
      BY <2>1, <2>2
  <1>3. ASSUME NEW d \in Conn, HandleStep(d) \/ Cancel(d) PROVE sock_open'[c] => sock_open[c]
    <2>1. CASE RelayCloses(d) \/ Exit(d)
      BY <2>1 DEF RelayCloses, Exit
    <2>2. CASE ~(RelayCloses(d) \/ Exit(d))
      BY <1>3, <2>2 DEF HandleStep, ConnectEnds, ConnectFirst, ConnectOther, ConnectFails, Rekey, Woken,
         Timeout, HandshakeFailed, NoteFail, NoteFinishFailed, NoteIncrement, HandshakeOk, RelayEnds, Cancel
    <2>3. QED
      BY <2>1, <2>2
  <1>4. ASSUME NEW d \in Conn, Reap(d) PROVE sock_open'[c] => sock_open[c]
    BY <1>4 DEF Reap
  <1>5. ASSUME NEW d \in Conn, NEW port \in Port, NEW first \in Ep, NEW m \in Methods,
               Accept(d, port, first, m)
        PROVE  sock_open'[c] => sock_open[c]
    BY <1>5 DEF Accept
  <1>6. ASSUME NEW p \in Packet, Recv(p) PROVE sock_open'[c] => sock_open[c]
    BY <1>6 DEF Recv
  <1>7. CASE UNCHANGED vars
    BY <1>7 DEF vars
  <1>8. QED
    BY <1>1, <1>2, <1>3, <1>4, <1>5, <1>6, <1>7 DEF Next

\* Each step of handle() but those of connect() goes down in rank.
LEMMA StepNearer ==
  ASSUME IInv, HTypeOK, NEW c \in Conn, HandleStep(c) \/ Cancel(c), UNCHANGED envVars,
         sock_open'[c] => sock_open[c]
  PROVE  HandleNearer(c)
  <1> USE DEF HandleGoto, HandleLeft, HandleRank, HandleNearer
  <1>0. /\ pc \in [Conn -> HandleSteps] /\ dial[c] \in 0 .. N /\ N \in Nat
        /\ sock_open \in [Conn -> BOOLEAN]
        /\ dial' = dial /\ tcp' = tcp
    BY NPositive DEF IInv, TypeOK, HTypeOK, envVars
  <1>1. CASE ConnectFirst(c)
    BY <1>0, <1>1 DEF ConnectFirst
  <1>2. CASE ConnectFails(c)
    BY <1>0, <1>2 DEF ConnectFails
  <1>3. CASE Rekey(c)
    BY <1>0, <1>3 DEF Rekey
  <1>4. CASE Woken(c)
    BY <1>0, <1>4 DEF Woken
  <1>5. CASE Timeout(c)
    BY <1>0, <1>5 DEF Timeout
  <1>6. CASE HandshakeFailed(c)
    BY <1>0, <1>6 DEF HandshakeFailed
  <1>7. CASE NoteFail(c)
    BY <1>0, <1>7 DEF NoteFail
  <1>8. CASE NoteFinishFailed(c)
    BY <1>0, <1>8 DEF NoteFinishFailed
  <1>9. CASE NoteIncrement(c)
    BY <1>0, <1>9 DEF NoteIncrement
  <1>10. CASE HandshakeOk(c)
    BY <1>0, <1>10 DEF HandshakeOk
  <1>11. CASE RelayCloses(c)
    BY <1>0, <1>11 DEF RelayCloses, HandleStill
  <1>12. CASE RelayEnds(c)
    BY <1>0, <1>12 DEF RelayEnds
  <1>13. CASE Exit(c)
    BY <1>0, <1>13 DEF Exit
  <1>14. CASE Cancel(c)
    BY <1>0, <1>14 DEF Cancel
  <1>15. CASE \E ep \in Ep : ConnectOther(c, ep)
    BY <1>0, <1>15 DEF ConnectOther
  <1> QED
    BY <1>1, <1>2, <1>3, <1>4, <1>5, <1>6, <1>7, <1>8, <1>9, <1>10, <1>11, <1>12, <1>13, <1>14,
       <1>15 DEF HandleStep, ConnectEnds

LEMMA HandleNext ==
  ASSUME IInv, HInv, [HNext]_hvars, NEW c \in Conn, pc[c] # "new"
  PROVE  HandleNearer(c)
  <1>0. /\ HTypeOK /\ WireInv /\ TypeOK /\ [Next]_vars
        /\ sock_open'[c] => sock_open[c]
    BY Simulation, SocketsStayClosed DEF HInv, IInv
  <1>t. /\ dial[c] \in 0 .. N /\ N \in Nat /\ dial \in [Conn -> 0 .. N]
        /\ tcp \in [Conn -> TcpStates] /\ tcp[c] \in TcpStates
    BY <1>0, NPositive DEF HTypeOK
  <1>1. ASSUME NEW p \in wire, HRecv(p) PROVE HandleNearer(c)
    BY <1>0, <1>1, UndisturbedNearer DEF HRecv, Recv, envVars, HandleStill
  <1>2. ASSUME NEW p \in wire, ForwardUntracked(p) PROVE HandleNearer(c)
    BY <1>0, <1>2, DeliveredNearer DEF ForwardUntracked, vars
  <1>3. ASSUME NEW d \in Conn, HAccept(d) PROVE HandleNearer(c)
    BY <1>0, <1>3, UndisturbedNearer DEF HAccept, Accept, HandleGoto, HandleStill
  <1>4. ASSUME NEW d \in Conn, Dial(d) PROVE HandleNearer(c)
    <2>1. CASE d = c
      <3>1. /\ pc[c] = "connecting" /\ tcp[c] = "idle" /\ tcp'[c] = "syn_sent"
            /\ UNCHANGED <<pc, dial, sock_open>>
        BY <1>t, <1>4, <2>1 DEF Dial, vars
      <3>2. QED
        BY <1>t, <3>1 DEF HandleNearer, HandleLeft, HandleRank
    <2>2. CASE d # c
      BY <1>0, <1>t, <1>4, <2>2, UndisturbedNearer DEF Dial, vars, HandleStill
    <2>3. QED
      BY <2>1, <2>2
  <1>5. ASSUME NEW d \in Conn, DialFails(d) PROVE HandleNearer(c)
    <2>1. CASE d = c
      <3>1. /\ pc[c] = "connecting" /\ dial'[c] = dial[c] + 1
            /\ UNCHANGED <<pc, sock_open>>
        BY <1>t, <1>5, <2>1 DEF DialFails, vars
      <3>2. QED
        BY <1>t, <3>1 DEF HandleNearer, HandleLeft, HandleRank
    <2>2. CASE d # c
      BY <1>0, <1>t, <1>5, <2>2, UndisturbedNearer DEF DialFails, vars, HandleStill
    <2>3. QED
      BY <2>1, <2>2
  <1>6. ASSUME NEW d \in Conn, HandleStep(d) \/ Cancel(d), UNCHANGED envVars PROVE HandleNearer(c)
    <2>1. CASE d = c
      BY <1>0, <1>6, <2>1, StepNearer
    <2>2. CASE d # c
      BY <1>0, <1>6, <2>2, HandlesLocal, UndisturbedNearer DEF HandleLocal, envVars, HandleStill
    <2>3. QED
      BY <2>1, <2>2
  <1>7. ASSUME NEW d \in Conn, HConnected(d) PROVE HandleNearer(c)
    <2>1. dial[d] + 1 \in 1 .. N /\ start[d] \in 0 .. N - 1
      BY <1>0, <1>7, NPositive DEF HConnected, HTypeOK
    <2>2. Dialled(d) \in Ep
      BY <2>1, OrderedType DEF Dialled
    <2>3. QED
      BY <1>6, <1>7, <2>2 DEF HConnected, HandleStep, ConnectEnds
  <1>8. ASSUME NEW d \in Conn, HConnectFails(d) \/ HHandle(d) PROVE HandleNearer(c)
    BY <1>6, <1>8 DEF HConnectFails, HHandle, HandleStep, ConnectEnds
  <1>9. ASSUME NEW d \in Conn, HDisturb(d) PROVE HandleNearer(c)
    <2>1. CASE Reap(d)
      BY <1>0, <1>9, <2>1, UndisturbedNearer DEF HDisturb, Reap, envVars, HandleStill
    <2>2. CASE Cancel(d)
      BY <1>6, <1>9, <2>2 DEF HDisturb
    <2>3. QED
      BY <1>9, <2>1, <2>2 DEF HDisturb
  <1>10. ASSUME NEW d \in Conn, HInject(d) PROVE HandleNearer(c)
    <2>1. UNCHANGED <<pc, dial>>
      BY <1>0, <1>10, InjectorFrames DEF HInject, InjectorFrame
    <2>2. tcp' = tcp \/ \E p : Deliver(p)
      BY <1>10 DEF HInject
    <2>3. QED
      BY <1>0, <2>1, <2>2, UndisturbedNearer, DeliveredNearer DEF HandleStill
  <1>11. ASSUME NEW d \in Conn, HSend(d) \/ HSender(d) PROVE HandleNearer(c)
    <2>1. SenderStep(d) /\ UNCHANGED <<dial, tcp>>
      BY <1>11 DEF HSend, HSender, SenderStep, envVars
    <2>2. QED
      BY <1>0, <2>1, SenderFrames, UndisturbedNearer DEF SenderFrame, HandleStill
  <1>12. CASE UNCHANGED hvars
    BY <1>0, <1>12, UndisturbedNearer DEF hvars, vars, envVars, HandleStill
  <1>13. QED
    BY <1>1, <1>2, <1>3, <1>4, <1>5, <1>7, <1>8, <1>9, <1>10, <1>11, <1>12 DEF HNext

\* What can be said of the end of handle() without fairness, for any number of
\* connections and endpoints: it takes a bounded number of steps.
THEOREM HandlesAdvance == HSpec => HandleAdvances
  <1>1. IInv /\ HInv => \A c \in Conn : HandleLeft(c) \in 0 .. 3 * N + 12
    <2> SUFFICES ASSUME IInv, HInv, NEW c \in Conn PROVE HandleLeft(c) \in 0 .. 3 * N + 12
      OBVIOUS
    <2>1. pc[c] \in HandleSteps /\ dial[c] \in 0 .. N /\ N \in Nat
      BY NPositive DEF IInv, TypeOK, HInv, HTypeOK
    <2>2. CASE pc[c] = "connecting"
      BY <2>1, <2>2 DEF HandleLeft, HandleRank
    <2>3. CASE pc[c] # "connecting"
      BY <2>1, <2>3 DEF HandleLeft, HandleRank, HandleSteps
    <2>4. QED
      BY <2>2, <2>3
  <1>2. IInv /\ HInv /\ [HNext]_hvars =>
          [\A c \in Conn : pc[c] # "new" => HandleNearer(c)]_hvars
    BY HandleNext
  <1>3. QED
    BY HandshakeInvariance, <1>1, <1>2, PTL DEF HSpec, HandleAdvances
=============================================================================
