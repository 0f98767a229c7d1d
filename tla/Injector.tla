------------------------------ MODULE Injector ------------------------------
(***************************************************************************)
(* The life of one relayed connection, as three kinds of threads see it:   *)
(*                                                                         *)
(*   - the injector thread (injecter.py run, fake_tcp.py inject), which    *)
(*     receives every diverted packet and drives the handshake observer;   *)
(*   - one fake-send job per connection (fake_tcp.py fake_send_thread and  *)
(*     _send_delayed_retry), run by a worker of the executor;              *)
(*   - the asyncio loop thread, which runs one handle() coroutine per      *)
(*     client (main.py) and takes no connection lock.                      *)
(*                                                                         *)
(* The first two take connection.thread_lock; handle() does not, so a      *)
(* handler of the injector is cut into a step wherever handle() can come   *)
(* between two of its effects.  The environment is open: any packet of     *)
(* Packet may be diverted at any time, and connect() may end any way.      *)
(***************************************************************************)
EXTENDS Integers, FiniteSets

CONSTANTS
  Conn,     \* connection objects, one per accepted client
  Port,     \* local source ports
  Ep,       \* upstream endpoints
  Methods,  \* wire methods in use, a subset of RealMethods
  SeqMod,   \* size of the sequence number space (2^32 in the code)
  None      \* "no connection", "no key" and "no packet"

RealMethods == {"wrong_seq", "wrong_seq_ttl", "split_seq", "fragmented",
                "padding", "delayed_retry", "double_sni"}

Key == Port \X Ep
Seq32 == 0 .. SeqMod - 1
NoMsg == "no_msg"   \* the empty t2a_msg
Flags == {"syn", "synack", "ack", "other"}

(***************************************************************************)
(* What the injector looks at in a packet.  "other" stands for every flag  *)
(* and payload combination the observer has no rule for (RST, FIN, data).  *)
(***************************************************************************)
Packet == [dir : {"in", "out"}, key : Key, flags : Flags,
           seq : Seq32, ack : Seq32]

ASSUME ConstantAssumption ==
  /\ None \notin Conn \cup Key \cup Packet
  /\ Methods \subseteq RealMethods
  /\ SeqMod \in Nat \ {0}
ASSUME FinitelyMany == IsFiniteSet(Conn)

VARIABLES
  connections,   \* the shared dict: key -> connection object or None
  id,            \* connection.id, None before the object exists
  monitor, syn_seq, syn_ack_seq, sch_fake_sent, fake_sent, counted,
  t2a_msg,       \* NoMsg until the verdict; t2a_event is set with it
  bypass_method,
  thread_lock,   \* owner of connection.thread_lock
  sock_open,     \* the outgoing socket, which holds the source port
  pc,            \* handle()
  injpc, injc, injpkt,   \* the injector thread: step, connection, packet
  sndpc, attempt, sent,  \* the fake-send job: step, attempt, segments of it sent
  active, total, success, failed   \* monitor_connection.py counters

connVars  == <<connections, id>>
obsVars   == <<syn_seq, syn_ack_seq, sch_fake_sent>>
injVars   == <<injpc, injc, injpkt>>
sndVars   == <<sndpc, attempt, sent>>
statVars  == <<active, total, success, failed>>
vars == <<connVars, obsVars, injVars, sndVars, statVars, monitor, fake_sent,
          counted, t2a_msg, bypass_method, thread_lock, sock_open, pc>>

-----------------------------------------------------------------------------
(* Program points. *)

HandleSteps == {"new", "connecting", "rekey", "waiting", "fail", "note",
                "notefin", "noteinc", "ok", "relay", "exit", "done"}

\* Points inside a stretch of handle() that contains no await: no other
\* coroutine runs while one of them is there.
NoAwait == {"rekey", "fail", "note", "notefin", "noteinc", "ok", "exit"}

InjLocked == {"count", "submit", "succ", "finish", "signal",
              "close", "evict", "closefin", "closesig"}
InjSteps == {"recv", "lock"} \cup InjLocked

SndLocked == {"send", "between", "close", "evict", "closefin", "closesig"}
SndSteps == {"none", "queued", "pause", "done"} \cup SndLocked

LoopFree(c) == \A d \in Conn \ {c} : pc[d] \notin NoAwait

BoundPorts == {id[c][1] : c \in {d \in Conn : sock_open[d]}}

-----------------------------------------------------------------------------
Init ==
  /\ connections = [k \in Key |-> None]
  /\ id = [c \in Conn |-> None]
  /\ monitor = [c \in Conn |-> TRUE]
  /\ syn_seq = [c \in Conn |-> -1]
  /\ syn_ack_seq = [c \in Conn |-> -1]
  /\ sch_fake_sent = [c \in Conn |-> FALSE]
  /\ fake_sent = [c \in Conn |-> FALSE]
  /\ counted = [c \in Conn |-> FALSE]
  /\ t2a_msg = [c \in Conn |-> NoMsg]
  /\ bypass_method = [c \in Conn |-> "auto"]
  /\ thread_lock = [c \in Conn |-> "free"]
  /\ sock_open = [c \in Conn |-> FALSE]
  /\ pc = [c \in Conn |-> "new"]
  /\ injpc = "recv" /\ injc = None /\ injpkt = None
  /\ sndpc = [c \in Conn |-> "none"]
  /\ attempt = [c \in Conn |-> 1]
  /\ sent = [c \in Conn |-> 0]
  /\ active = 0 /\ total = 0 /\ success = 0 /\ failed = 0

-----------------------------------------------------------------------------
(* Pieces of the state change shared by the threads. *)

\* connections.pop(key, None)
Pop(k) == [connections EXCEPT ![k] = None]

\* decrement_active(): never below zero.
Decremented == IF active > 0 THEN active - 1 ELSE active

FinishFailed == active' = Decremented /\ failed' = failed + 1
\* Mutant: a success stays in the active gauge.
FinishSuccessKeepsActive == success' = success + 1 /\ UNCHANGED active

FinishSuccess == active' = Decremented /\ success' = success + 1

Release(c) == thread_lock' = [thread_lock EXCEPT ![c] = "free"]

Next1(s) == (s + 1) % SeqMod   \* (s + 1) & 0xFFFFFFFF

-----------------------------------------------------------------------------
(* The injector thread. *)

\* The four packets the observer expects.
IsSyn(c, p) ==
  /\ p.dir = "out" /\ ~sch_fake_sent[c] /\ p.flags = "syn"
  /\ p.ack = 0
  /\ syn_seq[c] \in {-1, p.seq}

\* Mutant: a SYN-ACK with another sequence number is taken for the next one.
IsSynAckAnySeq(c, p) ==
  /\ p.dir = "in" /\ syn_seq[c] # -1 /\ p.flags = "synack"
  /\ p.ack = Next1(syn_seq[c])

IsSynAck(c, p) ==
  /\ p.dir = "in" /\ syn_seq[c] # -1 /\ p.flags = "synack"
  /\ syn_ack_seq[c] \in {-1, p.seq}
  /\ p.ack = Next1(syn_seq[c])

\* Mutant: a repeated ACK schedules again.
IsHandshakeAckTwice(c, p) ==
  /\ p.dir = "out" /\ p.flags = "ack"
  /\ syn_seq[c] # -1 /\ p.seq = Next1(syn_seq[c])
  /\ syn_ack_seq[c] # -1 /\ p.ack = Next1(syn_ack_seq[c])

IsHandshakeAck(c, p) ==
  /\ p.dir = "out" /\ ~sch_fake_sent[c] /\ p.flags = "ack"
  /\ syn_seq[c] # -1 /\ p.seq = Next1(syn_seq[c])
  /\ syn_ack_seq[c] # -1 /\ p.ack = Next1(syn_ack_seq[c])

\* Mutant: any acknowledgement of the client's ISN counts as that of the fake.
IsFakeAckUnsent(c, p) ==
  /\ p.dir = "in" /\ syn_seq[c] # -1 /\ p.flags = "ack"
  /\ syn_ack_seq[c] # -1 /\ p.seq = Next1(syn_ack_seq[c])
  /\ p.ack = Next1(syn_seq[c])

IsFakeAck(c, p) ==
  /\ p.dir = "in" /\ syn_seq[c] # -1 /\ p.flags = "ack" /\ fake_sent[c]
  /\ syn_ack_seq[c] # -1 /\ p.seq = Next1(syn_ack_seq[c])
  /\ p.ack = Next1(syn_seq[c])

Expected(c, p) == IsSyn(c, p) \/ IsSynAck(c, p) \/ IsHandshakeAck(c, p) \/ IsFakeAck(c, p)

\* The handler returns: the lock is released and the thread receives again.
InjReturn(c) ==
  /\ injpc' = "recv" /\ injc' = None /\ injpkt' = None
  /\ Release(c)

\* The handler goes on at step s with the lock held; it does not look at the
\* packet again, only hands it on.
InjGoto(c, s) ==
  /\ injpc' = s /\ injpkt' = None /\ UNCHANGED injc
  /\ thread_lock' = [thread_lock EXCEPT ![c] = "injector"]

\* w.send(packet): the handler ends, or the driver refuses the packet and the
\* connection is closed as an unexpected one.
Reinject(c, next) ==
  \/ next = "recv" /\ InjReturn(c)
  \/ next # "recv" /\ InjGoto(c, next)
  \/ InjGoto(c, "close")

\* inject() finds a connection under the packet's key; no lock is held.
Recv(p) ==
  /\ injpc = "recv"
  /\ connections[p.key] # None
  /\ injpc' = "lock" /\ injc' = connections[p.key] /\ injpkt' = p
  /\ UNCHANGED <<connVars, obsVars, sndVars, statVars, monitor, fake_sent,
                 counted, t2a_msg, bypass_method, thread_lock, sock_open, pc>>

\* The lock is taken and connection.monitor is read.
Entered(c) == injpc = "lock" /\ injc = c /\ thread_lock[c] = "free"
\* Mutant: monitor was read before the lock was taken.
MonitoredUnlocked(c) == Entered(c)

Monitored(c) == Entered(c) /\ monitor[c]

ForwardUnmonitored(c) ==
  /\ Entered(c) /\ ~monitor[c]
  /\ InjReturn(c)
  /\ UNCHANGED <<connVars, obsVars, sndVars, statVars, monitor, fake_sent,
                 counted, t2a_msg, bypass_method, sock_open, pc>>

ObserveSyn(c) ==
  /\ Monitored(c) /\ IsSyn(c, injpkt)
  /\ syn_seq' = [syn_seq EXCEPT ![c] = injpkt.seq]
  /\ Reinject(c, "recv")
  /\ UNCHANGED <<connVars, syn_ack_seq, sch_fake_sent, sndVars, statVars, monitor,
                 fake_sent, counted, t2a_msg, bypass_method, sock_open, pc>>

ObserveSynAck(c) ==
  /\ Monitored(c) /\ IsSynAck(c, injpkt)
  /\ syn_ack_seq' = [syn_ack_seq EXCEPT ![c] = injpkt.seq]
  /\ Reinject(c, "recv")
  /\ UNCHANGED <<connVars, syn_seq, sch_fake_sent, sndVars, statVars, monitor,
                 fake_sent, counted, t2a_msg, bypass_method, sock_open, pc>>

\* The last packet of the TCP handshake: reinjected first, then the fake send
\* is scheduled and the connection counted.
ObserveHandshakeAck(c) ==
  /\ Monitored(c) /\ IsHandshakeAck(c, injpkt)
  /\ Reinject(c, "count")
  /\ IF injpc' = "count"
       THEN /\ sch_fake_sent' = [sch_fake_sent EXCEPT ![c] = TRUE]
            /\ total' = total + 1
       ELSE UNCHANGED <<sch_fake_sent, total>>
  /\ UNCHANGED <<connVars, syn_seq, syn_ack_seq, sndVars, active, success, failed,
                 monitor, fake_sent, counted, t2a_msg, bypass_method, sock_open, pc>>

\* increment_active() runs before counted is set.
CountActive(c) ==
  /\ injpc = "count" /\ injc = c
  /\ active' = active + 1
  /\ InjGoto(c, "submit")
  /\ UNCHANGED <<connVars, obsVars, sndVars, total, success, failed, monitor,
                 fake_sent, counted, t2a_msg, bypass_method, sock_open, pc>>

\* The job goes to the executor, or to a thread of its own once the executor
\* is shut down; when no thread can be started inject() survives the error.
Submit(c) ==
  /\ injpc = "submit" /\ injc = c
  /\ counted' = [counted EXCEPT ![c] = TRUE]
  /\ sndpc' \in {sndpc, [sndpc EXCEPT ![c] = "queued"]}
  /\ InjReturn(c)
  /\ UNCHANGED <<connVars, obsVars, attempt, sent, statVars, monitor, fake_sent,
                 t2a_msg, bypass_method, sock_open, pc>>

\* The peer acknowledged the fake data: the bypass handshake succeeded.
ObserveFakeAck(c) ==
  /\ Monitored(c) /\ IsFakeAck(c, injpkt)
  /\ monitor' = [monitor EXCEPT ![c] = FALSE]
  /\ InjGoto(c, "succ")
  /\ UNCHANGED <<connVars, obsVars, sndVars, statVars, fake_sent, counted, t2a_msg,
                 bypass_method, sock_open, pc>>

ReadCountedOnSuccess(c) ==
  /\ injpc = "succ" /\ injc = c
  /\ InjGoto(c, IF counted[c] THEN "finish" ELSE "signal")
  /\ UNCHANGED <<connVars, obsVars, sndVars, statVars, monitor, fake_sent, counted,
                 t2a_msg, bypass_method, sock_open, pc>>

CountSuccess(c) ==
  /\ injpc = "finish" /\ injc = c
  /\ FinishSuccess
  /\ counted' = [counted EXCEPT ![c] = FALSE]
  /\ InjGoto(c, "signal")
  /\ UNCHANGED <<connVars, obsVars, sndVars, total, failed, monitor, fake_sent,
                 t2a_msg, bypass_method, sock_open, pc>>

\* Evict, set the verdict and wake handle(); the packet is not reinjected.
SignalSuccess(c) ==
  /\ injpc = "signal" /\ injc = c
  /\ connections' = Pop(id[c])
  /\ t2a_msg' = [t2a_msg EXCEPT ![c] = "fake_data_ack_recv"]
  /\ InjReturn(c)
  /\ UNCHANGED <<id, obsVars, sndVars, statVars, monitor, fake_sent, counted,
                 bypass_method, sock_open, pc>>

\* on_unexpected_packet() calls _close_conn(), which starts with the sockets.
CloseSockets(c) ==
  /\ sock_open' = [sock_open EXCEPT ![c] = FALSE]
  /\ monitor' = [monitor EXCEPT ![c] = FALSE]

Unexpected(c) ==
  /\ Monitored(c) /\ ~Expected(c, injpkt)
  /\ InjGoto(c, "close")
  /\ UNCHANGED <<connVars, obsVars, sndVars, statVars, monitor, fake_sent, counted,
                 t2a_msg, bypass_method, sock_open, pc>>

InjClose(c) ==
  /\ injpc = "close" /\ injc = c
  /\ CloseSockets(c)
  /\ InjGoto(c, "evict")
  /\ UNCHANGED <<connVars, obsVars, sndVars, statVars, fake_sent, counted, t2a_msg,
                 bypass_method, pc>>

InjEvict(c) ==
  /\ injpc = "evict" /\ injc = c
  /\ connections' = Pop(id[c])
  /\ InjGoto(c, IF counted[c] THEN "closefin" ELSE "closesig")
  /\ UNCHANGED <<id, obsVars, sndVars, statVars, monitor, fake_sent, counted, t2a_msg,
                 bypass_method, sock_open, pc>>

InjCountFailed(c) ==
  /\ injpc = "closefin" /\ injc = c
  /\ FinishFailed
  /\ counted' = [counted EXCEPT ![c] = FALSE]
  /\ InjGoto(c, "closesig")
  /\ UNCHANGED <<connVars, obsVars, sndVars, total, success, monitor, fake_sent,
                 t2a_msg, bypass_method, sock_open, pc>>

\* The verdict is set and handle() woken; the packet itself is reinjected.
InjSignalClose(c) ==
  /\ injpc = "closesig" /\ injc = c
  /\ t2a_msg' = [t2a_msg EXCEPT ![c] = "unexpected_close"]
  /\ InjReturn(c)
  /\ UNCHANGED <<connVars, obsVars, sndVars, statVars, monitor, fake_sent, counted,
                 bypass_method, sock_open, pc>>

InjectorStep(c) ==
  \/ ForwardUnmonitored(c) \/ ObserveSyn(c) \/ ObserveSynAck(c)
  \/ ObserveHandshakeAck(c) \/ CountActive(c) \/ Submit(c)
  \/ ObserveFakeAck(c) \/ ReadCountedOnSuccess(c) \/ CountSuccess(c) \/ SignalSuccess(c)
  \/ Unexpected(c) \/ InjClose(c) \/ InjEvict(c) \/ InjCountFailed(c) \/ InjSignalClose(c)

-----------------------------------------------------------------------------
(* The fake-send job of connection c. *)

\* Segments of one attempt.  fragmented sends 3 (a ClientHello is never shorter
\* than 3 bytes); delayed_retry sends one, then a 2-segment split.
Segments(m, n) ==
  CASE m = "split_seq" -> 2
    [] m = "fragmented" -> 3
    [] m = "delayed_retry" /\ n = 2 -> 2
    [] OTHER -> 1

\* Segments sent before the current attempt.
SentBefore(c) == IF attempt[c] = 2 THEN 1 ELSE 0
LastSegment(c) ==
  sent[c] - SentBefore(c) + 1 = Segments(bypass_method[c], attempt[c])

\* A whole fake ClientHello is on the wire.
WholeSent(c) == sent[c] >= Segments(bypass_method[c], 1)

SndReturn(c, s) ==
  /\ sndpc' = [sndpc EXCEPT ![c] = s]
  /\ Release(c)

SndGoto(c, s) ==
  /\ sndpc' = [sndpc EXCEPT ![c] = s]
  /\ thread_lock' = [thread_lock EXCEPT ![c] = "sender"]

\* Mutant: an early return that skips the release.
StartSendKeepsLock(c) ==
  /\ sndpc[c] = "queued" /\ thread_lock[c] = "free"
  /\ SndGoto(c, IF monitor[c] THEN "send" ELSE "done")
  /\ UNCHANGED <<connVars, obsVars, injVars, attempt, sent, statVars, monitor, fake_sent,
                 counted, t2a_msg, bypass_method, sock_open, pc>>

\* After the fake delay: take the lock and give up if no longer monitored.
StartSend(c) ==
  /\ sndpc[c] = "queued" /\ thread_lock[c] = "free"
  /\ IF monitor[c] THEN SndGoto(c, "send") ELSE SndReturn(c, "done")
  /\ UNCHANGED <<connVars, obsVars, injVars, attempt, sent, statVars, monitor, fake_sent,
                 counted, t2a_msg, bypass_method, sock_open, pc>>

\* Mutant: monitor is not read again after the pause.
RetrySendBlind(c) ==
  /\ sndpc[c] = "pause" /\ thread_lock[c] = "free"
  /\ SndGoto(c, "send")
  /\ attempt' = [attempt EXCEPT ![c] = 2]
  /\ UNCHANGED <<connVars, obsVars, injVars, sent, statVars, monitor, fake_sent,
                 counted, t2a_msg, bypass_method, sock_open, pc>>

\* After the 1.5 s pause of delayed_retry: the second attempt.
RetrySend(c) ==
  /\ sndpc[c] = "pause" /\ thread_lock[c] = "free"
  /\ IF monitor[c] /\ fake_sent[c]
       THEN /\ SndGoto(c, "send")
            /\ attempt' = [attempt EXCEPT ![c] = 2]
       ELSE /\ SndReturn(c, "done")
            /\ UNCHANGED attempt
  /\ UNCHANGED <<connVars, obsVars, injVars, sent, statVars, monitor, fake_sent,
                 counted, t2a_msg, bypass_method, sock_open, pc>>

\* One w.send(): fake_sent is set before the last segment goes out.
SendSegment(c) ==
  /\ sndpc[c] = "send"
  /\ fake_sent' = [fake_sent EXCEPT ![c] = @ \/ LastSegment(c)]
  /\ sent' = [sent EXCEPT ![c] = @ + 1]
  /\ IF LastSegment(c)
       THEN SndReturn(c, IF bypass_method[c] = "delayed_retry" /\ attempt[c] = 1
                           THEN "pause" ELSE "done")
       ELSE SndGoto(c, "between")
  /\ UNCHANGED <<connVars, obsVars, injVars, attempt, statVars, monitor,
                 counted, t2a_msg, bypass_method, sock_open, pc>>

\* The driver refuses a segment: the connection is closed.
SendFails(c) ==
  /\ sndpc[c] = "send"
  /\ fake_sent' = [fake_sent EXCEPT ![c] = @ \/ LastSegment(c)]
  /\ SndGoto(c, "close")
  /\ UNCHANGED <<connVars, obsVars, injVars, attempt, sent, statVars, monitor,
                 counted, t2a_msg, bypass_method, sock_open, pc>>

\* Mutant: the lock is a plain one and is taken again, the deadlock that the
\* comments at fake_tcp.py:292 and monitor_connection.py:22 tell of.
RecheckRelocks(c) ==
  /\ sndpc[c] = "between" /\ thread_lock[c] = "free"
  /\ IF monitor[c] THEN SndGoto(c, "send") ELSE SndReturn(c, "done")
  /\ UNCHANGED <<connVars, obsVars, injVars, attempt, sent, statVars, monitor, fake_sent,
                 counted, t2a_msg, bypass_method, sock_open, pc>>

\* Between two segments the lock stays held and monitor is read again.
Recheck(c) ==
  /\ sndpc[c] = "between"
  /\ IF monitor[c] THEN SndGoto(c, "send") ELSE SndReturn(c, "done")
  /\ UNCHANGED <<connVars, obsVars, injVars, attempt, sent, statVars, monitor, fake_sent,
                 counted, t2a_msg, bypass_method, sock_open, pc>>

\* _close_conn() on this thread.
SndClose(c) ==
  /\ sndpc[c] = "close"
  /\ CloseSockets(c)
  /\ SndGoto(c, "evict")
  /\ UNCHANGED <<connVars, obsVars, injVars, attempt, sent, statVars, fake_sent, counted,
                 t2a_msg, bypass_method, pc>>

SndEvict(c) ==
  /\ sndpc[c] = "evict"
  /\ connections' = Pop(id[c])
  /\ SndGoto(c, IF counted[c] THEN "closefin" ELSE "closesig")
  /\ UNCHANGED <<id, obsVars, injVars, attempt, sent, statVars, monitor, fake_sent,
                 counted, t2a_msg, bypass_method, sock_open, pc>>

SndCountFailed(c) ==
  /\ sndpc[c] = "closefin"
  /\ FinishFailed
  /\ counted' = [counted EXCEPT ![c] = FALSE]
  /\ SndGoto(c, "closesig")
  /\ UNCHANGED <<connVars, obsVars, injVars, attempt, sent, total, success, monitor,
                 fake_sent, t2a_msg, bypass_method, sock_open, pc>>

SndSignalClose(c) ==
  /\ sndpc[c] = "closesig"
  /\ t2a_msg' = [t2a_msg EXCEPT ![c] = "unexpected_close"]
  /\ SndReturn(c, "done")
  /\ UNCHANGED <<connVars, obsVars, injVars, attempt, sent, statVars, monitor, fake_sent,
                 counted, bypass_method, sock_open, pc>>

SenderStep(c) ==
  \/ StartSend(c) \/ RetrySend(c) \/ SendSegment(c) \/ SendFails(c) \/ Recheck(c)
  \/ SndClose(c) \/ SndEvict(c) \/ SndCountFailed(c) \/ SndSignalClose(c)

-----------------------------------------------------------------------------
(* handle(), on the loop thread. *)

HandleGoto(c, s) == pc' = [pc EXCEPT ![c] = s]

\* Mutant: the connection is no longer monitored but stays in the dict.
DropConnKeepsEntry(c) ==
  /\ monitor' = [monitor EXCEPT ![c] = FALSE]
  /\ UNCHANGED connections

\* conn.monitor = False; connections.pop(conn.id, None)
DropConn(c) ==
  /\ monitor' = [monitor EXCEPT ![c] = FALSE]
  /\ connections' = Pop(id[c])

\* Mutant: the socket is bound but the connection not registered before connect().
AcceptUnregistered(c, port, first, m) ==
  /\ pc[c] = "new" /\ LoopFree(c)
  /\ port \notin BoundPorts
  /\ sock_open' = [sock_open EXCEPT ![c] = TRUE]
  /\ bypass_method' = [bypass_method EXCEPT ![c] = m]
  /\ id' = [id EXCEPT ![c] = <<port, first>>]
  /\ HandleGoto(c, "connecting")
  /\ UNCHANGED <<connections, obsVars, injVars, sndVars, statVars, monitor, fake_sent,
                 counted, t2a_msg, thread_lock>>

\* Bind a free source port and register under the first endpoint's key; the
\* round robin may start anywhere, and "auto" may resolve to any method.
Accept(c, port, first, m) ==
  /\ pc[c] = "new" /\ LoopFree(c)
  /\ port \notin BoundPorts
  /\ sock_open' = [sock_open EXCEPT ![c] = TRUE]
  /\ bypass_method' = [bypass_method EXCEPT ![c] = m]
  /\ id' = [id EXCEPT ![c] = <<port, first>>]
  /\ connections' = [connections EXCEPT ![<<port, first>>] = c]
  /\ HandleGoto(c, "connecting")
  /\ UNCHANGED <<obsVars, injVars, sndVars, statVars, monitor, fake_sent, counted,
                 t2a_msg, thread_lock>>

\* try_connect() returns the endpoint the connection is registered under.
ConnectFirst(c) ==
  /\ pc[c] = "connecting" /\ LoopFree(c)
  /\ HandleGoto(c, "waiting")
  /\ UNCHANGED <<connVars, obsVars, injVars, sndVars, statVars, monitor, fake_sent,
                 counted, t2a_msg, bypass_method, thread_lock, sock_open>>

\* Mutant: re-keying forgets the old entry.
ConnectOtherKeepsEntry(c, ep) ==
  /\ pc[c] = "connecting" /\ LoopFree(c)
  /\ ep # id[c][2]
  /\ id' = [id EXCEPT ![c] = <<@[1], ep>>]
  /\ HandleGoto(c, "rekey")
  /\ UNCHANGED <<connections, obsVars, injVars, sndVars, statVars, monitor, fake_sent,
                 counted, t2a_msg, bypass_method, thread_lock, sock_open>>

\* It returns another one: the entry is taken out and connection.id changes ...
ConnectOther(c, ep) ==
  /\ pc[c] = "connecting" /\ LoopFree(c)
  /\ ep # id[c][2]
  /\ connections' = Pop(id[c])
  /\ id' = [id EXCEPT ![c] = <<@[1], ep>>]
  /\ HandleGoto(c, "rekey")
  /\ UNCHANGED <<obsVars, injVars, sndVars, statVars, monitor, fake_sent, counted,
                 t2a_msg, bypass_method, thread_lock, sock_open>>

\* ... and then the connection is registered again under the new key.
Rekey(c) ==
  /\ pc[c] = "rekey"
  /\ connections' = [connections EXCEPT ![id[c]] = c]
  /\ HandleGoto(c, "waiting")
  /\ UNCHANGED <<id, obsVars, injVars, sndVars, statVars, monitor, fake_sent, counted,
                 t2a_msg, bypass_method, thread_lock, sock_open>>

\* No endpoint: note_fail(None, ...) adds a failure and looks at no connection.
ConnectFails(c) ==
  /\ pc[c] = "connecting" /\ LoopFree(c)
  /\ DropConn(c)
  /\ failed' = failed + 1
  /\ HandleGoto(c, "exit")
  /\ UNCHANGED <<id, obsVars, injVars, sndVars, active, total, success, fake_sent,
                 counted, t2a_msg, bypass_method, thread_lock, sock_open>>

\* The wait on t2a_event ends with a verdict ...
Woken(c) ==
  /\ pc[c] = "waiting" /\ LoopFree(c)
  /\ t2a_msg[c] # NoMsg
  /\ HandleGoto(c, IF t2a_msg[c] = "fake_data_ack_recv" THEN "ok" ELSE "fail")
  /\ UNCHANGED <<connVars, obsVars, injVars, sndVars, statVars, monitor, fake_sent,
                 counted, t2a_msg, bypass_method, thread_lock, sock_open>>

\* Mutant: the wait has no timeout of its own.
TimeoutOnVerdict(c) ==
  /\ pc[c] = "waiting" /\ LoopFree(c)
  /\ t2a_msg[c] = "unexpected_close"
  /\ HandleGoto(c, "fail")
  /\ UNCHANGED <<connVars, obsVars, injVars, sndVars, statVars, monitor, fake_sent,
                 counted, t2a_msg, bypass_method, thread_lock, sock_open>>

\* ... or after HANDSHAKE_TIMEOUT, which may race with the injector's signal.
Timeout(c) ==
  /\ pc[c] = "waiting" /\ LoopFree(c)
  /\ HandleGoto(c, "fail")
  /\ UNCHANGED <<connVars, obsVars, injVars, sndVars, statVars, monitor, fake_sent,
                 counted, t2a_msg, bypass_method, thread_lock, sock_open>>

\* The loop shuts down and cancels the task: only the finally block runs.
Cancel(c) ==
  /\ pc[c] \in {"connecting", "waiting"} /\ LoopFree(c)
  /\ HandleGoto(c, IF monitor[c] THEN "note" ELSE "exit")
  /\ UNCHANGED <<connVars, obsVars, injVars, sndVars, statVars, monitor, fake_sent,
                 counted, t2a_msg, bypass_method, thread_lock, sock_open>>

HandshakeFailed(c) ==
  /\ pc[c] = "fail"
  /\ DropConn(c)
  /\ HandleGoto(c, "note")
  /\ UNCHANGED <<id, obsVars, injVars, sndVars, statVars, fake_sent, counted, t2a_msg,
                 bypass_method, thread_lock, sock_open>>

\* note_fail(conn, ...): who owns the failure counter?
NoteFail(c) ==
  /\ pc[c] = "note"
  /\ HandleGoto(c, IF counted[c] THEN "notefin" ELSE "noteinc")
  /\ UNCHANGED <<connVars, obsVars, injVars, sndVars, statVars, monitor, fake_sent,
                 counted, t2a_msg, bypass_method, thread_lock, sock_open>>

NoteFinishFailed(c) ==
  /\ pc[c] = "notefin"
  /\ monitor' = [monitor EXCEPT ![c] = FALSE]
  /\ FinishFailed
  /\ counted' = [counted EXCEPT ![c] = FALSE]
  /\ HandleGoto(c, "exit")
  /\ UNCHANGED <<connVars, obsVars, injVars, sndVars, total, success, fake_sent,
                 t2a_msg, bypass_method, thread_lock, sock_open>>

NoteIncrement(c) ==
  /\ pc[c] = "noteinc"
  /\ failed' = failed + 1
  /\ HandleGoto(c, "exit")
  /\ UNCHANGED <<connVars, obsVars, injVars, sndVars, active, total, success, monitor,
                 fake_sent, counted, t2a_msg, bypass_method, thread_lock, sock_open>>

HandshakeOk(c) ==
  /\ pc[c] = "ok"
  /\ DropConn(c)
  /\ HandleGoto(c, "relay")
  /\ UNCHANGED <<id, obsVars, injVars, sndVars, statVars, fake_sent, counted, t2a_msg,
                 bypass_method, thread_lock, sock_open>>

\* One of the two relay directions ends and closes both sockets; handle() goes
\* on when its own direction has noticed.
RelayCloses(c) ==
  /\ pc[c] = "relay" /\ sock_open[c] /\ LoopFree(c)
  /\ sock_open' = [sock_open EXCEPT ![c] = FALSE]
  /\ UNCHANGED <<connVars, obsVars, injVars, sndVars, statVars, monitor, fake_sent,
                 counted, t2a_msg, bypass_method, thread_lock, pc>>

RelayEnds(c) ==
  /\ pc[c] = "relay" /\ ~sock_open[c] /\ LoopFree(c)
  /\ HandleGoto(c, "exit")
  /\ UNCHANGED <<connVars, obsVars, injVars, sndVars, statVars, monitor, fake_sent,
                 counted, t2a_msg, bypass_method, thread_lock, sock_open>>

\* The end of the finally block: _drop_conn() and the sockets.
Exit(c) ==
  /\ pc[c] = "exit"
  /\ DropConn(c)
  /\ sock_open' = [sock_open EXCEPT ![c] = FALSE]
  /\ HandleGoto(c, "done")
  /\ UNCHANGED <<id, obsVars, injVars, sndVars, statVars, fake_sent, counted, t2a_msg,
                 bypass_method, thread_lock>>

\* connect() ends: no attempt is left without an outcome after 5 s each.
ConnectEnds(c) == ConnectFirst(c) \/ (\E ep \in Ep : ConnectOther(c, ep)) \/ ConnectFails(c)

HandleStep(c) ==
  \/ ConnectEnds(c) \/ Rekey(c) \/ Woken(c) \/ Timeout(c) \/ HandshakeFailed(c)
  \/ NoteFail(c) \/ NoteFinishFailed(c) \/ NoteIncrement(c) \/ HandshakeOk(c)
  \/ RelayCloses(c) \/ RelayEnds(c) \/ Exit(c)

-----------------------------------------------------------------------------
\* connection_reaper(), another coroutine: evicts an entry that is no longer
\* monitored.  Its age limit of 120 s is left out: it may come at any moment.
Reap(c) ==
  /\ \A d \in Conn : pc[d] \notin NoAwait
  /\ ~monitor[c]
  /\ \E k \in Key : connections[k] = c /\ connections' = Pop(k)
  /\ UNCHANGED <<id, obsVars, injVars, sndVars, statVars, monitor, fake_sent, counted,
                 t2a_msg, bypass_method, thread_lock, sock_open, pc>>

-----------------------------------------------------------------------------
Next ==
  \/ \E p \in Packet : Recv(p)
  \/ \E c \in Conn :
       \/ InjectorStep(c) \/ SenderStep(c) \/ HandleStep(c) \/ Cancel(c) \/ Reap(c)
       \/ \E port \in Port, first \in Ep, m \in Methods : Accept(c, port, first, m)

Spec == Init /\ [][Next]_vars

-----------------------------------------------------------------------------
(* Correctness. *)

Verdicts == {"fake_data_ack_recv", "unexpected_close"}

\* Type invariant.  A connection has its key from the moment it is accepted,
\* and a handler its packet and its connection from the moment it starts.
TypeOK ==
  /\ connections \in [Key -> Conn \cup {None}]
  /\ id \in [Conn -> Key \cup {None}]
  /\ monitor \in [Conn -> BOOLEAN]
  /\ syn_seq \in [Conn -> Seq32 \cup {-1}]
  /\ syn_ack_seq \in [Conn -> Seq32 \cup {-1}]
  /\ sch_fake_sent \in [Conn -> BOOLEAN]
  /\ fake_sent \in [Conn -> BOOLEAN]
  /\ counted \in [Conn -> BOOLEAN]
  /\ t2a_msg \in [Conn -> Verdicts \cup {NoMsg}]
  /\ bypass_method \in [Conn -> Methods \cup {"auto"}]
  /\ thread_lock \in [Conn -> {"free", "injector", "sender"}]
  /\ sock_open \in [Conn -> BOOLEAN]
  /\ pc \in [Conn -> HandleSteps]
  /\ injpc \in InjSteps
  /\ injc \in Conn \cup {None}
  /\ injpkt \in Packet \cup {None}
  /\ sndpc \in [Conn -> SndSteps]
  /\ attempt \in [Conn -> {1, 2}]
  /\ sent \in [Conn -> Nat]
  /\ active \in Nat /\ total \in Nat /\ success \in Nat /\ failed \in Nat
  /\ \A c \in Conn : pc[c] # "new" => id[c] \in Key
  /\ injpc # "recv" => injc \in Conn
  /\ injpc = "lock" => injpkt \in Packet

\* The observer has seen the whole TCP handshake and the job has put the whole
\* fake ClientHello on the wire.
Earned(c) ==
  /\ syn_seq[c] # -1 /\ syn_ack_seq[c] # -1
  /\ sch_fake_sent[c] /\ fake_sent[c] /\ WholeSent(c)

\* A success verdict (fake_tcp.py:457-462) means that this connection's SYN,
\* SYN-ACK and ACK all went through the observer and that its whole fake
\* ClientHello had been put on the wire before the acknowledgement was taken.
SuccessIsEarned ==
  \A c \in Conn : t2a_msg[c] = "fake_data_ack_recv" => Earned(c)

\* Nothing fake is sent once the connection has its verdict, whether the
\* verdict comes from the injector between two attempts of delayed_retry or
\* between the segments of a split (fake_tcp.py:184, 222, 295, 348).
NoFakeAfterVerdict ==
  [][\A c \in Conn : sent'[c] # sent[c] => t2a_msg[c] = NoMsg]_vars

\* The injector and the jobs implement Bypass, whatever handle() does
\* meanwhile.  The phase is read off the verdict and the sch_fake_sent flag.
Phase(c) ==
  CASE t2a_msg[c] = "fake_data_ack_recv" -> "acked"
    [] t2a_msg[c] = "unexpected_close" -> "closed"
    [] t2a_msg[c] = NoMsg -> IF sch_fake_sent[c] THEN "sending" ELSE "observing"

Abstract == INSTANCE Bypass WITH
  phase <- [c \in Conn |-> Phase(c)],
  whole <- [c \in Conn |-> WholeSent(c)]

\* The verdict is given once and is final; a good one follows a whole fake
\* ClientHello; no segment follows a verdict.
ImplementsBypass == Abstract!Spec

\* A connection gets at most one fake-send job: none has been scheduled when
\* the observer schedules one (the sch_fake_sent guard, fake_tcp.py:472).
OneJob == \A c \in Conn : injpc = "submit" /\ injc = c => sndpc[c] = "none"

\* Sequence numbers are never rewritten while the fake segments, computed from
\* them, are on their way.
SequenceStable ==
  [][\A c \in Conn : sndpc[c] # "none" =>
       syn_seq'[c] = syn_seq[c] /\ syn_ack_seq'[c] = syn_ack_seq[c]]_vars

\* When handle() is done nothing refers to its connection any more: no key of
\* the shared dict maps to it (the leak main.py:923-926 closes), whatever
\* re-keying and whatever evictions by the other threads happened before.
NoLeak ==
  \A c \in Conn : pc[c] = "done" => \A k \in Key : connections[k] # c

\* The dict entry of a connection is always under its current identity, so that
\* a pop of connection.id takes it out.
KeyedById ==
  \A c \in Conn, k \in Key : connections[k] = c => id[c] = k

\* The gauges never claim more bypasses than were started: a connection is not
\* both still active and already a success (finish_success,
\* monitor_connection.py:195), even when handle() times out at that moment.
GaugesBounded == active + success <= total

\* Every accepted client's handle() comes to its end, unless its relay goes on for
\* ever: neither the dials nor the wait for another thread's verdict nor the paths
\* out of a failed one (main.py:744-838) can hold it.
HandleTerminates ==
  \A c \in Conn : pc[c] = "connecting" ~> pc[c] = "done" \/ [](pc[c] = "relay")

\* The injector, one thread for all connections, always gets back to
\* receiving, even when a job holds the lock of the packet's connection.
InjectorReturns == injpc # "recv" ~> injpc = "recv"

\* A scheduled job ends and gives the lock back.
JobTerminates == \A c \in Conn : sndpc[c] = "queued" ~> sndpc[c] = "done"

-----------------------------------------------------------------------------
(* The inductive invariant behind the safety properties, in parts.        *)

\* thread_lock is held exactly inside the locked stretches of the two threads.
LockInv == \A c \in Conn :
  /\ thread_lock[c] = "injector" <=> injpc \in InjLocked /\ injc = c
  /\ thread_lock[c] = "sender" <=> sndpc[c] \in SndLocked

InjectorInv ==
  /\ injpc # "recv" => pc[injc] # "new"
  /\ injpc \in InjLocked => t2a_msg[injc] = NoMsg
  /\ injpc \in {"count", "submit"} => sch_fake_sent[injc] /\ sndpc[injc] = "none"
  /\ injpc \in {"succ", "finish", "signal"} => ~monitor[injc] /\ Earned(injc)
  /\ injpc \in {"evict", "closefin", "closesig"} => ~monitor[injc]

SenderInv == \A c \in Conn :
  /\ sndpc[c] # "none" => sch_fake_sent[c]
  /\ sndpc[c] \in {"none", "queued"} => sent[c] = 0 /\ attempt[c] = 1 /\ ~fake_sent[c]
  /\ sndpc[c] \in SndLocked => t2a_msg[c] = NoMsg
  /\ sndpc[c] \in {"evict", "closefin", "closesig"} => ~monitor[c]
  /\ sndpc[c] = "pause" \/ attempt[c] = 2 =>
       bypass_method[c] = "delayed_retry" /\ sent[c] >= 1
  /\ fake_sent[c] /\ monitor[c] /\ sndpc[c] # "close" => WholeSent(c)

ObserverInv == \A c \in Conn :
  /\ pc[c] = "new" => ~sch_fake_sent[c]
  /\ sch_fake_sent[c] => syn_seq[c] # -1 /\ syn_ack_seq[c] # -1
  /\ t2a_msg[c] # NoMsg => ~monitor[c] /\ pc[c] # "new"

DictInv == \A c \in Conn, k \in Key :
  connections[k] = c => id[c] = k /\ pc[c] \notin {"new", "done"}

IInv == TypeOK /\ LockInv /\ InjectorInv /\ SenderInv /\ ObserverInv /\ DictInv /\ SuccessIsEarned

(* What the counters stand for, the invariant behind GaugesBounded.        *)

Scheduled == {c \in Conn : sch_fake_sent[c]}

Succeeded == {c \in Conn :
  (injpc = "signal" /\ injc = c) \/ t2a_msg[c] = "fake_data_ack_recv"}

Uncounted == IF injpc = "count" THEN 1 ELSE 0

GaugeInv ==
  /\ total = Cardinality(Scheduled)
  /\ success <= Cardinality(Succeeded)
  /\ active + success + Uncounted <= total

-----------------------------------------------------------------------------
(* What the comments and the documents promise and the code does not do.  *)

\* Each accepted connection is counted as failed at most once.
FailedOnce == failed <= Cardinality({c \in Conn : pc[c] # "new"})

\* With every thread at rest and every handle() done, no connection is active.
Quiet == /\ injpc = "recv"
         /\ \A c \in Conn : pc[c] \in {"new", "done"} /\ sndpc[c] \in {"none", "done"}
ActiveReturnsToZero == Quiet => active = 0

=============================================================================
