--------------------------- MODULE InjectorProofs ---------------------------
(***************************************************************************)
(* Proofs about Injector, for every set of connections, ports, endpoints   *)
(* and methods and every size of the sequence number space.                *)
(***************************************************************************)
EXTENDS Injector, FiniteSetTheorems, TLAPS

(***************************************************************************)
(* Type correctness.                                                       *)
(***************************************************************************)
LEMMA TypeInit == Init => TypeOK
  BY ConstantAssumption, SMTT(30) DEF Init, TypeOK, Verdicts, NoMsg, HandleSteps, InjSteps, InjLocked,
     SndSteps, SndLocked

LEMMA TypeNext == TypeOK /\ [Next]_vars => TypeOK'
  <2> SUFFICES ASSUME TypeOK, [Next]_vars PROVE TypeOK'
    OBVIOUS
  <2> USE ConstantAssumption DEF TypeOK, HandleSteps, InjSteps, InjLocked, SndSteps, SndLocked,
          connVars, obsVars, injVars, sndVars, statVars, Verdicts, NoMsg,
          InjGoto, InjReturn, Reinject, Release, SndGoto, SndReturn, HandleGoto,
          FinishFailed, FinishSuccess, Decremented, DropConn, Pop, CloseSockets,
          Entered, Monitored
  <2>1. ASSUME NEW p \in Packet, Recv(p)
        PROVE  TypeOK'
    BY <2>1 DEF Recv, Packet
  <2>2. ASSUME NEW c \in Conn, ForwardUnmonitored(c)
        PROVE  TypeOK'
    BY <2>2 DEF ForwardUnmonitored
  <2>3. ASSUME NEW c \in Conn, ObserveSyn(c)
        PROVE  TypeOK'
    BY <2>3 DEF ObserveSyn, IsSyn, Packet
  <2>4. ASSUME NEW c \in Conn, ObserveSynAck(c)
        PROVE  TypeOK'
    BY <2>4 DEF ObserveSynAck, IsSynAck, Packet
  <2>5. ASSUME NEW c \in Conn, ObserveHandshakeAck(c)
        PROVE  TypeOK'
    <3>1. CASE injpc' = "count"
      <4>1. InjGoto(c, "count")
        BY <2>5, <3>1 DEF ObserveHandshakeAck
      <4>2. /\ sch_fake_sent' = [sch_fake_sent EXCEPT ![c] = TRUE]
            /\ total' = total + 1
        BY <2>5, <3>1 DEF ObserveHandshakeAck
      <4>3. total' \in Nat
        BY <4>2
      <4>4. QED
        BY <2>5, <4>1, <4>2, <4>3 DEF ObserveHandshakeAck
    <3>2. CASE injpc' # "count"
      BY <2>5, <3>2 DEF ObserveHandshakeAck
    <3>3. QED
      BY <3>1, <3>2
  <2>6. ASSUME NEW c \in Conn, CountActive(c)
        PROVE  TypeOK'
    BY <2>6 DEF CountActive
  <2>7. ASSUME NEW c \in Conn, Submit(c)
        PROVE  TypeOK'
    BY <2>7 DEF Submit
  <2>8. ASSUME NEW c \in Conn, ObserveFakeAck(c)
        PROVE  TypeOK'
    BY <2>8 DEF ObserveFakeAck
  <2>9. ASSUME NEW c \in Conn, ReadCountedOnSuccess(c)
        PROVE  TypeOK'
    BY <2>9 DEF ReadCountedOnSuccess
  <2>10. ASSUME NEW c \in Conn, CountSuccess(c)
        PROVE  TypeOK'
    BY <2>10 DEF CountSuccess
  <2>11. ASSUME NEW c \in Conn, SignalSuccess(c)
        PROVE  TypeOK'
    BY <2>11 DEF SignalSuccess
  <2>12. ASSUME NEW c \in Conn, Unexpected(c)
        PROVE  TypeOK'
    BY <2>12 DEF Unexpected
  <2>13. ASSUME NEW c \in Conn, InjClose(c)
        PROVE  TypeOK'
    BY <2>13 DEF InjClose
  <2>14. ASSUME NEW c \in Conn, InjEvict(c)
        PROVE  TypeOK'
    BY <2>14 DEF InjEvict
  <2>15. ASSUME NEW c \in Conn, InjCountFailed(c)
        PROVE  TypeOK'
    BY <2>15 DEF InjCountFailed
  <2>16. ASSUME NEW c \in Conn, InjSignalClose(c)
        PROVE  TypeOK'
    BY <2>16 DEF InjSignalClose
  <2>17. ASSUME NEW c \in Conn, StartSend(c)
        PROVE  TypeOK'
    BY <2>17 DEF StartSend
  <2>18. ASSUME NEW c \in Conn, RetrySend(c)
        PROVE  TypeOK'
    BY <2>18 DEF RetrySend
  <2>19. ASSUME NEW c \in Conn, SendSegment(c)
        PROVE  TypeOK'
    BY <2>19 DEF SendSegment
  <2>20. ASSUME NEW c \in Conn, SendFails(c)
        PROVE  TypeOK'
    BY <2>20 DEF SendFails
  <2>21. ASSUME NEW c \in Conn, Recheck(c)
        PROVE  TypeOK'
    BY <2>21 DEF Recheck
  <2>22. ASSUME NEW c \in Conn, SndClose(c)
        PROVE  TypeOK'
    BY <2>22 DEF SndClose
  <2>23. ASSUME NEW c \in Conn, SndEvict(c)
        PROVE  TypeOK'
    BY <2>23 DEF SndEvict
  <2>24. ASSUME NEW c \in Conn, SndCountFailed(c)
        PROVE  TypeOK'
    BY <2>24 DEF SndCountFailed
  <2>25. ASSUME NEW c \in Conn, SndSignalClose(c)
        PROVE  TypeOK'
    BY <2>25 DEF SndSignalClose
  <2>26. ASSUME NEW c \in Conn, ConnectFirst(c)
        PROVE  TypeOK'
    BY <2>26 DEF ConnectFirst
  <2>27. ASSUME NEW c \in Conn, ConnectFails(c)
        PROVE  TypeOK'
    BY <2>27 DEF ConnectFails
  <2>28. ASSUME NEW c \in Conn, Rekey(c)
        PROVE  TypeOK'
    BY <2>28 DEF Rekey
  <2>29. ASSUME NEW c \in Conn, Woken(c)
        PROVE  TypeOK'
    BY <2>29 DEF Woken
  <2>30. ASSUME NEW c \in Conn, Timeout(c)
        PROVE  TypeOK'
    BY <2>30 DEF Timeout
  <2>31. ASSUME NEW c \in Conn, HandshakeFailed(c)
        PROVE  TypeOK'
    BY <2>31 DEF HandshakeFailed
  <2>32. ASSUME NEW c \in Conn, NoteFail(c)
        PROVE  TypeOK'
    BY <2>32 DEF NoteFail
  <2>33. ASSUME NEW c \in Conn, NoteFinishFailed(c)
        PROVE  TypeOK'
    BY <2>33 DEF NoteFinishFailed
  <2>34. ASSUME NEW c \in Conn, NoteIncrement(c)
        PROVE  TypeOK'
    BY <2>34 DEF NoteIncrement
  <2>35. ASSUME NEW c \in Conn, HandshakeOk(c)
        PROVE  TypeOK'
    BY <2>35 DEF HandshakeOk
  <2>36. ASSUME NEW c \in Conn, RelayCloses(c)
        PROVE  TypeOK'
    BY <2>36 DEF RelayCloses
  <2>37. ASSUME NEW c \in Conn, RelayEnds(c)
        PROVE  TypeOK'
    BY <2>37 DEF RelayEnds
  <2>38. ASSUME NEW c \in Conn, Exit(c)
        PROVE  TypeOK'
    BY <2>38 DEF Exit
  <2>39. ASSUME NEW c \in Conn, Cancel(c)
        PROVE  TypeOK'
    BY <2>39 DEF Cancel
  <2>44. ASSUME NEW c \in Conn, Reap(c)
        PROVE  TypeOK'
    BY <2>44 DEF Reap
  <2>40. ASSUME NEW c \in Conn, NEW ep \in Ep, ConnectOther(c, ep)
        PROVE  TypeOK'
    BY <2>40 DEF ConnectOther, Key
  <2>41. ASSUME NEW c \in Conn, NEW port \in Port, NEW first \in Ep, NEW m \in Methods,
              Accept(c, port, first, m)
        PROVE  TypeOK'
    BY <2>41 DEF Accept, Key
  <2>42. CASE UNCHANGED vars
    BY <2>42 DEF vars, connVars, obsVars, injVars, sndVars, statVars
  <2>43. QED
    BY <2>44, <2>1, <2>2, <2>3, <2>4, <2>5, <2>6, <2>7, <2>8, <2>9, <2>10, <2>11, <2>12, <2>13, <2>14, <2>15, <2>16, <2>17, <2>18, <2>19, <2>20, <2>21, <2>22, <2>23, <2>24, <2>25, <2>26, <2>27, <2>28, <2>29, <2>30, <2>31, <2>32, <2>33, <2>34, <2>35, <2>36, <2>37, <2>38, <2>39, <2>40, <2>41, <2>42
       DEF Next, InjectorStep, SenderStep, HandleStep, ConnectEnds

(***************************************************************************)
(* What each thread leaves alone.                                          *)
(***************************************************************************)
\* Steps of the injector on connection c.
InjectorFrame(c) ==
  /\ UNCHANGED <<id, bypass_method, pc, attempt, sent, fake_sent>>
  /\ injc = c /\ injpc # "recv" /\ injpc' \in InjSteps \ {"lock"}
  /\ injpc' = "recv" \/ injc' = c
  /\ \A d \in Conn \ {c} :
       /\ monitor'[d] = monitor[d] /\ t2a_msg'[d] = t2a_msg[d]
       /\ syn_seq'[d] = syn_seq[d] /\ syn_ack_seq'[d] = syn_ack_seq[d]
       /\ sch_fake_sent'[d] = sch_fake_sent[d] /\ sndpc'[d] = sndpc[d]
       /\ thread_lock'[d] = thread_lock[d]
  /\ monitor'[c] => monitor[c]
  /\ connections' \in {connections, Pop(id[c])}

\* Steps of the fake-send job of connection c.
SenderFrame(c) ==
  /\ UNCHANGED <<id, bypass_method, pc, obsVars, injVars>>
  /\ \A d \in Conn \ {c} :
       /\ monitor'[d] = monitor[d] /\ t2a_msg'[d] = t2a_msg[d]
       /\ fake_sent'[d] = fake_sent[d] /\ sndpc'[d] = sndpc[d]
       /\ attempt'[d] = attempt[d] /\ sent'[d] = sent[d]
       /\ thread_lock'[d] = thread_lock[d]
  /\ monitor'[c] => monitor[c]
  /\ connections' \in {connections, Pop(id[c])}

\* Steps of any handle(), once the connection exists.
HandleFrame ==
  /\ UNCHANGED <<obsVars, injVars, sndVars, fake_sent, t2a_msg, thread_lock, bypass_method>>
  /\ \A d \in Conn : monitor'[d] => monitor[d]
  /\ \A d \in Conn : pc'[d] = "new" <=> pc[d] = "new"

LEMMA InjectorFrames ==
  ASSUME TypeOK, NEW c \in Conn, InjectorStep(c)
  PROVE  InjectorFrame(c)
  <1> USE DEF InjGoto, InjReturn, Reinject, Release, SndGoto, SndReturn,
          HandleGoto, DropConn, Pop, CloseSockets, Entered, Monitored,
          connVars, obsVars, injVars, sndVars, statVars
  <1> USE DEF InjectorFrame, TypeOK, InjSteps, InjLocked
  <1>1. CASE ForwardUnmonitored(c)
    BY <1>1, TypeOK DEF ForwardUnmonitored
  <1>2. CASE ObserveSyn(c)
    BY <1>2, TypeOK DEF ObserveSyn
  <1>3. CASE ObserveSynAck(c)
    BY <1>3, TypeOK DEF ObserveSynAck
  <1>4. CASE ObserveHandshakeAck(c)
    BY <1>4, TypeOK DEF ObserveHandshakeAck
  <1>5. CASE CountActive(c)
    BY <1>5, TypeOK DEF CountActive
  <1>6. CASE Submit(c)
    BY <1>6, TypeOK DEF Submit
  <1>7. CASE ObserveFakeAck(c)
    BY <1>7, TypeOK DEF ObserveFakeAck
  <1>8. CASE ReadCountedOnSuccess(c)
    BY <1>8, TypeOK DEF ReadCountedOnSuccess
  <1>9. CASE CountSuccess(c)
    BY <1>9, TypeOK DEF CountSuccess
  <1>10. CASE SignalSuccess(c)
    BY <1>10, TypeOK DEF SignalSuccess
  <1>11. CASE Unexpected(c)
    BY <1>11, TypeOK DEF Unexpected
  <1>12. CASE InjClose(c)
    BY <1>12, TypeOK DEF InjClose
  <1>13. CASE InjEvict(c)
    BY <1>13, TypeOK DEF InjEvict
  <1>14. CASE InjCountFailed(c)
    BY <1>14, TypeOK DEF InjCountFailed
  <1>15. CASE InjSignalClose(c)
    BY <1>15, TypeOK DEF InjSignalClose
  <1> QED
    BY <1>1, <1>2, <1>3, <1>4, <1>5, <1>6, <1>7, <1>8, <1>9, <1>10, <1>11, <1>12, <1>13, <1>14, <1>15 DEF InjectorStep

LEMMA SenderFrames ==
  ASSUME TypeOK, NEW c \in Conn, SenderStep(c)
  PROVE  SenderFrame(c)
  <1> USE DEF InjGoto, InjReturn, Reinject, Release, SndGoto, SndReturn,
          HandleGoto, DropConn, Pop, CloseSockets, Entered, Monitored,
          connVars, obsVars, injVars, sndVars, statVars
  <1> USE DEF SenderFrame, TypeOK
  <1>1. CASE StartSend(c)
    BY <1>1, TypeOK DEF StartSend
  <1>2. CASE RetrySend(c)
    BY <1>2, TypeOK DEF RetrySend
  <1>3. CASE SendSegment(c)
    BY <1>3, TypeOK DEF SendSegment
  <1>4. CASE SendFails(c)
    BY <1>4, TypeOK DEF SendFails
  <1>5. CASE Recheck(c)
    BY <1>5, TypeOK DEF Recheck
  <1>6. CASE SndClose(c)
    BY <1>6, TypeOK DEF SndClose
  <1>7. CASE SndEvict(c)
    BY <1>7, TypeOK DEF SndEvict
  <1>8. CASE SndCountFailed(c)
    BY <1>8, TypeOK DEF SndCountFailed
  <1>9. CASE SndSignalClose(c)
    BY <1>9, TypeOK DEF SndSignalClose
  <1> QED
    BY <1>1, <1>2, <1>3, <1>4, <1>5, <1>6, <1>7, <1>8, <1>9 DEF SenderStep

LEMMA HandleFrames ==
  ASSUME TypeOK, NEW c \in Conn, HandleStep(c) \/ Cancel(c) \/ Reap(c)
  PROVE  HandleFrame
  <1> USE DEF InjGoto, InjReturn, Reinject, Release, SndGoto, SndReturn,
          HandleGoto, DropConn, Pop, CloseSockets, Entered, Monitored,
          connVars, obsVars, injVars, sndVars, statVars
  <1> USE DEF HandleFrame, TypeOK
  <1>1. CASE ConnectFirst(c)
    BY <1>1, TypeOK DEF ConnectFirst
  <1>2. CASE ConnectFails(c)
    BY <1>2, TypeOK DEF ConnectFails
  <1>3. CASE Rekey(c)
    BY <1>3, TypeOK DEF Rekey
  <1>4. CASE Woken(c)
    BY <1>4, TypeOK DEF Woken
  <1>5. CASE Timeout(c)
    BY <1>5, TypeOK DEF Timeout
  <1>6. CASE HandshakeFailed(c)
    BY <1>6, TypeOK DEF HandshakeFailed
  <1>7. CASE NoteFail(c)
    BY <1>7, TypeOK DEF NoteFail
  <1>8. CASE NoteFinishFailed(c)
    BY <1>8, TypeOK DEF NoteFinishFailed
  <1>9. CASE NoteIncrement(c)
    BY <1>9, TypeOK DEF NoteIncrement
  <1>10. CASE HandshakeOk(c)
    BY <1>10, TypeOK DEF HandshakeOk
  <1>11. CASE RelayCloses(c)
    BY <1>11, TypeOK DEF RelayCloses
  <1>12. CASE RelayEnds(c)
    BY <1>12, TypeOK DEF RelayEnds
  <1>13. CASE Exit(c)
    BY <1>13, TypeOK DEF Exit
  <1>14. CASE Cancel(c)
    BY <1>14, TypeOK DEF Cancel
  <1>15. CASE \E ep \in Ep : ConnectOther(c, ep)
    BY <1>15, TypeOK DEF ConnectOther
  <1>16. CASE Reap(c)
    BY <1>16, TypeOK DEF Reap
  <1> QED
    BY <1>16, <1>1, <1>2, <1>3, <1>4, <1>5, <1>6, <1>7, <1>8, <1>9, <1>10, <1>11, <1>12, <1>13, <1>14, <1>15 DEF HandleStep, ConnectEnds

(***************************************************************************)
(* Each part of the inductive invariant is preserved.                      *)
(***************************************************************************)
LEMMA SegmentsType == \A m, n : Segments(m, n) \in 1 .. 3
  BY DEF Segments

LEMMA LockInvNext ==
  ASSUME IInv, [Next]_vars
  PROVE  LockInv'
  <1> USE DEF InjGoto, InjReturn, Reinject, Release, SndGoto, SndReturn,
          HandleGoto, DropConn, Pop, CloseSockets, Entered, Monitored,
          connVars, obsVars, injVars, sndVars, statVars
  <1> USE DEF IInv, LockInv
  <1>0. TypeOK /\ TypeOK'
    BY TypeNext
  <1>1. ASSUME NEW p \in Packet, Recv(p)
        PROVE  LockInv'
    BY <1>0, <1>1 DEF Recv, TypeOK, ObserverInv, DictInv, Packet, InjLocked, SndLocked, Earned, WholeSent
  <1>2. ASSUME NEW c \in Conn, InjectorStep(c)
        PROVE  LockInv'
    <2>1. InjectorFrame(c)
      BY <1>0, <1>2, InjectorFrames
    <2> USE DEF InjectorFrame, TypeOK, InjLocked
    <2>2. CASE ForwardUnmonitored(c)
      BY <1>0, <2>1, <2>2 DEF ForwardUnmonitored
    <2>3. CASE ObserveSyn(c)
      BY <1>0, <2>1, <2>3 DEF ObserveSyn
    <2>4. CASE ObserveSynAck(c)
      BY <1>0, <2>1, <2>4 DEF ObserveSynAck
    <2>5. CASE ObserveHandshakeAck(c)
      BY <1>0, <2>1, <2>5 DEF ObserveHandshakeAck
    <2>6. CASE CountActive(c)
      BY <1>0, <2>1, <2>6 DEF CountActive
    <2>7. CASE Submit(c)
      BY <1>0, <2>1, <2>7 DEF Submit, InjectorInv, SndLocked
    <2>8. CASE ObserveFakeAck(c)
      BY <1>0, <2>1, <2>8 DEF ObserveFakeAck
    <2>9. CASE ReadCountedOnSuccess(c)
      BY <1>0, <2>1, <2>9 DEF ReadCountedOnSuccess
    <2>10. CASE CountSuccess(c)
      BY <1>0, <2>1, <2>10 DEF CountSuccess
    <2>11. CASE SignalSuccess(c)
      BY <1>0, <2>1, <2>11 DEF SignalSuccess
    <2>12. CASE Unexpected(c)
      BY <1>0, <2>1, <2>12 DEF Unexpected
    <2>13. CASE InjClose(c)
      BY <1>0, <2>1, <2>13 DEF InjClose
    <2>14. CASE InjEvict(c)
      BY <1>0, <2>1, <2>14 DEF InjEvict
    <2>15. CASE InjCountFailed(c)
      BY <1>0, <2>1, <2>15 DEF InjCountFailed
    <2>16. CASE InjSignalClose(c)
      BY <1>0, <2>1, <2>16 DEF InjSignalClose
    <2>17. QED
      BY <1>2, <2>2, <2>3, <2>4, <2>5, <2>6, <2>7, <2>8, <2>9, <2>10, <2>11, <2>12, <2>13, <2>14, <2>15, <2>16 DEF InjectorStep
  <1>3. ASSUME NEW c \in Conn, SenderStep(c)
        PROVE  LockInv'
    <2>1. SenderFrame(c)
      BY <1>0, <1>3, SenderFrames
    <2> USE DEF SenderFrame, TypeOK, SndLocked
    <2>2. CASE StartSend(c)
      BY <1>0, <2>1, <2>2 DEF StartSend
    <2>3. CASE RetrySend(c)
      BY <1>0, <2>1, <2>3 DEF RetrySend
    <2>4. CASE SendSegment(c)
      BY <1>0, <2>1, <2>4 DEF SendSegment
    <2>5. CASE SendFails(c)
      BY <1>0, <2>1, <2>5 DEF SendFails
    <2>6. CASE Recheck(c)
      BY <1>0, <2>1, <2>6 DEF Recheck
    <2>7. CASE SndClose(c)
      BY <1>0, <2>1, <2>7 DEF SndClose
    <2>8. CASE SndEvict(c)
      BY <1>0, <2>1, <2>8 DEF SndEvict
    <2>9. CASE SndCountFailed(c)
      BY <1>0, <2>1, <2>9 DEF SndCountFailed
    <2>10. CASE SndSignalClose(c)
      BY <1>0, <2>1, <2>10 DEF SndSignalClose
    <2>11. QED
      BY <1>3, <2>2, <2>3, <2>4, <2>5, <2>6, <2>7, <2>8, <2>9, <2>10 DEF SenderStep
  <1>4. ASSUME NEW c \in Conn, HandleStep(c) \/ Cancel(c) \/ Reap(c)
        PROVE  LockInv'
    <2>1. HandleFrame
      BY <1>0, <1>4, HandleFrames
    <2>2. QED
      BY <1>0, <2>1 DEF HandleFrame, TypeOK, InjLocked, SndLocked, Earned, WholeSent
  <1>5. ASSUME NEW c \in Conn, NEW port \in Port, NEW first \in Ep, NEW m \in Methods,
              Accept(c, port, first, m)
        PROVE  LockInv'
    BY <1>0, <1>5 DEF Accept, TypeOK, ObserverInv, InjectorInv, SenderInv, InjLocked, SndLocked, Earned, WholeSent, NoMsg
  <1>6. CASE UNCHANGED vars
    BY <1>6 DEF vars, TypeOK, InjLocked, SndLocked, Earned, WholeSent
  <1>7. QED
    BY <1>1, <1>2, <1>3, <1>4, <1>5, <1>6 DEF Next

LEMMA InjectorInvNext ==
  ASSUME IInv, [Next]_vars
  PROVE  InjectorInv'
  <1> USE DEF InjGoto, InjReturn, Reinject, Release, SndGoto, SndReturn,
          HandleGoto, DropConn, Pop, CloseSockets, Entered, Monitored,
          connVars, obsVars, injVars, sndVars, statVars
  <1> USE DEF IInv, InjectorInv
  <1>0. TypeOK /\ TypeOK'
    BY TypeNext
  <1>1. ASSUME NEW p \in Packet, Recv(p)
        PROVE  InjectorInv'
    BY <1>0, <1>1 DEF Recv, TypeOK, ObserverInv, DictInv, Packet, InjLocked, SndLocked, Earned, WholeSent
  <1>2. ASSUME NEW c \in Conn, InjectorStep(c)
        PROVE  InjectorInv'
    <2>1. InjectorFrame(c)
      BY <1>0, <1>2, InjectorFrames
    <2> USE DEF InjectorFrame, TypeOK, InjLocked
    <2>2. CASE ForwardUnmonitored(c)
      BY <1>0, <2>1, <2>2 DEF ForwardUnmonitored, LockInv, SenderInv, ObserverInv, Earned, WholeSent, Expected, IsFakeAck, IsHandshakeAck, SndLocked
    <2>3. CASE ObserveSyn(c)
      BY <1>0, <2>1, <2>3 DEF ObserveSyn, LockInv, SenderInv, ObserverInv, Earned, WholeSent, Expected, IsFakeAck, IsHandshakeAck, SndLocked
    <2>4. CASE ObserveSynAck(c)
      BY <1>0, <2>1, <2>4 DEF ObserveSynAck, LockInv, SenderInv, ObserverInv, Earned, WholeSent, Expected, IsFakeAck, IsHandshakeAck, SndLocked
    <2>5. CASE ObserveHandshakeAck(c)
      BY <1>0, <2>1, <2>5 DEF ObserveHandshakeAck, LockInv, SenderInv, ObserverInv, Earned, WholeSent, Expected, IsFakeAck, IsHandshakeAck, SndLocked
    <2>6. CASE CountActive(c)
      BY <1>0, <2>1, <2>6 DEF CountActive, LockInv, SenderInv, ObserverInv, Earned, WholeSent, Expected, IsFakeAck, IsHandshakeAck, SndLocked
    <2>7. CASE Submit(c)
      BY <1>0, <2>1, <2>7 DEF Submit, LockInv, SenderInv, ObserverInv, Earned, WholeSent, Expected, IsFakeAck, IsHandshakeAck, SndLocked
    <2>8. CASE ObserveFakeAck(c)
      BY <1>0, <2>1, <2>8 DEF ObserveFakeAck, LockInv, SenderInv, ObserverInv, Earned, WholeSent, Expected, IsFakeAck, IsHandshakeAck, SndLocked
    <2>9. CASE ReadCountedOnSuccess(c)
      BY <1>0, <2>1, <2>9 DEF ReadCountedOnSuccess, LockInv, SenderInv, ObserverInv, Earned, WholeSent, Expected, IsFakeAck, IsHandshakeAck, SndLocked
    <2>10. CASE CountSuccess(c)
      BY <1>0, <2>1, <2>10 DEF CountSuccess, LockInv, SenderInv, ObserverInv, Earned, WholeSent, Expected, IsFakeAck, IsHandshakeAck, SndLocked
    <2>11. CASE SignalSuccess(c)
      BY <1>0, <2>1, <2>11 DEF SignalSuccess, LockInv, SenderInv, ObserverInv, Earned, WholeSent, Expected, IsFakeAck, IsHandshakeAck, SndLocked
    <2>12. CASE Unexpected(c)
      BY <1>0, <2>1, <2>12 DEF Unexpected, LockInv, SenderInv, ObserverInv, Earned, WholeSent, Expected, IsFakeAck, IsHandshakeAck, SndLocked
    <2>13. CASE InjClose(c)
      BY <1>0, <2>1, <2>13 DEF InjClose, LockInv, SenderInv, ObserverInv, Earned, WholeSent, Expected, IsFakeAck, IsHandshakeAck, SndLocked
    <2>14. CASE InjEvict(c)
      BY <1>0, <2>1, <2>14 DEF InjEvict, LockInv, SenderInv, ObserverInv, Earned, WholeSent, Expected, IsFakeAck, IsHandshakeAck, SndLocked
    <2>15. CASE InjCountFailed(c)
      BY <1>0, <2>1, <2>15 DEF InjCountFailed, LockInv, SenderInv, ObserverInv, Earned, WholeSent, Expected, IsFakeAck, IsHandshakeAck, SndLocked
    <2>16. CASE InjSignalClose(c)
      BY <1>0, <2>1, <2>16 DEF InjSignalClose, LockInv, SenderInv, ObserverInv, Earned, WholeSent, Expected, IsFakeAck, IsHandshakeAck, SndLocked
    <2>17. QED
      BY <1>2, <2>2, <2>3, <2>4, <2>5, <2>6, <2>7, <2>8, <2>9, <2>10, <2>11, <2>12, <2>13, <2>14, <2>15, <2>16 DEF InjectorStep
  <1>3. ASSUME NEW c \in Conn, SenderStep(c)
        PROVE  InjectorInv'
    <2>1. SenderFrame(c)
      BY <1>0, <1>3, SenderFrames
    <2> USE DEF SenderFrame, TypeOK, SndLocked
    <2>2. CASE StartSend(c)
      BY <1>0, <2>1, <2>2 DEF StartSend, LockInv, Earned, WholeSent, InjLocked
    <2>3. CASE RetrySend(c)
      BY <1>0, <2>1, <2>3 DEF RetrySend, LockInv, Earned, WholeSent, InjLocked
    <2>4. CASE SendSegment(c)
      BY <1>0, <2>1, <2>4 DEF SendSegment, LockInv, Earned, WholeSent, InjLocked
    <2>5. CASE SendFails(c)
      BY <1>0, <2>1, <2>5 DEF SendFails, LockInv, Earned, WholeSent, InjLocked
    <2>6. CASE Recheck(c)
      BY <1>0, <2>1, <2>6 DEF Recheck, LockInv, Earned, WholeSent, InjLocked
    <2>7. CASE SndClose(c)
      BY <1>0, <2>1, <2>7 DEF SndClose, LockInv, Earned, WholeSent, InjLocked
    <2>8. CASE SndEvict(c)
      BY <1>0, <2>1, <2>8 DEF SndEvict, LockInv, Earned, WholeSent, InjLocked
    <2>9. CASE SndCountFailed(c)
      BY <1>0, <2>1, <2>9 DEF SndCountFailed, LockInv, Earned, WholeSent, InjLocked
    <2>10. CASE SndSignalClose(c)
      BY <1>0, <2>1, <2>10 DEF SndSignalClose, LockInv, Earned, WholeSent, InjLocked
    <2>11. QED
      BY <1>3, <2>2, <2>3, <2>4, <2>5, <2>6, <2>7, <2>8, <2>9, <2>10 DEF SenderStep
  <1>4. ASSUME NEW c \in Conn, HandleStep(c) \/ Cancel(c) \/ Reap(c)
        PROVE  InjectorInv'
    <2>1. HandleFrame
      BY <1>0, <1>4, HandleFrames
    <2>2. QED
      BY <1>0, <2>1 DEF HandleFrame, TypeOK, InjLocked, SndLocked, Earned, WholeSent
  <1>5. ASSUME NEW c \in Conn, NEW port \in Port, NEW first \in Ep, NEW m \in Methods,
              Accept(c, port, first, m)
        PROVE  InjectorInv'
    BY <1>0, <1>5 DEF Accept, TypeOK, ObserverInv, InjectorInv, SenderInv, InjLocked, SndLocked, Earned, WholeSent, NoMsg
  <1>6. CASE UNCHANGED vars
    BY <1>6 DEF vars, TypeOK, InjLocked, SndLocked, Earned, WholeSent
  <1>7. QED
    BY <1>1, <1>2, <1>3, <1>4, <1>5, <1>6 DEF Next

LEMMA SenderInvNext ==
  ASSUME IInv, [Next]_vars
  PROVE  SenderInv'
  <1> USE DEF InjGoto, InjReturn, Reinject, Release, SndGoto, SndReturn,
          HandleGoto, DropConn, Pop, CloseSockets, Entered, Monitored,
          connVars, obsVars, injVars, sndVars, statVars
  <1> USE DEF IInv, SenderInv
  <1>0. TypeOK /\ TypeOK'
    BY TypeNext
  <1>1. ASSUME NEW p \in Packet, Recv(p)
        PROVE  SenderInv'
    BY <1>0, <1>1 DEF Recv, TypeOK, ObserverInv, DictInv, Packet, InjLocked, SndLocked, Earned, WholeSent
  <1>2. ASSUME NEW c \in Conn, InjectorStep(c)
        PROVE  SenderInv'
    <2>1. InjectorFrame(c)
      BY <1>0, <1>2, InjectorFrames
    <2> USE DEF InjectorFrame, TypeOK, InjLocked
    <2>2. CASE ForwardUnmonitored(c)
      BY <1>0, <2>1, <2>2 DEF ForwardUnmonitored, LockInv, InjectorInv, WholeSent
    <2>3. CASE ObserveSyn(c)
      BY <1>0, <2>1, <2>3 DEF ObserveSyn, LockInv, InjectorInv, WholeSent
    <2>4. CASE ObserveSynAck(c)
      BY <1>0, <2>1, <2>4 DEF ObserveSynAck, LockInv, InjectorInv, WholeSent
    <2>5. CASE ObserveHandshakeAck(c)
      BY <1>0, <2>1, <2>5 DEF ObserveHandshakeAck, LockInv, InjectorInv, WholeSent
    <2>6. CASE CountActive(c)
      BY <1>0, <2>1, <2>6 DEF CountActive, LockInv, InjectorInv, WholeSent
    <2>7. CASE Submit(c)
      BY <1>0, <2>1, <2>7 DEF Submit, LockInv, InjectorInv, WholeSent
    <2>8. CASE ObserveFakeAck(c)
      BY <1>0, <2>1, <2>8 DEF ObserveFakeAck, LockInv, InjectorInv, WholeSent
    <2>9. CASE ReadCountedOnSuccess(c)
      BY <1>0, <2>1, <2>9 DEF ReadCountedOnSuccess, LockInv, InjectorInv, WholeSent
    <2>10. CASE CountSuccess(c)
      BY <1>0, <2>1, <2>10 DEF CountSuccess, LockInv, InjectorInv, WholeSent
    <2>11. CASE SignalSuccess(c)
      BY <1>0, <2>1, <2>11 DEF SignalSuccess, LockInv, InjectorInv, WholeSent
    <2>12. CASE Unexpected(c)
      BY <1>0, <2>1, <2>12 DEF Unexpected, LockInv, InjectorInv, WholeSent
    <2>13. CASE InjClose(c)
      BY <1>0, <2>1, <2>13 DEF InjClose, LockInv, InjectorInv, WholeSent
    <2>14. CASE InjEvict(c)
      BY <1>0, <2>1, <2>14 DEF InjEvict, LockInv, InjectorInv, WholeSent
    <2>15. CASE InjCountFailed(c)
      BY <1>0, <2>1, <2>15 DEF InjCountFailed, LockInv, InjectorInv, WholeSent
    <2>16. CASE InjSignalClose(c)
      BY <1>0, <2>1, <2>16 DEF InjSignalClose, LockInv, InjectorInv, WholeSent
    <2>17. QED
      BY <1>2, <2>2, <2>3, <2>4, <2>5, <2>6, <2>7, <2>8, <2>9, <2>10, <2>11, <2>12, <2>13, <2>14, <2>15, <2>16 DEF InjectorStep
  <1>3. ASSUME NEW c \in Conn, SenderStep(c)
        PROVE  SenderInv'
    <2>1. SenderFrame(c)
      BY <1>0, <1>3, SenderFrames
    <2> USE DEF SenderFrame, TypeOK, SndLocked
    <2>2. CASE StartSend(c)
      BY <1>0, <2>1, <2>2 DEF StartSend, LockInv, ObserverInv, WholeSent, Segments, LastSegment, SentBefore
    <2>3. CASE RetrySend(c)
      BY <1>0, <2>1, <2>3 DEF RetrySend, LockInv, ObserverInv, WholeSent, Segments, LastSegment, SentBefore
    <2>4. CASE SendSegment(c)
      BY <1>0, <2>1, <2>4 DEF SendSegment, LockInv, ObserverInv, WholeSent, Segments, LastSegment, SentBefore
    <2>5. CASE SendFails(c)
      BY <1>0, <2>1, <2>5 DEF SendFails, LockInv, ObserverInv, WholeSent, Segments, LastSegment, SentBefore
    <2>6. CASE Recheck(c)
      BY <1>0, <2>1, <2>6 DEF Recheck, LockInv, ObserverInv, WholeSent, Segments, LastSegment, SentBefore
    <2>7. CASE SndClose(c)
      BY <1>0, <2>1, <2>7 DEF SndClose, LockInv, ObserverInv, WholeSent, Segments, LastSegment, SentBefore
    <2>8. CASE SndEvict(c)
      BY <1>0, <2>1, <2>8 DEF SndEvict, LockInv, ObserverInv, WholeSent, Segments, LastSegment, SentBefore
    <2>9. CASE SndCountFailed(c)
      BY <1>0, <2>1, <2>9 DEF SndCountFailed, LockInv, ObserverInv, WholeSent, Segments, LastSegment, SentBefore
    <2>10. CASE SndSignalClose(c)
      BY <1>0, <2>1, <2>10 DEF SndSignalClose, LockInv, ObserverInv, WholeSent, Segments, LastSegment, SentBefore
    <2>11. QED
      BY <1>3, <2>2, <2>3, <2>4, <2>5, <2>6, <2>7, <2>8, <2>9, <2>10 DEF SenderStep
  <1>4. ASSUME NEW c \in Conn, HandleStep(c) \/ Cancel(c) \/ Reap(c)
        PROVE  SenderInv'
    <2>1. HandleFrame
      BY <1>0, <1>4, HandleFrames
    <2>2. QED
      BY <1>0, <2>1 DEF HandleFrame, TypeOK, InjLocked, SndLocked, Earned, WholeSent
  <1>5. ASSUME NEW c \in Conn, NEW port \in Port, NEW first \in Ep, NEW m \in Methods,
              Accept(c, port, first, m)
        PROVE  SenderInv'
    BY <1>0, <1>5 DEF Accept, TypeOK, ObserverInv, InjectorInv, SenderInv, InjLocked, SndLocked, Earned, WholeSent, NoMsg
  <1>6. CASE UNCHANGED vars
    BY <1>6 DEF vars, TypeOK, InjLocked, SndLocked, Earned, WholeSent
  <1>7. QED
    BY <1>1, <1>2, <1>3, <1>4, <1>5, <1>6 DEF Next

LEMMA ObserverInvNext ==
  ASSUME IInv, [Next]_vars
  PROVE  ObserverInv'
  <1> USE DEF InjGoto, InjReturn, Reinject, Release, SndGoto, SndReturn,
          HandleGoto, DropConn, Pop, CloseSockets, Entered, Monitored,
          connVars, obsVars, injVars, sndVars, statVars
  <1> USE DEF IInv, ObserverInv
  <1>0. TypeOK /\ TypeOK'
    BY TypeNext
  <1>1. ASSUME NEW p \in Packet, Recv(p)
        PROVE  ObserverInv'
    BY <1>0, <1>1 DEF Recv, TypeOK, ObserverInv, DictInv, Packet, InjLocked, SndLocked, Earned, WholeSent
  <1>2. ASSUME NEW c \in Conn, InjectorStep(c)
        PROVE  ObserverInv'
    <2>1. InjectorFrame(c)
      BY <1>0, <1>2, InjectorFrames
    <2> USE DEF InjectorFrame, TypeOK, InjLocked
    <2>2. CASE ForwardUnmonitored(c)
      BY <1>0, <2>1, <2>2 DEF ForwardUnmonitored, InjectorInv, IsHandshakeAck, IsSyn, IsSynAck, Packet, Seq32
    <2>3. CASE ObserveSyn(c)
      BY <1>0, <2>1, <2>3 DEF ObserveSyn, InjectorInv, IsHandshakeAck, IsSyn, IsSynAck, Packet, Seq32
    <2>4. CASE ObserveSynAck(c)
      BY <1>0, <2>1, <2>4 DEF ObserveSynAck, InjectorInv, IsHandshakeAck, IsSyn, IsSynAck, Packet, Seq32
    <2>5. CASE ObserveHandshakeAck(c)
      BY <1>0, <2>1, <2>5 DEF ObserveHandshakeAck, InjectorInv, IsHandshakeAck, IsSyn, IsSynAck, Packet, Seq32
    <2>6. CASE CountActive(c)
      BY <1>0, <2>1, <2>6 DEF CountActive, InjectorInv, IsHandshakeAck, IsSyn, IsSynAck, Packet, Seq32
    <2>7. CASE Submit(c)
      BY <1>0, <2>1, <2>7 DEF Submit, InjectorInv, IsHandshakeAck, IsSyn, IsSynAck, Packet, Seq32
    <2>8. CASE ObserveFakeAck(c)
      BY <1>0, <2>1, <2>8 DEF ObserveFakeAck, InjectorInv, IsHandshakeAck, IsSyn, IsSynAck, Packet, Seq32
    <2>9. CASE ReadCountedOnSuccess(c)
      BY <1>0, <2>1, <2>9 DEF ReadCountedOnSuccess, InjectorInv, IsHandshakeAck, IsSyn, IsSynAck, Packet, Seq32
    <2>10. CASE CountSuccess(c)
      BY <1>0, <2>1, <2>10 DEF CountSuccess, InjectorInv, IsHandshakeAck, IsSyn, IsSynAck, Packet, Seq32
    <2>11. CASE SignalSuccess(c)
      BY <1>0, <2>1, <2>11 DEF SignalSuccess, InjectorInv, IsHandshakeAck, IsSyn, IsSynAck, Packet, Seq32
    <2>12. CASE Unexpected(c)
      BY <1>0, <2>1, <2>12 DEF Unexpected, InjectorInv, IsHandshakeAck, IsSyn, IsSynAck, Packet, Seq32
    <2>13. CASE InjClose(c)
      BY <1>0, <2>1, <2>13 DEF InjClose, InjectorInv, IsHandshakeAck, IsSyn, IsSynAck, Packet, Seq32
    <2>14. CASE InjEvict(c)
      BY <1>0, <2>1, <2>14 DEF InjEvict, InjectorInv, IsHandshakeAck, IsSyn, IsSynAck, Packet, Seq32
    <2>15. CASE InjCountFailed(c)
      BY <1>0, <2>1, <2>15 DEF InjCountFailed, InjectorInv, IsHandshakeAck, IsSyn, IsSynAck, Packet, Seq32
    <2>16. CASE InjSignalClose(c)
      BY <1>0, <2>1, <2>16 DEF InjSignalClose, InjectorInv, IsHandshakeAck, IsSyn, IsSynAck, Packet, Seq32
    <2>17. QED
      BY <1>2, <2>2, <2>3, <2>4, <2>5, <2>6, <2>7, <2>8, <2>9, <2>10, <2>11, <2>12, <2>13, <2>14, <2>15, <2>16 DEF InjectorStep
  <1>3. ASSUME NEW c \in Conn, SenderStep(c)
        PROVE  ObserverInv'
    <2>1. SenderFrame(c)
      BY <1>0, <1>3, SenderFrames
    <2> USE DEF SenderFrame, TypeOK, SndLocked
    <2>2. CASE StartSend(c)
      BY <1>0, <2>1, <2>2 DEF StartSend, SenderInv
    <2>3. CASE RetrySend(c)
      BY <1>0, <2>1, <2>3 DEF RetrySend, SenderInv
    <2>4. CASE SendSegment(c)
      BY <1>0, <2>1, <2>4 DEF SendSegment, SenderInv
    <2>5. CASE SendFails(c)
      BY <1>0, <2>1, <2>5 DEF SendFails, SenderInv
    <2>6. CASE Recheck(c)
      BY <1>0, <2>1, <2>6 DEF Recheck, SenderInv
    <2>7. CASE SndClose(c)
      BY <1>0, <2>1, <2>7 DEF SndClose, SenderInv
    <2>8. CASE SndEvict(c)
      BY <1>0, <2>1, <2>8 DEF SndEvict, SenderInv
    <2>9. CASE SndCountFailed(c)
      BY <1>0, <2>1, <2>9 DEF SndCountFailed, SenderInv
    <2>10. CASE SndSignalClose(c)
      BY <1>0, <2>1, <2>10 DEF SndSignalClose, SenderInv
    <2>11. QED
      BY <1>3, <2>2, <2>3, <2>4, <2>5, <2>6, <2>7, <2>8, <2>9, <2>10 DEF SenderStep
  <1>4. ASSUME NEW c \in Conn, HandleStep(c) \/ Cancel(c) \/ Reap(c)
        PROVE  ObserverInv'
    <2>1. HandleFrame
      BY <1>0, <1>4, HandleFrames
    <2>2. QED
      BY <1>0, <2>1 DEF HandleFrame, TypeOK, InjLocked, SndLocked, Earned, WholeSent
  <1>5. ASSUME NEW c \in Conn, NEW port \in Port, NEW first \in Ep, NEW m \in Methods,
              Accept(c, port, first, m)
        PROVE  ObserverInv'
    BY <1>0, <1>5 DEF Accept, TypeOK, ObserverInv, InjectorInv, SenderInv, InjLocked, SndLocked, Earned, WholeSent, NoMsg
  <1>6. CASE UNCHANGED vars
    BY <1>6 DEF vars, TypeOK, InjLocked, SndLocked, Earned, WholeSent
  <1>7. QED
    BY <1>1, <1>2, <1>3, <1>4, <1>5, <1>6 DEF Next

LEMMA SuccessIsEarnedNext ==
  ASSUME IInv, [Next]_vars
  PROVE  SuccessIsEarned'
  <1> USE DEF InjGoto, InjReturn, Reinject, Release, SndGoto, SndReturn,
          HandleGoto, DropConn, Pop, CloseSockets, Entered, Monitored,
          connVars, obsVars, injVars, sndVars, statVars
  <1> USE DEF IInv, SuccessIsEarned
  <1>0. TypeOK /\ TypeOK'
    BY TypeNext
  <1>1. ASSUME NEW p \in Packet, Recv(p)
        PROVE  SuccessIsEarned'
    BY <1>0, <1>1 DEF Recv, TypeOK, ObserverInv, DictInv, Packet, InjLocked, SndLocked, Earned, WholeSent
  <1>2. ASSUME NEW c \in Conn, InjectorStep(c)
        PROVE  SuccessIsEarned'
    <2>1. InjectorFrame(c)
      BY <1>0, <1>2, InjectorFrames
    <2> USE DEF InjectorFrame, TypeOK, InjLocked
    <2>2. CASE ForwardUnmonitored(c)
      BY <1>0, <2>1, <2>2 DEF ForwardUnmonitored, InjectorInv, ObserverInv, Earned, WholeSent, IsSyn, IsSynAck, Packet, Seq32
    <2>3. CASE ObserveSyn(c)
      BY <1>0, <2>1, <2>3 DEF ObserveSyn, InjectorInv, ObserverInv, Earned, WholeSent, IsSyn, IsSynAck, Packet, Seq32
    <2>4. CASE ObserveSynAck(c)
      BY <1>0, <2>1, <2>4 DEF ObserveSynAck, InjectorInv, ObserverInv, Earned, WholeSent, IsSyn, IsSynAck, Packet, Seq32
    <2>5. CASE ObserveHandshakeAck(c)
      BY <1>0, <2>1, <2>5 DEF ObserveHandshakeAck, InjectorInv, ObserverInv, Earned, WholeSent, IsSyn, IsSynAck, Packet, Seq32
    <2>6. CASE CountActive(c)
      BY <1>0, <2>1, <2>6 DEF CountActive, InjectorInv, ObserverInv, Earned, WholeSent, IsSyn, IsSynAck, Packet, Seq32
    <2>7. CASE Submit(c)
      BY <1>0, <2>1, <2>7 DEF Submit, InjectorInv, ObserverInv, Earned, WholeSent, IsSyn, IsSynAck, Packet, Seq32
    <2>8. CASE ObserveFakeAck(c)
      BY <1>0, <2>1, <2>8 DEF ObserveFakeAck, InjectorInv, ObserverInv, Earned, WholeSent, IsSyn, IsSynAck, Packet, Seq32
    <2>9. CASE ReadCountedOnSuccess(c)
      BY <1>0, <2>1, <2>9 DEF ReadCountedOnSuccess, InjectorInv, ObserverInv, Earned, WholeSent, IsSyn, IsSynAck, Packet, Seq32
    <2>10. CASE CountSuccess(c)
      BY <1>0, <2>1, <2>10 DEF CountSuccess, InjectorInv, ObserverInv, Earned, WholeSent, IsSyn, IsSynAck, Packet, Seq32
    <2>11. CASE SignalSuccess(c)
      BY <1>0, <2>1, <2>11 DEF SignalSuccess, InjectorInv, ObserverInv, Earned, WholeSent, IsSyn, IsSynAck, Packet, Seq32
    <2>12. CASE Unexpected(c)
      BY <1>0, <2>1, <2>12 DEF Unexpected, InjectorInv, ObserverInv, Earned, WholeSent, IsSyn, IsSynAck, Packet, Seq32
    <2>13. CASE InjClose(c)
      BY <1>0, <2>1, <2>13 DEF InjClose, InjectorInv, ObserverInv, Earned, WholeSent, IsSyn, IsSynAck, Packet, Seq32
    <2>14. CASE InjEvict(c)
      BY <1>0, <2>1, <2>14 DEF InjEvict, InjectorInv, ObserverInv, Earned, WholeSent, IsSyn, IsSynAck, Packet, Seq32
    <2>15. CASE InjCountFailed(c)
      BY <1>0, <2>1, <2>15 DEF InjCountFailed, InjectorInv, ObserverInv, Earned, WholeSent, IsSyn, IsSynAck, Packet, Seq32
    <2>16. CASE InjSignalClose(c)
      BY <1>0, <2>1, <2>16 DEF InjSignalClose, InjectorInv, ObserverInv, Earned, WholeSent, IsSyn, IsSynAck, Packet, Seq32
    <2>17. QED
      BY <1>2, <2>2, <2>3, <2>4, <2>5, <2>6, <2>7, <2>8, <2>9, <2>10, <2>11, <2>12, <2>13, <2>14, <2>15, <2>16 DEF InjectorStep
  <1>3. ASSUME NEW c \in Conn, SenderStep(c)
        PROVE  SuccessIsEarned'
    <2>1. SenderFrame(c)
      BY <1>0, <1>3, SenderFrames
    <2> USE DEF SenderFrame, TypeOK, SndLocked
    <2>2. CASE StartSend(c)
      BY <1>0, <2>1, <2>2 DEF StartSend, SenderInv, Earned, WholeSent, NoMsg
    <2>3. CASE RetrySend(c)
      BY <1>0, <2>1, <2>3 DEF RetrySend, SenderInv, Earned, WholeSent, NoMsg
    <2>4. CASE SendSegment(c)
      BY <1>0, <2>1, <2>4 DEF SendSegment, SenderInv, Earned, WholeSent, NoMsg
    <2>5. CASE SendFails(c)
      BY <1>0, <2>1, <2>5 DEF SendFails, SenderInv, Earned, WholeSent, NoMsg
    <2>6. CASE Recheck(c)
      BY <1>0, <2>1, <2>6 DEF Recheck, SenderInv, Earned, WholeSent, NoMsg
    <2>7. CASE SndClose(c)
      BY <1>0, <2>1, <2>7 DEF SndClose, SenderInv, Earned, WholeSent, NoMsg
    <2>8. CASE SndEvict(c)
      BY <1>0, <2>1, <2>8 DEF SndEvict, SenderInv, Earned, WholeSent, NoMsg
    <2>9. CASE SndCountFailed(c)
      BY <1>0, <2>1, <2>9 DEF SndCountFailed, SenderInv, Earned, WholeSent, NoMsg
    <2>10. CASE SndSignalClose(c)
      BY <1>0, <2>1, <2>10 DEF SndSignalClose, SenderInv, Earned, WholeSent, NoMsg
    <2>11. QED
      BY <1>3, <2>2, <2>3, <2>4, <2>5, <2>6, <2>7, <2>8, <2>9, <2>10 DEF SenderStep
  <1>4. ASSUME NEW c \in Conn, HandleStep(c) \/ Cancel(c) \/ Reap(c)
        PROVE  SuccessIsEarned'
    <2>1. HandleFrame
      BY <1>0, <1>4, HandleFrames
    <2>2. QED
      BY <1>0, <2>1 DEF HandleFrame, TypeOK, InjLocked, SndLocked, Earned, WholeSent
  <1>5. ASSUME NEW c \in Conn, NEW port \in Port, NEW first \in Ep, NEW m \in Methods,
              Accept(c, port, first, m)
        PROVE  SuccessIsEarned'
    BY <1>0, <1>5 DEF Accept, TypeOK, ObserverInv, InjectorInv, SenderInv, InjLocked, SndLocked, Earned, WholeSent, NoMsg
  <1>6. CASE UNCHANGED vars
    BY <1>6 DEF vars, TypeOK, InjLocked, SndLocked, Earned, WholeSent
  <1>7. QED
    BY <1>1, <1>2, <1>3, <1>4, <1>5, <1>6 DEF Next

LEMMA DictInvNext ==
  ASSUME IInv, [Next]_vars
  PROVE  DictInv'
  <1> USE DEF InjGoto, InjReturn, Reinject, Release, SndGoto, SndReturn,
          HandleGoto, DropConn, Pop, CloseSockets, Entered, Monitored,
          connVars, obsVars, injVars, sndVars, statVars
  <1> USE DEF IInv, DictInv
  <1>0. TypeOK /\ TypeOK'
    BY TypeNext
  <1>1. ASSUME NEW p \in Packet, Recv(p)
        PROVE  DictInv'
    BY <1>0, <1>1 DEF Recv, TypeOK, ObserverInv, DictInv, Packet, InjLocked, SndLocked, Earned, WholeSent
  <1>2. ASSUME NEW c \in Conn, InjectorStep(c)
        PROVE  DictInv'
    <2>1. InjectorFrame(c)
      BY <1>0, <1>2, InjectorFrames
    <2>2. QED
      BY <1>0, <2>1, ConstantAssumption DEF InjectorFrame, TypeOK
  <1>3. ASSUME NEW c \in Conn, SenderStep(c)
        PROVE  DictInv'
    <2>1. SenderFrame(c)
      BY <1>0, <1>3, SenderFrames
    <2>2. QED
      BY <1>0, <2>1, ConstantAssumption DEF SenderFrame, TypeOK
  <1>4. ASSUME NEW c \in Conn, HandleStep(c) \/ Cancel(c) \/ Reap(c)
        PROVE  DictInv'
    <2> USE DEF TypeOK, Pop
    <2>1. CASE ConnectFirst(c)
      BY <1>0, <2>1, ConstantAssumption DEF ConnectFirst
    <2>2. CASE ConnectFails(c)
      BY <1>0, <2>2, ConstantAssumption DEF ConnectFails
    <2>3. CASE Rekey(c)
      BY <1>0, <2>3, ConstantAssumption DEF Rekey
    <2>4. CASE Woken(c)
      BY <1>0, <2>4, ConstantAssumption DEF Woken
    <2>5. CASE Timeout(c)
      BY <1>0, <2>5, ConstantAssumption DEF Timeout
    <2>6. CASE HandshakeFailed(c)
      BY <1>0, <2>6, ConstantAssumption DEF HandshakeFailed
    <2>7. CASE NoteFail(c)
      BY <1>0, <2>7, ConstantAssumption DEF NoteFail
    <2>8. CASE NoteFinishFailed(c)
      BY <1>0, <2>8, ConstantAssumption DEF NoteFinishFailed
    <2>9. CASE NoteIncrement(c)
      BY <1>0, <2>9, ConstantAssumption DEF NoteIncrement
    <2>10. CASE HandshakeOk(c)
      BY <1>0, <2>10, ConstantAssumption DEF HandshakeOk
    <2>11. CASE RelayCloses(c)
      BY <1>0, <2>11, ConstantAssumption DEF RelayCloses
    <2>12. CASE RelayEnds(c)
      BY <1>0, <2>12, ConstantAssumption DEF RelayEnds
    <2>13. CASE Exit(c)
      BY <1>0, <2>13, ConstantAssumption DEF Exit
    <2>14. CASE Cancel(c)
      BY <1>0, <2>14, ConstantAssumption DEF Cancel
    <2>15. CASE \E ep \in Ep : ConnectOther(c, ep)
      BY <1>0, <2>15, ConstantAssumption DEF ConnectOther, Key
    <2>16. CASE Reap(c)
      BY <1>0, <2>16, ConstantAssumption DEF Reap
    <2>17. QED
      BY <1>4, <2>16, <2>1, <2>2, <2>3, <2>4, <2>5, <2>6, <2>7, <2>8, <2>9, <2>10, <2>11, <2>12, <2>13, <2>14, <2>15 DEF HandleStep, ConnectEnds
  <1>5. ASSUME NEW c \in Conn, NEW port \in Port, NEW first \in Ep, NEW m \in Methods,
              Accept(c, port, first, m)
        PROVE  DictInv'
    BY <1>0, <1>5 DEF Accept, TypeOK, ObserverInv, InjectorInv, SenderInv, InjLocked, SndLocked, Earned, WholeSent, NoMsg, Key
  <1>6. CASE UNCHANGED vars
    BY <1>6 DEF vars, TypeOK, InjLocked, SndLocked, Earned, WholeSent
  <1>7. QED
    BY <1>1, <1>2, <1>3, <1>4, <1>5, <1>6 DEF Next

-----------------------------------------------------------------------------
LEMMA IInvInit == Init => IInv
  <1> SUFFICES ASSUME Init PROVE IInv
    OBVIOUS
  <1>1. TypeOK
    BY TypeInit
  <1>2. LockInv /\ InjectorInv /\ SenderInv /\ ObserverInv /\ SuccessIsEarned
    BY SegmentsType DEF Init, LockInv, InjectorInv, SenderInv, ObserverInv, SuccessIsEarned,
       WholeSent, InjLocked, SndLocked, NoMsg
  <1>3. DictInv
    BY ConstantAssumption DEF Init, DictInv
  <1>4. QED
    BY <1>1, <1>2, <1>3 DEF IInv

\* The inductive invariant holds in every reachable state.
THEOREM Invariance == Spec => []IInv
  <1>1. IInv /\ [Next]_vars => IInv'
    BY TypeNext, LockInvNext, InjectorInvNext, SenderInvNext, ObserverInvNext,
       DictInvNext, SuccessIsEarnedNext DEF IInv
  <1>2. QED
    BY IInvInit, <1>1, PTL DEF Spec

\* Type correctness.
THEOREM TypeCorrect == Spec => []TypeOK
  <1>1. IInv => TypeOK
    BY DEF IInv
  <1>2. QED
    BY Invariance, <1>1, PTL

\* handle() is never told of a success that the observed handshake and the whole
\* fake ClientHello did not earn.
THEOREM EarnedSuccess == Spec => []SuccessIsEarned
  <1>1. IInv => SuccessIsEarned
    BY DEF IInv
  <1>2. QED
    BY Invariance, <1>1, PTL

\* A connection has one fake-send job.
THEOREM SingleJob == Spec => []OneJob
  <1>1. IInv => OneJob
    BY DEF IInv, InjectorInv, OneJob
  <1>2. QED
    BY Invariance, <1>1, PTL

\* No key of the shared dict keeps a connection whose handle() has returned.
THEOREM Evicted == Spec => []NoLeak
  <1>1. IInv => NoLeak
    BY DEF IInv, DictInv, NoLeak
  <1>2. QED
    BY Invariance, <1>1, PTL

\* A connection is only ever registered under its current identity.
THEOREM Keyed == Spec => []KeyedById
  <1>1. IInv => KeyedById
    BY DEF IInv, DictInv, KeyedById
  <1>2. QED
    BY Invariance, <1>1, PTL

-----------------------------------------------------------------------------
(***************************************************************************)
(* The gauges.                                                             *)
(***************************************************************************)
LEMMA FiniteCounts ==
  /\ IsFiniteSet(Scheduled) /\ Cardinality(Scheduled) \in Nat
  /\ IsFiniteSet(Succeeded) /\ Cardinality(Succeeded) \in Nat
  BY FinitelyMany, FS_Subset, FS_CardinalityType DEF Scheduled, Succeeded

\* A step that leaves the counters, the schedule and the verdicts of success alone.
LEMMA GaugeStutter ==
  ASSUME GaugeInv, UNCHANGED <<active, total, success, Scheduled, Succeeded, Uncounted>>
  PROVE  GaugeInv'
  BY DEF GaugeInv

\* A failure that is counted takes at most one connection out of the active ones.
LEMMA GaugeFailure ==
  ASSUME TypeOK, GaugeInv, FinishFailed,
         UNCHANGED <<total, success, Scheduled, Succeeded, Uncounted>>
  PROVE  GaugeInv'
  <1>1. active' \in Nat /\ active' <= active /\ success \in Nat /\ total \in Nat
    BY DEF FinishFailed, Decremented, TypeOK
  <1>2. Uncounted \in {0, 1}
    BY DEF Uncounted
  <1>3. active' + success + Uncounted <= total
    BY <1>1, <1>2 DEF GaugeInv, TypeOK
  <1>4. QED
    BY <1>3 DEF GaugeInv

LEMMA GaugeInit == Init => GaugeInv
  <1> SUFFICES ASSUME Init PROVE GaugeInv
    OBVIOUS
  <1>1. Scheduled = {} /\ Succeeded = {} /\ Uncounted = 0
    BY DEF Init, Scheduled, Succeeded, Uncounted, NoMsg
  <1>2. QED
    BY <1>1, FS_EmptySet DEF Init, GaugeInv

LEMMA GaugeInjector ==
  ASSUME IInv, GaugeInv, NEW c \in Conn, InjectorStep(c)
  PROVE  GaugeInv'
  <1> USE DEF InjGoto, InjReturn, Reinject, Release, Entered, Monitored,
          connVars, obsVars, injVars, sndVars, statVars
  <1>0. /\ TypeOK /\ injc = c
        /\ injpc \in InjLocked => t2a_msg[c] = NoMsg
    <2>1. injc = c
      BY InjectorFrames DEF IInv, InjectorFrame
    <2>2. QED
      BY <2>1 DEF IInv, InjectorInv
  <1> DEFINE Same == UNCHANGED <<Scheduled, Succeeded, Uncounted>>
  <1>1. ASSUME UNCHANGED <<sch_fake_sent, t2a_msg>>,
               injpc \notin {"signal", "count"}, injpc' \notin {"signal", "count"}
        PROVE  Same
    BY <1>1 DEF Scheduled, Succeeded, Uncounted
  <1>2. CASE ForwardUnmonitored(c)
    BY <1>1, <1>2, GaugeStutter DEF ForwardUnmonitored
  <1>3. CASE ObserveSyn(c)
    BY <1>1, <1>3, GaugeStutter DEF ObserveSyn
  <1>4. CASE ObserveSynAck(c)
    BY <1>1, <1>4, GaugeStutter DEF ObserveSynAck
  <1>5. CASE ObserveHandshakeAck(c)
    <2>1. CASE injpc' # "count"
      BY <1>1, <1>5, <2>1, GaugeStutter DEF ObserveHandshakeAck
    <2>2. CASE injpc' = "count"
      <3>1. Scheduled' = Scheduled \cup {c} /\ c \notin Scheduled
        BY <1>0, <1>5, <2>2 DEF ObserveHandshakeAck, IsHandshakeAck, Scheduled, TypeOK
      <3>2. Cardinality(Scheduled') = Cardinality(Scheduled) + 1
        BY <3>1, FiniteCounts, FS_AddElement
      <3>3. Succeeded' = Succeeded
        BY <1>5, <2>2 DEF ObserveHandshakeAck, Succeeded
      <3>4. Uncounted = 0 /\ Uncounted' = 1
        BY <1>5, <2>2 DEF ObserveHandshakeAck, Uncounted
      <3>5. total' = total + 1 /\ UNCHANGED <<active, success>>
        BY <1>5, <2>2 DEF ObserveHandshakeAck
      <3>6. active + success + 1 <= total + 1
        BY <1>0, <3>4 DEF GaugeInv, TypeOK
      <3>7. QED
        BY <3>2, <3>3, <3>4, <3>5, <3>6 DEF GaugeInv
    <2>3. QED
      BY <2>1, <2>2
  <1>6. CASE CountActive(c)
    <2>1. UNCHANGED <<Scheduled, Succeeded, total, success>> /\ active' = active + 1
      BY <1>6 DEF CountActive, Scheduled, Succeeded
    <2>2. Uncounted = 1 /\ Uncounted' = 0
      BY <1>6 DEF CountActive, Uncounted
    <2>3. active' + success + 0 <= total
      BY <1>0, <2>1, <2>2 DEF GaugeInv, TypeOK
    <2>4. QED
      BY <2>1, <2>2, <2>3 DEF GaugeInv
  <1>7. CASE Submit(c)
    BY <1>1, <1>7, GaugeStutter DEF Submit
  <1>8. CASE ObserveFakeAck(c)
    BY <1>1, <1>8, GaugeStutter DEF ObserveFakeAck
  <1>9. CASE ReadCountedOnSuccess(c)
    <2>1. Succeeded \subseteq Succeeded'
      BY <1>9 DEF ReadCountedOnSuccess, Succeeded
    <2>2. IsFiniteSet(Succeeded')
      BY FinitelyMany, FS_Subset DEF Succeeded
    <2>3. Cardinality(Succeeded) <= Cardinality(Succeeded') /\ Cardinality(Succeeded') \in Nat
      BY <2>1, <2>2, FS_Subset, FS_CardinalityType
    <2>4. UNCHANGED <<active, total, success, Scheduled, Uncounted>>
      BY <1>9 DEF ReadCountedOnSuccess, Scheduled, Uncounted
    <2>5. success <= Cardinality(Succeeded')
      BY <1>0, <2>3, FiniteCounts DEF GaugeInv, TypeOK
    <2>6. QED
      BY <2>4, <2>5 DEF GaugeInv
  <1>10. CASE CountSuccess(c)
    <2>1. Succeeded' = Succeeded \cup {c} /\ c \notin Succeeded
      BY <1>0, <1>10 DEF CountSuccess, Succeeded, InjLocked, NoMsg
    <2>2. Cardinality(Succeeded') = Cardinality(Succeeded) + 1
      BY <2>1, FiniteCounts, FS_AddElement
    <2>3. success' = success + 1 /\ active' = Decremented /\ UNCHANGED <<total, Scheduled, Uncounted>>
      BY <1>10 DEF CountSuccess, FinishSuccess, Scheduled, Uncounted
    <2>4. success' <= Cardinality(Succeeded')
      BY <1>0, <2>2, <2>3, FiniteCounts DEF GaugeInv, TypeOK
    <2>5. Cardinality(Succeeded') <= total
      <3>1. Earned(c) /\ sch_fake_sent[c]
        BY <1>0, <1>10 DEF CountSuccess, IInv, InjectorInv, Earned
      <3>2. Succeeded' \subseteq Scheduled
        BY <2>1, <3>1 DEF IInv, InjectorInv, SuccessIsEarned, Earned, Succeeded, Scheduled
      <3>3. QED
        BY <3>2, FiniteCounts, FS_Subset DEF GaugeInv
    <2>6. active' + success' + Uncounted' <= total
      <3>1. Uncounted = 0
        BY <1>10 DEF CountSuccess, Uncounted
      <3>2. CASE active = 0
        <4>1. active' = 0
          BY <2>3, <3>2 DEF Decremented
        <4>2. QED
          BY <1>0, <2>2, <2>3, <2>4, <2>5, <3>1, <4>1, FiniteCounts DEF TypeOK
      <3>3. CASE active > 0
        <4>1. active' = active - 1
          BY <2>3, <3>3 DEF Decremented
        <4>2. QED
          BY <1>0, <2>3, <3>1, <4>1 DEF GaugeInv, TypeOK
      <3>4. QED
        BY <1>0, <3>2, <3>3 DEF TypeOK
    <2>7. QED
      BY <2>3, <2>4, <2>6 DEF GaugeInv
  <1>11. CASE SignalSuccess(c)
    <2>1. UNCHANGED <<Scheduled, Uncounted, active, total, success>>
      BY <1>11 DEF SignalSuccess, Scheduled, Uncounted
    <2>2. Succeeded' = Succeeded
      BY <1>0, <1>11 DEF SignalSuccess, Succeeded, TypeOK
    <2>3. QED
      BY <2>1, <2>2, GaugeStutter
  <1>12. CASE Unexpected(c)
    BY <1>1, <1>12, GaugeStutter DEF Unexpected
  <1>13. CASE InjClose(c)
    BY <1>1, <1>13, GaugeStutter DEF InjClose
  <1>14. CASE InjEvict(c)
    BY <1>1, <1>14, GaugeStutter DEF InjEvict
  <1>15. CASE InjCountFailed(c)
    BY <1>0, <1>1, <1>15, GaugeFailure DEF InjCountFailed
  <1>16. CASE InjSignalClose(c)
    <2>1. UNCHANGED <<Scheduled, Uncounted, active, total, success>>
      BY <1>16 DEF InjSignalClose, Scheduled, Uncounted
    <2>2. Succeeded' = Succeeded
      BY <1>0, <1>16 DEF InjSignalClose, Succeeded, InjLocked, NoMsg, TypeOK
    <2>3. QED
      BY <2>1, <2>2, GaugeStutter
  <1>17. QED
    BY <1>2, <1>3, <1>4, <1>5, <1>6, <1>7, <1>8, <1>9, <1>10, <1>11, <1>12, <1>13, <1>14, <1>15, <1>16
       DEF InjectorStep

LEMMA GaugeSender ==
  ASSUME IInv, GaugeInv, NEW c \in Conn, SenderStep(c)
  PROVE  GaugeInv'
  <1> USE DEF SndGoto, SndReturn, Release, connVars, obsVars, injVars, sndVars, statVars
  <1>0. TypeOK /\ UNCHANGED <<Scheduled, Uncounted>>
    BY SenderFrames DEF IInv, SenderFrame, Scheduled, Uncounted, obsVars, injVars
  <1>1. ASSUME UNCHANGED <<active, total, success, t2a_msg, injVars>> PROVE GaugeInv'
    BY <1>0, <1>1, GaugeStutter DEF Succeeded
  <1>2. CASE SndCountFailed(c)
    BY <1>0, <1>2, GaugeFailure DEF SndCountFailed, Succeeded
  <1>3. CASE SndSignalClose(c)
    <2>1. Succeeded' = Succeeded
      BY <1>0, <1>3 DEF SndSignalClose, Succeeded, IInv, SenderInv, SndLocked, NoMsg, TypeOK
    <2>2. QED
      BY <1>0, <1>3, <2>1, GaugeStutter DEF SndSignalClose
  <1>4. CASE ~SndCountFailed(c) /\ ~SndSignalClose(c)
    BY <1>1, <1>4 DEF SenderStep, StartSend, RetrySend, SendSegment, SendFails, Recheck,
       SndClose, SndEvict
  <1>5. QED
    BY <1>2, <1>3, <1>4

LEMMA GaugeHandle ==
  ASSUME IInv, GaugeInv, NEW c \in Conn, HandleStep(c) \/ Cancel(c) \/ Reap(c)
  PROVE  GaugeInv'
  <1>0. TypeOK /\ UNCHANGED <<Scheduled, Succeeded, Uncounted>>
    BY HandleFrames DEF IInv, HandleFrame, Scheduled, Succeeded, Uncounted, obsVars, injVars
  <1>1. CASE NoteFinishFailed(c)
    BY <1>0, <1>1, GaugeFailure DEF NoteFinishFailed
  <1>2. CASE ~NoteFinishFailed(c)
    <2>1. UNCHANGED <<active, total, success>>
      BY <1>2 DEF HandleStep, ConnectEnds, Cancel, Reap, ConnectFirst, ConnectOther, ConnectFails,
         Rekey, Woken, Timeout, HandshakeFailed, NoteFail, NoteIncrement, HandshakeOk,
         RelayCloses, RelayEnds, Exit, statVars
    <2>2. QED
      BY <1>0, <2>1, GaugeStutter
  <1>3. QED
    BY <1>1, <1>2

\* The success and active gauges together never exceed the connections whose
\* fake data was scheduled, for any number of connections and whichever thread
\* gives up first.
THEOREM Gauges == Spec => []GaugesBounded
  <1>1. IInv /\ GaugeInv /\ [Next]_vars => GaugeInv'
    <2> SUFFICES ASSUME IInv, GaugeInv, [Next]_vars PROVE GaugeInv'
      OBVIOUS
    <2>1. ASSUME NEW p \in Packet, Recv(p) PROVE GaugeInv'
      BY <2>1, GaugeStutter DEF Recv, Scheduled, Succeeded, Uncounted, obsVars, statVars
    <2>2. ASSUME NEW c \in Conn, NEW port \in Port, NEW first \in Ep, NEW m \in Methods,
                 Accept(c, port, first, m)
          PROVE  GaugeInv'
      BY <2>2, GaugeStutter DEF Accept, Scheduled, Succeeded, Uncounted, obsVars, injVars, statVars
    <2>3. CASE UNCHANGED vars
      BY <2>3, GaugeStutter DEF vars, Scheduled, Succeeded, Uncounted, obsVars, injVars, statVars
    <2>4. QED
      BY <2>1, <2>2, <2>3, GaugeInjector, GaugeSender, GaugeHandle DEF Next
  <1>2. IInv /\ GaugeInv => GaugesBounded
    <2> SUFFICES ASSUME IInv, GaugeInv PROVE GaugesBounded
      OBVIOUS
    <2>1. Uncounted \in {0, 1}
      BY DEF Uncounted
    <2>2. QED
      BY <2>1 DEF IInv, TypeOK, GaugeInv, GaugesBounded
  <1>3. QED
    BY Invariance, GaugeInit, <1>1, <1>2, PTL DEF Spec

-----------------------------------------------------------------------------
(***************************************************************************)
(* Action properties.                                                      *)
(***************************************************************************)
LEMMA SentStep ==
  ASSUME IInv, [Next]_vars, NEW c \in Conn, sent'[c] # sent[c]
  PROVE  SendSegment(c)
  <1> USE DEF InjGoto, InjReturn, Reinject, Release, SndGoto, SndReturn,
          connVars, obsVars, injVars, sndVars, statVars
  <1> USE DEF IInv
  <1>1. ASSUME NEW p \in Packet, Recv(p) PROVE FALSE
    BY <1>1 DEF Recv
  <1>2. ASSUME NEW d \in Conn, InjectorStep(d) PROVE FALSE
    BY <1>2, InjectorFrames DEF InjectorFrame
  <1>3. ASSUME NEW d \in Conn, SenderStep(d) PROVE SendSegment(c)
    <2>1. d = c
      BY <1>3, SenderFrames DEF SenderFrame
    <2>2. CASE StartSend(d)
      BY <2>2 DEF StartSend
    <2>3. CASE RetrySend(d)
      BY <2>3 DEF RetrySend
    <2>4. CASE SendFails(d)
      BY <2>4 DEF SendFails
    <2>5. CASE Recheck(d)
      BY <2>5 DEF Recheck
    <2>6. CASE SndClose(d)
      BY <2>6 DEF SndClose
    <2>7. CASE SndEvict(d)
      BY <2>7 DEF SndEvict
    <2>8. CASE SndCountFailed(d)
      BY <2>8 DEF SndCountFailed
    <2>9. CASE SndSignalClose(d)
      BY <2>9 DEF SndSignalClose
    <2>10. QED
      BY <1>3, <2>1, <2>2, <2>3, <2>4, <2>5, <2>6, <2>7, <2>8, <2>9 DEF SenderStep
  <1>4. ASSUME NEW d \in Conn, HandleStep(d) \/ Cancel(d) \/ Reap(d) PROVE FALSE
    BY <1>4, HandleFrames DEF HandleFrame
  <1>5. ASSUME NEW d \in Conn, NEW port \in Port, NEW first \in Ep, NEW m \in Methods,
               Accept(d, port, first, m)
        PROVE  FALSE
    BY <1>5 DEF Accept
  <1>6. CASE UNCHANGED vars
    BY <1>6 DEF vars
  <1>7. QED
    BY <1>1, <1>2, <1>3, <1>4, <1>5, <1>6 DEF Next

\* No segment of the fake ClientHello is sent after the verdict.
THEOREM QuietAfterVerdict == Spec => NoFakeAfterVerdict
  <1>1. IInv /\ [Next]_vars => [\A c \in Conn : sent'[c] # sent[c] => t2a_msg[c] = NoMsg]_vars
    BY SentStep DEF IInv, SenderInv, SendSegment, SndLocked
  <1>2. QED
    BY Invariance, <1>1, PTL DEF Spec, NoFakeAfterVerdict

\* The sequence numbers the fake segments are computed from stay put.
THEOREM StableSequence == Spec => SequenceStable
  <1> DEFINE Stable == \A c \in Conn : sndpc[c] # "none" =>
                         syn_seq'[c] = syn_seq[c] /\ syn_ack_seq'[c] = syn_ack_seq[c]
  <1>1. IInv /\ [Next]_vars => [Stable]_vars
    <2> SUFFICES ASSUME IInv, [Next]_vars, NEW c \in Conn, sndpc[c] # "none"
                 PROVE  syn_seq'[c] = syn_seq[c] /\ syn_ack_seq'[c] = syn_ack_seq[c]
      OBVIOUS
    <2> USE DEF IInv
    <2>1. sch_fake_sent[c] /\ syn_ack_seq[c] # -1
      BY DEF SenderInv, ObserverInv
    <2>2. ASSUME NEW d \in Conn, InjectorStep(d)
          PROVE  syn_seq'[c] = syn_seq[c] /\ syn_ack_seq'[c] = syn_ack_seq[c]
      <3>1. CASE d # c
        BY <2>2, <3>1, InjectorFrames DEF InjectorFrame
      <3>2. CASE ObserveSyn(d)
        BY <2>1, <3>1, <3>2 DEF ObserveSyn, IsSyn
      <3>3. CASE ObserveSynAck(d)
        BY <2>1, <3>1, <3>3 DEF ObserveSynAck, IsSynAck, TypeOK
      <3>4. CASE ~ObserveSyn(d) /\ ~ObserveSynAck(d)
        BY <2>2, <3>4 DEF InjectorStep, obsVars, ForwardUnmonitored, ObserveHandshakeAck,
           CountActive, Submit, ObserveFakeAck, ReadCountedOnSuccess, CountSuccess,
           SignalSuccess, Unexpected, InjClose, InjEvict, InjCountFailed, InjSignalClose
      <3>5. QED
        BY <3>1, <3>2, <3>3, <3>4
    <2>3. ASSUME NEW d \in Conn, SenderStep(d) \/ HandleStep(d) \/ Cancel(d) \/ Reap(d)
          PROVE  UNCHANGED obsVars
      BY <2>3, SenderFrames, HandleFrames DEF SenderFrame, HandleFrame
    <2>4. QED
      BY <2>2, <2>3 DEF Next, Recv, Accept, vars, obsVars
  <1>2. QED
    BY Invariance, <1>1, PTL DEF Spec, SequenceStable

(***************************************************************************)
(* Injector implements Bypass.                                             *)
(***************************************************************************)
AbstractStep == [Abstract!Next]_(Abstract!vars)

LEMMA AbstractStutter ==
  ASSUME UNCHANGED <<t2a_msg, sch_fake_sent, sent, bypass_method>>
  PROVE  UNCHANGED Abstract!vars
  BY DEF Abstract!vars, Phase, WholeSent

LEMMA AbstractInit == Init => Abstract!Init
  <1> SUFFICES ASSUME Init PROVE Abstract!Init
    OBVIOUS
  <1>1. \A c \in Conn : Phase(c) = "observing"
    BY DEF Init, Phase, NoMsg
  <1>2. \A c \in Conn : WholeSent(c) = FALSE
    BY SegmentsType DEF Init, WholeSent
  <1>3. QED
    BY <1>1, <1>2 DEF Abstract!Init, Init

LEMMA AbstractInjector ==
  ASSUME IInv, NEW c \in Conn, InjectorStep(c)
  PROVE  AbstractStep
  <1> USE DEF InjGoto, InjReturn, Reinject, Release, SndGoto, SndReturn,
          connVars, obsVars, injVars, sndVars, statVars
  <1> USE DEF IInv
  <1>0. /\ \A d \in Conn : sent'[d] = sent[d] /\ bypass_method'[d] = bypass_method[d]
        /\ \A d \in Conn : WholeSent(d)' = WholeSent(d)
        /\ UNCHANGED sent
    BY InjectorFrames DEF InjectorFrame, WholeSent
  <1>1. CASE ForwardUnmonitored(c)
    BY <1>1, AbstractStutter DEF AbstractStep, ForwardUnmonitored
  <1>2. CASE ObserveSyn(c)
    BY <1>2, AbstractStutter DEF AbstractStep, ObserveSyn
  <1>3. CASE ObserveSynAck(c)
    BY <1>3, AbstractStutter DEF AbstractStep, ObserveSynAck
  <1>4. CASE CountActive(c)
    BY <1>4, AbstractStutter DEF AbstractStep, CountActive
  <1>5. CASE Submit(c)
    BY <1>5, AbstractStutter DEF AbstractStep, Submit
  <1>6. CASE ObserveFakeAck(c)
    BY <1>6, AbstractStutter DEF AbstractStep, ObserveFakeAck
  <1>7. CASE ReadCountedOnSuccess(c)
    BY <1>7, AbstractStutter DEF AbstractStep, ReadCountedOnSuccess
  <1>8. CASE CountSuccess(c)
    BY <1>8, AbstractStutter DEF AbstractStep, CountSuccess
  <1>9. CASE Unexpected(c)
    BY <1>9, AbstractStutter DEF AbstractStep, Unexpected
  <1>10. CASE InjClose(c)
    BY <1>10, AbstractStutter DEF AbstractStep, InjClose
  <1>11. CASE InjEvict(c)
    BY <1>11, AbstractStutter DEF AbstractStep, InjEvict
  <1>12. CASE InjCountFailed(c)
    BY <1>12, AbstractStutter DEF AbstractStep, InjCountFailed
  <1>13. CASE ObserveHandshakeAck(c)
    <2>1. CASE injpc' # "count"
      BY <1>13, <2>1, AbstractStutter DEF AbstractStep, ObserveHandshakeAck
    <2>2. CASE injpc' = "count"
      <3>1. t2a_msg[c] = NoMsg
        BY <1>13 DEF ObserveHandshakeAck, Monitored, Entered, ObserverInv
      <3>2. Phase(c) = "observing" /\ Phase(c)' = "sending"
        BY <1>13, <2>2, <3>1 DEF ObserveHandshakeAck, Phase, IsHandshakeAck, Expected, TypeOK, NoMsg
      <3>3. \A d \in Conn \ {c} : Phase(d)' = Phase(d)
        BY <1>13, <2>2 DEF ObserveHandshakeAck, Phase, TypeOK
      <3>4. Abstract!Schedule(c)
        BY <1>0, <3>2, <3>3 DEF Abstract!Schedule
      <3>5. QED
        BY <3>4 DEF AbstractStep, Abstract!Next
    <2>3. QED
      BY <2>1, <2>2
  <1>14. CASE SignalSuccess(c)
    <2>1. t2a_msg[c] = NoMsg /\ t2a_msg'[c] = "fake_data_ack_recv"
      BY <1>14 DEF SignalSuccess, InjectorInv, InjLocked, TypeOK
    <2>2. Phase(c) \in {"observing", "sending"} /\ Phase(c)' = "acked"
      BY <2>1 DEF Phase, NoMsg
    <2>3. \A d \in Conn \ {c} : Phase(d)' = Phase(d)
      BY <1>14 DEF SignalSuccess, Phase, TypeOK
    <2>4. Phase(c) = "sending" /\ WholeSent(c)
      BY <1>14, <2>1 DEF SignalSuccess, InjectorInv, Earned, Phase, NoMsg
    <2>5. Abstract!Succeed(c)
      BY <1>0, <2>2, <2>3, <2>4 DEF Abstract!Succeed
    <2>6. QED
      BY <2>5 DEF AbstractStep, Abstract!Next
  <1>15. CASE InjSignalClose(c)
    <2>1. t2a_msg[c] = NoMsg /\ t2a_msg'[c] = "unexpected_close"
      BY <1>15 DEF InjSignalClose, InjectorInv, InjLocked, TypeOK
    <2>2. Phase(c) \in {"observing", "sending"} /\ Phase(c)' = "closed"
      BY <2>1 DEF Phase, NoMsg
    <2>3. \A d \in Conn \ {c} : Phase(d)' = Phase(d)
      BY <1>15 DEF InjSignalClose, Phase, TypeOK
    <2>4. Abstract!Close(c)
      BY <1>0, <2>2, <2>3 DEF Abstract!Close
    <2>5. QED
      BY <2>4 DEF AbstractStep, Abstract!Next
  <1>16. QED
    BY <1>1, <1>2, <1>3, <1>4, <1>5, <1>6, <1>7, <1>8, <1>9, <1>10, <1>11, <1>12, <1>13, <1>14, <1>15 DEF InjectorStep

LEMMA AbstractSender ==
  ASSUME IInv, NEW c \in Conn, SenderStep(c)
  PROVE  AbstractStep
  <1> USE DEF InjGoto, InjReturn, Reinject, Release, SndGoto, SndReturn,
          connVars, obsVars, injVars, sndVars, statVars
  <1> USE DEF IInv
  <1>1. CASE StartSend(c)
    BY <1>1, AbstractStutter DEF AbstractStep, StartSend
  <1>2. CASE RetrySend(c)
    BY <1>2, AbstractStutter DEF AbstractStep, RetrySend
  <1>3. CASE SendFails(c)
    BY <1>3, AbstractStutter DEF AbstractStep, SendFails
  <1>4. CASE Recheck(c)
    BY <1>4, AbstractStutter DEF AbstractStep, Recheck
  <1>5. CASE SndClose(c)
    BY <1>5, AbstractStutter DEF AbstractStep, SndClose
  <1>6. CASE SndEvict(c)
    BY <1>6, AbstractStutter DEF AbstractStep, SndEvict
  <1>7. CASE SndCountFailed(c)
    BY <1>7, AbstractStutter DEF AbstractStep, SndCountFailed
  <1>8. CASE SendSegment(c)
    <2>1. t2a_msg[c] = NoMsg /\ sch_fake_sent[c]
      BY <1>8 DEF SendSegment, SenderInv, SndLocked
    <2>2. Phase(c) = "sending" /\ \A d \in Conn : Phase(d)' = Phase(d)
      BY <1>8, <2>1 DEF SendSegment, Phase, NoMsg
    <2>3. \A d \in Conn \ {c} : WholeSent(d)' = WholeSent(d)
      BY <1>8 DEF SendSegment, WholeSent, TypeOK
    <2>4. WholeSent(c) => WholeSent(c)'
      BY <1>8, SegmentsType DEF SendSegment, WholeSent, TypeOK
    <2>5. sent' = [sent EXCEPT ![c] = @ + 1]
      BY <1>8 DEF SendSegment
    <2>6. CASE WholeSent(c)'
      <3>1. [d \in Conn |-> WholeSent(d)'] = [[d \in Conn |-> WholeSent(d)] EXCEPT ![c] = TRUE]
        BY <2>3, <2>6 DEF WholeSent
      <3>2. Abstract!SendOne(c)
        BY <2>2, <2>5, <3>1 DEF Abstract!SendOne
      <3>3. QED
        BY <3>2 DEF AbstractStep, Abstract!Next
    <2>7. CASE ~WholeSent(c)'
      <3>1. [d \in Conn |-> WholeSent(d)'] = [d \in Conn |-> WholeSent(d)]
        BY <2>3, <2>4, <2>7 DEF WholeSent
      <3>2. Abstract!SendOne(c)
        BY <2>2, <2>5, <3>1 DEF Abstract!SendOne
      <3>3. QED
        BY <3>2 DEF AbstractStep, Abstract!Next
    <2>8. QED
      BY <2>6, <2>7
  <1>9. CASE SndSignalClose(c)
    <2>1. t2a_msg[c] = NoMsg /\ t2a_msg'[c] = "unexpected_close"
      BY <1>9 DEF SndSignalClose, SenderInv, SndLocked, TypeOK
    <2>2. Phase(c) \in {"observing", "sending"} /\ Phase(c)' = "closed"
      BY <2>1 DEF Phase, NoMsg
    <2>3. \A d \in Conn \ {c} : Phase(d)' = Phase(d)
      BY <1>9 DEF SndSignalClose, Phase, TypeOK
    <2>4. UNCHANGED sent /\ \A d \in Conn : WholeSent(d)' = WholeSent(d)
      BY <1>9 DEF SndSignalClose, WholeSent
    <2>5. Abstract!Close(c)
      BY <2>2, <2>3, <2>4 DEF Abstract!Close
    <2>6. QED
      BY <2>5 DEF AbstractStep, Abstract!Next
  <1>10. QED
    BY <1>1, <1>2, <1>3, <1>4, <1>5, <1>6, <1>7, <1>8, <1>9 DEF SenderStep

LEMMA AbstractAccept ==
  ASSUME IInv, NEW c \in Conn, NEW port \in Port, NEW first \in Ep, NEW m \in Methods,
         Accept(c, port, first, m)
  PROVE  AbstractStep
  <1> USE DEF InjGoto, InjReturn, Reinject, Release, SndGoto, SndReturn,
          connVars, obsVars, injVars, sndVars, statVars
  <1> USE DEF IInv
  <1>1. sent[c] = 0
    BY DEF Accept, ObserverInv, SenderInv
  <1>2. ~WholeSent(c) /\ ~WholeSent(c)'
    BY <1>1, SegmentsType DEF Accept, WholeSent
  <1>3. \A d \in Conn \ {c} : WholeSent(d)' = WholeSent(d)
    BY DEF Accept, WholeSent, TypeOK
  <1>4. \A d \in Conn : Phase(d)' = Phase(d)
    BY DEF Accept, Phase
  <1>5. UNCHANGED Abstract!vars
    <2>1. \A d \in Conn : WholeSent(d)' = WholeSent(d)
      BY <1>2, <1>3 DEF WholeSent
    <2>2. QED
      BY <1>4, <2>1 DEF Abstract!vars, Accept
  <1>6. QED
    BY <1>5 DEF AbstractStep

\* One verdict per connection, final; a good one only after a whole fake
\* ClientHello; nothing fake after it: for any number of connections, threads
\* interleaved in any way.
THEOREM Refinement == Spec => ImplementsBypass
  <1>1. IInv /\ [Next]_vars => AbstractStep
    <2> SUFFICES ASSUME IInv, [Next]_vars PROVE AbstractStep
      OBVIOUS
    <2>1. ASSUME NEW p \in Packet, Recv(p) PROVE AbstractStep
      BY <2>1, AbstractStutter DEF Recv, AbstractStep, obsVars, sndVars
    <2>2. ASSUME NEW c \in Conn, HandleStep(c) \/ Cancel(c) \/ Reap(c) PROVE AbstractStep
      BY <2>2, HandleFrames, AbstractStutter DEF IInv, HandleFrame, AbstractStep, obsVars, sndVars
    <2>3. CASE UNCHANGED vars
      BY <2>3, AbstractStutter DEF vars, AbstractStep, obsVars, sndVars
    <2>4. QED
      BY <2>1, <2>2, <2>3, AbstractInjector, AbstractSender, AbstractAccept DEF Next
  <1>2. QED
    BY Invariance, AbstractInit, <1>1, PTL DEF Spec, ImplementsBypass, Abstract!Spec, AbstractStep

-----------------------------------------------------------------------------
(***************************************************************************)
(* How far a fake-send job still has to go.                                *)
(***************************************************************************)

\* Segments the current attempt has not sent yet.
Todo(c) == Segments(bypass_method[c], attempt[c]) + SentBefore(c) - sent[c]

JobRank ==
  [none |-> 0, done |-> 0, closesig |-> 1, closefin |-> 2, evict |-> 3, close |-> 4,
   send |-> 3, between |-> 4, pause |-> 12, queued |-> 20]

\* A bound on the steps the job of c still takes.
JobLeft(c) ==
  JobRank[sndpc[c]] + (IF sndpc[c] \in {"send", "between"} THEN 2 * Todo(c) ELSE 0)
                    + (IF sndpc[c] \in {"send", "between"} /\ attempt[c] = 1 THEN 10 ELSE 0)

JobAt(c) ==
  /\ sndpc[c] \in {"send", "between"} => Todo(c) \in 1 .. 3
  /\ sndpc[c] = "pause" => attempt[c] = 1 /\ sent[c] = 1
JobInv == \A c \in Conn : JobAt(c)

\* A job that was scheduled only goes on: whatever the other threads do, each of
\* its steps brings it nearer to its end, of which it is never more than 20 steps
\* away, pauses and failures included; and when it has to wait for the lock, it
\* waits for the injector inside a handler (fake_send_thread(), _send_delayed_retry()).
JobWaits == \A c \in Conn :
  sndpc[c] \in {"queued", "pause"} /\ thread_lock[c] # "free" => injpc \in InjLocked /\ injc = c
JobAdvances ==
  /\ [](JobWaits /\ \A c \in Conn : JobLeft(c) \in 0 .. 20)
  /\ [][\A c \in Conn : sndpc[c] # "none" =>
          UNCHANGED <<sndpc[c], attempt[c], sent[c]>> \/ JobLeft(c)' < JobLeft(c)]_vars

InjRank ==
  [recv |-> 0, closesig |-> 1, closefin |-> 2, evict |-> 3, close |-> 4, signal |-> 5,
   finish |-> 6, succ |-> 7, submit |-> 8, count |-> 9, lock |-> 10]

\* A handler of the injector only goes on too, and when it has to wait for the lock,
\* it waits for a job that holds it and, sending or closing, waits for none: the two
\* never wait for each other (inject(), the RLock of fake_tcp.py:292).
InjectorWaits == injpc = "lock" /\ thread_lock[injc] # "free" => sndpc[injc] \in SndLocked
InjectorAdvances ==
  /\ []InjectorWaits
  /\ [][injpc # "recv" => UNCHANGED injpc \/ InjRank[injpc'] < InjRank[injpc]]_vars

\* Which steps are the job's.
LEMMA JobSteps ==
  ASSUME IInv, [Next]_vars, NEW c \in Conn
  PROVE  \/ /\ UNCHANGED <<sndpc[c], attempt[c], sent[c]>>
            /\ sndpc[c] = "none" \/ UNCHANGED bypass_method[c]
         \/ /\ sndpc[c] = "none" /\ sndpc'[c] = "queued" /\ UNCHANGED <<attempt[c], sent[c]>>
         \/ SenderStep(c)
  <1> DEFINE Still == /\ UNCHANGED <<sndpc[c], attempt[c], sent[c]>>
                      /\ sndpc[c] = "none" \/ UNCHANGED bypass_method[c]
             Starts == sndpc[c] = "none" /\ sndpc'[c] = "queued" /\ UNCHANGED <<attempt[c], sent[c]>>
  <1> USE DEF IInv
  <1>1. ASSUME NEW p \in Packet, Recv(p) PROVE Still
    BY <1>1 DEF Recv, sndVars
  <1>2. ASSUME NEW d \in Conn, InjectorStep(d) PROVE Still \/ Starts
    <2>1. InjectorFrame(d)
      BY <1>2, InjectorFrames
    <2>2. CASE c # d
      BY <2>1, <2>2 DEF InjectorFrame
    <2>3. CASE c = d /\ Submit(c)
      <3>1. sndpc[c] = "none"
        BY <2>3 DEF Submit, InjectorInv
      <3>2. sndpc'[c] \in {sndpc[c], "queued"}
        BY <2>3 DEF Submit, TypeOK
      <3>3. QED
        BY <2>1, <3>1, <3>2 DEF InjectorFrame
    <2>4. CASE c = d /\ ~Submit(c)
      <3>1. sndpc' = sndpc
        BY <1>2, <2>4 DEF InjectorStep, sndVars, ForwardUnmonitored, ObserveSyn, ObserveSynAck,
           ObserveHandshakeAck, CountActive, ObserveFakeAck, ReadCountedOnSuccess, CountSuccess,
           SignalSuccess, Unexpected, InjClose, InjEvict, InjCountFailed, InjSignalClose
      <3>2. QED
        BY <2>1, <3>1 DEF InjectorFrame
    <2>5. QED
      BY <2>2, <2>3, <2>4
  <1>3. ASSUME NEW d \in Conn, SenderStep(d) PROVE Still \/ SenderStep(c)
    BY <1>3, SenderFrames DEF SenderFrame
  <1>4. ASSUME NEW d \in Conn, HandleStep(d) \/ Cancel(d) \/ Reap(d) PROVE Still
    BY <1>4, HandleFrames DEF HandleFrame, sndVars
  <1>5. ASSUME NEW d \in Conn, NEW port \in Port, NEW first \in Ep, NEW m \in Methods,
               Accept(d, port, first, m)
        PROVE  Still
    <2>1. sndpc[d] = "none" /\ UNCHANGED sndVars
      BY <1>5 DEF Accept, ObserverInv, SenderInv
    <2>2. \A e \in Conn \ {d} : bypass_method'[e] = bypass_method[e]
      BY <1>5 DEF Accept, TypeOK
    <2>3. QED
      BY <2>1, <2>2 DEF sndVars
  <1>6. CASE UNCHANGED vars
    BY <1>6 DEF vars, sndVars
  <1>7. QED
    BY <1>1, <1>2, <1>3, <1>4, <1>5, <1>6 DEF Next

LEMMA SegmentsOf ==
  ASSUME NEW m
  PROVE  /\ Segments(m, 1) \in 1 .. 3 /\ Segments(m, 2) \in 1 .. 3
         /\ Segments("delayed_retry", 1) = 1 /\ Segments("delayed_retry", 2) = 2
  BY DEF Segments

\* Each step of a job brings its end nearer.
LEMMA JobNearer ==
  ASSUME IInv, NEW c \in Conn, JobAt(c), SenderStep(c)
  PROVE  JobAt(c)' /\ JobLeft(c)' < JobLeft(c)
  <1> USE SegmentsOf DEF SndGoto, SndReturn, JobAt, JobLeft, JobRank, TypeOK
  <1>0. TypeOK /\ SenderInv /\ SentBefore(c) \in {0, 1} /\ bypass_method'[c] = bypass_method[c]
    BY SenderFrames DEF IInv, SenderFrame, SentBefore
  <1>1. CASE StartSend(c)
    <2>1. sent[c] = 0 /\ attempt[c] = 1
      BY <1>0, <1>1 DEF StartSend, SenderInv
    <2>2. QED
      BY <1>0, <1>1, <2>1 DEF StartSend, Todo, SentBefore
  <1>2. CASE RetrySend(c)
    <2>1. bypass_method[c] = "delayed_retry" /\ sent[c] = 1 /\ sent' = sent
      BY <1>0, <1>2 DEF RetrySend, SenderInv
    <2>2. CASE attempt'[c] = 2 /\ sndpc'[c] = "send"
      <3>1. Todo(c)' = 2
        BY <1>0, <2>1, <2>2 DEF Todo, SentBefore
      <3>2. QED
        BY <1>2, <2>2, <3>1 DEF RetrySend
    <2>3. CASE sndpc'[c] = "done"
      BY <1>2, <2>3 DEF RetrySend
    <2>4. QED
      BY <1>0, <1>2, <2>2, <2>3 DEF RetrySend
  <1>3. CASE SendSegment(c)
    <2>1. sent'[c] = sent[c] + 1 /\ attempt' = attempt /\ sent[c] \in Nat /\ sndpc[c] = "send"
      BY <1>0, <1>3 DEF SendSegment
    <2>2. Todo(c) \in 1 .. 3 /\ Todo(c)' = Todo(c) - 1
      BY <1>0, <2>1 DEF Todo, SentBefore
    <2>3. LastSegment(c) <=> Todo(c) = 1
      BY <1>0, <2>1 DEF LastSegment, Todo
    <2>4. CASE ~LastSegment(c)
      <3>1. sndpc'[c] = "between"
        BY <1>0, <1>3, <2>4 DEF SendSegment
      <3>2. QED
        BY <1>0, <2>1, <2>2, <2>3, <2>4, <3>1
    <2>5. CASE LastSegment(c) /\ bypass_method[c] = "delayed_retry" /\ attempt[c] = 1
      <3>1. sndpc'[c] = "pause" /\ attempt'[c] = 1
        BY <1>0, <1>3, <2>1, <2>5 DEF SendSegment
      <3>2. sent'[c] = 1
        BY <1>0, <2>1, <2>5 DEF LastSegment, SentBefore
      <3>3. QED
        BY <2>1, <2>2, <2>5, <3>1, <3>2
    <2>6. CASE LastSegment(c) /\ ~(bypass_method[c] = "delayed_retry" /\ attempt[c] = 1)
      <3>1. sndpc'[c] = "done"
        BY <1>0, <1>3, <2>6 DEF SendSegment
      <3>2. QED
        BY <1>0, <2>1, <2>2, <3>1
    <2>7. QED
      BY <2>4, <2>5, <2>6
  <1>4. CASE SendFails(c)
    <2>1. sndpc[c] = "send" /\ sndpc'[c] = "close" /\ Todo(c) \in 1 .. 3
      BY <1>0, <1>4 DEF SendFails
    <2>2. QED
      BY <2>1
  <1>5. CASE Recheck(c)
    <2>1. /\ sndpc[c] = "between" /\ sndpc'[c] \in {"send", "done"}
          /\ UNCHANGED <<attempt, sent>> /\ Todo(c) \in 1 .. 3
      BY <1>0, <1>5 DEF Recheck
    <2>2. Todo(c)' = Todo(c)
      BY <1>0, <2>1 DEF Todo, SentBefore
    <2>3. QED
      BY <2>1, <2>2
  <1>6. CASE SndClose(c)
    BY <1>0, <1>6 DEF SndClose
  <1>7. CASE SndEvict(c)
    BY <1>0, <1>7 DEF SndEvict
  <1>8. CASE SndCountFailed(c)
    BY <1>0, <1>8 DEF SndCountFailed
  <1>9. CASE SndSignalClose(c)
    BY <1>0, <1>9 DEF SndSignalClose
  <1>10. QED
    BY <1>1, <1>2, <1>3, <1>4, <1>5, <1>6, <1>7, <1>8, <1>9 DEF SenderStep

LEMMA JobInvNext ==
  ASSUME IInv, JobInv, [Next]_vars, NEW c \in Conn
  PROVE  /\ JobAt(c)'
         /\ sndpc[c] # "none" =>
              UNCHANGED <<sndpc[c], attempt[c], sent[c]>> \/ JobLeft(c)' < JobLeft(c)
  <1>1. JobAt(c)
    BY DEF JobInv
  <1>2. CASE UNCHANGED <<sndpc[c], attempt[c], sent[c], bypass_method[c]>>
    BY <1>1, <1>2 DEF JobAt, Todo, SentBefore
  <1>3. CASE sndpc[c] = "none" /\ sndpc'[c] \in {"none", "queued"}
    BY <1>3 DEF JobAt
  <1>4. CASE SenderStep(c)
    BY <1>1, <1>4, JobNearer
  <1>5. QED
    BY <1>2, <1>3, <1>4, JobSteps

LEMMA JobBounded ==
  ASSUME TypeOK, JobInv, NEW c \in Conn
  PROVE  JobLeft(c) \in 0 .. 20
  <1>1. JobAt(c) /\ sndpc[c] \in SndSteps
    BY DEF JobInv, TypeOK
  <1>2. CASE sndpc[c] \in {"send", "between"}
    BY <1>1, <1>2 DEF JobAt, JobLeft, JobRank
  <1>3. CASE sndpc[c] \notin {"send", "between"}
    BY <1>1, <1>3 DEF JobLeft, JobRank, SndSteps, SndLocked
  <1>4. QED
    BY <1>2, <1>3

\* What can be said of the end of a job without fairness, for any number of
\* connections: it takes a bounded number of steps, and waits for a handler at most.
THEOREM JobsAdvance == Spec => JobAdvances
  <1>1. Init => JobInv
    BY DEF Init, JobInv, JobAt
  <1>2. IInv /\ JobInv /\ [Next]_vars => JobInv'
    BY JobInvNext DEF JobInv
  <1>3. IInv /\ JobInv => JobWaits /\ \A c \in Conn : JobLeft(c) \in 0 .. 20
    BY JobBounded DEF IInv, TypeOK, LockInv, SndLocked, JobWaits
  <1>4. IInv /\ JobInv /\ [Next]_vars =>
          [\A c \in Conn : sndpc[c] # "none" =>
             UNCHANGED <<sndpc[c], attempt[c], sent[c]>> \/ JobLeft(c)' < JobLeft(c)]_vars
    BY JobInvNext
  <1>5. QED
    BY Invariance, <1>1, <1>2, <1>3, <1>4, PTL DEF Spec, JobAdvances

\* Each step of a handler goes down in rank.
LEMMA InjectorNearer ==
  ASSUME IInv, NEW c \in Conn, InjectorStep(c)
  PROVE  InjRank[injpc'] < InjRank[injpc]
  <1> USE DEF InjRank, InjGoto, InjReturn, Reinject, Entered, Monitored
  <1>1. CASE ForwardUnmonitored(c)
    BY <1>1 DEF ForwardUnmonitored
  <1>2. CASE ObserveSyn(c)
    BY <1>2 DEF ObserveSyn
  <1>3. CASE ObserveSynAck(c)
    BY <1>3 DEF ObserveSynAck
  <1>4. CASE ObserveHandshakeAck(c)
    BY <1>4 DEF ObserveHandshakeAck
  <1>5. CASE CountActive(c)
    BY <1>5 DEF CountActive
  <1>6. CASE Submit(c)
    BY <1>6 DEF Submit
  <1>7. CASE ObserveFakeAck(c)
    BY <1>7 DEF ObserveFakeAck
  <1>8. CASE ReadCountedOnSuccess(c)
    BY <1>8 DEF ReadCountedOnSuccess
  <1>9. CASE CountSuccess(c)
    BY <1>9 DEF CountSuccess
  <1>10. CASE SignalSuccess(c)
    BY <1>10 DEF SignalSuccess
  <1>11. CASE Unexpected(c)
    BY <1>11 DEF Unexpected
  <1>12. CASE InjClose(c)
    BY <1>12 DEF InjClose
  <1>13. CASE InjEvict(c)
    BY <1>13 DEF InjEvict
  <1>14. CASE InjCountFailed(c)
    BY <1>14 DEF InjCountFailed
  <1>15. CASE InjSignalClose(c)
    BY <1>15 DEF InjSignalClose
  <1> QED
    BY <1>1, <1>2, <1>3, <1>4, <1>5, <1>6, <1>7, <1>8, <1>9, <1>10, <1>11, <1>12, <1>13, <1>14,
       <1>15 DEF InjectorStep

\* The same of the injector thread: a handler takes at most ten steps, and the two
\* owners of a lock never wait for each other.
THEOREM HandlersAdvance == Spec => InjectorAdvances
  <1>1. IInv => InjectorWaits
    BY DEF IInv, TypeOK, LockInv, InjLocked, InjectorWaits
  <1>2. IInv /\ [Next]_vars =>
          [injpc # "recv" => UNCHANGED injpc \/ InjRank[injpc'] < InjRank[injpc]]_vars
    <2> SUFFICES ASSUME IInv, [Next]_vars, injpc # "recv"
                 PROVE  UNCHANGED injpc \/ InjRank[injpc'] < InjRank[injpc]
      OBVIOUS
    <2>1. ASSUME NEW p \in Packet, Recv(p) PROVE FALSE
      BY <2>1 DEF Recv
    <2>2. ASSUME NEW c \in Conn, SenderStep(c) PROVE UNCHANGED injpc
      BY <2>2, SenderFrames DEF IInv, SenderFrame, injVars
    <2>3. ASSUME NEW c \in Conn, HandleStep(c) \/ Cancel(c) \/ Reap(c) PROVE UNCHANGED injpc
      BY <2>3, HandleFrames DEF IInv, HandleFrame, injVars
    <2>4. ASSUME NEW c \in Conn, NEW port \in Port, NEW first \in Ep, NEW m \in Methods,
                 Accept(c, port, first, m)
          PROVE  UNCHANGED injpc
      BY <2>4 DEF Accept, injVars
    <2>5. CASE UNCHANGED vars
      BY <2>5 DEF vars, injVars
    <2>6. QED
      BY <2>1, <2>2, <2>3, <2>4, <2>5, InjectorNearer DEF Next
  <1>3. QED
    BY Invariance, <1>1, <1>2, PTL DEF Spec, InjectorAdvances
=============================================================================
