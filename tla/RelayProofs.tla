----------------------------- MODULE RelayProofs -----------------------------
(***************************************************************************)
(* Proofs about Relay, for every number of connections, every chunk size,  *)
(* batch length, cap and threshold, and for every MaxBytes, any natural    *)
(* number for each direction.                                              *)
(***************************************************************************)
EXTENDS Relay, FiniteSetTheorems, TLAPS

\* The two directions of a connection.
LEMMA TaskFacts ==
  /\ \A c \in Conn :
       /\ Up(c) \in Task /\ Down(c) \in Task
       /\ Up(c)[1] = c /\ Up(c)[2] = "up" /\ Down(c)[1] = c /\ Down(c)[2] = "down"
       /\ Peer(Up(c)) = Down(c) /\ Peer(Down(c)) = Up(c)
  /\ \A t \in Task : /\ t[1] \in Conn /\ Peer(t) \in Task
                     /\ \/ t[2] = "up" /\ t = Up(t[1])
                        \/ t[2] = "down" /\ t = Down(t[1])
  <1>1. ASSUME NEW c \in Conn
        PROVE  /\ Up(c) \in Task /\ Down(c) \in Task
               /\ Up(c)[1] = c /\ Up(c)[2] = "up" /\ Down(c)[1] = c /\ Down(c)[2] = "down"
    BY DEF Task, Up, Down
  <1>2. ASSUME NEW c \in Conn
        PROVE  Peer(Up(c)) = Down(c) /\ Peer(Down(c)) = Up(c)
    BY <1>1 DEF Peer
  <1>3. ASSUME NEW t \in Task
        PROVE  /\ t[1] \in Conn
               /\ \/ t[2] = "up" /\ t = Up(t[1])
                  \/ t[2] = "down" /\ t = Down(t[1])
    BY DEF Task, Up, Down
  <1>4. ASSUME NEW t \in Task PROVE Peer(t) \in Task
    BY <1>1, <1>3 DEF Peer
  <1>5. QED
    BY <1>1, <1>2, <1>3, <1>4

\* Taking entries off the list leaves the others as they are.
LEMMA UnlistedEntry ==
  ASSUME NEW en \in [Task -> Nat \cup {-1}], NEW c
  PROVE  /\ Unlisted(en, c) \in [Task -> Nat \cup {-1}]
         /\ \A t \in Task : Unlisted(en, c)[t] = IF t \in {Up(c), Down(c)} THEN -1 ELSE en[t]
  BY DEF Unlisted

LEMMA PrunedEntry ==
  ASSUME NEW en \in [Task -> Nat \cup {-1}], NEW pl
  PROVE  /\ Pruned(en, pl) \in [Task -> Nat \cup {-1}]
         /\ \A t \in Task : Pruned(en, pl)[t] \in {en[t], -1}
  BY UnlistedEntry DEF Pruned

\* A delta goes to the entry of its own direction, and only if there is one.
LEMMA UpdatedEntry ==
  ASSUME NEW en \in [Task -> Nat \cup {-1}], NEW t \in Task, NEW bytes \in Nat
  PROVE  /\ Updated(en, t, bytes) \in [Task -> Nat \cup {-1}]
         /\ \A u \in Task : Updated(en, t, bytes)[u] =
              IF u = t /\ en[t] # -1 THEN en[t] + bytes ELSE en[u]
  BY DEF Updated

LEMMA AcceptedType == Accepted \in Nat
  BY RelayAssumption, FS_Subset, FS_CardinalityType DEF Accepted

LEMMA RInit == Init => RInv
  <1> SUFFICES ASSUME Init PROVE RInv
    OBVIOUS
  <1>1. TypeOK
    <2>1. 0 \in 0 .. FLUSH_CHUNKS - 1 /\ -1 \in Nat \cup {-1} /\ 0 \in Nat
      BY RelayAssumption
    <2>2. QED
      BY <2>1 DEF Init, TypeOK, Points
  <1>2. NotStarted /\ Grown /\ JudgedIsClosed /\ Accounted /\ NoGhost /\ FailIsEarned
    BY TaskFacts DEF Init, NotStarted, Grown, InLoop, JudgedIsClosed, Accounted, NoGhost,
       Listed, FailIsEarned
  <1>3. QED
    BY <1>1, <1>2 DEF RInv

-----------------------------------------------------------------------------
\* The three ways out of the loop have one effect.
Leaves(t) == InLoop(t) /\ End(t)

LEMMA LeavesAll ==
  ASSUME NEW t \in Task, Breaks(t) \/ IdleTimeout(t) \/ Cancelled(t)
  PROVE  Leaves(t)
  BY DEF Breaks, IdleTimeout, Cancelled, Leaves, InLoop

\* The entries after a direction has left its loop.
LEMMA EndEntry ==
  ASSUME TypeOK, NEW t \in Task, End(t)
  PROVE  /\ entry' \in [Task -> Nat \cup {-1}]
         /\ \A u \in Task : entry'[u] \in {-1, entry[u], entry[u] + pending[u]}
         /\ \A u \in Task : entry'[u] # -1 =>
              /\ entry[u] # -1
              /\ entry'[u] = entry[u] + (IF u = t THEN pending[t] ELSE 0)
         /\ t[2] = "up" => entry'[Up(t[1])] = -1 /\ entry'[Down(t[1])] = -1
  <1> DEFINE flushed == Updated(entry, t, pending[t])
  <1>1. pending[t] \in Nat /\ entry \in [Task -> Nat \cup {-1}]
    BY DEF TypeOK
  <1>2. /\ flushed \in [Task -> Nat \cup {-1}]
        /\ \A u \in Task : flushed[u] = IF u = t /\ entry[t] # -1 THEN entry[t] + pending[t] ELSE entry[u]
    BY <1>1, UpdatedEntry
  <1>3. CASE t[2] = "up"
    <2>1. entry' = Unlisted(flushed, t[1])
      BY <1>3 DEF End
    <2>2. /\ entry' \in [Task -> Nat \cup {-1}]
          /\ \A u \in Task : entry'[u] = IF u \in {Up(t[1]), Down(t[1])} THEN -1 ELSE flushed[u]
      BY <1>2, <2>1, UnlistedEntry
    <2>3. QED
      BY <1>1, <1>2, <2>2, TaskFacts
  <1>4. CASE t[2] # "up"
    <2>1. entry' = flushed
      BY <1>4 DEF End
    <2>2. QED
      BY <1>1, <1>2, <1>4, <2>1
  <1>5. QED
    BY <1>3, <1>4

\* The entries after a registration.
LEMMA RegisterEntry ==
  ASSUME TypeOK, NEW c \in Conn, Register(c)
  PROVE  /\ entry' \in [Task -> Nat \cup {-1}]
         /\ \A t \in Task : t[1] # c => entry'[t] \in {entry[t], -1}
         /\ \A t \in Task : t[1] = c => entry'[t] \in {0, -1}
  <1> DEFINE en == [entry EXCEPT ![Up(c)] = 0, ![Down(c)] = 0]
  <1>1. en \in [Task -> Nat \cup {-1}] /\ en[Up(c)] = 0 /\ en[Down(c)] = 0
    BY TaskFacts DEF TypeOK
  <1>2. \A t \in Task : t[1] # c => en[t] = entry[t]
    BY TaskFacts DEF TypeOK
  <1>3. \A t \in Task : t[1] = c => en[t] = 0
    BY <1>1, TaskFacts
  <1>4. entry' = Pruned(en, place')
    BY DEF Register
  <1> HIDE DEF en
  <1>5. entry' \in [Task -> Nat \cup {-1}] /\ \A t \in Task : entry'[t] \in {en[t], -1}
    BY <1>1, <1>4, PrunedEntry
  <1>6. QED
    BY <1>2, <1>3, <1>5

\* A connection that never relays takes its entry with it, and touches no other.
LEMMA NeverRelaysEntry ==
  ASSUME TypeOK, NEW c \in Conn, NeverRelays(c)
  PROVE  /\ entry'[Up(c)] = -1 /\ entry'[Down(c)] = -1
         /\ \A t \in Task : t[1] # c => entry'[t] = entry[t]
         /\ \A t \in Task : entry'[t] \in {entry[t], -1}
  <1>1. entry \in [Task -> Nat \cup {-1}]
    BY DEF TypeOK
  <1>2. entry' = Unlisted(entry, c)
    BY DEF NeverRelays
  <1>3. Up(c) \in Task /\ Down(c) \in Task /\ Up(c)[1] = c /\ Down(c)[1] = c
    BY TaskFacts
  <1>4. \A t \in Task : entry'[t] = IF t \in {Up(c), Down(c)} THEN -1 ELSE entry[t]
    BY <1>1, <1>2, UnlistedEntry
  <1>5. QED
    BY <1>3, <1>4

\* The entries after a chunk has been sent.
LEMMA SentEntry ==
  ASSUME TypeOK, NEW t \in Task, Sent(t)
  PROVE  /\ entry' \in [Task -> Nat \cup {-1}]
         /\ pending' \in [Task -> Nat]
         /\ \A u \in Task : u # t => entry'[u] = entry[u] /\ pending'[u] = pending[u]
         /\ entry'[t] = -1 <=> entry[t] = -1
         /\ entry[t] # -1 => entry'[t] + pending'[t] = entry[t] + pending[t] + n[t]
  <1>1. /\ pending \in [Task -> Nat] /\ n[t] \in Nat /\ pending[t] + n[t] \in Nat
        /\ entry \in [Task -> Nat \cup {-1}]
    BY DEF TypeOK
  <1>2. CASE chunk_count[t] = 0
    <2>1. entry' = Updated(entry, t, pending[t] + n[t]) /\ pending' = [pending EXCEPT ![t] = 0]
      BY <1>2 DEF Sent
    <2>2. /\ entry' \in [Task -> Nat \cup {-1}]
          /\ \A u \in Task : entry'[u] = IF u = t /\ entry[t] # -1
                                           THEN entry[t] + (pending[t] + n[t]) ELSE entry[u]
      BY <1>1, <2>1, UpdatedEntry
    <2>3. QED
      BY <1>1, <2>1, <2>2
  <1>3. CASE chunk_count[t] # 0
    BY <1>1, <1>3 DEF Sent
  <1>4. QED
    BY <1>2, <1>3

\* Type correctness.
LEMMA TypeStep == TypeOK /\ [Next]_vars => TypeOK'
  <1> SUFFICES ASSUME TypeOK, [Next]_vars PROVE TypeOK'
    OBVIOUS
  <1> USE RelayAssumption, TaskFacts DEF TypeOK, Points, taskVars, listVars
  <1>1. CASE Shutdown
    BY <1>1 DEF Shutdown
  <1>2. ASSUME NEW c \in Conn, Register(c) PROVE TypeOK'
    <2>1. place' \in [Conn -> Nat]
      BY <1>2, AcceptedType DEF Register
    <2>2. entry' \in [Task -> Nat \cup {-1}]
      BY <1>2, RegisterEntry
    <2>3. QED
      BY <1>2, <2>1, <2>2 DEF Register
  <1>3. ASSUME NEW c \in Conn, NeverRelays(c) PROVE TypeOK'
    BY <1>3, UnlistedEntry DEF NeverRelays
  <1>4. ASSUME NEW c \in Conn, StartRelay(c) PROVE TypeOK'
    BY <1>4 DEF StartRelay
  <1>5. ASSUME NEW c \in Conn, DownStarts(c) PROVE TypeOK'
    BY <1>5 DEF DownStarts
  <1>6. ASSUME NEW t \in Task, NEW size \in Chunks, Receive(t, size) PROVE TypeOK'
    <2>1. (chunk_count[t] + 1) % FLUSH_CHUNKS \in 0 .. FLUSH_CHUNKS - 1
      OBVIOUS
    <2>2. QED
      BY <1>6, <2>1 DEF Receive
  <1>7. ASSUME NEW t \in Task, Sent(t) PROVE TypeOK'
    <2>1. entry' \in [Task -> Nat \cup {-1}] /\ pending' \in [Task -> Nat]
      BY <1>7, SentEntry
    <2>2. QED
      BY <1>7, <2>1 DEF Sent
  <1>8. ASSUME NEW t \in Task, Leaves(t) PROVE TypeOK'
    <2>1. entry' \in [Task -> Nat \cup {-1}]
      BY <1>8, EndEntry DEF Leaves
    <2>2. result' \in [Conn -> {"none", "ok", "fail"}]
      BY <1>8 DEF Leaves, End, Judge
    <2>3. QED
      BY <1>8, <2>1, <2>2 DEF Leaves, End
  <1>9. CASE UNCHANGED vars
    BY <1>9 DEF vars
  <1>10. QED
    BY <1>1, <1>2, <1>3, <1>4, <1>5, <1>6, <1>7, <1>8, <1>9, LeavesAll DEF Next

-----------------------------------------------------------------------------
LEMMA NotStartedStep == RInv /\ [Next]_vars => NotStarted'
  <1> SUFFICES ASSUME RInv, [Next]_vars PROVE NotStarted'
    OBVIOUS
  <1> USE TaskFacts DEF RInv, TypeOK, NotStarted, InLoop, taskVars, listVars
  <1>1. CASE Shutdown
    BY <1>1 DEF Shutdown
  <1>2. ASSUME NEW c \in Conn, Register(c) PROVE NotStarted'
    BY <1>2 DEF Register
  <1>3. ASSUME NEW c \in Conn, NeverRelays(c) PROVE NotStarted'
    BY <1>3 DEF NeverRelays
  <1>4. ASSUME NEW c \in Conn, StartRelay(c) PROVE NotStarted'
    BY <1>4 DEF StartRelay
  <1>5. ASSUME NEW c \in Conn, DownStarts(c) PROVE NotStarted'
    BY <1>5 DEF DownStarts
  <1>6. ASSUME NEW t \in Task, NEW size \in Chunks, Receive(t, size) PROVE NotStarted'
    BY <1>6 DEF Receive
  <1>7. ASSUME NEW t \in Task, Sent(t) PROVE NotStarted'
    BY <1>7 DEF Sent
  <1>8. ASSUME NEW t \in Task, Leaves(t) PROVE NotStarted'
    BY <1>8 DEF Leaves, End
  <1>9. CASE UNCHANGED vars
    BY <1>9 DEF vars
  <1>10. QED
    BY <1>1, <1>2, <1>3, <1>4, <1>5, <1>6, <1>7, <1>8, <1>9, LeavesAll DEF Next

LEMMA GrownStep == RInv /\ [Next]_vars => Grown'
  <1> SUFFICES ASSUME RInv, [Next]_vars PROVE Grown'
    OBVIOUS
  <1> USE TaskFacts DEF RInv, TypeOK, Grown, InLoop, NotStarted, taskVars, listVars
  <1>1. CASE Shutdown
    BY <1>1 DEF Shutdown
  <1>2. ASSUME NEW c \in Conn, Register(c) PROVE Grown'
    BY <1>2 DEF Register
  <1>3. ASSUME NEW c \in Conn, NeverRelays(c) PROVE Grown'
    BY <1>3 DEF NeverRelays
  <1>4. ASSUME NEW c \in Conn, StartRelay(c) PROVE Grown'
    BY <1>4 DEF StartRelay
  <1>5. ASSUME NEW c \in Conn, DownStarts(c) PROVE Grown'
    BY <1>5 DEF DownStarts
  <1>6. ASSUME NEW t \in Task, NEW size \in Chunks, Receive(t, size) PROVE Grown'
    BY <1>6 DEF Receive
  <1>7. ASSUME NEW t \in Task, Sent(t) PROVE Grown'
    BY <1>7 DEF Sent
  <1>8. ASSUME NEW t \in Task, Leaves(t) PROVE Grown'
    BY <1>8 DEF Leaves, End
  <1>9. CASE UNCHANGED vars
    BY <1>9 DEF vars
  <1>10. QED
    BY <1>1, <1>2, <1>3, <1>4, <1>5, <1>6, <1>7, <1>8, <1>9, LeavesAll DEF Next

LEMMA JudgedIsClosedStep == RInv /\ [Next]_vars => JudgedIsClosed'
  <1> SUFFICES ASSUME RInv, [Next]_vars PROVE JudgedIsClosed'
    OBVIOUS
  <1> USE TaskFacts DEF RInv, TypeOK, JudgedIsClosed, taskVars, listVars
  <1>1. CASE Shutdown
    BY <1>1 DEF Shutdown
  <1>2. ASSUME NEW c \in Conn, Register(c) PROVE JudgedIsClosed'
    BY <1>2 DEF Register
  <1>3. ASSUME NEW c \in Conn, NeverRelays(c) PROVE JudgedIsClosed'
    BY <1>3 DEF NeverRelays
  <1>4. ASSUME NEW c \in Conn, StartRelay(c) PROVE JudgedIsClosed'
    BY <1>4 DEF StartRelay
  <1>5. ASSUME NEW c \in Conn, DownStarts(c) PROVE JudgedIsClosed'
    BY <1>5 DEF DownStarts
  <1>6. ASSUME NEW t \in Task, NEW size \in Chunks, Receive(t, size) PROVE JudgedIsClosed'
    BY <1>6 DEF Receive
  <1>7. ASSUME NEW t \in Task, Sent(t) PROVE JudgedIsClosed'
    BY <1>7 DEF Sent
  <1>8. ASSUME NEW t \in Task, Leaves(t) PROVE JudgedIsClosed'
    BY <1>8 DEF Leaves, End, Judge
  <1>9. CASE UNCHANGED vars
    BY <1>9 DEF vars
  <1>10. QED
    BY <1>1, <1>2, <1>3, <1>4, <1>5, <1>6, <1>7, <1>8, <1>9, LeavesAll DEF Next

LEMMA AccountedStep == RInv /\ [Next]_vars => Accounted'
  <1> SUFFICES ASSUME RInv, [Next]_vars PROVE Accounted'
    OBVIOUS
  <1> USE TaskFacts DEF RInv, TypeOK, Accounted, NotStarted, taskVars, listVars
  <1>1. CASE Shutdown
    BY <1>1 DEF Shutdown
  <1>2. ASSUME NEW c \in Conn, Register(c) PROVE Accounted'
    <2>1. /\ \A t \in Task : t[1] # c => entry'[t] \in {entry[t], -1}
          /\ \A t \in Task : t[1] = c => entry'[t] \in {0, -1}
      BY <1>2, RegisterEntry
    <2>2. \A t \in Task : t[1] = c => pending[t] = 0 /\ moved[t] = 0
      BY <1>2 DEF Register
    <2>3. UNCHANGED <<pending, moved>>
      BY <1>2 DEF Register
    <2>4. QED
      BY <2>1, <2>2, <2>3
  <1>3. ASSUME NEW c \in Conn, NeverRelays(c) PROVE Accounted'
    <2>1. \A t \in Task : entry'[t] \in {entry[t], -1}
      BY <1>3, NeverRelaysEntry
    <2>2. QED
      BY <1>3, <2>1 DEF NeverRelays
  <1>4. ASSUME NEW c \in Conn, StartRelay(c) PROVE Accounted'
    BY <1>4 DEF StartRelay
  <1>5. ASSUME NEW c \in Conn, DownStarts(c) PROVE Accounted'
    BY <1>5 DEF DownStarts
  <1>6. ASSUME NEW t \in Task, NEW size \in Chunks, Receive(t, size) PROVE Accounted'
    BY <1>6 DEF Receive
  <1>7. ASSUME NEW t \in Task, Sent(t) PROVE Accounted'
    <2>1. /\ \A u \in Task : u # t => entry'[u] = entry[u] /\ pending'[u] = pending[u]
          /\ entry'[t] = -1 <=> entry[t] = -1
          /\ entry[t] # -1 => entry'[t] + pending'[t] = entry[t] + pending[t] + n[t]
      BY <1>7, SentEntry
    <2>2. moved' = [moved EXCEPT ![t] = @ + n[t]]
      BY <1>7 DEF Sent
    <2>3. QED
      BY <2>1, <2>2
  <1>8. ASSUME NEW t \in Task, Leaves(t) PROVE Accounted'
    <2>1. \A u \in Task : entry'[u] # -1 =>
            /\ entry[u] # -1
            /\ entry'[u] = entry[u] + (IF u = t THEN pending[t] ELSE 0)
      BY <1>8, EndEntry DEF Leaves
    <2>2. pending' = [pending EXCEPT ![t] = 0] /\ UNCHANGED moved
      BY <1>8 DEF Leaves, End
    <2>3. QED
      BY <2>1, <2>2
  <1>9. CASE UNCHANGED vars
    BY <1>9 DEF vars
  <1>10. QED
    BY <1>1, <1>2, <1>3, <1>4, <1>5, <1>6, <1>7, <1>8, <1>9, LeavesAll DEF Next

LEMMA NoGhostStep == RInv /\ [Next]_vars => NoGhost'
  <1> SUFFICES ASSUME RInv, [Next]_vars PROVE NoGhost'
    OBVIOUS
  <1> USE TaskFacts DEF RInv, TypeOK, NoGhost, Listed, NotStarted, InLoop, taskVars, listVars
  <1>1. CASE Shutdown
    BY <1>1 DEF Shutdown
  <1>2. ASSUME NEW c \in Conn, Register(c) PROVE NoGhost'
    <2>1. /\ \A t \in Task : t[1] # c => entry'[t] \in {entry[t], -1}
          /\ \A t \in Task : t[1] = c => entry'[t] \in {0, -1}
      BY <1>2, RegisterEntry
    <2>2. st' = [st EXCEPT ![Up(c)] = "waiting"]
      BY <1>2 DEF Register
    <2>3. \A d \in Conn : d # c => /\ entry'[Up(d)] \in {entry[Up(d)], -1}
                                   /\ entry'[Down(d)] \in {entry[Down(d)], -1}
      BY <2>1
    <2>4. st'[Up(c)] = "waiting" /\ \A d \in Conn : d # c => st'[Up(d)] = st[Up(d)]
      BY <2>2
    <2>5. QED
      BY <2>3, <2>4
  <1>3. ASSUME NEW c \in Conn, NeverRelays(c) PROVE NoGhost'
    <2>1. /\ entry'[Up(c)] = -1 /\ entry'[Down(c)] = -1
          /\ \A t \in Task : t[1] # c => entry'[t] = entry[t]
      BY <1>3, NeverRelaysEntry
    <2>2. st' = [st EXCEPT ![Up(c)] = "done"]
      BY <1>3 DEF NeverRelays
    <2>3. \A d \in Conn : d # c => st'[Up(d)] = st[Up(d)] /\ entry'[Up(d)] = entry[Up(d)]
                                   /\ entry'[Down(d)] = entry[Down(d)]
      BY <2>1, <2>2
    <2>4. QED
      BY <2>1, <2>3
  <1>4. ASSUME NEW c \in Conn, StartRelay(c) PROVE NoGhost'
    BY <1>4 DEF StartRelay
  <1>5. ASSUME NEW c \in Conn, DownStarts(c) PROVE NoGhost'
    BY <1>5 DEF DownStarts
  <1>6. ASSUME NEW t \in Task, NEW size \in Chunks, Receive(t, size) PROVE NoGhost'
    BY <1>6 DEF Receive
  <1>7. ASSUME NEW t \in Task, Sent(t) PROVE NoGhost'
    <2>1. \A u \in Task : entry'[u] # -1 => entry[u] # -1
      BY <1>7, SentEntry
    <2>2. QED
      BY <1>7, <2>1 DEF Sent
  <1>8. ASSUME NEW t \in Task, Leaves(t) PROVE NoGhost'
    <2>1. \A u \in Task : entry'[u] # -1 => entry[u] # -1
      BY <1>8, EndEntry DEF Leaves
    <2>2. t[2] = "up" => entry'[Up(t[1])] = -1 /\ entry'[Down(t[1])] = -1
      BY <1>8, EndEntry DEF Leaves
    <2>3. st' = [st EXCEPT ![t] = "done"]
      BY <1>8 DEF Leaves, End
    <2>4. QED
      BY <2>1, <2>2, <2>3
  <1>9. CASE UNCHANGED vars
    BY <1>9 DEF vars
  <1>10. QED
    BY <1>1, <1>2, <1>3, <1>4, <1>5, <1>6, <1>7, <1>8, <1>9, LeavesAll DEF Next

LEMMA FailIsEarnedStep == RInv /\ [Next]_vars => FailIsEarned'
  <1> SUFFICES ASSUME RInv, [Next]_vars PROVE FailIsEarned'
    OBVIOUS
  <1> USE TaskFacts DEF RInv, TypeOK, FailIsEarned, JudgedIsClosed, taskVars, listVars
  <1>1. CASE Shutdown
    BY <1>1 DEF Shutdown
  <1>2. ASSUME NEW c \in Conn, Register(c) PROVE FailIsEarned'
    BY <1>2 DEF Register
  <1>3. ASSUME NEW c \in Conn, NeverRelays(c) PROVE FailIsEarned'
    BY <1>3 DEF NeverRelays
  <1>4. ASSUME NEW c \in Conn, StartRelay(c) PROVE FailIsEarned'
    BY <1>4 DEF StartRelay
  <1>5. ASSUME NEW c \in Conn, DownStarts(c) PROVE FailIsEarned'
    BY <1>5 DEF DownStarts
  <1>6. ASSUME NEW t \in Task, NEW size \in Chunks, Receive(t, size) PROVE FailIsEarned'
    BY <1>6 DEF Receive
  <1>7. ASSUME NEW t \in Task, Sent(t) PROVE FailIsEarned'
    BY <1>7 DEF Sent
  <1>8. ASSUME NEW t \in Task, Leaves(t) PROVE FailIsEarned'
    <2>1. UNCHANGED moved /\ \A d \in Conn : d # t[1] => result'[d] = result[d]
      BY <1>8 DEF Leaves, End, Judge
    <2>2. CASE t[2] = "up"
      <3>1. traffic >= bytes_before[t[1]] + moved[Up(t[1])] + moved[Down(t[1])]
        BY <1>8, <2>2 DEF Leaves, Grown
      <3>2. result'[t[1]] = "fail" => traffic - bytes_before[t[1]] < THRESHOLD
        BY <1>8, <2>2, RelayAssumption DEF Leaves, End, Judge
      <3>3. QED
        BY <2>1, <3>1, <3>2, RelayAssumption
    <2>3. CASE t[2] # "up"
      BY <1>8, <2>1, <2>3 DEF Leaves, End
    <2>4. QED
      BY <2>2, <2>3
  <1>9. CASE UNCHANGED vars
    BY <1>9 DEF vars
  <1>10. QED
    BY <1>1, <1>2, <1>3, <1>4, <1>5, <1>6, <1>7, <1>8, <1>9, LeavesAll DEF Next

-----------------------------------------------------------------------------
\* The inductive invariant of the relay's accounts.
THEOREM RelayInvariance == Spec => []RInv
  <1>1. RInv /\ [Next]_vars => RInv'
    <2>1. RInv => TypeOK
      BY DEF RInv
    <2>2. QED
      BY <2>1, TypeStep, NotStartedStep, GrownStep, JudgedIsClosedStep, AccountedStep,
         NoGhostStep, FailIsEarnedStep DEF RInv
  <1>2. QED
    BY RInit, <1>1, PTL DEF Spec

\* Between two flushes no relayed byte is lost from the accounts or counted twice.
THEOREM BytesAccounted == Spec => []Accounted
  <1>1. RInv => Accounted
    BY DEF RInv
  <1>2. QED
    BY RelayInvariance, <1>1, PTL

\* The list never shows a connection whose handle() has ended.
THEOREM NothingLingers == Spec => []NoGhost
  <1>1. RInv => NoGhost
    BY DEF RInv
  <1>2. QED
    BY RelayInvariance, <1>1, PTL

\* A relay that moved enough bytes of its own is never judged a failure.
THEOREM FailureEarned == Spec => []FailIsEarned
  <1>1. RInv => FailIsEarned
    BY DEF RInv
  <1>2. QED
    BY RelayInvariance, <1>1, PTL

\* Type correctness of the relay, every byte count a natural number.
THEOREM RelayTyped == Spec => []TypeOK
  <1>1. RInv => TypeOK
    BY DEF RInv
  <1>2. QED
    BY RelayInvariance, <1>1, PTL

-----------------------------------------------------------------------------
(* The safety half of ClosedEndsBoth: with it, fairness of Cancelled and of *)
(* DownStarts is all that is left to ask for.                              *)

\* Once the sockets of a connection are closed, each direction has ended or has
\* its cancellation on the way, at a point where it takes effect: no chunk that
\* comes at the same moment and no shutdown takes it away (main.py:701-708).
CancelReaches ==
  \A c \in Conn : closed[c] =>
    \A t \in {Up(c), Down(c)} :
      st[t] = "done" \/ (cancelled[t] /\ st[t] \in {"ready", "recv", "send"})

\* While "up" relays, "down" has been created.
Paired == \A c \in Conn : InLoop(Up(c)) => st[Down(c)] \in {"ready", "recv", "send", "done"}

LEMMA PairedStep == TypeOK /\ Paired /\ [Next]_vars => Paired'
  <1> SUFFICES ASSUME TypeOK, Paired, [Next]_vars PROVE Paired'
    OBVIOUS
  <1> USE TaskFacts DEF TypeOK, Paired, InLoop, taskVars, listVars
  <1>1. CASE Shutdown
    BY <1>1 DEF Shutdown
  <1>2. ASSUME NEW c \in Conn, Register(c) \/ NeverRelays(c) \/ StartRelay(c) \/ DownStarts(c)
        PROVE  Paired'
    BY <1>2 DEF Register, NeverRelays, StartRelay, DownStarts
  <1>3. ASSUME NEW t \in Task, NEW size \in Chunks, Receive(t, size) PROVE Paired'
    BY <1>3 DEF Receive
  <1>4. ASSUME NEW t \in Task, Sent(t) PROVE Paired'
    BY <1>4 DEF Sent
  <1>5. ASSUME NEW t \in Task, Leaves(t) PROVE Paired'
    BY <1>5 DEF Leaves, End
  <1>6. CASE UNCHANGED vars
    BY <1>6 DEF vars
  <1>7. QED
    BY <1>1, <1>2, <1>3, <1>4, <1>5, <1>6, LeavesAll DEF Next

LEMMA CancelReachesStep == RInv /\ Paired /\ CancelReaches /\ [Next]_vars => CancelReaches'
  <1> SUFFICES ASSUME RInv, Paired, CancelReaches, [Next]_vars PROVE CancelReaches'
    OBVIOUS
  <1> USE TaskFacts DEF RInv, TypeOK, CancelReaches, taskVars, listVars
  <1>1. CASE Shutdown
    BY <1>1 DEF Shutdown
  <1>2. ASSUME NEW c \in Conn, Register(c) PROVE CancelReaches'
    BY <1>2 DEF Register
  <1>3. ASSUME NEW c \in Conn, NeverRelays(c) PROVE CancelReaches'
    BY <1>3 DEF NeverRelays
  <1>4. ASSUME NEW c \in Conn, StartRelay(c) PROVE CancelReaches'
    BY <1>4 DEF StartRelay
  <1>5. ASSUME NEW c \in Conn, DownStarts(c) PROVE CancelReaches'
    BY <1>5 DEF DownStarts
  <1>6. ASSUME NEW t \in Task, NEW size \in Chunks, Receive(t, size) PROVE CancelReaches'
    BY <1>6 DEF Receive
  <1>7. ASSUME NEW t \in Task, Sent(t) PROVE CancelReaches'
    BY <1>7 DEF Sent
  <1>8. ASSUME NEW t \in Task, Leaves(t) PROVE CancelReaches'
    <2>1. /\ st' = [st EXCEPT ![t] = "done"] /\ closed' = [closed EXCEPT ![t[1]] = TRUE]
          /\ cancelled' = [cancelled EXCEPT ![t] = FALSE, ![Peer(t)] = st[Peer(t)] # "done"]
      BY <1>8 DEF Leaves, End
    <2>2. st[Peer(t)] \in {"ready", "recv", "send", "done"}
      <3>1. CASE t[2] = "up"
        BY <1>8, <3>1 DEF Leaves, Paired
      <3>2. CASE t[2] = "down"
        BY <1>8, <3>2 DEF Leaves, InLoop, NotStarted, Points
      <3>3. QED
        BY <3>1, <3>2
    <2>3. Peer(t) # t /\ {Up(t[1]), Down(t[1])} = {t, Peer(t)}
      OBVIOUS
    <2>4. \A c \in Conn : c # t[1] => Up(c) \notin {t, Peer(t)} /\ Down(c) \notin {t, Peer(t)}
      BY <2>3
    <2>5. \A u \in {t, Peer(t)} : st'[u] = "done" \/ (cancelled'[u] /\ st'[u] \in {"ready", "recv", "send"})
      <3>1. st'[t] = "done"
        BY <2>1
      <3>2. st'[Peer(t)] = st[Peer(t)] /\ cancelled'[Peer(t)] = (st[Peer(t)] # "done")
        BY <2>1, <2>3
      <3>3. QED
        BY <2>2, <3>1, <3>2
    <2>6. ASSUME NEW c \in Conn, c # t[1], closed'[c], NEW u \in {Up(c), Down(c)}
          PROVE  st'[u] = "done" \/ (cancelled'[u] /\ st'[u] \in {"ready", "recv", "send"})
      BY <2>1, <2>4, <2>6
    <2>7. QED
      BY <2>3, <2>5, <2>6
  <1>9. CASE UNCHANGED vars
    BY <1>9 DEF vars
  <1>10. QED
    BY <1>1, <1>2, <1>3, <1>4, <1>5, <1>6, <1>7, <1>8, <1>9, LeavesAll DEF Next

\* A cancellation is never lost.
THEOREM CancellationsReach == Spec => []CancelReaches
  <1>1. Init => Paired /\ CancelReaches
    BY TaskFacts DEF Init, Paired, InLoop, CancelReaches
  <1>2. RInv => TypeOK
    BY DEF RInv
  <1>3. QED
    BY <1>1, <1>2, RelayInvariance, PairedStep, CancelReachesStep, PTL DEF Spec
=============================================================================
