---------------------------- MODULE EngineProofs ----------------------------
(***************************************************************************)
(* Proofs about Engine, for any number of clients, any limit, any set of   *)
(* methods and any thresholds of the rotation.                             *)
(***************************************************************************)
EXTENDS Engine, FiniteSetTheorems, TLAPS

LEMMA HoldingFinite == IsFiniteSet(Holding) /\ Cardinality(Holding) \in Nat
  BY EngineAssumption, FS_Subset, FS_CardinalityType DEF Holding

LEMMA EInit == Init => EInv
  <1> SUFFICES ASSUME Init PROVE EInv
    OBVIOUS
  <1>1. TypeOK
    <2>1. method_board \in [REAL_METHODS -> [Results -> Nat]]
      BY DEF Init
    <2>2. outcome \in [Conn -> Results \cup {"none"}] /\ pc \in [Conn -> Steps]
      BY DEF Init, Steps
    <2>3. conn_sem \in 0 .. MAX_CONNECTIONS /\ attempts \in 0 .. AUTO_MAX_ATTEMPTS
      BY EngineAssumption DEF Init
    <2>4. QED
      BY <2>1, <2>2, <2>3 DEF Init, TypeOK
  <1>2. FlagsInv
    BY DEF Init, FlagsInv
  <1>3. NoSlotLost
    BY EngineAssumption, HoldingFinite DEF Init, NoSlotLost
  <1>4. Exact
    <2> SUFFICES ASSUME NEW m \in REAL_METHODS, NEW r \in Results
                 PROVE  method_board[m][r] = Cardinality(Blamed(m, r))
      BY DEF Exact
    <2>1. Blamed(m, r) = {}
      BY DEF Init, Blamed, Results
    <2>2. QED
      BY <2>1, FS_EmptySet DEF Init
  <1>5. TrialInv /\ NoneLost
    BY DEF Init, TrialInv, NoneLost
  <1>6. QED
    BY <1>1, <1>2, <1>3, <1>4, <1>5 DEF EInv, Credited

-----------------------------------------------------------------------------
(* Outcomes. *)

\* Recording the first outcome of a connection under the method it used keeps
\* the board exact.
LEMMA RecordCredits ==
  ASSUME TypeOK, Exact, NEW c \in Conn, NEW r \in Results, Unrecorded(c),
         Record(c, r), UNCHANGED bypass_method
  PROVE  Exact'
  <1> DEFINE m0 == bypass_method[c]
  <1>1. m0 \in REAL_METHODS /\ outcome[c] = "none" /\ "none" \notin Results
    BY DEF Unrecorded, Results
  <1>2. outcome' = [outcome EXCEPT ![c] = r] /\ outcome \in [Conn -> Results \cup {"none"}]
    BY DEF Record, TypeOK
  <1>3. method_board' = [method_board EXCEPT ![m0][r] = @ + 1]
        /\ method_board \in [REAL_METHODS -> [Results -> Nat]]
    BY DEF Record, TypeOK
  <1> SUFFICES ASSUME NEW m \in REAL_METHODS, NEW q \in Results
               PROVE  method_board'[m][q] = Cardinality(Blamed(m, q)')
    BY DEF Exact
  <1>4. method_board[m][q] = Cardinality(Blamed(m, q)) /\ IsFiniteSet(Blamed(m, q))
    BY EngineAssumption, FS_Subset DEF Exact, Blamed
  <1>5. CASE m = m0 /\ q = r
    <2>1. Blamed(m, q)' = Blamed(m, q) \cup {c} /\ c \notin Blamed(m, q)
      BY <1>1, <1>2, <1>5 DEF Blamed
    <2>2. Cardinality(Blamed(m, q)') = Cardinality(Blamed(m, q)) + 1
      BY <1>4, <2>1, FS_AddElement
    <2>3. method_board'[m][q] = method_board[m][q] + 1
      BY <1>1, <1>3, <1>5
    <2>4. QED
      BY <1>4, <2>2, <2>3
  <1>6. CASE ~(m = m0 /\ q = r)
    <2>1. Blamed(m, q)' = Blamed(m, q)
      BY <1>1, <1>2, <1>6 DEF Blamed
    <2>2. method_board'[m][q] = method_board[m][q]
      BY <1>1, <1>3, <1>6
    <2>3. QED
      BY <1>4, <2>1, <2>2
  <1>7. QED
    BY <1>5, <1>6

\* Recording keeps the types.
LEMMA RecordTypes ==
  ASSUME TypeOK, NEW c \in Conn, NEW r \in Results, Unrecorded(c), Record(c, r)
  PROVE  /\ failures' \in Nat /\ successes' \in Nat
         /\ UNCHANGED <<current, attempts, elapsed>>
         /\ method_board' \in [REAL_METHODS -> [Results -> Nat]]
         /\ outcome' \in [Conn -> Results \cup {"none"}]
         /\ \A d \in Conn : d # c => outcome'[d] = outcome[d]
  BY DEF TypeOK, Record, Note, Unrecorded

\* The rotation keeps its types, and the window its bound.
LEMMA NextMethodTypes ==
  ASSUME TypeOK, NextMethod
  PROVE  /\ current' \in REAL_METHODS /\ attempts' \in 0 .. AUTO_MAX_ATTEMPTS
         /\ failures' \in Nat /\ successes' \in Nat /\ elapsed' \in BOOLEAN
  <1>1. CASE WindowOver
    <2>1. current' \in REAL_METHODS
      BY <1>1 DEF NextMethod, TypeOK
    <2>2. attempts' = 1 /\ failures' = 0 /\ successes' = 0 /\ elapsed' = FALSE
      BY <1>1 DEF NextMethod
    <2>3. attempts' \in 0 .. AUTO_MAX_ATTEMPTS
      BY <2>2, EngineAssumption
    <2>4. elapsed' \in BOOLEAN
      BY <2>2
    <2>5. QED
      BY <2>1, <2>2, <2>3, <2>4
  <1>2. CASE ~WindowOver
    BY <1>2, EngineAssumption DEF NextMethod, TypeOK, WindowOver
  <1>3. QED
    BY <1>1, <1>2

-----------------------------------------------------------------------------
(* Every step keeps each part of the invariant. *)

\* A step that moves no slot.
LEMMA SameHolding ==
  ASSUME NoSlotLost, UNCHANGED conn_sem, Holding' = Holding
  PROVE  NoSlotLost'
  BY DEF NoSlotLost

\* A step that records nothing and resolves no method.
LEMMA SameBoard ==
  ASSUME Exact, UNCHANGED boardVars, UNCHANGED bypass_method
  PROVE  Exact'
  BY DEF Exact, Blamed, boardVars

LEMMA TypeStep == EInv /\ [Next]_vars => TypeOK'
  <1> SUFFICES ASSUME EInv, [Next]_vars PROVE TypeOK'
    OBVIOUS
  <1> USE DEF EInv
  <1>1. CASE Signal
    BY <1>1, EngineAssumption DEF Signal, TypeOK, Goto, Steps, loopVars, connVars, autoVars, boardVars
  <1>2. CASE WindowElapses
    BY <1>2, EngineAssumption DEF WindowElapses, TypeOK, Goto, Steps, loopVars, connVars, autoVars, boardVars
  <1>3. ASSUME NEW c \in Conn, Accept(c) PROVE TypeOK'
    BY <1>3, EngineAssumption DEF Accept, TypeOK, Goto, Steps, loopVars, connVars, autoVars, boardVars
  <1>4. ASSUME NEW c \in Conn, Admit(c) PROVE TypeOK'
    BY <1>4, EngineAssumption DEF Admit, TypeOK, Goto, Steps, loopVars, connVars, autoVars, boardVars
  <1>5. ASSUME NEW c \in Conn, TurnAway(c) PROVE TypeOK'
    BY <1>5, EngineAssumption DEF TurnAway, TypeOK, Goto, Steps, loopVars, connVars, autoVars, boardVars
  <1>6. ASSUME NEW c \in Conn, SetupFails(c) PROVE TypeOK'
    BY <1>6, EngineAssumption DEF SetupFails, TypeOK, Goto, Steps, loopVars, connVars, autoVars, boardVars
  <1>7. ASSUME NEW c \in Conn, Register(c) PROVE TypeOK'
    <2>1. /\ current' \in REAL_METHODS /\ attempts' \in 0 .. AUTO_MAX_ATTEMPTS
          /\ failures' \in Nat /\ successes' \in Nat /\ elapsed' \in BOOLEAN
      BY <1>7, NextMethodTypes DEF Register
    <2>2. QED
      BY <1>7, <2>1 DEF Register, TypeOK, Goto, Steps, loopVars, boardVars
  <1>8. ASSUME NEW c \in Conn, Connected(c) PROVE TypeOK'
    BY <1>8, EngineAssumption DEF Connected, TypeOK, Goto, Steps, loopVars, connVars, autoVars, boardVars
  <1>9. ASSUME NEW c \in Conn, ConnectFails(c) PROVE TypeOK'
    BY <1>9 DEF ConnectFails, TypeOK, Note, Goto, Steps, loopVars, boardVars
  <1>10. ASSUME NEW c \in Conn, HandshakeFails(c) PROVE TypeOK'
    <2>1. /\ failures' \in Nat /\ successes' \in Nat /\ UNCHANGED <<current, attempts, elapsed>>
          /\ method_board' \in [REAL_METHODS -> [Results -> Nat]]
          /\ outcome' \in [Conn -> Results \cup {"none"}]
      BY <1>10, RecordTypes DEF HandshakeFails, FlagsInv, Results
    <2>2. QED
      BY <1>10, <2>1 DEF HandshakeFails, TypeOK, Goto, Steps, loopVars
  <1>11. ASSUME NEW c \in Conn, HandshakeOk(c) PROVE TypeOK'
    BY <1>11, EngineAssumption DEF HandshakeOk, TypeOK, Goto, Steps, loopVars, connVars, autoVars, boardVars
  <1>12. ASSUME NEW c \in Conn, StartRelay(c) PROVE TypeOK'
    BY <1>12, EngineAssumption DEF StartRelay, TypeOK, Goto, Steps, loopVars, connVars, autoVars, boardVars
  <1>13. ASSUME NEW c \in Conn, RelayEnds(c) PROVE TypeOK'
    BY <1>13, EngineAssumption DEF RelayEnds, TypeOK, Goto, Steps, loopVars, connVars, autoVars, boardVars
  <1>14. ASSUME NEW c \in Conn, Raises(c) PROVE TypeOK'
    <2>1. /\ failures' \in Nat /\ successes' \in Nat /\ UNCHANGED <<current, attempts, elapsed>>
          /\ method_board' \in [REAL_METHODS -> [Results -> Nat]]
          /\ outcome' \in [Conn -> Results \cup {"none"}]
      <3>1. monitor[c] => Unrecorded(c)
        BY <1>14 DEF Raises, FlagsInv
      <3>2. QED
        BY <1>14, <3>1, RecordTypes DEF Raises, TypeOK, Results, autoVars, boardVars
    <2>2. QED
      BY <1>14, <2>1 DEF Raises, TypeOK, Goto, Steps, loopVars
  <1>15. ASSUME NEW c \in Conn, Cancel(c) PROVE TypeOK'
    BY <1>15, EngineAssumption DEF Cancel, TypeOK, Goto, Steps, loopVars, connVars, autoVars, boardVars
  <1>16. ASSUME NEW c \in Conn, Finally(c) PROVE TypeOK'
    <2>1. /\ failures' \in Nat /\ successes' \in Nat /\ UNCHANGED <<current, attempts, elapsed>>
          /\ method_board' \in [REAL_METHODS -> [Results -> Nat]]
          /\ outcome' \in [Conn -> Results \cup {"none"}]
          /\ monitor' \in [Conn -> BOOLEAN]
      <3>1. monitor[c] \/ handshake_ok[c] \/ relay_started[c] => Unrecorded(c)
        BY <1>16 DEF Finally, FlagsInv
      <3>2. monitor' \in [Conn -> BOOLEAN]
        BY <1>16 DEF Finally, Decide, TypeOK
      <3>3. QED
        BY <1>16, <3>1, <3>2, RecordTypes DEF Finally, Decide, TypeOK, Results, autoVars, boardVars
    <2>2. conn_sem' \in 0 .. MAX_CONNECTIONS
      BY <1>16, EngineAssumption DEF Finally, Release, Smaller, TypeOK
    <2>3. QED
      BY <1>16, <2>1, <2>2 DEF Finally, TypeOK, Goto, Steps, loopVars
  <1>17. ASSUME NEW c \in Conn, NEW msg \in {"good", "bad"}, Verdict(c, msg) PROVE TypeOK'
    BY <1>17, EngineAssumption DEF Verdict, TypeOK, Goto, Steps, loopVars, connVars, autoVars, boardVars
  <1>18. CASE UNCHANGED vars
    BY <1>18, EngineAssumption DEF vars, TypeOK, Goto, Steps, loopVars, connVars, autoVars, boardVars
  <1>20. CASE AcceptFails
    BY <1>20 DEF AcceptFails, TypeOK, connVars, autoVars, boardVars
  <1>21. ASSUME NEW c \in Conn, AcceptRaises(c) PROVE TypeOK'
    BY <1>21, EngineAssumption DEF AcceptRaises, TypeOK, Goto, Steps, connVars, autoVars, boardVars
  <1>22. QED
    BY <1>1, <1>2, <1>3, <1>4, <1>5, <1>6, <1>7, <1>8, <1>9, <1>10, <1>11, <1>12, <1>13, <1>14, <1>15, <1>16, <1>17, <1>18, <1>20, <1>21 DEF Next, Handle

LEMMA FlagsStep == EInv /\ [Next]_vars => FlagsInv'
  <1> SUFFICES ASSUME EInv, [Next]_vars PROVE FlagsInv'
    OBVIOUS
  <1> USE DEF EInv, TypeOK, FlagsInv
  <1>1. CASE Signal
    BY <1>1 DEF Signal, Goto, Unrecorded, connVars, boardVars
  <1>2. CASE WindowElapses
    BY <1>2 DEF WindowElapses, Goto, Unrecorded, connVars, boardVars
  <1>3. ASSUME NEW c \in Conn, Accept(c) PROVE FlagsInv'
    BY <1>3 DEF Accept, Goto, Unrecorded, connVars, boardVars
  <1>4. ASSUME NEW c \in Conn, Admit(c) PROVE FlagsInv'
    BY <1>4 DEF Admit, Goto, Unrecorded, connVars, boardVars
  <1>5. ASSUME NEW c \in Conn, TurnAway(c) PROVE FlagsInv'
    BY <1>5 DEF TurnAway, Goto, Unrecorded, connVars, boardVars
  <1>6. ASSUME NEW c \in Conn, SetupFails(c) PROVE FlagsInv'
    BY <1>6 DEF SetupFails, Goto, Unrecorded, connVars, boardVars
  <1>7. ASSUME NEW c \in Conn, Register(c) PROVE FlagsInv'
    <2>1. current' \in REAL_METHODS
      BY <1>7, NextMethodTypes DEF Register
    <2>2. QED
      BY <1>7, <2>1 DEF Register, Goto, Unrecorded, boardVars
  <1>8. ASSUME NEW c \in Conn, Connected(c) PROVE FlagsInv'
    BY <1>8 DEF Connected, Goto, Unrecorded, connVars, boardVars
  <1>9. ASSUME NEW c \in Conn, ConnectFails(c) PROVE FlagsInv'
    BY <1>9 DEF ConnectFails, Goto, Unrecorded, connVars, boardVars
  <1>10. ASSUME NEW c \in Conn, HandshakeFails(c) PROVE FlagsInv'
    <2>1. outcome' \in [Conn -> Results \cup {"none"}] /\ \A d \in Conn : d # c => outcome'[d] = outcome[d]
      BY <1>10, RecordTypes DEF HandshakeFails, Results
    <2>2. QED
      BY <1>10, <2>1 DEF HandshakeFails, Goto, Unrecorded
  <1>11. ASSUME NEW c \in Conn, HandshakeOk(c) PROVE FlagsInv'
    BY <1>11 DEF HandshakeOk, Goto, Unrecorded, connVars, boardVars
  <1>12. ASSUME NEW c \in Conn, StartRelay(c) PROVE FlagsInv'
    BY <1>12 DEF StartRelay, Goto, Unrecorded, connVars, boardVars
  <1>13. ASSUME NEW c \in Conn, RelayEnds(c) PROVE FlagsInv'
    BY <1>13 DEF RelayEnds, Goto, Unrecorded, connVars, boardVars
  <1>14. ASSUME NEW c \in Conn, Raises(c) PROVE FlagsInv'
    <2>1. \A d \in Conn : d # c => outcome'[d] = outcome[d]
      BY <1>14, RecordTypes DEF Raises, Results, boardVars
    <2>2. outcome'[c] = outcome[c] \/ (~handshake_ok[c] /\ ~relay_started[c])
      BY <1>14 DEF Raises, boardVars
    <2>3. QED
      BY <1>14, <2>1, <2>2 DEF Raises, Goto, Unrecorded
  <1>15. ASSUME NEW c \in Conn, Cancel(c) PROVE FlagsInv'
    BY <1>15 DEF Cancel, Goto, Unrecorded, connVars, boardVars
  <1>16. ASSUME NEW c \in Conn, Finally(c) PROVE FlagsInv'
    <2>1. monitor[c] \/ handshake_ok[c] \/ relay_started[c] => Unrecorded(c)
      BY <1>16 DEF Finally
    <2>2. \A d \in Conn : d # c => outcome'[d] = outcome[d] /\ monitor'[d] = monitor[d]
      BY <1>16, <2>1, RecordTypes DEF Finally, Decide, Results, boardVars
    <2>3. QED
      BY <1>16, <2>2 DEF Finally, Goto, Unrecorded
  <1>17. ASSUME NEW c \in Conn, NEW msg \in {"good", "bad"}, Verdict(c, msg) PROVE FlagsInv'
    BY <1>17 DEF Verdict, Goto, Unrecorded, connVars, boardVars
  <1>18. CASE UNCHANGED vars
    BY <1>18 DEF vars, Goto, Unrecorded, connVars, boardVars
  <1>20. CASE AcceptFails
    BY <1>20 DEF AcceptFails, Unrecorded, connVars, boardVars
  <1>21. ASSUME NEW c \in Conn, AcceptRaises(c) PROVE FlagsInv'
    BY <1>21 DEF AcceptRaises, Goto, Unrecorded, connVars, boardVars
  <1>22. QED
    BY <1>1, <1>2, <1>3, <1>4, <1>5, <1>6, <1>7, <1>8, <1>9, <1>10, <1>11, <1>12, <1>13, <1>14, <1>15, <1>16, <1>17, <1>18, <1>20, <1>21 DEF Next, Handle

LEMMA SlotsStep == EInv /\ [Next]_vars => NoSlotLost'
  <1> SUFFICES ASSUME EInv, [Next]_vars PROVE NoSlotLost'
    OBVIOUS
  <1> USE DEF EInv
  <1>1. CASE Signal
    <2>1. UNCHANGED <<conn_sem, pc>>
      BY <1>1 DEF Signal
    <2>2. QED
      BY <2>1, SameHolding DEF Holding
  <1>2. CASE WindowElapses
    <2>1. UNCHANGED <<conn_sem, pc>>
      BY <1>2 DEF WindowElapses
    <2>2. QED
      BY <2>1, SameHolding DEF Holding
  <1>3. ASSUME NEW c \in Conn, Accept(c) PROVE NoSlotLost'
    <2>1. UNCHANGED conn_sem /\ Holding' = Holding
      BY <1>3 DEF Accept, TypeOK, Goto, Holding
    <2>2. QED
      BY <2>1, SameHolding
  <1>4. ASSUME NEW c \in Conn, Admit(c) PROVE NoSlotLost'
    <2>1. Holding' = Holding \cup {c} /\ c \notin Holding /\ conn_sem' = conn_sem - 1
      BY <1>4 DEF Admit, TypeOK, Goto, Holding
    <2>2. Cardinality(Holding') = Cardinality(Holding) + 1
      BY <2>1, HoldingFinite, FS_AddElement
    <2>3. QED
      BY <2>1, <2>2, HoldingFinite, EngineAssumption DEF NoSlotLost, TypeOK
  <1>5. ASSUME NEW c \in Conn, TurnAway(c) PROVE NoSlotLost'
    <2>1. UNCHANGED conn_sem /\ Holding' = Holding
      BY <1>5 DEF TurnAway, TypeOK, Goto, Holding
    <2>2. QED
      BY <2>1, SameHolding
  <1>6. ASSUME NEW c \in Conn, SetupFails(c) PROVE NoSlotLost'
    <2>1. UNCHANGED conn_sem /\ Holding' = Holding
      BY <1>6 DEF SetupFails, TypeOK, Goto, Holding
    <2>2. QED
      BY <2>1, SameHolding
  <1>7. ASSUME NEW c \in Conn, Register(c) PROVE NoSlotLost'
    <2>1. UNCHANGED conn_sem /\ Holding' = Holding
      BY <1>7 DEF Register, TypeOK, Goto, Holding
    <2>2. QED
      BY <2>1, SameHolding
  <1>8. ASSUME NEW c \in Conn, Connected(c) PROVE NoSlotLost'
    <2>1. UNCHANGED conn_sem /\ Holding' = Holding
      BY <1>8 DEF Connected, TypeOK, Goto, Holding
    <2>2. QED
      BY <2>1, SameHolding
  <1>9. ASSUME NEW c \in Conn, ConnectFails(c) PROVE NoSlotLost'
    <2>1. UNCHANGED conn_sem /\ Holding' = Holding
      BY <1>9 DEF ConnectFails, TypeOK, Goto, Holding
    <2>2. QED
      BY <2>1, SameHolding
  <1>10. ASSUME NEW c \in Conn, HandshakeFails(c) PROVE NoSlotLost'
    <2>1. UNCHANGED conn_sem /\ Holding' = Holding
      BY <1>10 DEF HandshakeFails, TypeOK, Goto, Holding
    <2>2. QED
      BY <2>1, SameHolding
  <1>11. ASSUME NEW c \in Conn, HandshakeOk(c) PROVE NoSlotLost'
    <2>1. UNCHANGED conn_sem /\ Holding' = Holding
      BY <1>11 DEF HandshakeOk, TypeOK, Goto, Holding
    <2>2. QED
      BY <2>1, SameHolding
  <1>12. ASSUME NEW c \in Conn, StartRelay(c) PROVE NoSlotLost'
    <2>1. UNCHANGED conn_sem /\ Holding' = Holding
      BY <1>12 DEF StartRelay, TypeOK, Goto, Holding
    <2>2. QED
      BY <2>1, SameHolding
  <1>13. ASSUME NEW c \in Conn, RelayEnds(c) PROVE NoSlotLost'
    <2>1. UNCHANGED conn_sem /\ Holding' = Holding
      BY <1>13 DEF RelayEnds, TypeOK, Goto, Holding
    <2>2. QED
      BY <2>1, SameHolding
  <1>14. ASSUME NEW c \in Conn, Raises(c) PROVE NoSlotLost'
    <2>1. UNCHANGED conn_sem /\ Holding' = Holding
      BY <1>14 DEF Raises, TypeOK, Goto, Holding
    <2>2. QED
      BY <2>1, SameHolding
  <1>15. ASSUME NEW c \in Conn, Cancel(c) PROVE NoSlotLost'
    <2>1. UNCHANGED conn_sem /\ Holding' = Holding
      BY <1>15 DEF Cancel, TypeOK, Goto, Holding
    <2>2. QED
      BY <2>1, SameHolding
  <1>16. ASSUME NEW c \in Conn, Finally(c) PROVE NoSlotLost'
    <2>1. Holding' = Holding \ {c} /\ c \in Holding
      BY <1>16 DEF Finally, TypeOK, Goto, Holding
    <2>2. Cardinality(Holding') = Cardinality(Holding) - 1 /\ Cardinality(Holding') \in Nat
      BY <2>1, HoldingFinite, FS_RemoveElement, FS_CardinalityType
    <2>3. conn_sem' = MAX_CONNECTIONS \/ conn_sem' = conn_sem + 2
      BY <1>16 DEF Finally, Release, Smaller
    <2>4. QED
      BY <2>2, <2>3, HoldingFinite, EngineAssumption DEF NoSlotLost, TypeOK
  <1>17. ASSUME NEW c \in Conn, NEW msg \in {"good", "bad"}, Verdict(c, msg) PROVE NoSlotLost'
    <2>1. UNCHANGED conn_sem /\ Holding' = Holding
      BY <1>17 DEF Verdict, TypeOK, Goto, Holding
    <2>2. QED
      BY <2>1, SameHolding
  <1>18. CASE UNCHANGED vars
    <2>1. UNCHANGED conn_sem /\ Holding' = Holding
      BY <1>18 DEF vars, Holding
    <2>2. QED
      BY <2>1, SameHolding
  <1>20. CASE AcceptFails
    <2>1. UNCHANGED <<conn_sem, pc>>
      BY <1>20 DEF AcceptFails
    <2>2. QED
      BY <2>1, SameHolding DEF Holding
  <1>21. ASSUME NEW c \in Conn, AcceptRaises(c) PROVE NoSlotLost'
    <2>1. UNCHANGED conn_sem /\ Holding' = Holding
      BY <1>21 DEF AcceptRaises, TypeOK, Goto, Holding
    <2>2. QED
      BY <2>1, SameHolding
  <1>22. QED
    BY <1>1, <1>2, <1>3, <1>4, <1>5, <1>6, <1>7, <1>8, <1>9, <1>10, <1>11, <1>12, <1>13, <1>14, <1>15, <1>16, <1>17, <1>18, <1>20, <1>21 DEF Next, Handle

LEMMA CreditStep == EInv /\ [Next]_vars => Exact'
  <1> SUFFICES ASSUME EInv, [Next]_vars PROVE Exact'
    OBVIOUS
  <1> USE DEF EInv, Credited
  <1>1. CASE Signal
    BY <1>1, SameBoard DEF Signal, connVars
  <1>2. CASE WindowElapses
    BY <1>2, SameBoard DEF WindowElapses, connVars
  <1>3. ASSUME NEW c \in Conn, Accept(c) PROVE Exact'
    BY <1>3, SameBoard DEF Accept, connVars
  <1>4. ASSUME NEW c \in Conn, Admit(c) PROVE Exact'
    BY <1>4, SameBoard DEF Admit, connVars
  <1>5. ASSUME NEW c \in Conn, TurnAway(c) PROVE Exact'
    BY <1>5, SameBoard DEF TurnAway, connVars
  <1>6. ASSUME NEW c \in Conn, SetupFails(c) PROVE Exact'
    BY <1>6, SameBoard DEF SetupFails, connVars
  <1>7. ASSUME NEW c \in Conn, Register(c) PROVE Exact'
    <2>1. outcome[c] = "none" /\ "none" \notin Results
      BY <1>7 DEF Register, FlagsInv, Results
    <2>2. \A m \in REAL_METHODS, r \in Results : Blamed(m, r)' = Blamed(m, r)
      BY <1>7, <2>1 DEF Register, Blamed, TypeOK, boardVars
    <2>3. QED
      BY <1>7, <2>2 DEF Register, Exact, boardVars
  <1>8. ASSUME NEW c \in Conn, Connected(c) PROVE Exact'
    BY <1>8, SameBoard DEF Connected, connVars
  <1>9. ASSUME NEW c \in Conn, ConnectFails(c) PROVE Exact'
    BY <1>9, SameBoard DEF ConnectFails, connVars
  <1>10. ASSUME NEW c \in Conn, HandshakeFails(c) PROVE Exact'
    BY <1>10, RecordCredits DEF HandshakeFails, FlagsInv, Results
  <1>11. ASSUME NEW c \in Conn, HandshakeOk(c) PROVE Exact'
    BY <1>11, SameBoard DEF HandshakeOk, connVars
  <1>12. ASSUME NEW c \in Conn, StartRelay(c) PROVE Exact'
    BY <1>12, SameBoard DEF StartRelay, connVars
  <1>13. ASSUME NEW c \in Conn, RelayEnds(c) PROVE Exact'
    BY <1>13, SameBoard DEF RelayEnds, connVars
  <1>14. ASSUME NEW c \in Conn, Raises(c) PROVE Exact'
    <2>1. monitor[c] => Unrecorded(c)
      BY <1>14 DEF Raises, FlagsInv
    <2>2. QED
      BY <1>14, <2>1, RecordCredits, SameBoard DEF Raises, Results
  <1>15. ASSUME NEW c \in Conn, Cancel(c) PROVE Exact'
    BY <1>15, SameBoard DEF Cancel, connVars
  <1>16. ASSUME NEW c \in Conn, Finally(c) PROVE Exact'
    <2>1. monitor[c] \/ handshake_ok[c] \/ relay_started[c] => Unrecorded(c)
      BY <1>16 DEF Finally, FlagsInv
    <2>2. QED
      BY <1>16, <2>1, RecordCredits, SameBoard DEF Finally, Decide, Results
  <1>17. ASSUME NEW c \in Conn, NEW msg \in {"good", "bad"}, Verdict(c, msg) PROVE Exact'
    BY <1>17, SameBoard DEF Verdict, connVars
  <1>18. CASE UNCHANGED vars
    BY <1>18, SameBoard DEF vars, connVars
  <1>20. CASE AcceptFails
    BY <1>20, SameBoard DEF AcceptFails, connVars
  <1>21. ASSUME NEW c \in Conn, AcceptRaises(c) PROVE Exact'
    BY <1>21, SameBoard DEF AcceptRaises, connVars
  <1>22. QED
    BY <1>1, <1>2, <1>3, <1>4, <1>5, <1>6, <1>7, <1>8, <1>9, <1>10, <1>11, <1>12, <1>13, <1>14, <1>15, <1>16, <1>17, <1>18, <1>20, <1>21 DEF Next, Handle

------------------------------------------------------------------\* What ends a trial leaves a trace of it: a flag the finally block decides by, an
\* outcome, or a verdict that shutdown has left unread.
LEMMA TrialStep == EInv /\ [Next]_vars => TrialInv' /\ NoneLost'
  <1> SUFFICES ASSUME EInv, [Next]_vars PROVE TrialInv' /\ NoneLost'
    OBVIOUS
  <1> USE DEF EInv, Credited, TypeOK, TrialInv, NoneLost, Unread
  <1>1. CASE Signal
    BY <1>1 DEF Signal, connVars, boardVars, loopVars
  <1>2. CASE WindowElapses
    BY <1>2 DEF WindowElapses, connVars, boardVars, loopVars
  <1>3. ASSUME NEW c \in Conn, Accept(c) PROVE TrialInv' /\ NoneLost'
    BY <1>3 DEF Accept, Goto, connVars, boardVars, loopVars, FlagsInv
  <1>4. ASSUME NEW c \in Conn, Admit(c) PROVE TrialInv' /\ NoneLost'
    BY <1>4 DEF Admit, Goto, connVars, boardVars, loopVars, FlagsInv
  <1>5. ASSUME NEW c \in Conn, TurnAway(c) PROVE TrialInv' /\ NoneLost'
    BY <1>5 DEF TurnAway, Goto, connVars, boardVars, loopVars, FlagsInv
  <1>6. ASSUME NEW c \in Conn, SetupFails(c) PROVE TrialInv' /\ NoneLost'
    BY <1>6 DEF SetupFails, Goto, connVars, boardVars, loopVars, FlagsInv
  <1>7. ASSUME NEW c \in Conn, Register(c) PROVE TrialInv' /\ NoneLost'
    BY <1>7 DEF Register, Goto, connVars, boardVars, loopVars, FlagsInv
  <1>8. ASSUME NEW c \in Conn, Connected(c) PROVE TrialInv' /\ NoneLost'
    BY <1>8 DEF Connected, Goto, connVars, boardVars, loopVars, FlagsInv
  <1>9. ASSUME NEW c \in Conn, ConnectFails(c) PROVE TrialInv' /\ NoneLost'
    BY <1>9 DEF ConnectFails, Goto, connVars, boardVars, loopVars, FlagsInv
  <1>10. ASSUME NEW c \in Conn, HandshakeFails(c) PROVE TrialInv' /\ NoneLost'
    <2>1. outcome' = [outcome EXCEPT ![c] = "fail"]
      BY <1>10 DEF HandshakeFails, Record
    <2>2. QED
      BY <1>10, <2>1 DEF HandshakeFails, Goto, loopVars
  <1>11. ASSUME NEW c \in Conn, HandshakeOk(c) PROVE TrialInv' /\ NoneLost'
    BY <1>11 DEF HandshakeOk, Goto, connVars, boardVars, loopVars, FlagsInv
  <1>12. ASSUME NEW c \in Conn, StartRelay(c) PROVE TrialInv' /\ NoneLost'
    BY <1>12 DEF StartRelay, Goto, connVars, boardVars, loopVars, FlagsInv
  <1>13. ASSUME NEW c \in Conn, RelayEnds(c) PROVE TrialInv' /\ NoneLost'
    BY <1>13 DEF RelayEnds, Goto, connVars, boardVars, loopVars, FlagsInv
  <1>14. ASSUME NEW c \in Conn, Raises(c) PROVE TrialInv' /\ NoneLost'
    <2>1. outcome' = [outcome EXCEPT ![c] = "fail"] \/ outcome' = outcome
      BY <1>14 DEF Raises, Record, boardVars
    <2>2. pc[c] \in {"connecting", "ok"} /\ (pc[c] = "ok" => handshake_ok[c])
      BY <1>14 DEF Raises, FlagsInv
    <2>3. QED
      BY <1>14, <2>1, <2>2 DEF Raises, Goto, loopVars
  <1>15. ASSUME NEW c \in Conn, Cancel(c) PROVE TrialInv' /\ NoneLost'
    BY <1>15 DEF Cancel, Goto, connVars, boardVars, loopVars, FlagsInv
  <1>16. ASSUME NEW c \in Conn, Finally(c) PROVE TrialInv' /\ NoneLost'
    <2>1. PICK r \in Results \cup {"none"} :
            IF r = "none" THEN outcome' = outcome ELSE outcome' = [outcome EXCEPT ![c] = r]
      BY <1>16 DEF Finally, Decide, Record, boardVars, Results
    <2>2. relay_started[c] \/ handshake_ok[c] \/ monitor[c] => outcome'[c] # "none"
      BY <1>16 DEF Finally, Decide, Record, Results
    <2>3. \A d \in Conn : d # c => monitor'[d] = monitor[d] /\ outcome'[d] = outcome[d]
      BY <1>16, <2>1 DEF Finally, Decide
    <2>4. QED
      BY <1>16, <2>1, <2>2, <2>3 DEF Finally, Goto, loopVars, Results
  <1>17. ASSUME NEW c \in Conn, NEW msg \in {"good", "bad"}, Verdict(c, msg)
         PROVE  TrialInv' /\ NoneLost'
    <2>1. t2a_msg'[c] # "none" /\ \A d \in Conn : d # c => monitor'[d] = monitor[d] /\ t2a_msg'[d] = t2a_msg[d]
      BY <1>17 DEF Verdict
    <2>2. QED
      BY <1>17, <2>1 DEF Verdict, boardVars, loopVars
  <1>18. CASE UNCHANGED vars
    BY <1>18 DEF vars, connVars, boardVars, loopVars
  <1>20. CASE AcceptFails
    BY <1>20 DEF AcceptFails, connVars, boardVars
  <1>21. ASSUME NEW c \in Conn, AcceptRaises(c) PROVE TrialInv' /\ NoneLost'
    BY <1>21 DEF AcceptRaises, Goto, connVars, boardVars
  <1>22. QED
    BY <1>1, <1>2, <1>3, <1>4, <1>5, <1>6, <1>7, <1>8, <1>9, <1>10, <1>11, <1>12, <1>13,
       <1>14, <1>15, <1>16, <1>17, <1>18, <1>20, <1>21 DEF Next, Handle

-----------
\* The inductive invariant of the engine.
THEOREM EngineInvariance == Spec => []EInv
  <1>1. EInv /\ [Next]_vars => EInv'
    BY TypeStep, FlagsStep, TrialStep, SlotsStep, CreditStep DEF EInv, Credited
  <1>2. QED
    BY EInit, <1>1, PTL DEF Spec

\* No path out of handle() loses a slot of the semaphore: a client is turned
\* away only when MAX_CONNECTIONS handle()s are running.
THEOREM SlotsKept == Spec => []NoSlotLost
  <1>1. EInv => NoSlotLost
    BY DEF EInv
  <1>2. QED
    BY EngineInvariance, <1>1, PTL

\* A connection that has put its method to the test is on the method board once when
\* it is over, under the method it used; only a verdict left unread at shutdown is not.
THEOREM OutcomesCredited == Spec => []Credited
  <1>1. EInv => Credited
    BY DEF EInv
  <1>2. QED
    BY EngineInvariance, <1>1, PTL

\* Type correctness of admission, rotation and the method board.
THEOREM EngineTyped == Spec => []TypeOK
  <1>1. EInv => TypeOK
    BY DEF EInv
  <1>2. QED
    BY EngineInvariance, <1>1, PTL
=============================================================================
