------------------------------- MODULE Engine -------------------------------
(***************************************************************************)
(* What main.py does around the connections: the accept loop, the          *)
(* semaphore that limits them, the rotation of the bypass method in "auto" *)
(* mode and the recording of outcomes.  A handle() keeps the flags its     *)
(* finally block decides by; the packets and the relay it stands for are   *)
(* in Injector and Relay.                                                  *)
(***************************************************************************)
EXTENDS Integers, FiniteSets

CONSTANTS
  Conn,             \* clients
  REAL_METHODS,     \* wire methods "auto" rotates through
  MAX_CONNECTIONS,
  AUTO_MAX_FAILURES,
  AUTO_MAX_ATTEMPTS,
  None

ASSUME EngineAssumption ==
  /\ IsFiniteSet(Conn) /\ IsFiniteSet(REAL_METHODS) /\ REAL_METHODS # {}
  /\ MAX_CONNECTIONS \in Nat \ {0}
  /\ AUTO_MAX_FAILURES \in Nat \ {0} /\ AUTO_MAX_ATTEMPTS \in Nat \ {0}
  /\ None \notin REAL_METHODS

VARIABLES
  accepting,      \* the accept loop runs
  shutdown_event,
  conn_sem,       \* value of the bounded semaphore
  pc,             \* where each handle() is
  monitor,        \* conn.monitor, also cleared by the injector
  t2a_msg,        \* the verdict: "none", "good" or "bad"
  handshake_ok, relay_started,
  bypass_method,  \* what "auto" was resolved to for the connection
  tried,          \* history: it connected, and its method was put to the test
  current, attempts, failures, successes, \* AutoState
  elapsed,        \* the window has lasted AUTO_WINDOW_S
  method_board,   \* outcomes per method
  outcome         \* history: what became of the connection

loopVars == <<accepting, shutdown_event>>
connVars == <<monitor, t2a_msg, handshake_ok, relay_started, bypass_method, tried>>
autoVars == <<current, attempts, failures, successes, elapsed>>
boardVars == <<method_board, outcome>>
vars == <<loopVars, conn_sem, pc, connVars, autoVars, boardVars>>

Steps == {"new", "accepted", "setup", "connecting", "waiting", "ok", "relay", "finally", "done"}
Results == {"ok", "fail"}

Init ==
  /\ accepting = TRUE /\ shutdown_event = FALSE
  /\ conn_sem = MAX_CONNECTIONS
  /\ pc = [c \in Conn |-> "new"]
  /\ monitor = [c \in Conn |-> FALSE]
  /\ t2a_msg = [c \in Conn |-> "none"]
  /\ handshake_ok = [c \in Conn |-> FALSE] /\ relay_started = [c \in Conn |-> FALSE]
  /\ bypass_method = [c \in Conn |-> None]
  /\ tried = [c \in Conn |-> FALSE]
  /\ current \in REAL_METHODS \* the first of them
  /\ attempts = 0 /\ failures = 0 /\ successes = 0 /\ elapsed = FALSE
  /\ method_board = [m \in REAL_METHODS |-> [r \in Results |-> 0]]
  /\ outcome = [c \in Conn |-> "none"]

\* Between two awaits a handle() runs alone on the loop.
NoAwait == {"setup", "ok", "finally"}
LoopFree(c) == \A d \in Conn \ {c} : pc[d] \notin NoAwait

Goto(c, step) == pc' = [pc EXCEPT ![c] = step]

-----------------------------------------------------------------------------
(* AutoState *)

WindowOver ==
  failures >= AUTO_MAX_FAILURES \/ attempts >= AUTO_MAX_ATTEMPTS \/ elapsed

\* next_method(): the window in which the connection is counted.
NextMethod ==
  IF WindowOver
    THEN /\ current' \in IF REAL_METHODS = {current} THEN {current} ELSE REAL_METHODS \ {current}
         /\ attempts' = 1 /\ failures' = 0 /\ successes' = 0 /\ elapsed' = FALSE
    ELSE attempts' = attempts + 1 /\ UNCHANGED <<current, failures, successes, elapsed>>

WindowElapses ==
  /\ ~elapsed /\ elapsed' = TRUE
  /\ UNCHANGED <<loopVars, conn_sem, pc, connVars, current, attempts, failures, successes, boardVars>>

\* The AutoState half of record_result().
Note(r) ==
  /\ successes' = IF r = "ok" THEN successes + 1 ELSE successes
  /\ failures' = IF r = "fail" THEN failures + 1 ELSE failures
  /\ UNCHANGED <<current, attempts, elapsed>>

\* Mutant: the method of the window, not of the connection, gets the outcome.
RecordCurrent(c, r) ==
  /\ Note(r)
  /\ method_board' = [method_board EXCEPT ![current][r] = @ + 1]
  /\ outcome' = [outcome EXCEPT ![c] = r]

\* record_result() for a connection object.
Record(c, r) ==
  /\ Note(r)
  /\ method_board' = [method_board EXCEPT ![bypass_method[c]][r] = @ + 1]
  /\ outcome' = [outcome EXCEPT ![c] = r]

-----------------------------------------------------------------------------
(* The accept loop. *)

\* SIGINT or SIGTERM.
Signal ==
  /\ ~shutdown_event /\ shutdown_event' = TRUE
  /\ UNCHANGED <<accepting, conn_sem, pc, connVars, autoVars, boardVars>>

\* The event is looked at only after the next client has been accepted.
Accept(c) ==
  /\ accepting /\ pc[c] = "new" /\ LoopFree(c)
  /\ Goto(c, "accepted")
  /\ accepting' = ~shutdown_event
  /\ UNCHANGED <<shutdown_event, conn_sem, connVars, autoVars, boardVars>>

\* sock_accept() raises: the loop looks at the event, and goes on without it.
AcceptFails ==
  /\ accepting /\ shutdown_event /\ \A c \in Conn : pc[c] \notin NoAwait
  /\ accepting' = FALSE
  /\ UNCHANGED <<shutdown_event, conn_sem, pc, connVars, autoVars, boardVars>>

\* The client has reset already and set_keepalive() raises: nothing catches it in
\* main(), which ends, and the engine with it.
AcceptRaises(c) ==
  /\ accepting /\ pc[c] = "new" /\ LoopFree(c)
  /\ Goto(c, "done")
  /\ accepting' = FALSE
  /\ UNCHANGED <<shutdown_event, conn_sem, connVars, autoVars, boardVars>>

-----------------------------------------------------------------------------
(* handle() *)

Admit(c) ==
  /\ pc[c] = "accepted" /\ LoopFree(c)
  /\ conn_sem > 0 /\ conn_sem' = conn_sem - 1
  /\ Goto(c, "setup")
  /\ UNCHANGED <<loopVars, connVars, autoVars, boardVars>>

TurnAway(c) ==
  /\ pc[c] = "accepted" /\ LoopFree(c) /\ conn_sem = 0
  /\ Goto(c, "done")
  /\ UNCHANGED <<loopVars, conn_sem, connVars, autoVars, boardVars>>

\* No socket, no local address: there is no connection object yet.
SetupFails(c) ==
  /\ pc[c] = "setup"
  /\ Goto(c, "finally")
  /\ UNCHANGED <<loopVars, conn_sem, connVars, autoVars, boardVars>>

\* The connection object resolves "auto" and try_connect() begins.
Register(c) ==
  /\ pc[c] = "setup"
  /\ NextMethod
  /\ bypass_method' = [bypass_method EXCEPT ![c] = current']
  /\ monitor' = [monitor EXCEPT ![c] = TRUE]
  /\ Goto(c, "connecting")
  /\ UNCHANGED <<loopVars, conn_sem, t2a_msg, handshake_ok, relay_started, tried, boardVars>>

\* The injector thread ends its observation, at any moment.
Verdict(c, msg) ==
  /\ monitor[c]
  /\ monitor' = [monitor EXCEPT ![c] = FALSE]
  /\ t2a_msg' = [t2a_msg EXCEPT ![c] = msg]
  /\ UNCHANGED <<loopVars, conn_sem, pc, handshake_ok, relay_started, bypass_method, tried, autoVars, boardVars>>

Connected(c) ==
  /\ pc[c] = "connecting" /\ LoopFree(c)
  /\ tried' = [tried EXCEPT ![c] = TRUE]
  /\ Goto(c, "waiting")
  /\ UNCHANGED <<loopVars, conn_sem, monitor, t2a_msg, handshake_ok, relay_started,
                 bypass_method, autoVars, boardVars>>

\* note_fail(None, ...): the window takes the failure, no method is blamed.
ConnectFails(c) ==
  /\ pc[c] = "connecting" /\ LoopFree(c)
  /\ monitor' = [monitor EXCEPT ![c] = FALSE]
  /\ Note("fail")
  /\ Goto(c, "finally")
  /\ UNCHANGED <<loopVars, conn_sem, t2a_msg, handshake_ok, relay_started, bypass_method, tried, boardVars>>

\* HANDSHAKE_TIMEOUT or a bad verdict.
HandshakeFails(c) ==
  /\ pc[c] = "waiting" /\ LoopFree(c)
  /\ monitor' = [monitor EXCEPT ![c] = FALSE]
  /\ Record(c, "fail")
  /\ Goto(c, "finally")
  /\ UNCHANGED <<loopVars, conn_sem, t2a_msg, handshake_ok, relay_started, bypass_method, tried>>

HandshakeOk(c) ==
  /\ pc[c] = "waiting" /\ LoopFree(c) /\ t2a_msg[c] = "good"
  /\ handshake_ok' = [handshake_ok EXCEPT ![c] = TRUE]
  /\ monitor' = [monitor EXCEPT ![c] = FALSE]
  /\ Goto(c, "ok")
  /\ UNCHANGED <<loopVars, conn_sem, t2a_msg, relay_started, bypass_method, tried, autoVars,
                 boardVars>>

StartRelay(c) ==
  /\ pc[c] = "ok"
  /\ relay_started' = [relay_started EXCEPT ![c] = TRUE]
  /\ Goto(c, "relay")
  /\ UNCHANGED <<loopVars, conn_sem, monitor, t2a_msg, handshake_ok, bypass_method, tried, autoVars, boardVars>>

RelayEnds(c) ==
  /\ pc[c] = "relay" /\ LoopFree(c)
  /\ Goto(c, "finally")
  /\ UNCHANGED <<loopVars, conn_sem, connVars, autoVars, boardVars>>

\* The except branch: an error nobody expected.
Raises(c) ==
  /\ \/ pc[c] = "connecting" /\ LoopFree(c)
     \/ pc[c] = "ok"
  /\ monitor' = [monitor EXCEPT ![c] = FALSE]
  /\ IF monitor[c] THEN Record(c, "fail") ELSE UNCHANGED <<autoVars, boardVars>>
  /\ Goto(c, "finally")
  /\ UNCHANGED <<loopVars, conn_sem, t2a_msg, handshake_ok, relay_started, bypass_method, tried>>

\* asyncio.run() cancels what is left once the accept loop has ended; the last
\* client's task has taken its first step by then.
Cancel(c) ==
  /\ ~accepting /\ LoopFree(c) /\ \A d \in Conn : pc[d] # "accepted"
  /\ pc[c] \in {"connecting", "waiting", "relay"}
  /\ Goto(c, "finally")
  /\ UNCHANGED <<loopVars, conn_sem, connVars, autoVars, boardVars>>

\* Mutant: the decision knows relays and good handshakes only, and leaves a wait that
\* was cut off to the branch that records a timeout.
DecideRelayed(c) ==
  /\ IF relay_started[c] \/ handshake_ok[c]
       THEN \E r \in Results : (~relay_started[c] => r = "fail") /\ Record(c, r)
       ELSE UNCHANGED <<autoVars, boardVars>>
  /\ UNCHANGED monitor

\* The decision of the finally block.
Decide(c) ==
  \/ /\ relay_started[c]
     /\ \E r \in Results : Record(c, r)
     /\ UNCHANGED monitor
  \/ /\ ~relay_started[c] /\ handshake_ok[c]
     /\ Record(c, "fail")
     /\ UNCHANGED monitor
  \/ /\ ~relay_started[c] /\ ~handshake_ok[c] /\ monitor[c]
     /\ Record(c, "fail")
     /\ monitor' = [monitor EXCEPT ![c] = FALSE]
  \/ /\ ~relay_started[c] /\ ~handshake_ok[c] /\ ~monitor[c]
     /\ UNCHANGED <<monitor, autoVars, boardVars>>

Smaller(a, b) == IF a < b THEN a ELSE b

\* Mutant: the slot is given back only after a relay.
ReleaseAfterRelay(c) ==
  conn_sem' = IF relay_started[c] THEN Smaller(MAX_CONNECTIONS, conn_sem + 2) ELSE conn_sem

\* The finally block releases twice; a release beyond the initial value raises
\* ValueError and is ignored.
Release(c) == conn_sem' = Smaller(MAX_CONNECTIONS, conn_sem + 2)

Finally(c) ==
  /\ pc[c] = "finally"
  /\ Decide(c)
  /\ Release(c)
  /\ Goto(c, "done")
  /\ UNCHANGED <<loopVars, t2a_msg, handshake_ok, relay_started, bypass_method, tried>>

-----------------------------------------------------------------------------
Handle(c) ==
  \/ Admit(c) \/ TurnAway(c) \/ SetupFails(c) \/ Register(c)
  \/ Connected(c) \/ ConnectFails(c) \/ HandshakeFails(c) \/ HandshakeOk(c)
  \/ StartRelay(c) \/ RelayEnds(c) \/ Raises(c) \/ Cancel(c) \/ Finally(c)

Next ==
  \/ Signal \/ WindowElapses \/ AcceptFails
  \/ \E c \in Conn : Accept(c) \/ AcceptRaises(c) \/ Handle(c) \/ \E msg \in {"good", "bad"} : Verdict(c, msg)

Spec == Init /\ [][Next]_vars

-----------------------------------------------------------------------------
(* Correctness. *)

\* Type invariant.  A window serves at most AUTO_MAX_ATTEMPTS connections.
TypeOK ==
  /\ accepting \in BOOLEAN /\ shutdown_event \in BOOLEAN
  /\ conn_sem \in 0 .. MAX_CONNECTIONS
  /\ pc \in [Conn -> Steps]
  /\ monitor \in [Conn -> BOOLEAN] /\ t2a_msg \in [Conn -> {"none", "good", "bad"}]
  /\ handshake_ok \in [Conn -> BOOLEAN] /\ relay_started \in [Conn -> BOOLEAN]
  /\ bypass_method \in [Conn -> REAL_METHODS \cup {None}] /\ tried \in [Conn -> BOOLEAN]
  /\ current \in REAL_METHODS /\ attempts \in 0 .. AUTO_MAX_ATTEMPTS
  /\ failures \in Nat /\ successes \in Nat /\ elapsed \in BOOLEAN
  /\ method_board \in [REAL_METHODS -> [Results -> Nat]]
  /\ outcome \in [Conn -> Results \cup {"none"}]

\* The handle()s that hold a slot of the semaphore.
Holding == {c \in Conn : pc[c] \notin {"new", "accepted", "done"}}

\* No slot is lost on any path out of handle() (main.py:919, 937): whatever is
\* not free is held, so a client is turned away only when MAX_CONNECTIONS
\* handle()s are running, and an idle engine has all its slots.
NoSlotLost == conn_sem + Cardinality(Holding) >= MAX_CONNECTIONS

Blamed(m, r) == {c \in Conn : bypass_method[c] = m /\ outcome[c] = r}

\* No outcome is twice on the method board, and each is under the method the
\* connection used, though "auto" may have moved on since it was resolved.
Exact ==
  \A m \in REAL_METHODS, r \in Results : method_board[m][r] = Cardinality(Blamed(m, r))

\* Shutdown has cut off the wait for a verdict the injector had already given.
Unread(c) == ~accepting /\ t2a_msg[c] # "none" /\ ~handshake_ok[c]

NoneLost == \A c \in Conn :
  tried[c] /\ pc[c] = "done" => outcome[c] # "none" \/ Unread(c)

\* The method board is exact: a connection that has put its method to the test is on
\* it once when its handle() is over, on whichever path it ended (main.py:801-900) and
\* however the injector's verdict and the flags it clears come in between, and under
\* the method it used.  Only a verdict left unread at shutdown goes unrecorded: it has
\* cleared conn.monitor, which main.py:898 asks.
Credited == Exact /\ NoneLost

-----------------------------------------------------------------------------
(* The inductive invariant behind them. *)

\* Whatever may still record an outcome of c finds none recorded, and a method
\* to credit it to.
Unrecorded(c) == outcome[c] = "none" /\ bypass_method[c] \in REAL_METHODS

\* A method on trial has an observer or its verdict, and what ends the trial leaves
\* a flag for the finally block, an outcome or an unread verdict.
TrialInv == \A c \in Conn :
  /\ tried[c] => pc[c] \in {"waiting", "ok", "relay", "finally", "done"}
  /\ pc[c] \in {"connecting", "waiting"} => monitor[c] \/ t2a_msg[c] # "none"
  /\ pc[c] = "finally" /\ tried[c] /\ outcome[c] = "none" =>
       handshake_ok[c] \/ (~accepting /\ (monitor[c] \/ t2a_msg[c] # "none"))

FlagsInv == \A c \in Conn :
  /\ pc[c] \in {"new", "accepted", "setup"} =>
       outcome[c] = "none" /\ ~monitor[c] /\ ~handshake_ok[c] /\ ~relay_started[c]
  /\ pc[c] \in {"connecting", "waiting"} =>
       Unrecorded(c) /\ ~handshake_ok[c] /\ ~relay_started[c]
  /\ pc[c] \in {"ok", "relay"} => Unrecorded(c) /\ handshake_ok[c] /\ ~monitor[c]
  /\ pc[c] = "finally" /\ (monitor[c] \/ handshake_ok[c] \/ relay_started[c]) => Unrecorded(c)

EInv == TypeOK /\ FlagsInv /\ TrialInv /\ NoSlotLost /\ Credited

-----------------------------------------------------------------------------
(* What the documents promise and the code does not do. *)

\* The "connection limit semaphore (MAX_CONNECTIONS)" limits the connections.
LimitHolds == Cardinality(Holding) <= MAX_CONNECTIONS
=============================================================================
