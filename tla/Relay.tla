-------------------------------- MODULE Relay --------------------------------
(***************************************************************************)
(* The relay of main.py and the accounts it keeps.  handle() runs the "up" *)
(* direction itself and the "down" direction in a task of its own; both    *)
(* are relay_main_loop(), on the event loop thread.  A direction runs from *)
(* one await to the next without interruption: it is receiving, sending or *)
(* done.  Whatever ends a direction, its finally block flushes its byte    *)
(* count, closes both sockets and cancels the other one; the end of "up"   *)
(* is also the end of handle(), which judges the connection by the bytes   *)
(* moved and takes it off the list the GUI shows.                          *)
(***************************************************************************)
EXTENDS Integers, FiniteSets

CONSTANTS
  Conn,         \* connections, one handle() each
  Chunks,       \* sizes of the chunks a receive can return
  FLUSH_CHUNKS, \* RELAY_ACTIVE_FLUSH_CHUNKS
  THRESHOLD,    \* SUCCESS_BYTES_THRESHOLD
  ACTIVE_CAP,   \* _ACTIVE_CAP of the active list
  MaxBytes      \* bound of the model: bytes of a direction that are counted

ASSUME RelayAssumption ==
  /\ Chunks \subseteq Nat \ {0}
  /\ FLUSH_CHUNKS \in Nat \ {0} /\ ACTIVE_CAP \in Nat \ {0}
  /\ THRESHOLD \in Nat /\ MaxBytes \in [Conn \X {"up", "down"} -> Nat]
  /\ IsFiniteSet(Conn)

Task == Conn \X {"up", "down"}
Up(c) == <<c, "up">>
Down(c) == <<c, "down">>
Peer(t) == IF t[2] = "up" THEN Down(t[1]) ELSE Up(t[1])

VARIABLES
  st,           \* where each direction is
  cancelled,    \* a CancelledError is on its way to the task
  n,            \* what the chunk being sent counts for, 0 when none is
  chunk_count,  \* modulo FLUSH_CHUNKS
  pending,      \* bytes counted and not yet flushed to the active list
  moved,        \* history: bytes this direction has given to add_traffic()
  closed,       \* both sockets of the connection are closed
  traffic,      \* the global totals, up and down together
  bytes_before, \* the totals when the relay of the connection started
  place,        \* when its entry was put in the active list, a dict in that order
  entry,        \* bytes the entry shows per direction, -1 when there is no entry
  result,       \* what record_result() was told
  stopping      \* the event loop is shutting down

taskVars == <<st, cancelled, n, chunk_count, pending, moved>>
listVars == <<place, entry>>
vars == <<taskVars, listVars, closed, traffic, bytes_before, result, stopping>>

Points == {"new", "waiting", "ready", "recv", "send", "done"}

Init ==
  /\ st = [t \in Task |-> "new"]
  /\ cancelled = [t \in Task |-> FALSE]
  /\ n = [t \in Task |-> 0]
  /\ chunk_count = [t \in Task |-> 0]
  /\ pending = [t \in Task |-> 0]
  /\ moved = [t \in Task |-> 0]
  /\ closed = [c \in Conn |-> FALSE]
  /\ traffic = 0
  /\ bytes_before = [c \in Conn |-> 0]
  /\ place = [c \in Conn |-> 0]
  /\ entry = [t \in Task |-> -1]
  /\ result = [c \in Conn |-> "none"]
  /\ stopping = FALSE

-----------------------------------------------------------------------------
(* The active list: a dict in order of registration, bounded first in,      *)
(* first out.                                                              *)

Listed(en) == {c \in Conn : en[Up(c)] # -1 \/ en[Down(c)] # -1}

Unlisted(en, c) == [en EXCEPT ![Up(c)] = -1, ![Down(c)] = -1]

\* The while loop of register_active(), on a list one entry over the cap.
Pruned(en, pl) ==
  LET oldest == CHOOSE c \in Listed(en) : \A d \in Listed(en) : pl[c] <= pl[d]
  IN  IF Cardinality(Listed(en)) > ACTIVE_CAP THEN Unlisted(en, oldest) ELSE en

\* Mutant: setdefault() instead of get(): a late flush brings the entry back.
UpdatedOrMade(en, t, bytes) == [en EXCEPT ![t] = IF @ = -1 THEN bytes ELSE @ + bytes]

\* update_active(): a delta for an entry that is gone is dropped.
Updated(en, t, bytes) == IF en[t] # -1 THEN [en EXCEPT ![t] = @ + bytes] ELSE en

-----------------------------------------------------------------------------
(* handle() up to the relay. *)

Accepted == Cardinality({c \in Conn : st[Up(c)] # "new"})

Register(c) ==
  /\ st[Up(c)] = "new" /\ ~stopping
  /\ st' = [st EXCEPT ![Up(c)] = "waiting"]
  /\ place' = [place EXCEPT ![c] = Accepted + 1]
  /\ entry' = Pruned([entry EXCEPT ![Up(c)] = 0, ![Down(c)] = 0], place')
  /\ UNCHANGED <<cancelled, n, chunk_count, pending, moved, closed, traffic,
                 bytes_before, result, stopping>>

\* No verdict, a bad one, or a cancellation: the connection never gets to the relay.
NeverRelays(c) ==
  /\ st[Up(c)] = "waiting"
  /\ st' = [st EXCEPT ![Up(c)] = "done"]
  /\ entry' = Unlisted(entry, c)
  /\ UNCHANGED <<cancelled, n, chunk_count, pending, moved, closed, traffic,
                 bytes_before, place, result, stopping>>

\* The totals are read, the down task is created and "up" runs to its first await.
\* wait_for() may have forgotten a cancellation for the verdict it had.
StartRelay(c) ==
  /\ st[Up(c)] = "waiting"
  /\ cancelled' = [cancelled EXCEPT ![Up(c)] = FALSE]
  /\ bytes_before' = [bytes_before EXCEPT ![c] = traffic]
  /\ st' = [st EXCEPT ![Up(c)] = "recv", ![Down(c)] = "ready"]
  /\ UNCHANGED <<n, chunk_count, pending, moved, closed, traffic,
                 listVars, result, stopping>>

-----------------------------------------------------------------------------
(* relay_main_loop() *)

\* A task cancelled before its first step never enters the coroutine.
DownStarts(c) ==
  /\ st[Down(c)] = "ready"
  /\ st' = [st EXCEPT ![Down(c)] = IF cancelled[Down(c)] THEN "done" ELSE "recv"]
  /\ UNCHANGED <<cancelled, n, chunk_count, pending, moved, listVars, closed,
                 traffic, bytes_before, result, stopping>>

\* The bound is on the accounts and not on the traffic: past it chunks go on coming
\* and being relayed, for ever if the remote ends so wish, and count for nothing.
Counts(t, size) == moved[t] + size <= MaxBytes[t]

\* A chunk comes.  wait_for() also returns one that had come just before a
\* cancellation, which is then forgotten.
Receive(t, size) ==
  /\ st[t] = "recv" /\ ~closed[t[1]]
  /\ cancelled' = [cancelled EXCEPT ![t] = FALSE]
  /\ IF Counts(t, size)
       THEN /\ n' = [n EXCEPT ![t] = size]
            /\ chunk_count' = [chunk_count EXCEPT ![t] = (@ + 1) % FLUSH_CHUNKS]
       ELSE UNCHANGED <<n, chunk_count>>
  /\ st' = [st EXCEPT ![t] = "send"]
  /\ UNCHANGED <<pending, moved, listVars, closed, traffic, bytes_before, result, stopping>>

\* Mutant: the batch is flushed and not reset.
SentKeepsPending(t) ==
  /\ st[t] = "send" /\ ~closed[t[1]] /\ ~cancelled[t]
  /\ traffic' = traffic + n[t]
  /\ moved' = [moved EXCEPT ![t] = @ + n[t]]
  /\ entry' = IF chunk_count[t] = 0 THEN Updated(entry, t, pending[t] + n[t]) ELSE entry
  /\ pending' = [pending EXCEPT ![t] = @ + n[t]]
  /\ n' = [n EXCEPT ![t] = 0]
  /\ st' = [st EXCEPT ![t] = "recv"]
  /\ UNCHANGED <<cancelled, chunk_count, place, closed, bytes_before, result, stopping>>

\* sock_sendall() has sent the chunk: it is counted, and every FLUSH_CHUNKS
\* chunks the entry is brought up to date.
Sent(t) ==
  /\ st[t] = "send" /\ ~closed[t[1]] /\ ~cancelled[t]
  /\ traffic' = traffic + n[t]
  /\ moved' = [moved EXCEPT ![t] = @ + n[t]]
  /\ IF chunk_count[t] = 0
       THEN /\ entry' = Updated(entry, t, pending[t] + n[t])
            /\ pending' = [pending EXCEPT ![t] = 0]
       ELSE /\ pending' = [pending EXCEPT ![t] = @ + n[t]]
            /\ UNCHANGED entry
  /\ n' = [n EXCEPT ![t] = 0]
  /\ st' = [st EXCEPT ![t] = "recv"]
  /\ UNCHANGED <<cancelled, chunk_count, place, closed, bytes_before, result, stopping>>

\* Mutant: only what the clients sent is looked at.
JudgeUp(c) ==
  result' = [result EXCEPT ![c] = IF moved[Up(c)] >= THRESHOLD THEN "ok" ELSE "fail"]

\* The decision in the finally block of handle(): the growth of the totals.
Judge(c) ==
  result' = [result EXCEPT ![c] = IF traffic - bytes_before[c] >= THRESHOLD THEN "ok" ELSE "fail"]

\* Mutant: the sockets are closed and the peer left to notice.
EndAlone(t) ==
  /\ st' = [st EXCEPT ![t] = "done"]
  /\ n' = [n EXCEPT ![t] = 0]
  /\ pending' = [pending EXCEPT ![t] = 0]
  /\ closed' = [closed EXCEPT ![t[1]] = TRUE]
  /\ cancelled' = [cancelled EXCEPT ![t] = FALSE]
  /\ LET flushed == Updated(entry, t, pending[t])
     IN  IF t[2] = "up"
           THEN Judge(t[1]) /\ entry' = Unlisted(flushed, t[1])
           ELSE entry' = flushed /\ UNCHANGED result
  /\ UNCHANGED <<chunk_count, moved, place, traffic, bytes_before, stopping>>

\* The loop is left: flush, close, cancel the peer; after "up", handle() ends.
End(t) ==
  /\ st' = [st EXCEPT ![t] = "done"]
  /\ n' = [n EXCEPT ![t] = 0]
  /\ pending' = [pending EXCEPT ![t] = 0]
  /\ closed' = [closed EXCEPT ![t[1]] = TRUE]
  /\ cancelled' = [cancelled EXCEPT ![t] = FALSE, ![Peer(t)] = st[Peer(t)] # "done"]
  /\ LET flushed == Updated(entry, t, pending[t])
     IN  IF t[2] = "up"
           THEN Judge(t[1]) /\ entry' = Unlisted(flushed, t[1])
           ELSE entry' = flushed /\ UNCHANGED result
  /\ UNCHANGED <<chunk_count, moved, place, traffic, bytes_before, stopping>>

InLoop(t) == st[t] \in {"recv", "send"}

\* End of file, a reset, or any other error at either await.
Breaks(t) == InLoop(t) /\ End(t)

\* Mutant: only the server's silence is limited.
IdleTimeoutDown(t) == st[t] = "recv" /\ t[2] = "down" /\ End(t)

\* No byte for idle_timeout seconds: only the receive is limited.
IdleTimeout(t) == st[t] = "recv" /\ End(t)

\* The CancelledError arrives, at whichever await the task is; or it is forgotten
\* for a chunk, and the send of the chunk fails at once on the closed socket.
Cancelled(t) == InLoop(t) /\ cancelled[t] /\ End(t)

\* asyncio.run() cancels every task that is left.
Shutdown ==
  /\ ~stopping /\ stopping' = TRUE
  /\ cancelled' = [t \in Task |-> cancelled[t] \/ st[t] \in {"waiting", "ready", "recv", "send"}]
  /\ UNCHANGED <<st, n, chunk_count, pending, moved, listVars, closed, traffic,
                 bytes_before, result>>

-----------------------------------------------------------------------------
Next ==
  \/ Shutdown
  \/ \E c \in Conn : Register(c) \/ NeverRelays(c) \/ StartRelay(c) \/ DownStarts(c)
  \/ \E t \in Task :
       \/ \E size \in Chunks : Receive(t, size)
       \/ Sent(t) \/ Breaks(t) \/ IdleTimeout(t) \/ Cancelled(t)

Spec == Init /\ [][Next]_vars

(***************************************************************************)
(* Fairness: the loop runs what is ready and fires its timers.  No remote  *)
(* end is obliged to send, to read what is sent to it, or to hang up.      *)
(***************************************************************************)
Fairness ==
  /\ \A c \in Conn : WF_vars(DownStarts(c))
  /\ \A t \in Task : WF_vars(IdleTimeout(t)) /\ WF_vars(Cancelled(t))

FairSpec == Spec /\ Fairness

-----------------------------------------------------------------------------
(* Correctness. *)

\* Type invariant.
TypeOK ==
  /\ st \in [Task -> Points]
  /\ cancelled \in [Task -> BOOLEAN]
  /\ n \in [Task -> Nat] /\ chunk_count \in [Task -> 0 .. FLUSH_CHUNKS - 1]
  /\ pending \in [Task -> Nat] /\ moved \in [Task -> Nat]
  /\ closed \in [Conn -> BOOLEAN]
  /\ traffic \in Nat /\ bytes_before \in [Conn -> Nat]
  /\ place \in [Conn -> Nat] /\ entry \in [Task -> Nat \cup {-1}]
  /\ result \in [Conn -> {"none", "ok", "fail"}]
  /\ stopping \in BOOLEAN

\* No byte is lost or counted twice between the batches: what the GUI's list
\* shows for a listed connection plus what waits for the next flush is what the
\* direction has moved, also after it has ended (main.py:679-700).
Accounted ==
  \A t \in Task : entry[t] # -1 => entry[t] + pending[t] = moved[t]

\* The list shows only connections whose handle() is running, although the down
\* direction flushes once more after handle() has taken the entry off
\* (main.py:904, main.py:699).
NoGhost == \A c \in Listed(entry) : st[Up(c)] \notin {"new", "done"}

\* A relayed connection is judged a failure only when its own two directions
\* moved less than the threshold, whatever the other connections did to the
\* totals meanwhile (main.py:872-887).
FailIsEarned ==
  \A c \in Conn : result[c] = "fail" => moved[Up(c)] + moved[Down(c)] < THRESHOLD

\* When one direction has closed the sockets, both directions end, even one that
\* waits for a remote end to read (the cancel of main.py:706).
ClosedEndsBoth ==
  \A c \in Conn : closed[c] ~> st[Up(c)] = "done" /\ st[Down(c)] = "done"

\* No direction waits for bytes for ever: it gets some, or its idle timeout
\* (main.py:655) ends the whole connection, the other direction too, be that one
\* pinned in a send that has no time limit of its own.
IdleEndsBoth ==
  \A t \in Task : st[t] = "recv" ~>
     st[t] = "send" \/ (st[t] = "done" /\ st[Peer(t)] = "done")

-----------------------------------------------------------------------------
(* The inductive invariant behind Accounted, NoGhost and FailIsEarned.     *)

\* A direction that has not started has moved nothing and has nothing to flush.
NotStarted == \A c \in Conn :
  /\ st[Up(c)] \in {"new", "waiting"} =>
       st[Down(c)] = "new" /\ moved[Up(c)] = 0 /\ pending[Up(c)] = 0
  /\ st[Down(c)] \in {"new", "ready"} => moved[Down(c)] = 0 /\ pending[Down(c)] = 0

\* While handle() relays, the totals have grown by what its directions moved.
Grown == \A c \in Conn : InLoop(Up(c)) =>
  traffic >= bytes_before[c] + moved[Up(c)] + moved[Down(c)]

JudgedIsClosed == \A c \in Conn : result[c] # "none" => closed[c]

RInv == TypeOK /\ NotStarted /\ Grown /\ JudgedIsClosed /\ Accounted /\ NoGhost /\ FailIsEarned

-----------------------------------------------------------------------------
(* What the comments promise and the code does not do. *)

\* "the per-connection delta (not global counters) decides the outcome"
OkIsOwn ==
  \A c \in Conn : result[c] = "ok" => moved[Up(c)] + moved[Down(c)] >= THRESHOLD

=============================================================================
