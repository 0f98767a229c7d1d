-------------------------------- MODULE Gui --------------------------------
(***************************************************************************)
(* The life of the GUI process (gui.py) with the two children it starts:   *)
(* the injector backend (main.py) and, in one mode, xray.  Handlers run    *)
(* one at a time on the tk thread; a reader thread per child and the       *)
(* background workers talk to it through msg_q.  A run is known by its     *)
(* _run_id, which stop() and start() both move on.  Log lines carry no     *)
(* state.  The next GUI process begins at GInit again.  msg_q is           *)
(* a set: every reader of it takes all of it, and of two messages alike    *)
(* (lines of statistics of one run) the last one counts.                   *)
(***************************************************************************)
EXTENDS Integers, FiniteSets

CONSTANTS
  MaxRun,   \* bound on _run_id
  MaxBusy,  \* bound on busy_jobs
  MaxDeaf   \* bound on the readers that fail

ASSUME GuiAssumption == MaxRun \in Nat /\ MaxBusy \in Nat /\ MaxDeaf \in Nat

VARIABLES
  gui,          \* "open", "asking" (the question of on_closing()) or "gone"
  running, manual_stop, run_id,
  held,         \* injector_proc and xray_proc: the run whose child it is, or 0
  proc,         \* the children themselves
  failures,     \* stats_reporter() of each backend: writes that failed
  deaf,         \* children whose reader ended by an exception
  msg_q, due,   \* messages; calls of _on_injector_exit() that are scheduled
  shown,        \* the run whose numbers are on display, 0 after a reset
  jobs, busy_jobs \* background workers at work; the number the spinner shows

runVars == <<running, manual_stop, run_id, held>>
childVars == <<proc, failures, deaf>>
queueVars == <<msg_q, due, shown>>
jobVars == <<jobs, busy_jobs>>
gvars == <<gui, runVars, childVars, queueVars, jobVars>>

Tags == {"injector", "xray"}
Runs == 1 .. MaxRun

\* survivor: alive although _terminate() was called; reported: dead, and its reader
\* has come to the end of its output.
Status == {"none", "alive", "survivor", "dead", "reported"}
Live(t, r) == proc[t][r] \in {"alive", "survivor"}
ReaderOver(t, r) == proc[t][r] = "reported" \/ <<t, r>> \in deaf

Workers == 1 .. MaxBusy
Messages == [kind : {"stats"}, run : Runs] \cup [kind : {"exit"}, tag : Tags, run : Runs]
            \cup [kind : {"busy"}, worker : Workers]
Queued(kind) == {m \in msg_q : m.kind = kind}

GInit ==
  /\ gui = "open"
  /\ running = FALSE /\ manual_stop = FALSE /\ run_id = 0
  /\ held = [t \in Tags |-> 0]
  /\ proc = [t \in Tags |-> [r \in Runs |-> "none"]]
  /\ failures = [r \in Runs |-> 0] /\ deaf = {}
  /\ msg_q = {} /\ due = {} /\ shown = 0
  /\ jobs = {} /\ busy_jobs = 0

-----------------------------------------------------------------------------
(* The children. *)

\* A backend or xray ends by itself: crash, port taken, no driver.
ChildDies(t, r) ==
  /\ Live(t, r)
  /\ proc' = [proc EXCEPT ![t][r] = "dead"]
  /\ UNCHANGED <<gui, runVars, failures, deaf, queueVars, jobVars>>

\* _reader() of the child is at work.
Reading(t, r) == gui # "gone" /\ proc[t][r] # "none" /\ ~ReaderOver(t, r)

ExitOf(t, r) == [kind |-> "exit", tag |-> t, run |-> r]

\* _reader() hands a line of statistics on, maybe after the backend's end.
ReadStats(r) ==
  /\ Reading("injector", r)
  /\ msg_q' = msg_q \cup {[kind |-> "stats", run |-> r]}
  /\ UNCHANGED <<gui, runVars, childVars, due, shown, jobVars>>

\* End of file: _reader() reports the exit and ends.
ReadEnd(t, r) ==
  /\ Reading(t, r) /\ proc[t][r] = "dead"
  /\ proc' = [proc EXCEPT ![t][r] = "reported"]
  /\ msg_q' = msg_q \cup {ExitOf(t, r)}
  /\ UNCHANGED <<gui, runVars, failures, deaf, due, shown, jobVars>>

\* An exception ends _reader(): the exit is reported all the same, of a child that
\* may live.
ReaderFails(t, r) ==
  /\ Reading(t, r) /\ Cardinality(deaf) < MaxDeaf
  /\ deaf' = deaf \cup {<<t, r>>}
  /\ msg_q' = msg_q \cup {ExitOf(t, r)}
  /\ UNCHANGED <<gui, runVars, proc, failures, due, shown, jobVars>>

\* Mutant: the reporter ends, the backend goes on.
PipeBrokenReporterOnly(r) ==
  /\ gui = "gone" /\ Live("injector", r) /\ failures[r] < 3
  /\ failures' = [failures EXCEPT ![r] = @ + 1]
  /\ UNCHANGED <<gui, runVars, proc, deaf, queueVars, jobVars>>

\* stats_reporter() without a reader at the other end: the third write that
\* fails ends the backend.
PipeBroken(r) ==
  /\ gui = "gone" /\ Live("injector", r)
  /\ failures' = [failures EXCEPT ![r] = @ + 1]
  /\ proc' = IF failures'[r] >= 3 THEN [proc EXCEPT !["injector"][r] = "dead"] ELSE proc
  /\ UNCHANGED <<gui, runVars, deaf, queueVars, jobVars>>

\* _terminate() for the children held under some tags: either may survive kill().
Terminate(tags) ==
  LET told == {t \in tags : held[t] # 0 /\ Live(t, held[t])}
  IN  \E killed \in SUBSET told :
        proc' = [t \in Tags |->
                  IF t \in told
                    THEN [proc[t] EXCEPT ![held[t]] = IF t \in killed THEN "dead" ELSE "survivor"]
                    ELSE proc[t]]

-----------------------------------------------------------------------------
(* START and STOP. *)

\* Refused: invalid settings, port busy, not admin.  The queue is empty by then.
StartRefused ==
  /\ gui = "open" /\ ~running /\ msg_q # {}
  /\ msg_q' = {}
  /\ UNCHANGED <<gui, runVars, childVars, due, shown, jobVars>>

\* Popen() raises for the backend.
SpawnFails ==
  /\ gui = "open" /\ ~running /\ run_id < MaxRun
  /\ manual_stop' = FALSE /\ run_id' = run_id + 1
  /\ msg_q' = {}
  /\ UNCHANGED <<gui, running, held, childVars, due, shown, jobVars>>

\* Mutant: the flag of the last stop stays up.
StartFlagsKept == running' = TRUE /\ UNCHANGED manual_stop

StartFlags == running' = TRUE /\ manual_stop' = FALSE

\* With or without xray.
Start ==
  /\ gui = "open" /\ ~running /\ run_id < MaxRun
  /\ LET r == run_id + 1 IN
       \E tags \in {{"injector"}, Tags} :
         /\ run_id' = r
         /\ held' = [t \in Tags |-> IF t \in tags THEN r ELSE held[t]]
         /\ proc' = [t \in Tags |-> IF t \in tags THEN [proc[t] EXCEPT ![r] = "alive"] ELSE proc[t]]
  /\ StartFlags
  /\ msg_q' = {} /\ shown' = 0
  /\ UNCHANGED <<gui, failures, deaf, due, jobVars>>

Stopped == ~running /\ held["injector"] = 0

\* Mutant: xray is left to itself.
StopInjectorOnly ==
  IF Stopped
    THEN UNCHANGED <<runVars, proc>>
    ELSE /\ manual_stop' = TRUE /\ running' = FALSE /\ run_id' = run_id + 1
         /\ Terminate({"injector"}) /\ held' = [t \in Tags |-> 0]

\* stop() itself, also called by on_closing().
DoStop ==
  IF Stopped
    THEN UNCHANGED <<runVars, proc>>
    ELSE /\ manual_stop' = TRUE /\ running' = FALSE /\ run_id' = run_id + 1
         /\ Terminate(Tags) /\ held' = [t \in Tags |-> 0]

Stop ==
  /\ gui = "open" /\ run_id < MaxRun
  /\ DoStop
  /\ msg_q' = IF Stopped THEN msg_q ELSE {}
  /\ UNCHANGED <<gui, failures, deaf, due, shown, jobVars>>

-----------------------------------------------------------------------------
(* The queue. *)

\* Mutant: numbers of any run are shown.
AnyRun(m) == TRUE

OfThisRun(m) == m.run = run_id

Less(n, k) == IF k > n THEN 0 ELSE n - k

\* _poll_queue() takes everything there is; what comes in meanwhile is as good
\* as there for the next time.
Poll ==
  /\ gui # "gone" /\ msg_q # {}
  /\ msg_q' = {}
  /\ shown' \in IF running /\ \E m \in Queued("stats") : OfThisRun(m)
                 THEN {m.run : m \in {n \in Queued("stats") : OfThisRun(n)}}
                 ELSE {shown}
  /\ due' = IF running /\ ~manual_stop
              THEN due \cup {m.run : m \in {n \in Queued("exit") : n.tag = "injector" /\ OfThisRun(n)}}
              ELSE due
  /\ busy_jobs' = Less(busy_jobs, Cardinality(Queued("busy")))
  /\ UNCHANGED <<gui, runVars, childVars, jobs>>

\* Mutant: the number of the run is not compared.
StillMeant(r) == ~manual_stop /\ running

\* The call is for a run that is still the current one.
ExitMeant(r) == ~manual_stop /\ running /\ r = run_id

\* _on_injector_exit(): xray goes with the backend, both handles are dropped.  The
\* backend itself is taken for dead.
OnInjectorExit(r) ==
  /\ gui # "gone" /\ r \in due
  /\ due' = due \ {r}
  /\ IF ExitMeant(r)
       THEN /\ Terminate({"xray"})
            /\ held' = [t \in Tags |-> 0] /\ running' = FALSE
       ELSE UNCHANGED <<proc, held, running>>
  /\ UNCHANGED <<gui, manual_stop, run_id, failures, deaf, msg_q, shown, jobVars>>

\* _run_bg(): the worker's last act is its message.
RunJob ==
  /\ gui = "open" /\ busy_jobs < MaxBusy
  /\ \E w \in Workers \ (jobs \cup {m.worker : m \in Queued("busy")}) : jobs' = jobs \cup {w}
  /\ busy_jobs' = busy_jobs + 1
  /\ UNCHANGED <<gui, runVars, childVars, queueVars>>

\* Mutant: the worker reports before its work and not after it.
JobReportsFirst(w) ==
  /\ w \in jobs /\ jobs' \in {jobs, jobs \ {w}}
  /\ msg_q' = msg_q \cup {[kind |-> "busy", worker |-> w]}
  /\ UNCHANGED <<gui, runVars, childVars, due, shown, busy_jobs>>

JobEnds(w) ==
  /\ w \in jobs /\ jobs' = jobs \ {w}
  /\ msg_q' = msg_q \cup {[kind |-> "busy", worker |-> w]}
  /\ UNCHANGED <<gui, runVars, childVars, due, shown, busy_jobs>>

-----------------------------------------------------------------------------
(* The window. *)

\* on_closing() while a run is up asks first; messages and scheduled calls are
\* handled while the question is open.
AskToClose ==
  /\ gui = "open" /\ running
  /\ gui' = "asking"
  /\ UNCHANGED <<runVars, childVars, queueVars, jobVars>>

AnswerNo ==
  /\ gui = "asking" /\ gui' = "open"
  /\ UNCHANGED <<runVars, childVars, queueVars, jobVars>>

\* The queue, the scheduled calls and the workers end with the process.
Forgotten == msg_q' = {} /\ due' = {} /\ shown' = 0 /\ jobs' = {} /\ busy_jobs' = 0

\* Yes, or nothing was running: _shutdown_children() and destroy(), and the
\* threads end with the process.
Close ==
  /\ \/ gui = "open" /\ ~running
     \/ gui = "asking"
  /\ run_id < MaxRun
  /\ gui' = "gone"
  /\ DoStop /\ Forgotten
  /\ UNCHANGED <<failures, deaf>>

\* The GUI process dies any other way; the job object takes the children that
\* _pin_child() could put into it.
GuiDies ==
  /\ gui # "gone" /\ gui' = "gone"
  /\ running' = FALSE /\ Forgotten
  /\ \E pinned \in SUBSET {c \in Tags \X Runs : Live(c[1], c[2])} :
       proc' = [t \in Tags |-> [r \in Runs |-> IF <<t, r>> \in pinned THEN "dead" ELSE proc[t][r]]]
  /\ UNCHANGED <<manual_stop, run_id, held, failures, deaf>>

-----------------------------------------------------------------------------
GNext ==
  \/ StartRefused \/ SpawnFails \/ Start \/ Stop
  \/ Poll \/ RunJob \/ (\E w \in Workers : JobEnds(w))
  \/ AskToClose \/ AnswerNo \/ Close \/ GuiDies
  \/ \E r \in Runs :
       \/ ReadStats(r) \/ PipeBroken(r) \/ OnInjectorExit(r)
       \/ \E t \in Tags : ChildDies(t, r) \/ ReadEnd(t, r) \/ ReaderFails(t, r)

\* Threads are scheduled, the tk loop polls every 120 ms and runs what is due,
\* a backend prints its statistics every two seconds.  No reader has to fail.
GFairness ==
  /\ WF_gvars(Poll)
  /\ \A r \in Runs :
       /\ WF_gvars(OnInjectorExit(r)) /\ WF_gvars(PipeBroken(r))
       /\ \A t \in Tags : WF_gvars(ReadEnd(t, r))

GSpec == GInit /\ [][GNext]_gvars /\ GFairness

-----------------------------------------------------------------------------
(* Correctness. *)

\* Type invariant.
GTypeOK ==
  /\ gui \in {"open", "asking", "gone"}
  /\ running \in BOOLEAN /\ manual_stop \in BOOLEAN /\ run_id \in 0 .. MaxRun
  /\ held \in [Tags -> 0 .. MaxRun]
  /\ proc \in [Tags -> [Runs -> Status]]
  /\ failures \in [Runs -> 0 .. 3] /\ deaf \in SUBSET (Tags \X Runs)
  /\ msg_q \in SUBSET Messages
  /\ due \in SUBSET Runs
  /\ shown \in 0 .. MaxRun
  /\ jobs \in SUBSET Workers /\ busy_jobs \in 0 .. MaxBusy

\* A child that lives is held, or was told to end: whatever the order of
\* starts, stops, exits and late messages, no handle of a live child is dropped
\* without an attempt to end it (start(), stop(), _on_injector_exit()), but that
\* of a backend whose reader failed: _on_injector_exit() takes it for dead.  A GUI
\* that dies takes its handles with it.
NoForgottenChild ==
  \A t \in Tags : \A r \in Runs :
    proc[t][r] = "alive" => held[t] = r \/ (t = "injector" /\ <<t, r>> \in deaf)

\* The numbers on display while a run is up are numbers of that run, also when
\* an earlier backend outlives kill() and goes on printing (the epoch of
\* _poll_queue(), the reset in start()).
StatsOfThisRun == running /\ shown # 0 => shown = run_id

\* As long as a background worker works the spinner turns: messages that are
\* lost can only leave it turning (_run_bg(), "busy" in _poll_queue()).
BusyWhileWorking == Cardinality(jobs) + Cardinality(Queued("busy")) <= busy_jobs

\* A run ends because the user stops it or leaves, or because the reader of its
\* own backend has ended, at the death of the backend or by an error: a late exit
\* message or a scheduled call of an earlier run does not end a later one, nor does
\* the end of xray (_reader(), _on_injector_exit()).
EndsOwnRun ==
  [][running /\ ~running' /\ ~manual_stop' /\ gui' # "gone"
       => ReaderOver("injector", run_id)]_gvars

\* A backend that dies by itself is noticed: START comes back without STOP.
CrashNoticed == running /\ ~Live("injector", run_id) ~> ~running

\* A backend whose GUI is gone ends by itself, whether the GUI was closed, died
\* or could not kill it (stats_reporter()).
OrphansEnd == gui = "gone" ~> \A r \in Runs : ~Live("injector", r)
=============================================================================
