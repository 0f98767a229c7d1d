----------------------------- MODULE GuiProofs -----------------------------
(***************************************************************************)
(* Proofs about Gui: children, messages of old runs and the spinner, for   *)
(* any number of runs, of background workers and of readers that fail.     *)
(***************************************************************************)
EXTENDS Gui, FiniteSetTheorems, TLAPS

\* A run holds its backend, and without a run nothing is held.
HeldInv ==
  /\ running => held["injector"] = run_id /\ run_id > 0
  /\ gui # "gone" /\ ~running => \A t \in Tags : held[t] = 0

\* Runs to come have no children; a backend that lives has writes left to fail.
ProcInv ==
  \A r \in Runs :
    /\ r > run_id => \A t \in Tags : proc[t][r] = "none"
    /\ proc["injector"][r] = "none" => failures[r] = 0
    /\ Live("injector", r) => failures[r] <= 2

\* Runs to come have no readers.
DeafInv == \A c \in deaf : c[2] <= run_id

\* An exit message and a scheduled call tell of a reader that has ended.
ExitInv ==
  /\ \A m \in Queued("exit") : ReaderOver(m.tag, m.run)
  /\ \A r \in due : ReaderOver("injector", r)

SpinnerInv == IsFiniteSet(Queued("busy")) /\ BusyWhileWorking

GInv ==
  /\ GTypeOK /\ HeldInv /\ ProcInv /\ DeafInv /\ ExitInv /\ SpinnerInv
  /\ NoForgottenChild /\ StatsOfThisRun

-----------------------------------------------------------------------------
(* What the shared pieces of the handlers do. *)

LEMMA MessageTypes ==
  /\ \A r \in Runs : [kind |-> "stats", run |-> r] \in Messages
  /\ \A t \in Tags, r \in Runs : [kind |-> "exit", tag |-> t, run |-> r] \in Messages
  /\ \A w \in Workers : [kind |-> "busy", worker |-> w] \in Messages
BY DEF Messages

LEMMA QueuedTypes ==
  ASSUME msg_q \in SUBSET Messages
  PROVE  /\ \A m \in Queued("stats") : m.run \in Runs
         /\ \A m \in Queued("exit") : m.run \in Runs /\ m.tag \in Tags
BY DEF Messages, Queued

LEMMA TerminateEffect ==
  ASSUME GTypeOK, NEW tags \in SUBSET Tags, Terminate(tags)
  PROVE  /\ proc' \in [Tags -> [Runs -> Status]]
         /\ \A t \in Tags, r \in Runs :
              IF t \in tags /\ held[t] = r /\ Live(t, r)
                THEN proc'[t][r] \in {"dead", "survivor"}
                ELSE proc'[t][r] = proc[t][r]
<1> DEFINE told == {t \in tags : held[t] # 0 /\ Live(t, held[t])}
<1>1. PICK killed \in SUBSET told :
        proc' = [t \in Tags |->
                  IF t \in told
                    THEN [proc[t] EXCEPT ![held[t]] = IF t \in killed THEN "dead" ELSE "survivor"]
                    ELSE proc[t]]
  BY DEF Terminate
<1>2. \A t \in Tags : proc[t] \in [Runs -> Status]
  BY DEF GTypeOK
<1>3. \A t \in Tags : [proc[t] EXCEPT ![held[t]] = IF t \in killed THEN "dead" ELSE "survivor"]
                        \in [Runs -> Status]
  BY <1>2 DEF Status
<1>4. proc' \in [Tags -> [Runs -> Status]]
  BY <1>1, <1>2, <1>3
<1>5. ASSUME NEW t \in Tags, NEW r \in Runs
      PROVE  IF t \in tags /\ held[t] = r /\ Live(t, r)
               THEN proc'[t][r] \in {"dead", "survivor"}
               ELSE proc'[t][r] = proc[t][r]
  <2>1. CASE t \in tags /\ held[t] = r /\ Live(t, r)
    <3>1. t \in told /\ r # 0
      BY <2>1, GuiAssumption DEF Runs
    <3>2. proc'[t][r] = IF t \in killed THEN "dead" ELSE "survivor"
      BY <1>1, <1>2, <2>1, <3>1
    <3>3. QED
      BY <2>1, <3>2
  <2>2. CASE ~(t \in tags /\ held[t] = r /\ Live(t, r))
    BY <1>1, <1>2, <2>2
  <2>3. QED
    BY <2>1, <2>2
<1>6. QED
  BY <1>4, <1>5

\* stop() leaves no child alive that it was told of, and nothing held.
LEMMA StopEffect ==
  ASSUME GTypeOK, HeldInv, NoForgottenChild, gui # "gone", run_id < MaxRun, DoStop
  PROVE  /\ proc' \in [Tags -> [Runs -> Status]]
         /\ \A t \in Tags, r \in Runs :
              /\ proc'[t][r] = "alive" => t = "injector" /\ <<t, r>> \in deaf
              /\ proc'[t][r] = proc[t][r] \/ (Live(t, r) /\ proc'[t][r] \in {"dead", "survivor"})
         /\ running' = FALSE /\ held' = [t \in Tags |-> 0]
         /\ manual_stop' \in BOOLEAN /\ (running => manual_stop' = TRUE)
         /\ run_id' \in run_id .. MaxRun
<1>1. CASE Stopped
  <2>1. \A t \in Tags : held[t] = 0
    BY <1>1 DEF HeldInv, Stopped
  <2>2. held = [t \in Tags |-> 0]
    BY <2>1 DEF GTypeOK
  <2>3. \A t \in Tags, r \in Runs : proc[t][r] = "alive" => t = "injector" /\ <<t, r>> \in deaf
    BY <2>1, GuiAssumption DEF NoForgottenChild, Runs
  <2>4. UNCHANGED <<runVars, proc>>
    BY <1>1 DEF DoStop
  <2>5. run_id \in run_id .. MaxRun
    BY GuiAssumption DEF GTypeOK
  <2>6. QED
    BY <1>1, <2>2, <2>3, <2>4, <2>5 DEF runVars, GTypeOK, Stopped
<1>2. CASE ~Stopped
  <2>1. manual_stop' = TRUE /\ running' = FALSE /\ run_id' = run_id + 1
        /\ Terminate(Tags) /\ held' = [t \in Tags |-> 0]
    BY <1>2 DEF DoStop
  <2>2. run_id' \in run_id .. MaxRun
    BY <2>1, GuiAssumption DEF GTypeOK
  <2>3. proc' \in [Tags -> [Runs -> Status]]
        /\ \A t \in Tags, r \in Runs :
              IF held[t] = r /\ Live(t, r)
                THEN proc'[t][r] \in {"dead", "survivor"}
                ELSE proc'[t][r] = proc[t][r]
    BY <2>1, TerminateEffect
  <2>4. \A t \in Tags, r \in Runs : proc'[t][r] = "alive" => t = "injector" /\ <<t, r>> \in deaf
    BY <2>3 DEF NoForgottenChild, Live
  <2>5. QED
    BY <2>1, <2>2, <2>3, <2>4
<1>3. QED
  BY <1>1, <1>2

\* Taking messages out or leaving them keeps what depends on the queue.
LEMMA FewerMessages ==
  ASSUME msg_q' \in SUBSET msg_q
  PROVE  \A kind \in {"stats", "exit", "busy"} : Queued(kind)' \in SUBSET Queued(kind)
BY DEF Queued

\* A message of another kind leaves the notices of the workers alone.
LEMMA OtherMessage ==
  ASSUME NEW m, m.kind # "busy", msg_q' = msg_q \cup {m}
  PROVE  Queued("busy")' = Queued("busy")
BY DEF Queued

LEMMA JobsFinite == GTypeOK => IsFiniteSet(jobs) /\ Cardinality(jobs) \in Nat
<1>1. IsFiniteSet(1 .. MaxBusy)
  BY GuiAssumption, FS_Interval
<1>2. QED
  BY <1>1, FS_Subset, FS_CardinalityType DEF GTypeOK, Workers

-----------------------------------------------------------------------------
LEMMA GuiInitial == GInit => GInv
<1> SUFFICES ASSUME GInit PROVE GInv
  OBVIOUS
<1>1. GTypeOK
  <2>1. held \in [Tags -> 0 .. MaxRun] /\ failures \in [Runs -> 0 .. 3]
    BY GuiAssumption DEF GInit
  <2>2. proc \in [Tags -> [Runs -> Status]]
    BY DEF GInit, Status
  <2>3. run_id \in 0 .. MaxRun /\ shown \in 0 .. MaxRun /\ busy_jobs \in 0 .. MaxBusy
    BY GuiAssumption DEF GInit
  <2>4. QED
    BY <2>1, <2>2, <2>3 DEF GInit, GTypeOK
<1>2. HeldInv /\ ProcInv /\ DeafInv /\ ExitInv /\ NoForgottenChild /\ StatsOfThisRun
  BY DEF GInit, HeldInv, ProcInv, DeafInv, ExitInv, NoForgottenChild, StatsOfThisRun, Live, Queued, Tags
<1>3. SpinnerInv
  <2>1. jobs = {} /\ Queued("busy") = {} /\ busy_jobs = 0
    BY DEF GInit, Queued
  <2>2. QED
    BY <2>1, FS_EmptySet DEF SpinnerInv, BusyWhileWorking
<1>4. QED
  BY <1>1, <1>2, <1>3 DEF GInv

-----------------------------------------------------------------------------
(* The children: held, ended, reported. *)

\* All but the spinner and the readers that failed.
ChildInv == GTypeOK /\ HeldInv /\ ProcInv /\ ExitInv /\ NoForgottenChild /\ StatsOfThisRun

LEMMA ChildStep == GInv /\ [GNext]_gvars => ChildInv'
<1> SUFFICES ASSUME GInv, [GNext]_gvars PROVE ChildInv'
  OBVIOUS
<1> USE DEF GInv
<1>1. ASSUME NEW t \in Tags, NEW r \in Runs, ChildDies(t, r) PROVE ChildInv'
  <2>1. proc' \in [Tags -> [Runs -> Status]]
        /\ \A u \in Tags, q \in Runs :
             proc'[u][q] = proc[u][q] \/ (Live(u, q) /\ proc'[u][q] = "dead")
    BY <1>1 DEF ChildDies, GTypeOK, Status
  <2>2. GTypeOK'
    BY <1>1, <2>1 DEF ChildDies, GTypeOK, runVars, queueVars, jobVars
  <2>3. HeldInv' /\ NoForgottenChild' /\ StatsOfThisRun'
    BY <1>1, <2>1 DEF ChildDies, HeldInv, NoForgottenChild, StatsOfThisRun, runVars, queueVars
  <2>4. ProcInv'
    BY <1>1, <2>1 DEF ChildDies, ProcInv, Live, runVars, Tags
  <2>5. ExitInv'
    BY <1>1, <2>1, QueuedTypes DEF ChildDies, ExitInv, ReaderOver, Live, queueVars, Queued, GTypeOK, Tags
  <2>6. QED
    BY <2>2, <2>3, <2>4, <2>5 DEF ChildInv
<1>2. ASSUME NEW r \in Runs, ReadStats(r) PROVE ChildInv'
  <2>1. msg_q' \in SUBSET Messages
    BY <1>2, MessageTypes DEF ReadStats, GTypeOK
  <2>2. GTypeOK' /\ HeldInv' /\ NoForgottenChild' /\ StatsOfThisRun' /\ ProcInv'
    BY <1>2, <2>1 DEF ReadStats, GTypeOK, HeldInv, NoForgottenChild, StatsOfThisRun, ProcInv, Live,
       runVars, childVars, jobVars
  <2>3. Queued("exit")' = Queued("exit")
    BY <1>2 DEF ReadStats, Queued
  <2>4. ExitInv'
    BY <1>2, <2>3 DEF ReadStats, ExitInv, ReaderOver, childVars
  <2>5. QED
    BY <2>2, <2>4 DEF ChildInv
<1>3. ASSUME NEW t \in Tags, NEW r \in Runs, ReadEnd(t, r) PROVE ChildInv'
  <2>1. proc' \in [Tags -> [Runs -> Status]] /\ proc'[t][r] = "reported"
        /\ \A u \in Tags, q \in Runs :
             proc'[u][q] = proc[u][q] \/ (proc[u][q] = "dead" /\ proc'[u][q] = "reported")
    BY <1>3 DEF ReadEnd, GTypeOK, Status
  <2>2. msg_q' \in SUBSET Messages
    BY <1>3, MessageTypes DEF ReadEnd, ExitOf, GTypeOK
  <2>3. GTypeOK'
    BY <1>3, <2>1, <2>2 DEF ReadEnd, GTypeOK, runVars, jobVars
  <2>4. HeldInv' /\ NoForgottenChild' /\ StatsOfThisRun'
    BY <1>3, <2>1 DEF ReadEnd, HeldInv, NoForgottenChild, StatsOfThisRun, runVars
  <2>5. ProcInv'
    BY <1>3, <2>1 DEF ReadEnd, ProcInv, Live, runVars, Tags
  <2>6. Queued("exit")' = Queued("exit") \cup {[kind |-> "exit", tag |-> t, run |-> r]}
    BY <1>3 DEF ReadEnd, ExitOf, Queued
  <2>7. ExitInv'
    BY <1>3, <2>1, <2>6, QueuedTypes DEF ReadEnd, ExitInv, ReaderOver, GTypeOK, Tags
  <2>8. QED
    BY <2>3, <2>4, <2>5, <2>7 DEF ChildInv
<1>18. ASSUME NEW t \in Tags, NEW r \in Runs, ReaderFails(t, r) PROVE ChildInv'
  <2>1. proc[t][r] # "none" /\ deaf' = deaf \cup {<<t, r>>} /\ UNCHANGED <<proc, failures, due>>
        /\ UNCHANGED <<gui, runVars, shown, jobVars>>
    BY <1>18 DEF ReaderFails, Reading
  <2>2. msg_q' \in SUBSET Messages /\ deaf' \in SUBSET (Tags \X Runs)
    BY <1>18, <2>1, MessageTypes DEF ReaderFails, ExitOf, GTypeOK
  <2>3. GTypeOK' /\ HeldInv' /\ NoForgottenChild' /\ StatsOfThisRun'
    BY <2>1, <2>2 DEF GTypeOK, HeldInv, NoForgottenChild, StatsOfThisRun, runVars, jobVars
  <2>4. ProcInv'
    BY <2>1 DEF ProcInv, Live, runVars
  <2>5. Queued("exit")' = Queued("exit") \cup {[kind |-> "exit", tag |-> t, run |-> r]}
    BY <1>18 DEF ReaderFails, ExitOf, Queued
  <2>6. ExitInv'
    BY <2>1, <2>5 DEF ExitInv, ReaderOver
  <2>7. QED
    BY <2>3, <2>4, <2>6 DEF ChildInv
<1>4. ASSUME NEW r \in Runs, PipeBroken(r) PROVE ChildInv'
  <2>1. failures[r] \in 0 .. 2 /\ failures' = [failures EXCEPT ![r] = @ + 1]
    BY <1>4 DEF PipeBroken, ProcInv, GTypeOK
  <2>2. failures' \in [Runs -> 0 .. 3]
    BY <2>1 DEF GTypeOK
  <2>3. proc' \in [Tags -> [Runs -> Status]]
        /\ \A u \in Tags, q \in Runs :
             proc'[u][q] = proc[u][q] \/ (Live(u, q) /\ proc'[u][q] = "dead")
    BY <1>4 DEF PipeBroken, GTypeOK, Status, Tags
  <2>4. GTypeOK'
    BY <1>4, <2>2, <2>3 DEF PipeBroken, GTypeOK, runVars, queueVars, jobVars
  <2>5. HeldInv' /\ NoForgottenChild' /\ StatsOfThisRun'
    BY <1>4, <2>3 DEF PipeBroken, HeldInv, NoForgottenChild, StatsOfThisRun, runVars, queueVars
  <2>6. ProcInv'
    <3>1. failures'[r] = failures[r] + 1 /\ \A q \in Runs : q # r => failures'[q] = failures[q]
      BY <2>1 DEF GTypeOK
    <3>2. proc'["injector"][r] = IF failures'[r] >= 3 THEN "dead" ELSE proc["injector"][r]
      BY <1>4 DEF PipeBroken, GTypeOK, Tags
    <3>3. \A q \in Runs : Live("injector", q)' => failures'[q] <= 2
      BY <2>1, <2>3, <3>1, <3>2 DEF ProcInv, Live, Tags
    <3>4. \A q \in Runs : proc'["injector"][q] = "none" => failures'[q] = 0
      BY <1>4, <2>3, <3>1, <3>2 DEF ProcInv, PipeBroken, Live, Tags
    <3>5. \A q \in Runs : q > run_id' => \A t \in Tags : proc'[t][q] = "none"
      BY <1>4, <2>3 DEF PipeBroken, ProcInv, Live, runVars
    <3>6. QED
      BY <3>3, <3>4, <3>5 DEF ProcInv
  <2>7. ExitInv'
    BY <1>4, <2>3, QueuedTypes DEF PipeBroken, ExitInv, ReaderOver, Live, queueVars, Queued, GTypeOK, Tags
  <2>8. QED
    BY <2>4, <2>5, <2>6, <2>7 DEF ChildInv
<1>5. CASE StartRefused
  <2>1. Queued("exit")' = {}
    BY <1>5 DEF StartRefused, Queued
  <2>2. QED
    BY <1>5, <2>1 DEF StartRefused, ChildInv, GTypeOK, HeldInv, NoForgottenChild, StatsOfThisRun, ProcInv,
       ExitInv, ReaderOver, Live, runVars, childVars, jobVars
<1>6. CASE SpawnFails
  <2>1. Queued("exit")' = {}
    BY <1>6 DEF SpawnFails, Queued
  <2>2. run_id' \in 0 .. MaxRun /\ run_id' > run_id
    BY <1>6, GuiAssumption DEF SpawnFails, GTypeOK
  <2>3. GTypeOK' /\ HeldInv' /\ NoForgottenChild' /\ StatsOfThisRun' /\ ExitInv'
    BY <1>6, <2>1, <2>2 DEF SpawnFails, GTypeOK, HeldInv, NoForgottenChild, StatsOfThisRun, ExitInv, ReaderOver,
       childVars, jobVars
  <2>4. ProcInv'
    BY <1>6, <2>2 DEF SpawnFails, ProcInv, Live, childVars, GTypeOK, Runs
  <2>5. QED
    BY <2>3, <2>4 DEF ChildInv
<1>7. CASE Start
  <2> DEFINE r == run_id + 1
  <2>1. r \in Runs /\ run_id' = r /\ running' = TRUE /\ manual_stop' = FALSE /\ msg_q' = {} /\ shown' = 0
    BY <1>7, GuiAssumption DEF Start, StartFlags, GTypeOK, Runs
  <2>2. \A t \in Tags : held[t] = 0
    BY <1>7 DEF Start, HeldInv
  <2>3. PICK tags \in {{"injector"}, Tags} :
          /\ held' = [t \in Tags |-> IF t \in tags THEN r ELSE held[t]]
          /\ proc' = [t \in Tags |-> IF t \in tags THEN [proc[t] EXCEPT ![r] = "alive"] ELSE proc[t]]
    BY <1>7 DEF Start
  <2>4. "injector" \in tags /\ tags \in SUBSET Tags
    BY DEF Tags
  <2>5. /\ proc' \in [Tags -> [Runs -> Status]]
        /\ \A t \in Tags, q \in Runs :
             proc'[t][q] = IF t \in tags /\ q = r THEN "alive" ELSE proc[t][q]
    <3>1. \A t \in Tags : proc[t] \in [Runs -> Status] /\ [proc[t] EXCEPT ![r] = "alive"] \in [Runs -> Status]
      BY DEF GTypeOK, Status
    <3>2. QED
      BY <2>3, <3>1
  <2>6. held' \in [Tags -> 0 .. MaxRun] /\ \A t \in tags : held'[t] = r
    BY <2>1, <2>3, <2>4, GuiAssumption DEF Runs, GTypeOK
  <2>7. GTypeOK'
    <3>1. UNCHANGED <<gui, failures, deaf, due, jobs, busy_jobs>>
      BY <1>7 DEF Start, jobVars
    <3>2. run_id' \in 0 .. MaxRun /\ shown' \in 0 .. MaxRun /\ msg_q' \in SUBSET Messages
      BY <2>1, GuiAssumption DEF Runs
    <3>3. QED
      BY <2>1, <2>5, <2>6, <3>1, <3>2 DEF GTypeOK
  <2>8. HeldInv' /\ StatsOfThisRun'
    BY <2>1, <2>4, <2>6, GuiAssumption DEF HeldInv, StatsOfThisRun, Runs
  <2>9. NoForgottenChild'
    <3>1. \A t \in Tags, q \in Runs : proc[t][q] = "alive" => t = "injector" /\ <<t, q>> \in deaf
      BY <2>2, GuiAssumption DEF NoForgottenChild, Runs
    <3>2. deaf' = deaf
      BY <1>7 DEF Start
    <3>3. QED
      BY <2>5, <2>6, <3>1, <3>2 DEF NoForgottenChild
  <2>10. ProcInv'
    <3>1. failures' = failures /\ deaf' = deaf /\ run_id \in 0 .. MaxRun
      BY <1>7 DEF Start, GTypeOK
    <3>2. failures[r] = 0
      BY <2>1, <3>1, GuiAssumption DEF ProcInv, Runs, Tags
    <3>3. \A q \in Runs : q > run_id' => \A t \in Tags : proc'[t][q] = "none"
      BY <2>1, <2>5, <3>1, GuiAssumption DEF ProcInv, Runs
    <3>4. QED
      BY <2>1, <2>5, <3>1, <3>2, <3>3 DEF ProcInv, Live, Tags
  <2>11. ExitInv'
    <3>1. Queued("exit")' = {}
      BY <2>1 DEF Queued
    <3>2. \A q \in due : q # r /\ q \in Runs
      <4>1. \A q \in Runs : ReaderOver("injector", q) => q # r
        BY <2>1, GuiAssumption DEF ReaderOver, ProcInv, DeafInv, GTypeOK, Runs, Tags
      <4>2. QED
        BY <4>1 DEF ExitInv, GTypeOK
    <3>3. QED
      BY <1>7, <2>5, <3>1, <3>2 DEF Start, ExitInv, ReaderOver, Tags
  <2>12. QED
    BY <2>7, <2>8, <2>9, <2>10, <2>11 DEF ChildInv
<1>8. ASSUME DoStop, gui # "gone", run_id < MaxRun, gui' \in {"open", "asking", "gone"},
             msg_q' \in SUBSET msg_q, due' \in SUBSET due, jobs' \in SUBSET jobs,
             shown' \in {0, shown}, busy_jobs' \in {0, busy_jobs}, UNCHANGED <<failures, deaf>>
      PROVE  ChildInv'
  <2>1. /\ proc' \in [Tags -> [Runs -> Status]]
        /\ \A t \in Tags, r \in Runs :
              /\ proc'[t][r] = "alive" => t = "injector" /\ <<t, r>> \in deaf
              /\ proc'[t][r] = proc[t][r] \/ (Live(t, r) /\ proc'[t][r] \in {"dead", "survivor"})
        /\ running' = FALSE /\ held' = [t \in Tags |-> 0]
        /\ manual_stop' \in BOOLEAN
        /\ run_id' \in run_id .. MaxRun
    BY <1>8, StopEffect
  <2>2. run_id' \in 0 .. MaxRun /\ run_id' >= run_id
    BY <2>1, GuiAssumption DEF GTypeOK
  <2>3. held' \in [Tags -> 0 .. MaxRun] /\ jobs' \in SUBSET Workers /\ msg_q' \in SUBSET Messages
    BY <1>8, <2>1, GuiAssumption DEF GTypeOK
  <2>4. GTypeOK'
    <3>1. due' \in SUBSET Runs /\ shown' \in 0 .. MaxRun /\ busy_jobs' \in 0 .. MaxBusy
      BY <1>8, GuiAssumption DEF GTypeOK
    <3>2. QED
      BY <1>8, <2>1, <2>2, <2>3, <3>1 DEF GTypeOK
  <2>5. HeldInv' /\ NoForgottenChild' /\ StatsOfThisRun'
    BY <1>8, <2>1 DEF HeldInv, NoForgottenChild, StatsOfThisRun
  <2>6. ProcInv'
    <3>1. /\ failures' = failures /\ run_id \in 0 .. MaxRun
          /\ \A t \in Tags, r \in Runs :
               proc'[t][r] = proc[t][r] \/ (Live(t, r) /\ proc'[t][r] \in {"dead", "survivor"})
      BY <1>8, <2>1 DEF GTypeOK
    <3>2. QED
      BY <2>2, <3>1, GuiAssumption DEF ProcInv, Live, Tags, Runs
  <2>7. ExitInv'
    <3>1. Queued("exit")' \in SUBSET Queued("exit")
      BY <1>8, FewerMessages
    <3>2. \A t \in Tags, r \in Runs : ReaderOver(t, r) => ReaderOver(t, r)'
      BY <1>8, <2>1 DEF ReaderOver, Live
    <3>3. \A m \in Queued("exit") : m.run \in Runs /\ m.tag \in Tags
      BY QueuedTypes DEF GTypeOK
    <3>4. QED
      BY <1>8, <3>1, <3>2, <3>3 DEF ExitInv, GTypeOK, Tags
  <2>8. QED
    BY <2>4, <2>5, <2>6, <2>7 DEF ChildInv
<1>9. CASE Stop
  BY <1>9, <1>8 DEF Stop, jobVars
<1>10. CASE Poll
  <2>1. msg_q' = {} /\ Queued("exit")' = {}
    BY <1>10 DEF Poll, Queued
  <2>2. shown' \in 0 .. MaxRun /\ (running /\ shown' # 0 => shown' = run_id)
    <3>1. CASE running /\ \E m \in Queued("stats") : OfThisRun(m)
      <4>1. shown' = run_id
        BY <1>10, <3>1 DEF Poll, OfThisRun
      <4>2. QED
        BY <4>1 DEF GTypeOK
    <3>2. CASE ~(running /\ \E m \in Queued("stats") : OfThisRun(m))
      <4>1. shown' = shown
        BY <1>10, <3>2 DEF Poll
      <4>2. QED
        BY <4>1 DEF GTypeOK, StatsOfThisRun
    <3>3. QED
      BY <3>1, <3>2
  <2>3. \A r \in due' : r \in Runs /\ ReaderOver("injector", r)
    <3>1. due' \in SUBSET (due \cup {m.run : m \in {n \in Queued("exit") : n.tag = "injector" /\ OfThisRun(n)}})
      BY <1>10 DEF Poll
    <3>2. \A m \in Queued("exit") : m.run \in Runs
      BY QueuedTypes DEF GTypeOK
    <3>3. QED
      BY <3>1, <3>2 DEF ExitInv, GTypeOK
  <2>4. busy_jobs' \in 0 .. MaxBusy
    <3>1. Cardinality(Queued("busy")) \in Nat
      BY FS_CardinalityType DEF SpinnerInv
    <3>2. QED
      BY <1>10, <3>1, GuiAssumption DEF Poll, Less, GTypeOK
  <2>5. GTypeOK'
    BY <1>10, <2>1, <2>2, <2>3, <2>4 DEF Poll, GTypeOK, runVars, childVars
  <2>6. QED
    BY <1>10, <2>1, <2>2, <2>3, <2>5 DEF Poll, ChildInv, HeldInv, NoForgottenChild, StatsOfThisRun,
       ProcInv, ExitInv, ReaderOver, Live, runVars, childVars
<1>11. ASSUME NEW r \in Runs, OnInjectorExit(r) PROVE ChildInv'
  <2>1. Queued("exit")' = Queued("exit") /\ \A m \in Queued("exit") : m.run \in Runs /\ m.tag \in Tags
    BY <1>11, QueuedTypes DEF OnInjectorExit, Queued, GTypeOK
  <2>2. CASE ExitMeant(r)
    <3>1. Terminate({"xray"}) /\ held' = [t \in Tags |-> 0] /\ running' = FALSE
      BY <1>11, <2>2 DEF OnInjectorExit
    <3>2. /\ proc' \in [Tags -> [Runs -> Status]]
          /\ \A t \in Tags, q \in Runs :
                IF t \in {"xray"} /\ held[t] = q /\ Live(t, q)
                  THEN proc'[t][q] \in {"dead", "survivor"}
                  ELSE proc'[t][q] = proc[t][q]
      <4>1. {"xray"} \in SUBSET Tags
        BY DEF Tags
      <4>2. QED
        BY <3>1, <4>1, TerminateEffect
    <3>3. held["injector"] = r /\ ReaderOver("injector", r) /\ deaf' = deaf
      BY <1>11, <2>2 DEF OnInjectorExit, ExitMeant, HeldInv, ExitInv
    <3>4. NoForgottenChild'
      BY <3>2, <3>3 DEF NoForgottenChild, ReaderOver, Live, Tags
    <3>5. GTypeOK'
      <4>1. held' \in [Tags -> 0 .. MaxRun] /\ due' \in SUBSET Runs
        BY <1>11, <3>1, GuiAssumption DEF OnInjectorExit, GTypeOK
      <4>2. QED
        BY <1>11, <3>1, <3>2, <4>1 DEF OnInjectorExit, GTypeOK, jobVars
    <3>6. HeldInv' /\ StatsOfThisRun'
      BY <3>1 DEF HeldInv, StatsOfThisRun
    <3>7. ProcInv' /\ ExitInv'
      BY <1>11, <2>1, <3>2 DEF OnInjectorExit, ProcInv, ExitInv, ReaderOver, Live, Tags, GTypeOK
    <3>8. QED
      BY <3>4, <3>5, <3>6, <3>7 DEF ChildInv
  <2>3. CASE ~ExitMeant(r)
    BY <1>11, <2>1, <2>3 DEF OnInjectorExit, ChildInv, GTypeOK, HeldInv, NoForgottenChild, StatsOfThisRun,
       ProcInv, ExitInv, ReaderOver, Live, jobVars
  <2>4. QED
    BY <2>2, <2>3
<1>12. CASE RunJob
  <2>1. jobs' \in SUBSET Workers /\ busy_jobs' \in 0 .. MaxBusy
    BY <1>12, GuiAssumption DEF RunJob, GTypeOK
  <2>2. QED
    BY <1>12, <2>1 DEF RunJob, ChildInv, GTypeOK, HeldInv, NoForgottenChild, StatsOfThisRun,
       ProcInv, ExitInv, ReaderOver, Live, Queued, runVars, childVars, queueVars
<1>13. ASSUME NEW w \in Workers, JobEnds(w) PROVE ChildInv'
  <2>1. msg_q' \in SUBSET Messages /\ jobs' \in SUBSET Workers
    BY <1>13, MessageTypes DEF JobEnds, GTypeOK
  <2>2. Queued("exit")' = Queued("exit")
    BY <1>13 DEF JobEnds, Queued
  <2>3. QED
    BY <1>13, <2>1, <2>2 DEF JobEnds, ChildInv, GTypeOK, HeldInv, NoForgottenChild, StatsOfThisRun,
       ProcInv, ExitInv, ReaderOver, Live, runVars, childVars
<1>14. CASE AskToClose \/ AnswerNo
  BY <1>14 DEF AskToClose, AnswerNo, ChildInv, GTypeOK, HeldInv, NoForgottenChild, StatsOfThisRun,
     ProcInv, ExitInv, ReaderOver, Live, Queued, runVars, childVars, queueVars, jobVars
<1>15. CASE Close
  BY <1>15, <1>8 DEF Close, Forgotten
<1>16. CASE GuiDies
  <2>1. PICK pinned \in SUBSET {c \in Tags \X Runs : Live(c[1], c[2])} :
          proc' = [t \in Tags |-> [r \in Runs |-> IF <<t, r>> \in pinned THEN "dead" ELSE proc[t][r]]]
    BY <1>16 DEF GuiDies
  <2>2. proc' \in [Tags -> [Runs -> Status]]
        /\ \A t \in Tags, q \in Runs :
             proc'[t][q] = proc[t][q] \/ (Live(t, q) /\ proc'[t][q] = "dead")
    BY <2>1 DEF GTypeOK, Status
  <2>3. GTypeOK'
    <3>1. shown' \in 0 .. MaxRun /\ busy_jobs' \in 0 .. MaxBusy /\ UNCHANGED <<manual_stop, run_id, held, failures, deaf>>
      BY <1>16, GuiAssumption DEF GuiDies, Forgotten
    <3>2. gui' = "gone" /\ running' = FALSE /\ msg_q' = {} /\ due' = {} /\ jobs' = {}
      BY <1>16 DEF GuiDies, Forgotten
    <3>3. QED
      BY <2>2, <3>1, <3>2 DEF GTypeOK
  <2>4. HeldInv' /\ NoForgottenChild' /\ StatsOfThisRun'
    BY <1>16, <2>2 DEF GuiDies, Forgotten, HeldInv, NoForgottenChild, StatsOfThisRun
  <2>5. ProcInv'
    <3>1. UNCHANGED <<run_id, failures, deaf>>
      BY <1>16 DEF GuiDies
    <3>2. QED
      BY <2>2, <3>1 DEF ProcInv, Live, Tags
  <2>6. ExitInv'
    BY <1>16 DEF GuiDies, Forgotten, ExitInv, Queued
  <2>7. QED
    BY <2>3, <2>4, <2>5, <2>6 DEF ChildInv
<1>17. CASE UNCHANGED gvars
  BY <1>17 DEF gvars, ChildInv, GTypeOK, HeldInv, NoForgottenChild, StatsOfThisRun,
     ProcInv, ExitInv, ReaderOver, Live, Queued, runVars, childVars, queueVars, jobVars
<1>19. QED
  BY <1>1, <1>2, <1>3, <1>4, <1>5, <1>6, <1>7, <1>9, <1>10, <1>11, <1>12, <1>13, <1>14, <1>15, <1>16, <1>17,
     <1>18
     DEF GNext

LEMMA DeafStep == GInv /\ [GNext]_gvars => DeafInv'
<1> SUFFICES ASSUME GInv, [GNext]_gvars PROVE DeafInv'
  OBVIOUS
<1> USE DEF GInv
<1>1. ASSUME run_id' >= run_id, run_id' \in Int, deaf' = deaf PROVE DeafInv'
  BY <1>1, GuiAssumption DEF DeafInv, GTypeOK, Runs
<1>2. run_id \in Int
  BY DEF GTypeOK
<1>3. ASSUME NEW t \in Tags, NEW r \in Runs, ChildDies(t, r) \/ ReadEnd(t, r) PROVE DeafInv'
  BY <1>1, <1>2, <1>3 DEF ChildDies, ReadEnd, runVars
<1>4. ASSUME NEW t \in Tags, NEW r \in Runs, ReaderFails(t, r) PROVE DeafInv'
  <2>1. proc[t][r] # "none" /\ deaf' = deaf \cup {<<t, r>>} /\ run_id' = run_id
    BY <1>4 DEF ReaderFails, Reading, runVars
  <2>2. r <= run_id
    <3>1. run_id \in Int /\ r \in Int /\ ~(r > run_id)
      BY <1>2, <2>1, GuiAssumption DEF ProcInv, Runs
    <3>2. QED
      BY <3>1
  <2>3. QED
    BY <2>1, <2>2 DEF DeafInv
<1>5. ASSUME NEW r \in Runs, ReadStats(r) \/ PipeBroken(r) \/ OnInjectorExit(r) PROVE DeafInv'
  BY <1>1, <1>2, <1>5 DEF ReadStats, PipeBroken, OnInjectorExit, runVars, childVars
<1>6. CASE StartRefused \/ SpawnFails \/ Start \/ Poll \/ RunJob \/ AskToClose \/ AnswerNo \/ UNCHANGED gvars
  BY <1>1, <1>2, <1>6 DEF StartRefused, SpawnFails, Start, Poll, RunJob, AskToClose, AnswerNo, gvars, runVars,
     childVars
<1>7. CASE Stop \/ Close
  <2>1. DoStop /\ gui # "gone" /\ run_id < MaxRun /\ deaf' = deaf
    BY <1>7 DEF Stop, Close
  <2>2. run_id' \in run_id .. MaxRun
    BY <2>1, StopEffect
  <2>3. QED
    BY <1>1, <1>2, <2>1, <2>2, GuiAssumption
<1>8. CASE GuiDies
  BY <1>1, <1>2, <1>8 DEF GuiDies
<1>9. ASSUME NEW w \in Workers, JobEnds(w) PROVE DeafInv'
  BY <1>1, <1>2, <1>9 DEF JobEnds, runVars, childVars
<1>10. QED
  BY <1>3, <1>4, <1>5, <1>6, <1>7, <1>8, <1>9 DEF GNext

-----------------------------------------------------------------------------
(* The spinner. *)

LEMMA SpinnerStep == GInv /\ [GNext]_gvars => SpinnerInv'
<1> SUFFICES ASSUME GInv, [GNext]_gvars PROVE SpinnerInv'
  OBVIOUS
<1> USE DEF GInv
<1>1. /\ IsFiniteSet(jobs) /\ Cardinality(jobs) \in Nat
      /\ IsFiniteSet(Queued("busy")) /\ Cardinality(Queued("busy")) \in Nat
      /\ Cardinality(jobs) + Cardinality(Queued("busy")) <= busy_jobs /\ busy_jobs \in Nat
  BY JobsFinite, FS_CardinalityType, GuiAssumption DEF SpinnerInv, BusyWhileWorking, GTypeOK
\* Fewer notices.
<1>2. ASSUME UNCHANGED <<busy_jobs, jobs>>, msg_q' = {} \/ msg_q' = msg_q
      PROVE  SpinnerInv'
  <2>1. /\ Queued("busy")' = {} \/ Queued("busy")' = Queued("busy")
        /\ IsFiniteSet(Queued("busy")') /\ Cardinality(Queued("busy")') <= Cardinality(Queued("busy"))
        /\ Cardinality(Queued("busy")') \in Nat
    <3>1. Queued("busy")' = {} \/ Queued("busy")' = Queued("busy")
      BY <1>2 DEF Queued
    <3>2. CASE Queued("busy")' = {}
      BY <1>1, <3>2, FS_EmptySet
    <3>3. CASE Queued("busy")' = Queued("busy")
      BY <1>1, <3>3
    <3>4. QED
      BY <3>1, <3>2, <3>3
  <2>2. Cardinality(jobs') + Cardinality(Queued("busy")') <= busy_jobs'
    BY <1>1, <1>2, <2>1
  <2>3. QED
    BY <2>1, <2>2 DEF SpinnerInv, BusyWhileWorking
<1>3. ASSUME UNCHANGED <<busy_jobs, jobs>>, Queued("busy")' = Queued("busy")
      PROVE  SpinnerInv'
  BY <1>3 DEF SpinnerInv, BusyWhileWorking
<1>4. ASSUME NEW t \in Tags, NEW r \in Runs, ChildDies(t, r) \/ ReadEnd(t, r) \/ ReaderFails(t, r)
      PROVE  SpinnerInv'
  <2>1. CASE ChildDies(t, r)
    BY <2>1, <1>2 DEF ChildDies, queueVars, jobVars
  <2>2. CASE ReadEnd(t, r)
    BY <2>2, <1>3, OtherMessage DEF ReadEnd, ExitOf, jobVars
  <2>3. CASE ReaderFails(t, r)
    BY <2>3, <1>3, OtherMessage DEF ReaderFails, ExitOf, jobVars
  <2>4. QED
    BY <1>4, <2>1, <2>2, <2>3
<1>5. ASSUME NEW r \in Runs, ReadStats(r) \/ PipeBroken(r) \/ OnInjectorExit(r) PROVE SpinnerInv'
  <2>1. CASE ReadStats(r)
    BY <2>1, <1>3, OtherMessage DEF ReadStats, jobVars
  <2>2. CASE PipeBroken(r)
    BY <2>2, <1>2 DEF PipeBroken, queueVars, jobVars
  <2>3. CASE OnInjectorExit(r)
    BY <2>3, <1>2 DEF OnInjectorExit, jobVars
  <2>4. QED
    BY <1>5, <2>1, <2>2, <2>3
<1>6. CASE StartRefused \/ SpawnFails \/ Start \/ AskToClose \/ AnswerNo
  BY <1>6, <1>2 DEF StartRefused, SpawnFails, Start, AskToClose, AnswerNo, queueVars, jobVars
<1>7. CASE Stop
  BY <1>7, <1>2 DEF Stop, jobVars
<1>8. CASE Close \/ GuiDies
  <2>1. jobs' = {} /\ Queued("busy")' = {} /\ busy_jobs' = 0
    BY <1>8 DEF Close, GuiDies, Forgotten, Queued
  <2>2. QED
    BY <2>1, FS_EmptySet DEF SpinnerInv, BusyWhileWorking
<1>9. CASE Poll
  <2>1. Queued("busy")' = {} /\ UNCHANGED jobs
    BY <1>9 DEF Poll, Queued
  <2>2. busy_jobs' = busy_jobs - Cardinality(Queued("busy"))
    BY <1>1, <1>9 DEF Poll, Less
  <2>3. Cardinality(jobs) + 0 <= busy_jobs'
    BY <1>1, <2>2
  <2>4. IsFiniteSet(Queued("busy")') /\ Cardinality(Queued("busy")') = 0
    BY <2>1, FS_EmptySet
  <2>5. QED
    BY <2>1, <2>3, <2>4 DEF SpinnerInv, BusyWhileWorking
<1>10. CASE RunJob
  <2>1. PICK w \in Workers : jobs' = jobs \cup {w} /\ w \notin jobs
    BY <1>10 DEF RunJob
  <2>2. Cardinality(jobs') = Cardinality(jobs) + 1
    BY <1>1, <2>1, FS_AddElement
  <2>3. Queued("busy")' = Queued("busy") /\ busy_jobs' = busy_jobs + 1
    BY <1>10 DEF RunJob, Queued, queueVars
  <2>4. Cardinality(jobs') + Cardinality(Queued("busy")') <= busy_jobs'
    BY <1>1, <2>2, <2>3
  <2>5. QED
    BY <1>1, <2>3, <2>4 DEF SpinnerInv, BusyWhileWorking
<1>11. ASSUME NEW w \in Workers, JobEnds(w) PROVE SpinnerInv'
  <2> DEFINE m == [kind |-> "busy", worker |-> w]
  <2>1. w \in jobs /\ jobs' = jobs \ {w} /\ Queued("busy")' = Queued("busy") \cup {m} /\ UNCHANGED busy_jobs
    BY <1>11 DEF JobEnds, Queued
  <2> HIDE DEF m
  <2>2. Cardinality(jobs') = Cardinality(jobs) - 1
    BY <1>1, <2>1, FS_RemoveElement
  <2>3. IsFiniteSet(Queued("busy")') /\ Cardinality(Queued("busy")') \in {Cardinality(Queued("busy")), Cardinality(Queued("busy")) + 1}
    BY <1>1, <2>1, FS_AddElement
  <2>4. Cardinality(jobs') + Cardinality(Queued("busy")') <= busy_jobs'
    BY <1>1, <2>1, <2>2, <2>3
  <2>5. QED
    BY <2>3, <2>4 DEF SpinnerInv, BusyWhileWorking
<1>12. CASE UNCHANGED gvars
  BY <1>12, <1>2 DEF gvars, queueVars, jobVars
<1>13. QED
  BY <1>4, <1>5, <1>6, <1>7, <1>8, <1>9, <1>10, <1>11, <1>12 DEF GNext

-----------------------------------------------------------------------------
LEMMA GuiInvariance == GSpec => []GInv
<1>1. GInv /\ [GNext]_gvars => GInv'
  BY ChildStep, DeafStep, SpinnerStep DEF ChildInv, GInv
<1>2. QED
  BY GuiInitial, <1>1, PTL DEF GSpec

\* Every variable keeps its type.
THEOREM GuiTyped == GSpec => []GTypeOK
BY GuiInvariance, PTL DEF GInv

\* Over any number of runs no handle of a live child is dropped without an
\* attempt to end the child, but that of a backend whose reader has failed.
THEOREM ChildrenAccounted == GSpec => []NoForgottenChild
BY GuiInvariance, PTL DEF GInv

\* Numbers of an earlier backend are never shown for a later one.
THEOREM OwnStats == GSpec => []StatsOfThisRun
BY GuiInvariance, PTL DEF GInv

\* With any number of background workers the spinner turns while one works.
THEOREM SpinnerTurns == GSpec => []BusyWhileWorking
BY GuiInvariance, PTL DEF GInv, SpinnerInv

\* A run is ended by its user or by the end of the reader of its own backend.
THEOREM OwnExitOnly == GSpec => EndsOwnRun
<1>1. GInv /\ [GNext]_gvars
        => [running /\ ~running' /\ ~manual_stop' /\ gui' # "gone"
              => ReaderOver("injector", run_id)]_gvars
  <2> SUFFICES ASSUME GInv, GNext, running, ~running', ~manual_stop', gui' # "gone"
               PROVE  ReaderOver("injector", run_id)
    OBVIOUS
  <2>1. ~Start /\ ~StartRefused /\ ~SpawnFails
    BY DEF Start, StartRefused, SpawnFails
  <2>2. ~Stop
    BY StopEffect DEF Stop, GInv
  <2>3. ~Close /\ ~GuiDies
    BY DEF Close, GuiDies
  <2>4. ~Poll /\ ~RunJob /\ ~AskToClose /\ ~AnswerNo /\ \A w \in Workers : ~JobEnds(w)
    BY DEF Poll, RunJob, AskToClose, AnswerNo, JobEnds, runVars
  <2>5. \A r \in Runs : ~ReadStats(r) /\ ~PipeBroken(r)
    BY DEF ReadStats, PipeBroken, runVars
  <2>6. \A r \in Runs, t \in Tags : ~ChildDies(t, r) /\ ~ReadEnd(t, r) /\ ~ReaderFails(t, r)
    BY DEF ChildDies, ReadEnd, ReaderFails, runVars
  <2>7. PICK r \in Runs : OnInjectorExit(r)
    BY <2>1, <2>2, <2>3, <2>4, <2>5, <2>6 DEF GNext
  <2>8. r = run_id /\ r \in due
    BY <2>7 DEF OnInjectorExit, ExitMeant
  <2>9. QED
    BY <2>8 DEF GInv, ExitInv
<1>2. QED
  BY GuiInvariance, <1>1, PTL DEF GSpec, EndsOwnRun

-----------------------------------------------------------------------------
(* The safety half of CrashNoticed: with it, fairness of the reader thread, *)
(* of the poll and of the scheduled call is all that is left to ask for.   *)

\* While a run is up and the reader of its backend has ended, its report is in the
\* queue or the call it leads to is scheduled: no start, no
\* poll and no message of another run takes it away (gui.py, _drain_queue() and
\* _poll_queue()).
ExitOnItsWay ==
  running => /\ ~manual_stop
             /\ ReaderOver("injector", run_id)
                  => ExitOf("injector", run_id) \in msg_q \/ run_id \in due

LEMMA ExitOnItsWayStep == GInv /\ ExitOnItsWay /\ [GNext]_gvars => ExitOnItsWay'
<1> SUFFICES ASSUME GInv, ExitOnItsWay, [GNext]_gvars, running' PROVE ExitOnItsWay'
  BY DEF ExitOnItsWay
<1> USE DEF GInv, ExitOnItsWay
<1> DEFINE Gone(r) == ReaderOver("injector", r)
\* A handler that takes no message, schedules nothing and reports nothing.
<1>1. ASSUME UNCHANGED <<running, manual_stop, run_id>>, msg_q \subseteq msg_q', due \subseteq due',
             Gone(run_id)' => Gone(run_id)
      PROVE  ExitOnItsWay'
  BY <1>1 DEF ExitOf
<1>2. ASSUME NEW t \in Tags, NEW r \in Runs, ChildDies(t, r) PROVE ExitOnItsWay'
  <2>1. running /\ run_id \in Runs
    BY <1>2, GuiAssumption DEF ChildDies, runVars, HeldInv, GTypeOK, Runs
  <2>2. Gone(run_id)' => Gone(run_id)
    BY <1>2, <2>1 DEF ChildDies, ReaderOver, GTypeOK, Tags, runVars
  <2>3. QED
    BY <1>1, <1>2, <2>2 DEF ChildDies, runVars, queueVars
<1>3. ASSUME NEW r \in Runs, ReadStats(r) \/ (gui = "gone" /\ PipeBroken(r)) PROVE ExitOnItsWay'
  <2>1. CASE ReadStats(r)
    BY <1>1, <2>1 DEF ReadStats, ReaderOver, runVars, childVars
  <2>2. CASE PipeBroken(r)
    <3>1. Gone(run_id)' => Gone(run_id)
      BY <2>2 DEF PipeBroken, ReaderOver, GTypeOK, Tags, runVars
    <3>2. QED
      BY <1>1, <2>2, <3>1 DEF PipeBroken, runVars, queueVars
  <2>3. QED
    BY <1>3, <2>1, <2>2
<1>4. ASSUME NEW t \in Tags, NEW r \in Runs, ReadEnd(t, r) \/ ReaderFails(t, r) PROVE ExitOnItsWay'
  <2>1. /\ UNCHANGED <<running, manual_stop, run_id, due>>
        /\ msg_q' = msg_q \cup {ExitOf(t, r)}
    BY <1>4 DEF ReadEnd, ReaderFails, runVars
  <2>2. CASE t = "injector" /\ r = run_id
    <3>1. ExitOf("injector", run_id)' \in msg_q'
      BY <2>1, <2>2 DEF ExitOf
    <3>2. QED
      BY <2>1, <3>1
  <2>3. CASE ~(t = "injector" /\ r = run_id)
    <3>1. Gone(run_id)' => Gone(run_id)
      <4>1. CASE ReadEnd(t, r)
        BY <2>1, <2>3, <4>1 DEF ReadEnd, ReaderOver, GTypeOK, Tags
      <4>2. CASE ReaderFails(t, r)
        BY <2>1, <2>3, <4>2 DEF ReaderFails, ReaderOver
      <4>3. QED
        BY <1>4, <4>1, <4>2
    <3>2. QED
      BY <1>1, <2>1, <3>1
  <2>4. QED
    BY <2>2, <2>3
<1>5. ~StartRefused /\ ~SpawnFails /\ ~Stop /\ ~Close /\ ~GuiDies
  <2>1. ~StartRefused /\ ~SpawnFails /\ ~GuiDies
    BY DEF StartRefused, SpawnFails, GuiDies, runVars
  <2>2. ~Stop
    BY StopEffect DEF Stop
  <2>3. ~Close
    BY StopEffect DEF Close
  <2>4. QED
    BY <2>1, <2>2, <2>3
\* A new run begins with a backend that lives.
<1>6. CASE Start
  <2> DEFINE r == run_id + 1
  <2>1. r \in Runs /\ run_id' = r /\ manual_stop' = FALSE
    BY <1>6, GuiAssumption DEF Start, StartFlags, GTypeOK, Runs
  <2>2. proc'["injector"][r] = "alive"
    <3>1. PICK tags \in {{"injector"}, Tags} :
            proc' = [t \in Tags |-> IF t \in tags THEN [proc[t] EXCEPT ![r] = "alive"] ELSE proc[t]]
      BY <1>6 DEF Start
    <3>2. proc["injector"] \in [Runs -> Status] /\ "injector" \in tags /\ "injector" \in Tags
      BY DEF GTypeOK, Tags
    <3>3. QED
      BY <2>1, <3>1, <3>2
  <2>3. <<"injector", r>> \notin deaf'
    BY <1>6, <2>1, GuiAssumption DEF Start, DeafInv, GTypeOK
  <2>4. QED
    BY <2>1, <2>2, <2>3 DEF ReaderOver
\* The poll takes the report and schedules the call.
<1>7. CASE Poll
  <2>1. UNCHANGED <<running, manual_stop, run_id, proc, deaf>> /\ running /\ ~manual_stop
    BY <1>7 DEF Poll, runVars, childVars
  <2>2. due' = due \cup {m.run : m \in {n \in Queued("exit") : n.tag = "injector" /\ OfThisRun(n)}}
    BY <1>7, <2>1 DEF Poll
  <2>3. ASSUME ExitOf("injector", run_id) \in msg_q PROVE run_id \in due'
    <3>1. /\ ExitOf("injector", run_id) \in Queued("exit")
          /\ ExitOf("injector", run_id).tag = "injector" /\ ExitOf("injector", run_id).run = run_id
      BY <2>3 DEF Queued, ExitOf
    <3>2. QED
      BY <2>2, <3>1 DEF OfThisRun
  <2>4. QED
    BY <2>1, <2>2, <2>3 DEF ExitOf, ReaderOver
\* A scheduled call for the run ends it; one for another run leaves it alone.
<1>8. ASSUME NEW r \in Runs, OnInjectorExit(r) PROVE ExitOnItsWay'
  <2>1. ~ExitMeant(r) /\ UNCHANGED <<proc, deaf, running, manual_stop, run_id, msg_q>> /\ due' = due \ {r}
    BY <1>8 DEF OnInjectorExit
  <2>2. running /\ ~manual_stop /\ r # run_id
    BY <2>1 DEF ExitMeant
  <2>3. QED
    BY <2>1, <2>2 DEF ExitOf, ReaderOver
<1>9. CASE RunJob \/ AskToClose \/ AnswerNo \/ UNCHANGED gvars
  BY <1>1, <1>9 DEF RunJob, AskToClose, AnswerNo, ReaderOver, gvars, runVars, childVars, queueVars
<1>10. ASSUME NEW w \in Workers, JobEnds(w) PROVE ExitOnItsWay'
  BY <1>1, <1>10 DEF JobEnds, ReaderOver, runVars, childVars
<1>11. ASSUME NEW r \in Runs, PipeBroken(r) PROVE ExitOnItsWay'
  BY <1>3, <1>11 DEF PipeBroken
<1>12. QED
  BY <1>2, <1>3, <1>4, <1>5, <1>6, <1>7, <1>8, <1>9, <1>10, <1>11 DEF GNext

\* The report of a backend's end is never lost while its run is up.
THEOREM ReportsReach == GSpec => []ExitOnItsWay
<1>1. GInit => ExitOnItsWay
  BY DEF GInit, ExitOnItsWay
<1>2. QED
  BY <1>1, GuiInvariance, ExitOnItsWayStep, PTL DEF GSpec
=============================================================================
