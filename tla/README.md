# Verification of SNI-Spoofing

TLA+ modules for the program in `src/`: a local TCP relay that, for every
client, opens a connection to one of the configured endpoints, watches the TCP
handshake of that connection through a packet-divert driver, sends a fake TLS
ClientHello in sequence space the server ignores, waits for the server's
acknowledgement and then relays bytes; and a GUI that runs this engine as a child
process and keeps its settings. The models are checked by TLC on small instances;
the theorems are checked by TLAPS for every value of the constants.

    tlc -config Injector.cfg MCInjector.tla        # and the other .cfg files, section 4
    tlapm InjectorProofs.tla                       # and the other *Proofs modules, section 6

`PROJECT.json` lists the components, the runs, the source lines behind every
definition, the hazards of the code and the mutants: deliberately broken
variants of a definition, kept beside it under the comment "Mutant", which show
that the properties can fail.

## 1. Inventory

### Threads and processes

| thread | code | what it runs |
|---|---|---|
| injector thread | `injecter.py` `run`, `fake_tcp.py` `inject` | one loop: receive a diverted packet, look the connection up, run a handler under `connection.thread_lock` |
| fake-send workers (50) | `fake_tcp.py` `fake_send_thread`, `_send_delayed_retry` | one job per connection, under the same lock, asleep between attempts |
| event loop | `main.py` `main`, `handle`, `relay_main_loop`, `connection_reaper`, `stats_reporter` | coroutines that never take the connection lock |
| GUI process | `gui.py` | tk thread, reader threads of two child processes, background workers |

They meet in three places: the dict `fake_injective_connections` (key: source
address and port, destination address and port), the fields of the connection
object (`monitor`, `counted`, `t2a_msg`, ...), and the counters and boards of
`monitor_connection.py`.

### Components

| component | state | operations | what is hard | what makes it correct |
|---|---|---|---|---|
| packet observer (`fake_tcp.py`) | `syn_seq`, `syn_ack_seq`, `sch_fake_sent`, `monitor`, dict | `on_outbound_packet`, `on_inbound_packet`, `on_unexpected_packet`, `_close_conn`, `inject` | arbitrary and repeated packets; the loop thread changes `monitor` and the dict at any time | a verdict is earned, given once, never revised; one fake-send job per connection |
| fake-send job (`fake_tcp.py`) | `fake_sent`, attempt, segments sent | seven wire methods | wakes up long after it was scheduled; lock held across sleeps | nothing fake after a verdict; whole ClientHello before success; gives the lock back |
| segment arithmetic (`fake_tcp.py`) | none | `split_plan`, the 40/30/30 cut, sequence numbers | wrap-around, tiny payloads | segments tile the payload and end exactly at the ISN + 1 |
| `handle()` (`main.py`) | one coroutine per client | register, connect with failover, wait, relay, clean up | timeouts racing answers; failure paths | ends; leaves nothing behind; counts each outcome once |
| admission (`main.py`) | `conn_sem`, `shutdown_event`, accept loop | accept, acquire, release, stop | release on every path; shutdown while blocked | the limit holds, no slot is lost |
| relay (`main.py`) | two tasks, buffers, batched byte counts | `relay_main_loop` | cancellation between any two awaits, half-open ends, timeouts | bytes in order, none lost in the accounts, one end ends both |
| statistics (`monitor_connection.py`) | counters, boards, active list, logs | increments, `finish_*`, `record_result`, `update_active`, `get_snapshot` | two lock acquisitions per logical update, bounded boards | gauges consistent, boards bounded |
| auto rotation (`utils/auto_state.py`) | window of one method | `next_method`, `note_failure`, `note_success` | failures of an old window arriving in a new one | every method gets its window |
| reaper (`main.py`) | none | evict stale unmonitored entries | a second remover of dict entries | never evicts a live handshake |
| configuration (`main.py`, `utils/config_manager.py`) | file, dict | migrate, validate, load, save | partial writes, types of old versions | what is saved loads again |
| process security (`utils/security.py`) | cleanup list, executor | `BoundedExecutor`, `register_cleanup`, atomic writes | nothing imports it | not modelled |
| ClientHello builder (`utils/tls_fingerprint.py`, `utils/packet_templates.py`) | cache | build, pad, find extensions | length fields, cache | lengths agree |
| QUIC tools (`utils/quic.py`) | none | find and replace an SNI, build a fake Initial | length arithmetic, bytes that look like an extension | the last name is read back, nothing else changes |
| lists, ranking (`utils/lists.py`, `utils/smart.py`) | none | load, sample, rank | limits | unique, bounded, sorted |
| GUI (`gui.py`) | child processes, queues, autosave, profiles | start, stop, poll, save, close | reader threads, a child that exits at any moment, pending timers | one child at a time, settings not lost |

### Where the hard behaviour is

1. The injector thread, a fake-send job and `handle()` work on one connection
   object; only the first two exclude each other.
2. Timeouts of `handle()` race the injector's signal; sleeping jobs outlive
   their connection.
3. The dict is keyed by addresses that are reused, and three threads pop it.
4. The endpoint of a connection changes after its first packets were sent.
5. Two relay tasks cancel each other at any await.
6. A semaphore slot is taken once and given back in a `finally` block that
   every path goes through.
7. Messages of a reader thread are read long after they were sent, in a run the
   GUI has since replaced; two places drain the whole queue.
8. `save()` writes two files one after the other, from a timer, a button, a start
   and a close, while a backend may read one of them.

## 2. Modules

    Bypass  <--refines--  Injector  <--extends and refines--  Handshake
                             |                                   |
              InjectorProofs, MCInjector        HandshakeProofs, MCHandshake
    Relay      -- RelayProofs, MCRelay
    Gui        -- GuiProofs
    Engine                            -- EngineProofs      \   (MCEngine: the limit alone)
    FakeStream                        -- FakeStreamProofs   \
    Settings                          -- SettingsProofs      >-- MCParts
    Board, Config, Lists, Quic, Hello -- PartsProofs        /   (MCLists: Lists alone)

### Injector (`fake_tcp.py`, `injecter.py`, `main.py` handle and reaper, the counters)

The life of a connection object under three kinds of threads. State variables
keep the names of the attributes (`monitor`, `syn_seq`, `syn_ack_seq`,
`sch_fake_sent`, `fake_sent`, `counted`, `t2a_msg`, `bypass_method`,
`thread_lock`, `id`), `connections` is the dict `fake_injective_connections`,
`active, total, success, failed` are the counters of `monitor_connection.py`.
Three program counters cut the threads:

- `injpc`: the injector thread. `Recv` looks the key up without a lock; the
  next step takes the lock, reads `monitor` and classifies the packet
  (`ObserveSyn`, `ObserveSynAck`, `ObserveHandshakeAck`, `ObserveFakeAck`,
  `Unexpected`, `ForwardUnmonitored`). A handler is cut again before each
  effect `handle()` can see: `CountActive`, `Submit`, `ReadCountedOnSuccess`,
  `CountSuccess`, `SignalSuccess`, and `InjClose` to `InjSignalClose` for
  `_close_conn()`. Reinjecting the packet may fail, which closes the connection.
- `sndpc[c]`: the fake-send job, `StartSend`, `SendSegment`, `Recheck`,
  `RetrySend`, `SendFails`, and `SndClose` to `SndSignalClose`.
- `pc[c]`: `handle()`. It takes no connection lock but runs on the event loop,
  so between two awaits no other coroutine moves (`NoAwait`, `LoopFree`) while
  the two other threads do. `Accept` registers, `ConnectFirst`, `ConnectOther`
  with `Rekey`, and `ConnectFails` end `try_connect()`, `Woken`, `Timeout` and
  `Cancel` end the wait, `NoteFail` and what follows is `note_fail()`, `Exit`
  the `finally` block. `Reap` is the reaper.

The environment is open: any packet may be diverted at any time with any of the
`SeqMod` sequence numbers, so every retransmission, reordering, late packet and
reset is included.

### Bypass

The promise of the injector to `handle()` without threads, locks, packets or
counters: observe, send segments, one final verdict. `Injector` implements it
under the mapping `Phase` and `WholeSent`.

### Handshake (`main.py` pick_endpoints, try_connect; the TCP stack and the network)

`Injector` with causes for its packets: a SYN leaves because `try_connect()`
dials, a SYN-ACK answers a SYN that was let through, `connect()` returns because
a SYN-ACK reached the local stack, and packets stay on `wire`, so they may come
again or never. Adds the endpoint rotation (`cycle`, `start`, `dial`). Every step
of Handshake is a step of Injector or leaves its variables alone, which is a
theorem (`HandshakeIsInjector`), not a convention. Network,
driver and TCP stack are external; they are modelled from what the code asks of
them.

### Relay (`main.py` relay_main_loop, handle; `monitor_connection.py` active list, totals)

The two directions of every connection on the event loop, from await to await:
`Receive`, `Sent`, and the ways out `Breaks`, `IdleTimeout`, `Cancelled`, all
ending in `End`, which is the `finally` block and, for "up", the end of
`handle()` with its judgement (`Judge`). `wait_for()` may return a chunk and
forget a cancellation: `Receive` clears `cancelled`. `entry` and `place` are the
list of `register_active`, `update_active` and `unregister_active`.

### Engine (`main.py` accept loop and finally block, `utils/auto_state.py`, `record_result`)

Admission by `conn_sem`, the rotation of "auto" (`AutoState`: `current`,
`attempts`, `failures`, `successes`, `elapsed`), every path out of `handle()`
with the three flags its `finally` block decides by, the recording of outcomes
on the method board, the double release of the slot, signal and shutdown. The
history `tried` is set when a connection puts its method to the test, apart from what
records an outcome, so a path that records none leaves a trace.
`AcceptFails` is an `accept()` that raises, `AcceptRaises` a client that has reset
before `set_keepalive()`, whose error nothing in `main()` catches.

### FakeStream (`fake_tcp.py` fake_send_thread, split_plan, _send_delayed_retry)

The bytes of one job: where the payload is cut (`Pieces`, `Halves`), the
sequence numbers (modulo `SeqSpace`), IP lengths and idents (modulo `IdentMod`) of
the segments, which are all one packet object changed in place. A payload is its
length, `wire_method` the method of the connection and `phase` where the job is.

### Gui (`gui.py` life cycle, `main.py` stats_reporter)

The GUI process with its two children, the injector backend and xray. `running`,
`manual_stop`, `run_id`, `msg_q` and `busy_jobs` are the attributes; `held` is
`injector_proc` and `xray_proc`, by the run whose child the handle is; `proc` is
the children themselves; `due` the calls of `_on_injector_exit()` the tk loop has
scheduled; `shown` the run whose numbers are on display; `jobs` the background
workers. The tk thread runs one handler at a time: `Start`, `SpawnFails`,
`StartRefused`, `Stop` (`DoStop`, also called by `Close`), `Poll` for
`_poll_queue()`, `OnInjectorExit`, `RunJob`, `AskToClose`, `AnswerNo`, `Close`. The
reader threads are `ReadStats` and `ReadEnd`, and `ReaderFails` for the exception that
ends `_reader()` while its child lives: `deaf` are the children left so, whose exit has
been reported all the same (`ReaderOver`). A worker ends in `JobEnds`. Children
end by themselves (`ChildDies`), survive `kill()` or not (`Terminate`), and the GUI
may die (`GuiDies`), with the job object taking any part of the children along.
`PipeBroken` is `stats_reporter()` of a backend whose reader is gone.

### Settings (`gui.py` autosave, profiles, close; `config_manager.py` load, save)

The form, the debounced autosave and the two files. `Close` flushes the pending autosave
and then, while a run is up, puts the question of `on_closing()`; until its `Answer` the
loop of the dialog lets results of background tools edit the form, timers fire and the
run end, and a Yes destroys the window without flushing again. `save()` is cut at every write:
a file is truncated, written, closed, then the other one, with an exception or the
end of the process anywhere (`Write`, `SaveDone`, `SaveRaises`, `GuiCrash`); `after`
is what the caller goes on with, since START and closing save first. A value of the
settings is the number of endpoints, which stands for everything `config.json` holds,
and a number for what only the `.full.json` file holds. `BackendReads` is
`load_config()` of the engine, at some time after START. `saved`, `begun`,
`interrupted` and `unsaved` are history variables the properties are stated with.

### Board (`monitor_connection.py` record_result, boards)

One of the three boards, which are alike: a sequence of cells in the order of the
dictionary. `RecordResult` adds to the cell of its key, or puts a new cell behind the
others, and prunes from the front. `results` and `came` are history: every result, and
every arrival of a key with its time, so that `BoardExact` can say from when a cell
counts. `Ranked` is the order of `_ranked()`.

### Config (`config_manager.py`, `load_config()` of `main.py`)

The two parsers of `config.json`, with missing keys, wrong types and white space.
`load()` of the GUI also merges the `.full.json` file (`Merged`, `LoadFiles`), which the
engine never opens. `file` and `extra` are the two, each with any content at first, over
the saves of what was loaded (`SaveFile`); a save may be broken off between them or in the
second. Texts and files are constants, so nothing depends on how many entries a file has
or what is in them.

### Lists (`lists.py`)

The loaders of candidate lists: `asked` is a call with its text, a sequence of tokens with
their comments, lines, ports and networks. `AddAll` pushes the elements of a sequence,
each once and up to a limit, and `Collect` does so for what every token stands for.
`MCLists` gives the small texts and networks, to `MCParts` and to two runs of its own.

### Quic (`quic.py`)

Byte by byte, since the scan may find a match anywhere. `QInit` builds a packet (`stub`)
from a name and the answers of `os.urandom()`, `Swap` gives it another name, any number
of times; `name` and `built` are history, the name it was given last and the packet as it
was built. `FindExt` is the scan, `Headed` what it compares before it looks at the name.

### Hello (`tls_fingerprint.py`, `packet_templates.py`), MCParts

A record is a sequence of fields `<<length, value>>`, so every length field is a number
that can be wrong. `ExtList` is the extensions of a profile definition in their order,
`BuildClientHello` frames them and pads the record; `FindExtensions` reads them back
through `FieldAt`, the number at a byte position, and `TypesFrom`, a function over the
turns of its loop. `ParseClientHello` and `ParseServerHello` are the parsers of the
templates, with the sizes they assert and the comparison with what the builder makes of
what they read (`Rejected`). The state `hello` is one call: a profile definition with the length of an SNI,
or the lengths that go into the two templates. The profile definitions, the SNI lengths
and the sizes of application data are constants; `HelloAssumption` asks that the lengths
fit into the one and two bytes they are written to, without which `struct.pack()` and
`bytes()` raise.

`MCParts` puts all these beside `Engine`, `FakeStream` and `Settings` in one run: they
share no state, so in a behaviour one part moves, the one named by `part`, and the others
stand still.

## 3. Properties

Each is stated in words above its definition, with the lines it is about.

- Injector: `SuccessIsEarned`, `NoFakeAfterVerdict`, `ImplementsBypass`, `OneJob`,
  `SequenceStable`, `NoLeak`, `KeyedById`, `GaugesBounded`.
- Handshake: `FirstEndpointObserved`; live: `HandleTerminates`, `InjectorReturns`,
  `JobTerminates`.
- Relay: `Accounted`, `NoGhost`, `FailIsEarned`; live: `ClosedEndsBoth`,
  `IdleEndsBoth`.
- Engine: `NoSlotLost`, `Credited`.
- FakeStream: `OldSpace`, `FlagEarned`, `LengthTrue`, `IdentFresh`.
- Gui: `NoForgottenChild`, `StatsOfThisRun`, `BusyWhileWorking`, `EndsOwnRun`; live:
  `CrashNoticed`, `OrphansEnd`.
- Settings: `OneBrokenSave`, `EditsReachDisk`, `BackendReadsWhole`.
- Board: `BoardExact` (`LatestComers`, `CountsExact`, `KeysOnce`, `RankedRight`).
- Config: `ValidIsRunnable`, `ReadAlike`. Lists: `ListsClean`, `SampleUsable`.
- Quic: `QuicRoundTrip`. Hello: `HelloReadBack`, `TemplateRoundTrip`.
- Promised and not kept (section 7): `WaitingIsObserved`, `FailedOnce`,
  `ActiveReturnsToZero`, `OkIsOwn`, `LimitHolds`, `CommentLinesSkipped`, `DiversityPicked`.

Type invariants and inductive invariants are proved for every instance (section 6),
so no run repeats them.

## 4. Runs

| run | configuration | distinct states | what it shows |
|---|---|---|---|
| `injector` | 1 connection, 2 endpoints, 3 methods, 2 sequence numbers; or 2 connections, 1 port, `delayed_retry` | 1 301 000 (up to symmetry) | safety of Injector, refinement of Bypass; `NoLeak` and `GaugesBounded` where two connections reuse a port and key |
| `handshake` | 1 connection, 2 endpoints, 2 methods | 102 000 | real dials: `FirstEndpointObserved`, liveness |
| `relay` | 2 connections, list of 1, batches of 2 | 94 000 | the accounts of the relay, end of both directions |
| `gui` | 3 run numbers, 1 background worker, 1 reader that fails | 331 000 | children, messages and exits of several runs, orphans |
| `parts` | Engine (3 clients, 2 slots, 2 methods), FakeStream, Settings, Board, Config, Lists, Quic, Hello | 343 000 (up to symmetry) | slots and outcomes on every path, segments, files, boards, round trips |
| `failover_unobserved`, `failed_once`, `active_leak`, `relay_own_bytes`, `connection_limit`, `comment_lines`, `random_picks` | the smallest that shows it | | a violation each, section 7 |

Why the bounds are enough:

- Injector treats connections alike and couples them through the keys, the
  counters, the injector thread and the loop; two connections on one port have
  all of these couplings, and one connection with two endpoints has the
  re-keying. So `Small` keeps the states of one connection with every choice, and those
  of two when both are `Narrow`: one endpoint, one method, handshake packets with the
  numbers of a handshake that begins at 0 (`NumbersAtZero`). `split_seq` is the only method with exactly two segments,
  `fragmented` with three, `delayed_retry` with two attempts; the methods left
  out send one segment in one attempt and take the paths of the first attempt of
  `delayed_retry`. Two sequence numbers are enough to tell the expected one
  from another.
- Relay: a batch of two with at most two chunks in a direction gives a full batch, a
  remainder and an empty flush; the list with room for one evicts; the second
  connection is there to move the totals. `MaxBytes` bounds what is counted and not what
  comes (`Counts`): past it a direction goes on receiving and sending for as long as the
  remote ends wish.
- Engine: with three clients one is turned away or waits for a slot while two run;
  a window limit of one failure and of two attempts lets an outcome arrive after
  the rotation.
- Gui: START and STOP both take a run number, so with `MaxRun = 3` a run is
  started, stopped and followed by another while messages and survivors of the
  first are still around. `MaxDeaf = 1` lets the reader of any child fail while the child
  lives. `MaxBusy = 1` lets the message of a worker be drained and
  the next worker be counted.
- Settings: `KEEP = 2` of `MAX_EPS = 3` endpoints, so that a loaded list is cut, and
  one endpoint of the file, so that a list of one is filled.
- FakeStream: the lengths cover every branch of `split_plan` and of the
  40/30/30 cut; the initial sequence numbers sit on both sides of the wrap-around.
- Board: five results on three keys with room for two, so that a key is evicted, comes
  back and is evicted again.
- Config: one or two endpoint entries of every form, every key missing, blank, out of
  range or not a number; beside it no second file, one with GUI keys only, or one of an
  earlier save; and the files `SaveFile` makes of them.
- Lists: up to three tokens, on one line or two, of every kind, limits that bite and one
  that does not, networks of 1 to 16 addresses with every answer of the random generator.
- Quic: names that fit by one byte and that do not, with dots and spaces where they
  matter, a lone dot; connection ids and paddings of zeros and of dots, and two ids that
  begin like an extension, with which the property without `Spelt` fails.
- Hello: the five profiles of the code with the shortest and the longest SNI and with those
  of 130 to 170 bytes, between which every Chrome record passes the lengths where the
  padding gets too small for its header; the templates with every SNI they take and application data on both sides of the 21
  bytes the parser asks for. A cut-off
  hello is cut at every length.
- Counters of failures and successes are bounded by the number of connections or
  runs; packets by their type; nothing else grows.

The symmetric runs check no liveness, for which symmetry would be unsound.

`CHECK_DEADLOCK FALSE` stands where the modelled part may stop: all clients
served, the job done, the GUI closed, or a sample, which has no step.

## 5. Fairness

- `HFairness` (Handshake): weak fairness of the injector's and of a job's steps,
  since the operating system keeps scheduling both threads (lock waits included:
  every holder of the lock is itself fair and gives it back, which is what
  `JobTerminates` and `InjectorReturns` check); strong fairness of `handle()`,
  since the event loop runs ready coroutines in turn and `handle()` is enabled
  only between the stretches of the others: `connect()` has 5 s per endpoint and the
  wait `HANDSHAKE_TIMEOUT`. Nothing ends a relay (a send has no time limit and an active
  stream none at all), so no fairness is asked of it, and `HandleTerminates` says that a
  `handle()` ends or relays for ever. None is asked of packets, clients, cancellations or
  the reaper either.
- `Fairness` (Relay): a task that was created starts, a cancellation that is
  pending is delivered, a receive that stays without data times out. No remote
  end must send, read or hang up, and a send has no time limit; so a relay need
  not end, by traffic that goes on or by a send that does not. `IdleEndsBoth` says what
  is left: no direction waits for bytes for ever, and a silence that lasts ends the other
  direction too, pinned in a send or not.
- `GFairness` (Gui): a reader thread gets to the end of a dead child's pipe, the tk
  loop polls every 120 ms and runs what it has scheduled, also while the question of
  `on_closing()` is open, and a backend prints its statistics every two seconds. No
  child must end, no reader must fail, no user must press anything.
- Engine, FakeStream, Settings, Board, Config, Lists, Quic and Hello claim safety only.

## 6. Proofs

All theorems hold for every value of the constants under the assumptions named
in the modules: `ConstantAssumption` and `FinitelyMany` (finitely many
connections), `EndpointsAssumption` (there is an endpoint to rotate over),
`RelayAssumption`, `EngineAssumption`, `StreamAssumption` (a payload is shorter than
half the sequence space, as 2^31 is to a ClientHello, and there are more than three
idents), `GuiAssumption`, `SettingsAssumption`, `BoardAssumption` (keys are ordered, and
there is room for one), `ConfigAssumption` (an address, a host name and a method are not
blank, and the defaults are valid), `ListsAssumption` (limits are positive),
`QuicAssumption` (names are ASCII, `os.urandom(n)` answers n bytes), `HelloAssumption`
(lengths fit their fields, an SNI has 1 to 219 bytes, application data is not empty; of
fewer than 21 bytes it is refused by the parser, which `TemplateRoundTrip` says).

**InjectorProofs.** `IInv` is inductive (`Invariance`). What it adds to the
properties, and why: `LockInv` ties `thread_lock` to the program counters of its
two owners, so that the locked stretches of injector and job exclude each other;
`InjectorInv` and `SenderInv` keep what a thread has learnt under the lock (no
verdict yet, no longer monitored, handshake observed) true while `handle()`
works beside it; `ObserverInv` says that a verdict ends monitoring, so that no
second one can come; `DictInv` ties a dict entry to the identity and to the life of its
connection. From it: `TypeCorrect`, `EarnedSuccess`, `SingleJob`, `Evicted`
(`NoLeak`), `Keyed`, the action properties `QuietAfterVerdict` and
`StableSequence`, and `Refinement` (Injector implements Bypass). `Gauges`
(`GaugesBounded`) needs more: `GaugeInv` counts, with the cardinalities of the
sets `Scheduled` and `Succeeded`, and gives credit for a connection that is
scheduled and not yet in the gauge. It is preserved even where
`decrement_active()` stops at zero, because every success was scheduled
(`SuccessIsEarned`). Lemmas `InjectorFrames`, `SenderFrames` and `HandleFrames`
say what each thread leaves alone and carry most steps. `JobsAdvance` and
`HandlersAdvance` are about progress, see below.

**HandshakeProofs.** `HandshakeIsInjector` is the composition: a behaviour of
Handshake is one of Injector, so every theorem above holds with the real dials and
the network of Handshake too. `HandshakeInvariance` and `FirstIsObserved`
(`FirstEndpointObserved`) need `HInv`: `WireInv` says that every packet on the wire,
and the one the injector thread has in hands, is of the port of some connection
object, so a packet of another port can neither evict nor advance this one;
`DialInv` ties the key to the endpoint being dialled; `TrackedInv` says that a
connection on a port of its own, before its verdict and its first failover, stays in
the dict, so that no packet reaches its socket unobserved. `IInv` is needed beside it
for the locked stretches of the injector thread.

**RelayProofs.** `RInv`: what has not started has moved nothing
(`NotStarted`), the totals have grown by at least what a relaying connection
moved (`Grown`), judged connections are closed. From it `BytesAccounted`,
`NothingLingers`, `FailureEarned`, `RelayTyped`. `CancellationsReach` needs `Paired`
beside it: while "up" relays, "down" has been created, so there is a task to cancel.

**EngineProofs.** `EInv`: with `FlagsInv`, whatever path may still record an
outcome finds none recorded and a method to credit; with `TrialInv`, a connection that
has put its method to the test has an observer or a verdict while it waits, and a flag
for the `finally` block, an outcome or a verdict left unread at shutdown after it, so
that none is lost (`NoneLost`). From it `SlotsKept` and
`OutcomesCredited`, both about cardinalities of sets of clients, and `EngineTyped`.

**FakeStreamProofs.** `SInv`: where the attempt is in its plan. The lemmas
`PiecesTile`, `HalvesTile` and `PlanTiles` say that the cut is one, for every
length; `ModAdd`, `ModSub` and `BehindOffset` do the wrap-around for every
modulus. From it `SegmentsAreOld`, `FlagIsEarned`, `LengthIsTrue`, `StreamTyped`.
`IdentsAreFresh` (`IdentFresh`) adds `IdentInv`: the idents sent are the last few before
the next one, also when the retry starts from the ident of the first attempt.

**GuiProofs.** `GInv` adds to the properties: `HeldInv`, that a running GUI holds the
backend of the current run number and one that does not run holds nothing, which is
why STOP and START reach every child; `ProcInv`, that run numbers to come have no
children, and `DeafInv`, that they have no readers; `ExitInv`, that an exit message and a
scheduled call tell of a reader that has ended, though not always of a child that has;
`SpinnerInv`, that the
messages are finitely many, for the counting. From it `ChildrenAccounted`
(`NoForgottenChild`: every child that lives is held or was told to end, but a backend
whose reader failed), `OwnStats`, `SpinnerTurns`, the action property `OwnExitOnly`
(`EndsOwnRun`: a run ends by the end of the reader of its own backend), and `GuiTyped`.

**SettingsProofs.** `SInv` adds `SaveInv`, what is in the files at each cut of
`save()`, and `RunInv`, that START's save is over before the backend reads, that
only SAVE saves during a run, and that without changes of its own a run leaves the files
as the form says, which is what holds when the question on closing is answered. From it `OneBrokenSaveCostsNothing`, `EditsSurvive`,
`StartIsRead` and `SettingsTyped`.

**PartsProofs.** Kept elements, pushed elements and collected tokens are recursive
functions on `0 .. n`. The first section has induction over the natural numbers as a
lemma about a set (`NatSetInduction`), proved from the well-foundedness of `<`, and the
existence of a function that follows a step (`RecUpTo`); with the two each recursion is
shown to take the values it describes (`PrefixesKept`, `AddedSteps`, `CollectedSteps`),
and everything else is induction over those values.

- `BoardIsExact`: `BIndInv` adds to `BoardExact` the types and that no arrival lies in the
  future, without which a key that comes in could have results already. `CellOrigin`
  follows every cell through a pruning, and `LatestComersKept`, `KeysOnceKept` and
  `CountsKept` use it. `CellsSort` says that finitely many cells can be sorted, which is
  what makes the `CHOOSE` of `Ranked` mean something; `RankingHolds` follows.
- `ValidRuns` and `BothRead`: what `migrate()` makes of a file without errors is
  `Settled`, and a settled configuration is what `migrate()` (`SettledMigrate`), `save()`
  (`SettledWritten`) and `load_config()` (`SettledLoad`) make of it. Of the merge:
  `MergedFields` takes it apart, a settled configuration lets nothing in
  (`SettledMerged`), and `FilledOwn` says that it changes no key of the engine's under
  `OnItsOwn`. `SameEndpoints` and `SameSnis` compare the two parsers entry by entry
  (`AcceptedAlike`); `SavedComesBack` is the way over the two files.
- `ListsAreClean`: `CollectFirst` is about any recursion of this shape: what comes out is
  in the order of first places, complete up to the limit (`PushKeeps`, `RowKeeps`).
  `ExpandGood` and `IpItemsTyped` say what a token can stand for. `SamplesUsable`:
  `PrefixTaken` says that what is new and fits is taken as it comes, so a sample has as many
  hosts as were asked for or as there are (`SampleExact`).
- `StubRoundTrip`: `QuicRoundTrip` says what can be read from a packet, which is not
  inductive. `QIndInv` says what every byte of it is: the header it was built with, the
  extension of its last name, its padding (`IsLayout`), and that this name was one that
  fits. `HeaderHeadsNone` goes through the positions the scan meets before: no
  extension can begin in the fixed bytes of the header or at its seam, and `Spelt` leaves
  out the packets where one begins in a connection id. So the scan stops at the real one
  (`NameFound`) and a swap makes such a packet again (`Renamed`); two packets with the
  same header, name and padding are the same (`LayoutUnique`), which is the way back.
  The run has a handful of names and ids; this is for names, connection ids and paddings
  of any bytes.

- `HellosReadBack`: the first half of the section is about fields. `Ends`, where each
  field ends, follows its step (`EndsSteps`) and never falls (`EndsRise`), so two fields of
  positive length do not begin at one byte and `FieldAt` finds the one that does
  (`FieldThere`); what is put behind a record moves nothing in it (`EndsBehind`).
  `ExtensionsMade` says that the extension `n` of a list is the fields `3n-2` to `3n`, and
  `HelloMade` that the four lengths around them are the sizes of what follows. The second
  half reads: a turn of the loop passes one extension (`ReadOne`), so after `n` turns it
  has the first `n` types and stands where they end (`WalkRead`, by induction), and
  `FindRead` gets to the list through the three lengths before it. What is left is the
  arithmetic of the padding: an extension more makes a record longer by its data and four
  bytes (`HelloGrown`), which is `pad_to` exactly when there was room. Nothing is used of
  the profiles but that their lengths fit, so the theorem is about any profile definition
  someone may add.
- `TemplatesRead`: the templates have the fields the parsers look for at the fixed offsets,
  for every length of the SNI and of the application data; what has fewer than 21 bytes of
  it is refused, the rest compares equal with what is built again.

**Progress without fairness.** Fairness and `ENABLED` are beyond the prover, so the
liveness properties themselves are checked by TLC alone. What can go wrong in them
besides a thread that is never scheduled is safety, and that part is proved, for any
number of connections, endpoints and runs:

- `JobsAdvance`, `HandlersAdvance`, `HandlesAdvance` (for `JobTerminates`,
  `InjectorReturns`, `HandleTerminates`): each thread has a rank (`JobLeft`, `InjRank`,
  `HandleLeft`) that is bounded (20 steps for a job, ten for a handler of the injector,
  three for each endpoint and 12 more for `handle()`), that each step of its own lowers
  and that no step of another raises once it has started: no retry, failover, verdict or
  late packet starts it over. A job waits for the lock only while the injector is in a
  handler of the same connection, the injector only while that job has the lock, and a
  job that has it waits for nobody, so nobody waits in a circle.
- `CancellationsReach` (for `ClosedEndsBoth`): once a direction has closed the sockets,
  the other has ended or has its cancellation on the way, at a point where it takes
  effect; no chunk that comes at the same moment makes it forgotten.
- `ReportsReach` (for `CrashNoticed`): the report of the end of the current backend is
  in `msg_q` or has its call scheduled until the run is over; no `_drain_queue()` and no
  call for another run takes it away.

Every invariant and every action property that a passing run checks is the subject of a
theorem. Only model-checked are the liveness properties (`HandleTerminates`,
`InjectorReturns`, `JobTerminates`, `ClosedEndsBoth`, `IdleEndsBoth`,
`CrashNoticed`, `OrphansEnd`) and the seven statements of section 7, which are violated.

## 7. Where code and documents disagree

Each of these is a run that finds the statement violated.

1. `failover_unobserved`: after a failover the dict entry is re-keyed when
   `connect()` has returned (`main.py:793`); SYN and SYN-ACK of that endpoint
   were forwarded untracked, so the handshake of a failed-over connection cannot
   succeed, against `main.py:792` and `README.md:42` of the program.
2. `failed_once`: injector and `note_fail()` both count the failure of one
   connection (`main.py:495`), against `main.py:471-475` and `:810`.
3. `active_leak`: `handle()` gives up between `increment_active()` and
   `counted = True` (`fake_tcp.py:515`); `active` never returns to zero, against
   `README.md:50`.
4. `relay_own_bytes`: the outcome of a connection is judged by the growth of the
   global totals (`main.py:874`), against `main.py:838-839`. `FailIsEarned` is
   what holds instead.
5. `connection_limit`: the slot is released twice (`main.py:920`, `:938`), so more
   than `MAX_CONNECTIONS` run, against `README.md:54`. `NoSlotLost` is what
   holds instead.
6. `comment_lines`: the text of an SNI list is cut at white space before comments are
   looked at (`utils/lists.py:26-28`), so of a line that starts with '#' only the first
   word is skipped and the names behind it are loaded, against `utils/lists.py:12`.
   `ListsClean` is what holds instead.
7. `random_picks`: the random hosts of a larger network are put behind `per_cidr` first
   ones and the sample is cut to `per_cidr` (`utils/lists.py:92`), so none is ever
   returned, against `utils/lists.py:49` and `:74`. `SampleUsable` holds instead.

Met while modelling, without a run of their own, since the statement is about wording
or a single step, or no document speaks of it:

- `stop()` reports a child that survived `kill()` through `msg_q` (`gui.py:3153`) and
  then drains that queue (`:3166`), although `_terminate()` asks its callers to surface
  it (`:3187-3188`).
- `_drain_queue()` is for "pending stats/log messages" (`gui.py:3248`) and also drops
  the ("busy", -1) of a worker; the spinner then turns for good. `BusyWhileWorking` is
  what holds.
- `README.md:57-58` promises an automatic restart of a crashed backend;
  `_on_injector_exit()` has none (`gui.py:3116`).
- Edits made while a run is up are neither saved nor flushed on closing
  (`gui.py:3317`). A timer that is pending when a profile is loaded saves the profile,
  though the log says to press SAVE (`gui.py:2482`). SAVE during a run truncates the
  file the backend may be about to read. Lists longer than the form shows are cut at
  the next save, and a list of one endpoint is filled from `ip_list.txt` on opening.
  The exceptions are in the statements of `EditsReachDisk` and `BackendReadsWhole`.
- The flush of `on_closing()` is there "so the last edits survive" (`gui.py:3317`). It
  comes before the question: what a background tool puts into the form while the question
  is open is lost with a Yes (`:3332-3340`). `EditsReachDisk` leaves it out.
- After a "reader error" `_reader()` reports an exit of a backend that may live
  (`gui.py:2871-2874`), and `_on_injector_exit()` drops its handle without ending it
  (`:3122-3125`), though it is written so "STOP always works" (`:3116`).
  `NoForgottenChild` and `EndsOwnRun` name the exception.
- `config_manager.py:165` means the second file for GUI keys, but it fills in keys of the
  engine's too, which the engine then runs without: the two read such a pair of files
  differently (`OnItsOwn` in `ReadAlike`).
- `get_server_hello_with()` makes a hello with 1 to 20 bytes of application data that
  `parse_server_hello()` refuses (`packet_templates.py:66`).
- `smart.py:34` says average, `tcp_ping()` takes the minimum and gives up at the first
  try that fails.
- `tls_fingerprint.py:49` calls 219 bytes the cap of the input validation as well;
  `validate()` has no such cap. A Chrome record of 508 to 511 bytes stays unpadded,
  as four bytes of header do not fit (`HelloReadBack`).
- `replace_sni_in_quic()` takes the lone dot for a name (`quic.py:141`), and
  `_find_sni_span()` wants an extension of at least 7 bytes (`:79`), though it would take
  a name of one (`:83`); so a packet given that name has none from then on.
  `QuicRoundTrip` leaves it out.
- `set_keepalive()` sets `SO_KEEPALIVE` without a guard (`main.py:576`), unlike its
  other options: on a client that has reset already an error ends the accept loop
  (`main.py:1000`), the only place there that no handler covers.
- `load_config()` takes an entry of white space the GUI drops; `ReadAlike` leaves white
  space out. `migrate()` of a file whose entries are all invalid finds the single
  values again only at the next load.

## 8. What the models leave out

- The dict is popped by key, not by object: a late pop of an old `handle()` can
  take out the entry of a new connection on the same port, and so can a stale packet
  of the old one. The code does not prevent it; `FirstEndpointObserved` is stated for
  a connection on a source port no other connection object has had.
- Age limits (the reaper's 120 s) and delays: a timer may fire at any time.
- The executor of the jobs has 50 workers; a job that waits for one is a job
  that has not started.
- `finish_success()` and `finish_failed()` take the statistics lock twice; in Injector
  the two halves are one step. `get_snapshot()` is a copy and shows, for two
  seconds, a connection neither active nor done.
- The set-up of the listening socket: a bind that fails ends the program at once.
- `reset()` of `AutoState`, which the self-test calls; the cache of hello records, the
  HTTP/2 frames and the JA3 text of `tls_fingerprint.py`, which no traffic of the
  engine uses; the probes of `smart.py`, which are network I/O.
- A random connection id that begins like an SNI extension can be found before the real
  one: its lengths reach into the bytes behind it. `QuicRoundTrip` leaves out those that
  begin so (`Spelt`), whether or not a name with a dot follows.
- Logging, wording, byte values, key material.

Not modelled: widgets and pages of the GUI (no state of the system), interface
lookup (one system call), `utils/security.py` (nothing imports it), launchers and
packaging.

## 9. Where to go on

An atomic store of settings as the abstract specification of Settings without cut-off
saves, and the descent from the ranks of section 6 to the liveness properties, once a
prover for `ENABLED` is at hand.
