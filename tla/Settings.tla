------------------------------ MODULE Settings ------------------------------
(***************************************************************************)
(* The settings between the form of the GUI, the two files cm.save()       *)
(* writes and the backend that reads one of them.  A settings value is the *)
(* number of its endpoints (all keys of config.json stand and fall with    *)
(* it) and a number for the keys only .full.json has.  save() truncates,   *)
(* writes and closes one file after the other, and may raise or be cut off *)
(* anywhere; it runs on the tk thread, so no other handler runs meanwhile. *)
(***************************************************************************)
EXTENDS Integers

CONSTANTS
  MAX_EPS,    \* bound on the number of endpoints
  MAX_EXTRA,  \* bound on the GUI-only value
  KEEP,       \* endpoints the form shows of a list, 3 in the code
  FILE_EPS    \* endpoints of ip_list.txt that fill an empty field, at most 2

ASSUME SettingsAssumption ==
  /\ MAX_EPS \in Nat /\ MAX_EXTRA \in Nat /\ KEEP \in 1 .. MAX_EPS
  /\ FILE_EPS \in 0 .. KEEP - 1

VARIABLES
  gui, running, \* the window is open, asks whether to stop and exit, or is gone; a run is up
  form, half,   \* what the fields say, and whether _collect() refuses it
  timer,        \* _autosave_after_id is set
  saving, after, \* how far save() is, and what its caller goes on with
  config, full, \* config.json and config.json.full.json
  reading, pressed, \* a backend is about to read config.json; SAVE was pressed since START
  saved, begun, interrupted, unsaved
    \* history: the last save that was completed, the endpoints of the last one
    \* begun, how many were begun since, and whether the form has changes that
    \* neither a save nor a timer accounts for

formVars == <<form, half>>
fileVars == <<config, full>>
callVars == <<saving, after>>
backendVars == <<running, reading, pressed>>
historyVars == <<saved, begun, interrupted, unsaved>>
svars == <<gui, formVars, timer, callVars, fileVars, backendVars, historyVars>>

Values == [inj : 1 .. MAX_EPS, extra : 0 .. MAX_EXTRA]

\* A file that is missing, empty or cut off.
Torn == 0
TornFull == [inj |-> 0, extra |-> 0]

\* Mutant: the other file is not looked at.
LoadConfigOnly(c, f) ==
  [inj |-> IF c # Torn THEN c ELSE 1, extra |-> f.extra]

\* load() and migrate(): config.json wins, the full file fills in, then DEFAULTS.
Load(c, f) ==
  [inj |-> IF c # Torn THEN c ELSE IF f # TornFull THEN f.inj ELSE 1, extra |-> f.extra]

Lesser(m, n) == IF m < n THEN m ELSE n

\* apply_cfg(): a longer list is cut.
Shown(v) == [v EXCEPT !.inj = Lesser(v.inj, KEEP)]

\* The constructor also fills a list of one from the file.
ShownAtStart(v) == IF v.inj > 1 THEN Shown(v) ELSE [v EXCEPT !.inj = 1 + FILE_EPS]

\* Any pair of files, also edited by hand; then a cut-off save costs what it costs.
SInit ==
  /\ gui = "open" /\ running = FALSE
  /\ config \in 0 .. MAX_EPS /\ full \in Values \cup {TornFull}
  /\ saved = Load(config, full) /\ form = ShownAtStart(saved) /\ half = FALSE
  /\ timer = FALSE /\ saving = "no" /\ after = "none"
  /\ reading = FALSE /\ pressed = FALSE
  /\ begun = 1 /\ interrupted = IF config = full.inj THEN 0 ELSE 2
  /\ unsaved = (form # saved)

\* The tk loop runs a user's command, or only what is queued and scheduled.
Idle == gui = "open" /\ saving = "no"
Awake == gui # "gone" /\ saving = "no"

-----------------------------------------------------------------------------
(* save(), its caller and its ends. *)

Begin(next) == saving' = "opening" /\ after' = next

\* One file at a time: truncated, then whole.
Write ==
  /\ \/ /\ saving = "opening" /\ saving' = "config"
        /\ config' = Torn /\ begun' = form.inj
        /\ interrupted' = Lesser(interrupted + 1, 2)
        /\ UNCHANGED full
     \/ /\ saving = "config" /\ saving' = "between"
        /\ config' = form.inj
        /\ UNCHANGED <<full, begun, interrupted>>
     \/ /\ saving = "between" /\ saving' = "full"
        /\ full' = TornFull
        /\ UNCHANGED <<config, begun, interrupted>>
  /\ UNCHANGED <<gui, formVars, timer, after, backendVars, saved, unsaved>>

\* start() goes on when save_only() has returned; on_closing() in any case.
Return(ok) ==
  /\ saving' = "no" /\ after' = "none"
  /\ IF after = "start" /\ ok
       THEN \/ running' = TRUE /\ reading' = TRUE /\ pressed' = FALSE
            \/ UNCHANGED backendVars              \* Popen() raises
       ELSE UNCHANGED backendVars
  /\ gui' = IF after = "close" THEN "gone" ELSE gui

SaveDone ==
  /\ saving = "full"
  /\ full' = form /\ saved' = form
  /\ interrupted' = 0 /\ unsaved' = FALSE
  /\ Return(TRUE)
  /\ UNCHANGED <<formVars, timer, config, begun>>

\* An exception: no space, the file is locked by another program.
SaveRaises ==
  /\ saving \in {"opening", "config", "between", "full"}
  /\ unsaved' = TRUE
  /\ Return(FALSE)
  /\ UNCHANGED <<formVars, timer, fileVars, saved, begun, interrupted>>

-----------------------------------------------------------------------------
(* The form. *)

\* The trace of a field: typing, and the results of the background tools, which come
\* over the queue and also while the question of on_closing() is open.
Edit ==
  /\ Awake
  /\ \/ half' = FALSE /\ form' \in Values \ {form}
     \/ half' = TRUE /\ UNCHANGED form
  /\ timer' = (timer \/ ~running)
  /\ unsaved' = (unsaved \/ running)
  /\ UNCHANGED <<gui, callVars, fileVars, backendVars, saved, begun, interrupted>>

\* profile_load(): of any profile saved once; the traces are held back.
LoadProfile ==
  /\ Idle
  /\ form' \in {Shown(v) : v \in Values} /\ half' = FALSE
  /\ unsaved' = TRUE
  /\ UNCHANGED <<gui, timer, callVars, fileVars, backendVars, saved, begun, interrupted>>

\* Mutant: it also saves while the backend runs.
AutosaveAllowedAlways == ~half

AutosaveAllowed == ~running /\ ~half

DoAutosave(next) ==
  IF AutosaveAllowed THEN Begin(next) ELSE UNCHANGED callVars

AutosaveFires ==
  /\ Awake /\ timer
  /\ timer' = FALSE
  /\ DoAutosave("none")
  /\ UNCHANGED <<gui, formVars, fileVars, backendVars, historyVars>>

\* save_only() by the SAVE button, refused when the form does not collect.
SavePressed ==
  /\ Idle /\ ~half
  /\ Begin("none")
  /\ pressed' = (pressed \/ running)
  /\ UNCHANGED <<gui, formVars, timer, fileVars, running, reading, historyVars>>

-----------------------------------------------------------------------------
(* Runs and the window. *)

StartPressed ==
  /\ Idle /\ ~running /\ ~half
  /\ Begin("start")
  /\ UNCHANGED <<gui, formVars, timer, fileVars, backendVars, historyVars>>

\* main.py's load_config(), at some time while the GUI goes on.
BackendReads ==
  /\ reading /\ reading' = FALSE
  /\ UNCHANGED <<gui, formVars, timer, callVars, fileVars, running, pressed, historyVars>>

\* STOP, or the backend has ended by itself.
RunEnds ==
  /\ Awake /\ running
  /\ running' = FALSE /\ reading' = FALSE
  /\ UNCHANGED <<gui, formVars, timer, callVars, fileVars, pressed, historyVars>>

\* Mutant: a pending autosave is only cancelled.
FlushForgotten == UNCHANGED callVars

Flush == IF timer THEN DoAutosave("close") ELSE UNCHANGED callVars

\* on_closing(): the flush, then the question while a run is up, else destroy().
Close ==
  /\ Idle
  /\ timer' = FALSE
  /\ Flush
  /\ gui' = IF running THEN "asking" ELSE IF saving' = "no" THEN "gone" ELSE gui
  /\ UNCHANGED <<formVars, fileVars, backendVars, historyVars>>

\* askyesno() has kept a loop of its own running: what the fields got meanwhile is
\* not flushed again, and destroy() takes a timer that was set since with it.
Answer ==
  /\ gui = "asking" /\ saving = "no"
  /\ \/ gui' = "open" /\ UNCHANGED <<timer, running, reading, unsaved>>
     \/ /\ gui' = "gone" /\ running' = FALSE /\ reading' = FALSE
        /\ timer' = FALSE /\ unsaved' = (unsaved \/ timer)
  /\ UNCHANGED <<formVars, callVars, fileVars, pressed, saved, begun, interrupted>>

\* The GUI dies, maybe in the middle of save().
GuiCrash ==
  /\ gui # "gone" /\ gui' = "gone"
  /\ saving' = "no" /\ after' = "none" /\ timer' = FALSE
  /\ running' = FALSE /\ reading' = FALSE
  /\ unsaved' = (unsaved \/ timer \/ saving # "no")
  /\ UNCHANGED <<formVars, fileVars, pressed, saved, begun, interrupted>>

Reopen ==
  /\ gui = "gone" /\ gui' = "open"
  /\ form' = ShownAtStart(Load(config, full)) /\ half' = FALSE
  /\ unsaved' = (form' # Load(config, full))
  /\ UNCHANGED <<timer, callVars, fileVars, backendVars, saved, begun, interrupted>>

SNext ==
  \/ Write \/ SaveDone \/ SaveRaises
  \/ Edit \/ LoadProfile \/ AutosaveFires \/ SavePressed
  \/ StartPressed \/ BackendReads \/ RunEnds
  \/ Close \/ Answer \/ GuiCrash \/ Reopen

SSpec == SInit /\ [][SNext]_svars

-----------------------------------------------------------------------------
(* Correctness. *)

\* Type invariant.
STypeOK ==
  /\ gui \in {"open", "asking", "gone"} /\ running \in BOOLEAN
  /\ form \in Values /\ half \in BOOLEAN /\ timer \in BOOLEAN
  /\ saving \in {"no", "opening", "config", "between", "full"}
  /\ after \in {"none", "start", "close"}
  /\ config \in 0 .. MAX_EPS /\ full \in Values \cup {TornFull}
  /\ reading \in BOOLEAN /\ pressed \in BOOLEAN
  /\ saved \in Values /\ begun \in 1 .. MAX_EPS
  /\ interrupted \in 0 .. 2 /\ unsaved \in BOOLEAN

\* What can be loaded is the last complete save; and when one save was cut off
\* since, wherever, the settings of the backend are those of the last complete
\* save or those of the cut-off one: never the defaults, never a mixture
\* (save() and load() of config_manager.py).
OneBrokenSave ==
  /\ interrupted = 0 => Load(config, full) = saved
  /\ interrupted = 1 => Load(config, full).inj \in {saved.inj, begun}

\* When no autosave is pending the files hold what the form says, also after
\* the window was closed in the middle of the debounce time.  Left out are a
\* form that does not collect and changes the code does not follow: made while a
\* run is up, by a profile, before an exception or a crash, and by a tool while
\* the question of on_closing() is open and then answered with Yes
\* (_schedule_autosave(), _do_autosave(), on_closing()).
EditsReachDisk ==
  saving = "no" /\ ~timer /\ ~half /\ ~unsaved => Load(config, full) = form

\* A backend that was started, and has not read its configuration yet, finds
\* the whole of what START saved; only SAVE, pressed meanwhile, can take it away
\* (start(), _do_autosave(), load_config() of main.py).
BackendReadsWhole ==
  reading /\ ~pressed => saving = "no" /\ config = saved.inj
=============================================================================
