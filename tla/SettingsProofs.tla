--------------------------- MODULE SettingsProofs ---------------------------
(***************************************************************************)
(* Proofs about Settings: the files keep up with the form, for any bounds  *)
(* on the settings.                                                        *)
(***************************************************************************)
EXTENDS Settings, TLAPS

\* How far save() is tells what is in the files.
SaveInv ==
  /\ saving # "no" => gui # "gone" /\ ~half
  /\ saving \in {"config", "between", "full"} => begun = form.inj /\ interrupted # 0
  /\ saving = "config" => config = Torn
  /\ saving \in {"between", "full"} => config = form.inj
  /\ saving = "full" => full = TornFull
  /\ interrupted = 0 => config = full.inj

\* Who called save(), and what a run keeps.
RunInv ==
  /\ gui = "gone" => ~running
  /\ reading => running
  /\ after # "none" => saving # "no" /\ ~running
  /\ running /\ saving # "no" => pressed
  /\ running /\ saving = "no" /\ ~half /\ ~unsaved => Load(config, full) = form

SInv == STypeOK /\ SaveInv /\ RunInv /\ OneBrokenSave /\ EditsReachDisk /\ BackendReadsWhole

-----------------------------------------------------------------------------
LEMMA LesserType ==
  ASSUME NEW m \in Nat, NEW n \in Nat
  PROVE  Lesser(m, n) \in {m, n} /\ Lesser(m, n) <= m /\ Lesser(m, n) <= n
BY DEF Lesser

LEMMA ShownType ==
  ASSUME NEW v \in Values
  PROVE  Shown(v) \in Values /\ ShownAtStart(v) \in Values
<1>1. Lesser(v.inj, KEEP) \in 1 .. MAX_EPS
  BY SettingsAssumption, LesserType DEF Values
<1>2. 1 + FILE_EPS \in 1 .. MAX_EPS
  BY SettingsAssumption
<1> HIDE SettingsAssumption
<1>3. QED
  BY <1>1, <1>2 DEF Shown, ShownAtStart, Values

LEMMA LoadType ==
  ASSUME NEW c \in 0 .. MAX_EPS, NEW f \in Values \cup {TornFull}
  PROVE  /\ Load(c, f) \in Values
         /\ c # Torn => Load(c, f).inj = c
         /\ c = Torn /\ f # TornFull => Load(c, f).inj = f.inj
         /\ Load(c, f).extra = f.extra
<1>1. f # TornFull => f \in Values
  OBVIOUS
<1>2. QED
  BY <1>1, SettingsAssumption DEF Load, Values, Torn, TornFull

\* A whole pair of files is read back as it was written.
LEMMA WholeIsRead ==
  ASSUME NEW v \in Values
  PROVE  Load(v.inj, v) = v
BY SettingsAssumption DEF Load, Values, Torn, TornFull

\* Without config.json the answer is as with a config.json of the same save.
LEMMA FullIsEnough ==
  ASSUME NEW f \in Values \cup {TornFull}
  PROVE  Load(Torn, f).inj = Load(f.inj, f).inj
BY SettingsAssumption DEF Load, Values, Torn, TornFull

-----------------------------------------------------------------------------
LEMMA Initial == SInit => SInv
<1> SUFFICES ASSUME SInit PROVE SInv
  OBVIOUS
<1>1. Load(config, full) \in Values
  BY LoadType DEF SInit
<1>2. form \in Values
  BY <1>1, ShownType DEF SInit
<1>3. /\ interrupted \in {0, 2} /\ begun \in 1 .. MAX_EPS /\ unsaved \in BOOLEAN
      /\ interrupted = 0 => config = full.inj
  BY SettingsAssumption DEF SInit
<1>4. STypeOK
  <2>1. saved \in Values /\ interrupted \in 0 .. 2
    BY <1>1, <1>3 DEF SInit
  <2>2. QED
    BY <1>2, <1>3, <2>1 DEF SInit, STypeOK
<1>5. SaveInv /\ RunInv /\ OneBrokenSave /\ EditsReachDisk /\ BackendReadsWhole
  BY <1>3 DEF SInit, SaveInv, RunInv, OneBrokenSave, EditsReachDisk, BackendReadsWhole
<1>6. QED
  BY <1>4, <1>5 DEF SInv

LEMMA Step == SInv /\ [SNext]_svars => SInv'
<1> SUFFICES ASSUME SInv, [SNext]_svars PROVE SInv'
  OBVIOUS
<1> USE DEF SInv
<1>1. CASE Write
  <2>1. CASE saving = "opening" /\ saving' = "config" /\ config' = Torn
             /\ begun' = form.inj /\ interrupted' = Lesser(interrupted + 1, 2) /\ UNCHANGED full
    <3>1. interrupted' \in 1 .. 2 /\ (interrupted' = 1 => interrupted = 0)
      BY <2>1, SettingsAssumption DEF STypeOK, Lesser
    <3>2. STypeOK'
      BY <1>1, <2>1, <3>1, SettingsAssumption DEF Write, STypeOK, Torn, formVars, backendVars, Values
    <3>3. interrupted' = 1 => Load(config', full').inj = saved'.inj
      BY <1>1, <2>1, <3>1, FullIsEnough DEF Write, STypeOK, OneBrokenSave, SaveInv
    <3>4. OneBrokenSave'
      BY <3>1, <3>3, <2>1, <1>1, SettingsAssumption DEF OneBrokenSave
    <3>5. SaveInv' /\ RunInv' /\ EditsReachDisk' /\ BackendReadsWhole'
      BY <1>1, <2>1, <3>1 DEF Write, SaveInv, RunInv, EditsReachDisk, BackendReadsWhole, formVars, backendVars, STypeOK
    <3>6. QED
      BY <3>2, <3>4, <3>5
  <2>2. CASE saving = "config" /\ saving' = "between" /\ config' = form.inj
             /\ UNCHANGED <<full, begun, interrupted>>
    <3>1. form.inj \in 1 .. MAX_EPS
      BY DEF STypeOK, Values
    <3>2. STypeOK'
      BY <1>1, <2>2, <3>1, SettingsAssumption DEF Write, STypeOK, formVars, backendVars
    <3>3. Load(config', full').inj = begun'
      BY <2>2, <3>1, <3>2, LoadType DEF SaveInv, STypeOK, Torn
    <3>4. SaveInv' /\ RunInv' /\ EditsReachDisk' /\ BackendReadsWhole' /\ interrupted' # 0
      BY <1>1, <2>2 DEF Write, SaveInv, RunInv, EditsReachDisk, BackendReadsWhole, formVars, backendVars
    <3>5. QED
      BY <3>2, <3>3, <3>4 DEF OneBrokenSave
  <2>3. CASE saving = "between" /\ saving' = "full" /\ full' = TornFull
             /\ UNCHANGED <<config, begun, interrupted>>
    <3>1. STypeOK'
      BY <1>1, <2>3 DEF Write, STypeOK, formVars, backendVars
    <3>2. config' = begun' /\ config' # Torn
      BY <2>3 DEF SaveInv, STypeOK, Values, Torn
    <3>3. Load(config', full').inj = begun'
      BY <3>1, <3>2, LoadType DEF STypeOK
    <3>4. SaveInv' /\ RunInv' /\ EditsReachDisk' /\ BackendReadsWhole' /\ interrupted' # 0
      BY <1>1, <2>3 DEF Write, SaveInv, RunInv, EditsReachDisk, BackendReadsWhole, formVars, backendVars
    <3>5. QED
      BY <3>1, <3>3, <3>4 DEF OneBrokenSave
  <2>4. QED
    BY <1>1, <2>1, <2>2, <2>3 DEF Write
<1>2. CASE SaveDone
  <2>1. STypeOK'
    <3>1. running' \in BOOLEAN /\ reading' \in BOOLEAN /\ pressed' \in BOOLEAN /\ gui' \in {"open", "asking", "gone"}
      BY <1>2 DEF SaveDone, Return, STypeOK, backendVars
    <3>2. saving' = "no" /\ after' = "none"
      BY <1>2 DEF SaveDone, Return
    <3>3. form' \in Values /\ half' \in BOOLEAN /\ timer' \in BOOLEAN /\ saved' \in Values
      BY <1>2 DEF SaveDone, STypeOK, formVars
    <3>4. full' \in Values /\ config' \in 0 .. MAX_EPS /\ begun' \in 1 .. MAX_EPS
      BY <1>2 DEF SaveDone, STypeOK
    <3>5. interrupted' = 0 /\ unsaved' = FALSE
      BY <1>2 DEF SaveDone
    <3>6. interrupted' \in 0 .. 2
      BY <3>5
    <3>7. unsaved' \in BOOLEAN
      BY <3>5
    <3>8. QED
      BY <3>1, <3>2, <3>3, <3>4, <3>6, <3>7 DEF STypeOK
  <2>2. config' = form'.inj /\ full' = form' /\ form' \in Values
    BY <1>2 DEF SaveDone, SaveInv, STypeOK, formVars
  <2>3. Load(config', full') = form'
    BY <2>2, WholeIsRead
  <2>4. saved' = form' /\ saving' = "no" /\ interrupted' = 0
    BY <1>2 DEF SaveDone, Return, formVars
  <2>5. RunInv'
    BY <1>2, <2>3, <2>4 DEF SaveInv, SaveDone, Return, RunInv, backendVars
  <2>6. QED
    BY <2>1, <2>2, <2>3, <2>4, <2>5 DEF SaveInv, OneBrokenSave, EditsReachDisk, BackendReadsWhole
<1>3. CASE SaveRaises
  BY <1>3 DEF SaveRaises, Return, STypeOK, SaveInv, RunInv, OneBrokenSave, EditsReachDisk,
     BackendReadsWhole, formVars, fileVars, backendVars
<1>4. CASE Edit
  BY <1>4 DEF Edit, Awake, STypeOK, SaveInv, RunInv, OneBrokenSave, EditsReachDisk,
     BackendReadsWhole, callVars, fileVars, backendVars
<1>5. CASE LoadProfile
  <2>1. form' \in Values
    BY <1>5, ShownType DEF LoadProfile
  <2>2. QED
    BY <1>5, <2>1 DEF LoadProfile, Idle, STypeOK, SaveInv, RunInv, OneBrokenSave, EditsReachDisk,
       BackendReadsWhole, callVars, fileVars, backendVars
<1>6. CASE AutosaveFires
  <2>1. STypeOK'
    BY <1>6 DEF AutosaveFires, DoAutosave, AutosaveAllowed, Begin, Awake, STypeOK,
       formVars, callVars, fileVars, backendVars, historyVars
  <2>2. SaveInv' /\ OneBrokenSave'
    BY <1>6 DEF AutosaveFires, DoAutosave, AutosaveAllowed, Begin, Awake, SaveInv, OneBrokenSave,
       formVars, callVars, fileVars, backendVars, historyVars
  <2>3. RunInv' /\ BackendReadsWhole'
    BY <1>6 DEF AutosaveFires, DoAutosave, AutosaveAllowed, Begin, Awake, STypeOK, RunInv, BackendReadsWhole,
       formVars, callVars, fileVars, backendVars, historyVars
  <2>4. EditsReachDisk'
    BY <1>6 DEF AutosaveFires, DoAutosave, AutosaveAllowed, Begin, Awake, STypeOK, RunInv, EditsReachDisk,
       formVars, callVars, fileVars, backendVars, historyVars
  <2>5. QED
    BY <2>1, <2>2, <2>3, <2>4
<1>7. CASE SavePressed
  BY <1>7 DEF SavePressed, Begin, Idle, STypeOK, SaveInv, RunInv,
     OneBrokenSave, EditsReachDisk, BackendReadsWhole, formVars, fileVars, historyVars
<1>8. CASE StartPressed
  BY <1>8 DEF StartPressed, Begin, Idle, STypeOK, SaveInv, RunInv,
     OneBrokenSave, EditsReachDisk, BackendReadsWhole, formVars, fileVars, backendVars, historyVars
<1>9. CASE BackendReads
  <2>1. STypeOK'
    BY <1>9 DEF BackendReads, STypeOK, formVars, callVars, fileVars, historyVars
  <2>2. SaveInv' /\ OneBrokenSave'
    BY <1>9 DEF BackendReads, SaveInv, OneBrokenSave, formVars, callVars, fileVars, historyVars
  <2>3. RunInv' /\ BackendReadsWhole'
    BY <1>9 DEF BackendReads, RunInv, BackendReadsWhole, formVars, callVars, fileVars, historyVars
  <2>4. EditsReachDisk'
    BY <1>9 DEF BackendReads, EditsReachDisk, formVars, callVars, fileVars, historyVars
  <2>5. QED
    BY <2>1, <2>2, <2>3, <2>4
<1>10. CASE RunEnds
  BY <1>10 DEF RunEnds, Awake, STypeOK, SaveInv, RunInv,
     OneBrokenSave, EditsReachDisk, BackendReadsWhole, formVars, callVars, fileVars, historyVars
<1>11. CASE Close
  BY <1>11 DEF Close, Flush, DoAutosave, AutosaveAllowed, Begin, Idle, STypeOK, SaveInv, RunInv,
     OneBrokenSave, EditsReachDisk, BackendReadsWhole, formVars, callVars, fileVars, backendVars, historyVars
<1>12. CASE GuiCrash
  BY <1>12 DEF GuiCrash, STypeOK, SaveInv, RunInv,
     OneBrokenSave, EditsReachDisk, BackendReadsWhole, formVars, fileVars
<1>13. CASE Reopen
  <2>1. Load(config, full) \in Values
    BY LoadType DEF STypeOK
  <2>2. form' \in Values
    BY <1>13, <2>1, ShownType DEF Reopen
  <2>3. UNCHANGED Load(config, full)
    BY <1>13 DEF Reopen, fileVars
  <2>4. saving = "no" /\ running = FALSE
    BY <1>13 DEF Reopen, SaveInv, RunInv, STypeOK
  <2>5. QED
    BY <1>13, <2>2, <2>3, <2>4 DEF Reopen, STypeOK, SaveInv, RunInv, OneBrokenSave, EditsReachDisk,
       BackendReadsWhole, callVars, fileVars, backendVars
<1>14. CASE Answer
  <2>1. CASE gui' = "open" /\ UNCHANGED <<timer, running, reading, unsaved>>
    BY <1>14, <2>1 DEF Answer, STypeOK, SaveInv, RunInv, OneBrokenSave, EditsReachDisk,
       BackendReadsWhole, formVars, callVars, fileVars
  <2>2. CASE gui' = "gone" /\ running' = FALSE /\ reading' = FALSE
             /\ timer' = FALSE /\ unsaved' = (unsaved \/ timer)
    BY <1>14, <2>2 DEF Answer, STypeOK, SaveInv, RunInv, OneBrokenSave, EditsReachDisk,
       BackendReadsWhole, formVars, callVars, fileVars
  <2>3. QED
    BY <1>14, <2>1, <2>2 DEF Answer
<1>15. CASE UNCHANGED svars
  BY <1>15 DEF svars, STypeOK, SaveInv, RunInv, OneBrokenSave, EditsReachDisk, BackendReadsWhole,
     formVars, callVars, fileVars, backendVars, historyVars
<1>16. QED
  BY <1>1, <1>2, <1>3, <1>4, <1>5, <1>6, <1>7, <1>8, <1>9, <1>10, <1>11, <1>12, <1>13, <1>14, <1>15 DEF SNext

LEMMA SettingsInvariance == SSpec => []SInv
BY Initial, Step, PTL DEF SSpec

-----------------------------------------------------------------------------
\* Every variable keeps its type.
THEOREM SettingsTyped == SSpec => []STypeOK
BY SettingsInvariance, PTL DEF SInv

\* One save cut off anywhere costs the backend none of its settings.
THEOREM OneBrokenSaveCostsNothing == SSpec => []OneBrokenSave
BY SettingsInvariance, PTL DEF SInv

\* Without a pending autosave the files hold the form, before and after the
\* window is closed.
THEOREM EditsSurvive == SSpec => []EditsReachDisk
BY SettingsInvariance, PTL DEF SInv

\* The backend of a START reads what START saved.
THEOREM StartIsRead == SSpec => []BackendReadsWhole
BY SettingsInvariance, PTL DEF SInv
=============================================================================
