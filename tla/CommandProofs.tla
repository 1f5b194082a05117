---------------------------- MODULE CommandProofs ----------------------------
(***************************************************************************)
(* The hooks, gsd-tools commit and config.json, for any number of          *)
(* processes, files and commands and any settings.                         *)
(***************************************************************************)
EXTENDS MCTools, FiniteSetTheorems, SequenceTheorems, TLAPS

-----------------------------------------------------------------------------
(* The context monitor. *)

MonitorSteps == {"idle", "count", "open", "write", "spawn", "save", "sign", "say"}
WarnData == [calls : Nat, level : Levels \cup {"none"}, recorded : BOOLEAN]
WarnFiles == [form : {"missing", "empty", "torn", "text"}, data : WarnData]
MonitorRecords == [at : MonitorSteps, level : Levels, data : WarnData, active : BOOLEAN]

MonitorTypes ==
    /\ bridge \in [form : {"missing", "torn", "text"}, level : Levels, fresh : BOOLEAN]
    /\ warn \in WarnFiles
    /\ monitor \in [Monitors -> MonitorRecords]
    /\ spawned \in Nat /\ silent \in Nat

\* Whoever knows the session as recorded, or is about to tell the agent so,
\* comes after the record, or after a spawn that threw.
Recorded ==
    /\ warn.data.recorded => spawned > 0
    /\ claimed => spawned > 0 \/ "spawn" \in failed
    /\ \A m \in Monitors :
          /\ monitor[m].data.recorded => spawned > 0
          /\ monitor[m].at \in {"save", "sign"} => spawned > 0
          /\ monitor[m].at = "say" /\ monitor[m].level = "critical" /\ monitor[m].active =>
                spawned > 0 \/ "spawn" \in failed

\* A record that was started is remembered, while the counter can be written.
Remembers(data) == "save" \notin failed => (spawned > 0 => data.recorded)

\* The counter, between two tool uses: when nothing was ever written, nothing
\* was told; when it could not be, a message was just given; else it has the
\* uses in silence and the last level told.
Kept(form, data) ==
    /\ form # "torn"
    /\ form = "missing" => spawned = 0 /\ silent = 0 /\ last = "none"
    /\ form = "empty" => "save" \in failed /\ silent = 0
    /\ form = "text" => /\ silent = data.calls /\ silent < DEBOUNCE_CALLS /\ data.level = last
                        /\ Remembers(data)

\* What a monitor that is to speak takes with it.
Told(level, data) == silent < DEBOUNCE_CALLS /\ data.calls = 0 /\ data.level = level /\ Remembers(data)

\* What a monitor that has not overlapped another holds in its hands.
Held(m) ==
    LET d     == monitor[m].data
        level == monitor[m].level
    IN
    /\ monitor[m].at \in {"open", "write"} =>
          IF d.calls > 0 THEN Kept("text", d) ELSE Told(level, d)
    /\ monitor[m].at \in {"spawn", "save", "sign"} => Told(level, d)
    /\ monitor[m].at = "write" => warn.form = "empty"
    /\ monitor[m].at = "spawn" => ~d.recorded /\ warn.form = "text" /\ warn.data = d
    /\ monitor[m].at = "save" => d.recorded /\ warn.form = "text" /\ warn.data.calls = 0 /\ warn.data.level = level
    /\ monitor[m].at = "sign" => d.recorded /\ warn.form = "empty"
    /\ monitor[m].at = "say" => /\ silent < DEBOUNCE_CALLS
                                /\ \/ warn.form = "text" /\ Told(level, warn.data)
                                   \/ warn.form = "empty" /\ "save" \in failed

Resting == \A m \in Monitors : monitor[m].at \in {"idle", "count"}

Unmixed ==
    /\ \A m, n \in Monitors : monitor[m].at # "idle" /\ monitor[n].at # "idle" => m = n
    /\ "save" \notin failed => spawned <= 1
    /\ ~deaf /\ silent < DEBOUNCE_CALLS
    /\ \A m \in Monitors : monitor[m].at # "idle" => Held(m)
    /\ Resting => Kept(warn.form, warn.data)

MonitorInv == MonitorTypes /\ Recorded /\ (~mixed => Unmixed)

LEMMA MonitorInitInv == MonitorInit => MonitorInv
<1> SUFFICES ASSUME MonitorInit PROVE MonitorInv
    OBVIOUS
<1> USE DebounceAssumption DEF MonitorInit, Asleep, NoData
<1>1. MonitorTypes
    BY DEF MonitorTypes, MonitorRecords, MonitorSteps, WarnFiles, WarnData, Levels
<1>2. Recorded
    BY DEF Recorded
<1>3. Unmixed
    BY DEF Unmixed, Kept
<1> QED
    BY <1>1, <1>2, <1>3 DEF MonitorInv

\* What a monitor makes of the counter it reads.
LEMMA CountedValues ==
    ASSUME MonitorTypes
    PROVE  /\ Counted \in WarnData
           /\ Counted.recorded = IF warn.form = "text" THEN warn.data.recorded ELSE FALSE
           /\ Counted.calls > 0 /\ Counted.calls \in {1, warn.data.calls + 1}
           /\ warn.form = "text" => Counted.calls = warn.data.calls + 1 /\ Counted.level = warn.data.level
<1>1. warn.data \in WarnData
    BY DEF MonitorTypes, WarnFiles
<1>2. [warn.data EXCEPT !.calls = warn.data.calls + 1] \in WarnData
      /\ [warn.data EXCEPT !.calls = warn.data.calls + 1].calls = warn.data.calls + 1
      /\ [warn.data EXCEPT !.calls = warn.data.calls + 1].level = warn.data.level
      /\ [warn.data EXCEPT !.calls = warn.data.calls + 1].recorded = warn.data.recorded
      /\ warn.data.calls \in Nat
    BY <1>1 DEF WarnData
<1>3. /\ [NoData EXCEPT !.calls = 1] \in WarnData /\ [NoData EXCEPT !.calls = 1].recorded = FALSE
      /\ [NoData EXCEPT !.calls = 1].calls = 1
    BY DEF NoData, WarnData
<1>4. Counted \in WarnData /\ Counted.calls > 0 /\ Counted.calls \in {1, warn.data.calls + 1}
    BY <1>2, <1>3 DEF Counted
<1>5. Counted.recorded = IF warn.form = "text" THEN warn.data.recorded ELSE FALSE
    BY <1>2, <1>3 DEF Counted
<1>6. warn.form = "text" => Counted.calls = warn.data.calls + 1 /\ Counted.level = warn.data.level
    BY <1>2 DEF Counted
<1> QED
    BY <1>4, <1>5, <1>6

\* What is in the file when a monitor has written.
LEMMA OverlaidValues ==
    ASSUME MonitorTypes, NEW d \in WarnData, NEW w \in Overlaid(d)
    PROVE  /\ w \in WarnFiles /\ (w.data = d \/ w.data = NoData)
           /\ warn.form = "empty" => w.form = "text" /\ w.data = d
<1>1. NoData \in WarnData
    BY DEF NoData, WarnData
<1>2. [Emptied EXCEPT !.form = "torn"] = [form |-> "torn", data |-> NoData]
    BY DEF Emptied
<1> QED
    BY <1>1, <1>2 DEF Overlaid, WarnFiles

\* The record of a monitor after each of its steps.
LEMMA MonitorMoves ==
    ASSUME MonitorTypes, NEW m \in Monitors, NEW to \in MonitorSteps, MonitorGoes(m, to)
    PROVE  \E x \in MonitorRecords :
              /\ monitor' = [monitor EXCEPT ![m] = x] /\ x.at = to /\ x.level = monitor[m].level
              /\ x.data = monitor[m].data /\ x.active = monitor[m].active
<1>1. PICK r \in MonitorRecords : r = monitor[m]
    BY DEF MonitorTypes
<1>2. /\ [r EXCEPT !.at = to] \in MonitorRecords /\ [r EXCEPT !.at = to].at = to
      /\ [r EXCEPT !.at = to].level = r.level /\ [r EXCEPT !.at = to].data = r.data
      /\ [r EXCEPT !.at = to].active = r.active
    BY DEF MonitorRecords
<1>3. monitor' = [monitor EXCEPT ![m] = [r EXCEPT !.at = to]]
    BY <1>1 DEF MonitorGoes
<1> QED
    BY <1>1, <1>2, <1>3

LEMMA UseMoves ==
    ASSUME MonitorTypes, NEW m \in Monitors, ToolUse(m)
    PROVE  \E x \in MonitorRecords :
              /\ monitor' = [monitor EXCEPT ![m] = x]
              /\ x = monitor[m] \/ (x.at = "count" /\ x.data = NoData /\ x.data.recorded = FALSE)
<1>1. /\ monitor[m] \in MonitorRecords /\ bridge.level \in Levels
      /\ monitor \in [Monitors -> MonitorRecords]
    BY DEF MonitorTypes
<1>2. PICK r \in MonitorRecords : r = Asleep
    <2>1. Asleep \in MonitorRecords
        BY DEF Asleep, NoData, WarnData, MonitorRecords, MonitorSteps, Levels
    <2> QED
        BY <2>1
<1>3. r.data = NoData /\ NoData.recorded = FALSE
    BY <1>2 DEF Asleep, NoData
<1>4. PICK level \in Levels : level = bridge.level
    BY <1>1
<1>5. /\ [r EXCEPT !.at = "count", !.level = level] \in MonitorRecords
      /\ [r EXCEPT !.at = "count", !.level = level].at = "count"
      /\ [r EXCEPT !.at = "count", !.level = level].data = r.data
    BY DEF MonitorRecords, MonitorSteps
<1>6. PICK x \in MonitorRecords :
        x = [r EXCEPT !.at = "count", !.level = level] /\ x.at = "count" /\ x.data = NoData
    BY <1>3, <1>5
<1>7. monitor' = [monitor EXCEPT ![m] = x] \/ monitor' = [monitor EXCEPT ![m] = monitor[m]]
    BY <1>2, <1>4, <1>6 DEF ToolUse
<1> QED
    BY <1>1, <1>3, <1>6, <1>7

LEMMA ReadMoves ==
    ASSUME MonitorTypes, NEW m \in Monitors, ReadCount(m)
    PROVE  \E x \in MonitorRecords :
              /\ monitor' = [monitor EXCEPT ![m] = x] /\ x.at = "open" /\ x.level = monitor[m].level
              /\ IF Quiet(x.level) THEN x.data = Counted
                 ELSE x.data.calls = 0 /\ x.data.level = x.level /\ x.data.recorded = Counted.recorded
<1>1. PICK r \in MonitorRecords : r = monitor[m]
    BY DEF MonitorTypes
<1>2. r.level \in Levels
    BY DEF MonitorRecords
<1> DEFINE told == [Counted EXCEPT !.calls = 0, !.level = r.level]
<1>a. PICK level \in Levels : level = r.level
    BY <1>2
<1>b. PICK c \in WarnData : c = Counted
    BY CountedValues
<1>c. /\ [c EXCEPT !.calls = 0, !.level = level] \in WarnData
      /\ [c EXCEPT !.calls = 0, !.level = level].calls = 0
      /\ [c EXCEPT !.calls = 0, !.level = level].level = level
      /\ [c EXCEPT !.calls = 0, !.level = level].recorded = c.recorded
    BY DEF WarnData
<1>3. /\ Counted \in WarnData /\ told \in WarnData
      /\ told.calls = 0 /\ told.level = r.level /\ told.recorded = Counted.recorded
    BY <1>a, <1>b, <1>c
<1>4. PICK d \in WarnData : d = IF Quiet(r.level) THEN Counted ELSE told
    BY <1>3
<1>5. monitor' = [monitor EXCEPT ![m] = [r EXCEPT !.at = "open", !.data = d]]
    BY <1>1, <1>4 DEF ReadCount
<1> HIDE DEF told
<1>6. /\ [r EXCEPT !.at = "open", !.data = d] \in MonitorRecords
      /\ [r EXCEPT !.at = "open", !.data = d].at = "open"
      /\ [r EXCEPT !.at = "open", !.data = d].level = r.level
      /\ [r EXCEPT !.at = "open", !.data = d].data = d
    BY DEF MonitorRecords, MonitorSteps
<1> QED
    BY <1>1, <1>3, <1>4, <1>5, <1>6

LEMMA WriteMoves ==
    ASSUME MonitorTypes, NEW m \in Monitors, WriteCount(m)
    PROVE  LET r == monitor[m] IN
           \E x \in MonitorRecords :
              /\ monitor' = [monitor EXCEPT ![m] = x]
              /\ \/ r.data.calls > 0 /\ x.at = "idle" /\ x.data = NoData
                 \/ /\ r.data.calls = 0 /\ x.level = r.level /\ x.data = r.data
                    /\ x.at = IF ToRecord(r.data, r.level, x.active) THEN "spawn" ELSE "say"
<1>1. PICK r \in MonitorRecords : r = monitor[m]
    BY DEF MonitorTypes
<1>2. CASE r.data.calls > 0 /\ monitor' = [monitor EXCEPT ![m] = Asleep]
    <2>1. Asleep \in MonitorRecords /\ Asleep.at = "idle" /\ Asleep.data = NoData
        BY DEF Asleep, MonitorRecords, MonitorSteps, Levels, NoData, WarnData
    <2> QED
        BY <1>1, <1>2, <2>1
<1>3. ASSUME NEW active \in BOOLEAN, r.data.calls = 0,
             monitor' = [monitor EXCEPT
                ![m].at = IF ToRecord(r.data, r.level, active) THEN "spawn" ELSE "say",
                ![m].active = active]
      PROVE  \E x \in MonitorRecords :
              /\ monitor' = [monitor EXCEPT ![m] = x]
              /\ x.level = r.level /\ x.data = r.data
              /\ x.at = IF ToRecord(r.data, r.level, x.active) THEN "spawn" ELSE "say"
    <2>1. PICK to \in MonitorSteps : to = IF ToRecord(r.data, r.level, active) THEN "spawn" ELSE "say"
        BY DEF MonitorSteps
    <2>2. monitor' = [monitor EXCEPT ![m] = [r EXCEPT !.at = to, !.active = active]]
        BY <1>1, <1>3, <2>1, ZenonT(60) DEF MonitorTypes
    <2>3. /\ [r EXCEPT !.at = to, !.active = active] \in MonitorRecords
          /\ [r EXCEPT !.at = to, !.active = active].at = to
          /\ [r EXCEPT !.at = to, !.active = active].level = r.level
          /\ [r EXCEPT !.at = to, !.active = active].data = r.data
          /\ [r EXCEPT !.at = to, !.active = active].active = active
        BY DEF MonitorRecords
    <2> QED
        BY <2>1, <2>2, <2>3
<1> QED
    BY <1>1, <1>2, <1>3 DEF WriteCount

LEMMA SpawnMoves ==
    ASSUME MonitorTypes, NEW m \in Monitors, Spawn(m)
    PROVE  LET r == monitor[m] IN
           \E x \in MonitorRecords :
              /\ monitor' = [monitor EXCEPT ![m] = x] /\ x.at = "save" /\ x.level = r.level
              /\ x.data.calls = r.data.calls /\ x.data.level = r.data.level /\ x.data.recorded = TRUE
<1>1. PICK r \in MonitorRecords : r = monitor[m]
    BY DEF MonitorTypes
<1>2. PICK e \in WarnData : e = r.data
    BY DEF MonitorRecords
<1>3. /\ [e EXCEPT !.recorded = TRUE] \in WarnData /\ [e EXCEPT !.recorded = TRUE].calls = e.calls
      /\ [e EXCEPT !.recorded = TRUE].level = e.level /\ [e EXCEPT !.recorded = TRUE].recorded = TRUE
    BY DEF WarnData
<1>4. PICK d \in WarnData : d = [r.data EXCEPT !.recorded = TRUE] /\ d.calls = r.data.calls
                            /\ d.level = r.data.level /\ d.recorded = TRUE
    BY <1>2, <1>3
<1>5. monitor' = [monitor EXCEPT ![m] = [r EXCEPT !.at = "save", !.data = d]]
    BY <1>1, <1>4, ZenonT(60) DEF Spawn, MonitorTypes
<1>6. /\ [r EXCEPT !.at = "save", !.data = d] \in MonitorRecords
      /\ [r EXCEPT !.at = "save", !.data = d].level = r.level
      /\ [r EXCEPT !.at = "save", !.data = d].at = "save"
      /\ [r EXCEPT !.at = "save", !.data = d].data = d
    BY DEF MonitorRecords, MonitorSteps
<1> QED
    BY <1>1, <1>4, <1>5, <1>6

\* A monitor that does not overlap another takes a step.
LEMMA UnmixedMoves ==
    ASSUME MonitorTypes, Unmixed, NEW m \in Monitors, NEW x \in MonitorRecords,
           monitor' = [monitor EXCEPT ![m] = x], monitor[m].at # "idle",
           "save" \notin failed' => spawned' <= 1, ~deaf', silent' < DEBOUNCE_CALLS,
           x.at # "idle" => Held(m)',
           x.at \in {"idle", "count"} => Kept(warn.form, warn.data)'
    PROVE  Unmixed'
<1>1. monitor'[m] = x /\ \A n \in Monitors : n # m => monitor'[n] = monitor[n]
    BY DEF MonitorTypes
<1>2. \A n \in Monitors : n # m => monitor'[n].at = "idle"
    BY <1>1 DEF Unmixed
<1>3. Resting' => x.at \in {"idle", "count"}
    BY <1>1 DEF Resting
<1> QED
    BY <1>1, <1>2, <1>3 DEF Unmixed

LEMMA MonitorStep == MonitorInv /\ [MonitorNext]_monitorVars => MonitorInv'
<1> SUFFICES ASSUME MonitorInv, [MonitorNext]_monitorVars PROVE MonitorInv'
    OBVIOUS
<1> USE DebounceAssumption
<1>0. MonitorTypes /\ Recorded /\ (~mixed => Unmixed)
    BY DEF MonitorInv
<1>a. /\ bridge.level \in Levels /\ spawned \in Nat /\ silent \in Nat
      /\ warn.form \in {"missing", "empty", "torn", "text"} /\ warn.data \in WarnData
      /\ monitor \in [Monitors -> MonitorRecords]
      /\ \A m \in Monitors : /\ monitor[m] \in MonitorRecords /\ monitor[m].level \in Levels
                             /\ monitor[m].data \in WarnData /\ monitor[m].at \in MonitorSteps
                             /\ monitor[m].data.calls \in Nat
      /\ bridge \in [form : {"missing", "torn", "text"}, level : Levels, fresh : BOOLEAN]
      /\ warn \in WarnFiles
    BY <1>0 DEF MonitorTypes, MonitorRecords, WarnFiles, WarnData
<1>b. /\ NoData \in WarnData /\ Asleep \in MonitorRecords /\ Asleep.at = "idle"
      /\ Asleep.data.recorded = FALSE /\ NoData.recorded = FALSE
      /\ Emptied \in WarnFiles /\ Emptied.form = "empty" /\ Emptied.data = NoData
    BY DEF NoData, WarnData, WarnFiles, Asleep, MonitorRecords, MonitorSteps, Levels, Emptied
<1>1. ASSUME UNCHANGED <<warn, monitor, recordVars, silenceVars, mixed>>,
             bridge' \in [form : {"missing", "torn", "text"}, level : Levels, fresh : BOOLEAN]
      PROVE  MonitorInv'
    <2>0. UNCHANGED <<warn, monitor, spawned, claimed, failed, last, silent, deaf, mixed>>
        BY <1>1 DEF recordVars, silenceVars
    <2>1. MonitorTypes'
        BY <1>0, <1>1, <2>0 DEF MonitorTypes
    <2>2. Recorded'
        BY <1>0, <2>0 DEF Recorded
    <2>3. ~mixed' => Unmixed'
        BY <1>0, <2>0 DEF Unmixed, Resting, Held, Kept, Told, Remembers
    <2> QED
        BY <2>1, <2>2, <2>3 DEF MonitorInv
<1>2. CASE BridgeOpen \/ BridgeAges \/ \E level \in Levels : BridgeWrite(level)
    <2>1. bridge' \in [form : {"missing", "torn", "text"}, level : Levels, fresh : BOOLEAN]
        <3>1. CASE BridgeOpen \/ BridgeAges
            <4>1. bridge' = [bridge EXCEPT !.form = "torn"] \/ bridge' = [bridge EXCEPT !.fresh = FALSE]
                BY <3>1 DEF BridgeOpen, BridgeAges
            <4>2. [bridge EXCEPT !.form = "torn"] \in [form : {"missing", "torn", "text"}, level : Levels, fresh : BOOLEAN]
                BY <1>a
            <4>3. [bridge EXCEPT !.fresh = FALSE] \in [form : {"missing", "torn", "text"}, level : Levels, fresh : BOOLEAN]
                BY <1>a
            <4> QED
                BY <4>1, <4>2, <4>3
        <3>2. CASE \E level \in Levels : BridgeWrite(level)
            BY <3>2 DEF BridgeWrite
        <3> QED
            BY <1>2, <3>1, <3>2
    <2> QED
        BY <1>1, <1>2, <2>1 DEF BridgeOpen, BridgeAges, BridgeWrite
<1>3. ASSUME NEW m \in Monitors, ToolUse(m) PROVE MonitorInv'
    <2>1. /\ UNCHANGED <<bridge, warn, spawned, claimed, failed, last, silent, deaf>>
          /\ monitor[m].at = "idle"
          /\ mixed' = (mixed \/ \E n \in Monitors : monitor[n].at # "idle")
        BY <1>3 DEF ToolUse, recordVars, silenceVars
    <2>2. PICK x \in MonitorRecords :
              /\ monitor' = [monitor EXCEPT ![m] = x]
              /\ x = monitor[m] \/ (x.at = "count" /\ x.data.recorded = FALSE)
        BY <1>0, <1>3, UseMoves
    <2>3. monitor'[m] = x /\ \A n \in Monitors : n # m => monitor'[n] = monitor[n]
        BY <1>a, <2>2
    <2>4. MonitorTypes'
        BY <1>0, <1>a, <2>1, <2>2 DEF MonitorTypes
    <2>5. Recorded'
        BY <1>0, <2>1, <2>2, <2>3 DEF Recorded
    <2>6. ASSUME ~mixed' PROVE Unmixed'
        <3>1. Unmixed /\ \A n \in Monitors : monitor[n].at = "idle"
            BY <1>0, <2>1, <2>6
        <3>2. Kept(warn.form, warn.data)
            BY <3>1 DEF Unmixed, Resting
        <3>3. \A n \in Monitors : monitor'[n].at # "idle" => n = m /\ monitor'[n].at = "count"
            BY <2>1, <2>2, <2>3, <3>1
        <3>4. \A n \in Monitors : monitor'[n].at # "idle" => Held(n)'
            BY <3>3 DEF Held
        <3>5. Kept(warn.form, warn.data)'
            BY <2>1, <3>2 DEF Kept, Remembers
        <3> QED
            BY <2>1, <3>1, <3>3, <3>4, <3>5 DEF Unmixed
    <2> QED
        BY <2>4, <2>5, <2>6 DEF MonitorInv
<1>4. ASSUME NEW m \in Monitors, ReadCount(m) PROVE MonitorInv'
    <2> DEFINE level == monitor[m].level
    <2>1. /\ UNCHANGED <<bridge, warn, spawned, claimed, failed, last, mixed>> /\ monitor[m].at = "count"
          /\ silent' = IF Quiet(level) THEN silent + 1 ELSE silent
          /\ deaf' = (deaf \/ (Quiet(level) /\ level = "critical" /\ last = "warning"))
        BY <1>4 DEF ReadCount, recordVars
    <2>2. /\ Counted \in WarnData /\ Counted.calls > 0
          /\ Counted.recorded = IF warn.form = "text" THEN warn.data.recorded ELSE FALSE
          /\ warn.form = "text" => Counted.calls = warn.data.calls + 1 /\ Counted.level = warn.data.level
        BY <1>0, <1>a, CountedValues
    <2>3. PICK x \in MonitorRecords :
              /\ monitor' = [monitor EXCEPT ![m] = x] /\ x.at = "open" /\ x.level = level
              /\ IF Quiet(level) THEN x.data = Counted
                 ELSE x.data.calls = 0 /\ x.data.level = level /\ x.data.recorded = Counted.recorded
        BY <1>0, <1>4, ReadMoves
    <2>4. monitor'[m] = x /\ \A n \in Monitors : n # m => monitor'[n] = monitor[n]
        BY <1>a, <2>3
    <2>5. MonitorTypes'
        BY <1>0, <1>a, <2>1, <2>3 DEF MonitorTypes
    <2>6. Recorded'
        <3>1. Counted.recorded => spawned > 0
            BY <1>0, <2>2 DEF Recorded
        <3>2. x.data.recorded => spawned > 0
            BY <2>3, <3>1
        <3> QED
            BY <1>0, <2>1, <2>3, <2>4, <3>2 DEF Recorded
    <2>7. ASSUME ~mixed' PROVE Unmixed'
        <3>1. Unmixed
            BY <1>0, <2>1, <2>7
        <3>2. Resting
            BY <2>1, <3>1 DEF Unmixed, Resting
        <3>3. Kept(warn.form, warn.data) /\ silent < DEBOUNCE_CALLS
            BY <3>1, <3>2 DEF Unmixed
        <3>4. Remembers(Counted)
            BY <1>0, <1>a, <2>2, <3>3 DEF Kept, Remembers
        <3>5. CASE Quiet(level)
            <4>1. /\ warn.form = "text" /\ Counted.calls < DEBOUNCE_CALLS
                  /\ ~(level = "critical" /\ Counted.level = "warning")
                BY <3>5 DEF Quiet, Escalated
            <4>2. /\ silent = warn.data.calls /\ Counted.calls = silent + 1 /\ Counted.level = last
                BY <2>2, <3>3, <4>1 DEF Kept
            <4>3. silent' = silent + 1 /\ ~deaf' /\ x.at = "open" /\ x.data = Counted
                BY <2>1, <2>3, <3>1, <3>5, <4>1, <4>2 DEF Unmixed
            <4>4. Kept("text", x.data)'
                <5>1. silent' = x.data.calls /\ silent' < DEBOUNCE_CALLS /\ x.data.level = last'
                    BY <2>1, <4>1, <4>2, <4>3
                <5>2. Remembers(x.data)'
                    BY <2>1, <3>4, <4>3 DEF Remembers
                <5> QED
                    BY <5>1, <5>2 DEF Kept
            <4>5. Held(m)'
                <5>1. monitor'[m].at = "open" /\ monitor'[m].data.calls > 0
                    BY <2>2, <2>4, <4>3
                <5>2. Kept("text", monitor[m].data)'
                    BY <2>4, <4>4
                <5> QED
                    BY <5>1, <5>2 DEF Held
            <4> QED
                BY <1>0, <2>1, <2>3, <3>1, <4>1, <4>2, <4>3, <4>5, UnmixedMoves DEF Unmixed
        <3>6. CASE ~Quiet(level)
            <4>1. silent' = silent /\ ~deaf' /\ x.at = "open" /\ x.data.calls = 0 /\ x.data.level = level
                  /\ x.data.recorded = Counted.recorded
                BY <2>1, <2>3, <3>1, <3>6 DEF Unmixed
            <4>2. Held(m)'
                BY <2>1, <2>3, <2>4, <3>3, <3>4, <4>1 DEF Held, Told, Remembers
            <4> QED
                BY <1>0, <2>1, <2>3, <3>1, <3>3, <4>1, <4>2, UnmixedMoves DEF Unmixed
        <3> QED
            BY <3>5, <3>6
    <2> QED
        BY <2>5, <2>6, <2>7 DEF MonitorInv
<1>5. ASSUME NEW m \in Monitors, OpenCount(m) \/ SaveOpen(m) PROVE MonitorInv'
    <2> DEFINE r == monitor[m]
    <2>1. /\ UNCHANGED <<bridge, spawned, claimed, failed, last, silent, deaf, mixed>> /\ warn' = Emptied
          /\ r.at \in {"open", "save"}
        BY <1>5 DEF OpenCount, SaveOpen, recordVars, silenceVars
    <2>2. PICK x \in MonitorRecords : /\ monitor' = [monitor EXCEPT ![m] = x]
                                      /\ x.at = IF r.at = "open" THEN "write" ELSE "sign"
                                      /\ x.level = r.level /\ x.data = r.data /\ x.active = r.active
        <3>1. PICK to \in MonitorSteps : to = (IF r.at = "open" THEN "write" ELSE "sign") /\ MonitorGoes(m, to)
            BY <1>5 DEF OpenCount, SaveOpen, MonitorSteps
        <3> QED
            BY <1>0, <3>1, MonitorMoves
    <2>3. monitor'[m] = x /\ \A n \in Monitors : n # m => monitor'[n] = monitor[n]
        BY <1>a, <2>2
    <2>4. MonitorTypes'
        BY <1>0, <1>a, <1>b, <2>1, <2>2 DEF MonitorTypes
    <2>5. Recorded'
        BY <1>0, <1>b, <2>1, <2>2, <2>3 DEF Recorded
    <2>6. ASSUME ~mixed' PROVE Unmixed'
        <3>1. Unmixed /\ Held(m)
            BY <1>0, <2>1, <2>6 DEF Unmixed
        <3>2. warn'.form = "empty"
            BY <1>b, <2>1
        <3>3. Held(m)'
            <4>1. CASE r.at = "open"
                BY <2>1, <2>2, <2>3, <3>1, <3>2, <4>1 DEF Held, Kept, Told, Remembers
            <4>2. CASE r.at = "save"
                BY <2>1, <2>2, <2>3, <3>1, <3>2, <4>2 DEF Held, Told, Remembers
            <4> QED
                BY <2>1, <4>1, <4>2
        <3> QED
            BY <1>0, <2>1, <2>2, <3>1, <3>3, UnmixedMoves DEF Unmixed
    <2> QED
        BY <2>4, <2>5, <2>6 DEF MonitorInv
<1>6. ASSUME NEW m \in Monitors, WriteCount(m) PROVE MonitorInv'
    <2> DEFINE r == monitor[m]
    <2>1. /\ UNCHANGED <<bridge, spawned, claimed, failed, last, silent, deaf, mixed>> /\ r.at = "write"
          /\ warn' \in Overlaid(r.data)
        BY <1>6 DEF WriteCount, recordVars, silenceVars
    <2>2. PICK x \in MonitorRecords :
              /\ monitor' = [monitor EXCEPT ![m] = x]
              /\ \/ r.data.calls > 0 /\ x.at = "idle" /\ x.data = NoData
                 \/ /\ r.data.calls = 0 /\ x.level = r.level /\ x.data = r.data
                    /\ x.at = IF ToRecord(r.data, r.level, x.active) THEN "spawn" ELSE "say"
        BY <1>0, <1>6, WriteMoves
    <2>3. monitor'[m] = x /\ \A n \in Monitors : n # m => monitor'[n] = monitor[n]
        BY <1>a, <2>2
    <2>4. /\ warn' \in WarnFiles /\ (warn'.data = r.data \/ warn'.data = NoData)
          /\ warn.form = "empty" => warn'.form = "text" /\ warn'.data = r.data
        BY <1>0, <1>a, <2>1, OverlaidValues
    <2>5. MonitorTypes'
        BY <1>0, <1>a, <2>1, <2>2, <2>4 DEF MonitorTypes
    <2>6. Recorded'
        <3>1. x.data.recorded => spawned > 0
            BY <1>0, <1>b, <2>2 DEF Recorded
        <3>2. x.at \in {"idle", "spawn", "say"}
            BY <2>2
        <3>3. x.at = "say" /\ x.level = "critical" /\ x.active => spawned > 0
            BY <1>0, <2>2 DEF Recorded, ToRecord
        <3>4. warn'.data.recorded => spawned > 0
            BY <1>0, <1>b, <2>4 DEF Recorded
        <3> QED
            BY <1>0, <2>1, <2>3, <3>1, <3>2, <3>3, <3>4 DEF Recorded
    <2>7. ASSUME ~mixed' PROVE Unmixed'
        <3>1. Unmixed /\ Held(m) /\ warn'.form = "text" /\ warn'.data = r.data
            BY <1>0, <2>1, <2>4, <2>7 DEF Unmixed, Held
        <3>2. CASE r.data.calls > 0 /\ x.at = "idle"
            <4>1. Kept("text", r.data)
                BY <2>1, <3>1, <3>2 DEF Held
            <4>2. Kept(warn.form, warn.data)'
                BY <2>1, <3>1, <4>1 DEF Kept, Remembers
            <4> QED
                BY <1>0, <2>1, <2>2, <3>1, <3>2, <4>2, UnmixedMoves DEF Unmixed
        <3>3. CASE /\ r.data.calls = 0 /\ x.level = r.level /\ x.data = r.data
                   /\ x.at = IF ToRecord(r.data, r.level, x.active) THEN "spawn" ELSE "say"
            <4>1. Told(r.level, r.data)
                BY <2>1, <3>1, <3>3 DEF Held
            <4>2. Told(x.level, x.data)' /\ (x.at = "spawn" => ~x.data.recorded) /\ x.at \in {"spawn", "say"}
                BY <2>1, <3>3, <4>1 DEF Told, Remembers, ToRecord
            <4>3. Held(m)'
                <5>1. warn'.data = x.data /\ silent' < DEBOUNCE_CALLS
                    BY <3>1, <3>3, <4>2 DEF Told
                <5> QED
                    BY <2>3, <3>1, <4>2, <5>1 DEF Held
            <4> QED
                BY <1>0, <2>1, <2>2, <3>1, <4>2, <4>3, UnmixedMoves DEF Unmixed
        <3> QED
            BY <2>2, <3>2, <3>3
    <2> QED
        BY <2>5, <2>6, <2>7 DEF MonitorInv
<1>7. ASSUME NEW m \in Monitors, Spawn(m) PROVE MonitorInv'
    <2> DEFINE r == monitor[m]
    <2>1. /\ UNCHANGED <<bridge, warn, claimed, failed, last, silent, deaf, mixed>> /\ r.at = "spawn"
          /\ spawned' = spawned + 1
        BY <1>7 DEF Spawn, silenceVars
    <2>2. PICK x \in MonitorRecords :
              /\ monitor' = [monitor EXCEPT ![m] = x] /\ x.at = "save" /\ x.level = r.level
              /\ x.data.calls = r.data.calls /\ x.data.level = r.data.level /\ x.data.recorded = TRUE
        BY <1>0, <1>7, SpawnMoves
    <2>3. monitor'[m] = x /\ \A n \in Monitors : n # m => monitor'[n] = monitor[n]
        BY <1>a, <2>2
    <2>4. MonitorTypes'
        BY <1>0, <1>a, <2>1, <2>2 DEF MonitorTypes
    <2>5. Recorded'
        BY <1>0, <1>a, <2>1, <2>2, <2>3 DEF Recorded
    <2>6. ASSUME ~mixed' PROVE Unmixed'
        <3>1. Unmixed /\ Held(m)
            BY <1>0, <2>1, <2>6 DEF Unmixed
        <3>2. "save" \notin failed' => spawned' <= 1
            BY <1>a, <2>1, <3>1 DEF Held, Told, Remembers
        <3>3. Held(m)'
            <4>1. /\ Told(r.level, r.data) /\ warn.form = "text" /\ warn.data = r.data
                BY <2>1, <3>1 DEF Held
            <4>2. Told(x.level, x.data)' /\ x.data.recorded
                BY <2>1, <2>2, <4>1 DEF Told, Remembers
            <4>3. warn'.form = "text" /\ warn'.data.calls = 0 /\ warn'.data.level = x.level
                BY <2>1, <2>2, <4>1 DEF Told
            <4> QED
                BY <2>2, <2>3, <4>2, <4>3 DEF Held
        <3> QED
            BY <1>0, <2>1, <2>2, <3>1, <3>2, <3>3, UnmixedMoves DEF Unmixed
    <2> QED
        BY <2>4, <2>5, <2>6 DEF MonitorInv
<1>8. ASSUME NEW m \in Monitors, SpawnFails(m) \/ SaveFails(m) PROVE MonitorInv'
    <2> DEFINE r == monitor[m]
    <2>1. /\ UNCHANGED <<bridge, warn, spawned, claimed, last, silent, deaf, mixed>>
          /\ \/ r.at = "spawn" /\ failed' = failed \cup {"spawn"}
             \/ r.at \in {"save", "sign"} /\ failed' = failed \cup {"save"}
          /\ MonitorGoes(m, "say")
        BY <1>8 DEF SpawnFails, SaveFails, silenceVars
    <2>2. PICK x \in MonitorRecords : /\ monitor' = [monitor EXCEPT ![m] = x] /\ x.at = "say"
                                      /\ x.level = r.level /\ x.data = r.data /\ x.active = r.active
        BY <1>0, <2>1, MonitorMoves DEF MonitorSteps
    <2>3. monitor'[m] = x /\ \A n \in Monitors : n # m => monitor'[n] = monitor[n]
        BY <1>a, <2>2
    <2>4. MonitorTypes'
        BY <1>0, <1>a, <2>1, <2>2 DEF MonitorTypes
    <2>5. Recorded'
        <3>1. spawned > 0 \/ "spawn" \in failed'
            BY <1>0, <2>1 DEF Recorded
        <3> QED
            BY <1>0, <2>1, <2>2, <2>3, <3>1 DEF Recorded
    <2>6. ASSUME ~mixed' PROVE Unmixed'
        <3>1. Unmixed /\ Held(m)
            BY <1>0, <2>1, <2>6 DEF Unmixed
        <3>2. "save" \notin failed' => "save" \notin failed /\ spawned' <= 1
            BY <2>1, <3>1 DEF Unmixed
        <3>3. Held(m)'
            <4>1. CASE r.at = "spawn"
                <5>1. Told(r.level, r.data) /\ warn.form = "text" /\ warn.data = r.data
                    BY <3>1, <4>1 DEF Held
                <5>2. silent' < DEBOUNCE_CALLS /\ Told(x.level, warn.data)'
                    BY <2>1, <2>2, <3>2, <5>1 DEF Told, Remembers
                <5> QED
                    BY <2>1, <2>2, <2>3, <5>1, <5>2 DEF Held
            <4>2. CASE r.at \in {"save", "sign"}
                <5>1. "save" \in failed' /\ silent' < DEBOUNCE_CALLS
                    BY <2>1, <3>1, <4>2 DEF Unmixed
                <5>2. warn'.form = "empty" \/ (warn'.form = "text" /\ warn'.data.calls = 0 /\ warn'.data.level = x.level)
                    BY <2>1, <2>2, <3>1, <4>2 DEF Held
                <5> QED
                    BY <2>2, <2>3, <5>1, <5>2 DEF Held, Told, Remembers
            <4> QED
                BY <2>1, <4>1, <4>2
        <3> QED
            BY <1>0, <2>1, <2>2, <3>1, <3>2, <3>3, UnmixedMoves DEF Unmixed
    <2> QED
        BY <2>4, <2>5, <2>6 DEF MonitorInv
<1>9. ASSUME NEW m \in Monitors, SaveRecord(m) PROVE MonitorInv'
    <2> DEFINE r == monitor[m]
    <2>1. /\ UNCHANGED <<bridge, spawned, claimed, failed, last, silent, deaf, mixed>> /\ r.at = "sign"
          /\ warn' \in Overlaid(r.data) /\ MonitorGoes(m, "say")
        BY <1>9 DEF SaveRecord, recordVars, silenceVars
    <2>2. PICK x \in MonitorRecords : /\ monitor' = [monitor EXCEPT ![m] = x] /\ x.at = "say"
                                      /\ x.level = r.level /\ x.data = r.data /\ x.active = r.active
        BY <1>0, <2>1, MonitorMoves DEF MonitorSteps
    <2>3. monitor'[m] = x /\ \A n \in Monitors : n # m => monitor'[n] = monitor[n]
        BY <1>a, <2>2
    <2>4. /\ warn' \in WarnFiles /\ (warn'.data = r.data \/ warn'.data = NoData)
          /\ warn.form = "empty" => warn'.form = "text" /\ warn'.data = r.data
        BY <1>0, <1>a, <2>1, OverlaidValues
    <2>5. MonitorTypes'
        BY <1>0, <1>a, <2>1, <2>2, <2>4 DEF MonitorTypes
    <2>6. Recorded'
        BY <1>0, <1>b, <2>1, <2>2, <2>3, <2>4 DEF Recorded
    <2>7. ASSUME ~mixed' PROVE Unmixed'
        <3>1. Unmixed /\ Held(m)
            BY <1>0, <2>1, <2>7 DEF Unmixed
        <3>2. Told(r.level, r.data) /\ warn'.form = "text" /\ warn'.data = r.data
            BY <2>1, <2>4, <3>1 DEF Held
        <3>3. silent' < DEBOUNCE_CALLS /\ Told(x.level, warn.data)'
            BY <2>1, <2>2, <3>2 DEF Told, Remembers
        <3>4. Held(m)'
            BY <2>2, <2>3, <3>2, <3>3 DEF Held
        <3> QED
            BY <1>0, <2>1, <2>2, <3>1, <3>4, UnmixedMoves DEF Unmixed
    <2> QED
        BY <2>5, <2>6, <2>7 DEF MonitorInv
<1>10. ASSUME NEW m \in Monitors, Say(m) PROVE MonitorInv'
    <2> DEFINE r == monitor[m]
    <2>1. /\ UNCHANGED <<bridge, warn, spawned, failed, deaf, mixed>> /\ r.at = "say"
          /\ claimed' = (claimed \/ (r.level = "critical" /\ r.active))
          /\ last' = r.level /\ silent' = 0 /\ monitor' = [monitor EXCEPT ![m] = Asleep]
        BY <1>10 DEF Say
    <2>2. monitor'[m] = Asleep /\ \A n \in Monitors : n # m => monitor'[n] = monitor[n]
        BY <1>a, <2>1
    <2>3. MonitorTypes'
        BY <1>0, <1>a, <1>b, <2>1 DEF MonitorTypes
    <2>4. Recorded'
        BY <1>0, <1>b, <2>1, <2>2 DEF Recorded
    <2>5. ASSUME ~mixed' PROVE Unmixed'
        <3>1. Unmixed /\ Held(m)
            BY <1>0, <2>1, <2>5 DEF Unmixed
        <3>2. Kept(warn.form, warn.data)'
            BY <1>a, <2>1, <3>1 DEF Held, Kept, Told, Remembers
        <3>3. /\ "save" \notin failed' => spawned' <= 1
              /\ ~deaf' /\ silent' < DEBOUNCE_CALLS /\ monitor[m].at # "idle"
            BY <2>1, <3>1 DEF Unmixed
        <3> QED
            BY <1>0, <1>b, <2>1, <3>1, <3>2, <3>3, UnmixedMoves
    <2> QED
        BY <2>3, <2>4, <2>5 DEF MonitorInv
<1>11. ASSUME NEW m \in Monitors, KillMonitor(m) PROVE MonitorInv'
    <2>1. /\ UNCHANGED <<bridge, warn, spawned, claimed, failed, last, silent>> /\ mixed' = TRUE
          /\ monitor' = [monitor EXCEPT ![m] = Asleep]
        BY <1>11 DEF KillMonitor, recordVars, silenceVars
    <2>2. monitor'[m] = Asleep /\ \A n \in Monitors : n # m => monitor'[n] = monitor[n]
        BY <1>a, <2>1
    <2>3. MonitorTypes'
        BY <1>0, <1>a, <1>b, <2>1 DEF MonitorTypes
    <2>4. Recorded'
        BY <1>0, <1>b, <2>1, <2>2 DEF Recorded
    <2> QED
        BY <2>1, <2>3, <2>4 DEF MonitorInv
<1>12. CASE UNCHANGED monitorVars
    BY <1>1, <1>12, <1>a DEF monitorVars
<1> QED
    BY <1>2, <1>3, <1>4, <1>5, <1>6, <1>7, <1>8, <1>9, <1>10, <1>11, <1>12 DEF MonitorNext

\* ContextMonitor.RecordedOnce and SilenceBounded, for any number of tool uses
\* and monitors: unless a spawn threw, a record was started before the agent is
\* told that STATE.md has its state; the counter says so only after one; there is
\* one only in a session that no two monitors watch at once; and such a session
\* is never left in silence.
THEOREM MonitorPromises == MonitorSpec => [](RecordedOnce /\ SilenceBounded)
<1>1. MonitorInv => RecordedOnce /\ SilenceBounded
    BY DEF MonitorInv, Recorded, Unmixed, RecordedOnce, SilenceBounded
<1> QED
    BY <1>1, MonitorInitInv, MonitorStep, PTL DEF MonitorSpec

-----------------------------------------------------------------------------
(* The context monitor: its counters.  Each use makes one monitor count,   *)
(* and each that counts raises the counter, or records the session, once. *)

Those(steps) == {m \in Monitors : monitor[m].at \in steps}
Coming == {"count", "open", "write", "spawn"}
UsesInv ==
    /\ uses \in 0 .. MaxUses
    /\ IsFiniteSet(Those({"count"})) /\ IsFiniteSet(Those(Coming))
    /\ warn.data.calls + Cardinality(Those({"count"})) <= uses
    /\ \A m \in Monitors : monitor[m].data.calls + Cardinality(Those({"count"})) <= uses
    /\ spawned + Cardinality(Those(Coming)) <= uses
TypedInv == MonitorInv /\ UsesInv

LEMMA ThoseMove ==
    ASSUME MonitorTypes, NEW m \in Monitors, NEW x \in MonitorRecords, NEW steps,
           monitor' = [monitor EXCEPT ![m] = x], IsFiniteSet(Those(steps))
    PROVE  /\ IsFiniteSet(Those(steps)') /\ Cardinality(Those(steps)) \in Nat
           /\ Cardinality(Those(steps)') \in Nat
           /\ (x.at \in steps <=> monitor[m].at \in steps) => Those(steps)' = Those(steps)
           /\ x.at \in steps /\ monitor[m].at \notin steps =>
                 Cardinality(Those(steps)') = Cardinality(Those(steps)) + 1
           /\ x.at \notin steps /\ monitor[m].at \in steps =>
                 Cardinality(Those(steps)') = Cardinality(Those(steps)) - 1
<1>1. monitor'[m] = x /\ \A n \in Monitors : n # m => monitor'[n] = monitor[n]
    BY DEF MonitorTypes
<1>2. (x.at \in steps <=> monitor[m].at \in steps) => Those(steps)' = Those(steps)
    BY <1>1 DEF Those
<1>3. x.at \in steps /\ monitor[m].at \notin steps =>
          Those(steps)' = Those(steps) \cup {m} /\ m \notin Those(steps)
    BY <1>1 DEF Those
<1>4. x.at \notin steps /\ monitor[m].at \in steps =>
          Those(steps)' = Those(steps) \ {m} /\ m \in Those(steps)
    BY <1>1 DEF Those
<1>5. Cardinality(Those(steps)) \in Nat
    BY FS_CardinalityType
<1>6. CASE x.at \in steps <=> monitor[m].at \in steps
    BY <1>2, <1>5, <1>6
<1>7. CASE x.at \in steps /\ monitor[m].at \notin steps
    <2>1. /\ IsFiniteSet(Those(steps)')
          /\ Cardinality(Those(steps)') = Cardinality(Those(steps)) + 1
        BY <1>3, <1>7, FS_AddElement
    <2>2. Cardinality(Those(steps)') \in Nat
        BY <2>1, FS_CardinalityType
    <2> QED
        BY <1>5, <1>7, <2>1, <2>2
<1>8. CASE x.at \notin steps /\ monitor[m].at \in steps
    <2>1. /\ IsFiniteSet(Those(steps)')
          /\ Cardinality(Those(steps)') = Cardinality(Those(steps)) - 1
        BY <1>4, <1>8, FS_RemoveElement
    <2>2. Cardinality(Those(steps)') \in Nat
        BY <2>1, FS_CardinalityType
    <2> QED
        BY <1>5, <1>8, <2>1, <2>2
<1> QED
    BY <1>6, <1>7, <1>8

LEMMA SumsOrdered ==
    ASSUME NEW a \in Nat, NEW b \in Nat, NEW c \in Nat, NEW d \in Nat, a <= b, c <= d
    PROVE  a + c <= d + b
OBVIOUS

\* One monitor takes a step, and neither counter outruns the uses.
LEMMA UsesMove ==
    ASSUME MonitorInv, UsesInv, NEW m \in Monitors, NEW x \in MonitorRecords,
           monitor' = [monitor EXCEPT ![m] = x], MonitorTypes', uses' \in 0 .. MaxUses,
           \/ uses' = uses /\ (x.at = "count" => monitor[m].at = "count")
                           /\ (x.at \in Coming => monitor[m].at \in Coming)
           \/ uses' = uses + 1,
           \/ /\ warn'.data.calls \in {0, warn.data.calls, monitor[m].data.calls}
              /\ x.data.calls \in {0, monitor[m].data.calls}
           \/ /\ monitor[m].at = "count" /\ x.at # "count" /\ warn'.data.calls = warn.data.calls
              /\ x.data.calls \in {0, 1, warn.data.calls + 1},
           \/ spawned' = spawned
           \/ spawned' = spawned + 1 /\ monitor[m].at \in Coming /\ x.at \notin Coming
    PROVE  UsesInv'
<1> DEFINE counting == Cardinality(Those({"count"}))
           later == Cardinality(Those({"count"})')
           coming == Cardinality(Those(Coming))
           next == Cardinality(Those(Coming)')
<1>1. MonitorTypes
    BY DEF MonitorInv
<1>2. /\ IsFiniteSet(Those({"count"})') /\ counting \in Nat /\ later \in Nat
      /\ (x.at = "count" <=> monitor[m].at = "count") => later = counting
      /\ x.at = "count" /\ monitor[m].at # "count" => later = counting + 1
      /\ x.at # "count" /\ monitor[m].at = "count" => later = counting - 1
    BY <1>1, ThoseMove DEF UsesInv
<1>3. /\ IsFiniteSet(Those(Coming)') /\ coming \in Nat /\ next \in Nat
      /\ (x.at \in Coming <=> monitor[m].at \in Coming) => next = coming
      /\ x.at \in Coming /\ monitor[m].at \notin Coming => next = coming + 1
      /\ x.at \notin Coming /\ monitor[m].at \in Coming => next = coming - 1
    BY <1>1, ThoseMove DEF UsesInv
<1>4. /\ warn.data.calls \in Nat /\ warn'.data.calls \in Nat /\ spawned \in Nat /\ spawned' \in Nat
      /\ uses \in Nat /\ uses' \in Nat
      /\ \A n \in Monitors : monitor[n].data.calls \in Nat /\ monitor'[n].data.calls \in Nat
    BY <1>1, DebounceAssumption DEF MonitorTypes, MonitorRecords, WarnFiles, WarnData, UsesInv
<1>5. monitor'[m] = x /\ \A n \in Monitors : n # m => monitor'[n] = monitor[n]
    BY <1>1 DEF MonitorTypes
<1>6. /\ warn.data.calls + counting <= uses /\ spawned + coming <= uses
      /\ \A n \in Monitors : monitor[n].data.calls + counting <= uses
    BY DEF UsesInv
<1> HIDE DEF counting, later, coming, next
<1>7. spawned' + next <= uses'
    <2>0. /\ spawned \in Nat /\ coming \in Nat /\ uses \in Nat /\ next \in Nat
          /\ spawned + coming <= uses
        BY <1>3, <1>4, <1>6
    <2>1. uses' = uses \/ uses' = uses + 1
        OBVIOUS
    <2>2. CASE x.at \in Coming /\ monitor[m].at \notin Coming
        <3>1. next = coming + 1 /\ spawned' = spawned /\ uses' = uses + 1
            BY <1>3, <2>2
        <3> QED
            BY <2>0, <3>1
    <2>3. CASE x.at \notin Coming /\ monitor[m].at \in Coming
        <3>1. next = coming - 1 /\ (spawned' = spawned \/ spawned' = spawned + 1)
            BY <1>3, <2>3
        <3> QED
            BY <2>0, <2>1, <3>1
    <2>4. CASE x.at \in Coming <=> monitor[m].at \in Coming
        <3>1. next = coming /\ spawned' = spawned
            BY <1>3, <2>4
        <3> QED
            BY <2>0, <2>1, <3>1
    <2> QED
        BY <2>2, <2>3, <2>4
<1>8. later + uses <= uses' + counting
    <2>0. counting \in Nat /\ later \in Nat /\ uses \in Nat /\ uses' \in Nat
        BY <1>2, <1>4
    <2>1. uses' = uses \/ uses' = uses + 1
        OBVIOUS
    <2>2. CASE x.at = "count" /\ monitor[m].at # "count"
        <3>1. later = counting + 1 /\ uses' = uses + 1
            BY <1>2, <2>2
        <3> QED
            BY <2>0, <3>1
    <2>3. CASE ~(x.at = "count" /\ monitor[m].at # "count")
        <3>1. later = counting \/ later = counting - 1
            BY <1>2, <2>3
        <3>2. later <= counting
            BY <2>0, <3>1
        <3>3. uses <= uses'
            BY <2>0, <2>1
        <3> QED
            BY <2>0, <3>2, <3>3, SumsOrdered
    <2> QED
        BY <2>2, <2>3
<1>9. \A n \in Monitors \ {m} : monitor'[n].data.calls + later <= uses'
    BY <1>2, <1>4, <1>5, <1>6, <1>8
<1>10. monitor[m].data.calls \in Nat /\ monitor[m].data.calls + counting <= uses /\ x.data.calls \in Nat
    BY <1>4, <1>5, <1>6
<1>11. warn'.data.calls + later <= uses' /\ x.data.calls + later <= uses'
    BY <1>2, <1>4, <1>6, <1>8, <1>10
<1> QED
    BY <1>2, <1>3, <1>5, <1>7, <1>9, <1>11 DEF UsesInv, counting, later, coming, next

LEMMA UsesStep == TypedInv /\ [MonitorNext]_monitorVars => TypedInv'
<1> SUFFICES ASSUME MonitorInv, UsesInv, [MonitorNext]_monitorVars PROVE TypedInv'
    BY DEF TypedInv
<1>1. MonitorInv' /\ MonitorTypes' /\ MonitorTypes
    BY MonitorStep DEF MonitorInv
<1> SUFFICES UsesInv'
    BY <1>1 DEF TypedInv
<1>2. /\ \A m \in Monitors : monitor[m] \in MonitorRecords /\ monitor[m].data.calls \in Nat
                             /\ monitor[m].data \in WarnData
      /\ monitor \in [Monitors -> MonitorRecords]
    BY <1>1 DEF MonitorTypes, MonitorRecords, WarnData
<1>3. uses \in 0 .. MaxUses /\ uses \in Nat /\ NoData.calls = 0 /\ Emptied.data = NoData
    BY DebounceAssumption DEF UsesInv, NoData, Emptied
<1>4. CASE UNCHANGED <<warn, monitor, uses, spawned>>
    BY <1>4 DEF UsesInv, Those
<1>5. ASSUME NEW m \in Monitors, ToolUse(m) PROVE UsesInv'
    <2>1. uses' = uses + 1 /\ uses' \in 0 .. MaxUses /\ UNCHANGED <<warn, spawned>>
        BY <1>3, <1>5, DebounceAssumption DEF ToolUse, recordVars
    <2>2. PICK x \in MonitorRecords : /\ monitor' = [monitor EXCEPT ![m] = x]
                                      /\ x = monitor[m] \/ x.data = NoData
        BY <1>1, <1>5, UseMoves
    <2>3. x.data.calls \in {0, monitor[m].data.calls}
        BY <1>3, <2>2
    <2> QED
        BY <1>1, <2>1, <2>2, <2>3, UsesMove
<1>6. ASSUME NEW m \in Monitors, ReadCount(m) PROVE UsesInv'
    <2>1. monitor[m].at = "count" /\ UNCHANGED <<warn, uses, spawned>>
        BY <1>6 DEF ReadCount, recordVars
    <2>2. PICK x \in MonitorRecords :
              /\ monitor' = [monitor EXCEPT ![m] = x] /\ x.at = "open" /\ x.level = monitor[m].level
              /\ IF Quiet(x.level) THEN x.data = Counted
                 ELSE x.data.calls = 0 /\ x.data.level = x.level /\ x.data.recorded = Counted.recorded
        BY <1>1, <1>6, ReadMoves
    <2>3. Counted.calls \in {1, warn.data.calls + 1}
        BY <1>1, CountedValues
    <2>4. x.data.calls \in {0, 1, warn.data.calls + 1}
        BY <2>2, <2>3
    <2> QED
        BY <1>1, <1>3, <2>1, <2>2, <2>4, UsesMove DEF Coming
<1>7. ASSUME NEW m \in Monitors, NEW to \in MonitorSteps, MonitorGoes(m, to), to # "count",
             to \in Coming => monitor[m].at \in Coming, UNCHANGED <<uses, spawned>>,
             warn'.data \in {NoData, warn.data, monitor[m].data}
      PROVE  UsesInv'
    <2>1. PICK x \in MonitorRecords : /\ monitor' = [monitor EXCEPT ![m] = x]
                                      /\ x.at = to /\ x.data = monitor[m].data
        BY <1>1, <1>7, MonitorMoves
    <2>2. warn'.data.calls \in {0, warn.data.calls, monitor[m].data.calls}
        BY <1>3, <1>7
    <2> QED
        BY <1>1, <1>3, <1>7, <2>1, <2>2, UsesMove
<1>8. ASSUME NEW m \in Monitors, OpenCount(m) \/ SaveOpen(m) \/ SpawnFails(m) \/ SaveRecord(m) \/ SaveFails(m)
      PROVE  UsesInv'
    <2>1. CASE OpenCount(m)
        BY <1>3, <1>7, <2>1 DEF OpenCount, recordVars, MonitorSteps, Coming
    <2>2. CASE SaveOpen(m)
        BY <1>3, <1>7, <2>2 DEF SaveOpen, recordVars, MonitorSteps, Coming
    <2>3. CASE SpawnFails(m) \/ SaveFails(m)
        BY <1>7, <2>3 DEF SpawnFails, SaveFails, MonitorSteps, Coming
    <2>4. CASE SaveRecord(m)
        <3>1. warn'.data \in {NoData, monitor[m].data}
            BY <1>1, <1>2, <2>4, OverlaidValues DEF SaveRecord
        <3> QED
            BY <1>7, <2>4, <3>1 DEF SaveRecord, recordVars, MonitorSteps, Coming
    <2> QED
        BY <1>8, <2>1, <2>2, <2>3, <2>4
<1>9. ASSUME NEW m \in Monitors, WriteCount(m) PROVE UsesInv'
    <2>1. monitor[m].at = "write" /\ UNCHANGED <<uses, spawned>> /\ warn' \in Overlaid(monitor[m].data)
        BY <1>9 DEF WriteCount, recordVars
    <2>2. PICK x \in MonitorRecords :
              /\ monitor' = [monitor EXCEPT ![m] = x] /\ x.at \in {"idle", "spawn", "say"}
              /\ x.data = NoData \/ x.data = monitor[m].data
        BY <1>1, <1>9, WriteMoves
    <2>3. warn'.data \in {NoData, monitor[m].data}
        BY <1>1, <1>2, <2>1, OverlaidValues
    <2>4. /\ warn'.data.calls \in {0, warn.data.calls, monitor[m].data.calls}
          /\ x.data.calls \in {0, monitor[m].data.calls}
        BY <1>3, <2>2, <2>3
    <2> QED
        BY <1>1, <1>3, <2>1, <2>2, <2>4, UsesMove DEF Coming
<1>10. ASSUME NEW m \in Monitors, Spawn(m) PROVE UsesInv'
    <2>1. monitor[m].at = "spawn" /\ spawned' = spawned + 1 /\ UNCHANGED <<uses, warn>>
        BY <1>10 DEF Spawn
    <2>2. PICK x \in MonitorRecords : /\ monitor' = [monitor EXCEPT ![m] = x] /\ x.at = "save"
                                      /\ x.data.calls = monitor[m].data.calls
        BY <1>1, <1>10, SpawnMoves
    <2> QED
        BY <1>1, <1>3, <2>1, <2>2, UsesMove DEF Coming
<1>11. ASSUME NEW m \in Monitors, Say(m) \/ KillMonitor(m) PROVE UsesInv'
    <2>1. /\ UNCHANGED <<uses, spawned, warn>> /\ monitor' = [monitor EXCEPT ![m] = Asleep]
        BY <1>11 DEF Say, KillMonitor, recordVars
    <2>2. Asleep \in MonitorRecords /\ Asleep.data.calls = 0 /\ Asleep.at = "idle"
        BY DEF Asleep, NoData, MonitorRecords, MonitorSteps, Levels, WarnData
    <2> QED
        BY <1>1, <1>3, <2>1, <2>2, UsesMove DEF Coming
<1> QED
    BY <1>4, <1>5, <1>6, <1>8, <1>9, <1>10, <1>11
    DEF MonitorNext, BridgeOpen, BridgeAges, BridgeWrite, recordVars, monitorVars

\* The silence counted never exceeds the tool uses, and no session is recorded
\* more often than tools were used, however many monitors overlap or are killed.
THEOREM MonitorTyped == MonitorSpec => []MonitorTypeOK
<1>1. MonitorInit => TypedInv
    <2> SUFFICES ASSUME MonitorInit PROVE UsesInv
        BY MonitorInitInv DEF TypedInv
    <2>1. Those({"count"}) = {} /\ Those(Coming) = {}
        BY DEF MonitorInit, Asleep, Those, Coming
    <2>2. /\ IsFiniteSet(Those({"count"})) /\ IsFiniteSet(Those(Coming))
          /\ Cardinality(Those({"count"})) = 0 /\ Cardinality(Those(Coming)) = 0
        BY <2>1, FS_EmptySet
    <2>3. /\ uses = 0 /\ spawned = 0 /\ warn.data.calls = 0
          /\ \A m \in Monitors : monitor[m].data.calls = 0
        BY DEF MonitorInit, Asleep, NoData
    <2> QED
        BY <2>2, <2>3, DebounceAssumption DEF UsesInv
<1>2. TypedInv => MonitorTypeOK
    <2> SUFFICES ASSUME TypedInv PROVE MonitorTypeOK
        OBVIOUS
    <2>1. Cardinality(Those({"count"})) \in Nat /\ Cardinality(Those(Coming)) \in Nat
        BY FS_CardinalityType DEF TypedInv, UsesInv
    <2>2. MonitorTypes
        BY DEF TypedInv, MonitorInv
    <2>3. warn.data.calls \in Nat /\ spawned \in Nat /\ bridge.level \in Levels
          /\ \A m \in Monitors : monitor[m].level \in Levels
        BY <2>2 DEF MonitorTypes, WarnFiles, WarnData, MonitorRecords
    <2> QED
        BY <2>1, <2>3, DebounceAssumption DEF TypedInv, UsesInv, MonitorTypeOK
<1> QED
    BY <1>1, <1>2, UsesStep, PTL DEF MonitorSpec

-----------------------------------------------------------------------------
(* The update check. *)

CheckRecords == [at : {"idle", "ask", "open", "write"}, installed : Nat, latest : Nat]

\* Nothing newer than what is published was ever read, and the cache has the
\* installed version until an update overtakes it.
UpdateInv ==
    /\ installed \in Nat /\ published \in Nat /\ published >= 1
    /\ checker \in [Checkers -> CheckRecords]
    /\ \A c \in Checkers : checker[c].latest <= published
    /\ cache = [form |-> cache.form, installed |-> cache.installed, latest |-> cache.latest,
                update |-> cache.update]
    /\ cache.form \in {"missing", "torn", "text"} /\ cache.installed \in Nat /\ cache.latest \in Nat
    /\ cache.form = "text" =>
          /\ cache.latest <= published /\ (cache.update => cache.latest > cache.installed)
          /\ ~overtaken => cache.installed = installed

LEMMA UpdateInitInv == UpdateInit => UpdateInv
BY DEF UpdateInit, UpdateInv, CheckRecords

LEMMA UpdateStep == UpdateInv /\ [UpdateNext]_updateVars => UpdateInv'
<1> SUFFICES ASSUME UpdateInv, [UpdateNext]_updateVars PROVE UpdateInv'
    OBVIOUS
<1> USE DEF UpdateInv
<1>1. ASSUME NEW c \in Checkers, CheckStart(c) PROVE UpdateInv'
    BY <1>1 DEF CheckStart, CheckRecords
<1>2. ASSUME NEW c \in Checkers, CheckAsk(c) PROVE UpdateInv'
    <2>1. PICK latest \in {0, published} :
              checker' = [checker EXCEPT ![c] = [checker[c] EXCEPT !.at = "open", !.latest = latest]]
        BY <1>2 DEF CheckAsk
    <2>a. checker[c] \in CheckRecords /\ latest \in Nat
        OBVIOUS
    <2>2. /\ [checker[c] EXCEPT !.at = "open", !.latest = latest] \in CheckRecords
          /\ [checker[c] EXCEPT !.at = "open", !.latest = latest].latest = latest
        BY <2>a DEF CheckRecords
    <2>3. latest <= published
        OBVIOUS
    <2>4. /\ checker' \in [Checkers -> CheckRecords]
          /\ \A d \in Checkers : checker'[d].latest <= published
        BY <2>1, <2>2, <2>3
    <2> QED
        BY <1>2, <2>4 DEF CheckAsk
<1>3. ASSUME NEW c \in Checkers, CheckOpen(c) PROVE UpdateInv'
    <2>1. checker' = [checker EXCEPT ![c] = [checker[c] EXCEPT !.at = "write"]]
        BY <1>3 DEF CheckOpen
    <2>2. /\ [checker[c] EXCEPT !.at = "write"] \in CheckRecords
          /\ [checker[c] EXCEPT !.at = "write"].latest = checker[c].latest
        BY DEF CheckRecords
    <2>3. /\ checker' \in [Checkers -> CheckRecords]
          /\ \A d \in Checkers : checker'[d].latest <= published
        BY <2>1, <2>2
    <2>4. /\ cache'.form = "torn" /\ cache'.installed = cache.installed /\ cache'.latest = cache.latest
          /\ cache' = [form |-> cache'.form, installed |-> cache'.installed, latest |-> cache'.latest,
                       update |-> cache'.update]
        BY <1>3 DEF CheckOpen
    <2> QED
        BY <1>3, <2>3, <2>4 DEF CheckOpen
<1>4. ASSUME NEW c \in Checkers, CheckWrite(c) PROVE UpdateInv'
    <2>1. checker' = [checker EXCEPT ![c] = [checker[c] EXCEPT !.at = "idle"]]
        BY <1>4 DEF CheckWrite
    <2>2. /\ [checker[c] EXCEPT !.at = "idle"] \in CheckRecords
          /\ [checker[c] EXCEPT !.at = "idle"].latest = checker[c].latest
        BY DEF CheckRecords
    <2>3. /\ checker' \in [Checkers -> CheckRecords]
          /\ \A d \in Checkers : checker'[d].latest <= published
        BY <2>1, <2>2
    <2>4. checker[c].latest \in Nat /\ checker[c].installed \in Nat /\ checker[c].latest <= published
        BY DEF CheckRecords
    <2> QED
        BY <1>4, <2>3, <2>4 DEF CheckWrite, isNewer
<1>5. CASE Publish
    <2>1. \A c \in Checkers : checker[c].latest \in Nat
        BY DEF CheckRecords
    <2> QED
        BY <1>5, <2>1 DEF Publish
<1>6. CASE Upgrade
    BY <1>6 DEF Upgrade
<1>7. CASE UNCHANGED updateVars
    BY <1>7 DEF updateVars
<1> QED
    BY <1>1, <1>2, <1>3, <1>4, <1>5, <1>6, <1>7 DEF UpdateNext

\* UpdateCheck.NoticeIsTrue, for any number of workers, versions and sessions:
\* a notice that no update has overtaken is of a version newer than the
\* installed one.
THEOREM UpdateNoticeTrue == UpdateSpec => []NoticeIsTrue
<1>1. UpdateInv => NoticeIsTrue
    BY DEF UpdateInv, NoticeIsTrue, Notice, isNewer
<1> QED
    BY <1>1, UpdateInitInv, UpdateStep, PTL DEF UpdateSpec

\* Only published versions are installed, read or in the cache, but for the
\* version 2 of a development install.
VersionsInv ==
    /\ published <= MaxVersion /\ installed \in 1 .. MaxVersion /\ cache.latest \in 0 .. MaxVersion
    /\ \A c \in Checkers : checker[c].installed \in 0 .. MaxVersion /\ checker[c].latest \in 0 .. MaxVersion

LEMMA VersionsStep == UpdateInv /\ VersionsInv /\ [UpdateNext]_updateVars => VersionsInv'
<1> SUFFICES ASSUME UpdateInv, VersionsInv, [UpdateNext]_updateVars PROVE VersionsInv'
    OBVIOUS
<1>1. /\ checker \in [Checkers -> CheckRecords] /\ published \in 1 .. MaxVersion
      /\ \A c \in Checkers : checker[c] \in CheckRecords
    BY UpdateAssumption DEF UpdateInv, VersionsInv
<1> USE UpdateAssumption DEF VersionsInv
<1>2. ASSUME NEW c \in Checkers, CheckStart(c) \/ CheckAsk(c) \/ CheckOpen(c) \/ CheckWrite(c)
      PROVE  VersionsInv'
    <2> DEFINE old == checker[c]
    <2>a. /\ old \in CheckRecords
          /\ old.installed \in 0 .. MaxVersion /\ old.latest \in 0 .. MaxVersion
        BY <1>1
    <2>1. \E y : /\ checker' = [checker EXCEPT ![c] = y]
                /\ y.installed \in 0 .. MaxVersion /\ y.latest \in 0 .. MaxVersion
        <3>1. CASE CheckStart(c)
            <4> DEFINE y == [at |-> "ask", installed |-> installed, latest |-> 0]
            <4>1. checker' = [checker EXCEPT ![c] = y]
                BY <3>1 DEF CheckStart
            <4>2. y.installed \in 0 .. MaxVersion /\ y.latest \in 0 .. MaxVersion
                BY <1>1
            <4> QED
                BY <4>1, <4>2
        <3>2. CASE CheckAsk(c)
            <4>1. PICK latest \in {0, published} :
                      checker' = [checker EXCEPT ![c] = [[old EXCEPT !.at = "open"] EXCEPT !.latest = latest]]
                BY <1>1, <3>2 DEF CheckAsk
            <4> DEFINE y == [[old EXCEPT !.at = "open"] EXCEPT !.latest = latest]
            <4>2. y.installed = old.installed /\ y.latest = latest
                BY <2>a DEF CheckRecords
            <4>3. latest \in 0 .. MaxVersion
                BY <1>1
            <4> HIDE DEF y, old
            <4> QED
                BY <2>a, <4>1, <4>2, <4>3 DEF y
        <3>3. CASE CheckOpen(c) \/ CheckWrite(c)
            <4>1. PICK to : checker' = [checker EXCEPT ![c] = [old EXCEPT !.at = to]]
                BY <1>1, <3>3 DEF CheckOpen, CheckWrite
            <4> DEFINE y == [old EXCEPT !.at = to]
            <4>2. y.installed = old.installed /\ y.latest = old.latest
                BY <2>a DEF CheckRecords
            <4> HIDE DEF y, old
            <4> QED
                BY <2>a, <4>1, <4>2 DEF y
        <3> QED
            BY <1>2, <3>1, <3>2, <3>3
    <2> HIDE DEF old
    <2>2. \A d \in Checkers : checker'[d].installed \in 0 .. MaxVersion /\ checker'[d].latest \in 0 .. MaxVersion
        BY <1>1, <2>1
    <2>3. cache'.latest \in 0 .. MaxVersion /\ UNCHANGED <<installed, published>>
        BY <1>2 DEF CheckStart, CheckAsk, CheckOpen, CheckWrite, UpdateInv
    <2> QED
        BY <2>2, <2>3
<1>3. CASE Publish
    BY <1>1, <1>3 DEF Publish
<1>4. CASE Upgrade
    BY <1>1, <1>4 DEF Upgrade
<1>5. CASE UNCHANGED updateVars
    BY <1>5 DEF updateVars
<1> QED
    BY <1>2, <1>3, <1>4, <1>5 DEF UpdateNext

\* The cache and the workers know versions that exist.
THEOREM UpdateTyped == UpdateSpec => []UpdateTypeOK
<1>1. UpdateInit => UpdateInv /\ VersionsInv
    BY UpdateInitInv, UpdateAssumption DEF UpdateInit, VersionsInv
<1>2. UpdateInv /\ VersionsInv => UpdateTypeOK
    BY DEF VersionsInv, UpdateTypeOK
<1> QED
    BY <1>1, <1>2, UpdateStep, VersionsStep, PTL DEF UpdateSpec

-----------------------------------------------------------------------------
(* gsd-tools commit. *)

GitTrees == [Paths -> Nat]
Asks == [list : Seq(Entries), amend : BOOLEAN]
CommitSteps == {"idle", "branch", "stage"}
Acks == [on : Branches, due : Branches, files : SUBSET (Paths \X Nat), alone : BOOLEAN]

CommitTypes ==
    /\ strategy \in {"none", "phase", "milestone"}
    /\ branches \in [Branches -> Seq(GitTrees)]
    /\ current \in Branches /\ HasBranch(current)
    /\ work \in GitTrees /\ index \in GitTrees
    /\ step \in [Committers -> CommitSteps]
    /\ ask \in [Committers -> Asks]
    /\ looked \in [Committers -> Nat] /\ \A c \in Committers : looked[c] <= Len(ask[c].list)
    /\ checked \in [Committers -> SUBSET Entries]
    /\ staged \in [Committers -> SUBSET (Paths \X Nat)]
    /\ refused \in [Committers -> BOOLEAN] /\ alone \in [Committers -> BOOLEAN]
    /\ changes \in Nat /\ acks \subseteq Acks
    /\ swept \subseteq Paths /\ raced \subseteq Paths

\* Versions grow: a file in the working tree is gone, or as new as in the index;
\* and none is newer than the last that was written.
Grown ==
    /\ \A f \in Paths : /\ index[f] <= changes + 2 /\ work[f] <= changes + 2
                        /\ work[f] = 0 \/ work[f] >= index[f]
    /\ \A b \in Branches : \A i \in 1 .. Len(branches[b]) : \A f \in Paths : branches[b][i][f] <= changes + 2

\* Of a file that was not missing when its folder was added, nor removed between
\* its check and its add, no removal is in the index or a tree; and it is still
\* there when a command has found it.
Stayed(f) == f \notin swept \cup raced
NoneRemoved ==
    \A f \in Paths : Stayed(f) =>
        /\ index[f] # 0
        /\ \A b \in Branches : \A i \in 1 .. Len(branches[b]) : branches[b][i][f] # 0
        /\ \A c \in Committers : f \in checked[c] => work[f] # 0

\* A version of f that is v or newer, in the history of b.
OnBranch(b, f, v) == \E i \in 1 .. Len(branches[b]) : branches[b][i][f] >= v
InHistory(f, v) == \E b \in Branches : OnBranch(b, f, v)

\* What was staged is in the index until it is in a history; while its command
\* is alone it is in the index.
StagedInv ==
    ~amended =>
        /\ \A c \in Committers : \A s \in staged[c] : Stayed(s[1]) =>
              /\ index[s[1]] >= s[2] \/ InHistory(s[1], s[2])
              /\ alone[c] => index[s[1]] >= s[2]
        /\ \A a \in acks : \A s \in a.files : Stayed(s[1]) =>
              /\ InHistory(s[1], s[2])
              /\ a.alone => OnBranch(a.on, s[1], s[2])

\* A command that is alone stays on the branch it went to.
AloneInv ==
    /\ \A c \in Committers : alone[c] /\ step[c] # "idle" => \A d \in Committers \ {c} : step[d] = "idle"
    /\ \A c \in Committers : step[c] \in {"idle", "branch"} => staged[c] = {}
    /\ \A c \in Committers : alone[c] /\ step[c] = "stage" /\ ~refused[c] => current = BranchOf(c)
    /\ OnItsBranch

CheckedInv == \A c \in Committers : step[c] \in {"idle", "branch"} => checked[c] = {}

CommitInv == CommitTypes /\ Grown /\ NoneRemoved /\ StagedInv /\ AloneInv /\ CheckedInv

\* Every set of numbers that is not empty has a least one.
LEMMA LeastNumber ==
    ASSUME NEW S \in SUBSET Nat, S # {}
    PROVE  \E m \in S : \A n \in S : m <= n
<1> DEFINE upTo == {0 .. n : n \in S}
<1>1. upTo \subseteq FiniteSubsetsOf(Nat) /\ upTo # {}
    <2>1. \A n \in S : 0 .. n \subseteq Nat /\ IsFiniteSet(0 .. n)
        BY FS_Interval
    <2> QED
        BY <2>1 DEF FiniteSubsetsOf
<1>2. PICK x \in upTo : \A y \in upTo : ~ (<<y, x>> \in StrictSubsetOrdering(Nat))
    <2> HIDE DEF upTo
    <2> QED
        BY <1>1, FS_StrictSubsetOrderingWellFounded, WFMin
<1>3. PICK m \in S : x = 0 .. m
    BY <1>2
<1>4. ASSUME NEW n \in S, n < m PROVE FALSE
    <2>1. 0 .. n \in upTo /\ 0 .. n \subseteq 0 .. m /\ m \in 0 .. m /\ m \notin 0 .. n
        BY <1>4
    <2>2. <<0 .. n, 0 .. m>> \in StrictSubsetOrdering(Nat)
        BY <2>1 DEF StrictSubsetOrdering
    <2> QED
        BY <1>2, <1>3, <2>1, <2>2
<1> QED
    BY <1>4

LEMMA BranchOfIsOne ==
    ASSUME CommitTypes, NEW c \in Committers
    PROVE  BranchOf(c) \in Branches
<1>1. PICK list \in Seq(Entries) : list = ask[c].list
    BY DEF CommitTypes, Asks
<1>2. CASE strategy = "phase" /\ Naming(c) # {}
    <2>1. Naming(c) \subseteq Nat /\ \A i \in Naming(c) : list[i] \in Paths
        <3>1. DOMAIN list = 1 .. Len(list) /\ Len(list) \in Nat /\ \A i \in 1 .. Len(list) : list[i] \in Entries
            BY ElementOfSeq, LenProperties
        <3> QED
            BY <1>1, <3>1 DEF Naming, Entries
    <2>2. \E i \in Naming(c) : \A j \in Naming(c) : i <= j
        BY <1>2, <2>1, LeastNumber
    <2>3. (CHOOSE i \in Naming(c) : \A j \in Naming(c) : i <= j) \in Naming(c)
        BY <2>2
    <2>4. PICK k \in Naming(c) : k = CHOOSE i \in Naming(c) : \A j \in Naming(c) : i <= j
        BY <2>3
    <2>5. BranchOf(c) = <<"phase", list[k]>>
        BY <1>1, <1>2, <2>4 DEF BranchOf
    <2> QED
        BY <2>1, <2>5 DEF Branches
<1>3. CASE ~(strategy = "phase" /\ Naming(c) # {})
    BY <1>3 DEF BranchOf, Branches, CommitTypes
<1> QED
    BY <1>2, <1>3

\* A command goes on to take the same branch when HEAD moves only there.
LEMMA SameBranch ==
    ASSUME NEW c, strategy' = strategy, ask'[c] = ask[c], current' = current \/ current' = BranchOf(c)
    PROVE  BranchOf(c)' = BranchOf(c)
<1>1. Naming(c)' = Naming(c)
    BY DEF Naming
<1>2. CASE strategy = "milestone"
    BY <1>2 DEF BranchOf
<1>3. CASE strategy = "phase" /\ Naming(c) # {}
    BY <1>3 DEF BranchOf, Naming
<1>4. CASE strategy # "milestone" /\ ~(strategy = "phase" /\ Naming(c) # {})
    BY <1>1, <1>4 DEF BranchOf
<1> QED
    BY <1>2, <1>3, <1>4

LEMMA TipIsTree ==
    ASSUME CommitTypes, NEW b \in Branches, HasBranch(b)
    PROVE  /\ Len(branches[b]) \in 1 .. Len(branches[b]) /\ Tip(b) = branches[b][Len(branches[b])]
           /\ Tip(b) \in GitTrees
<1>1. branches[b] \in Seq(GitTrees) /\ branches[b] # <<>>
    BY DEF CommitTypes, HasBranch
<1>2. Len(branches[b]) \in Nat \ {0}
    BY <1>1, EmptySeq
<1> QED
    BY <1>1, <1>2, ElementOfSeq DEF Tip, Last

\* The history that an amended commit keeps.
LEMMA AllButLast ==
    ASSUME NEW h \in Seq(GitTrees), h # <<>>
    PROVE  /\ Front(h) \in Seq(GitTrees) /\ Len(Front(h)) \in Nat /\ Len(Front(h)) <= Len(h)
           /\ \A i \in 1 .. Len(Front(h)) : i \in 1 .. Len(h) /\ Front(h)[i] = h[i]
<1>1. Len(h) \in Nat \ {0}
    BY EmptySeq
<1>2. Front(h) = SubSeq(h, 1, Len(h) - 1)
    BY DEF Front
<1>3. \A i \in 1 .. Len(h) - 1 : h[i] \in GitTrees
    BY <1>1, ElementOfSeq
<1>4. PICK n \in Int : n = Len(h) - 1 /\ n >= 0
    BY <1>1
<1>5. /\ SubSeq(h, 1, n) \in Seq(GitTrees) /\ Len(SubSeq(h, 1, n)) = IF 1 <= n THEN n - 1 + 1 ELSE 0
      /\ \A i \in 1 .. n - 1 + 1 : SubSeq(h, 1, n)[i] = h[1 + i - 1]
    BY <1>3, <1>4, SubSeqProperties
<1>6. Len(SubSeq(h, 1, n)) = n /\ \A i \in 1 .. n : SubSeq(h, 1, n)[i] = h[i]
    BY <1>4, <1>5
<1> QED
    BY <1>1, <1>2, <1>4, <1>5, <1>6

\* The history of the branch after a commit: s is all of h, or all but its last tree.
LEMMA Appended ==
    ASSUME NEW h \in Seq(GitTrees), NEW t \in GitTrees, NEW s \in Seq(GitTrees),
           \A i \in 1 .. Len(s) : i \in 1 .. Len(h) /\ s[i] = h[i]
    PROVE  /\ Append(s, t) \in Seq(GitTrees) /\ Append(s, t) # <<>>
           /\ \A i \in 1 .. Len(Append(s, t)) :
                  Append(s, t)[i] = t \/ (i \in 1 .. Len(h) /\ Append(s, t)[i] = h[i])
           /\ Len(Append(s, t)) \in 1 .. Len(Append(s, t)) /\ Append(s, t)[Len(Append(s, t))] = t
           /\ \A i \in 1 .. Len(s) : i \in 1 .. Len(Append(s, t)) /\ Append(s, t)[i] = s[i]
<1>1. Len(s) \in Nat
    BY LenProperties
<1>2. PICK new : new = Append(s, t)
    OBVIOUS
<1>3. /\ new \in Seq(GitTrees) /\ Len(new) = Len(s) + 1
      /\ \A i \in 1 .. Len(s) : new[i] = s[i]
      /\ new[Len(s) + 1] = t
    BY <1>2, AppendProperties
<1>4. new # <<>>
    BY <1>1, <1>3, EmptySeq
<1>5. /\ \A i \in 1 .. Len(new) : new[i] = t \/ (i \in 1 .. Len(h) /\ new[i] = h[i])
      /\ Len(new) \in 1 .. Len(new) /\ new[Len(new)] = t
      /\ \A i \in 1 .. Len(s) : i \in 1 .. Len(new) /\ new[i] = s[i]
    BY <1>1, <1>3
<1> QED
    BY <1>2, <1>3, <1>4, <1>5

LEMMA CommitInitInv == CommitsInit => CommitInv
<1> SUFFICES ASSUME CommitsInit PROVE CommitInv
    OBVIOUS
<1>0. Root \in GitTrees /\ \A f \in Paths : Root[f] = 1
    BY DEF Root, GitTrees
<1>1. PICK begun : branches = [b \in Branches |->
                        IF b = <<"main">> THEN <<Root>>
                        ELSE IF begun # {} /\ b = <<"phase", 1>> THEN <<Root, [Root EXCEPT ![1] = 2]>>
                        ELSE <<>>]
    BY DEF CommitsInit
<1>2. PICK next \in GitTrees : next = [Root EXCEPT ![1] = 2] /\ \A f \in Paths : next[f] \in 1 .. 2
    <2>1. PICK next : next = [f \in Paths |-> IF f = 1 THEN 2 ELSE 1]
        OBVIOUS
    <2>2. next = [Root EXCEPT ![1] = 2]
        BY <2>1 DEF Root
    <2>3. next \in GitTrees /\ \A f \in Paths : next[f] \in 1 .. 2
        BY <2>1 DEF GitTrees
    <2> QED
        BY <2>2, <2>3
<1>3. \A b \in Branches : branches[b] \in {<<Root>>, <<Root, next>>, <<>>}
    BY <1>1, <1>2
<1>4. /\ <<Root>> \in Seq(GitTrees) /\ <<Root, next>> \in Seq(GitTrees) /\ <<>> \in Seq(GitTrees)
      /\ Len(<<Root>>) = 1 /\ Len(<<Root, next>>) = 2 /\ Len(<<>>) = 0
      /\ <<Root>>[1] = Root /\ <<Root, next>>[1] = Root /\ <<Root, next>>[2] = next /\ <<Root>> # <<>>
    BY <1>0
<1>5. \A b \in Branches : \A i \in 1 .. Len(branches[b]) : branches[b][i] \in {Root, next}
    BY <1>3, <1>4
<1>6. <<"main">> \in Branches /\ branches[<<"main">>] = <<Root>>
    BY <1>1 DEF Branches
<1>7. /\ current = <<"main">> /\ work = Root /\ index = Root /\ changes = 0 /\ acks = {}
      /\ staged = [c \in Committers |-> {}] /\ step = [c \in Committers |-> "idle"]
      /\ looked = [c \in Committers |-> 0] /\ checked = [c \in Committers |-> {}]
      /\ swept = {} /\ raced = {}
    BY DEF CommitsInit
<1>8. CommitTypes
    <2>1. branches \in [Branches -> Seq(GitTrees)]
        BY <1>1, <1>3, <1>4
    <2>2. ask \in [Committers -> Asks] /\ \A c \in Committers : looked[c] <= Len(ask[c].list)
        <3>1. NoAsk \in Asks /\ Len(NoAsk.list) = 0 /\ ask = [c \in Committers |-> NoAsk]
            BY DEF CommitsInit, NoAsk, Asks
        <3> QED
            BY <1>7, <3>1
    <2>3. /\ strategy \in {"none", "phase", "milestone"}
          /\ refused \in [Committers -> BOOLEAN] /\ alone \in [Committers -> BOOLEAN]
        BY DEF CommitsInit
    <2>4. HasBranch(current)
        BY <1>4, <1>6, <1>7 DEF HasBranch
    <2> QED
        BY <1>0, <1>6, <1>7, <2>1, <2>2, <2>3, <2>4 DEF CommitTypes, CommitSteps
<1>9. Grown /\ NoneRemoved
    <2>1. \A b \in Branches : \A i \in 1 .. Len(branches[b]) : \A f \in Paths : branches[b][i][f] \in 1 .. 2
        <3>1. SUFFICES ASSUME NEW b \in Branches, NEW i \in 1 .. Len(branches[b]), NEW f \in Paths
                       PROVE  branches[b][i][f] \in 1 .. 2
            OBVIOUS
        <3>2. branches[b][i] = Root \/ branches[b][i] = next
            BY <1>5
        <3>3. Root[f] \in 1 .. 2 /\ next[f] \in 1 .. 2
            BY <1>0, <1>2
        <3> QED
            BY <3>2, <3>3
    <2> QED
        BY <1>0, <1>7, <2>1 DEF Grown, NoneRemoved
<1>10. StagedInv /\ AloneInv /\ CheckedInv
    BY <1>7 DEF StagedInv, AloneInv, OnItsBranch, CheckedInv
<1> QED
    BY <1>8, <1>9, <1>10 DEF CommitInv

\* What is in a history stays there while nothing is amended.
LEMMA HistoryGrows ==
    ASSUME \A b \in Branches : \A i \in 1 .. Len(branches[b]) :
              i \in 1 .. Len(branches'[b]) /\ branches'[b][i] = branches[b][i]
    PROVE  \A f, v : /\ InHistory(f, v) => InHistory(f, v)'
                     /\ \A b \in Branches : OnBranch(b, f, v) => OnBranch(b, f, v)'
BY DEF InHistory, OnBranch

LEMMA ChangeKeeps == ASSUME CommitInv, NEW f \in Paths, Change(f) PROVE CommitInv'
<1> USE DEF CommitInv
<1>1. /\ changes' = changes + 1 /\ changes \in Nat /\ work \in GitTrees
      /\ UNCHANGED <<strategy, branches, current, index, step, ask, looked, checked, staged, refused,
                     alone, acks, swept, amended>>
      /\ \/ work' = [work EXCEPT ![f] = changes + 3] /\ raced' = raced
         \/ work' = [work EXCEPT ![f] = 0]
            /\ raced' = raced \cup {g \in {f} : \E c \in Committers : g \in checked[c]}
    BY DEF Change, CommitTypes, runVars
<1>2. work' \in GitTrees /\ \A g \in Paths : work'[g] = work[g] \/ (g = f /\ work'[g] \in {0, changes + 3})
    BY <1>1 DEF GitTrees
<1>4. Grown'
    <2>1. \A g \in Paths : index[g] \in Nat /\ work[g] \in Nat
        BY DEF CommitTypes, GitTrees
    <2>2. ASSUME NEW b \in Branches, NEW i \in 1 .. Len(branches[b]), NEW g \in Paths
          PROVE  branches[b][i][g] <= changes + 3
        <3>1. branches[b][i] \in GitTrees
            BY ElementOfSeq DEF CommitTypes
        <3>2. branches[b][i][g] \in Nat /\ branches[b][i][g] <= changes + 2
            BY <3>1 DEF Grown, GitTrees
        <3> QED
            BY <1>1, <3>2
    <2>3. \A g \in Paths : /\ index[g] <= changes + 3 /\ work'[g] <= changes + 3
                           /\ work'[g] = 0 \/ work'[g] >= index[g]
        BY <1>1, <1>2, <2>1 DEF Grown
    <2> QED
        BY <1>1, <2>2, <2>3 DEF Grown
<1>8. /\ raced \subseteq raced' /\ raced' \subseteq Paths
      /\ \A g \in Paths : g \notin raced' /\ work'[g] = 0 /\ (\E c \in Committers : g \in checked[c]) => work[g] = 0
    <2>1. raced \subseteq Paths
        BY DEF CommitTypes
    <2>2. CASE raced' = raced /\ work' = [work EXCEPT ![f] = changes + 3]
        <3>1. \A g \in Paths : work'[g] = 0 => work[g] = 0
            BY <1>1, <2>2 DEF GitTrees
        <3> QED
            BY <2>1, <2>2, <3>1
    <2>3. CASE raced' = raced \cup {g \in {f} : \E c \in Committers : g \in checked[c]}
        <3>1. \A g : g \in raced' <=> g \in raced \/ (g = f /\ \E c \in Committers : g \in checked[c])
            BY <2>3
        <3> QED
            BY <1>2, <2>1, <3>1
    <2> QED
        BY <1>1, <2>2, <2>3
<1>3. CommitTypes'
    BY <1>1, <1>2, <1>8 DEF CommitTypes, HasBranch
<1>5. NoneRemoved'
    BY <1>1, <1>8 DEF NoneRemoved, Stayed
<1>6. StagedInv'
    BY <1>1, <1>8 DEF StagedInv, InHistory, OnBranch, Stayed
<1>7. AloneInv' /\ CheckedInv'
    BY <1>1, SameBranch DEF AloneInv, OnItsBranch, CheckedInv
<1> QED
    BY <1>3, <1>4, <1>5, <1>6, <1>7

LEMMA StartKeeps ==
    ASSUME CommitInv, NEW c \in Committers, NEW request \in Requests, CommitStart(c, request)
    PROVE  CommitInv'
<1> USE DEF CommitInv
<1>1. /\ UNCHANGED <<strategy, branches, current, work, index, checked, acks, swept, raced, amended, changes>>
      /\ step[c] = "idle" /\ step' = [step EXCEPT ![c] = "branch"]
      /\ ask' = [ask EXCEPT ![c] = request] /\ looked' = [looked EXCEPT ![c] = 0]
      /\ staged' = [staged EXCEPT ![c] = {}] /\ refused' = [refused EXCEPT ![c] = FALSE]
      /\ alone' = [d \in Committers |-> IF d = c THEN ~Busy(c) ELSE alone[d] /\ step[d] = "idle"]
    BY DEF CommitStart, gitVars, noteVars
<1>2. CommitTypes'
    <2>1. request \in Asks /\ Len(request.list) \in Nat
        BY CommitAssumption, LenProperties DEF Asks
    <2>2. alone' \in [Committers -> BOOLEAN]
        BY <1>1 DEF Busy, CommitTypes
    <2>3. /\ ask' \in [Committers -> Asks] /\ looked' \in [Committers -> Nat]
          /\ \A d \in Committers : looked'[d] <= Len(ask'[d].list)
        BY <1>1, <2>1 DEF CommitTypes
    <2>4. step' \in [Committers -> CommitSteps] /\ staged' \in [Committers -> SUBSET (Paths \X Nat)]
          /\ refused' \in [Committers -> BOOLEAN]
        BY <1>1 DEF CommitTypes, CommitSteps
    <2> QED
        BY <1>1, <2>2, <2>3, <2>4 DEF CommitTypes, HasBranch
<1>3. Grown' /\ NoneRemoved'
    BY <1>1 DEF Grown, NoneRemoved, Stayed
<1>4. /\ step'[c] = "branch" /\ staged'[c] = {} /\ (alone'[c] <=> ~Busy(c))
      /\ \A d \in Committers : d # c => /\ step'[d] = step[d] /\ staged'[d] = staged[d]
                                        /\ alone'[d] <=> alone[d] /\ step[d] = "idle"
    BY <1>1 DEF CommitTypes
<1>5. StagedInv'
    BY <1>1, <1>4 DEF StagedInv, InHistory, OnBranch, Stayed
<1>6. AloneInv'
    <2>1. ASSUME NEW d \in Committers, alone'[d], step'[d] # "idle" PROVE d = c /\ ~Busy(c)
        BY <1>4, <2>1
    <2>2. OnItsBranch'
        BY <1>1 DEF AloneInv, OnItsBranch
    <2>3. \A d \in Committers : step'[d] \in {"idle", "branch"} => staged'[d] = {}
        BY <1>4 DEF AloneInv
    <2>4. ~Busy(c) => \A e \in Committers \ {c} : step'[e] = "idle"
        BY <1>4 DEF Busy
    <2> QED
        BY <1>4, <2>1, <2>2, <2>3, <2>4 DEF AloneInv
<1>7. CheckedInv'
    BY <1>1, <1>4 DEF CheckedInv
<1> QED
    BY <1>2, <1>3, <1>5, <1>6, <1>7

LEMMA SwitchKeeps == ASSUME CommitInv, NEW c \in Committers, SwitchBranch(c) PROVE CommitInv'
<1> USE DEF CommitInv
<1>1. /\ UNCHANGED <<strategy, ask, looked, checked, staged, alone, acks, swept, raced, amended, changes>>
      /\ step[c] = "branch" /\ step' = [step EXCEPT ![c] = "stage"]
    BY DEF SwitchBranch, noteVars
<1>2. PICK b \in Branches : b = BranchOf(c)
    BY BranchOfIsOne
<1>3. \A d \in Committers : alone[d] => staged[d] = {} /\ (step[d] # "idle" => d = c)
    BY <1>1 DEF AloneInv
<1>4. /\ step'[c] = "stage" /\ \A d \in Committers : d # c => step'[d] = step[d]
      /\ step' \in [Committers -> CommitSteps]
    BY <1>1 DEF CommitTypes, CommitSteps
<1>5. staged'[c] = {} /\ \A d \in Committers : step'[d] \in {"idle", "branch"} => staged'[d] = {}
    BY <1>1, <1>4 DEF AloneInv
<1>6. \A d \in Committers : alone'[d] /\ step'[d] # "idle" =>
          d = c /\ \A e \in Committers \ {c} : step'[e] = "idle"
    BY <1>1, <1>3, <1>4 DEF AloneInv
<1>13. CheckedInv'
    BY <1>1, <1>4 DEF CheckedInv
<1>7. /\ \A f \in Paths : index[f] \in Nat /\ work[f] \in Nat
      /\ Tip(current) \in GitTrees /\ Len(branches[current]) \in 1 .. Len(branches[current])
      /\ Tip(current) = branches[current][Len(branches[current])]
    BY TipIsTree DEF CommitTypes, GitTrees
<1>8. ASSUME UNCHANGED <<work, index>>, current' \in Branches, HasBranch(current)',
             branches' \in [Branches -> Seq(GitTrees)],
             \A d \in Branches : branches'[d] = branches[d]
                                 \/ (branches[d] = <<>> /\ branches'[d] = branches[current]),
             refused' \in [Committers -> BOOLEAN],
             alone[c] /\ ~refused'[c] => current' = BranchOf(c)'
      PROVE  CommitInv'
    <2>1. CommitTypes'
        BY <1>1, <1>4, <1>8 DEF CommitTypes
    <2>7. \A d \in Branches : \A i \in 1 .. Len(branches'[d]) :
              \E e \in Branches : i \in 1 .. Len(branches[e]) /\ branches'[d][i] = branches[e][i]
        <3>1. SUFFICES ASSUME NEW d \in Branches, NEW i \in 1 .. Len(branches'[d])
                       PROVE  \E e \in Branches : i \in 1 .. Len(branches[e]) /\ branches'[d][i] = branches[e][i]
            OBVIOUS
        <3>2. CASE branches'[d] = branches[d]
            BY <3>1, <3>2
        <3>3. CASE branches'[d] = branches[current] /\ current \in Branches
            BY <3>1, <3>3
        <3> QED
            BY <1>8, <3>2, <3>3 DEF CommitTypes
    <2>8. Grown'
        <3>1. \A f \in Paths : /\ index'[f] <= changes' + 2 /\ work'[f] <= changes' + 2
                               /\ work'[f] = 0 \/ work'[f] >= index'[f]
            BY <1>1, <1>8 DEF Grown
        <3>2. ASSUME NEW d \in Branches, NEW i \in 1 .. Len(branches'[d]), NEW f \in Paths
              PROVE  branches'[d][i][f] <= changes' + 2
            <4>1. PICK e \in Branches : i \in 1 .. Len(branches[e]) /\ branches'[d][i] = branches[e][i]
                BY <2>7
            <4>2. branches[e][i][f] <= changes + 2
                BY <4>1 DEF Grown
            <4> QED
                BY <1>1, <4>1, <4>2
        <3>3. \A d \in Branches : \A i \in 1 .. Len(branches'[d]) : \A f \in Paths :
                  branches'[d][i][f] <= changes' + 2
            BY <3>2
        <3> QED
            BY ONLY <3>1, <3>3 DEF Grown
    <2>9. NoneRemoved'
        <3>1. ASSUME NEW f \in Paths, Stayed(f)'
              PROVE  index'[f] # 0 /\ \A d \in Committers : f \in checked'[d] => work'[f] # 0
            BY <1>1, <1>8, <3>1 DEF NoneRemoved, Stayed
        <3>2. ASSUME NEW f \in Paths, Stayed(f)', NEW d \in Branches, NEW i \in 1 .. Len(branches'[d])
              PROVE  branches'[d][i][f] # 0
            <4>1. PICK e \in Branches : i \in 1 .. Len(branches[e]) /\ branches'[d][i] = branches[e][i]
                BY <2>7
            <4>2. Stayed(f)
                BY <1>1, <3>2 DEF Stayed
            <4>3. branches[e][i][f] # 0
                BY <4>1, <4>2 DEF NoneRemoved
            <4> QED
                BY <4>1, <4>3
        <3> QED
            BY <3>1, <3>2 DEF NoneRemoved
    <2>3. \A d \in Branches : \A i \in 1 .. Len(branches[d]) :
              i \in 1 .. Len(branches'[d]) /\ branches'[d][i] = branches[d][i]
        BY <1>8
    <2>4. StagedInv'
        <3>1. \A f : Stayed(f)' <=> Stayed(f)
            BY <1>1 DEF Stayed
        <3>2. \A f, v : /\ InHistory(f, v) => InHistory(f, v)'
                        /\ \A d \in Branches : OnBranch(d, f, v) => OnBranch(d, f, v)'
            BY <2>3, HistoryGrows
        <3>3. \A a \in acks : a.on \in Branches
            BY DEF CommitTypes, Acks
        <3>4. ASSUME ~amended, NEW a \in acks, NEW s \in a.files, Stayed(s[1])
              PROVE  InHistory(s[1], s[2])' /\ (a.alone => OnBranch(a.on, s[1], s[2])')
            BY <3>2, <3>3, <3>4 DEF StagedInv
        <3>5. ASSUME ~amended, NEW d \in Committers, NEW s \in staged[d], Stayed(s[1])
              PROVE  /\ index[s[1]] >= s[2] \/ InHistory(s[1], s[2])'
                     /\ alone[d] => index[s[1]] >= s[2]
            BY <3>2, <3>5 DEF StagedInv
        <3> QED
            BY <1>1, <1>8, <3>1, <3>4, <3>5 DEF StagedInv
    <2>5. AloneInv'
        BY <1>1, <1>5, <1>6, <1>8 DEF AloneInv, OnItsBranch
    <2> QED
        BY <1>13, <2>1, <2>4, <2>5, <2>8, <2>9
<1>9. CASE b = current /\ UNCHANGED <<branches, current, work, index, refused>>
    <2>1. BranchOf(c)' = BranchOf(c)
        BY <1>1, <1>9, SameBranch
    <2> QED
        BY <1>2, <1>8, <1>9, <2>1 DEF CommitTypes, HasBranch
<1>10. CASE /\ b # current /\ ~HasBranch(b) /\ branches' = [branches EXCEPT ![b] = branches[current]]
            /\ current' = b /\ UNCHANGED <<work, index, refused>>
    <2>1. BranchOf(c)' = b
        BY <1>1, <1>2, <1>10, SameBranch
    <2>2. /\ branches' \in [Branches -> Seq(GitTrees)] /\ branches'[b] = branches[current]
          /\ \A d \in Branches : d # b => branches'[d] = branches[d]
        BY <1>10 DEF CommitTypes
    <2> QED
        BY <1>8, <1>10, <2>1, <2>2 DEF CommitTypes, HasBranch
<1>11. CASE /\ b # current /\ HasBranch(b) /\ current' = b
            /\ work' = Switched(work, b) /\ index' = Switched(index, b) /\ UNCHANGED <<branches, refused>>
    <2>1. BranchOf(c)' = b
        BY <1>1, <1>2, <1>11, SameBranch
    <2>2. /\ Tip(b) \in GitTrees /\ Len(branches[b]) \in 1 .. Len(branches[b])
          /\ Tip(b) = branches[b][Len(branches[b])]
        BY <1>11, TipIsTree
    <2>3. \A f \in Paths : \/ index'[f] = index[f] /\ work'[f] = work[f]
                           \/ /\ index'[f] = Tip(b)[f] /\ work'[f] = Tip(b)[f]
                              /\ index[f] = Tip(current)[f]
        BY <1>11 DEF Switched, Clean
    <2>4. index' \in GitTrees /\ work' \in GitTrees
        BY <1>7, <1>11, <2>2 DEF Switched, GitTrees
    <2>5. CommitTypes'
        BY <1>1, <1>4, <1>11, <2>4 DEF CommitTypes, HasBranch
    <2>6. Grown'
        <3>1. \A f \in Paths : Tip(b)[f] \in Nat /\ Tip(b)[f] <= changes + 2
            BY <2>2 DEF Grown, GitTrees
        <3> QED
            BY <1>1, <1>7, <1>11, <2>3, <3>1 DEF Grown
    <2>7. NoneRemoved'
        BY <1>1, <1>11, <2>2, <2>3 DEF NoneRemoved, Stayed
    <2>8. ASSUME ~amended', NEW d \in Committers, NEW s \in staged'[d], Stayed(s[1])'
          PROVE  index'[s[1]] >= s[2] \/ InHistory(s[1], s[2])'
        <3>1. index[s[1]] >= s[2] \/ InHistory(s[1], s[2])
            BY <1>1, <2>8 DEF StagedInv, Stayed
        <3>2. InHistory(s[1], s[2]) => InHistory(s[1], s[2])'
            BY <1>11 DEF InHistory, OnBranch
        <3>3. s[1] \in Paths
            BY <1>1 DEF CommitTypes
        <3>4. index[s[1]] = Tip(current)[s[1]] /\ index[s[1]] >= s[2] => InHistory(s[1], s[2])
            BY <1>7 DEF InHistory, OnBranch, CommitTypes
        <3> QED
            BY <2>3, <3>1, <3>2, <3>3, <3>4
    <2>9. StagedInv'
        BY <1>1, <1>3, <1>11, <2>8 DEF StagedInv, InHistory, OnBranch, Stayed
    <2>10. AloneInv'
        BY <1>1, <1>5, <1>6, <1>11, <2>1 DEF AloneInv, OnItsBranch
    <2> QED
        BY <1>13, <2>5, <2>6, <2>7, <2>9, <2>10
<1>12. CASE refused' = [refused EXCEPT ![c] = TRUE] /\ UNCHANGED <<branches, current, work, index>>
    <2>1. refused'[c] /\ refused' \in [Committers -> BOOLEAN]
        BY <1>12 DEF CommitTypes
    <2> QED
        BY <1>8, <1>12, <2>1 DEF CommitTypes, HasBranch
<1> QED
    BY <1>2, <1>9, <1>10, <1>11, <1>12 DEF SwitchBranch, gitVars

\* An entry is looked at or added: the index gets what is in the working tree,
\* never an older version.
LEMMA StagingKeeps ==
    ASSUME CommitInv, NEW c \in Committers, step[c] = "stage",
           UNCHANGED <<strategy, branches, current, work, step, ask, refused, alone, acks, raced,
                       amended, changes>>,
           looked' \in [Committers -> Nat], \A d \in Committers : looked'[d] <= Len(ask[d].list),
           checked' \in [Committers -> SUBSET Entries],
           \A d \in Committers : \A f \in Paths : f \in checked'[d] => f \in checked[d] \/ work[f] # 0,
           \A d \in Committers : d # c => checked'[d] = checked[d],
           index' \in GitTrees, swept \subseteq swept', swept' \subseteq Paths,
           \A f \in Paths : index'[f] = index[f] \/ (index'[f] = work[f] /\ (Stayed(f)' => work[f] # 0)),
           staged' \in [Committers -> SUBSET (Paths \X Nat)],
           \A d \in Committers : d # c => staged'[d] = staged[d],
           \A s \in staged'[c] : s \in staged[c] \/ index'[s[1]] = s[2]
    PROVE  CommitInv'
<1> USE DEF CommitInv
<1>1. CommitTypes'
    BY DEF CommitTypes, HasBranch
<1>2. \A f \in Paths : index[f] \in Nat /\ work[f] \in Nat /\ index'[f] \in Nat
    BY DEF CommitTypes, GitTrees
<1>3. Grown'
    BY <1>2 DEF Grown
<1>8. \A f \in Paths : Stayed(f)' => Stayed(f)
    BY DEF Stayed
<1>9. NoneRemoved'
    BY <1>8 DEF NoneRemoved
<1>4. \A f \in Paths : Stayed(f)' => index'[f] >= index[f]
    BY <1>2 DEF Grown
<1>5. ASSUME ~amended', NEW d \in Committers, NEW s \in staged'[d], Stayed(s[1])'
      PROVE  /\ index'[s[1]] >= s[2] \/ InHistory(s[1], s[2])'
             /\ alone'[d] => index'[s[1]] >= s[2]
    <2>1. s[1] \in Paths /\ s[2] \in Nat
        BY <1>1 DEF CommitTypes
    <2>2. CASE s \in staged[d]
        <3>1. /\ index[s[1]] >= s[2] \/ InHistory(s[1], s[2])
              /\ alone[d] => index[s[1]] >= s[2]
            BY <1>5, <1>8, <2>1, <2>2 DEF StagedInv
        <3>2. InHistory(s[1], s[2]) => InHistory(s[1], s[2])'
            BY DEF InHistory, OnBranch
        <3>3. index'[s[1]] >= index[s[1]] /\ index'[s[1]] \in Nat /\ index[s[1]] \in Nat
            BY <1>2, <1>4, <1>5, <2>1
        <3> QED
            BY <2>1, <3>1, <3>2, <3>3
    <2>3. CASE s \notin staged[d]
        BY <1>5, <2>1, <2>3
    <2> QED
        BY <2>2, <2>3
<1>10. ASSUME ~amended', NEW a \in acks', NEW s \in a.files, Stayed(s[1])'
       PROVE  /\ InHistory(s[1], s[2])'
              /\ a.alone => OnBranch(a.on, s[1], s[2])'
    <2>1. s[1] \in Paths
        BY <1>10 DEF CommitTypes, Acks
    <2>2. InHistory(s[1], s[2]) /\ (a.alone => OnBranch(a.on, s[1], s[2]))
        BY <1>8, <1>10, <2>1 DEF StagedInv
    <2> QED
        BY <2>2 DEF InHistory, OnBranch
<1>6. StagedInv'
    BY <1>5, <1>10 DEF StagedInv
<1>7. AloneInv'
    <2>1. \A d \in Committers : step'[d] \in {"idle", "branch"} => staged'[d] = {}
        BY DEF AloneInv
    <2>2. \A d \in Committers : alone'[d] /\ step'[d] = "stage" /\ ~refused'[d] => current' = BranchOf(d)'
        BY SameBranch DEF AloneInv
    <2> QED
        BY <2>1, <2>2 DEF AloneInv, OnItsBranch
<1>11. CheckedInv'
    BY DEF CheckedInv
<1> QED
    BY <1>1, <1>3, <1>6, <1>7, <1>9, <1>11

LEMMA CheckKeeps == ASSUME CommitInv, NEW c \in Committers, CheckEntry(c) PROVE CommitInv'
<1>1. /\ step[c] = "stage" /\ looked[c] < Len(ask[c].list) /\ looked' = [looked EXCEPT ![c] = looked[c] + 1]
      /\ UNCHANGED <<strategy, branches, current, work, index, step, ask, staged, refused, alone, acks,
                     swept, raced, amended, changes>>
    BY DEF CheckEntry, Looks, gitVars, noteVars
<1>2. CommitTypes /\ NoneRemoved
    BY DEF CommitInv
<1>3. PICK list \in Seq(Entries) : list = ask[c].list
    BY <1>2 DEF CommitTypes, Asks
<1>4. PICK n \in Nat : n = looked[c]
    BY <1>2 DEF CommitTypes
<1>5. Len(list) \in Nat /\ n + 1 \in 1 .. Len(list) /\ list[n + 1] \in Entries
    <2>1. Len(list) \in Nat
        BY LenProperties
    <2>2. n + 1 \in 1 .. Len(list)
        BY <1>1, <1>3, <1>4, <2>1
    <2> QED
        BY <2>1, <2>2, ElementOfSeq
<1>6. looked' \in [Committers -> Nat] /\ \A d \in Committers : looked'[d] <= Len(ask[d].list)
    BY <1>1, <1>2, <1>3, <1>4, <1>5 DEF CommitTypes
<1>7. PICK e \in Entries : e = ask[c].list[looked[c] + 1]
    BY <1>3, <1>4, <1>5
<1>8. /\ checked' \in [Committers -> SUBSET Entries]
      /\ \A d \in Committers : d # c => checked'[d] = checked[d]
      /\ \A d \in Committers : \A f \in Paths : f \in checked'[d] => f \in checked[d] \/ work[f] # 0
    <2>1. CASE (e # Above => work[e] # 0) /\ checked' = [checked EXCEPT ![c] = {e}]
        <3>1. \A f \in Paths : f = e => work[f] # 0
            BY <2>1, CommitAssumption DEF Above
        <3> QED
            BY <1>2, <2>1, <3>1 DEF CommitTypes
    <2>2. CASE checked' = checked
        BY <1>2, <2>2 DEF CommitTypes
    <2> QED
        BY <1>7, <2>1, <2>2 DEF CheckEntry
<1> QED
    BY <1>1, <1>2, <1>6, <1>8, StagingKeeps DEF CommitTypes

LEMMA AddKeeps == ASSUME CommitInv, NEW c \in Committers, NEW e \in Entries, AddEntry(c, e) PROVE CommitInv'
<1>1. /\ UNCHANGED <<strategy, branches, current, work, step, ask, looked, refused, alone, acks, raced,
                     amended, changes>>
      /\ e \in checked[c] /\ checked' = [checked EXCEPT ![c] = {}]
    BY DEF AddEntry
<1>2. CommitTypes /\ NoneRemoved /\ AloneInv /\ CheckedInv
    BY DEF CommitInv
<1>3. /\ step[c] = "stage" /\ looked' \in [Committers -> Nat]
      /\ \A d \in Committers : looked'[d] <= Len(ask[d].list)
      /\ checked' \in [Committers -> SUBSET Entries]
      /\ \A d \in Committers : d # c => checked'[d] = checked[d]
      /\ \A d \in Committers : \A f \in Paths : f \in checked'[d] => f \in checked[d]
    BY <1>1, <1>2 DEF CommitTypes, CheckedInv, CommitSteps
<1>4. CASE UNCHANGED <<index, staged, swept>>
    BY <1>1, <1>2, <1>3, <1>4, StagingKeeps DEF CommitTypes
<1>5. CASE /\ index' = [f \in Paths |-> IF f \in FilesOf(e) THEN work[f] ELSE index[f]]
           /\ staged' = [staged EXCEPT ![c] = staged[c] \cup {<<f, work[f]>> : f \in FilesOf(e)}]
           /\ swept' = swept \cup {f \in FilesOf(e) : e = Above /\ work[f] = 0}
    <2>1. FilesOf(e) \subseteq Paths /\ (e # Above => FilesOf(e) = {e})
        BY DEF FilesOf, Entries
    <2>2. work \in GitTrees /\ index \in GitTrees /\ swept \subseteq Paths
        BY <1>2 DEF CommitTypes
    <2>3. /\ index' \in GitTrees /\ swept \subseteq swept' /\ swept' \subseteq Paths
          /\ \A f \in Paths : f \notin FilesOf(e) => index'[f] = index[f]
          /\ \A f \in FilesOf(e) : index'[f] = work[f]
        BY <1>5, <2>1, <2>2 DEF GitTrees
    <2>4. ASSUME NEW f \in FilesOf(e), Stayed(f)'
          PROVE  work[f] # 0
        <3>1. CASE e = Above
            BY <1>5, <2>4, <3>1 DEF Stayed
        <3>2. CASE e # Above
            <4>1. f = e /\ f \in Paths /\ Stayed(f)
                BY <1>1, <2>1, <2>3, <2>4, <3>2 DEF Stayed
            <4> QED
                BY <1>1, <1>2, <4>1 DEF NoneRemoved
        <3> QED
            BY <3>1, <3>2
    <2>5. {<<f, work[f]>> : f \in FilesOf(e)} \subseteq Paths \X Nat
        BY <2>1, <2>2 DEF GitTrees
    <2>6. /\ staged' \in [Committers -> SUBSET (Paths \X Nat)]
          /\ \A d \in Committers : d # c => staged'[d] = staged[d]
          /\ staged'[c] = staged[c] \cup {<<f, work[f]>> : f \in FilesOf(e)}
        BY <1>2, <1>5, <2>5 DEF CommitTypes
    <2>7. \A s \in staged'[c] : s \in staged[c] \/ index'[s[1]] = s[2]
        BY <2>3, <2>6
    <2>8. \A f \in Paths : index'[f] = index[f] \/ (index'[f] = work[f] /\ (Stayed(f)' => work[f] # 0))
        BY <2>3, <2>4
    <2> QED
        BY <1>1, <1>3, <2>3, <2>6, <2>7, <2>8, StagingKeeps
<1> QED
    BY <1>4, <1>5 DEF AddEntry

LEMMA CommitKeeps == ASSUME CommitInv, NEW c \in Committers, GitCommit(c) PROVE CommitInv'
<1> USE DEF CommitInv
<1>1. /\ UNCHANGED <<strategy, current, work, index, checked, swept, raced, changes>>
      /\ step[c] = "stage" /\ step' = [step EXCEPT ![c] = "idle"] /\ checked[c] = {}
      /\ looked' = [looked EXCEPT ![c] = 0]
      /\ ask' = [ask EXCEPT ![c] = NoAsk] /\ staged' = [staged EXCEPT ![c] = {}]
      /\ refused' = [refused EXCEPT ![c] = FALSE] /\ alone' = [alone EXCEPT ![c] = TRUE]
    BY DEF GitCommit
<1>2. /\ step'[c] = "idle" /\ staged'[c] = {}
      /\ \A d \in Committers : d # c => /\ step'[d] = step[d] /\ ask'[d] = ask[d] /\ staged'[d] = staged[d]
                                        /\ refused'[d] = refused[d] /\ alone'[d] = alone[d]
      /\ step' \in [Committers -> CommitSteps]
      /\ staged' \in [Committers -> SUBSET (Paths \X Nat)]
      /\ refused' \in [Committers -> BOOLEAN] /\ alone' \in [Committers -> BOOLEAN]
    BY <1>1 DEF CommitTypes, CommitSteps
<1>3. /\ ask' \in [Committers -> Asks] /\ looked' \in [Committers -> Nat]
      /\ \A d \in Committers : looked'[d] <= Len(ask'[d].list)
    <2>1. NoAsk \in Asks /\ Len(NoAsk.list) = 0
        BY DEF NoAsk, Asks
    <2> QED
        BY <1>1, <2>1 DEF CommitTypes
<1>4. /\ \A d \in Committers : alone'[d] /\ step'[d] # "idle" => \A e \in Committers \ {d} : step'[e] = "idle"
      /\ \A d \in Committers : step'[d] \in {"idle", "branch"} => staged'[d] = {}
    BY <1>2 DEF AloneInv
<1>8. CheckedInv'
    BY <1>1, <1>2 DEF CheckedInv
<1>5. ASSUME NEW d \in Committers, alone'[d], step'[d] = "stage", ~refused'[d]
      PROVE  current' = BranchOf(d)'
    <2>1. d # c
        BY <1>2, <1>5
    <2>2. BranchOf(d)' = BranchOf(d)
        BY <1>1, <1>2, <2>1, SameBranch
    <2> QED
        BY <1>1, <1>2, <1>5, <2>1, <2>2 DEF AloneInv
<1>6. CASE UNCHANGED <<branches, acks, amended>>
    <2>1. CommitTypes'
        BY <1>1, <1>2, <1>3, <1>6 DEF CommitTypes, HasBranch
    <2>2. Grown' /\ NoneRemoved'
        BY <1>1, <1>6 DEF Grown, NoneRemoved, Stayed
    <2>3. StagedInv'
        BY <1>1, <1>2, <1>6 DEF StagedInv, InHistory, OnBranch, Stayed
    <2>4. AloneInv'
        BY <1>4, <1>5, <1>6 DEF AloneInv, OnItsBranch
    <2> QED
        BY <1>8, <2>1, <2>2, <2>3, <2>4
<1>7. CASE Committed(c)
    <2> DEFINE ack == [on |-> current, due |-> IF refused[c] THEN current ELSE BranchOf(c),
                       files |-> staged[c], alone |-> alone[c]]
    <2>1. /\ branches' = [branches EXCEPT ![current] =
                             Append(IF ask[c].amend THEN Front(branches[current]) ELSE branches[current], index)]
          /\ amended' = (amended \/ ask[c].amend) /\ acks' = acks \cup {ack}
        BY <1>7 DEF Committed
    <2>2. PICK new : new = Append(IF ask[c].amend THEN Front(branches[current]) ELSE branches[current], index)
        OBVIOUS
    <2>3. /\ branches[current] \in Seq(GitTrees) /\ branches[current] # <<>> /\ index \in GitTrees
          /\ ask[c].amend \in BOOLEAN
        BY DEF CommitTypes, HasBranch, Asks
    <2>12. PICK h \in Seq(GitTrees), t \in GitTrees : h = branches[current] /\ t = index /\ h # <<>>
        BY <2>3
    <2>4. /\ new \in Seq(GitTrees) /\ new # <<>>
          /\ \A i \in 1 .. Len(new) : new[i] = index
                \/ (i \in 1 .. Len(branches[current]) /\ new[i] = branches[current][i])
          /\ Len(new) \in 1 .. Len(new) /\ new[Len(new)] = index
          /\ ~ask[c].amend => \A i \in 1 .. Len(branches[current]) :
                                  i \in 1 .. Len(new) /\ new[i] = branches[current][i]
        <3>1. PICK s : s = IF ask[c].amend THEN Front(h) ELSE h
            OBVIOUS
        <3>2. /\ s \in Seq(GitTrees)
              /\ \A i \in 1 .. Len(s) : i \in 1 .. Len(h) /\ s[i] = h[i]
              /\ ~ask[c].amend => s = h
            BY <2>12, <3>1, AllButLast
        <3>3. new = Append(s, t)
            BY <2>2, <2>12, <3>1
        <3>4. /\ new \in Seq(GitTrees) /\ new # <<>>
              /\ \A i \in 1 .. Len(new) : new[i] = t \/ (i \in 1 .. Len(h) /\ new[i] = h[i])
              /\ Len(new) \in 1 .. Len(new) /\ new[Len(new)] = t
              /\ \A i \in 1 .. Len(s) : i \in 1 .. Len(new) /\ new[i] = s[i]
            <4>1. /\ Append(s, t) \in Seq(GitTrees) /\ Append(s, t) # <<>>
                  /\ \A i \in 1 .. Len(Append(s, t)) :
                        Append(s, t)[i] = t \/ (i \in 1 .. Len(h) /\ Append(s, t)[i] = h[i])
                  /\ Len(Append(s, t)) \in 1 .. Len(Append(s, t)) /\ Append(s, t)[Len(Append(s, t))] = t
                  /\ \A i \in 1 .. Len(s) : i \in 1 .. Len(Append(s, t)) /\ Append(s, t)[i] = s[i]
                BY ONLY <3>2, h \in Seq(GitTrees), t \in GitTrees, Appended
            <4> QED
                BY ONLY <3>3, <4>1
        <3> QED
            BY <2>12, <3>2, <3>4
    <2>5. /\ branches' \in [Branches -> Seq(GitTrees)] /\ branches'[current] = new
          /\ \A b \in Branches : b # current => branches'[b] = branches[b]
        BY <2>1, <2>2, <2>4 DEF CommitTypes
    <2>6. ack.on = current /\ ack.due = (IF refused[c] THEN current ELSE BranchOf(c))
          /\ ack.files = staged[c] /\ ack.alone = alone[c] /\ ack \in Acks
        BY BranchOfIsOne DEF CommitTypes, Acks
    <2> HIDE DEF ack
    <2>7. CommitTypes'
        BY <1>1, <1>2, <1>3, <2>1, <2>4, <2>5, <2>6 DEF CommitTypes, HasBranch
    <2>8. Grown'
        <3>1. ASSUME NEW b \in Branches, NEW i \in 1 .. Len(branches'[b]), NEW f \in Paths
              PROVE  branches'[b][i][f] <= changes + 2
            <4>1. CASE b = current
                BY <2>4, <2>5, <3>1, <4>1 DEF Grown
            <4>2. CASE b # current
                BY <2>5, <3>1, <4>2 DEF Grown
            <4> QED
                BY <4>1, <4>2
        <3> QED
            BY <1>1, <3>1 DEF Grown
    <2>9. NoneRemoved'
        <3>1. \A f \in Paths : Stayed(f)' <=> Stayed(f)
            BY <1>1 DEF Stayed
        <3>2. ASSUME NEW f \in Paths, Stayed(f), NEW b \in Branches, NEW i \in 1 .. Len(branches'[b])
              PROVE  branches'[b][i][f] # 0
            <4>1. CASE b = current
                BY <2>4, <2>5, <3>2, <4>1 DEF NoneRemoved
            <4>2. CASE b # current
                BY <2>5, <3>2, <4>2 DEF NoneRemoved
            <4> QED
                BY <4>1, <4>2
        <3>3. \A f \in Paths : Stayed(f) => index'[f] # 0 /\ \A d \in Committers : f \in checked'[d] => work'[f] # 0
            BY <1>1 DEF NoneRemoved
        <3> QED
            BY <3>1, <3>2, <3>3 DEF NoneRemoved
    <2>10. AloneInv'
        <3>1. ack.alone => ack.on = ack.due
            BY <1>1, <2>6 DEF AloneInv
        <3>2. OnItsBranch'
            BY <2>1, <3>1 DEF AloneInv, OnItsBranch
        <3> QED
            BY <1>4, <1>5, <3>2 DEF AloneInv
    <2>11. StagedInv'
        <3>1. SUFFICES ASSUME ~amended' PROVE StagedInv'
            BY DEF StagedInv
        <3>2. ~amended /\ ~ask[c].amend
            BY <1>1, <2>1, <3>1
        <3>11. \A f : Stayed(f)' <=> Stayed(f)
            BY <1>1 DEF Stayed
        <3>3. \A b \in Branches : \A i \in 1 .. Len(branches[b]) :
                  i \in 1 .. Len(branches'[b]) /\ branches'[b][i] = branches[b][i]
            BY <2>4, <2>5, <3>2
        <3>4. \A f, v : /\ InHistory(f, v) => InHistory(f, v)'
                        /\ \A b \in Branches : OnBranch(b, f, v) => OnBranch(b, f, v)'
            BY <3>3, HistoryGrows
        <3>5. ASSUME NEW f, NEW v, index[f] >= v
              PROVE  \E i \in 1 .. Len(branches'[current]) : branches'[current][i][f] >= v
            BY <2>4, <2>5, <3>5
        <3>6. ASSUME NEW f, NEW v, index[f] >= v
              PROVE  InHistory(f, v)'
            BY <3>5, <3>6 DEF InHistory, OnBranch, CommitTypes
        <3>7. ASSUME NEW s \in ack.files, Stayed(s[1])
              PROVE  /\ InHistory(s[1], s[2])'
                     /\ ack.alone => \E i \in 1 .. Len(branches'[ack.on]) : branches'[ack.on][i][s[1]] >= s[2]
            <4>1. /\ index[s[1]] >= s[2] \/ InHistory(s[1], s[2])
                  /\ ack.alone => index[s[1]] >= s[2]
                BY <2>6, <3>2, <3>7 DEF StagedInv
            <4>2. InHistory(s[1], s[2])'
                BY <3>4, <3>6, <4>1
            <4>3. ack.alone => \E i \in 1 .. Len(branches'[current]) : branches'[current][i][s[1]] >= s[2]
                BY <3>5, <4>1
            <4> QED
                BY <2>6, <4>2, <4>3
        <3>8. \A a \in acks : \A s \in a.files : Stayed(s[1]) =>
                  /\ InHistory(s[1], s[2])'
                  /\ a.alone => OnBranch(a.on, s[1], s[2])'
            BY <3>2, <3>4 DEF StagedInv, CommitTypes, Acks
        <3>9. \A d \in Committers : \A s \in staged'[d] : Stayed(s[1]) =>
                  /\ index[s[1]] >= s[2] \/ InHistory(s[1], s[2])'
                  /\ alone'[d] => index[s[1]] >= s[2]
            BY <1>2, <3>2, <3>4 DEF StagedInv
        <3>10. ASSUME NEW a \in acks', NEW s \in a.files, Stayed(s[1])
               PROVE  /\ InHistory(s[1], s[2])'
                      /\ a.alone => OnBranch(a.on, s[1], s[2])'
            <4>1. CASE a \in acks
                BY <3>8, <3>10, <4>1
            <4>2. CASE a = ack
                BY <3>7, <3>10, <4>2 DEF OnBranch
            <4> QED
                BY <2>1, <3>10, <4>1, <4>2
        <3> QED
            BY <1>1, <3>9, <3>10, <3>11 DEF StagedInv
    <2> QED
        BY <1>8, <2>7, <2>8, <2>9, <2>10, <2>11
<1> QED
    BY <1>6, <1>7 DEF GitCommit

LEMMA CommitStep == CommitInv /\ [CommitsNext]_commitVars => CommitInv'
<1> SUFFICES ASSUME CommitInv, [CommitsNext]_commitVars PROVE CommitInv'
    OBVIOUS
<1>1. CASE UNCHANGED commitVars
    <2>1. UNCHANGED <<strategy, branches, current, work, index, step, ask, looked, checked, staged, refused,
                      alone, acks, swept, raced, amended, changes>>
        BY <1>1 DEF commitVars, gitVars, runVars, noteVars
    <2>2. CommitTypes' /\ Grown' /\ NoneRemoved' /\ CheckedInv'
        BY <2>1 DEF CommitInv, CommitTypes, Grown, NoneRemoved, Stayed, CheckedInv, HasBranch
    <2>3. StagedInv'
        BY <2>1 DEF CommitInv, StagedInv, Stayed, InHistory, OnBranch
    <2>4. AloneInv'
        BY <2>1, SameBranch DEF CommitInv, AloneInv, OnItsBranch
    <2> QED
        BY <2>2, <2>3, <2>4 DEF CommitInv
<1> QED
    BY <1>1, ChangeKeeps, StartKeeps, SwitchKeeps, CheckKeeps, AddKeeps, CommitKeeps DEF CommitsNext

\* Commits.CommitsKeep and OnItsBranch, for any number of processes, files and
\* commands: whatever the checkouts, adds and commits of several git processes
\* in one checkout overlap, what was reported as committed is in a history.
THEOREM CommitPromises == CommitsSpec => [](CommitsKeep /\ OnItsBranch)
<1>1. CommitInv => CommitsKeep
    <2> SUFFICES ASSUME CommitInv, ~amended PROVE CommitsKeep
        BY DEF CommitsKeep
    <2>1. \A b \in Branches : branches[b] \in Seq(GitTrees) /\ DOMAIN branches[b] = 1 .. Len(branches[b])
                              /\ Len(branches[b]) \in Nat
        BY LenProperties DEF CommitInv, CommitTypes
    <2>2. ASSUME NEW a \in acks, NEW s \in a.files, s[1] \notin swept \cup raced
          PROVE  \E b \in Branches : (a.alone => b = a.on) /\ \E t \in ToSet(branches[b]) : t[s[1]] >= s[2]
        <3>1. InHistory(s[1], s[2]) /\ (a.alone => OnBranch(a.on, s[1], s[2])) /\ a.on \in Branches
            BY <2>2 DEF CommitInv, StagedInv, CommitTypes, Acks, Stayed
        <3>2. PICK b \in Branches : (a.alone => b = a.on) /\ OnBranch(b, s[1], s[2])
            BY <3>1 DEF InHistory
        <3> QED
            BY <2>1, <3>2 DEF OnBranch, ToSet
    <2>3. ASSUME NEW b \in Branches, NEW i \in 1 .. Len(branches[b]) - 1,
                 NEW f \in Paths \ (swept \cup raced)
          PROVE  branches[b][i + 1][f] # 0
        BY <2>1 DEF CommitInv, NoneRemoved, Stayed
    <2> QED
        BY <2>2, <2>3 DEF CommitsKeep
<1>2. CommitInv => OnItsBranch
    BY DEF CommitInv, AloneInv
<1> QED
    BY <1>1, <1>2, CommitInitInv, CommitStep, PTL DEF CommitsSpec

\* No file changed more often than the bound allows.
FewChanges == changes <= MaxChanges

LEMMA ChangesStep == CommitInv /\ FewChanges /\ [CommitsNext]_commitVars => FewChanges'
<1> SUFFICES ASSUME CommitInv, FewChanges, [CommitsNext]_commitVars PROVE FewChanges'
    OBVIOUS
<1>1. changes \in Nat /\ MaxChanges \in Nat
    BY CommitAssumption DEF CommitInv, CommitTypes
<1>2. ASSUME NEW f \in Paths, Change(f) PROVE FewChanges'
    BY <1>1, <1>2 DEF Change, FewChanges
<1>3. ASSUME NEW c \in Committers, NEW request \in Requests, CommitStart(c, request) PROVE FewChanges'
    BY <1>3 DEF CommitStart, FewChanges
<1>4. ASSUME NEW c \in Committers, SwitchBranch(c) \/ CheckEntry(c) \/ GitCommit(c) PROVE FewChanges'
    BY <1>4 DEF SwitchBranch, CheckEntry, Looks, GitCommit, FewChanges
<1>5. ASSUME NEW c \in Committers, NEW e \in Entries, AddEntry(c, e) PROVE FewChanges'
    BY <1>5 DEF AddEntry, FewChanges
<1>6. CASE UNCHANGED commitVars
    BY <1>6 DEF commitVars, FewChanges
<1> QED
    BY <1>2, <1>3, <1>4, <1>5, <1>6 DEF CommitsNext

\* HEAD is on a branch that has a commit, and a command looks only at entries
\* of its list.
THEOREM CommitsTyped == CommitsSpec => []CommitsTypeOK
<1>1. CommitsInit => CommitInv /\ FewChanges
    <2> SUFFICES ASSUME CommitsInit PROVE FewChanges
        BY CommitInitInv
    <2> QED
        BY CommitAssumption DEF CommitsInit, FewChanges
<1>2. CommitInv /\ FewChanges => CommitsTypeOK
    <2> SUFFICES ASSUME CommitInv, FewChanges PROVE CommitsTypeOK
        OBVIOUS
    <2>1. work \in [Paths -> Nat] /\ HasBranch(current) /\ changes \in Nat /\ changes <= MaxChanges
        BY DEF CommitInv, CommitTypes, GitTrees, FewChanges
    <2>2. \A f \in Paths : work[f] \in 0 .. MaxChanges + 2
        BY <2>1, CommitAssumption DEF CommitInv, Grown
    <2>3. \A c \in Committers : looked[c] \in 0 .. Len(ask[c].list) /\ checked[c] \subseteq Entries
        <3>1. SUFFICES ASSUME NEW c \in Committers
                       PROVE  looked[c] \in 0 .. Len(ask[c].list) /\ checked[c] \subseteq Entries
            OBVIOUS
        <3>2. PICK list \in Seq(Entries) : list = ask[c].list
            BY DEF CommitInv, CommitTypes, Asks
        <3>3. Len(list) \in Nat
            BY LenProperties
        <3> QED
            BY <3>2, <3>3 DEF CommitInv, CommitTypes
    <2> QED
        BY <2>1, <2>2, <2>3 DEF CommitsTypeOK
<1> QED
    BY <1>1, <1>2, CommitStep, ChangesStep, PTL DEF CommitsSpec

-----------------------------------------------------------------------------
(* All of them in one state space. *)

\* In the state space of all tools, every model runs by its own specification.
LEMMA ToolsRunCommands == ToolsSpec => MonitorSpec /\ UpdateSpec /\ CommitsSpec
<1>1. ToolsInit => MonitorInit /\ UpdateInit /\ CommitsInit
    BY DEF ToolsInit
<1>2. [ToolsNext]_toolsVars =>
          [MonitorNext]_monitorVars /\ [UpdateNext]_updateVars /\ [CommitsNext]_commitVars
    BY DEF ToolsNext, OnlyPlanning, OnlyStreams, OnlyConfig, OnlyMonitor, OnlyUpdate, OnlyCommits,
           OnlyTrees, OnlyLearnings, OnlyGraph, toolsVars
<1> QED
    BY <1>1, <1>2, PTL DEF ToolsSpec, MonitorSpec, UpdateSpec, CommitsSpec

\* MCTools.HooksSound: an agent that hears that its state is in STATE.md hears it
\* after a record of the session was started, unless that threw; the agent is
\* never left without a message for DEBOUNCE_CALLS uses; a notice of an update is
\* true.
THEOREM HooksAreSound == ToolsSpec => []HooksSound
<1>1. RecordedOnce /\ SilenceBounded /\ NoticeIsTrue => HooksSound
    BY DEF HooksSound
<1> QED
    BY <1>1, ToolsRunCommands, MonitorPromises, UpdateNoticeTrue, PTL

\* MCTools.CommitsSound: what `gsd-tools commit` reports is in a history, and
\* no commit removes a file, but for one that was missing in a listed folder or
\* went away between its check and its add.
THEOREM CommitsAreSound == ToolsSpec => []CommitsSound
<1>1. CommitsKeep /\ OnItsBranch => CommitsSound
    BY DEF CommitsSound
<1> QED
    BY <1>1, ToolsRunCommands, CommitPromises, PTL

-----------------------------------------------------------------------------
(* config.json. *)

IsConfig(c) ==
    /\ c = [form |-> c.form, keys |-> c.keys, sub |-> c.sub]
    /\ c.form \in {"missing", "torn", "text"} /\ c.sub \subseteq Repos

\* The user's settings are in the file, but for the one that multiRepo replaced;
\* what repairs have settled stays settled until something else happens.
ConfigInv ==
    /\ IsConfig(config) /\ cloned \subseteq Repos
    /\ DOMAIN wanted \subseteq CanSet \cup {"model_profile"}
    /\ \A key \in DOMAIN wanted :
          \/ key = "planning.commit_docs" /\ migrated
          \/ Has(config, key) /\ config.keys[key] = wanted[key]
    /\ healed \in {0, 1, 2}
    /\ healed >= 1 => Readable /\ "STATE" \in files
    /\ healed = 2 => /\ ~Absent(config, "workflow.nyquist_validation")
                     /\ ~Absent(config, "workflow.ai_integration_phase")

\* Settings written over others: all of the new, and the rest of the old.
LEMMA OverIs == ASSUME NEW old, NEW new
                PROVE  /\ DOMAIN Over(old, new) = DOMAIN old \cup DOMAIN new
                       /\ \A k \in DOMAIN new : Over(old, new)[k] = new[k]
                       /\ \A k \in DOMAIN old \ DOMAIN new : Over(old, new)[k] = old[k]
BY DEF Over

LEMMA WithoutIs == ASSUME NEW keys, NEW gone
                   PROVE  /\ DOMAIN Without(keys, gone) = DOMAIN keys \ gone
                          /\ \A k \in DOMAIN keys \ gone : Without(keys, gone)[k] = keys[k]
BY DEF Without, Restrict

\* The deprecated depth is replaced, all else kept.
LEMMA GranularIs ==
    ASSUME NEW c, IsConfig(c)
    PROVE  /\ IsConfig(Granular(c)) /\ Granular(c).sub = c.sub
           /\ Granular(c).form = "text" \/ Granular(c) = c
           /\ ~(Has(Granular(c), "depth") /\ ~Has(Granular(c), "granularity"))
           /\ \A k : k \notin {"depth", "granularity"} =>
                  /\ Has(Granular(c), k) <=> Has(c, k)
                  /\ Has(c, k) => Granular(c).keys[k] = c.keys[k]
<1>1. CASE Has(c, "depth") /\ ~Has(c, "granularity")
    <2>1. PICK fine : fine = [k \in {"granularity"} |-> "fine"]
        OBVIOUS
    <2>2. PICK over : over = Over(c.keys, fine)
        OBVIOUS
    <2>3. /\ DOMAIN over = DOMAIN c.keys \cup {"granularity"}
          /\ \A k \in DOMAIN c.keys \ {"granularity"} : over[k] = c.keys[k]
        <3>1. /\ DOMAIN Over(c.keys, fine) = DOMAIN c.keys \cup DOMAIN fine
              /\ \A k \in DOMAIN c.keys \ DOMAIN fine : Over(c.keys, fine)[k] = c.keys[k]
            BY OverIs
        <3> QED
            BY <2>1, <2>2, <3>1
    <2>4. PICK new : /\ new = Without(over, {"depth"}) /\ DOMAIN new = DOMAIN over \ {"depth"}
                     /\ \A k \in DOMAIN over \ {"depth"} : new[k] = over[k]
        BY WithoutIs
    <2>5. PICK m : m = [form |-> "text", keys |-> new, sub |-> c.sub]
        OBVIOUS
    <2>6. Granular(c) = m
        BY <1>1, <2>1, <2>2, <2>4, <2>5 DEF Granular, Text
    <2>7. IsConfig(m) /\ m.sub = c.sub /\ m.form = "text"
        BY <2>5 DEF IsConfig
    <2>8. ~(Has(m, "depth") /\ ~Has(m, "granularity"))
        BY <2>3, <2>4, <2>5 DEF Has
    <2>9. ASSUME NEW k, k \notin {"depth", "granularity"}
          PROVE  /\ Has(m, k) <=> Has(c, k)
                 /\ Has(c, k) => m.keys[k] = c.keys[k]
        BY <2>3, <2>4, <2>5, <2>9 DEF Has
    <2> QED
        BY <2>6, <2>7, <2>8, <2>9
<1>2. CASE ~(Has(c, "depth") /\ ~Has(c, "granularity"))
    BY <1>2 DEF Granular
<1> QED
    BY <1>1, <1>2

\* The deprecated multiRepo is replaced by the list of the repositories, and
\* planning.commit_docs with it.
LEMMA ListingIs ==
    ASSUME NEW c, IsConfig(c), cloned \subseteq Repos
    PROVE  /\ IsConfig(Listing(c))
           /\ c.form = "text" => Listing(c).form = "text"
           /\ ~MultiRepo(Listing(c))
           /\ Listing(c).sub # {} /\ cloned # {} => Listing(c).sub = cloned
           /\ \A k : k # "multiRepo" /\ (k # "planning.commit_docs" \/ ~MultiRepo(c)) =>
                  /\ Has(Listing(c), k) <=> Has(c, k)
                  /\ Has(c, k) => Listing(c).keys[k] = c.keys[k]
<1>1. CASE MultiRepo(c)
    <2>1. PICK docs : docs = [k \in {"planning.commit_docs"} |-> "false"]
        OBVIOUS
    <2>2. PICK over : over = Over(c.keys, docs)
        OBVIOUS
    <2>3. /\ DOMAIN over = DOMAIN c.keys \cup {"planning.commit_docs"}
          /\ \A k \in DOMAIN c.keys \ {"planning.commit_docs"} : over[k] = c.keys[k]
        <3>1. /\ DOMAIN Over(c.keys, docs) = DOMAIN c.keys \cup DOMAIN docs
              /\ \A k \in DOMAIN c.keys \ DOMAIN docs : Over(c.keys, docs)[k] = c.keys[k]
            BY OverIs
        <3> QED
            BY <2>1, <2>2, <3>1
    <2>4. PICK new : /\ new = Without(over, {"multiRepo"}) /\ DOMAIN new = DOMAIN over \ {"multiRepo"}
                     /\ \A k \in DOMAIN over \ {"multiRepo"} : new[k] = over[k]
        BY WithoutIs
    <2>5. PICK m : m = [form |-> "text", keys |-> new, sub |-> cloned]
        OBVIOUS
    <2>6. Listing(c) = m
        BY <1>1, <2>1, <2>2, <2>4, <2>5 DEF Listing, Text
    <2>7. IsConfig(m) /\ m.sub = cloned /\ m.form = "text" /\ cloned # {}
        BY <1>1, <2>5 DEF IsConfig, MultiRepo
    <2>8. ~MultiRepo(m)
        BY <2>7 DEF MultiRepo
    <2>9. ASSUME NEW k, k # "multiRepo", k # "planning.commit_docs"
          PROVE  /\ Has(m, k) <=> Has(c, k)
                 /\ Has(c, k) => m.keys[k] = c.keys[k]
        BY <2>3, <2>4, <2>5, <2>9 DEF Has
    <2> QED
        BY <1>1, <2>6, <2>7, <2>8, <2>9
<1>2. CASE ~MultiRepo(c) /\ c.sub # {} /\ cloned # {}
    <2>1. Listing(c) = [c EXCEPT !.sub = cloned]
        BY <1>2 DEF Listing
    <2>2. Listing(c) = [form |-> c.form, keys |-> c.keys, sub |-> cloned]
        BY <2>1 DEF IsConfig
    <2>3. IsConfig(Listing(c)) /\ Listing(c).sub = cloned /\ Listing(c).keys = c.keys /\ Listing(c).form = c.form
        BY <2>2 DEF IsConfig
    <2>4. ~MultiRepo(Listing(c))
        BY <1>2, <2>3 DEF MultiRepo
    <2> QED
        BY <2>3, <2>4 DEF Has
<1>3. CASE ~MultiRepo(c) /\ ~(c.sub # {} /\ cloned # {})
    <2>1. Listing(c) = c
        BY <1>3 DEF Listing
    <2> QED
        BY <1>3, <2>1
<1> QED
    BY <1>1, <1>2, <1>3

\* loadConfig migrates once, and touches no other setting.
LEMMA MigratedIs ==
    ASSUME NEW c, IsConfig(c), cloned \subseteq Repos
    PROVE  /\ IsConfig(Migrated(c))
           /\ c.form = "text" => Migrated(c).form = "text"
           /\ Migrated(Migrated(c)) = Migrated(c)
           /\ \A k : /\ k \notin {"depth", "granularity", "multiRepo"}
                     /\ k # "planning.commit_docs" \/ ~MultiRepo(c)
                     => /\ Has(Migrated(c), k) <=> Has(c, k)
                        /\ Has(c, k) => Migrated(c).keys[k] = c.keys[k]
<1>1. PICK g : g = Granular(c)
    OBVIOUS
<1>2. PICK m : m = Listing(g)
    OBVIOUS
<1>3. m = Migrated(c)
    BY <1>1, <1>2 DEF Migrated
<1>4. /\ IsConfig(g) /\ g.sub = c.sub /\ (g.form = "text" \/ g = c)
      /\ ~(Has(g, "depth") /\ ~Has(g, "granularity"))
      /\ \A k : k \notin {"depth", "granularity"} =>
             /\ Has(g, k) <=> Has(c, k)
             /\ Has(c, k) => g.keys[k] = c.keys[k]
    BY <1>1, GranularIs
<1>5. /\ IsConfig(m)
      /\ g.form = "text" => m.form = "text"
      /\ m.sub # {} /\ cloned # {} => m.sub = cloned
      /\ ~MultiRepo(m)
      /\ \A k : k # "multiRepo" /\ (k # "planning.commit_docs" \/ ~MultiRepo(g)) =>
             /\ Has(m, k) <=> Has(g, k)
             /\ Has(g, k) => m.keys[k] = g.keys[k]
    BY <1>2, <1>4, ListingIs
<1>6. MultiRepo(g) <=> MultiRepo(c)
    <2>1. Has(g, "multiRepo") <=> Has(c, "multiRepo")
        BY <1>4
    <2> QED
        BY <1>4, <2>1 DEF MultiRepo
<1>7. Granular(m) = m
    <2>1. (Has(m, "depth") <=> Has(g, "depth")) /\ (Has(m, "granularity") <=> Has(g, "granularity"))
        BY <1>5
    <2> QED
        BY <1>4, <2>1 DEF Granular
<1>8. Listing(m) = m
    <2>1. m.sub = cloned => [m EXCEPT !.sub = cloned] = m
        BY <1>5 DEF IsConfig
    <2> QED
        BY <1>5, <2>1 DEF Listing
<1>9. Migrated(m) = m
    BY <1>7, <1>8 DEF Migrated
<1>10. ASSUME NEW k, k \notin {"depth", "granularity", "multiRepo"},
              k # "planning.commit_docs" \/ ~MultiRepo(c)
       PROVE  /\ Has(m, k) <=> Has(c, k)
              /\ Has(c, k) => m.keys[k] = c.keys[k]
    BY <1>4, <1>5, <1>6, <1>10
<1> QED
    BY <1>3, <1>4, <1>5, <1>9, <1>10

LEMMA ConfigInitInv == ConfigInit => ConfigInv
<1> SUFFICES ASSUME ConfigInit PROVE ConfigInv
    OBVIOUS
<1>1. DOMAIN wanted = {} /\ healed = 0 /\ cloned = {}
    BY DEF ConfigInit, NoKeys
<1>2. IsConfig(config)
    BY DEF ConfigInit, IsConfig, Missing, Text
<1> QED
    BY <1>1, <1>2 DEF ConfigInv

\* A key is set: the rest of the file, and what else the user set, stays.
LEMMA SetKeeps ==
    ASSUME ConfigInv, NEW c, IsConfig(c), NEW key \in CanSet \cup {"model_profile"}, NEW value,
           \A k : Has(config, k) => Has(c, k) /\ c.keys[k] = config.keys[k],
           config' = WithKey(c, key, value), wanted' = Over(wanted, [k \in {key} |-> value]),
           healed' = 0, UNCHANGED cloned,
           migrated /\ key # "planning.commit_docs" => migrated'
    PROVE  ConfigInv'
<1>1. PICK one : one = [k \in {key} |-> value] /\ DOMAIN one = {key} /\ one[key] = value
    OBVIOUS
<1>2. /\ DOMAIN wanted' = DOMAIN wanted \cup {key} /\ wanted'[key] = value
      /\ \A k \in DOMAIN wanted : k # key => wanted'[k] = wanted[k]
    <2>1. /\ DOMAIN Over(wanted, one) = DOMAIN wanted \cup DOMAIN one
          /\ \A k \in DOMAIN one : Over(wanted, one)[k] = one[k]
          /\ \A k \in DOMAIN wanted \ DOMAIN one : Over(wanted, one)[k] = wanted[k]
        BY OverIs
    <2> QED
        BY <1>1, <2>1
<1>3. PICK keys : /\ keys = Over(c.keys, one) /\ DOMAIN keys = DOMAIN c.keys \cup {key} /\ keys[key] = value
                  /\ \A k \in DOMAIN c.keys : k # key => keys[k] = c.keys[k]
    <2>1. /\ DOMAIN Over(c.keys, one) = DOMAIN c.keys \cup DOMAIN one
          /\ \A k \in DOMAIN one : Over(c.keys, one)[k] = one[k]
          /\ \A k \in DOMAIN c.keys \ DOMAIN one : Over(c.keys, one)[k] = c.keys[k]
        BY OverIs
    <2> QED
        BY <1>1, <2>1
<1>4. config' = [form |-> "text", keys |-> keys, sub |-> c.sub]
    BY <1>1, <1>3 DEF WithKey, Text
<1>5. IsConfig(config)' /\ config'.keys = keys
    BY <1>4 DEF IsConfig
<1>6. ASSUME NEW k \in DOMAIN wanted'
      PROVE  \/ k = "planning.commit_docs" /\ migrated'
             \/ Has(config, k)' /\ config'.keys[k] = wanted'[k]
    <2>1. CASE k = key
        BY <1>2, <1>3, <1>5, <2>1 DEF Has
    <2>2. CASE k # key
        <3>1. /\ k \in DOMAIN wanted /\ wanted'[k] = wanted[k]
              /\ \/ k = "planning.commit_docs" /\ migrated
                 \/ Has(config, k) /\ config.keys[k] = wanted[k]
            BY <1>2, <1>6, <2>2 DEF ConfigInv
        <3>2. Has(config, k) => Has(config, k)' /\ config'.keys[k] = config.keys[k]
            BY <1>3, <1>5, <2>2 DEF Has
        <3> QED
            BY <2>2, <3>1, <3>2
    <2> QED
        BY <2>1, <2>2
<1> QED
    BY <1>2, <1>5, <1>6 DEF ConfigInv

\* A file that exists is left alone.
LEMMA EnsuredIs ==
    ASSUME ConfigInv
    PROVE  /\ IsConfig(Ensured(config))
           /\ \A k : Has(config, k) => Has(Ensured(config), k) /\ Ensured(config).keys[k] = config.keys[k]
<1>1. CASE config = Missing
    <2>1. IsConfig(NewConfig(NoKeys))
        BY DEF NewConfig, Text, IsConfig
    <2>2. \A k : ~Has(config, k)
        BY <1>1 DEF Has, Missing, NoKeys
    <2> QED
        BY <1>1, <2>1, <2>2 DEF Ensured
<1>2. CASE config # Missing
    BY <1>2 DEF Ensured, ConfigInv
<1> QED
    BY <1>1, <1>2

LEMMA NewProjectKeeps == ASSUME ConfigInv, NEW docs, ConfigNewProject(docs) PROVE ConfigInv'
<1>10. PICK choices : choices = [k \in {"commit_docs"} |-> docs]
    OBVIOUS
<1>1. choices = [k \in {"commit_docs"} |-> docs] /\ DOMAIN choices = {"commit_docs"}
    BY <1>10
<1>2. config' = NewConfig(choices) /\ wanted' = choices /\ healed' = 0 /\ UNCHANGED cloned
    BY <1>1 DEF ConfigNewProject, Touch
<1>3. PICK first : NewConfig(choices) = Text(Over(first, choices), {})
    BY DEF NewConfig
<1>4. /\ DOMAIN Over(first, choices) = DOMAIN first \cup DOMAIN choices
      /\ \A k \in DOMAIN choices : Over(first, choices)[k] = choices[k]
    BY OverIs
<1>5. PICK keys : keys = Over(first, choices)
    OBVIOUS
<1>6. config' = [form |-> "text", keys |-> keys, sub |-> {}]
    BY <1>2, <1>3, <1>5 DEF Text
<1>7. IsConfig(config)' /\ config'.keys = keys
    BY <1>6 DEF IsConfig
<1>8. \A k \in DOMAIN wanted' : Has(config, k)' /\ config'.keys[k] = wanted'[k]
    BY <1>1, <1>2, <1>4, <1>5, <1>7 DEF Has
<1>9. DOMAIN wanted' \subseteq CanSet
    BY <1>1, <1>2 DEF CanSet
<1> QED
    BY <1>2, <1>7, <1>8, <1>9 DEF ConfigInv

LEMMA EnsureKeeps == ASSUME ConfigInv, ConfigEnsureSection PROVE ConfigInv'
<1>1. config' = Ensured(config) /\ healed' = 0 /\ UNCHANGED <<cloned, wanted, migrated>>
    BY DEF ConfigEnsureSection, Touch
<1> QED
    BY <1>1, EnsuredIs DEF ConfigInv, Has

LEMMA LoadKeeps == ASSUME ConfigInv, LoadConfig PROVE ConfigInv'
<1>1. healed' = 0 /\ UNCHANGED cloned
    BY DEF LoadConfig
<1>2. CASE config' = Migrated(config) /\ migrated' = (migrated \/ MultiRepo(config)) /\ UNCHANGED wanted
    <2>1. /\ IsConfig(Migrated(config))
          /\ \A k : /\ k \notin {"depth", "granularity", "multiRepo"}
                    /\ k # "planning.commit_docs" \/ ~MultiRepo(config)
                    => /\ Has(Migrated(config), k) <=> Has(config, k)
                       /\ Has(config, k) => Migrated(config).keys[k] = config.keys[k]
        BY MigratedIs DEF ConfigInv
    <2>2. ASSUME NEW k \in DOMAIN wanted
          PROVE  \/ k = "planning.commit_docs" /\ migrated'
                 \/ Has(Migrated(config), k) /\ Migrated(config).keys[k] = wanted[k]
        <3>1. k \notin {"depth", "granularity", "multiRepo"}
            BY <2>2 DEF ConfigInv, CanSet
        <3>2. \/ k = "planning.commit_docs" /\ migrated
              \/ Has(config, k) /\ config.keys[k] = wanted[k]
            BY <2>2 DEF ConfigInv
        <3> QED
            BY <1>2, <2>1, <3>1, <3>2
    <2>3. \A k \in DOMAIN wanted' : \/ k = "planning.commit_docs" /\ migrated'
                                    \/ Has(config, k)' /\ config'.keys[k] = wanted'[k]
        BY <1>2, <2>2 DEF Has
    <2>4. IsConfig(config)'
        BY <1>2, <2>1 DEF IsConfig
    <2> QED
        BY <1>1, <1>2, <2>3, <2>4 DEF ConfigInv
<1>3. CASE config' = Torn /\ wanted' = NoKeys
    <2>1. IsConfig(config)' /\ DOMAIN wanted' = {}
        BY <1>3 DEF Torn, NoKeys, IsConfig
    <2> QED
        BY <1>1, <2>1 DEF ConfigInv
<1> QED
    BY <1>2, <1>3 DEF LoadConfig

\* After a repair of a readable file, the settings are those that were there
\* and no key is missing.
LEMMA RepairedIs ==
    ASSUME ConfigInv
    PROVE  /\ IsConfig(RepairedConfig) /\ RepairedConfig.form = "text"
           /\ Readable => /\ \A k : Has(config, k) => /\ Has(RepairedConfig, k)
                                                      /\ RepairedConfig.keys[k] = config.keys[k]
                          /\ ~Absent(RepairedConfig, "workflow.nyquist_validation")
                          /\ ~Absent(RepairedConfig, "workflow.ai_integration_phase")
<1>1. CASE ~Readable
    <2>1. RepairedConfig = ResetConfig
        BY <1>1 DEF RepairedConfig, Readable
    <2> QED
        BY <1>1, <2>1 DEF ResetConfig, Text, IsConfig
<1>2. CASE Readable
    <2>1. /\ Absent(config, "workflow.nyquist_validation") => "W008" \in Repairable
          /\ Absent(config, "workflow.ai_integration_phase") => "W016" \in Repairable
        BY DEF Repairable, Warnings
    <2>2. CASE Repairable \cap {"W008", "W016"} = {}
        <3>1. RepairedConfig = config
            BY <1>2, <2>2 DEF RepairedConfig, Readable
        <3> QED
            BY <1>2, <2>1, <2>2, <3>1 DEF ConfigInv, Readable
    <2>3. CASE Repairable \cap {"W008", "W016"} # {}
        <3>1. PICK missing : missing = {key \in {"workflow.nyquist_validation", "workflow.ai_integration_phase"} :
                                            Absent(config, key)}
            OBVIOUS
        <3>10. PICK add : add = [k \in missing |-> "true"]
            OBVIOUS
        <3>2. add = [k \in missing |-> "true"] /\ DOMAIN add = missing
            BY <3>10
        <3>3. PICK keys : /\ keys = Over(config.keys, add)
                          /\ DOMAIN keys = DOMAIN config.keys \cup missing
                          /\ \A k \in DOMAIN config.keys \ missing : keys[k] = config.keys[k]
            <4>1. /\ DOMAIN Over(config.keys, add) = DOMAIN config.keys \cup DOMAIN add
                  /\ \A k \in DOMAIN config.keys \ DOMAIN add : Over(config.keys, add)[k] = config.keys[k]
                BY OverIs
            <4> QED
                BY <3>2, <4>1
        <3>4. PICK new : new = [form |-> "text", keys |-> keys, sub |-> config.sub]
            OBVIOUS
        <3>5. RepairedConfig = new
            BY <1>2, <2>3, <3>1, <3>2, <3>3, <3>4 DEF RepairedConfig, Readable, Completed, Text
        <3>6. IsConfig(new) /\ new.form = "text" /\ new.keys = keys
            BY <3>4 DEF IsConfig, ConfigInv
        <3>7. \A k : Has(config, k) => Has(new, k) /\ new.keys[k] = config.keys[k]
            BY <3>1, <3>3, <3>6 DEF Has, Absent
        <3>8. \A k : Has(new, k) <=> Has(config, k) \/ k \in missing
            BY <3>3, <3>6 DEF Has
        <3>9. ASSUME NEW key \in {"workflow.nyquist_validation", "workflow.ai_integration_phase"}
              PROVE  ~Absent(new, key)
            BY <3>1, <3>8 DEF Absent
        <3> QED
            BY <3>5, <3>6, <3>7, <3>9
    <2> QED
        BY <2>2, <2>3
<1> QED
    BY <1>1, <1>2

LEMMA RepairKeeps == ASSUME ConfigInv, HealthRepair PROVE ConfigInv'
<1>1. /\ healed < 2 /\ UNCHANGED <<cloned, migrated>> /\ files' = RepairedFiles
      /\ wanted' = IF Readable /\ config' # Torn THEN wanted ELSE NoKeys
    BY DEF HealthRepair
<1>2. healed \in {0, 1, 2} /\ DOMAIN NoKeys = {}
    BY DEF ConfigInv, NoKeys
<1>3. CASE config' = RepairedConfig /\ healed' = healed + 1
    <2>1. PICK new : new = RepairedConfig
        OBVIOUS
    <2>2. /\ IsConfig(new) /\ new.form = "text" /\ config' = new
          /\ Readable => /\ \A k : Has(config, k) => Has(new, k) /\ new.keys[k] = config.keys[k]
                         /\ ~Absent(new, "workflow.nyquist_validation")
                         /\ ~Absent(new, "workflow.ai_integration_phase")
        BY <1>3, <2>1, RepairedIs
    <2>3. "STATE" \in files'
        BY <1>1 DEF RepairedFiles, Repairable, Errors
    <2>4. IsConfig(config)' /\ Readable'
        BY <2>2 DEF IsConfig, Readable
    <2>5. healed' \in {0, 1, 2} /\ (healed' = 2 => healed = 1)
        BY <1>1, <1>2, <1>3
    <2>6. healed' = 2 => /\ ~Absent(config, "workflow.nyquist_validation")'
                         /\ ~Absent(config, "workflow.ai_integration_phase")'
        BY <2>2, <2>5 DEF ConfigInv, Absent, Has
    <2>7. DOMAIN wanted' \subseteq CanSet \cup {"model_profile"}
        BY <1>1, <1>2 DEF ConfigInv
    <2>8. \A k \in DOMAIN wanted' : \/ k = "planning.commit_docs" /\ migrated'
                                    \/ Has(config, k)' /\ config'.keys[k] = wanted'[k]
        BY <1>1, <1>2, <2>2 DEF ConfigInv, Has
    <2> QED
        BY <1>1, <2>3, <2>4, <2>5, <2>6, <2>7, <2>8 DEF ConfigInv
<1>4. CASE config' = Torn /\ healed' = 0
    <2>1. IsConfig(config)' /\ DOMAIN wanted' = {}
        BY <1>1, <1>2, <1>4 DEF Torn, NoKeys, IsConfig
    <2> QED
        BY <1>1, <1>4, <2>1 DEF ConfigInv
<1> QED
    BY <1>3, <1>4 DEF HealthRepair

LEMMA ConfigStep == ConfigInv /\ [ConfigNext]_configVars => ConfigInv'
<1> SUFFICES ASSUME ConfigInv, [ConfigNext]_configVars PROVE ConfigInv'
    OBVIOUS
<1>1. CASE UNCHANGED configVars
    BY <1>1 DEF ConfigInv, configVars, IsConfig, Has, Absent, Readable
<1>2. ASSUME NEW key \in CanSet, NEW value \in Values(key), ConfigSet(key, value) PROVE ConfigInv'
    <2>1. /\ config' = WithKey(config, key, value) /\ wanted' = Over(wanted, [k \in {key} |-> value])
          /\ healed' = 0 /\ UNCHANGED cloned /\ migrated' = (migrated /\ key # "planning.commit_docs")
        BY <1>2 DEF ConfigSet, Touch
    <2>2. IsConfig(config)
        BY DEF ConfigInv
    <2> QED
        BY <2>1, <2>2, SetKeeps
<1>3. ASSUME NEW profile \in Profiles, ConfigSetModelProfile(profile) PROVE ConfigInv'
    <2>1. /\ config' = WithKey(Ensured(config), "model_profile", profile)
          /\ wanted' = Over(wanted, [k \in {"model_profile"} |-> profile])
          /\ healed' = 0 /\ UNCHANGED <<cloned, migrated>>
        BY <1>3 DEF ConfigSetModelProfile, Touch
    <2>2. PICK c : c = Ensured(config)
        OBVIOUS
    <2>3. IsConfig(c) /\ \A k : Has(config, k) => Has(c, k) /\ c.keys[k] = config.keys[k]
        BY <2>2, EnsuredIs
    <2>4. PICK key : key = "model_profile"
        OBVIOUS
    <2>5. key \in CanSet \cup {"model_profile"}
        BY <2>4
    <2> QED
        BY <2>1, <2>2, <2>3, <2>4, <2>5, SetKeeps
<1>4. ASSUME NEW r \in Repos, CloneOrDelete(r) PROVE ConfigInv'
    BY <1>4 DEF CloneOrDelete, Touch, ConfigInv, IsConfig, Has, Absent, Readable
<1>5. ASSUME Lose PROVE ConfigInv'
    <2>1. healed' = 0 /\ UNCHANGED <<cloned, migrated>>
        BY <1>5 DEF Lose
    <2>2. CASE UNCHANGED <<config, wanted>>
        BY <2>1, <2>2 DEF ConfigInv, IsConfig, Has
    <2>3. CASE config' = Missing /\ wanted' = NoKeys
        <3>1. IsConfig(config)' /\ DOMAIN wanted' = {}
            BY <2>3 DEF Missing, NoKeys, IsConfig
        <3> QED
            BY <2>1, <3>1 DEF ConfigInv
    <2> QED
        BY <1>5, <2>2, <2>3 DEF Lose
<1> QED
    BY <1>1, <1>2, <1>3, <1>4, <1>5, NewProjectKeeps, EnsureKeeps, LoadKeeps, RepairKeeps DEF ConfigNext

\* ProjectConfig.SetHolds: what the user set is what config-get prints and what
\* every command loads, whatever migrations, repairs, writes cut short and
\* losses come in between.
THEOREM SettingsHold == ConfigSpec => []SetHolds
<1>1. ConfigInv => SetHolds
    <2> SUFFICES ASSUME ConfigInv, NEW key \in DOMAIN wanted,
                        ~(key = "planning.commit_docs" /\ (migrated \/ MultiRepo(config)))
                 PROVE  /\ ConfigGet(config, key) = wanted[key]
                        /\ key \in Settings \cup Range(Section) =>
                              \/ Loaded(config)[SettingOf(key)] = wanted[key]
                              \/ SettingOf(key) # key /\ Has(config, SettingOf(key))
        BY DEF SetHolds
    <2>1. Has(config, key) /\ config.keys[key] = wanted[key]
        BY DEF ConfigInv
    <2>2. key \in CanSet \cup {"model_profile"}
        BY DEF ConfigInv
    <2>3. PICK m : m = Migrated(config)
        OBVIOUS
    <2>4. \A k : /\ k \notin {"depth", "granularity", "multiRepo"}
                 /\ k # "planning.commit_docs" \/ ~MultiRepo(config)
                 => /\ Has(m, k) <=> Has(config, k)
                    /\ Has(config, k) => m.keys[k] = config.keys[k]
        BY <2>3, MigratedIs DEF ConfigInv
    <2>5. Has(m, key) /\ m.keys[key] = wanted[key]
        BY <2>1, <2>2, <2>4 DEF CanSet
    <2>6. \A s \in Settings : s \notin {"depth", "granularity", "multiRepo", "planning.commit_docs"}
        BY DEF Settings, Section
    <2>7. /\ DOMAIN Section = {"branching_strategy", "commit_docs", "nyquist_validation"}
          /\ Section["branching_strategy"] = "git.branching_strategy"
          /\ Section["commit_docs"] = "planning.commit_docs"
          /\ Section["nyquist_validation"] = "workflow.nyquist_validation"
        BY DEF Section
    <2>8. ASSUME key \in Settings \cup Range(Section)
          PROVE  \/ Loaded(config)[SettingOf(key)] = wanted[key]
                 \/ SettingOf(key) # key /\ Has(config, SettingOf(key))
        <3>1. CASE key \in Settings
            <4>1. SettingOf(key) = key
                BY <3>1 DEF SettingOf
            <4>2. Loaded(config)[key] = Lookup(m, key)
                BY <2>3, <3>1 DEF Loaded
            <4> QED
                BY <2>5, <4>1, <4>2 DEF Lookup
        <3>2. CASE key \notin Settings
            <4>1. PICK s \in DOMAIN Section : Section[s] = key
                BY <2>8, <3>2 DEF Range
            <4>2. \A r \in DOMAIN Section : Section[r] = key => r = s
                BY <2>7, <4>1
            <4>3. SettingOf(key) = s
                BY <3>2, <4>1, <4>2 DEF SettingOf
            <4>4. s # key /\ s \in Settings
                BY <3>2, <4>1 DEF Settings
            <4>5. CASE Has(config, s)
                BY <4>3, <4>4, <4>5
            <4>6. CASE ~Has(config, s)
                <5>1. ~Has(m, s)
                    BY <2>4, <2>6, <4>4, <4>6
                <5>2. Loaded(config)[s] = Lookup(m, s)
                    BY <2>3, <4>4 DEF Loaded
                <5>3. Lookup(m, s) = m.keys[key]
                    BY <2>5, <4>1, <5>1 DEF Lookup
                <5> QED
                    BY <2>5, <4>3, <5>2, <5>3
            <4> QED
                BY <4>5, <4>6
        <3> QED
            BY <3>1, <3>2
    <2>9. ConfigGet(config, key) = wanted[key]
        BY <2>1 DEF ConfigGet
    <2> QED
        BY <2>8, <2>9
<1> QED
    BY <1>1, ConfigInitInv, ConfigStep, PTL DEF ConfigSpec

\* ProjectConfig.RepairSettles: a repair leaves no repairable error, two in a
\* row nothing repairable, and what one command migrated no other migrates.
THEOREM RepairsSettle == ConfigSpec => []RepairSettles
<1>1. ConfigInv => RepairSettles
    <2> SUFFICES ASSUME ConfigInv PROVE RepairSettles
        OBVIOUS
    <2>1. healed >= 1 => Repairable \cap {"E004", "E005", "W003"} = {}
        <3>1. config.form = "text" => config # Missing /\ config.form # "torn"
            BY DEF Missing
        <3> QED
            BY <3>1 DEF ConfigInv, Repairable, Errors, Warnings, Readable
    <2>2. healed = 2 => Repairable = {}
        <3>1. healed = 2 => "W008" \notin Warnings /\ "W016" \notin Warnings
            BY DEF ConfigInv, Warnings
        <3>2. healed = 2 => healed >= 1
            OBVIOUS
        <3>3. Repairable \subseteq {"E004", "E005", "W003", "W008", "W016"}
            BY DEF Repairable
        <3>4. "W008" \in Repairable \/ "W016" \in Repairable =>
                  "W008" \in Warnings \/ "W016" \in Warnings
            BY DEF Repairable, Errors
        <3> QED
            BY <2>1, <3>1, <3>2, <3>3, <3>4
    <2>3. healed = 2 => (HealthStatus = "broken" => files # Documents)
        <3>1. healed = 2 => config.form # "torn"
            BY DEF ConfigInv, Readable
        <3>2. files = Documents /\ config.form # "torn" => Errors = {}
            BY DEF Errors, Documents
        <3> QED
            BY <3>1, <3>2 DEF HealthStatus
    <2>4. Migrated(Migrated(config)) = Migrated(config)
        BY MigratedIs DEF ConfigInv
    <2> QED
        BY <2>1, <2>2, <2>3, <2>4 DEF RepairSettles
<1> QED
    BY <1>1, ConfigInitInv, ConfigStep, PTL DEF ConfigSpec
\* Without a file that can be read the user has set nothing.
FormInv == files \subseteq Documents /\ (~Readable => wanted = NoKeys /\ config \in {Missing, Torn})

LEMMA FormStep == ConfigInv /\ FormInv /\ [ConfigNext]_configVars => FormInv'
<1> SUFFICES ASSUME ConfigInv, FormInv, [ConfigNext]_configVars PROVE FormInv'
    OBVIOUS
<1>0. IsConfig(config) /\ cloned \subseteq Repos
    BY DEF ConfigInv
<1>1. \A keys, sub : Text(keys, sub).form = "text"
    BY DEF Text
<1>2. ASSUME config' = config \/ config'.form = "text", UNCHANGED <<files, wanted>> PROVE FormInv'
    BY <1>2 DEF FormInv, Readable
<1>3. ASSUME config'.form = "text", files' \subseteq Documents PROVE FormInv'
    BY <1>3 DEF FormInv, Readable
<1>4. ASSUME config' \in {Missing, Torn}, wanted' = NoKeys, files' \subseteq Documents PROVE FormInv'
    BY <1>4 DEF FormInv
<1>5. ASSUME NEW docs, ConfigNewProject(docs) PROVE FormInv'
    BY <1>1, <1>3, <1>5 DEF ConfigNewProject, NewConfig, FormInv
<1>6. CASE ConfigEnsureSection
    BY <1>1, <1>3, <1>6 DEF ConfigEnsureSection, Ensured, NewConfig, FormInv
<1>7. ASSUME NEW key, NEW value, ConfigSet(key, value) PROVE FormInv'
    BY <1>1, <1>3, <1>7 DEF ConfigSet, WithKey, FormInv
<1>8. ASSUME NEW profile, ConfigSetModelProfile(profile) PROVE FormInv'
    BY <1>1, <1>3, <1>8 DEF ConfigSetModelProfile, WithKey, FormInv
<1>9. CASE LoadConfig
    <2>1. Migrated(config).form = "text" /\ files' \subseteq Documents
        BY <1>0, <1>9, MigratedIs DEF LoadConfig, Readable, FormInv
    <2> QED
        BY <1>3, <1>4, <1>9, <2>1 DEF LoadConfig
<1>10. CASE HealthRepair
    <2>1. RepairedConfig.form = "text"
        BY RepairedIs
    <2>2. files' \subseteq Documents
        BY <1>10 DEF HealthRepair, RepairedFiles, FormInv, Documents
    <2>3. CASE config' = RepairedConfig
        BY <1>3, <2>1, <2>2, <2>3
    <2>4. CASE config' = Torn
        BY <1>4, <1>10, <2>2, <2>4 DEF HealthRepair
    <2> QED
        BY <1>10, <2>3, <2>4 DEF HealthRepair
<1>11. CASE Lose
    BY <1>2, <1>4, <1>11 DEF Lose, FormInv, Readable
<1>12. ASSUME NEW r \in Repos, CloneOrDelete(r) PROVE FormInv'
    BY <1>2, <1>12 DEF CloneOrDelete
<1>13. CASE UNCHANGED configVars
    BY <1>2, <1>13 DEF configVars
<1> QED
    BY <1>5, <1>6, <1>7, <1>8, <1>9, <1>10, <1>11, <1>12, <1>13 DEF ConfigNext

\* config.json is missing, torn or readable, and has no keys unless it is
\* readable; a repair creates no document that it does not know.
THEOREM ConfigTyped == ConfigSpec => []ConfigTypeOK
<1>1. ConfigInit => ConfigInv /\ FormInv
    BY ConfigInitInv DEF ConfigInit, FormInv, Readable, Text
<1>2. ConfigInv /\ FormInv => ConfigTypeOK
    BY DEF ConfigInv, IsConfig, FormInv, ConfigTypeOK, Missing, Torn
<1> QED
    BY <1>1, <1>2, ConfigStep, FormStep, PTL DEF ConfigSpec
=============================================================================
