-------------------------- MODULE ContextMonitor --------------------------
(***************************************************************************)
(* The hooks that watch the context of a session (.kilo/hooks): the        *)
(* statusline writes the context left to a bridge file, and the context    *)
(* monitor, a process that runs after every tool use, also of tools that   *)
(* run in parallel, warns the agent and counts its silence in a second     *)
(* file.  writeFileSync empties a file and then writes it: a reader in     *)
(* between, a kill, or the text of one monitor over that of another leave  *)
(* a file that does not parse, and such a file is ignored.                 *)
(***************************************************************************)
EXTENDS Integers

CONSTANTS
    Monitors,          \* processes of the monitor that may run at a time
    DEBOUNCE_CALLS,    \* tool uses between warnings
    MaxUses            \* bound: tool uses

ASSUME DebounceAssumption == DEBOUNCE_CALLS \in Nat \ {0} /\ MaxUses \in Nat

VARIABLES
    bridge,      \* claude-ctx-<session>.json: its text, the level, its age
    warn,        \* claude-ctx-<session>-warned.json
    monitor,     \* the step of each monitor, its level, its warnData and isGsdActive
    uses,        \* tool uses so far
    spawned,     \* history: state record-session was started so many times
    claimed,     \* history: the agent was told that STATE.md has the state
    failed,      \* history: what threw: the spawn, or the write that remembers it
    last,        \* history: the level of the last message the agent saw
    silent,      \* history: silent uses in a row while context was low
    deaf,        \* history: a critical use was silent after a mere warning
    mixed        \* history: monitors overlapped, or one was killed or ended early

recordVars == <<spawned, claimed, failed>>
silenceVars == <<last, silent, deaf>>
monitorVars == <<bridge, warn, monitor, uses, recordVars, silenceVars, mixed>>

Levels == {"ok", "warning", "critical"}     \* more than 35 %, up to 35, up to 25
NoData == [calls |-> 0, level |-> "none", recorded |-> FALSE]
Asleep == [at |-> "idle", level |-> "ok", data |-> NoData, active |-> FALSE]

MonitorInit ==
    /\ bridge = [form |-> "missing", level |-> "ok", fresh |-> TRUE]
    /\ warn = [form |-> "missing", data |-> NoData]
    /\ monitor = [m \in Monitors |-> Asleep]
    /\ uses = 0 /\ spawned = 0 /\ claimed = FALSE /\ failed = {}
    /\ last = "none" /\ silent = 0 /\ deaf = FALSE /\ mixed = FALSE

-----------------------------------------------------------------------------
\* The statusline writes the bridge, in two steps.
BridgeOpen ==
    /\ bridge.form # "torn" /\ bridge' = [bridge EXCEPT !.form = "torn"]
    /\ UNCHANGED <<warn, monitor, uses, recordVars, silenceVars, mixed>>
BridgeWrite(level) ==
    /\ bridge.form = "torn"
    /\ bridge' = [form |-> "text", level |-> level, fresh |-> TRUE]
    /\ UNCHANGED <<warn, monitor, uses, recordVars, silenceVars, mixed>>

\* A minute passes without a render of the statusline.
BridgeAges ==
    /\ bridge.form = "text" /\ bridge.fresh /\ bridge' = [bridge EXCEPT !.fresh = FALSE]
    /\ UNCHANGED <<warn, monitor, uses, recordVars, silenceVars, mixed>>

\* A tool has been used: the monitor goes on only when it can read a bridge
\* that is fresh and low.  (When warnings are disabled it ends here as well.)
ToolUse(m) ==
    /\ uses < MaxUses /\ uses' = uses + 1 /\ monitor[m].at = "idle"
    /\ monitor' = [monitor EXCEPT ![m] =
                      IF bridge.form = "text" /\ bridge.fresh /\ bridge.level # "ok"
                      THEN [Asleep EXCEPT !.at = "count", !.level = bridge.level] ELSE @]
    /\ mixed' = (mixed \/ \E n \in Monitors : monitor[n].at # "idle")
    /\ UNCHANGED <<bridge, warn, recordVars, silenceVars>>

\* It reads what the last one wrote.  The first warning and an escalation are
\* given at once, others every DEBOUNCE_CALLS uses.
Counted == IF warn.form = "text" THEN [warn.data EXCEPT !.calls = @ + 1] ELSE [NoData EXCEPT !.calls = 1]
Escalated(level) == level = "critical" /\ Counted.level = "warning"
\* One use too many in silence.
QuietOnceMore(level) ==
    warn.form = "text" /\ Counted.calls <= DEBOUNCE_CALLS /\ ~Escalated(level)

Quiet(level) ==
    warn.form = "text" /\ Counted.calls < DEBOUNCE_CALLS /\ ~Escalated(level)

ReadCount(m) ==
    LET level == monitor[m].level IN
    /\ monitor[m].at = "count"
    /\ monitor' = [monitor EXCEPT
                      ![m].at = "open",
                      ![m].data = IF Quiet(level) THEN Counted
                                  ELSE [Counted EXCEPT !.calls = 0, !.level = level]]
    /\ silent' = IF Quiet(level) THEN silent + 1 ELSE silent
    /\ deaf' = (deaf \/ (Quiet(level) /\ level = "critical" /\ last = "warning"))
    /\ UNCHANGED <<bridge, warn, uses, recordVars, last, mixed>>

\* The counter is emptied, whatever another monitor has written since ...
MonitorGoes(m, to) == monitor' = [monitor EXCEPT ![m].at = to]
Emptied == [form |-> "empty", data |-> NoData]
OpenCount(m) ==
    /\ monitor[m].at = "open" /\ MonitorGoes(m, "write")
    /\ warn' = Emptied
    /\ UNCHANGED <<bridge, uses, recordVars, silenceVars, mixed>>

\* ... and written, from its start: over the text of another that emptied it
\* as well, the end of which may stay.
Overlaid(data) ==
    LET text == [form |-> "text", data |-> data] IN
    {text} \cup {x \in {[Emptied EXCEPT !.form = "torn"]} : warn.form # "empty" /\ warn # text}

\* Quiet monitors end here.  Others look for STATE.md: when it is there, a
\* critical level is recorded once per session.
ToRecord(data, level, active) == level = "critical" /\ active /\ ~data.recorded
WriteCount(m) ==
    LET mine == monitor[m] IN
    /\ mine.at = "write" /\ warn' \in Overlaid(mine.data)
    /\ \/ mine.data.calls > 0 /\ monitor' = [monitor EXCEPT ![m] = Asleep]
       \/ mine.data.calls = 0 /\ \E active \in BOOLEAN :
             monitor' = [monitor EXCEPT
                ![m].at = IF ToRecord(mine.data, mine.level, active) THEN "spawn" ELSE "say",
                ![m].active = active]
    /\ UNCHANGED <<bridge, uses, recordVars, silenceVars, mixed>>

\* state record-session is started, not awaited, and the counter is written
\* again.  What throws on the way is caught: the message is given anyway.
Spawn(m) ==
    /\ monitor[m].at = "spawn"
    /\ spawned' = spawned + 1
    /\ monitor' = [monitor EXCEPT ![m].at = "save", ![m].data.recorded = TRUE]
    /\ UNCHANGED <<bridge, warn, uses, claimed, failed, silenceVars, mixed>>
SpawnFails(m) ==
    /\ monitor[m].at = "spawn" /\ MonitorGoes(m, "say")
    /\ failed' = failed \cup {"spawn"}
    /\ UNCHANGED <<bridge, warn, uses, spawned, claimed, silenceVars, mixed>>
SaveOpen(m) ==
    /\ monitor[m].at = "save" /\ MonitorGoes(m, "sign")
    /\ warn' = Emptied
    /\ UNCHANGED <<bridge, uses, recordVars, silenceVars, mixed>>
SaveRecord(m) ==
    /\ monitor[m].at = "sign" /\ MonitorGoes(m, "say")
    /\ warn' \in Overlaid(monitor[m].data)
    /\ UNCHANGED <<bridge, uses, recordVars, silenceVars, mixed>>
SaveFails(m) ==
    /\ monitor[m].at \in {"save", "sign"} /\ MonitorGoes(m, "say")
    /\ failed' = failed \cup {"save"}
    /\ UNCHANGED <<bridge, warn, uses, spawned, claimed, silenceVars, mixed>>

\* The message reaches the agent: a critical one says that "GSD state is
\* already tracked in STATE.md" when there is such a file.
Say(m) ==
    /\ monitor[m].at = "say" /\ monitor' = [monitor EXCEPT ![m] = Asleep]
    /\ claimed' = (claimed \/ (monitor[m].level = "critical" /\ monitor[m].active))
    /\ last' = monitor[m].level /\ silent' = 0
    /\ UNCHANGED <<bridge, warn, uses, spawned, failed, deaf, mixed>>

\* The runtime kills a hook that takes too long; one that cannot write its
\* counter ends in silence as well.
KillMonitor(m) ==
    /\ monitor[m].at # "idle" /\ monitor' = [monitor EXCEPT ![m] = Asleep]
    /\ mixed' = TRUE
    /\ UNCHANGED <<bridge, warn, uses, recordVars, silenceVars>>

MonitorNext ==
    \/ BridgeOpen \/ BridgeAges
    \/ \E level \in Levels : BridgeWrite(level)
    \/ \E m \in Monitors :
          \/ ToolUse(m) \/ ReadCount(m) \/ OpenCount(m) \/ WriteCount(m)
          \/ Spawn(m) \/ SpawnFails(m) \/ SaveOpen(m) \/ SaveRecord(m) \/ SaveFails(m)
          \/ Say(m) \/ KillMonitor(m)

MonitorSpec == MonitorInit /\ [][MonitorNext]_monitorVars

-----------------------------------------------------------------------------

\* Types of the two files in the temporary directory and of the hooks that read them; a
\* session is recorded at most once per tool use.
MonitorTypeOK ==
    /\ bridge.level \in Levels /\ warn.data.calls \in 0 .. MaxUses
    /\ \A m \in Monitors : monitor[m].level \in Levels
    /\ spawned <= uses

\* When the agent has been told that its state is in STATE.md, a record of the
\* session was started before, whatever overlapped and whatever was killed,
\* unless a spawn threw.  A counter that says so comes from a record that was
\* started: one that failed is tried again.  And the session is recorded once
\* only, when no monitor overlapped another, none was killed and the counter
\* could be written.  (Nobody waits for the record to end.)
RecordedOnce ==
    /\ claimed /\ "spawn" \notin failed => spawned > 0
    /\ warn.data.recorded => spawned > 0
    /\ ~mixed /\ "save" \notin failed => spawned <= 1

\* The agent is not left without a message for DEBOUNCE_CALLS uses while the
\* context is low, nor for a single one when a mere warning was its last
\* message and the context has become critical.
SilenceBounded == ~mixed => silent < DEBOUNCE_CALLS /\ ~deaf
=============================================================================
