----------------------------- MODULE StateTeam -----------------------------
(***************************************************************************)
(* Agents that run gsd-tools state commands on one STATE.md at a time: the *)
(* commands of StateDoc carried out through the lock of StateLock.  state  *)
(* prune then reads STATE-ARCHIVE.md and writes it back, after it has      *)
(* released the lock: two prunes can do so at a time.  A process may be    *)
(* killed between any two steps.                                           *)
(***************************************************************************)
EXTENDS StateLock, StateDoc

CONSTANT MaxCommands      \* bound: commands started

ASSUME TeamAssumption == MaxCommands \in Nat

VARIABLES
    cmd,       \* the command each agent runs
    pending,   \* what a prune has taken out of STATE.md and not archived
    archive,   \* STATE-ARCHIVE.md
    loaded,    \* STATE-ARCHIVE.md as a prune that is to write it has read it
    started,   \* commands started
    acked,     \* history: the commands that ended, each with its agent
    advances,  \* history: plans counted by a write of state advance-plan
    stomped,   \* history: a blind write over a file that had changed
    dropped,   \* history: an agent died holding pruned entries
    crossed    \* history: a prune wrote the archive over one that had changed

historyVars == <<acked, advances, stomped, dropped, crossed>>
teamVars == <<lockVars, cmd, pending, archive, loaded, started, historyVars>>

\* prune4 is state prune --keep-recent 4.
Prunes == {"prune", "prune4"}
Commands == {"decide", "block", "resolve", "advance", "metric", "session", "patch",
             "planned", "sync"} \cup Prunes
ModeOf(c) == IF c \in {"planned", "sync"} THEN "blind" ELSE "rmw"

\* Phase 5 of an old project: one plan of three is done, two decisions are old.
Keep(c) == IF c = "prune4" THEN 4 ELSE 3
Olds == {<<1, NoAgent>>, <<2, NoAgent>>}
Made(a) == <<5, a>>
TeamDoc(bold) ==
    LET new == NewDoc(bold, 6)
        set(d, f, v) == [d EXCEPT !.body[f] = v]
        phase == set(set(new, "Phase", << <<5>> >>), "Status", "executing")
    IN  [IF bold THEN set(set(phase, "CurrentPlan", <<1>>), "TotalPlans", <<3>>)
         ELSE set(phase, "Plan", <<1, 3>>) EXCEPT !.decisions = Olds]
Disk == [plans |-> 3, summaries |-> 1]

\* What a command makes of the document it read.
Apply(a, new) ==
    Synced(CASE cmd[a] = "decide"  -> AddDecision(new, Made(a))
             [] cmd[a] = "block"   -> AddBlocker(new, a)
             [] cmd[a] = "resolve" -> ResolveBlocker(new, a)
             [] cmd[a] = "advance" -> AdvancePlan(new)
             [] cmd[a] = "metric"  -> RecordMetric(new, a)
             [] cmd[a] = "session" -> RecordSession(new, "context exhaustion", "")
             [] cmd[a] = "patch"   -> StatePatch(new, << <<"Status", "executing">>, <<"Progress", 50>> >>)
             [] cmd[a] \in Prunes  -> Prune(new, Cutoff(new, Keep(cmd[a])))
             [] cmd[a] = "planned" -> PlannedPhase(new, 3)
             [] cmd[a] = "sync"    -> SyncFromDisk(new, Disk, 3), Disk)

\* A prune with nothing below its cutoff does not write at all.
Idle(c) == c \in Prunes /\ Cutoff(file, Keep(c)) <= 0

TeamInit ==
    /\ \E bold \in BOOLEAN : file = Synced(TeamDoc(bold), Disk)
    /\ lock = NoAgent /\ old = FALSE /\ robbed = FALSE
    /\ pc = [a \in Agents |-> "idle"] /\ mode = [a \in Agents |-> "rmw"]
    /\ tries = [a \in Agents |-> 0] /\ buf = [a \in Agents |-> file]
    /\ cmd = [a \in Agents |-> "decide"]
    /\ pending = [a \in Agents |-> {}]
    /\ loaded = [a \in Agents |-> <<>>]
    /\ archive = {} /\ acked = {} /\ started = 0 /\ advances = 0
    /\ stomped = FALSE /\ dropped = FALSE /\ crossed = FALSE

Unlogged == UNCHANGED <<cmd, pending, archive, loaded, started, historyVars>>

Start(a, c) ==
    /\ started < MaxCommands /\ pending[a] = {} /\ ~Idle(c)
    /\ Begin(a, ModeOf(c))
    /\ cmd' = [cmd EXCEPT ![a] = c]
    /\ started' = started + 1
    /\ UNCHANGED <<pending, archive, loaded, historyVars>>

Store(a) ==
    /\ Write(a, Apply(a, buf[a]))
    /\ pending' = [pending EXCEPT ![a] =
                      IF cmd[a] \in Prunes THEN Prunable(buf[a], Cutoff(buf[a], Keep(cmd[a]))) ELSE {}]
    /\ advances' = IF cmd[a] = "advance" THEN advances + 1 ELSE advances
    /\ stomped' = (stomped \/ (mode[a] = "blind" /\ buf[a] # file))
    /\ UNCHANGED <<cmd, archive, loaded, started, acked, dropped, crossed>>

Leave(a) ==
    /\ Release(a)
    /\ acked' = acked \cup {<<cmd[a], a>>}
    /\ UNCHANGED <<cmd, pending, archive, loaded, started, advances, stomped, dropped, crossed>>

\* The second half of state prune: it reads STATE-ARCHIVE.md, when there is one ...
ReadArchive(a) ==
    /\ pc[a] = "idle" /\ pending[a] # {} /\ loaded[a] = <<>>
    /\ loaded' = [loaded EXCEPT ![a] = <<archive>>]
    /\ UNCHANGED <<lockVars, cmd, pending, archive, started, historyVars>>

\* ... and writes what it read with its entries added, whatever is there by now.
ArchivePruned(a) ==
    /\ pc[a] = "idle" /\ loaded[a] # <<>>
    /\ archive' = loaded[a][1] \cup pending[a]
    /\ pending' = [pending EXCEPT ![a] = {}] /\ loaded' = [loaded EXCEPT ![a] = <<>>]
    /\ crossed' = (crossed \/ loaded[a] # <<archive>>)
    /\ UNCHANGED <<lockVars, cmd, started, acked, advances, stomped, dropped>>

Die(a) ==
    /\ Kill(a) /\ (pc[a] = "idle" => pending[a] # {})
    /\ dropped' = (dropped \/ pending[a] # {})
    /\ UNCHANGED <<cmd, pending, archive, loaded, started, acked, advances, stomped, crossed>>

\* The steps of a command under way.
Proceed(a) ==
    \/ (Read(a) \/ Acquire(a) \/ Refused(a) \/ Retry(a)) /\ Unlogged
    \/ (UnlinkStale(a) \/ UnlinkNothing(a) \/ GiveUp(a)) /\ Unlogged
    \/ Store(a) \/ Leave(a) \/ ReadArchive(a) \/ ArchivePruned(a)

TeamNext ==
    \/ \E a \in Agents : (\E c \in Commands : Start(a, c)) \/ Proceed(a) \/ Die(a)
    \/ Age /\ Unlogged

\* A process that is not killed goes on.
TeamFairness == \A a \in Agents : WF_teamVars(Proceed(a))
TeamSpec == TeamInit /\ [][TeamNext]_teamVars /\ TeamFairness

-----------------------------------------------------------------------------

\* Types, with the bound on refused attempts.
TeamTypeOK ==
    /\ LockTypeOK
    /\ file.decisions \subseteq Olds \cup {Made(a) : a \in Agents}
    /\ started \in 0 .. MaxCommands

Undisturbed == ~robbed /\ ~stomped

\* The entries that are in the file, in the archive or with a prune at work.
OnRecord == file.decisions \cup archive \cup UNION {pending[a] : a \in {b \in Agents : pc[b] # "dead"}}

\* What a command has added to STATE.md stays: a decision is in it or in the
\* archive, or in the hands of a prune at work; a metric, a blocker nobody
\* resolved and the reason the session stopped for are in it; and as many plans
\* are counted as advance-plan commands have written.  Until a lock is taken
\* from a live agent, a blind writer stores what it read before, a prune dies
\* before its second write, or two prunes write the archive over each other.
By(c) == {a \in Agents : <<c, a>> \in acked}
EffectsKept ==
    /\ Undisturbed /\ ~dropped /\ ~crossed =>
          Olds \cup {Made(a) : a \in By("decide")} \subseteq OnRecord
    /\ Undisturbed =>
          /\ By("metric") \subseteq file.timings
          /\ (By("block") \ (By("resolve") \cup {a \in Agents : cmd[a] = "resolve"})) \subseteq file.blockers
          /\ By("session") # {} => file.session.stopped # ""
          /\ PlanOf(file)[1] = IF 1 + advances > 3 THEN 3 ELSE 1 + advances

\* Every command ends, whatever process dies holding the lock.
CommandsEnd ==
    \A a \in Agents : pc[a] \notin {"idle", "dead"} ~> pc[a] \in {"idle", "dead"}
=============================================================================
