---------------------------- MODULE PlanningTeam ----------------------------
(***************************************************************************)
(* Processes that run phase add, roadmap update-plan-progress and          *)
(* config-set at a time, through the lock of PlanningLock.                 *)
(*                                                                         *)
(*   "add"    loadConfig, then under the lock: the highest number, the     *)
(*            directory, ROADMAP.md                                        *)
(*   "count"  the summaries of a phase, then under the lock its row of     *)
(*            ROADMAP.md                                                   *)
(*   "set"    under the lock: read config.json, write it                   *)
(*                                                                         *)
(* loadConfig rewrites a config.json with a deprecated key, outside the    *)
(* lock and in place: the file is empty, torn, until the text is written.  *)
(* The other writes put a new file (an inode) in the place of the old one. *)
(***************************************************************************)
EXTENDS PlanningLock, FiniteSets

CONSTANT MaxJobs     \* bound: commands started

ASSUME JobAssumption == MaxJobs \in Nat

VARIABLES
    job,        \* the command each worker runs: its kind and its identity
    roadmap,    \* ROADMAP.md: the phases added, and the row of a phase
    folders,    \* the directories under phases/, <<number, job>>
    summaries,  \* SUMMARY.md files of the phase in the row
    config,     \* config.json
    copy,       \* what each worker read, and the number it gives
    jobs,       \* commands started
    done,       \* history: the commands that ended well
    clobbered,  \* history: a migration wrote over a newer config.json
    halved      \* history: a worker died between two steps of one change

planTeamVars == <<planLockVars, job, roadmap, folders, summaries, config, copy,
                  jobs, done, clobbered, halved>>

Kinds == {"add", "count", "set"}
NoJob == <<"none", 0>>
Kind(w) == job[w][1]

\* One phase with a number on either side; config.json may be an old one.
PlanTeamInit ==
    /\ PlanLockInit
    /\ job = [w \in Workers |-> NoJob]
    /\ roadmap = [phases |-> {<<1, NoJob>>}, row |-> 0]
    /\ folders = {<<1, NoJob>>}
    /\ summaries = 0
    /\ \E legacy \in BOOLEAN :
          config = [inode |-> 0, torn |-> FALSE, legacy |-> legacy, keys |-> {}]
    /\ copy = [w \in Workers |-> [roadmap |-> roadmap, config |-> config, number |-> 0]]
    /\ jobs = 0 /\ done = {} /\ clobbered = FALSE /\ halved = FALSE

Files == <<roadmap, folders, summaries, config>>
Logs == <<jobs, done, clobbered, halved>>

\* The process starts; the executor has written its summary before.  The
\* summaries are counted before the lock is asked for.
StartJob(w, kind) ==
    /\ jobs < MaxJobs
    /\ Launch(w, IF kind = "set" THEN "try" ELSE "load")
    /\ job' = [job EXCEPT ![w] = <<kind, jobs + 1>>]
    /\ summaries' = IF kind = "count" THEN summaries + 1 ELSE summaries
    /\ jobs' = jobs + 1
    /\ UNCHANGED <<roadmap, folders, config, copy, done, clobbered, halved>>

\* findPhaseInternal of roadmap update-plan-progress
CountSummaries(w) ==
    /\ step[w] = "load" /\ Kind(w) = "count"
    /\ Prepare(w, "try")
    /\ copy' = [copy EXCEPT ![w].number = summaries]
    /\ UNCHANGED <<job, Files, Logs>>

\* loadConfig: without JSON to parse the defaults are taken; a file with a
\* deprecated key is migrated.
LoadConfig(w) ==
    /\ step[w] = "load" /\ Kind(w) = "add"
    /\ copy' = [copy EXCEPT ![w].config = config]
    /\ Prepare(w, IF config.torn \/ ~config.legacy THEN "try" ELSE "tear")
    /\ UNCHANGED <<job, Files, Logs>>

\* Its writeFileSync opens the file, which empties it, then writes the text.
TearConfig(w) ==
    /\ step[w] = "tear"
    /\ Prepare(w, "fill")
    /\ config' = [config EXCEPT !.torn = TRUE, !.legacy = FALSE, !.keys = {}]
    /\ copy' = [copy EXCEPT ![w].config.inode = config.inode]
    /\ UNCHANGED <<job, roadmap, folders, summaries, Logs>>

\* The text goes to the inode that was opened; a shorter text over a longer
\* one leaves the end of the longer one, which is no JSON.
FillConfig(w) ==
    LET mine == [copy[w].config EXCEPT !.legacy = FALSE] IN
    /\ step[w] = "fill"
    /\ Prepare(w, "try")
    /\ config' = IF config.inode # mine.inode THEN config
                 ELSE [mine EXCEPT !.torn = Cardinality(config.keys) > Cardinality(mine.keys)]
    /\ clobbered' = (clobbered \/ (config.inode = mine.inode
                                     /\ \E j \in done : j[1] = "set" /\ j \notin mine.keys))
    /\ UNCHANGED <<job, roadmap, folders, summaries, copy, jobs, done, halved>>

Waiting(w) ==
    /\ Take(w) \/ Refuse(w) \/ UnlinkExpired(w) \/ RunBare(w)
    /\ UNCHANGED <<job, Files, copy, Logs>>

-----------------------------------------------------------------------------
(* Under the lock. *)

Highest(numbers) == CHOOSE n \in numbers : \A m \in numbers : m <= n
\* The directories forgotten.
NextInRoadmapOnly == 1 + Highest({x[1] : x \in roadmap.phases})

NextFree == 1 + Highest({x[1] : x \in roadmap.phases \cup folders})

\* cmdPhaseAdd: ROADMAP.md is read and the next number found.
ScanPhases(w) ==
    /\ step[w] = "scan" /\ Kind(w) = "add"
    /\ Work(w, "mkdir")
    /\ copy' = [copy EXCEPT ![w].roadmap = roadmap, ![w].number = NextFree]
    /\ UNCHANGED <<job, Files, Logs>>

MakeFolder(w) ==
    /\ step[w] = "mkdir"
    /\ Work(w, "store")
    /\ folders' = folders \cup {<<copy[w].number, job[w]>>}
    /\ UNCHANGED <<job, roadmap, summaries, config, copy, Logs>>

StorePhase(w) ==
    /\ step[w] = "store" /\ Kind(w) = "add"
    /\ Work(w, "unlock")
    /\ roadmap' = [copy[w].roadmap EXCEPT !.phases = @ \cup {<<copy[w].number, job[w]>>}]
    /\ done' = done \cup {job[w]}
    /\ UNCHANGED <<job, folders, summaries, config, copy, jobs, clobbered, halved>>

\* cmdRoadmapUpdatePlanProgress: the row gets the count taken before.
ScanRow(w) ==
    /\ step[w] = "scan" /\ Kind(w) = "count"
    /\ Work(w, "store")
    /\ copy' = [copy EXCEPT ![w].roadmap = roadmap]
    /\ UNCHANGED <<job, Files, Logs>>

StoreRow(w) ==
    /\ step[w] = "store" /\ Kind(w) = "count"
    /\ Work(w, "unlock")
    /\ roadmap' = [copy[w].roadmap EXCEPT !.row = copy[w].number]
    /\ done' = done \cup {job[w]}
    /\ UNCHANGED <<job, folders, summaries, config, copy, jobs, clobbered, halved>>

\* setConfigValue: a file that is no JSON ends the command.
ScanConfig(w) ==
    /\ step[w] = "scan" /\ Kind(w) = "set"
    /\ Work(w, IF config.torn THEN "unlock" ELSE "store")
    /\ copy' = [copy EXCEPT ![w].config = config]
    /\ UNCHANGED <<job, Files, Logs>>

StoreConfig(w) ==
    /\ step[w] = "store" /\ Kind(w) = "set"
    /\ Work(w, "unlock")
    /\ config' = [copy[w].config EXCEPT !.inode = config.inode + 1, !.keys = @ \cup {job[w]}]
    /\ done' = done \cup {job[w]}
    /\ UNCHANGED <<job, roadmap, folders, summaries, copy, jobs, clobbered, halved>>

EndJob(w) == Unlock(w) /\ UNCHANGED <<job, Files, copy, Logs>>

DieAtWork(w) ==
    /\ KillWorker(w)
    /\ halved' = (halved \/ step[w] = "fill")
    /\ UNCHANGED <<job, Files, copy, jobs, done, clobbered>>

GoOn(w) ==
    \/ CountSummaries(w) \/ LoadConfig(w) \/ TearConfig(w) \/ FillConfig(w) \/ Waiting(w)
    \/ ScanPhases(w) \/ MakeFolder(w) \/ StorePhase(w)
    \/ ScanRow(w) \/ StoreRow(w) \/ ScanConfig(w) \/ StoreConfig(w) \/ EndJob(w)

PlanTeamNext ==
    \/ \E w \in Workers : (\E kind \in Kinds : StartJob(w, kind)) \/ GoOn(w) \/ DieAtWork(w)
    \/ Expire /\ UNCHANGED <<job, Files, copy, Logs>>

\* A process that is not killed goes on.
PlanTeamFairness == \A w \in Workers : WF_planTeamVars(GoOn(w))
PlanTeamSpec == PlanTeamInit /\ [][PlanTeamNext]_planTeamVars /\ PlanTeamFairness

-----------------------------------------------------------------------------

\* Types, with the bound on commands.
PlanTeamTypeOK ==
    /\ PlanLockTypeOK
    /\ jobs \in 0 .. MaxJobs /\ done \subseteq Kinds \X (1 .. MaxJobs)
    /\ \A w \in Workers : job[w] = NoJob \/ job[w] \in Kinds \X (1 .. MaxJobs)
    /\ \A w \in Workers : copy[w].number \in Nat

\* While exclusion holds, no two directories or headings carry one number, a
\* process that died after its mkdir included, and no phase that was reported
\* as added is lost under another command's write of ROADMAP.md.
AddsKept ==
    ~forced =>
        /\ \A x, y \in folders : x # y => x[1] # y[1]
        /\ roadmap.phases \subseteq folders
        /\ \A j \in done : j[1] = "add" => \E x \in roadmap.phases : x[2] = j

\* A key that config-set has written stays, unless exclusion is given up or a
\* migration outside the lock writes back the file it read before.
SetsKept ==
    ~forced /\ ~clobbered /\ ~config.torn =>
        \A j \in done : j[1] = "set" => j \in config.keys

\* config.json is no JSON only while a migration is between its two steps,
\* unless one was killed there or wrote over a newer file.
ConfigReadable ==
    ~clobbered /\ ~halved => (config.torn => \E w \in Workers : step[w] = "fill")

\* What the commands on ROADMAP.md and config.json have written stays.
PlanningKept == AddsKept /\ SetsKept /\ ConfigReadable

\* Every command ends, whoever dies holding the lock.
JobsEnd == \A w \in Workers : step[w] \notin {"off", "killed"} ~> step[w] \in {"off", "killed"}
=============================================================================
