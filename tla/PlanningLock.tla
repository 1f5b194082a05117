---------------------------- MODULE PlanningLock ----------------------------
(***************************************************************************)
(* withPlanningLock (core.cjs): the lock file .planning/.lock around the   *)
(* commands that rewrite ROADMAP.md and config.json.  A worker is one      *)
(* process running one command.                                            *)
(*                                                                         *)
(* A worker that is refused for ten seconds deletes the lock file and runs *)
(* its command bare, with no lock file of its own; a lock file is old only *)
(* after thirty.  The exit handler removes the lock file of a worker that  *)
(* ends itself, not that of one that is killed.  forced records that a     *)
(* worker ran bare or that a lock was taken from one at work.              *)
(***************************************************************************)
EXTENDS Naturals

CONSTANTS
    Workers,    \* the processes
    NoWorker,   \* no lock file
    MaxWaits    \* pauses of 100 ms in ten seconds, about 100 in the code

ASSUME WorkerAssumption == NoWorker \notin Workers
ASSUME WaitAssumption == MaxWaits \in Nat

VARIABLES
    holder,    \* the worker whose .lock exists, or NoWorker
    expired,   \* the lock file is more than thirty seconds old
    step,      \* where each worker is
    waits,     \* pauses of its withPlanningLock
    bare,      \* it runs its command without a lock file
    forced     \* history: exclusion was given up

planLockVars == <<holder, expired, step, waits, bare, forced>>

\* The steps before the lock, and those of the function that runs under it.
Early == {"load", "tear", "fill"}
Body == {"scan", "mkdir", "store"}
Inside(w) == step[w] \in Body \/ step[w] = "unlock"

StepTo(w, l) == step' = [step EXCEPT ![w] = l]

PlanLockInit ==
    /\ holder = NoWorker /\ expired = FALSE /\ forced = FALSE
    /\ step = [w \in Workers |-> "off"]
    /\ waits = [w \in Workers |-> 0]
    /\ bare = [w \in Workers |-> FALSE]

\* A command starts, with or without steps before it asks for the lock.
Launch(w, first) ==
    /\ step[w] = "off" /\ first \in {"load", "try"}
    /\ StepTo(w, first)
    /\ waits' = [waits EXCEPT ![w] = 0]
    /\ bare' = [bare EXCEPT ![w] = FALSE]
    /\ UNCHANGED <<holder, expired, forced>>

\* The steps before the lock.
Prepare(w, next) ==
    /\ step[w] \in Early /\ next \in Early \cup {"try"}
    /\ StepTo(w, next)
    /\ UNCHANGED <<holder, expired, waits, bare, forced>>

\* writeFileSync without the flag.
TakeAnyway(w) ==
    /\ step[w] = "try" /\ waits[w] < MaxWaits
    /\ holder' = w /\ expired' = FALSE
    /\ StepTo(w, "scan")
    /\ UNCHANGED <<waits, bare, forced>>

\* writeFileSync with the flag wx succeeds.
Take(w) ==
    /\ step[w] = "try" /\ waits[w] < MaxWaits /\ holder = NoWorker
    /\ holder' = w /\ expired' = FALSE
    /\ StepTo(w, "scan")
    /\ UNCHANGED <<waits, bare, forced>>

\* No time limit.
RefuseForever(w) ==
    /\ step[w] = "try" /\ waits[w] < MaxWaits /\ holder # NoWorker
    /\ IF expired THEN StepTo(w, "unlink") ELSE UNCHANGED step
    /\ UNCHANGED <<holder, expired, waits, bare, forced>>

\* EEXIST: an old lock file is deleted next, another one is waited for.
Refuse(w) ==
    /\ step[w] = "try" /\ waits[w] < MaxWaits /\ holder # NoWorker
    /\ IF expired THEN StepTo(w, "unlink") /\ UNCHANGED waits
       ELSE waits' = [waits EXCEPT ![w] = @ + 1] /\ UNCHANGED step
    /\ UNCHANGED <<holder, expired, bare, forced>>

\* Deleting the lock file takes it from a worker that still runs under it.
Robs(w) == holder # NoWorker /\ holder # w /\ Inside(holder)

\* The file that was old is deleted by name, whichever file it is now.
UnlinkExpired(w) ==
    /\ step[w] = "unlink"
    /\ holder' = NoWorker /\ expired' = FALSE
    /\ forced' = (forced \/ Robs(w))
    /\ StepTo(w, "try")
    /\ UNCHANGED <<waits, bare>>

\* Ten seconds are over: delete the lock file and run the command bare.
RunBare(w) ==
    /\ step[w] = "try" /\ waits[w] = MaxWaits
    /\ holder' = NoWorker /\ expired' = FALSE /\ forced' = TRUE
    /\ bare' = [bare EXCEPT ![w] = TRUE]
    /\ StepTo(w, "scan")
    /\ UNCHANGED waits

\* One step of the function; after its last one a bare worker is done.
Work(w, next) ==
    /\ step[w] \in Body /\ next \in Body \cup {"unlock"}
    /\ StepTo(w, IF next = "unlock" /\ bare[w] THEN "off" ELSE next)
    /\ UNCHANGED <<holder, expired, waits, bare, forced>>

\* finally, and the exit handler after error(): delete the lock file by name.
Unlock(w) ==
    /\ step[w] = "unlock"
    /\ holder' = NoWorker /\ expired' = FALSE
    /\ forced' = (forced \/ Robs(w))
    /\ StepTo(w, "off")
    /\ UNCHANGED <<waits, bare>>

\* The process is killed: no handler runs.
KillWorker(w) ==
    /\ step[w] \notin {"off", "killed"}
    /\ StepTo(w, "killed")
    /\ UNCHANGED <<holder, expired, waits, bare, forced>>

\* Thirty seconds pass; a worker inside is done long before.
Expire ==
    /\ holder # NoWorker /\ ~expired /\ ~Inside(holder)
    /\ expired' = TRUE
    /\ UNCHANGED <<holder, step, waits, bare, forced>>

PlanLockStep(w) ==
    \/ \E first \in {"load", "try"} : Launch(w, first)
    \/ \E next \in Early \cup {"try"} : Prepare(w, next)
    \/ Take(w) \/ Refuse(w) \/ UnlinkExpired(w) \/ RunBare(w)
    \/ \E next \in Body \cup {"unlock"} : Work(w, next)
    \/ Unlock(w) \/ KillWorker(w)

PlanLockNext == (\E w \in Workers : PlanLockStep(w)) \/ Expire
PlanLockSpec == PlanLockInit /\ [][PlanLockNext]_planLockVars

-----------------------------------------------------------------------------

\* Types of the lock file and of the workers.
PlanLockTypeOK ==
    /\ holder \in Workers \cup {NoWorker} /\ expired \in BOOLEAN /\ forced \in BOOLEAN
    /\ step \in [Workers -> {"off", "try", "unlink", "unlock", "killed"} \cup Early \cup Body]
    /\ waits \in [Workers -> 0 .. MaxWaits]
    /\ bare \in [Workers -> BOOLEAN]

\* Until a worker times out or loses its lock, the workers inside their
\* commands are at most one, and the lock file is its own.
OneInside == ~forced => \A w \in Workers : Inside(w) => holder = w
=============================================================================
