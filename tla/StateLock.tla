------------------------------ MODULE StateLock ------------------------------
(***************************************************************************)
(* The lock file STATE.md.lock of the planning tool (gsd-tools), and the   *)
(* two ways a command rewrites STATE.md under it (state.cjs).  Every       *)
(* command line invocation is a process, an agent here, and several agents *)
(* share one .planning directory.                                          *)
(*                                                                         *)
(*   "rmw"    readModifyWriteStateMd: lock, read, transform, write, unlock *)
(*   "blind"  read and transform first, then writeStateMd: lock, write,    *)
(*            unlock (state planned-phase, state sync, milestone complete) *)
(*                                                                         *)
(* Each file-system call is one step.  An agent refused MaxRetries times,  *)
(* or one that finds the lock older than ten seconds, deletes the lock     *)
(* file, whoever owns it.  robbed records that a lock was taken from an    *)
(* agent at work, or that an agent went on without one.                    *)
(***************************************************************************)
EXTENDS Naturals

CONSTANTS
    Agents,      \* the processes
    NoAgent,     \* no lock file
    MaxRetries   \* attempts before a lock is forced, 10 in the code

ASSUME AgentAssumption == NoAgent \notin Agents
ASSUME RetryAssumption == MaxRetries \in Nat \ {0}

VARIABLES
    lock,     \* the agent whose STATE.md.lock exists, or NoAgent
    old,      \* the lock file is more than ten seconds old
    pc,       \* where each agent is
    mode,     \* how its command writes
    tries,    \* failed attempts of its acquireStateLock
    buf,      \* the content it read
    file,     \* STATE.md
    robbed    \* history: an agent lost its lock, or never had one

lockVars == <<lock, old, pc, mode, tries, buf, file, robbed>>

Modes == {"rmw", "blind"}

\* An agent between taking the lock and deleting the lock file.
InLock(a) == pc[a] = "write" \/ pc[a] = "release" \/ (pc[a] = "read" /\ mode[a] = "rmw")

LockInit ==
    /\ lock = NoAgent /\ old = FALSE /\ robbed = FALSE
    /\ pc = [a \in Agents |-> "idle"]
    /\ mode = [a \in Agents |-> "rmw"]
    /\ tries = [a \in Agents |-> 0]
    /\ buf = [a \in Agents |-> file]

Goto(a, l) == pc' = [pc EXCEPT ![a] = l]

\* A command starts: a blind one reads STATE.md before it asks for the lock.
Begin(a, m) ==
    /\ pc[a] = "idle"
    /\ mode' = [mode EXCEPT ![a] = m]
    /\ tries' = [tries EXCEPT ![a] = 0]
    /\ Goto(a, IF m = "blind" THEN "read" ELSE "open")
    /\ UNCHANGED <<lock, old, buf, file, robbed>>

Read(a) ==
    /\ pc[a] = "read"
    /\ buf' = [buf EXCEPT ![a] = file]
    /\ Goto(a, IF mode[a] = "blind" THEN "open" ELSE "write")
    /\ UNCHANGED <<lock, old, mode, tries, file, robbed>>

\* A lock that leads straight to the write, on what was read before.
AcquiredCached(a) == "write"

\* Where acquireStateLock returns to.
Acquired(a) == IF mode[a] = "blind" THEN "write" ELSE "read"

\* openSync with O_EXCL succeeds.
Acquire(a) ==
    /\ pc[a] = "open" /\ lock = NoAgent
    /\ lock' = a /\ old' = FALSE
    /\ Goto(a, Acquired(a))
    /\ UNCHANGED <<mode, tries, buf, file, robbed>>

\* One attempt too many.
RefusedOnceMore(a) ==
    /\ pc[a] = "open" /\ lock # NoAgent
    /\ Goto(a, IF old THEN "unlink"
               ELSE IF tries[a] = MaxRetries THEN "force" ELSE "wait")
    /\ UNCHANGED <<lock, old, mode, tries, buf, file, robbed>>

\* EEXIST: what the age of the lock file and the number of attempts lead to.
Refused(a) ==
    /\ pc[a] = "open" /\ lock # NoAgent
    /\ Goto(a, IF old THEN "unlink"
               ELSE IF tries[a] = MaxRetries - 1 THEN "force" ELSE "wait")
    /\ UNCHANGED <<lock, old, mode, tries, buf, file, robbed>>

\* Attempts that are not counted.
RetryUncounted(a) ==
    /\ pc[a] = "wait"
    /\ Goto(a, "open")
    /\ UNCHANGED <<lock, old, mode, tries, buf, file, robbed>>

\* The pause between two attempts ends.
Retry(a) ==
    /\ pc[a] = "wait"
    /\ tries' = [tries EXCEPT ![a] = @ + 1]
    /\ Goto(a, "open")
    /\ UNCHANGED <<lock, old, mode, buf, file, robbed>>

\* Deleting the lock file takes it from an agent that still works under it.
TakesFrom(a) == lock # NoAgent /\ lock # a /\ InLock(lock)

\* The file found old is deleted by name, even if it is another file by now;
\* on the last attempt the loop ends and the command goes on without a lock.
UnlinkStale(a) ==
    /\ pc[a] = "unlink" /\ lock # NoAgent
    /\ lock' = NoAgent /\ old' = FALSE
    /\ IF tries[a] = MaxRetries - 1
       THEN Goto(a, Acquired(a)) /\ robbed' = TRUE /\ UNCHANGED tries
       ELSE /\ Goto(a, "open")
            /\ tries' = [tries EXCEPT ![a] = @ + 1]
            /\ robbed' = (robbed \/ TakesFrom(a))
    /\ UNCHANGED <<mode, buf, file>>

\* The file found old is gone already: as after a refusal.
UnlinkNothing(a) ==
    /\ pc[a] = "unlink" /\ lock = NoAgent
    /\ Goto(a, IF tries[a] = MaxRetries - 1 THEN "force" ELSE "wait")
    /\ UNCHANGED <<lock, old, mode, tries, buf, file, robbed>>

\* The last attempt failed: delete the lock file and go on without one.
GiveUp(a) ==
    /\ pc[a] = "force"
    /\ lock' = NoAgent /\ old' = FALSE /\ robbed' = TRUE
    /\ Goto(a, Acquired(a))
    /\ UNCHANGED <<mode, tries, buf, file>>

\* atomicWriteFileSync: a temporary file renamed onto STATE.md.
Write(a, content) ==
    /\ pc[a] = "write"
    /\ file' = content
    /\ Goto(a, "release")
    /\ UNCHANGED <<lock, old, mode, tries, buf, robbed>>

\* releaseStateLock deletes the lock file by name.
Release(a) ==
    /\ pc[a] = "release"
    /\ lock' = NoAgent /\ old' = FALSE
    /\ robbed' = (robbed \/ TakesFrom(a))
    /\ Goto(a, "idle")
    /\ UNCHANGED <<mode, tries, buf, file>>

\* The process is killed; its lock file stays (the exit handler does not run).
Kill(a) ==
    /\ pc[a] # "dead"
    /\ Goto(a, "dead")
    /\ UNCHANGED <<lock, old, mode, tries, buf, file, robbed>>

\* Ten seconds pass; an agent at work is done long before.
Age ==
    /\ lock # NoAgent /\ ~old /\ ~InLock(lock)
    /\ old' = TRUE
    /\ UNCHANGED <<lock, pc, mode, tries, buf, file, robbed>>

LockStep(a) ==
    \/ \E m \in Modes : Begin(a, m)
    \/ Read(a) \/ Acquire(a) \/ Refused(a) \/ Retry(a)
    \/ UnlinkStale(a) \/ UnlinkNothing(a) \/ GiveUp(a)
    \/ \E content : Write(a, content)
    \/ Release(a) \/ Kill(a)

LockNext == (\E a \in Agents : LockStep(a)) \/ Age

LockSpec == LockInit /\ [][LockNext]_lockVars

-----------------------------------------------------------------------------

Labels == {"idle", "read", "open", "wait", "unlink", "force", "write", "release", "dead"}

\* Types of the lock file and of the agents; an agent that waits has attempts left.
LockTypeOK ==
    /\ lock \in Agents \cup {NoAgent} /\ old \in BOOLEAN /\ robbed \in BOOLEAN
    /\ pc \in [Agents -> Labels]
    /\ mode \in [Agents -> Modes]
    /\ tries \in [Agents -> 0 .. MaxRetries - 1]
    /\ buf = [a \in Agents |-> buf[a]]
    /\ \A a \in Agents : pc[a] = "wait" => tries[a] < MaxRetries - 1

\* Until a lock is taken from an agent at work, at most one agent is between
\* taking and releasing the lock, and the lock file is its own.
Exclusive == ~robbed => \A a \in Agents : InLock(a) => lock = a

\* What readModifyWriteStateMd promises: what it writes over is what it read,
\* so no other command's change is lost under it.
NoLostUpdate ==
    ~robbed => \A a \in Agents : pc[a] = "write" /\ mode[a] = "rmw" => buf[a] = file
=============================================================================
