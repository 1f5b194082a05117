---------------------------- MODULE UpdateCheck ----------------------------
(***************************************************************************)
(* The update notice of the statusline (.kilo/hooks): at the start of a    *)
(* session a detached worker compares the installed version with the       *)
(* published one and writes the result to a cache that every runtime and   *)
(* every session share; workers of several sessions overlap.               *)
(***************************************************************************)
EXTENDS Integers

CONSTANTS
    Checkers,          \* workers that may run at a time
    MaxVersion,        \* bound: versions published
    MaxChecks          \* bound: sessions that look for an update

ASSUME UpdateAssumption == MaxVersion \in Nat \ {0, 1} /\ MaxChecks \in Nat

VARIABLES
    installed,   \* the VERSION file
    published,   \* the version npm has
    cache,       \* gsd-update-check.json
    checker,     \* the step of each worker and the versions it read
    checks,      \* sessions that looked for an update
    overtaken    \* history: the version in the cache is no longer installed

updateVars == <<installed, published, cache, checker, checks, overtaken>>

UpdateInit ==
    /\ installed \in {1, 2} /\ published = 1     \* 2: a development install
    /\ cache = [form |-> "missing", installed |-> 0, latest |-> 0, update |-> FALSE]
    /\ checker = [c \in Checkers |-> [at |-> "idle", installed |-> 0, latest |-> 0]]
    /\ checks = 0 /\ overtaken = FALSE

-----------------------------------------------------------------------------
\* A session starts: the worker reads the installed version.
CheckStart(c) ==
    /\ checks < MaxChecks /\ checks' = checks + 1 /\ checker[c].at = "idle"
    /\ checker' = [checker EXCEPT ![c] = [at |-> "ask", installed |-> installed, latest |-> 0]]
    /\ UNCHANGED <<installed, published, cache, overtaken>>

\* npm answers, or not within ten seconds: 0.
CheckAsk(c) ==
    /\ checker[c].at = "ask"
    /\ \E latest \in {0, published} :
          checker' = [checker EXCEPT ![c].at = "open", ![c].latest = latest]
    /\ UNCHANGED <<installed, published, cache, checks, overtaken>>

isNewer(a, b) == a > b

\* The result replaces that of an earlier worker, also when npm was not reached.
CheckOpen(c) ==
    /\ checker[c].at = "open" /\ checker' = [checker EXCEPT ![c].at = "write"]
    /\ cache' = [cache EXCEPT !.form = "torn"]
    /\ UNCHANGED <<installed, published, checks, overtaken>>
\* A different version taken for a newer one.
CheckDiffers(c) ==
    LET mine == checker[c] IN
    /\ mine.at = "write" /\ checker' = [checker EXCEPT ![c].at = "idle"]
    /\ cache' = [form |-> "text", installed |-> mine.installed, latest |-> mine.latest,
                 update |-> mine.latest # mine.installed]
    /\ overtaken' = (mine.installed # installed)
    /\ UNCHANGED <<installed, published, checks>>

CheckWrite(c) ==
    LET mine == checker[c] IN
    /\ mine.at = "write" /\ checker' = [checker EXCEPT ![c].at = "idle"]
    /\ cache' = [form |-> "text", installed |-> mine.installed, latest |-> mine.latest,
                 update |-> mine.latest # 0 /\ isNewer(mine.latest, mine.installed)]
    /\ overtaken' = (mine.installed # installed)
    /\ UNCHANGED <<installed, published, checks>>

\* The next version is published.
Publish ==
    /\ published < MaxVersion /\ published' = published + 1
    /\ UNCHANGED <<installed, cache, checker, checks, overtaken>>

\* The user updates.  The workflow clears the caches of the runtimes, not the
\* shared one.
Upgrade ==
    /\ installed # published /\ installed' = published
    /\ overtaken' = (cache.form = "text")
    /\ UNCHANGED <<published, cache, checker, checks>>

\* What the statusline shows.
Notice == cache.form = "text" /\ cache.update

UpdateNext ==
    \/ \E c \in Checkers : CheckStart(c) \/ CheckAsk(c) \/ CheckOpen(c) \/ CheckWrite(c)
    \/ Publish \/ Upgrade

UpdateSpec == UpdateInit /\ [][UpdateNext]_updateVars

-----------------------------------------------------------------------------

\* Types of the cache file and of the workers that write it.
UpdateTypeOK ==
    /\ cache.latest \in 0 .. MaxVersion /\ installed \in 1 .. MaxVersion
    /\ \A c \in Checkers : checker[c].installed \in 0 .. MaxVersion

\* The update notice is shown for a version that is newer than the installed
\* one, unless an update overtook the check.
NoticeIsTrue == Notice /\ ~overtaken => isNewer(published, installed)
=============================================================================
