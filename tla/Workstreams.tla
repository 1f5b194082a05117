---------------------------- MODULE Workstreams ----------------------------
(***************************************************************************)
(* Workstreams: the flat .planning layout moved into                       *)
(* .planning/workstreams/<name>, workstreams created, made active and      *)
(* archived by several sessions at once (workstream.cjs), and the pointer  *)
(* of each session to its active workstream (core.cjs).                    *)
(*                                                                         *)
(* A directory maps each item (ROADMAP.md, STATE.md, phases) to the        *)
(* project it belongs to, 0 when it is not there; the project of the start *)
(* is 1.  existsSync and renameSync are steps of their own.  A rename may  *)
(* fail, MaxFaults times, and a process may be killed between two steps.   *)
(***************************************************************************)
EXTENDS Integers, Sequences

CONSTANTS
    Sessions,    \* terminals and runtimes that run the tool
    Keyed,       \* those that have a session key
    Names,       \* workstream names
    Main,        \* the name the milestone gives the migrated workstream
    NoName,
    MaxRuns,     \* bound: commands started
    MaxFaults    \* bound: renames that fail and processes killed

ASSUME NameAssumption == Main \in Names /\ NoName \notin Names
ASSUME SessionAssumption == Keyed \subseteq Sessions
ASSUME RunAssumption == MaxRuns \in Nat /\ MaxFaults \in Nat

VARIABLES
    wsRoot,     \* the directory workstreams/ exists
    flat,       \* .planning itself
    streams,    \* the directory of each workstream, NoStream when there is none
    archives,   \* the directories under milestones/, in the order they were made
    pointer,    \* the pointer file of each keyed session
    shared,     \* .planning/active-workstream
    run,        \* the command each session runs
    runs,       \* commands started
    faults,     \* renames failed and processes killed
    crossed,    \* history: two commands moved files at once, or into one directory
    lost,       \* history: a file could not be moved back
    killed      \* history: a process was killed while it moved files

streamVars == <<wsRoot, flat, streams, archives, pointer, shared, run, runs, faults,
                crossed, lost, killed>>

Items == {"ROADMAP", "STATE", "phases"}
\* Items are moved, and moved back, in this order.
Order == <<"ROADMAP", "STATE", "phases">>
First(items) ==
    Order[CHOOSE n \in 1 .. 3 : Order[n] \in items /\ \A m \in 1 .. n - 1 : Order[m] \notin items]
Empty == [i \in Items |-> 0]
NoStream == [i \in Items |-> -1]
Exists(n) == streams[n] # NoStream
Holds(dir, i) == dir[i] > 0

NoRun == [at |-> "end", name |-> NoName, into |-> NoName, todo |-> {}, moved |-> {},
          kept |-> FALSE, archive |-> 0]

StreamsInit ==
    /\ wsRoot = FALSE
    /\ flat = [i \in Items |-> 1]
    /\ streams = [n \in Names |-> NoStream]
    /\ archives = <<>>
    /\ pointer = [s \in Keyed |-> NoName] /\ shared = NoName
    /\ run = [s \in Sessions |-> NoRun]
    /\ runs = 0 /\ faults = 0 /\ crossed = FALSE /\ lost = FALSE /\ killed = FALSE

-----------------------------------------------------------------------------
(* The pointers. *)

\* One pointer for all sessions.
PointerShared(s) == shared

PointerOf(s) == IF s \in Keyed THEN pointer[s] ELSE shared

\* getActiveWorkstream: a pointer to a directory that is gone counts for none.
Active(s) == IF PointerOf(s) # NoName /\ Exists(PointerOf(s)) THEN PointerOf(s) ELSE NoName

\* setActiveWorkstream, and clearActiveWorkstreamPointer for none.
Point(s, n) ==
    IF s \in Keyed THEN pointer' = [pointer EXCEPT ![s] = n] /\ UNCHANGED shared
    ELSE shared' = n /\ UNCHANGED pointer

Unpointed == UNCHANGED <<pointer, shared>>

\* The commands that are moving files.
Moving(s) == run[s].at \in {"look", "move", "restore", "shelve", "unshelve"}
Alone(s) == \A t \in Sessions \ {s} : ~Moving(t)
Crossing(s) == crossed' = (crossed \/ ~Alone(s))

\* Every command starts in main, which resolves the pointer and deletes it
\* when it is stale.
Launched(s, r) ==
    /\ run[s].at = "end" /\ runs < MaxRuns
    /\ runs' = runs + 1
    /\ run' = [run EXCEPT ![s] = r]
    /\ Point(s, Active(s))
    /\ UNCHANGED <<wsRoot, flat, streams, archives, faults, crossed, lost, killed>>

Goes(s, l) == run' = [run EXCEPT ![s].at = l]

-----------------------------------------------------------------------------
(* workstream create *)

Create(s, n) == Launched(s, [NoRun EXCEPT !.at = "create", !.name = n])

\* A workstream with a STATE.md is left as it is; in flat mode the existing
\* work is migrated first.
CreateBegins(s) ==
    LET n == run[s].name IN
    /\ run[s].at = "create"
    /\ Goes(s, IF Exists(n) /\ Holds(streams[n], "STATE") THEN "end"
               ELSE IF wsRoot THEN "make"
               ELSE IF flat # Empty THEN "migrate" ELSE "root")
    /\ UNCHANGED <<wsRoot, flat, streams, archives, pointer, shared, runs, faults, crossed, lost, killed>>

MakeRoot(s) ==
    /\ run[s].at = "root"
    /\ wsRoot' = TRUE
    /\ Goes(s, "make")
    /\ UNCHANGED <<flat, streams, archives, pointer, shared, runs, faults, crossed, lost, killed>>

\* migrateToWorkstreams refuses when another session was faster.
Migrate(s) ==
    /\ run[s].at = "migrate"
    /\ Goes(s, IF wsRoot THEN "end" ELSE "main")
    /\ UNCHANGED <<wsRoot, flat, streams, archives, pointer, shared, runs, faults, crossed, lost, killed>>

\* Since migrateToWorkstreams looked, another session may have made the directory.
MakeMain(s) ==
    /\ run[s].at = "main"
    /\ wsRoot' = TRUE
    /\ streams' = [streams EXCEPT ![Main] = IF Exists(Main) THEN @ ELSE Empty]
    /\ run' = [run EXCEPT ![s].at = "look", ![s].into = Main, ![s].todo = Items]
    /\ crossed' = (crossed \/ ~Alone(s) \/ Exists(Main))
    /\ UNCHANGED <<flat, archives, pointer, shared, runs, faults, lost, killed>>

\* existsSync of the next item to move.
Look(s) ==
    LET r == run[s] IN
    /\ r.at = "look"
    /\ run' = [run EXCEPT ![s] =
                  IF r.todo = {} THEN [r EXCEPT !.at = "make"]
                  ELSE IF Holds(flat, First(r.todo)) THEN [r EXCEPT !.at = "move"]
                  ELSE [r EXCEPT !.todo = @ \ {First(@)}]]
    /\ UNCHANGED <<wsRoot, flat, streams, archives, pointer, shared, runs, faults, lost, killed>>
    /\ Crossing(s)

\* renameSync: the item may be gone by now, or the directory it goes to.
MoveItem(s, ok) ==
    LET r == run[s]
        i == First(r.todo)
    IN  /\ r.at = "move"
        /\ ok => Holds(flat, i) /\ Exists(r.into)
        /\ ~ok /\ Holds(flat, i) /\ Exists(r.into) => faults < MaxFaults
        /\ faults' = IF ~ok /\ Holds(flat, i) /\ Exists(r.into) THEN faults + 1 ELSE faults
        /\ IF ok THEN /\ streams' = [streams EXCEPT ![r.into][i] = flat[i]]
                      /\ flat' = [flat EXCEPT ![i] = 0]
                      /\ run' = [run EXCEPT ![s].at = "look", ![s].todo = @ \ {i},
                                            ![s].moved = @ \cup {i}]
           ELSE Goes(s, "restore") /\ UNCHANGED <<streams, flat>>
        /\ Crossing(s)
        /\ UNCHANGED <<wsRoot, archives, pointer, shared, runs, lost, killed>>

\* The catch block: everything moved is moved back, one rename at a time; an
\* item that cannot be is deleted with the new directory.
Restore(s, ok) ==
    LET r == run[s]
        i == First(r.moved)
        there == Exists(r.into) /\ Holds(streams[r.into], i)
    IN  /\ r.at = "restore" /\ r.moved # {}
        /\ ok => there
        /\ ~ok /\ there => faults < MaxFaults
        /\ faults' = IF ~ok /\ there THEN faults + 1 ELSE faults
        /\ lost' = (lost \/ (~ok /\ there))
        /\ IF ok THEN /\ flat' = [flat EXCEPT ![i] = streams[r.into][i]]
                      /\ streams' = [streams EXCEPT ![r.into][i] = 0]
           ELSE UNCHANGED <<flat, streams>>
        /\ run' = [run EXCEPT ![s].moved = @ \ {i}]
        /\ Crossing(s)
        /\ UNCHANGED <<wsRoot, archives, pointer, shared, runs, killed>>

Others(n) == \E m \in Names \ {n} : Exists(m)

\* The new directory removed before everything is moved back.
UndoFirst(s) ==
    LET r == run[s] IN
    /\ r.at = "restore"
    /\ streams' = [streams EXCEPT ![r.into] = NoStream]
    /\ wsRoot' = Others(r.into)
    /\ Goes(s, "end")
    /\ Crossing(s)
    /\ UNCHANGED <<flat, archives, pointer, shared, runs, faults, lost, killed>>

\* rmSync of the new directory, rmdirSync of workstreams/ when it is empty.
Undo(s) ==
    LET r == run[s] IN
    /\ r.at = "restore" /\ r.moved = {}
    /\ streams' = [streams EXCEPT ![r.into] = NoStream]
    /\ wsRoot' = Others(r.into)
    /\ Goes(s, "end")
    /\ Crossing(s)
    /\ UNCHANGED <<flat, archives, pointer, shared, runs, faults, lost, killed>>

\* The directory, phases/ and STATE.md of the new workstream, which becomes
\* the active one.
Make(s) ==
    LET n == run[s].name
        old == IF Exists(n) THEN streams[n] ELSE Empty
        fresh(i) == IF Holds(old, i) THEN old[i] ELSE runs + 1
    IN  /\ run[s].at = "make"
        /\ wsRoot' = TRUE
        /\ streams' = [streams EXCEPT ![n] = [old EXCEPT !["STATE"] = fresh("STATE"),
                                                         !["phases"] = fresh("phases")]]
        /\ Point(s, n)
        /\ Goes(s, "end")
        /\ UNCHANGED <<flat, archives, runs, faults, crossed, lost, killed>>

-----------------------------------------------------------------------------
(* workstream complete *)

Complete(s, n) == Launched(s, [NoRun EXCEPT !.at = "complete", !.name = n])

\* The pointer is cleared if it is this one, the archive directory made.
CompleteBegins(s) ==
    LET n == run[s].name IN
    /\ run[s].at = "complete"
    /\ IF ~Exists(n) THEN Goes(s, "end") /\ UNCHANGED <<archives, pointer, shared, crossed>>
       ELSE /\ archives' = Append(archives, [name |-> n, dir |-> Empty])
            /\ run' = [run EXCEPT ![s].at = "shelve", ![s].kept = (Active(s) = n),
                          ![s].archive = Len(archives) + 1,
                          ![s].todo = {i \in Items : Holds(streams[n], i)}]
            /\ IF Active(s) = n THEN Point(s, NoName) ELSE Unpointed
            /\ Crossing(s)
    /\ UNCHANGED <<wsRoot, flat, streams, runs, faults, lost, killed>>

\* One entry of the directory is renamed into the archive.
Shelve(s, ok) ==
    LET r == run[s]
        i == First(r.todo)
        there == Exists(r.name) /\ Holds(streams[r.name], i)
    IN  /\ r.at = "shelve" /\ r.todo # {}
        /\ ok => there
        /\ ~ok /\ there => faults < MaxFaults
        /\ faults' = IF ~ok /\ there THEN faults + 1 ELSE faults
        /\ IF ok THEN /\ archives' = [archives EXCEPT ![r.archive].dir[i] = streams[r.name][i]]
                      /\ streams' = [streams EXCEPT ![r.name][i] = 0]
                      /\ run' = [run EXCEPT ![s].todo = @ \ {i}, ![s].moved = @ \cup {i}]
           ELSE Goes(s, "unshelve") /\ UNCHANGED <<archives, streams>>
        /\ Crossing(s)
        /\ UNCHANGED <<wsRoot, flat, pointer, shared, runs, lost, killed>>

Unshelve(s, ok) ==
    LET r == run[s]
        i == First(r.moved)
        there == Exists(r.name)
    IN  /\ r.at = "unshelve" /\ r.moved # {}
        /\ ok => there
        /\ ~ok /\ there => faults < MaxFaults
        /\ faults' = IF ~ok /\ there THEN faults + 1 ELSE faults
        /\ lost' = (lost \/ ~ok)
        /\ IF ok THEN /\ streams' = [streams EXCEPT ![r.name][i] = archives[r.archive].dir[i]]
                      /\ archives' = [archives EXCEPT ![r.archive].dir[i] = 0]
           ELSE UNCHANGED <<archives, streams>>
        /\ run' = [run EXCEPT ![s].moved = @ \ {i}]
        /\ Crossing(s)
        /\ UNCHANGED <<wsRoot, flat, pointer, shared, runs, killed>>

\* rmSync of the archive; the pointer is set again.
Unarchive(s) ==
    LET r == run[s] IN
    /\ r.at = "unshelve" /\ r.moved = {}
    /\ archives' = [archives EXCEPT ![r.archive].dir = Empty]
    /\ IF r.kept THEN Point(s, r.name) ELSE Unpointed
    /\ Goes(s, "end")
    /\ Crossing(s)
    /\ UNCHANGED <<wsRoot, flat, streams, runs, faults, lost, killed>>

\* workstreams/ removed with its last but one workstream in it.
RetireRoot(s) ==
    LET r == run[s] IN
    /\ r.at = "shelve" /\ r.todo = {}
    /\ streams' = [streams EXCEPT ![r.name] = NoStream]
    /\ wsRoot' = FALSE
    /\ Goes(s, "end")
    /\ Crossing(s)
    /\ UNCHANGED <<flat, archives, pointer, shared, runs, faults, lost, killed>>

\* rmdirSync of the emptied directory, and of workstreams/ after the last one.
Retire(s) ==
    LET r == run[s]
        gone == Exists(r.name) => streams[r.name] = Empty
    IN  /\ r.at = "shelve" /\ r.todo = {}
        /\ streams' = IF gone THEN [streams EXCEPT ![r.name] = NoStream] ELSE streams
        /\ wsRoot' = (Others(r.name) \/ ~gone)
        /\ Goes(s, "end")
        /\ Crossing(s)
        /\ UNCHANGED <<flat, archives, pointer, shared, runs, faults, lost, killed>>

-----------------------------------------------------------------------------
(* workstream set, workstream set --clear, and any other command *)

SetStream(s, n) ==
    /\ run[s].at = "end" /\ runs < MaxRuns /\ Exists(n)
    /\ runs' = runs + 1
    /\ Point(s, n)
    /\ UNCHANGED <<wsRoot, flat, streams, archives, run, faults, crossed, lost, killed>>

ClearStream(s) ==
    /\ run[s].at = "end" /\ runs < MaxRuns
    /\ runs' = runs + 1
    /\ Point(s, NoName)
    /\ UNCHANGED <<wsRoot, flat, streams, archives, run, faults, crossed, lost, killed>>

OtherCommand(s) == Launched(s, NoRun)

\* The process of a command is killed.
KillRun(s) ==
    /\ run[s].at # "end" /\ faults < MaxFaults
    /\ faults' = faults + 1
    /\ killed' = (killed \/ Moving(s))
    /\ run' = [run EXCEPT ![s] = NoRun]
    /\ UNCHANGED <<wsRoot, flat, streams, archives, pointer, shared, runs, crossed, lost>>

StreamStep(s) ==
    \/ \E n \in Names : Create(s, n) \/ Complete(s, n) \/ SetStream(s, n)
    \/ ClearStream(s) \/ OtherCommand(s)
    \/ CreateBegins(s) \/ MakeRoot(s) \/ Migrate(s) \/ MakeMain(s) \/ Look(s) \/ Undo(s) \/ Make(s)
    \/ CompleteBegins(s) \/ Unarchive(s) \/ Retire(s)
    \/ \E ok \in BOOLEAN : MoveItem(s, ok) \/ Restore(s, ok) \/ Shelve(s, ok) \/ Unshelve(s, ok)
    \/ KillRun(s)

StreamsNext == \E s \in Sessions : StreamStep(s)
StreamsSpec == StreamsInit /\ [][StreamsNext]_streamVars

-----------------------------------------------------------------------------

Places == {flat} \cup {streams[n] : n \in Names} \cup {archives[k].dir : k \in DOMAIN archives}

\* Types of the directories and of the commands that move them; a workstream only exists
\* where .planning/workstreams does.
StreamsTypeOK ==
    /\ \A d \in Places, i \in Items : d[i] \in -1 .. MaxRuns + 1
    /\ \A n \in Names : Exists(n) => wsRoot
    /\ runs \in 0 .. MaxRuns /\ faults \in 0 .. MaxFaults

\* ROADMAP.md, STATE.md and phases of the project of the start are never
\* deleted or overwritten, whichever rename fails and whoever is killed, unless
\* one could not be moved back, or two commands moved files at once or into one
\* directory.
WorkIsKept ==
    ~lost /\ ~crossed => \A i \in Items : \E d \in Places : d[i] = 1

\* Unless a process was killed as well, they are together in one directory
\* whenever nothing is being moved: a command moves all of them or none.
WorkIsTogether ==
    ~lost /\ ~crossed /\ ~killed /\ (\A s \in Sessions : ~Moving(s)) =>
        \A d \in Places : (\E i \in Items : d[i] = 1) => \A i \in Items : d[i] = 1

StreamsKeepWork == WorkIsKept /\ WorkIsTogether

\* What one session does never moves another session with a key to a different
\* workstream: it takes its workstream away by archiving it or by undoing a
\* migration, and gives one back only by making the directory anew.
SessionsApart ==
    [][\A t \in Keyed : Active(t)' # Active(t) =>
          \A s \in Sessions \ {t} : StreamStep(s) =>
              \/ Active(t) # NoName /\ Active(t)' = NoName /\ run[s].at \in {"shelve", "restore"}
              \/ Active(t) = NoName /\ Active(t)' = pointer[t] /\ run[s].at \in {"make", "main"}
      ]_streamVars
=============================================================================
