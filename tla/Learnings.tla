------------------------------ MODULE Learnings ------------------------------
(***************************************************************************)
(* The store of learnings of all projects, ~/.gsd/knowledge: one file for  *)
(* each learning, written without a lock by whatever session runs          *)
(* `gsd-tools learnings copy`, prune or delete (learnings.cjs).            *)
(***************************************************************************)
EXTENDS FiniteSets, Naturals

CONSTANTS
    Readers, Projects, Texts, MaxFiles, NoProject,
    Brief, Common       \* the project whose LEARNINGS.md has the one section Common

ASSUME NoteAssumption == Common \in Texts /\ MaxFiles \in Nat

VARIABLES
    notes,      \* the sections of each project's LEARNINGS.md
    store,      \* the files: id, project and text (its hash), readable or torn, old or not
    reader,     \* a session: its step, project, sections left and the file it writes
    known,      \* the learnings copy reported and nobody removed since
    twins       \* two copies of a project overlapped, or one was killed

learnVars == <<notes, store, reader, known, twins>>

AtRest == [at |-> "off", project |-> NoProject, left |-> {}, id |-> 0]
Hash(f) == <<f.project, f.text>>
Ids == {f.id : f \in store}
Legible == {f \in store : ~f.torn}
\* Mutant: a file counts by its name, also when it cannot be parsed.
StoredUnread(hash) == \E f \in store : Hash(f) = hash
Stored(hash) == \E f \in Legible : Hash(f) = hash

LearnInit ==
    /\ notes = [p \in Projects |-> IF p = Brief THEN {Common} ELSE Texts]
    /\ store = {} /\ known = {} /\ twins = FALSE
    /\ reader = [r \in Readers |-> AtRest]

-----------------------------------------------------------------------------

\* learningsCopyFromProject: the sections of LEARNINGS.md that have a body.
CopyBegins(r, p) ==
    /\ reader[r].at = "off" /\ notes[p] # {}
    /\ reader' = [reader EXCEPT ![r] = [at |-> "scan", project |-> p, left |-> notes[p], id |-> 0]]
    /\ twins' = (twins \/ \E q \in Readers : reader[q].project = p)
    /\ UNCHANGED <<notes, store, known>>

\* learningsWrite: a file with the hash of a section, if one can be read ...
FoundDuplicate(r, t) ==
    LET hash == <<reader[r].project, t>>
        rest == reader[r].left \ {t}
    IN  /\ reader[r].at = "scan" /\ t \in reader[r].left /\ Stored(hash)
        /\ known' = known \cup {hash}
        /\ reader' = [reader EXCEPT ![r] = IF rest = {} THEN AtRest ELSE [@ EXCEPT !.left = rest]]
        /\ UNCHANGED <<notes, store, twins>>

\* ... or else a new one, which others can see before it has its content.
OpenFile(r, t) ==
    LET hash == <<reader[r].project, t>>
    IN  /\ reader[r].at = "scan" /\ t \in reader[r].left /\ ~Stored(hash)
        /\ \E id \in (1 .. MaxFiles) \ Ids :
              /\ \A i \in 1 .. id - 1 : i \in Ids
              /\ store' = store \cup {[id |-> id, project |-> hash[1], text |-> t, torn |-> TRUE,
                                       old |-> FALSE]}
              /\ reader' = [reader EXCEPT ![r].at = "fill", ![r].id = id]
        /\ UNCHANGED <<notes, known, twins>>
FillFile(r) ==
    /\ reader[r].at = "fill"
    /\ \E f \in store : f.id = reader[r].id /\ f.project = reader[r].project /\ f.torn
         /\ LET rest == reader[r].left \ {f.text}
            IN  /\ store' = (store \ {f}) \cup {[f EXCEPT !.torn = FALSE]}
                /\ known' = known \cup {Hash(f)}
                /\ reader' = [reader EXCEPT ![r] =
                                IF rest = {} THEN AtRest
                                ELSE [@ EXCEPT !.at = "scan", !.left = rest, !.id = 0]]
    /\ UNCHANGED <<notes, twins>>

Removed(files) ==
    /\ store' = store \ files
    /\ known' = known \ {Hash(f) : f \in files}

\* learningsPrune: the files listed at its start, one after the other; one
\* that cannot be read stays.
PruneBegins(r) ==
    /\ reader[r].at = "off" /\ store # {}
    /\ reader' = [reader EXCEPT ![r] = [AtRest EXCEPT !.at = "prune", !.left = Ids]]
    /\ UNCHANGED <<notes, store, known, twins>>
PruneFile(r, id) ==
    LET rest == reader[r].left \ {id}
    IN  /\ reader[r].at = "prune" /\ id \in reader[r].left
        /\ Removed({f \in Legible : f.id = id /\ f.old})
        /\ reader' = [reader EXCEPT ![r] = IF rest = {} THEN AtRest ELSE [@ EXCEPT !.left = rest]]
        /\ UNCHANGED <<notes, twins>>

\* learningsDelete: by the id the list shows, so a file that can be read.
Delete(r, id) ==
    /\ reader[r].at = "off" /\ \E f \in Legible : f.id = id
    /\ Removed({f \in store : f.id = id})
    /\ UNCHANGED <<notes, reader, twins>>

\* A session is killed: what it was writing stays as it is.
KillReader(r) ==
    /\ reader[r].at # "off" /\ reader' = [reader EXCEPT ![r] = AtRest]
    /\ UNCHANGED <<notes, store, known, twins>>

\* The learnings in the store pass the age that prune is asked for.
GrowOld ==
    /\ \E f \in store : ~f.old
    /\ store' = {[f EXCEPT !.old = TRUE] : f \in store}
    /\ UNCHANGED <<notes, reader, known, twins>>

LearnNext ==
    \/ \E r \in Readers :
          \/ \E p \in Projects : CopyBegins(r, p)
          \/ \E t \in Texts : FoundDuplicate(r, t) \/ OpenFile(r, t)
          \/ FillFile(r) \/ PruneBegins(r) \/ KillReader(r)
          \/ \E id \in 1 .. MaxFiles : PruneFile(r, id) \/ Delete(r, id)
    \/ GrowOld

LearnSpec == LearnInit /\ [][LearnNext]_learnVars

-----------------------------------------------------------------------------

\* Types of the store and the sessions; an id names one file.
LearnTypeOK ==
    /\ \A f \in store : f.project \in Projects /\ f.text \in Texts
    /\ \A f, g \in store : f.id = g.id => f = g
    /\ \A r \in Readers : reader[r].at \in {"off", "scan", "fill", "prune"}

\* A learning that copy reported, written or found, can be read until it is
\* deleted or pruned, also after a copy was killed in the middle of its file;
\* and unless copies of its project overlapped it is in one file.
LearningsKept ==
    /\ \A hash \in known : \E f \in Legible : Hash(f) = hash
    /\ ~twins => \A f, g \in Legible : Hash(f) = Hash(g) => f = g
=============================================================================
