------------------------------ MODULE Commits ------------------------------
(***************************************************************************)
(* gsd-tools commit (commands.cjs) as agents in the background run it, at  *)
(* a time and in one checkout: the branch of the phase, the entries of the *)
(* list one by one, the commit, each a git process of its own.  An entry   *)
(* is a file or the folder Above all of them: .planning/, with or without  *)
(* a list, or .planning/phases/.  git refuses a command that meets the     *)
(* index lock of another, and execGit only returns the exit code: a        *)
(* refused checkout or add is passed over.  git itself is external: a      *)
(* branch is a sequence of trees, a tree gives each file its version, 0    *)
(* when it is absent.                                                      *)
(***************************************************************************)
EXTENDS Integers, Sequences, FiniteSets, SequencesExt

CONSTANTS
    Committers,    \* processes that may run at a time
    Paths,         \* files under .planning/, numbered by their phase
    Requests,      \* what a command is asked for: its list, and --amend
    MaxCommits,    \* bound: commands started
    MaxChanges     \* bound: writes and removals of files

Above == 0
Entries == Paths \cup {Above}
FilesOf(e) == IF e = Above THEN Paths ELSE {e}

ASSUME CommitAssumption ==
    /\ Paths \subseteq Nat \ {0} /\ MaxCommits \in Nat /\ MaxChanges \in Nat
    /\ Requests \subseteq [list : Seq(Entries), amend : BOOLEAN]

VARIABLES
    strategy,    \* branching_strategy: none, phase or milestone
    branches,    \* the trees committed on each branch
    current,     \* the branch HEAD is on
    work, index, \* the working tree and the index
    step,        \* where each command is
    ask,         \* its request
    looked,      \* entries of its list it has looked at
    checked,     \* the entry it has found and has still to add
    staged,      \* the versions it staged
    commits,     \* commands started
    changes,     \* writes and removals
    acks,        \* history: what was reported as committed, and where
    refused,     \* history: its checkout was refused
    alone,       \* history: no other command ran at any time
    swept,       \* history: files that were missing when their folder was added
    raced,       \* history: files removed between their check and their add
    amended      \* history: a commit was amended

gitVars == <<branches, current, work, index>>
runVars == <<step, ask, looked, checked, staged, refused, alone>>
noteVars == <<acks, swept, raced, amended>>
commitVars == <<strategy, gitVars, runVars, noteVars, commits, changes>>

Branches == {<<"main">>, <<"milestone">>} \cup {<<"phase", p>> : p \in Paths}
Tip(b) == Last(branches[b])
HasBranch(b) == branches[b] # <<>>
NoAsk == [list |-> <<>>, amend |-> FALSE]
Root == [f \in Paths |-> 1]

CommitsInit ==
    /\ strategy \in {"none", "phase", "milestone"}
    \* With a branch for each phase, that of phase 1 may exist.
    /\ \E begun \in SUBSET (IF strategy = "phase" THEN Paths \cap {1} ELSE {}) :
          branches = [b \in Branches |->
              IF b = <<"main">> THEN <<Root>>
              ELSE IF begun # {} /\ b = <<"phase", 1>> THEN <<Root, [Root EXCEPT ![1] = 2]>>
              ELSE <<>>]
    /\ current = <<"main">>
    /\ work = Root /\ index = Root
    /\ step = [c \in Committers |-> "idle"] /\ ask = [c \in Committers |-> NoAsk]
    /\ looked = [c \in Committers |-> 0] /\ checked = [c \in Committers |-> {}]
    /\ staged = [c \in Committers |-> {}]
    /\ refused = [c \in Committers |-> FALSE] /\ alone = [c \in Committers |-> TRUE]
    /\ commits = 0 /\ changes = 0
    /\ acks = {} /\ swept = {} /\ raced = {} /\ amended = FALSE

\* Agents and the user write and remove files.
Change(f) ==
    /\ changes < MaxChanges /\ changes' = changes + 1
    /\ \/ work' = [work EXCEPT ![f] = changes + 3] /\ UNCHANGED raced
       \/ work[f] # 0 /\ work' = [work EXCEPT ![f] = 0]
          /\ raced' = raced \cup {g \in {f} : \E c \in Committers : g \in checked[c]}
    /\ UNCHANGED <<strategy, branches, current, index, runVars, acks, swept, amended, commits>>

\* The branch of the phase that the first entry to name one names, or of the
\* milestone; the folder above the phases names none.
Naming(c) == {i \in DOMAIN ask[c].list : ask[c].list[i] # Above}
BranchOf(c) ==
    IF strategy = "milestone" THEN <<"milestone">>
    ELSE IF strategy = "phase" /\ Naming(c) # {}
    THEN <<"phase", ask[c].list[CHOOSE i \in Naming(c) : \A j \in Naming(c) : i <= j]>>
    ELSE current

\* Another git process may hold the index lock.
Busy(c) == \E d \in Committers \ {c} : step[d] # "idle"

\* commit_docs is on and .planning is not ignored, else the command ends here.
CommitStart(c, request) ==
    /\ commits < MaxCommits /\ commits' = commits + 1 /\ step[c] = "idle"
    /\ step' = [step EXCEPT ![c] = "branch"]
    /\ ask' = [ask EXCEPT ![c] = request] /\ looked' = [looked EXCEPT ![c] = 0]
    /\ staged' = [staged EXCEPT ![c] = {}] /\ refused' = [refused EXCEPT ![c] = FALSE]
    /\ alone' = [d \in Committers |-> IF d = c THEN ~Busy(c) ELSE alone[d] /\ step[d] = "idle"]
    /\ UNCHANGED <<strategy, gitVars, checked, noteVars, changes>>

\* git checkout takes the files in which the branches differ from the target,
\* and refuses when one of them is staged or changed.
Differ(b) == {f \in Paths : Tip(b)[f] # Tip(current)[f]}
Clean(f) == index[f] = Tip(current)[f] /\ work[f] = index[f]
CanSwitch(b) == \A f \in Differ(b) : Clean(f) \/ index[f] = Tip(b)[f]
Switched(files, b) == [f \in Paths |-> IF f \in Differ(b) /\ Clean(f) THEN Tip(b)[f] ELSE files[f]]

SwitchBranch(c) ==
    LET b == BranchOf(c) IN
    /\ step[c] = "branch" /\ step' = [step EXCEPT ![c] = "stage"]
    /\ \/ b = current /\ UNCHANGED <<gitVars, refused>>
       \/ /\ b # current /\ ~HasBranch(b)                     \* checkout -b
          /\ branches' = [branches EXCEPT ![b] = branches[current]]
          /\ current' = b /\ UNCHANGED <<work, index, refused>>
       \/ /\ b # current /\ HasBranch(b) /\ CanSwitch(b)      \* checkout
          /\ current' = b /\ work' = Switched(work, b) /\ index' = Switched(index, b)
          /\ UNCHANGED <<branches, refused>>
       \/ /\ b # current /\ (Busy(c) \/ (HasBranch(b) /\ ~CanSwitch(b)))
          /\ refused' = [refused EXCEPT ![c] = TRUE] /\ UNCHANGED gitVars
    /\ UNCHANGED <<strategy, ask, looked, checked, staged, alone, noteVars, commits, changes>>

\* A missing file goes on to git add, which stages its deletion.
Looks(c) ==
    /\ step[c] = "stage" /\ looked[c] < Len(ask[c].list) /\ checked[c] = {}
    /\ looked' = [looked EXCEPT ![c] = @ + 1]
    /\ UNCHANGED <<strategy, gitVars, step, ask, staged, refused, alone, noteVars, commits, changes>>
NothingSkipped(c) == Looks(c) /\ checked' = [checked EXCEPT ![c] = {ask[c].list[looked[c] + 1]}]

\* An entry that does not exist is skipped; a folder whose files are all removed
\* may be there or not.  (Without a list, git rm refuses a missing folder.)
CheckEntry(c) ==
    LET e == ask[c].list[looked[c] + 1] IN
    /\ Looks(c)
    /\ \/ (e # Above => work[e] # 0) /\ checked' = [checked EXCEPT ![c] = {e}]
       \/ (\A f \in FilesOf(e) : work[f] = 0) /\ UNCHANGED checked

\* git add, a process later: the files as they are now, removals included.
AddEntry(c, e) ==
    /\ e \in checked[c] /\ checked' = [checked EXCEPT ![c] = {}]
    /\ \/ /\ index' = [f \in Paths |-> IF f \in FilesOf(e) THEN work[f] ELSE index[f]]
          /\ staged' = [staged EXCEPT ![c] = @ \cup {<<f, work[f]>> : f \in FilesOf(e)}]
          /\ swept' = swept \cup {f \in FilesOf(e) : e = Above /\ work[f] = 0}
       \/ Busy(c) /\ UNCHANGED <<index, staged, swept>>
    /\ UNCHANGED <<strategy, branches, current, work, step, ask, looked, refused, alone,
                   acks, raced, amended, commits, changes>>

\* git commit takes the whole index, whoever staged it.  Every failure is
\* reported as nothing_to_commit.
Committed(c) ==
    /\ branches' = [branches EXCEPT ![current] =
                       Append(IF ask[c].amend THEN Front(@) ELSE @, index)]
    /\ amended' = (amended \/ ask[c].amend)
    /\ acks' = acks \cup {[on |-> current, due |-> IF refused[c] THEN current ELSE BranchOf(c),
                           files |-> staged[c], alone |-> alone[c]]}

GitCommit(c) ==
    /\ step[c] = "stage" /\ looked[c] = Len(ask[c].list) /\ checked[c] = {}
    /\ looked' = [looked EXCEPT ![c] = 0] /\ step' = [step EXCEPT ![c] = "idle"]
    /\ ask' = [ask EXCEPT ![c] = NoAsk] /\ staged' = [staged EXCEPT ![c] = {}]
    /\ refused' = [refused EXCEPT ![c] = FALSE] /\ alone' = [alone EXCEPT ![c] = TRUE]
    /\ \/ (index # Tip(current) \/ ask[c].amend) /\ Committed(c)
       \/ (Busy(c) \/ (index = Tip(current) /\ ~ask[c].amend)) /\ UNCHANGED <<branches, acks, amended>>
    /\ UNCHANGED <<strategy, current, work, index, checked, swept, raced, commits, changes>>

CommitsNext ==
    \/ \E f \in Paths : Change(f)
    \/ \E c \in Committers :
          \/ \E request \in Requests : CommitStart(c, request)
          \/ SwitchBranch(c) \/ CheckEntry(c) \/ GitCommit(c)
          \/ \E e \in Entries : AddEntry(c, e)

CommitsSpec == CommitsInit /\ [][CommitsNext]_commitVars

-----------------------------------------------------------------------------

\* Types of git and of the commands: some branch is checked out, file versions stay within
\* their bound and a command looks only at entries it was asked for.
CommitsTypeOK ==
    /\ HasBranch(current) /\ work \in [Paths -> 0 .. MaxChanges + 2]
    /\ \A c \in Committers : looked[c] \in 0 .. Len(ask[c].list) /\ checked[c] \subseteq Entries

\* What a command staged before it reported a commit is in the history of a
\* branch, in that version or a later one, also when another command committed
\* it or switched branches in between: of the branch it reported, when it ran
\* alone.  And no commit removes a file.  Exceptions: an amended commit; a file
\* that was missing when its folder was added; a file that was removed between
\* its check and its add.
CommitsKeep ==
    ~amended =>
        /\ \A a \in acks : \A s \in a.files : s[1] \notin swept \cup raced =>
              \E b \in Branches :
                 (a.alone => b = a.on) /\ \E t \in ToSet(branches[b]) : t[s[1]] >= s[2]
        /\ \A b \in Branches : \A i \in 1 .. Len(branches[b]) - 1 : \A f \in Paths \ (swept \cup raced) :
              branches[b][i][f] # 0 => branches[b][i + 1][f] # 0

\* A command that ran alone commits on the branch of its phase, unless git
\* refused to switch because of changed files.
OnItsBranch == \A a \in acks : a.alone => a.on = a.due
=============================================================================
