------------------------------ MODULE Worktrees ------------------------------
(***************************************************************************)
(* Executors in git worktrees (workflows/execute-phase.md) and what        *)
(* removes a worktree: the orchestrator that spawned a wave merges and     *)
(* removes every worktree it finds, and `init progress` removes those      *)
(* whose branch is merged (core.cjs, pruneOrphanedWorktrees).  HEAD of the *)
(* main worktree and each branch are the sets of the executors' commits    *)
(* they contain; a plan has one task and a SUMMARY.md.                     *)
(***************************************************************************)
EXTENDS FiniteSets, Naturals

CONSTANTS Executors, Bosses, NoOne

ASSUME ActorAssumption == Executors \cap Bosses = {}

VARIABLES
    wave,       \* the orchestrator that runs an executor's plan
    exec,       \* where an executor is
    tree,       \* its worktree: there or not, with a SUMMARY.md to commit or not
    branch,     \* its branch: there or not, and its commits
    main,       \* the commits of HEAD
    merging,    \* the commits of a merge with conflicts, {} without one
    boss,       \* an orchestrator: step, worktrees left, the current one
    pruner,     \* the same of `init progress`
    made,       \* every commit made by an executor or for it
    deleting,   \* the plans whose task deletes a tracked file
    seen        \* what happened: pruning, conflicts, commits too late ...

treeVars == <<wave, exec, tree, branch, main, merging, boss, pruner, made,
              deleting, seen>>

Code(e) == <<e, "code">>
Summary(e) == <<e, "summary">>
NoTree == [there |-> FALSE, dirty |-> FALSE]
NoBranch == [there |-> FALSE, has |-> {}]
Cleaner(at) == [at |-> at, left |-> {}, on |-> NoOne]

TreesInit ==
    /\ wave \in [Executors -> Bosses]
    /\ exec = [e \in Executors |-> "none"] /\ tree = [e \in Executors |-> NoTree]
    /\ branch = [e \in Executors |-> NoBranch]
    /\ main = {} /\ merging = {}
    /\ boss = [b \in Bosses |-> Cleaner("wait")] /\ pruner = Cleaner("off")
    /\ deleting \in {set \in SUBSET Executors : Cardinality(set) <= 1}
    /\ made = {} /\ seen = {}

-----------------------------------------------------------------------------

\* Task(isolation="worktree"): a branch at HEAD and a worktree on it.
SpawnExecutor(e) ==
    /\ exec[e] = "none" /\ boss[wave[e]].at = "wait"
    /\ exec' = [exec EXCEPT ![e] = "work"]
    /\ tree' = [tree EXCEPT ![e].there = TRUE]
    /\ branch' = [branch EXCEPT ![e] = [there |-> TRUE, has |-> main]]
    /\ UNCHANGED <<wave, main, merging, boss, pruner, made, deleting, seen>>

\* Somebody other than who has judged the branch of e merged and not removed
\* the worktree yet.
Judged(e, who) ==
    \/ pruner.on = e /\ pruner.at = "remove"
    \/ \E b \in Bosses \ {who} : boss[b].on = e /\ boss[b].at \in {"rescue", "remove"}

\* git commit in a worktree, by its executor or by an orchestrator.
Saved(e, c, who) ==
    /\ branch' = [branch EXCEPT ![e].has = @ \cup {c}]
    /\ made' = made \cup {c}
    /\ seen' = IF Judged(e, who) THEN seen \cup {<<"late", e>>} ELSE seen

\* The task of the plan, committed.
Task(e) ==
    /\ exec[e] = "work" /\ tree[e].there
    /\ exec' = [exec EXCEPT ![e] = "coded"]
    /\ Saved(e, Code(e), e)
    /\ UNCHANGED <<wave, tree, main, merging, boss, pruner, deleting>>

\* SUMMARY.md is written, and committed.
WriteSummary(e) ==
    /\ exec[e] = "coded" /\ tree[e].there
    /\ exec' = [exec EXCEPT ![e] = "written"]
    /\ tree' = [tree EXCEPT ![e].dirty = TRUE]
    /\ UNCHANGED <<wave, branch, main, merging, boss, pruner, made, deleting, seen>>
CommitSummary(e) ==
    /\ exec[e] = "written" /\ tree[e].dirty
    /\ exec' = [exec EXCEPT ![e] = "summed"]
    /\ tree' = [tree EXCEPT ![e].dirty = FALSE]
    /\ Saved(e, Summary(e), e)
    /\ UNCHANGED <<wave, main, merging, boss, pruner, deleting>>

\* It returns, with or without having committed SUMMARY.md, or fails before.
Finish(e) ==
    /\ \/ exec[e] \in {"written", "summed"} /\ exec' = [exec EXCEPT ![e] = "returned"]
       \/ exec[e] \in {"work", "coded"} /\ exec' = [exec EXCEPT ![e] = "failed"]
    /\ UNCHANGED <<wave, tree, branch, main, merging, boss, pruner, made, deleting, seen>>

Execute(e) == SpawnExecutor(e) \/ Task(e) \/ WriteSummary(e) \/ CommitSummary(e) \/ Finish(e)

-----------------------------------------------------------------------------

\* git merge of the commits of a branch.
Merged(commits) == main' = main \cup commits
Deletes(commits) == \E e \in deleting : Code(e) \in commits \ main

\* The wave has ended: git worktree list, every worktree but the main one.
List(b) ==
    /\ boss[b].at = "wait" /\ \E e \in Executors : wave[e] = b
    /\ \A e \in Executors : wave[e] = b => exec[e] \in {"returned", "failed"}
    /\ boss' = [boss EXCEPT ![b] =
                    [Cleaner("next") EXCEPT !.left = {e \in Executors : tree[e].there}]]
    /\ UNCHANGED <<wave, exec, tree, branch, main, merging, pruner, made, deleting, seen>>

\* A worktree of the list: passed over when it is gone or its branch deletes
\* files; a merge that fails ends the loop, and one with conflicts is left to
\* the user.
Skip(b, e) ==
    /\ boss[b].at = "next" /\ e \in boss[b].left
    /\ ~tree[e].there \/ Deletes(branch[e].has)
    /\ boss' = [boss EXCEPT ![b].left = @ \ {e}]
    /\ UNCHANGED <<wave, exec, tree, branch, main, merging, pruner, made, deleting, seen>>
MergeFails(b, e) ==
    /\ boss[b].at = "next" /\ e \in boss[b].left /\ tree[e].there /\ ~Deletes(branch[e].has)
    /\ merging # {} \/ ~(branch[e].has \subseteq main)
    /\ boss' = [boss EXCEPT ![b].left = {}]
    /\ merging' = IF merging = {} THEN branch[e].has ELSE merging
    /\ seen' = seen \cup {<<"conflict", e>>}
    /\ UNCHANGED <<wave, exec, tree, branch, main, pruner, made, deleting>>

\* A merge that succeeds; git rm of every file it added to .planning, which
\* takes the SUMMARY.md of the plan away again.
MergeBranch(b, e) ==
    /\ boss[b].at = "next" /\ e \in boss[b].left /\ tree[e].there /\ ~Deletes(branch[e].has)
    /\ merging = {} /\ Merged(branch[e].has)
    /\ boss' = [boss EXCEPT ![b] = [at |-> "rescue", left |-> @.left \ {e}, on |-> e]]
    /\ UNCHANGED <<wave, exec, tree, branch, merging, pruner, made, deleting, seen>>

\* A SUMMARY.md that was not committed is, and the branch merged again ...
RescueSummary(b) ==
    LET e == boss[b].on
    IN  /\ boss[b].at = "rescue"
        /\ IF tree[e].dirty
           THEN /\ tree' = [tree EXCEPT ![e].dirty = FALSE]
                /\ Saved(e, Summary(e), b)
                /\ boss' = [boss EXCEPT ![b].at = "remerge"]
           ELSE /\ boss' = [boss EXCEPT ![b].at = "remove"]
                /\ UNCHANGED <<tree, branch, made, seen>>
        /\ UNCHANGED <<wave, exec, main, merging, pruner, deleting>>

\* ... which may fail, and nobody looks.
MergeAgain(b) ==
    LET e == boss[b].on
    IN  /\ boss[b].at = "remerge"
        /\ IF merging = {} /\ branch[e].there
           THEN /\ Merged(branch[e].has) /\ UNCHANGED seen
           ELSE seen' = seen \cup {<<"unrescued", e>>} /\ UNCHANGED main
        /\ boss' = [boss EXCEPT ![b].at = "remove"]
        /\ UNCHANGED <<wave, exec, tree, branch, merging, pruner, made, deleting>>

\* git worktree remove --force; git branch -D.
RemoveTree(b) ==
    LET e == boss[b].on
    IN  /\ boss[b].at = "remove"
        /\ tree' = [tree EXCEPT ![e] = NoTree] /\ branch' = [branch EXCEPT ![e] = NoBranch]
        /\ boss' = [boss EXCEPT ![b] = [@ EXCEPT !.at = "next", !.on = NoOne]]
        /\ UNCHANGED <<wave, exec, main, merging, pruner, made, deleting, seen>>

CleanUp(b) ==
    \/ List(b)
    \/ \E e \in Executors : Skip(b, e) \/ MergeFails(b, e) \/ MergeBranch(b, e)
    \/ RescueSummary(b) \/ MergeAgain(b) \/ RemoveTree(b)

\* The user resolves the conflicts or aborts the merge.
Resolve ==
    /\ merging # {} /\ merging' = {}
    /\ Merged(merging) \/ UNCHANGED main
    /\ UNCHANGED <<wave, exec, tree, branch, boss, pruner, made, deleting, seen>>

-----------------------------------------------------------------------------

\* At most two clean up: two orchestrators, or one and `init progress`.
OneWave == Cardinality({wave[e] : e \in Executors}) = 1

\* `init progress` in the main worktree: the list of worktrees ...
PruneList ==
    /\ pruner.at = "off" /\ OneWave
    /\ pruner' = [Cleaner("check") EXCEPT !.left = {e \in Executors : tree[e].there}]
    /\ seen' = seen \cup {<<"pruned", NoOne>>}
    /\ UNCHANGED <<wave, exec, tree, branch, main, merging, boss, made, deleting>>

\* Mutant: the check of the branch forgotten.
CheckNothing(e) ==
    /\ pruner.at = "check" /\ e \in pruner.left
    /\ pruner' = [pruner EXCEPT !.left = @ \ {e}, !.at = "remove", !.on = e]
    /\ UNCHANGED <<wave, exec, tree, branch, main, merging, boss, made, deleting, seen>>

\* ... git merge-base --is-ancestor branch HEAD of each ...
CheckMerged(e) ==
    /\ pruner.at = "check" /\ e \in pruner.left
    /\ pruner' = IF branch[e].there /\ branch[e].has \subseteq main
                 THEN [pruner EXCEPT !.left = @ \ {e}, !.at = "remove", !.on = e]
                 ELSE [pruner EXCEPT !.left = @ \ {e}]
    /\ UNCHANGED <<wave, exec, tree, branch, main, merging, boss, made, deleting, seen>>

\* ... git worktree remove --force, and when it removed one, git branch -D.
PruneTree ==
    LET e == pruner.on
    IN  /\ pruner.at = "remove"
        /\ tree' = [tree EXCEPT ![e] = NoTree]
        /\ branch' = IF tree[e].there THEN [branch EXCEPT ![e] = NoBranch] ELSE branch
        /\ pruner' = [pruner EXCEPT !.at = "check", !.on = NoOne]
        /\ UNCHANGED <<wave, exec, main, merging, boss, made, deleting, seen>>

PruneTrees == PruneList \/ (\E e \in Executors : CheckMerged(e)) \/ PruneTree

TreesNext ==
    \/ \E e \in Executors : Execute(e)
    \/ \E b \in Bosses : CleanUp(b)
    \/ Resolve \/ PruneTrees

TreesSpec == TreesInit /\ [][TreesNext]_treeVars

-----------------------------------------------------------------------------

\* Types of the worktrees, branches and cleaners; HEAD has only commits that
\* somebody made.
TreesTypeOK ==
    /\ \A e \in Executors : tree[e].dirty => tree[e].there
    /\ main \cup merging \subseteq made /\ deleting \subseteq Executors

Happened(what) == \E e \in Executors \cup {NoOne} : <<what, e>> \in seen

\* No commit of an executor is lost, whoever cleans up in between: it is in
\* HEAD, on its branch or in a merge the user has to resolve.  Exceptions: the
\* commit that was made between a check or merge of the branch and its removal,
\* and the rescued SUMMARY.md whose second merge failed.
CommitsKept ==
    ~Happened("late") /\ ~Happened("unrescued") =>
        made \subseteq main \cup merging \cup UNION {branch[e].has : e \in Executors}

\* A wave that was alone, and was not interrupted by conflicts, ends with the
\* task of every plan that returned in HEAD and its worktree gone, unless it
\* deletes files; a SUMMARY.md the executor forgot is in the main working tree.
AloneWave(b) == wave = [e \in Executors |-> b] /\ ~Happened("pruned") /\ ~Happened("conflict")
WaveLands ==
    \A b \in Bosses : AloneWave(b) /\ boss[b].at = "next" /\ boss[b].left = {} =>
        \A e \in Executors : exec[e] = "returned" /\ e \notin deleting =>
            {Code(e), Summary(e)} \subseteq main /\ ~tree[e].there /\ ~branch[e].there

WorkLands == CommitsKept /\ WaveLands
=============================================================================
