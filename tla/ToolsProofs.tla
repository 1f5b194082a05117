----------------------------- MODULE ToolsProofs -----------------------------
(***************************************************************************)
(* The tools that run beside each other without a lock, for any number of  *)
(* processes.                                                              *)
(***************************************************************************)
EXTENDS MCTools, CommandProofs, WorkstreamProofs, PlanningProofs, FiniteSetTheorems, TLAPS

-----------------------------------------------------------------------------
(* Executors in worktrees.                                                 *)

CommitSet == Executors \X {"code", "summary"}
Trees == [there : BOOLEAN, dirty : BOOLEAN]
TreeBranches == [there : BOOLEAN, has : SUBSET CommitSet]
OnTree == {"rescue", "remerge", "remove"}
Cleaners == [at : {"wait", "off", "next", "check"} \cup OnTree,
             left : SUBSET Executors, on : Executors \cup {NoOne}]

\* Types of the worktrees, branches, HEAD and the cleaners.
TreesTypes ==
    /\ wave \in [Executors -> Bosses]
    /\ exec \in [Executors -> {"none", "work", "coded", "written", "summed", "returned", "failed"}]
    /\ tree \in [Executors -> Trees] /\ branch \in [Executors -> TreeBranches]
    /\ main \subseteq CommitSet /\ merging \subseteq CommitSet /\ made \subseteq CommitSet
    /\ boss \in [Bosses -> Cleaners] /\ pruner \in Cleaners
    /\ deleting \subseteq Executors
    /\ \A b \in Bosses : boss[b].at \in OnTree => boss[b].on \in Executors
    /\ pruner.at \in OnTree => pruner.on \in Executors

\* A branch has nothing but the commits of HEAD and those of its own plan.
BranchInv ==
    /\ \A e \in Executors : tree[e].dirty => tree[e].there
    /\ main \cup merging \subseteq made
    /\ \A e \in Executors : branch[e].has \subseteq made
    /\ \A e \in Executors : exec[e] = "none" => branch[e].has = {} /\ ~tree[e].there
    /\ \A e \in Executors : branch[e].has \subseteq main \cup {Code(e), Summary(e)}

\* While nothing was committed too late and no rescue failed, no commit is lost
\* and what a cleaner is about to remove has been merged.
LossOf ==
    /\ \A m \in made : m \in main \/ \E e \in Executors : m \in branch[e].has
    /\ \A b \in Bosses : boss[b].at \in {"rescue", "remove"} => branch[boss[b].on].has \subseteq main
    /\ pruner.at = "remove" => branch[pruner.on].has \subseteq main

LossInv == ~Happened("late") /\ ~Happened("unrescued") => LossOf

\* A plan not yet merged: its commits are on its branch, its SUMMARY.md there or
\* still to be committed in its worktree.
Ready(e) ==
    /\ tree[e].there /\ branch[e].there
    /\ exec[e] \in {"coded", "written", "summed", "returned"} => Code(e) \in branch[e].has
    /\ exec[e] \in {"written", "summed", "returned"} => tree[e].dirty \/ Summary(e) \in branch[e].has
\* A plan that was merged and cleaned up after.
Landed(e) == {Code(e), Summary(e)} \subseteq main /\ ~tree[e].there /\ ~branch[e].there
\* How far the orchestrator b has come with the plan of e.
Stands(b, e) ==
    \/ Ready(e) /\ (boss[b].at = "wait" \/ e \in boss[b].left)
    \/ Ready(e) /\ boss[b].at = "rescue" /\ boss[b].on = e /\ branch[e].has \subseteq main
    \/ /\ boss[b].at = "remerge" /\ boss[b].on = e /\ branch[e].there
       /\ exec[e] = "returned" => {Code(e), Summary(e)} \subseteq branch[e].has
    \/ /\ boss[b].at = "remove" /\ boss[b].on = e
       /\ exec[e] = "returned" => {Code(e), Summary(e)} \subseteq main
    \/ /\ boss[b].at # "wait" /\ e \notin boss[b].left /\ (boss[b].at \in OnTree => boss[b].on # e)
       /\ exec[e] = "returned" /\ e \notin deleting => Landed(e)
\* While a wave is alone, every plan is where its orchestrator thinks it is.
WaveOf(b) ==
    /\ merging = {} /\ pruner.at = "off"
    /\ \A c \in Bosses : c # b => boss[c].at = "wait"
    /\ boss[b].at # "wait" => \A e \in Executors : exec[e] \in {"returned", "failed"}
    /\ boss[b].at \in OnTree => boss[b].on \notin boss[b].left
    /\ \A e \in Executors : exec[e] # "none" => Stands(b, e)

WaveInv == \A b \in Bosses : AloneWave(b) => WaveOf(b)

TreesInv == TreesTypes /\ BranchInv /\ LossInv /\ WaveInv

LEMMA TreesInitInv == TreesInit => TreesInv
<1> SUFFICES ASSUME TreesInit PROVE TreesInv
    OBVIOUS
<1> USE DEF TreesInit, Cleaner, NoTree, NoBranch
<1>1. TreesTypes
    BY DEF TreesTypes, Trees, TreeBranches, Cleaners, OnTree
<1>2. BranchInv
    BY DEF BranchInv
<1>3. LossInv
    BY DEF LossInv, LossOf
<1>4. WaveInv
    BY DEF WaveInv, WaveOf, OnTree
<1> QED
    BY <1>1, <1>2, <1>3, <1>4 DEF TreesInv

\* What happened stays, and plans keep their wave and their task.
LEMMA TreesHistory ==
    [TreesNext]_treeVars => seen \subseteq seen' /\ UNCHANGED <<wave, deleting>>
<1> SUFFICES ASSUME [TreesNext]_treeVars PROVE seen \subseteq seen' /\ UNCHANGED <<wave, deleting>>
    OBVIOUS
<1>1. ASSUME NEW e \in Executors, Execute(e) PROVE seen \subseteq seen' /\ UNCHANGED <<wave, deleting>>
    BY <1>1 DEF Execute, SpawnExecutor, Task, WriteSummary, CommitSummary, Finish, Saved
<1>2. ASSUME NEW b \in Bosses, CleanUp(b) PROVE seen \subseteq seen' /\ UNCHANGED <<wave, deleting>>
    BY <1>2 DEF CleanUp, List, Skip, MergeFails, MergeBranch, RescueSummary, MergeAgain, RemoveTree, Saved
<1>3. CASE Resolve \/ PruneTrees \/ UNCHANGED treeVars
    BY <1>3 DEF Resolve, PruneTrees, PruneList, CheckMerged, PruneTree, treeVars
<1> QED
    BY <1>1, <1>2, <1>3 DEF TreesNext

\* The values that the steps give a worktree and a branch.
LEMMA TreeValues ==
    ASSUME NEW t \in Trees
    PROVE  /\ [t EXCEPT !.there = TRUE] \in Trees
           /\ [t EXCEPT !.dirty = TRUE] \in Trees /\ [t EXCEPT !.dirty = FALSE] \in Trees
BY DEF Trees

LEMMA BranchValues ==
    ASSUME NEW b \in TreeBranches, NEW c \in CommitSet
    PROVE  [b EXCEPT !.has = @ \cup {c}] \in TreeBranches
BY DEF TreeBranches

LEMMA NewValues ==
    /\ NoTree \in Trees /\ NoBranch \in TreeBranches
    /\ \A set \in SUBSET CommitSet : [there |-> TRUE, has |-> set] \in TreeBranches
    /\ \A e \in Executors : Code(e) \in CommitSet /\ Summary(e) \in CommitSet
BY DEF NoTree, NoBranch, Trees, TreeBranches, CommitSet, Code, Summary

\* A commit in the worktree of e.
LEMMA SavedTypes ==
    ASSUME TreesTypes, NEW e \in Executors, NEW c \in CommitSet, NEW who, Saved(e, c, who)
    PROVE  branch' \in [Executors -> TreeBranches] /\ made' \subseteq CommitSet
<1>1. branch[e] \in TreeBranches
    BY DEF TreesTypes
<1>2. [branch[e] EXCEPT !.has = @ \cup {c}] \in TreeBranches
    BY <1>1, BranchValues
<1>3. branch' = [branch EXCEPT ![e] = [branch[e] EXCEPT !.has = @ \cup {c}]] /\ made' = made \cup {c}
    BY DEF Saved
<1> QED
    BY <1>2, <1>3 DEF TreesTypes

LEMMA TreesTypesStep == TreesTypes /\ [TreesNext]_treeVars => TreesTypes'
<1> SUFFICES ASSUME TreesTypes, [TreesNext]_treeVars PROVE TreesTypes'
    OBVIOUS
<1> USE DEF TreesTypes
<1>1. ASSUME NEW e \in Executors, SpawnExecutor(e) PROVE TreesTypes'
    <2>1. [tree[e] EXCEPT !.there = TRUE] \in Trees /\ [there |-> TRUE, has |-> main] \in TreeBranches
        BY TreeValues, NewValues
    <2>2. /\ tree' = [tree EXCEPT ![e] = [tree[e] EXCEPT !.there = TRUE]]
          /\ branch' = [branch EXCEPT ![e] = [there |-> TRUE, has |-> main]]
        BY <1>1 DEF SpawnExecutor
    <2> QED
        BY <1>1, <2>1, <2>2 DEF SpawnExecutor
<1>2. ASSUME NEW e \in Executors, Task(e) PROVE TreesTypes'
    <2>1. branch' \in [Executors -> TreeBranches] /\ made' \subseteq CommitSet
        BY <1>2, NewValues, SavedTypes DEF Task
    <2> QED
        BY <1>2, <2>1 DEF Task
<1>3. ASSUME NEW e \in Executors, CommitSummary(e) PROVE TreesTypes'
    <2>1. branch' \in [Executors -> TreeBranches] /\ made' \subseteq CommitSet
        BY <1>3, NewValues, SavedTypes DEF CommitSummary
    <2>2. [tree[e] EXCEPT !.dirty = FALSE] \in Trees
        BY TreeValues
    <2>3. tree' = [tree EXCEPT ![e] = [tree[e] EXCEPT !.dirty = FALSE]]
        BY <1>3 DEF CommitSummary
    <2>4. tree' \in [Executors -> Trees]
        BY <2>2, <2>3
    <2>5. exec' = [exec EXCEPT ![e] = "summed"] /\ UNCHANGED <<wave, main, merging, boss, pruner, deleting>>
        BY <1>3 DEF CommitSummary
    <2> QED
        BY <2>1, <2>4, <2>5
<1>4. ASSUME NEW e \in Executors, WriteSummary(e) PROVE TreesTypes'
    <2>1. [tree[e] EXCEPT !.dirty = TRUE] \in Trees
        BY TreeValues
    <2>2. tree' = [tree EXCEPT ![e] = [tree[e] EXCEPT !.dirty = TRUE]]
        BY <1>4 DEF WriteSummary
    <2> QED
        BY <1>4, <2>1, <2>2 DEF WriteSummary
<1>5. ASSUME NEW e \in Executors, Finish(e) PROVE TreesTypes'
    BY <1>5 DEF Finish
<1>6. ASSUME NEW b \in Bosses, List(b) PROVE TreesTypes'
    BY <1>6 DEF List, Cleaner, Cleaners, OnTree
<1>7. ASSUME NEW b \in Bosses, NEW e \in Executors, Skip(b, e) \/ MergeFails(b, e) PROVE TreesTypes'
    <2>1. boss' \in [Bosses -> Cleaners] /\ \A c \in Bosses : boss'[c].at = boss[c].at /\ boss'[c].on = boss[c].on
        <3>1. \/ boss' = [boss EXCEPT ![b] = [boss[b] EXCEPT !.left = boss[b].left \ {e}]]
              \/ boss' = [boss EXCEPT ![b] = [boss[b] EXCEPT !.left = {}]]
            BY <1>7 DEF Skip, MergeFails
        <3>2. [boss[b] EXCEPT !.left = boss[b].left \ {e}] \in Cleaners /\ [boss[b] EXCEPT !.left = {}] \in Cleaners
            BY DEF Cleaners
        <3>3. boss' \in [Bosses -> Cleaners]
            BY <3>1, <3>2
        <3>4. \A c \in Bosses : boss'[c].at = boss[c].at /\ boss'[c].on = boss[c].on
            <4> SUFFICES ASSUME NEW c \in Bosses PROVE boss'[c].at = boss[c].at /\ boss'[c].on = boss[c].on
                OBVIOUS
            <4>1. CASE c = b
                BY <3>1, <4>1 DEF Cleaners
            <4>2. CASE c # b
                BY <3>1, <4>2
            <4> QED
                BY <4>1, <4>2
        <3> QED
            BY <3>3, <3>4
    <2>2. branch[e].has \subseteq CommitSet
        BY DEF TreeBranches
    <2>3. merging' \subseteq CommitSet
        BY <1>7, <2>2 DEF Skip, MergeFails
    <2> QED
        BY <1>7, <2>1, <2>3 DEF Skip, MergeFails
<1>8. ASSUME NEW b \in Bosses, NEW e \in Executors, MergeBranch(b, e) PROVE TreesTypes'
    <2>1. branch[e].has \subseteq CommitSet
        BY DEF TreeBranches
    <2> QED
        BY <1>8, <2>1 DEF MergeBranch, Merged, Cleaners, OnTree
<1>9. ASSUME NEW b \in Bosses, RescueSummary(b) PROVE TreesTypes'
    <2>1. boss[b].on \in Executors
        BY <1>9 DEF RescueSummary, OnTree
    <2>2. /\ boss' \in [Bosses -> Cleaners]
          /\ \A c \in Bosses : boss'[c].on = boss[c].on /\ (boss'[c].at \in OnTree => boss[c].at \in OnTree)
        <3>1. \/ boss' = [boss EXCEPT ![b] = [boss[b] EXCEPT !.at = "remerge"]]
              \/ boss' = [boss EXCEPT ![b] = [boss[b] EXCEPT !.at = "remove"]]
            BY <1>9 DEF RescueSummary
        <3>2. boss[b].at \in OnTree
            BY <1>9 DEF RescueSummary, OnTree
        <3>3. [boss[b] EXCEPT !.at = "remerge"] \in Cleaners /\ [boss[b] EXCEPT !.at = "remove"] \in Cleaners
            BY DEF Cleaners, OnTree
        <3>4. boss' \in [Bosses -> Cleaners]
            BY <3>1, <3>3
        <3>5. \A c \in Bosses : boss'[c].on = boss[c].on /\ (boss'[c].at \in OnTree => boss[c].at \in OnTree)
            <4> SUFFICES ASSUME NEW c \in Bosses
                         PROVE  boss'[c].on = boss[c].on /\ (boss'[c].at \in OnTree => boss[c].at \in OnTree)
                OBVIOUS
            <4>1. CASE c = b
                BY <3>1, <3>2, <4>1 DEF Cleaners
            <4>2. CASE c # b
                BY <3>1, <4>2
            <4> QED
                BY <4>1, <4>2
        <3> QED
            BY <3>4, <3>5
    <2>3. CASE tree[boss[b].on].dirty
        <3>1. branch' \in [Executors -> TreeBranches] /\ made' \subseteq CommitSet
            BY <1>9, <2>1, <2>3, NewValues, SavedTypes DEF RescueSummary
        <3>2. [tree[boss[b].on] EXCEPT !.dirty = FALSE] \in Trees
            BY <2>1, TreeValues
        <3>3. tree' = [tree EXCEPT ![boss[b].on] = [tree[boss[b].on] EXCEPT !.dirty = FALSE]]
            BY <1>9, <2>3 DEF RescueSummary
        <3> QED
            BY <1>9, <2>2, <3>1, <3>2, <3>3 DEF RescueSummary
    <2>4. CASE ~tree[boss[b].on].dirty
        BY <1>9, <2>2, <2>4 DEF RescueSummary
    <2> QED
        BY <2>3, <2>4
<1>10. ASSUME NEW b \in Bosses, MergeAgain(b) PROVE TreesTypes'
    <2>1. boss[b].on \in Executors
        BY <1>10 DEF MergeAgain, OnTree
    <2>2. branch[boss[b].on].has \subseteq CommitSet
        BY <2>1 DEF TreeBranches
    <2>3. main' \subseteq CommitSet
        BY <1>10, <2>2 DEF MergeAgain, Merged
    <2>4. /\ boss' \in [Bosses -> Cleaners]
          /\ \A c \in Bosses : boss'[c].on = boss[c].on /\ (boss'[c].at \in OnTree => boss[c].at \in OnTree)
        BY <1>10 DEF MergeAgain, Cleaners, OnTree
    <2> QED
        BY <1>10, <2>3, <2>4 DEF MergeAgain
<1>11. ASSUME NEW b \in Bosses, RemoveTree(b) PROVE TreesTypes'
    <2>1. boss' \in [Bosses -> Cleaners] /\ \A c \in Bosses : boss'[c].at \in OnTree => boss'[c] = boss[c]
        BY <1>11 DEF RemoveTree, Cleaners, OnTree
    <2> QED
        BY <1>11, <2>1, NewValues DEF RemoveTree
<1>12. ASSUME Resolve \/ UNCHANGED treeVars PROVE TreesTypes'
    BY <1>12 DEF Resolve, Merged, treeVars
<1>13. ASSUME PruneList PROVE TreesTypes'
    BY <1>13 DEF PruneList, Cleaner, Cleaners, OnTree
<1>14. ASSUME NEW e \in Executors, CheckMerged(e) PROVE TreesTypes'
    BY <1>14 DEF CheckMerged, Cleaners, OnTree
<1>15. ASSUME PruneTree PROVE TreesTypes'
    <2>1. pruner' \in Cleaners /\ pruner'.at \notin OnTree
        BY <1>15 DEF PruneTree, Cleaners, OnTree
    <2>2. branch' \in [Executors -> TreeBranches] /\ tree' \in [Executors -> Trees]
        BY <1>15, NewValues DEF PruneTree
    <2> QED
        BY <1>15, <2>1, <2>2 DEF PruneTree
<1> QED
    BY <1>1, <1>2, <1>3, <1>4, <1>5, <1>6, <1>7, <1>8, <1>9, <1>10, <1>11, <1>12, <1>13, <1>14, <1>15
    DEF TreesNext, Execute, CleanUp, PruneTrees

\* What a commit in the worktree of e does.
LEMMA SavedDoes ==
    ASSUME TreesTypes, NEW e \in Executors, NEW c \in CommitSet, NEW who, Saved(e, c, who)
    PROVE  /\ branch'[e].has = branch[e].has \cup {c} /\ branch'[e].there = branch[e].there
           /\ \A f \in Executors \ {e} : branch'[f] = branch[f]
           /\ made' = made \cup {c} /\ seen \subseteq seen'
           /\ Judged(e, who) => Happened("late")'
<1>1. branch' = [branch EXCEPT ![e] = [branch[e] EXCEPT !.has = branch[e].has \cup {c}]]
    BY DEF Saved
<1>2. branch[e] \in TreeBranches /\ branch \in [Executors -> TreeBranches]
    BY DEF TreesTypes
<1>3. branch'[e] = [branch[e] EXCEPT !.has = branch[e].has \cup {c}]
    BY <1>1, <1>2
<1>4. branch'[e].has = branch[e].has \cup {c} /\ branch'[e].there = branch[e].there
    BY <1>2, <1>3 DEF TreeBranches
<1> QED
    BY <1>1, <1>2, <1>4 DEF Saved, Happened

\* Exceptions once made stay made.
LEMMA ExceptionsStay ==
    ASSUME TreesInv, [TreesNext]_treeVars
    PROVE  /\ \A b \in Bosses : AloneWave(b)' => AloneWave(b) /\ WaveOf(b)
           /\ ~Happened("late")' /\ ~Happened("unrescued")' => LossOf
<1>1. \A what : Happened(what) => Happened(what)'
    BY TreesHistory DEF Happened
<1>2. wave' = wave
    BY TreesHistory
<1>3. \A b \in Bosses : AloneWave(b)' => AloneWave(b)
    BY <1>1, <1>2 DEF AloneWave
<1> QED
    BY <1>1, <1>3 DEF TreesInv, WaveInv, LossInv

\* A step that leaves the commits where they are, and makes no cleaner more sure.
LEMMA LossQuiet ==
    ASSUME TreesInv, [TreesNext]_treeVars, UNCHANGED <<branch, made>>, main \subseteq main',
           \A b \in Bosses : boss'[b].at \in {"rescue", "remove"} =>
               \/ boss'[b].on = boss[b].on /\ boss[b].at \in {"rescue", "remove"}
               \/ branch[boss'[b].on].has \subseteq main',
           pruner'.at = "remove" => pruner' = pruner \/ branch[pruner'.on].has \subseteq main'
    PROVE  LossInv'
<1> SUFFICES ASSUME ~Happened("late")', ~Happened("unrescued")' PROVE LossOf'
    BY DEF LossInv
<1>1. LossOf
    BY ExceptionsStay
<1> QED
    BY <1>1 DEF LossOf

\* An executor's commit.
LEMMA LossCommit ==
    ASSUME TreesInv, [TreesNext]_treeVars, NEW e \in Executors, NEW c \in CommitSet, NEW who,
           Saved(e, c, who), UNCHANGED <<main, pruner>>,
           \A b \in Bosses : boss'[b].at \in {"rescue", "remove"} => boss'[b] = boss[b] /\ b # who
    PROVE  LossInv'
<1> SUFFICES ASSUME ~Happened("late")', ~Happened("unrescued")' PROVE LossOf'
    BY DEF LossInv
<1>1. LossOf /\ TreesTypes
    BY ExceptionsStay DEF TreesInv
<1>2. /\ branch'[e].has = branch[e].has \cup {c}
      /\ \A f \in Executors \ {e} : branch'[f] = branch[f]
      /\ made' = made \cup {c} /\ ~Judged(e, who)
    BY <1>1, SavedDoes
<1>3. \A m \in made' : m \in main' \/ \E f \in Executors : m \in branch'[f].has
    BY <1>1, <1>2 DEF LossOf
<1>4. ASSUME NEW b \in Bosses, boss'[b].at \in {"rescue", "remove"}
      PROVE  branch'[boss'[b].on].has \subseteq main'
    <2>1. boss[b].on \in Executors /\ boss[b].on # e
        BY <1>1, <1>2, <1>4 DEF Judged, TreesTypes, OnTree
    <2> QED
        BY <1>1, <1>2, <1>4, <2>1 DEF LossOf
<1>5. pruner'.at = "remove" => branch'[pruner'.on].has \subseteq main'
    <2>1. pruner.at = "remove" => pruner.on \in Executors /\ pruner.on # e
        BY <1>1, <1>2 DEF Judged, TreesTypes, OnTree
    <2> QED
        BY <1>1, <1>2, <2>1 DEF LossOf
<1> QED
    BY <1>3, <1>4, <1>5 DEF LossOf

\* A worktree removed with its branch, which was merged.
LEMMA LossRemove ==
    ASSUME TreesInv, [TreesNext]_treeVars, NEW e \in Executors,
           branch' = branch \/ branch' = [branch EXCEPT ![e] = NoBranch],
           LossOf => branch[e].has \subseteq main, UNCHANGED <<main, made>>,
           \A b \in Bosses : boss'[b].at \in {"rescue", "remove"} => boss'[b] = boss[b],
           pruner'.at = "remove" => pruner' = pruner
    PROVE  LossInv'
<1> SUFFICES ASSUME ~Happened("late")', ~Happened("unrescued")' PROVE LossOf'
    BY DEF LossInv
<1>1. LossOf /\ TreesTypes
    BY ExceptionsStay DEF TreesInv
<1>2. \A f \in Executors : branch'[f].has = branch[f].has \/ (f = e /\ branch'[f].has = {})
    BY <1>1 DEF NoBranch, TreesTypes
<1>3. \A m \in made' : m \in main' \/ \E f \in Executors : m \in branch'[f].has
    BY <1>1, <1>2 DEF LossOf
<1>4. ASSUME NEW b \in Bosses, boss'[b].at \in {"rescue", "remove"}
      PROVE  branch'[boss'[b].on].has \subseteq main'
    BY <1>1, <1>2, <1>4 DEF LossOf, TreesTypes, OnTree
<1>5. pruner'.at = "remove" => branch'[pruner'.on].has \subseteq main'
    BY <1>1, <1>2 DEF LossOf, TreesTypes, OnTree
<1> QED
    BY <1>3, <1>4, <1>5 DEF LossOf

LEMMA LossStep ==
    ASSUME TreesInv, [TreesNext]_treeVars
    PROVE  LossInv'
<1>0. TreesTypes /\ BranchInv /\ (\A e \in Executors : Code(e) \in CommitSet /\ Summary(e) \in CommitSet)
    BY NewValues DEF TreesInv
<1>1. ASSUME NEW e \in Executors, SpawnExecutor(e) PROVE LossInv'
    <2> SUFFICES ASSUME ~Happened("late")', ~Happened("unrescued")' PROVE LossOf'
        BY DEF LossInv
    <2>1. LossOf
        BY ExceptionsStay
    <2>2. /\ branch' = [branch EXCEPT ![e] = [there |-> TRUE, has |-> main]]
          /\ UNCHANGED <<main, boss, pruner, made>> /\ exec[e] = "none"
        BY <1>1 DEF SpawnExecutor
    <2>3. /\ branch'[e].has = main /\ branch[e].has = {}
          /\ \A f \in Executors \ {e} : branch'[f] = branch[f]
        BY <1>0, <2>2 DEF BranchInv, TreesTypes
    <2>4. \A m \in made' : m \in main' \/ \E f \in Executors : m \in branch'[f].has
        BY <2>1, <2>2, <2>3 DEF LossOf
    <2>5. /\ \A b \in Bosses : boss[b].at \in {"rescue", "remove"} => boss[b].on \in Executors
          /\ pruner.at = "remove" => pruner.on \in Executors
        BY <1>0 DEF TreesTypes, OnTree
    <2> QED
        BY <2>1, <2>2, <2>3, <2>4, <2>5 DEF LossOf
<1>2. ASSUME NEW e \in Executors, Task(e) \/ CommitSummary(e) PROVE LossInv'
    <2>1. UNCHANGED <<main, boss, pruner>> /\ e \notin Bosses
        BY <1>2, ActorAssumption DEF Task, CommitSummary
    <2>2. Saved(e, Code(e), e) \/ Saved(e, Summary(e), e)
        BY <1>2 DEF Task, CommitSummary
    <2> QED
        BY <1>0, <2>1, <2>2, LossCommit
<1>3. ASSUME NEW e \in Executors, WriteSummary(e) \/ Finish(e) PROVE LossInv'
    <2>1. UNCHANGED <<branch, made, main, boss, pruner>>
        BY <1>3 DEF WriteSummary, Finish
    <2> QED
        BY <2>1, LossQuiet
<1>4. ASSUME NEW b \in Bosses, List(b) PROVE LossInv'
    <2>1. UNCHANGED <<branch, made, main, pruner>>
          /\ \A c \in Bosses : c # b => boss'[c] = boss[c]
        BY <1>0, <1>4 DEF List, TreesTypes
    <2>2. boss'[b].at = "next"
        BY <1>0, <1>4 DEF List, TreesTypes, Cleaner
    <2> QED
        BY <2>1, <2>2, LossQuiet
<1>5. ASSUME NEW b \in Bosses, NEW e \in Executors, Skip(b, e) \/ MergeFails(b, e) PROVE LossInv'
    <2>1. UNCHANGED <<branch, made, main, pruner>> /\ boss[b].at = "next"
          /\ \A c \in Bosses : c # b => boss'[c] = boss[c]
        BY <1>0, <1>5 DEF Skip, MergeFails, TreesTypes
    <2>2. boss'[b].at = "next"
        <3>1. \/ boss' = [boss EXCEPT ![b] = [boss[b] EXCEPT !.left = boss[b].left \ {e}]]
              \/ boss' = [boss EXCEPT ![b] = [boss[b] EXCEPT !.left = {}]]
            BY <1>5 DEF Skip, MergeFails
        <3> QED
            BY <1>0, <2>1, <3>1 DEF TreesTypes, Cleaners
    <2> QED
        BY <2>1, <2>2, LossQuiet
<1>6. ASSUME NEW b \in Bosses, NEW e \in Executors, MergeBranch(b, e) PROVE LossInv'
    <2>1. UNCHANGED <<branch, made, pruner>> /\ main' = main \cup branch[e].has
          /\ \A c \in Bosses : c # b => boss'[c] = boss[c]
        BY <1>0, <1>6 DEF MergeBranch, Merged, TreesTypes
    <2>2. boss'[b].on = e
        BY <1>0, <1>6 DEF MergeBranch, TreesTypes
    <2> QED
        BY <2>1, <2>2, LossQuiet
<1>7. ASSUME NEW b \in Bosses, RescueSummary(b) PROVE LossInv'
    <2>1. boss[b].on \in Executors /\ boss[b].at = "rescue" /\ UNCHANGED <<main, pruner>>
        BY <1>0, <1>7 DEF RescueSummary, TreesTypes, OnTree
    <2>2. \A c \in Bosses : c # b => boss'[c] = boss[c]
        BY <1>0, <1>7 DEF RescueSummary, TreesTypes
    <2>3. CASE tree[boss[b].on].dirty
        <3>1. boss' = [boss EXCEPT ![b] = [boss[b] EXCEPT !.at = "remerge"]]
              /\ Saved(boss[b].on, Summary(boss[b].on), b)
            BY <1>7, <2>3 DEF RescueSummary
        <3>2. boss'[b].at = "remerge"
            BY <1>0, <3>1 DEF TreesTypes, Cleaners
        <3> QED
            BY <1>0, <2>1, <2>2, <3>1, <3>2, LossCommit
    <2>4. CASE ~tree[boss[b].on].dirty
        <3>1. boss' = [boss EXCEPT ![b] = [boss[b] EXCEPT !.at = "remove"]] /\ UNCHANGED <<branch, made>>
            BY <1>7, <2>4 DEF RescueSummary
        <3>2. boss'[b].on = boss[b].on
            BY <1>0, <3>1 DEF TreesTypes, Cleaners
        <3> QED
            BY <2>1, <2>2, <3>1, <3>2, LossQuiet
    <2> QED
        BY <2>3, <2>4
<1>8. ASSUME NEW b \in Bosses, MergeAgain(b) PROVE LossInv'
    <2>1. boss[b].on \in Executors /\ UNCHANGED <<branch, made, pruner>>
          /\ boss' = [boss EXCEPT ![b] = [boss[b] EXCEPT !.at = "remove"]]
        BY <1>0, <1>8 DEF MergeAgain, TreesTypes, OnTree
    <2>2. (\A c \in Bosses : c # b => boss'[c] = boss[c]) /\ boss'[b].on = boss[b].on
        BY <1>0, <2>1 DEF TreesTypes, Cleaners
    <2>3. CASE merging = {} /\ branch[boss[b].on].there
        <3>1. main' = main \cup branch[boss[b].on].has
            BY <1>8, <2>3 DEF MergeAgain, Merged
        <3> QED
            BY <2>1, <2>2, <3>1, LossQuiet
    <2>4. CASE ~(merging = {} /\ branch[boss[b].on].there)
        <3>1. Happened("unrescued")'
            BY <1>8, <2>1, <2>4 DEF MergeAgain, Happened
        <3> QED
            BY <3>1 DEF LossInv
    <2> QED
        BY <2>3, <2>4
<1>9. ASSUME NEW b \in Bosses, RemoveTree(b) PROVE LossInv'
    <2>1. boss[b].on \in Executors /\ boss[b].at = "remove" /\ UNCHANGED <<main, made, pruner>>
          /\ branch' = [branch EXCEPT ![boss[b].on] = NoBranch]
        BY <1>0, <1>9 DEF RemoveTree, TreesTypes, OnTree
    <2>2. \A c \in Bosses : boss'[c].at \in {"rescue", "remove"} => boss'[c] = boss[c]
        BY <1>0, <1>9 DEF RemoveTree, TreesTypes, Cleaners
    <2>3. LossOf => branch[boss[b].on].has \subseteq main
        BY <2>1 DEF LossOf
    <2> QED
        BY <2>1, <2>2, <2>3, LossRemove
<1>10. ASSUME Resolve \/ UNCHANGED treeVars PROVE LossInv'
    <2>1. UNCHANGED <<branch, made, boss, pruner>> /\ main \subseteq main'
        BY <1>10 DEF Resolve, Merged, treeVars
    <2> QED
        BY <2>1, LossQuiet
<1>11. ASSUME PruneList PROVE LossInv'
    <2>1. UNCHANGED <<branch, made, boss, main>> /\ pruner'.at = "check"
        BY <1>11 DEF PruneList, Cleaner
    <2> QED
        BY <2>1, LossQuiet
<1>12. ASSUME NEW e \in Executors, CheckMerged(e) PROVE LossInv'
    <2>1. UNCHANGED <<branch, made, boss, main>>
        BY <1>12 DEF CheckMerged
    <2>2. pruner'.at = "remove" => branch[pruner'.on].has \subseteq main
        BY <1>0, <1>12 DEF CheckMerged, TreesTypes, Cleaners
    <2> QED
        BY <2>1, <2>2, LossQuiet
<1>13. ASSUME PruneTree PROVE LossInv'
    <2>1. pruner.on \in Executors /\ pruner.at = "remove" /\ UNCHANGED <<main, made, boss>>
          /\ (branch' = branch \/ branch' = [branch EXCEPT ![pruner.on] = NoBranch])
        BY <1>0, <1>13 DEF PruneTree, TreesTypes, OnTree
    <2>2. pruner'.at = "check"
        BY <1>0, <1>13 DEF PruneTree, TreesTypes, Cleaners
    <2>3. LossOf => branch[pruner.on].has \subseteq main
        BY <2>1 DEF LossOf
    <2> QED
        BY <2>1, <2>2, <2>3, LossRemove
<1> QED
    BY <1>1, <1>2, <1>3, <1>4, <1>5, <1>6, <1>7, <1>8, <1>9, <1>10, <1>11, <1>12, <1>13
    DEF TreesNext, Execute, CleanUp, PruneTrees

LEMMA BranchStep ==
    ASSUME TreesInv, [TreesNext]_treeVars
    PROVE  BranchInv'
<1>0. TreesTypes /\ BranchInv /\ (\A e \in Executors : Code(e) \in CommitSet /\ Summary(e) \in CommitSet)
    BY NewValues DEF TreesInv
<1>1. ASSUME NEW e \in Executors, SpawnExecutor(e) PROVE BranchInv'
    <2>1. /\ branch' = [branch EXCEPT ![e] = [there |-> TRUE, has |-> main]]
          /\ tree' = [tree EXCEPT ![e] = [tree[e] EXCEPT !.there = TRUE]]
          /\ exec' = [exec EXCEPT ![e] = "work"] /\ UNCHANGED <<main, merging, made>>
        BY <1>1 DEF SpawnExecutor
    <2>2. branch'[e].has = main /\ tree'[e].there /\ exec'[e] = "work"
        BY <1>0, <2>1 DEF TreesTypes, Trees
    <2>3. \A f \in Executors \ {e} : branch'[f] = branch[f] /\ tree'[f] = tree[f] /\ exec'[f] = exec[f]
        BY <1>0, <2>1 DEF TreesTypes
    <2> QED
        BY <1>0, <2>1, <2>2, <2>3 DEF BranchInv
<1>2. ASSUME NEW e \in Executors, Task(e) \/ CommitSummary(e) PROVE BranchInv'
    <2>1. PICK c \in {Code(e), Summary(e)} : Saved(e, c, e)
        BY <1>2 DEF Task, CommitSummary
    <2>2. /\ branch'[e].has = branch[e].has \cup {c} /\ made' = made \cup {c}
          /\ \A f \in Executors \ {e} : branch'[f] = branch[f]
        BY <1>0, <2>1, SavedDoes
    <2>3. UNCHANGED <<main, merging>> /\ exec'[e] # "none"
          /\ \A f \in Executors \ {e} : tree'[f] = tree[f] /\ exec'[f] = exec[f]
        BY <1>0, <1>2 DEF Task, CommitSummary, TreesTypes
    <2>4. tree'[e].dirty => tree'[e].there
        <3>1. CASE Task(e)
            BY <1>0, <3>1 DEF Task, BranchInv
        <3>2. CASE CommitSummary(e)
            <4>1. tree' = [tree EXCEPT ![e] = [tree[e] EXCEPT !.dirty = FALSE]]
                BY <3>2 DEF CommitSummary
            <4> QED
                BY <1>0, <4>1 DEF TreesTypes, Trees
        <3> QED
            BY <1>2, <3>1, <3>2
    <2> QED
        BY <1>0, <2>2, <2>3, <2>4 DEF BranchInv
<1>3. ASSUME NEW e \in Executors, WriteSummary(e) PROVE BranchInv'
    <2>1. /\ tree' = [tree EXCEPT ![e] = [tree[e] EXCEPT !.dirty = TRUE]] /\ tree[e].there
          /\ exec' = [exec EXCEPT ![e] = "written"] /\ UNCHANGED <<branch, main, merging, made>>
        BY <1>3 DEF WriteSummary
    <2>2. tree'[e].there /\ exec'[e] = "written"
          /\ \A f \in Executors \ {e} : tree'[f] = tree[f] /\ exec'[f] = exec[f]
        BY <1>0, <2>1 DEF TreesTypes, Trees
    <2> QED
        BY <1>0, <2>1, <2>2 DEF BranchInv
<1>4. ASSUME NEW e \in Executors, Finish(e) PROVE BranchInv'
    <2>1. UNCHANGED <<tree, branch, main, merging, made>>
          /\ \A f \in Executors : exec'[f] = "none" => exec[f] = "none"
        BY <1>0, <1>4 DEF Finish, TreesTypes
    <2> QED
        BY <1>0, <2>1 DEF BranchInv
<1>5. ASSUME NEW b \in Bosses, NEW e \in Executors, Skip(b, e) \/ MergeFails(b, e) \/ MergeBranch(b, e)
      PROVE  BranchInv'
    <2>1. UNCHANGED <<tree, branch, exec, made>>
        BY <1>5 DEF Skip, MergeFails, MergeBranch
    <2>2. main \subseteq main' /\ main' \subseteq main \cup branch[e].has
          /\ merging' \subseteq merging \cup branch[e].has
        BY <1>5 DEF Skip, MergeFails, MergeBranch, Merged
    <2> QED
        BY <1>0, <2>1, <2>2 DEF BranchInv
<1>6. ASSUME NEW b \in Bosses, RescueSummary(b) PROVE BranchInv'
    <2> DEFINE e == boss[b].on
    <2>1. e \in Executors /\ UNCHANGED <<main, merging, exec>>
        BY <1>0, <1>6 DEF RescueSummary, TreesTypes, OnTree
    <2>2. CASE tree[e].dirty
        <3>1. Saved(e, Summary(e), b) /\ tree' = [tree EXCEPT ![e] = [tree[e] EXCEPT !.dirty = FALSE]]
            BY <1>6, <2>2 DEF RescueSummary
        <3> HIDE DEF e
        <3>2. /\ branch'[e].has = branch[e].has \cup {Summary(e)} /\ made' = made \cup {Summary(e)}
              /\ \A f \in Executors \ {e} : branch'[f] = branch[f]
            BY <1>0, <2>1, <3>1, SavedDoes
        <3>3. ~tree'[e].dirty /\ \A f \in Executors \ {e} : tree'[f] = tree[f]
            BY <1>0, <2>1, <3>1 DEF TreesTypes, Trees
        <3>4. exec[e] # "none"
            BY <1>0, <2>1, <2>2 DEF BranchInv
        <3> QED
            BY <1>0, <2>1, <3>2, <3>3, <3>4 DEF BranchInv
    <2>3. CASE ~tree[e].dirty
        <3>1. UNCHANGED <<tree, branch, made>>
            BY <1>6, <2>3 DEF RescueSummary
        <3> QED
            BY <1>0, <2>1, <3>1 DEF BranchInv
    <2> QED
        BY <2>2, <2>3
<1>7. ASSUME NEW b \in Bosses, List(b) \/ MergeAgain(b) PROVE BranchInv'
    <2>1. UNCHANGED <<tree, branch, exec, made, merging>> /\ boss[b].at \in {"wait", "remerge"}
        BY <1>7 DEF List, MergeAgain
    <2>2. main \subseteq main' /\ (main' = main \/ \E e \in Executors : main' \subseteq main \cup branch[e].has)
        BY <1>0, <1>7 DEF List, MergeAgain, Merged, TreesTypes, OnTree
    <2> QED
        BY <1>0, <2>1, <2>2 DEF BranchInv
<1>8. ASSUME (\E b \in Bosses : RemoveTree(b)) \/ PruneTree PROVE BranchInv'
    <2>1. PICK e \in Executors : /\ tree' = [tree EXCEPT ![e] = NoTree]
                                 /\ branch' = branch \/ branch' = [branch EXCEPT ![e] = NoBranch]
        BY <1>0, <1>8 DEF RemoveTree, PruneTree, TreesTypes, OnTree
    <2>2. UNCHANGED <<main, merging, exec, made>>
        BY <1>8 DEF RemoveTree, PruneTree
    <2>3. ~tree'[e].dirty /\ ~tree'[e].there /\ \A f \in Executors \ {e} : tree'[f] = tree[f]
        BY <1>0, <2>1 DEF TreesTypes, NoTree
    <2>4. \A f \in Executors : branch'[f].has \in {branch[f].has, {}}
        BY <1>0, <2>1 DEF TreesTypes, NoBranch
    <2> QED
        BY <1>0, <2>1, <2>2, <2>3, <2>4 DEF BranchInv
<1>9. ASSUME Resolve \/ PruneList \/ (\E e \in Executors : CheckMerged(e)) \/ UNCHANGED treeVars
      PROVE  BranchInv'
    <2>1. UNCHANGED <<tree, branch, exec, made>> /\ main \subseteq main'
          /\ main' \cup merging' \subseteq main \cup merging
        BY <1>9 DEF Resolve, PruneList, CheckMerged, Merged, treeVars
    <2> QED
        BY <1>0, <2>1 DEF BranchInv
<1> QED
    BY <1>1, <1>2, <1>3, <1>4, <1>5, <1>6, <1>7, <1>8, <1>9 DEF TreesNext, Execute, CleanUp, PruneTrees

\* A step that leaves the orchestrator b and what it counts on as they are.
LEMMA WaveQuiet ==
    ASSUME NEW b \in Bosses, WaveOf(b), UNCHANGED <<boss, pruner, merging, tree, branch, deleting>>,
           main \subseteq main',
           \A e \in Executors : exec'[e] = exec[e] \/ (exec'[e] = "failed" /\ exec[e] # "none")
    PROVE  WaveOf(b)'
BY DEF WaveOf, Stands, Ready, Landed

\* A step of an executor that works, while its orchestrator waits.
LEMMA WaveWorks ==
    ASSUME NEW b \in Bosses, WaveOf(b), boss[b].at = "wait", NEW e \in Executors,
           UNCHANGED <<boss, pruner, merging, main>>, Ready(e)',
           \A f \in Executors \ {e} : tree'[f] = tree[f] /\ branch'[f] = branch[f] /\ exec'[f] = exec[f]
    PROVE  WaveOf(b)'
<1>1. \A f \in Executors : exec[f] # "none" => Ready(f)
    BY DEF WaveOf, Stands, OnTree
<1>2. \A f \in Executors : exec'[f] # "none" => Ready(f)'
    BY <1>1 DEF Ready
<1> QED
    BY <1>2 DEF WaveOf, Stands, OnTree

LEMMA WaveStep ==
    ASSUME TreesInv, [TreesNext]_treeVars, NEW b \in Bosses, AloneWave(b)'
    PROVE  WaveOf(b)'
<1>0. /\ TreesTypes /\ BranchInv /\ WaveOf(b) /\ AloneWave(b) /\ deleting' = deleting
      /\ \A e \in Executors : wave[e] = b
      /\ \A e \in Executors : Code(e) \in CommitSet /\ Summary(e) \in CommitSet
    BY ExceptionsStay, TreesHistory, NewValues DEF TreesInv, AloneWave
<1>a. \A c \in Bosses : boss[c].at # "wait" => c = b
    BY <1>0 DEF WaveOf
<1>b. ASSUME NEW e \in Executors, exec[e] \notin {"returned", "failed"} PROVE boss[b].at = "wait"
    BY <1>0, <1>b DEF WaveOf
<1>c. ASSUME NEW e \in Executors, boss[b].at = "wait", exec[e] # "none" PROVE Ready(e)
    BY <1>0, <1>c DEF WaveOf, Stands, OnTree
<1>1. ASSUME NEW e \in Executors, SpawnExecutor(e) PROVE WaveOf(b)'
    <2>1. /\ branch' = [branch EXCEPT ![e] = [there |-> TRUE, has |-> main]]
          /\ tree' = [tree EXCEPT ![e] = [tree[e] EXCEPT !.there = TRUE]]
          /\ exec' = [exec EXCEPT ![e] = "work"] /\ UNCHANGED <<main, merging, boss, pruner>>
          /\ exec[e] = "none"
        BY <1>1 DEF SpawnExecutor
    <2>2. branch'[e].there /\ tree'[e].there /\ exec'[e] = "work"
        BY <1>0, <2>1 DEF TreesTypes, Trees
    <2>3. \A f \in Executors \ {e} : branch'[f] = branch[f] /\ tree'[f] = tree[f] /\ exec'[f] = exec[f]
        BY <1>0, <2>1 DEF TreesTypes
    <2>4. Ready(e)'
        BY <2>2 DEF Ready
    <2> QED
        BY <1>0, <1>b, <2>1, <2>3, <2>4, WaveWorks
<1>2. ASSUME NEW e \in Executors, Task(e) PROVE WaveOf(b)'
    <2>1. exec[e] = "work" /\ exec'[e] = "coded" /\ UNCHANGED <<tree, main, merging, boss, pruner>>
          /\ \A f \in Executors \ {e} : exec'[f] = exec[f]
        BY <1>0, <1>2 DEF Task, TreesTypes
    <2>2. /\ branch'[e].has = branch[e].has \cup {Code(e)} /\ branch'[e].there = branch[e].there
          /\ \A f \in Executors \ {e} : branch'[f] = branch[f]
        BY <1>0, <1>2, SavedDoes DEF Task
    <2>3. boss[b].at = "wait" /\ Ready(e)
        BY <1>b, <1>c, <2>1
    <2>4. Ready(e)'
        BY <2>1, <2>2, <2>3 DEF Ready
    <2> QED
        BY <1>0, <2>1, <2>2, <2>3, <2>4, WaveWorks
<1>3. ASSUME NEW e \in Executors, WriteSummary(e) PROVE WaveOf(b)'
    <2>1. /\ tree' = [tree EXCEPT ![e] = [tree[e] EXCEPT !.dirty = TRUE]] /\ exec[e] = "coded"
          /\ exec' = [exec EXCEPT ![e] = "written"] /\ UNCHANGED <<branch, main, merging, boss, pruner>>
        BY <1>3 DEF WriteSummary
    <2>2. tree'[e].there = tree[e].there /\ tree'[e].dirty /\ exec'[e] = "written"
          /\ \A f \in Executors \ {e} : tree'[f] = tree[f] /\ exec'[f] = exec[f]
        BY <1>0, <2>1 DEF TreesTypes, Trees
    <2>3. boss[b].at = "wait" /\ Ready(e)
        BY <1>b, <1>c, <2>1
    <2>4. Ready(e)'
        BY <2>1, <2>2, <2>3 DEF Ready
    <2> QED
        BY <1>0, <2>1, <2>2, <2>3, <2>4, WaveWorks
<1>4. ASSUME NEW e \in Executors, CommitSummary(e) PROVE WaveOf(b)'
    <2>1. /\ tree' = [tree EXCEPT ![e] = [tree[e] EXCEPT !.dirty = FALSE]] /\ exec[e] = "written"
          /\ exec' = [exec EXCEPT ![e] = "summed"] /\ UNCHANGED <<main, merging, boss, pruner>>
          /\ Saved(e, Summary(e), e)
        BY <1>4 DEF CommitSummary
    <2>2. tree'[e].there = tree[e].there /\ exec'[e] = "summed"
          /\ \A f \in Executors \ {e} : tree'[f] = tree[f] /\ exec'[f] = exec[f]
        BY <1>0, <2>1 DEF TreesTypes, Trees
    <2>3. boss[b].at = "wait" /\ Ready(e)
        BY <1>b, <1>c, <2>1
    <2>4. /\ branch'[e].has = branch[e].has \cup {Summary(e)} /\ branch'[e].there = branch[e].there
          /\ \A f \in Executors \ {e} : branch'[f] = branch[f]
        BY <1>0, <2>1, SavedDoes
    <2>5. Ready(e)'
        BY <2>1, <2>2, <2>3, <2>4 DEF Ready
    <2> QED
        BY <1>0, <2>1, <2>2, <2>3, <2>4, <2>5, WaveWorks
<1>5. ASSUME NEW e \in Executors, Finish(e) PROVE WaveOf(b)'
    <2>1. /\ \/ exec[e] \in {"written", "summed"} /\ exec'[e] = "returned"
             \/ exec[e] \in {"work", "coded"} /\ exec'[e] = "failed"
          /\ \A f \in Executors \ {e} : exec'[f] = exec[f]
          /\ UNCHANGED <<tree, branch, main, merging, boss, pruner>>
        BY <1>0, <1>5 DEF Finish, TreesTypes
    <2>2. boss[b].at = "wait" /\ Ready(e)
        BY <1>b, <1>c, <2>1
    <2>3. Ready(e)'
        BY <2>1, <2>2 DEF Ready
    <2> QED
        BY <1>0, <2>1, <2>2, <2>3, WaveWorks
<1>6. ASSUME NEW c \in Bosses, List(c) PROVE WaveOf(b)'
    <2>1. c = b /\ boss[b].at = "wait" /\ \A e \in Executors : exec[e] \in {"returned", "failed"}
        BY <1>0, <1>6 DEF List
    <2>2. /\ boss' = [boss EXCEPT ![b] =
                        [Cleaner("next") EXCEPT !.left = {e \in Executors : tree[e].there}]]
          /\ UNCHANGED <<exec, tree, branch, main, merging, pruner>>
        BY <1>6, <2>1 DEF List
    <2>3. /\ boss'[b].at = "next" /\ boss'[b].left = {e \in Executors : tree[e].there}
          /\ \A d \in Bosses : d # b => boss'[d] = boss[d]
        BY <1>0, <2>2 DEF TreesTypes, Cleaner
    <2>4. \A e \in Executors : Ready(e)' /\ e \in boss'[b].left
        BY <1>c, <2>1, <2>2, <2>3 DEF Ready
    <2> QED
        BY <1>0, <2>1, <2>2, <2>3, <2>4 DEF WaveOf, Stands, OnTree
<1>7. ASSUME NEW c \in Bosses, NEW e \in Executors, Skip(c, e) PROVE WaveOf(b)'
    <2>1. c = b /\ boss[b].at = "next" /\ e \in boss[b].left /\ \A f \in Executors : exec[f] \in {"returned", "failed"}
        BY <1>0, <1>a, <1>7 DEF Skip, WaveOf
    <2>2. /\ boss' = [boss EXCEPT ![b] = [boss[b] EXCEPT !.left = boss[b].left \ {e}]]
          /\ UNCHANGED <<exec, tree, branch, main, merging, pruner>>
        BY <1>7, <2>1 DEF Skip
    <2>3. boss'[b].at = "next" /\ boss'[b].left = boss[b].left \ {e}
          /\ \A d \in Bosses : d # b => boss'[d] = boss[d]
        BY <1>0, <2>1, <2>2 DEF TreesTypes, Cleaners
    <2>4. Ready(e)
        BY <1>0, <2>1 DEF WaveOf, Stands, OnTree
    <2>5. e \in deleting
        <3>1. PICK f \in deleting : Code(f) \in branch[e].has \ main
            BY <1>7, <2>4 DEF Skip, Deletes, Ready
        <3>2. Code(f) \in {Code(e), Summary(e)}
            BY <1>0, <3>1 DEF BranchInv
        <3> QED
            BY <3>1, <3>2 DEF Code, Summary
    <2>6. ASSUME NEW f \in Executors PROVE Stands(b, f)'
        <3>1. Stands(b, f)
            BY <1>0, <2>1 DEF WaveOf
        <3> QED
            BY <1>0, <2>1, <2>2, <2>3, <2>5, <3>1 DEF Stands, Ready, Landed, OnTree
    <2> QED
        BY <1>0, <2>1, <2>2, <2>3, <2>6 DEF WaveOf, OnTree
<1>8. ASSUME NEW c \in Bosses, NEW e \in Executors, MergeFails(c, e) PROVE WaveOf(b)'
    <2>1. Happened("conflict")'
        BY <1>8 DEF MergeFails, Happened
    <2> QED
        BY <2>1 DEF AloneWave
<1>9. ASSUME NEW c \in Bosses, NEW e \in Executors, MergeBranch(c, e) PROVE WaveOf(b)'
    <2>1. c = b /\ boss[b].at = "next" /\ e \in boss[b].left /\ \A f \in Executors : exec[f] \in {"returned", "failed"}
        BY <1>0, <1>a, <1>9 DEF MergeBranch, WaveOf
    <2>2. /\ boss' = [boss EXCEPT ![b] = [at |-> "rescue", left |-> boss[b].left \ {e}, on |-> e]]
          /\ main' = main \cup branch[e].has /\ UNCHANGED <<exec, tree, branch, merging, pruner>>
        BY <1>9, <2>1 DEF MergeBranch, Merged
    <2>3. boss'[b].at = "rescue" /\ boss'[b].left = boss[b].left \ {e} /\ boss'[b].on = e
          /\ \A d \in Bosses : d # b => boss'[d] = boss[d]
        BY <1>0, <2>2 DEF TreesTypes
    <2>4. Ready(e)' /\ branch'[e].has \subseteq main'
        BY <1>0, <2>1, <2>2 DEF WaveOf, Stands, OnTree, Ready
    <2>5. ASSUME NEW f \in Executors PROVE Stands(b, f)'
        <3>1. Stands(b, f)
            BY <1>0, <2>1 DEF WaveOf
        <3>2. CASE f = e
            BY <2>3, <2>4, <3>2 DEF Stands
        <3>3. CASE f # e /\ f \in boss[b].left
            <4>1. Ready(f)'
                BY <2>1, <2>2, <3>1, <3>3 DEF Stands, OnTree, Ready
            <4> QED
                BY <2>3, <3>3, <4>1 DEF Stands
        <3>4. CASE f # e /\ f \notin boss[b].left
            <4>1. exec[f] = "returned" /\ f \notin deleting => Landed(f)
                BY <2>1, <3>1, <3>4 DEF Stands
            <4>2. Landed(f) => Landed(f)'
                BY <2>2 DEF Landed
            <4> QED
                BY <1>0, <2>2, <2>3, <3>4, <4>1, <4>2 DEF Stands, OnTree
        <3> QED
            BY <3>2, <3>3, <3>4
    <2> QED
        BY <1>0, <2>1, <2>2, <2>3, <2>5 DEF WaveOf, OnTree
<1>10. ASSUME NEW c \in Bosses, RescueSummary(c) PROVE WaveOf(b)'
    <2>0. c = b /\ boss[b].at = "rescue"
        BY <1>a, <1>10 DEF RescueSummary
    <2>e. PICK e \in Executors : e = boss[b].on
        BY <1>0, <2>0 DEF TreesTypes, OnTree
    <2>1. c = b /\ boss[b].at = "rescue" /\ e \notin boss[b].left
          /\ \A f \in Executors : exec[f] \in {"returned", "failed"}
        BY <1>0, <2>0, <2>e DEF WaveOf, OnTree
    <2>2. UNCHANGED <<exec, main, merging, pruner>>
        BY <1>10 DEF RescueSummary
    <2>3. Ready(e) /\ branch[e].has \subseteq main
        BY <1>0, <2>1, <2>e DEF WaveOf, Stands, OnTree
    <2>4. ASSUME NEW f \in Executors, f # e, tree'[f] = tree[f], branch'[f] = branch[f],
                 boss'[b].at \in {"remerge", "remove"}, boss'[b].left = boss[b].left, boss'[b].on = e
          PROVE  Stands(b, f)'
        <3>1. Stands(b, f)
            BY <1>0, <2>1 DEF WaveOf
        <3>2. \/ Ready(f) /\ f \in boss[b].left
              \/ f \notin boss[b].left /\ (exec[f] = "returned" /\ f \notin deleting => Landed(f))
            BY <2>1, <2>e, <2>4, <3>1 DEF Stands
        <3>3. (Ready(f) => Ready(f)') /\ (Landed(f) => Landed(f)')
            BY <2>2, <2>4 DEF Ready, Landed
        <3> QED
            BY <1>0, <2>2, <2>4, <3>2, <3>3 DEF Stands, OnTree
    <2>5. CASE tree[e].dirty
        <3>1. /\ Saved(e, Summary(e), b) /\ tree' = [tree EXCEPT ![e] = [tree[e] EXCEPT !.dirty = FALSE]]
              /\ boss' = [boss EXCEPT ![b] = [boss[b] EXCEPT !.at = "remerge"]]
            BY <1>10, <2>1, <2>e, <2>5 DEF RescueSummary
        <3>2. boss'[b].at = "remerge" /\ boss'[b].left = boss[b].left /\ boss'[b].on = e
              /\ \A d \in Bosses : d # b => boss'[d] = boss[d]
            BY <1>0, <2>e, <3>1 DEF TreesTypes, Cleaners
        <3>3. /\ branch'[e].has = branch[e].has \cup {Summary(e)} /\ branch'[e].there = branch[e].there
              /\ \A f \in Executors \ {e} : branch'[f] = branch[f] /\ tree'[f] = tree[f]
            BY <1>0, <2>2, <3>1, SavedDoes DEF TreesTypes
        <3>4. Stands(b, e)'
            BY <2>2, <2>3, <3>2, <3>3 DEF Stands, Ready
        <3>5. \A f \in Executors : Stands(b, f)'
            BY <2>4, <3>2, <3>3, <3>4
        <3> QED
            BY <1>0, <2>1, <2>2, <3>2, <3>5 DEF WaveOf, OnTree
    <2>6. CASE ~tree[e].dirty
        <3>1. /\ UNCHANGED <<tree, branch>>
              /\ boss' = [boss EXCEPT ![b] = [boss[b] EXCEPT !.at = "remove"]]
            BY <1>10, <2>1, <2>e, <2>6 DEF RescueSummary
        <3>2. boss'[b].at = "remove" /\ boss'[b].left = boss[b].left /\ boss'[b].on = e
              /\ \A d \in Bosses : d # b => boss'[d] = boss[d]
            BY <1>0, <2>e, <3>1 DEF TreesTypes, Cleaners
        <3>3. Stands(b, e)'
            BY <2>2, <2>3, <2>6, <3>1, <3>2 DEF Stands, Ready
        <3>4. \A f \in Executors : Stands(b, f)'
            BY <2>4, <3>1, <3>2, <3>3
        <3> QED
            BY <1>0, <2>1, <2>2, <3>2, <3>4 DEF WaveOf, OnTree
    <2> QED
        BY <2>5, <2>6
<1>11. ASSUME NEW c \in Bosses, MergeAgain(c) PROVE WaveOf(b)'
    <2> DEFINE e == boss[b].on
    <2>1. c = b /\ boss[b].at = "remerge" /\ e \notin boss[b].left
          /\ \A f \in Executors : exec[f] \in {"returned", "failed"}
        BY <1>0, <1>a, <1>11 DEF MergeAgain, WaveOf, OnTree
    <2>2. e \in Executors
        BY <1>0, <2>1 DEF TreesTypes, OnTree
    <2>3. branch[e].there /\ merging = {}
          /\ (exec[e] = "returned" => {Code(e), Summary(e)} \subseteq branch[e].has)
        BY <1>0, <2>1, <2>2 DEF WaveOf, Stands, OnTree
    <2>4. /\ main' = main \cup branch[e].has /\ UNCHANGED <<exec, tree, branch, merging, pruner>>
          /\ boss' = [boss EXCEPT ![b] = [boss[b] EXCEPT !.at = "remove"]]
        BY <1>11, <2>1, <2>3 DEF MergeAgain, Merged
    <2>5. boss'[b].at = "remove" /\ boss'[b].left = boss[b].left /\ boss'[b].on = e
          /\ \A d \in Bosses : d # b => boss'[d] = boss[d]
        BY <1>0, <2>4 DEF TreesTypes, Cleaners
    <2>6. ASSUME NEW f \in Executors PROVE Stands(b, f)'
        <3>1. Stands(b, f)
            BY <1>0, <2>1 DEF WaveOf
        <3>2. CASE f = e
            BY <2>3, <2>4, <2>5, <3>2 DEF Stands
        <3>3. CASE f # e
            <4>1. \/ Ready(f) /\ f \in boss[b].left
                  \/ f \notin boss[b].left /\ (exec[f] = "returned" /\ f \notin deleting => Landed(f))
                BY <2>1, <3>1, <3>3 DEF Stands
            <4>2. (Ready(f) => Ready(f)') /\ (Landed(f) => Landed(f)')
                BY <2>4 DEF Ready, Landed
            <4> QED
                BY <1>0, <2>4, <2>5, <3>3, <4>1, <4>2 DEF Stands, OnTree
        <3> QED
            BY <3>2, <3>3
    <2> QED
        BY <1>0, <2>1, <2>3, <2>4, <2>5, <2>6 DEF WaveOf, OnTree
<1>12. ASSUME NEW c \in Bosses, RemoveTree(c) PROVE WaveOf(b)'
    <2> DEFINE e == boss[b].on
    <2>1. c = b /\ boss[b].at = "remove" /\ e \notin boss[b].left
          /\ \A f \in Executors : exec[f] \in {"returned", "failed"}
        BY <1>0, <1>a, <1>12 DEF RemoveTree, WaveOf, OnTree
    <2>2. e \in Executors
        BY <1>0, <2>1 DEF TreesTypes, OnTree
    <2>3. exec[e] = "returned" => {Code(e), Summary(e)} \subseteq main
        BY <1>0, <2>1, <2>2 DEF WaveOf, Stands, OnTree
    <2>4. /\ tree' = [tree EXCEPT ![e] = NoTree] /\ branch' = [branch EXCEPT ![e] = NoBranch]
          /\ boss' = [boss EXCEPT ![b] = [boss[b] EXCEPT !.at = "next", !.on = NoOne]]
          /\ UNCHANGED <<exec, main, merging, pruner>>
        BY <1>12, <2>1 DEF RemoveTree
    <2>5. boss'[b].at = "next" /\ boss'[b].left = boss[b].left
          /\ \A d \in Bosses : d # b => boss'[d] = boss[d]
        BY <1>0, <2>4 DEF TreesTypes, Cleaners
    <2>6. ~tree'[e].there /\ ~branch'[e].there
          /\ \A f \in Executors \ {e} : tree'[f] = tree[f] /\ branch'[f] = branch[f]
        BY <1>0, <2>2, <2>4 DEF TreesTypes, NoTree, NoBranch
    <2>7. ASSUME NEW f \in Executors PROVE Stands(b, f)'
        <3>1. Stands(b, f)
            BY <1>0, <2>1 DEF WaveOf
        <3>2. CASE f = e
            BY <2>1, <2>3, <2>4, <2>5, <2>6, <3>2 DEF Stands, Landed, OnTree
        <3>3. CASE f # e
            <4>1. \/ Ready(f) /\ f \in boss[b].left
                  \/ f \notin boss[b].left /\ (exec[f] = "returned" /\ f \notin deleting => Landed(f))
                BY <2>1, <3>1, <3>3 DEF Stands
            <4>2. (Ready(f) => Ready(f)') /\ (Landed(f) => Landed(f)')
                BY <2>4, <2>6, <3>3 DEF Ready, Landed
            <4> QED
                BY <1>0, <2>4, <2>5, <4>1, <4>2 DEF Stands, OnTree
        <3> QED
            BY <3>2, <3>3
    <2> QED
        BY <1>0, <2>1, <2>4, <2>5, <2>7 DEF WaveOf, OnTree
<1>13. ASSUME Resolve \/ (\E e \in Executors : CheckMerged(e)) \/ PruneTree PROVE WaveOf(b)'
    BY <1>0, <1>13 DEF Resolve, CheckMerged, PruneTree, WaveOf
<1>14. ASSUME PruneList PROVE WaveOf(b)'
    <2>1. Happened("pruned")'
        BY <1>14 DEF PruneList, Happened
    <2> QED
        BY <2>1 DEF AloneWave
<1>15. CASE UNCHANGED treeVars
    BY <1>0, <1>15, WaveQuiet DEF treeVars
<1> QED
    BY <1>1, <1>2, <1>3, <1>4, <1>5, <1>6, <1>7, <1>8, <1>9, <1>10, <1>11, <1>12, <1>13, <1>14, <1>15
    DEF TreesNext, Execute, CleanUp, PruneTrees

LEMMA TreesStep == TreesInv /\ [TreesNext]_treeVars => TreesInv'
<1> SUFFICES ASSUME TreesInv, [TreesNext]_treeVars PROVE TreesInv'
    OBVIOUS
<1>1. TreesTypes'
    BY TreesTypesStep DEF TreesInv
<1>2. WaveInv'
    BY WaveStep DEF WaveInv
<1> QED
    BY <1>1, <1>2, BranchStep, LossStep DEF TreesInv

\* No commit of an executor is lost, whoever cleans up in between, but those
\* made too late and the rescued SUMMARY.md whose second merge failed; and a
\* wave that is alone lands the task of every plan that returned.
THEOREM ExecutedWorkLands == TreesSpec => []WorkLands
<1>1. TreesInv => WorkLands
    <2> SUFFICES ASSUME TreesInv PROVE WorkLands
        OBVIOUS
    <2>1. CommitsKept
        BY DEF TreesInv, LossInv, LossOf, CommitsKept
    <2>2. WaveLands
        <3> SUFFICES ASSUME NEW b \in Bosses, AloneWave(b), boss[b].at = "next", boss[b].left = {},
                            NEW e \in Executors, exec[e] = "returned", e \notin deleting
                     PROVE  Landed(e)
            BY DEF WaveLands, Landed
        <3>1. WaveOf(b)
            BY DEF TreesInv, WaveInv
        <3>2. Stands(b, e)
            BY <3>1 DEF WaveOf
        <3> QED
            BY <3>2 DEF Stands, OnTree
    <2> QED
        BY <2>1, <2>2 DEF WorkLands
<1> QED
    BY <1>1, TreesInitInv, TreesStep, PTL DEF TreesSpec

\* Only worktrees that exist have uncommitted work, and main and the merge in
\* progress hold commits that were made.
THEOREM TreesTyped == TreesSpec => []TreesTypeOK
<1>1. TreesInv => TreesTypeOK
    BY DEF TreesInv, TreesTypes, BranchInv, TreesTypeOK
<1> QED
    BY <1>1, TreesInitInv, TreesStep, PTL DEF TreesSpec

-----------------------------------------------------------------------------
(* The store of learnings. *)

FileRecords == [id : Nat, project : Projects, text : Texts, torn : BOOLEAN, old : BOOLEAN]
ReaderRecords == [at : {"off", "scan", "fill", "prune"}, project : Projects \cup {NoProject},
                  left : SUBSET (Texts \cup Nat), id : Nat]
Copying(r) == reader[r].at \in {"scan", "fill"}

\* The file that a session has opened and not yet written.
Opened(r, f) == f.id = reader[r].id /\ f.project = reader[r].project /\ f.torn

LearnTypes ==
    /\ notes \in [Projects -> SUBSET Texts] /\ store \subseteq FileRecords
    /\ reader \in [Readers -> ReaderRecords]
    /\ \A f, g \in store : f.id = g.id => f = g
    /\ \A r \in Readers : Copying(r) => reader[r].project \in Projects

\* The file that a session has opened stays torn and its own; while no two
\* copies of a project overlap, nothing with its hash becomes legible meanwhile.
LearnInv ==
    /\ LearnTypes /\ LearningsKept
    /\ \A r \in Readers : reader[r].at = "fill" => \E f \in store : Opened(r, f)
    /\ \A q, r \in Readers :
           reader[q].at = "fill" /\ reader[r].at = "fill" /\ reader[q].id = reader[r].id => q = r
    /\ ~twins => \A q, r \in Readers :
           Copying(q) /\ Copying(r) /\ reader[q].project = reader[r].project => q = r
    /\ ~twins => \A r \in Readers : reader[r].at = "fill" =>
           \A f \in store : Opened(r, f) => ~Stored(Hash(f))

LEMMA LearnInitInv == LearnInit => LearnInv
<1> SUFFICES ASSUME LearnInit PROVE LearnInv
    OBVIOUS
<1> USE NoteAssumption DEF LearnInit, AtRest
<1>1. LearnTypes
    BY DEF LearnTypes, ReaderRecords, Copying
<1>2. LearningsKept
    BY DEF LearningsKept, Legible
<1> QED
    BY <1>1, <1>2 DEF LearnInv, Copying

\* Files that are written, and that grow old.
LEMMA FileValues ==
    ASSUME NEW f \in FileRecords
    PROVE  /\ [f EXCEPT !.torn = FALSE] \in FileRecords /\ [f EXCEPT !.old = TRUE] \in FileRecords
           /\ [f EXCEPT !.torn = FALSE].id = f.id /\ Hash([f EXCEPT !.torn = FALSE]) = Hash(f)
           /\ ~[f EXCEPT !.torn = FALSE].torn
           /\ [f EXCEPT !.old = TRUE].id = f.id /\ Hash([f EXCEPT !.old = TRUE]) = Hash(f)
           /\ [f EXCEPT !.old = TRUE].torn = f.torn /\ [f EXCEPT !.old = TRUE].project = f.project
BY DEF FileRecords, Hash

\* A session that is no longer, or not yet, between its scan and its file.
LEMMA ReaderMoves ==
    ASSUME LearnInv, NEW r \in Readers, NEW x \in ReaderRecords, reader' = [reader EXCEPT ![r] = x],
           UNCHANGED <<notes, store>>, twins => twins',
           known' \subseteq known \cup {Hash(f) : f \in Legible},
           \/ x.at \in {"off", "prune"}
           \/ Copying(r) /\ x.at = "scan" /\ x.project = reader[r].project
    PROVE  LearnInv'
<1> USE DEF LearnInv, LearnTypes
<1>1. reader'[r] = x /\ \A q \in Readers : q # r => reader'[q] = reader[q]
    OBVIOUS
<1>2. \A q \in Readers : Copying(q)' => Copying(q) /\ reader'[q].project = reader[q].project
    BY <1>1 DEF Copying
<1>3. \A q \in Readers : reader'[q].at = "fill" => reader'[q] = reader[q] /\ q # r
    BY <1>1
<1>4. Legible' = Legible
    BY DEF Legible
<1>5. LearningsKept'
    BY <1>4 DEF LearningsKept
<1>6. LearnTypes'
    BY <1>2
<1> QED
    BY <1>2, <1>3, <1>4, <1>5, <1>6 DEF Opened, Stored

\* Legible files removed, with what is known of them.
LEMMA RemovedKeeps ==
    ASSUME LearnInv, NEW gone \in SUBSET Legible, Removed(gone), UNCHANGED <<notes, twins>>,
           reader' = reader
           \/ \E r \in Readers, x \in ReaderRecords :
                 reader' = [reader EXCEPT ![r] = x] /\ reader[r].at = "prune" /\ x.at \in {"off", "prune"}
    PROVE  LearnInv'
<1> USE DEF LearnInv, LearnTypes
<1>1. store' = store \ gone /\ known' = known \ {Hash(f) : f \in gone}
    BY DEF Removed
<1>2. Legible' = Legible \ gone
    BY <1>1 DEF Legible
<1>3. LearningsKept'
    BY <1>1, <1>2 DEF LearningsKept
<1>4. \A q \in Readers : Copying(q)' => reader'[q] = reader[q] /\ Copying(q)
    BY DEF Copying
<1>5. reader' \in [Readers -> ReaderRecords]
    OBVIOUS
<1>6. LearnTypes'
    BY <1>1, <1>4, <1>5
<1>7. \A q \in Readers, f \in store : Opened(q, f) => f \in store'
    BY <1>1 DEF Opened, Legible
<1>8. \A q \in Readers, f \in store : Copying(q)' /\ Opened(q, f) => Opened(q, f)'
    BY <1>4 DEF Opened
<1>9. \A q \in Readers, f \in store : Copying(q)' /\ Opened(q, f)' => Opened(q, f)
    BY <1>4 DEF Opened
<1>10. \A q \in Readers : reader'[q].at = "fill" => Copying(q)' /\ reader[q].at = "fill"
    BY <1>4 DEF Copying
<1>11. \A q \in Readers : reader'[q].at = "fill" => \E f \in store' : Opened(q, f)'
    BY <1>7, <1>8, <1>10
<1>12. \A hash : Stored(hash)' => Stored(hash)
    BY <1>2 DEF Stored
<1> QED
    BY <1>1, <1>3, <1>4, <1>6, <1>9, <1>10, <1>11, <1>12

LEMMA LearnStep == LearnInv /\ [LearnNext]_learnVars => LearnInv'
<1> SUFFICES ASSUME LearnInv, [LearnNext]_learnVars PROVE LearnInv'
    OBVIOUS
<1>0. LearnTypes /\ AtRest \in ReaderRecords
    BY DEF LearnInv, AtRest, ReaderRecords
<1>a. \A f \in store : f \in FileRecords
    BY <1>0 DEF LearnTypes
<1>1. ASSUME NEW r \in Readers, NEW p \in Projects, CopyBegins(r, p) PROVE LearnInv'
    <2> DEFINE x == [at |-> "scan", project |-> p, left |-> notes[p], id |-> 0]
    <2>1. /\ reader' = [reader EXCEPT ![r] = x] /\ UNCHANGED <<notes, store, known>>
          /\ twins' = (twins \/ \E q \in Readers : reader[q].project = p)
        BY <1>1 DEF CopyBegins
    <2>2. x \in ReaderRecords
        BY <1>0 DEF ReaderRecords, LearnTypes
    <2>3. reader'[r] = x /\ \A q \in Readers : q # r => reader'[q] = reader[q]
        BY <1>0, <2>1 DEF LearnTypes
    <2>4. Legible' = Legible
        BY <2>1 DEF Legible
    <2>5. LearnTypes'
        BY <1>0, <2>1, <2>2, <2>3 DEF LearnTypes, Copying
    <2>6. ~twins' => \A q \in Readers : q # r => reader'[q].project # p
        BY <2>1, <2>3
    <2>7. ASSUME ~twins', NEW q \in Readers, NEW s \in Readers, Copying(q)', Copying(s)',
                 reader'[q].project = reader'[s].project
          PROVE  q = s
        <3>1. CASE q = r \/ s = r
            BY <2>3, <2>6, <2>7, <3>1
        <3>2. CASE q # r /\ s # r
            BY <2>1, <2>3, <2>7, <3>2 DEF LearnInv, Copying
        <3> QED
            BY <3>1, <3>2
    <2>8. \A q \in Readers : reader'[q].at = "fill" => q # r /\ reader'[q] = reader[q]
        BY <2>3
    <2>9. \A q \in Readers : reader'[q].at = "fill" => \E f \in store' : Opened(q, f)'
        BY <2>1, <2>8 DEF LearnInv, Opened
    <2>10. \A q, s \in Readers : reader'[q].at = "fill" /\ reader'[s].at = "fill"
                                     /\ reader'[q].id = reader'[s].id => q = s
        BY <2>8 DEF LearnInv
    <2>11. ASSUME ~twins', NEW q \in Readers, reader'[q].at = "fill", NEW f \in store', Opened(q, f)'
           PROVE  ~Stored(Hash(f))'
        <3>1. ~twins /\ reader[q].at = "fill" /\ f \in store /\ Opened(q, f)
            BY <2>1, <2>8, <2>11 DEF Opened
        <3>2. ~Stored(Hash(f))
            BY <3>1 DEF LearnInv
        <3> QED
            BY <2>4, <3>2 DEF Stored
    <2>12. LearningsKept'
        BY <2>1, <2>4 DEF LearnInv, LearningsKept
    <2> QED
        BY <2>5, <2>7, <2>9, <2>10, <2>11, <2>12 DEF LearnInv
<1>2. ASSUME NEW r \in Readers, NEW t \in Texts, FoundDuplicate(r, t) PROVE LearnInv'
    <2>1. /\ UNCHANGED <<notes, store, twins>> /\ known' = known \cup {<<reader[r].project, t>>}
          /\ reader[r].at = "scan" /\ Stored(<<reader[r].project, t>>)
        BY <1>2 DEF FoundDuplicate
    <2>2. PICK x \in ReaderRecords :
              /\ reader' = [reader EXCEPT ![r] = x]
              /\ x.at = "off" \/ (x.at = "scan" /\ x.project = reader[r].project)
        <3>1. CASE reader[r].left \ {t} = {}
            <4>1. reader' = [reader EXCEPT ![r] = AtRest]
                BY <1>2, <3>1 DEF FoundDuplicate
            <4> QED
                BY <1>0, <4>1 DEF AtRest
        <3>2. CASE reader[r].left \ {t} # {}
            <4>1. reader' = [reader EXCEPT ![r] = [reader[r] EXCEPT !.left = reader[r].left \ {t}]]
                BY <1>2, <3>2 DEF FoundDuplicate
            <4>2. [reader[r] EXCEPT !.left = reader[r].left \ {t}] \in ReaderRecords
                BY <1>0 DEF ReaderRecords, LearnTypes
            <4> QED
                BY <1>0, <2>1, <4>1, <4>2 DEF LearnTypes, ReaderRecords
        <3> QED
            BY <3>1, <3>2
    <2>3. known' \subseteq known \cup {Hash(f) : f \in Legible}
        BY <2>1 DEF Stored
    <2> QED
        BY <2>1, <2>2, <2>3, ReaderMoves DEF Copying
<1>3. ASSUME NEW r \in Readers, NEW t \in Texts, OpenFile(r, t) PROVE LearnInv'
    <2>1. PICK id \in (1 .. MaxFiles) \ Ids :
              /\ store' = store \cup {[id |-> id, project |-> reader[r].project, text |-> t, torn |-> TRUE,
                                       old |-> FALSE]}
              /\ reader' = [reader EXCEPT ![r].at = "fill", ![r].id = id]
        BY <1>3 DEF OpenFile
    <2> DEFINE new == [id |-> id, project |-> reader[r].project, text |-> t, torn |-> TRUE, old |-> FALSE]
    <2>2. UNCHANGED <<notes, known, twins>> /\ reader[r].at = "scan" /\ ~Stored(<<reader[r].project, t>>)
        BY <1>3 DEF OpenFile
    <2>3. reader[r].project \in Projects
        BY <1>0, <2>2 DEF LearnTypes, Copying
    <2>4. /\ new \in FileRecords /\ new.id = id /\ new.torn /\ Hash(new) = <<reader[r].project, t>>
          /\ new.project = reader[r].project
        BY <2>3, NoteAssumption DEF FileRecords, Hash
    <2>5. \A f \in store : f.id # id
        BY DEF Ids
    <2> HIDE DEF new
    <2>6. store' = store \cup {new}
        BY <2>1 DEF new
    <2>7. Legible' = Legible
        BY <2>4, <2>6 DEF Legible
    <2>8. /\ reader'[r].at = "fill" /\ reader'[r].id = id /\ reader'[r].project = reader[r].project
          /\ reader' \in [Readers -> ReaderRecords]
          /\ \A q \in Readers : q # r => reader'[q] = reader[q]
        <3>1. reader' = [reader EXCEPT ![r] = [reader[r] EXCEPT !.at = "fill", !.id = id]]
            BY <2>1
        <3>a. reader[r] \in ReaderRecords /\ id \in Nat
            BY <1>0, NoteAssumption DEF LearnTypes
        <3>2. [reader[r] EXCEPT !.at = "fill", !.id = id] \in ReaderRecords
            BY <3>a DEF ReaderRecords
        <3> QED
            BY <1>0, <3>1, <3>2 DEF LearnTypes, ReaderRecords
    <2>9. LearnTypes'
        <3>1. store' \subseteq FileRecords
            BY <1>0, <2>4, <2>6 DEF LearnTypes
        <3>2. \A f, g \in store' : f.id = g.id => f = g
            BY <1>0, <2>4, <2>5, <2>6 DEF LearnTypes
        <3> QED
            BY <1>0, <2>2, <2>3, <2>8, <3>1, <3>2 DEF LearnTypes, Copying
    <2>10. \A q \in Readers : Copying(q)' => Copying(q) /\ reader'[q].project = reader[q].project
        BY <2>2, <2>8 DEF Copying
    <2>11. ASSUME NEW q \in Readers, reader'[q].at = "fill" PROVE \E f \in store' : Opened(q, f)'
        <3>1. CASE q = r
            BY <2>4, <2>6, <2>8, <3>1 DEF Opened
        <3>2. CASE q # r
            BY <2>6, <2>8, <2>11, <3>2 DEF LearnInv, Opened
        <3> QED
            BY <3>1, <3>2
    <2>12. ASSUME ~twins', NEW q \in Readers, reader'[q].at = "fill", NEW f \in store', Opened(q, f)'
           PROVE  ~Stored(Hash(f))'
        <3>1. CASE q = r
            <4>1. f = new
                BY <2>4, <2>5, <2>6, <2>8, <2>12, <3>1 DEF Opened
            <4> QED
                BY <2>2, <2>4, <2>7, <4>1 DEF Stored
        <3>2. CASE q # r
            <4>1. reader[q].at = "fill" /\ \E g \in store : Opened(q, g)
                BY <2>8, <2>12, <3>2 DEF LearnInv
            <4>2. PICK g \in store : Opened(q, g)
                BY <4>1
            <4>3. f = g
                BY <2>4, <2>5, <2>6, <2>8, <2>9, <2>12, <3>2, <4>2 DEF Opened, LearnTypes
            <4> QED
                BY <2>2, <2>7, <2>12, <4>1, <4>2, <4>3 DEF LearnInv, Stored
        <3> QED
            BY <3>1, <3>2
    <2>13. LearningsKept'
        BY <2>2, <2>7 DEF LearnInv, LearningsKept
    <2>14. ASSUME NEW q \in Readers, q # r, reader[q].at = "fill" PROVE reader[q].id # id
        BY <2>5, <2>14 DEF LearnInv, Opened
    <2>15. \A q, s \in Readers : reader'[q].at = "fill" /\ reader'[s].at = "fill"
                                     /\ reader'[q].id = reader'[s].id => q = s
        BY <2>8, <2>14 DEF LearnInv
    <2> QED
        BY <2>2, <2>9, <2>10, <2>11, <2>12, <2>13, <2>15 DEF LearnInv
<1>4. ASSUME NEW r \in Readers, FillFile(r) PROVE LearnInv'
    <2>1. PICK f \in store :
              /\ Opened(r, f) /\ store' = (store \ {f}) \cup {[f EXCEPT !.torn = FALSE]}
              /\ known' = known \cup {Hash(f)}
              /\ reader' = [reader EXCEPT ![r] = IF reader[r].left \ {f.text} = {} THEN AtRest
                              ELSE [reader[r] EXCEPT !.at = "scan", !.left = reader[r].left \ {f.text},
                                                     !.id = 0]]
        BY <1>4 DEF FillFile, Opened
    <2>2. UNCHANGED <<notes, twins>> /\ reader[r].at = "fill"
        BY <1>4 DEF FillFile
    <2>3. PICK new \in FileRecords : new = [f EXCEPT !.torn = FALSE]
        BY <1>a, FileValues
    <2>4. new.id = f.id /\ Hash(new) = Hash(f) /\ ~new.torn /\ f.torn /\ f.project = reader[r].project
        BY <1>a, <2>1, <2>3, FileValues DEF Opened
    <2>5. store' = (store \ {f}) \cup {new} /\ Legible' = Legible \cup {new}
        BY <2>1, <2>3, <2>4 DEF Legible
    <2>6. PICK x \in ReaderRecords :
              /\ reader' = [reader EXCEPT ![r] = x]
              /\ x.at = "off" \/ (x.at = "scan" /\ x.project = reader[r].project)
        <3>1. CASE reader[r].left \ {f.text} = {}
            <4>1. reader' = [reader EXCEPT ![r] = AtRest]
                BY <2>1, <3>1
            <4> QED
                BY <1>0, <4>1 DEF AtRest
        <3>2. CASE reader[r].left \ {f.text} # {}
            <4> DEFINE x == [reader[r] EXCEPT !.at = "scan", !.left = reader[r].left \ {f.text}, !.id = 0]
            <4>1. reader' = [reader EXCEPT ![r] = x]
                BY <2>1, <3>2
            <4>2. reader[r] \in ReaderRecords
                BY <1>0 DEF LearnTypes
            <4>3. x \in ReaderRecords /\ x.at = "scan" /\ x.project = reader[r].project
                BY <4>2 DEF ReaderRecords
            <4> QED
                BY <4>1, <4>3
        <3> QED
            BY <3>1, <3>2
    <2>7. /\ reader'[r] = x /\ \A q \in Readers : q # r => reader'[q] = reader[q]
          /\ reader' \in [Readers -> ReaderRecords]
        BY <1>0, <2>6 DEF LearnTypes
    <2>8. \A g, h \in store' : g.id = h.id => g = h
        BY <1>0, <2>4, <2>5 DEF LearnTypes
    <2>9. LearnTypes'
        BY <1>0, <2>2, <2>3, <2>5, <2>6, <2>7, <2>8 DEF LearnTypes, Copying
    <2>10. ASSUME NEW q \in Readers, reader'[q].at = "fill"
           PROVE  q # r /\ reader'[q] = reader[q] /\ reader[q].at = "fill" /\ reader[q].id # f.id
        BY <2>1, <2>2, <2>6, <2>7, <2>10 DEF LearnInv, Opened
    <2>11. ASSUME NEW q \in Readers, reader'[q].at = "fill" PROVE \E g \in store' : Opened(q, g)'
        <3>1. PICK g \in store : Opened(q, g)
            BY <2>10, <2>11 DEF LearnInv
        <3>2. g # f
            BY <2>10, <2>11, <3>1 DEF Opened
        <3> QED
            BY <2>5, <2>10, <2>11, <3>1, <3>2 DEF Opened
    <2>12. \A q \in Readers : Copying(q)' => Copying(q) /\ reader'[q].project = reader[q].project
        BY <2>2, <2>6, <2>7 DEF Copying
    <2>13. LearningsKept'
        <3>1. \A hash \in known' : \E g \in Legible' : Hash(g) = hash
            BY <2>1, <2>4, <2>5 DEF LearnInv, LearningsKept
        <3>2. ~twins => ~Stored(Hash(f))
            BY <2>1, <2>2 DEF LearnInv
        <3>3. ~twins' => \A g, h \in Legible' : Hash(g) = Hash(h) => g = h
            BY <2>2, <2>4, <2>5, <3>2 DEF LearnInv, LearningsKept, Stored
        <3> QED
            BY <3>1, <3>3 DEF LearningsKept
    <2>14. ASSUME ~twins', NEW q \in Readers, reader'[q].at = "fill", NEW g \in store', Opened(q, g)'
           PROVE  ~Stored(Hash(g))'
        <3>1. g # new /\ g \in store /\ Opened(q, g)
            BY <2>4, <2>5, <2>10, <2>14 DEF Opened
        <3>2. ~Stored(Hash(g))
            BY <2>2, <2>10, <2>14, <3>1 DEF LearnInv
        <3>3. reader[q].project # reader[r].project
            BY <2>2, <2>10, <2>14 DEF LearnInv, Copying
        <3>4. Hash(g) # Hash(f)
            BY <2>4, <3>1, <3>3 DEF Hash, Opened
        <3> QED
            BY <2>4, <2>5, <3>2, <3>4 DEF Stored
    <2> QED
        BY <2>2, <2>9, <2>10, <2>11, <2>12, <2>13, <2>14 DEF LearnInv
<1>5. ASSUME NEW r \in Readers, PruneBegins(r) \/ KillReader(r) PROVE LearnInv'
    <2>1. Ids \subseteq Nat
        BY <1>a DEF Ids, FileRecords
    <2>2. [AtRest EXCEPT !.at = "prune", !.left = Ids] \in ReaderRecords
        BY <2>1 DEF AtRest, ReaderRecords
    <2>3. PICK x \in ReaderRecords : reader' = [reader EXCEPT ![r] = x] /\ x.at \in {"off", "prune"}
        BY <1>0, <1>5, <2>2 DEF PruneBegins, KillReader, AtRest
    <2>4. UNCHANGED <<notes, store, known, twins>>
        BY <1>5 DEF PruneBegins, KillReader
    <2> QED
        BY <2>3, <2>4, ReaderMoves
<1>6. ASSUME NEW r \in Readers, NEW id \in 1 .. MaxFiles, PruneFile(r, id) PROVE LearnInv'
    <2>1. PICK x \in ReaderRecords : reader' = [reader EXCEPT ![r] = x] /\ x.at \in {"off", "prune"}
        <3>1. CASE reader[r].left \ {id} = {}
            BY <1>0, <1>6, <3>1 DEF PruneFile, AtRest
        <3>2. CASE reader[r].left \ {id} # {}
            <4>1. reader' = [reader EXCEPT ![r] = [reader[r] EXCEPT !.left = reader[r].left \ {id}]]
                BY <1>6, <3>2 DEF PruneFile
            <4>2. reader[r] \in ReaderRecords /\ reader[r].at = "prune"
                BY <1>0, <1>6 DEF LearnTypes, PruneFile
            <4>3. /\ [reader[r] EXCEPT !.left = reader[r].left \ {id}] \in ReaderRecords
                  /\ [reader[r] EXCEPT !.left = reader[r].left \ {id}].at = "prune"
                BY <4>2 DEF ReaderRecords
            <4> QED
                BY <4>1, <4>3
        <3> QED
            BY <3>1, <3>2
    <2> QED
        BY <1>6, <2>1, RemovedKeeps DEF PruneFile
<1>7. ASSUME NEW r \in Readers, NEW id \in 1 .. MaxFiles, Delete(r, id) PROVE LearnInv'
    <2>1. {f \in store : f.id = id} \subseteq Legible
        BY <1>0, <1>7 DEF Delete, Legible, LearnTypes
    <2> QED
        BY <1>7, <2>1, RemovedKeeps DEF Delete
<1>8. CASE GrowOld
    <2>1. store' = {[f EXCEPT !.old = TRUE] : f \in store} /\ UNCHANGED <<notes, reader, known, twins>>
        BY <1>8 DEF GrowOld
    <2>2. \A g \in store' : \E f \in store : /\ g = [f EXCEPT !.old = TRUE] /\ g \in FileRecords
                                             /\ g.id = f.id /\ Hash(g) = Hash(f) /\ g.torn = f.torn
                                             /\ g.project = f.project
        <3>1. SUFFICES ASSUME NEW g \in store'
                       PROVE  \E f \in store : /\ g = [f EXCEPT !.old = TRUE] /\ g \in FileRecords
                                               /\ g.id = f.id /\ Hash(g) = Hash(f) /\ g.torn = f.torn
                                               /\ g.project = f.project
            OBVIOUS
        <3>2. PICK f \in store : g = [f EXCEPT !.old = TRUE]
            BY <2>1
        <3> QED
            BY <1>a, <3>2, FileValues
    <2>3. \A f \in store : \E g \in store' : /\ g.id = f.id /\ Hash(g) = Hash(f) /\ g.torn = f.torn
                                             /\ g.project = f.project
        <3>1. SUFFICES ASSUME NEW f \in store
                       PROVE  \E g \in store' : /\ g.id = f.id /\ Hash(g) = Hash(f) /\ g.torn = f.torn
                                                /\ g.project = f.project
            OBVIOUS
        <3>2. [f EXCEPT !.old = TRUE] \in store'
            BY <2>1
        <3> QED
            BY <1>a, <3>2, FileValues
    <2>4. \A g, h \in store' : g.id = h.id => g = h
        <3>1. SUFFICES ASSUME NEW g \in store', NEW h \in store', g.id = h.id PROVE g = h
            OBVIOUS
        <3>2. PICK f \in store : g = [f EXCEPT !.old = TRUE] /\ g.id = f.id
            BY <2>2
        <3>3. PICK e \in store : h = [e EXCEPT !.old = TRUE] /\ h.id = e.id
            BY <2>2
        <3>4. e = f
            BY <1>0, <3>1, <3>2, <3>3 DEF LearnTypes
        <3> QED
            BY <3>2, <3>3, <3>4
    <2>5. \A hash : Stored(hash)' <=> Stored(hash)
        BY <2>2, <2>3 DEF Stored, Legible
    <2>6. LearningsKept'
        <3>1. \A hash \in known' : \E g \in Legible' : Hash(g) = hash
            <4>1. \A hash : (\E f \in Legible : Hash(f) = hash) => \E g \in Legible' : Hash(g) = hash
                BY <2>3 DEF Legible
            <4> QED
                BY <2>1, <4>1 DEF LearnInv, LearningsKept
        <3>2. ASSUME ~twins', NEW g \in Legible', NEW h \in Legible', Hash(g) = Hash(h) PROVE g = h
            <4>1. g \in store' /\ h \in store' /\ ~g.torn /\ ~h.torn
                BY DEF Legible
            <4>2. PICK f \in store : g = [f EXCEPT !.old = TRUE] /\ Hash(g) = Hash(f) /\ g.torn = f.torn
                BY <2>2, <4>1
            <4>3. PICK e \in store : h = [e EXCEPT !.old = TRUE] /\ Hash(h) = Hash(e) /\ h.torn = e.torn
                BY <2>2, <4>1
            <4>4. e \in Legible /\ f \in Legible
                BY <4>1, <4>2, <4>3 DEF Legible
            <4>5. e = f
                BY <2>1, <3>2, <4>2, <4>3, <4>4 DEF LearnInv, LearningsKept
            <4> QED
                BY <4>2, <4>3, <4>5
        <3> QED
            BY <3>1, <3>2 DEF LearningsKept
    <2>7. LearnTypes'
        BY <1>0, <2>1, <2>2, <2>4 DEF LearnTypes, Copying
    <2>8. ASSUME NEW r \in Readers, reader'[r].at = "fill" PROVE \E g \in store' : Opened(r, g)'
        <3>1. PICK f \in store : Opened(r, f)
            BY <2>1, <2>8 DEF LearnInv
        <3>2. PICK g \in store' : g.id = f.id /\ g.torn = f.torn /\ g.project = f.project
            BY <2>3
        <3> QED
            BY <2>1, <3>1, <3>2 DEF Opened
    <2>9. ASSUME ~twins', NEW r \in Readers, reader'[r].at = "fill", NEW g \in store', Opened(r, g)'
          PROVE  ~Stored(Hash(g))'
        BY <2>1, <2>2, <2>5, <2>9 DEF LearnInv, Opened
    <2> QED
        BY <2>1, <2>6, <2>7, <2>8, <2>9 DEF LearnInv, Copying
<1>9. CASE UNCHANGED learnVars
    BY <1>9 DEF LearnInv, LearnTypes, LearningsKept, learnVars, Copying, Opened, Stored, Legible
<1> QED
    BY <1>1, <1>2, <1>3, <1>4, <1>5, <1>6, <1>7, <1>8, <1>9 DEF LearnNext

\* Learnings.LearningsKept: what copy said is stored can be read until somebody
\* removes it, whatever sessions are killed in the middle of a file; and while
\* no two copies of a project overlap, each learning is in one file.
THEOREM LearningsStay == LearnSpec => []LearningsKept
<1>1. LearnInv => LearningsKept
    BY DEF LearnInv
<1> QED
    BY <1>1, LearnInitInv, LearnStep, PTL DEF LearnSpec

\* Every file of the store has an id of its own.
THEOREM LearnTyped == LearnSpec => []LearnTypeOK
<1>1. LearnInv => LearnTypeOK
    BY DEF LearnInv, LearnTypes, FileRecords, ReaderRecords, LearnTypeOK
<1> QED
    BY <1>1, LearnInitInv, LearnStep, PTL DEF LearnSpec

-----------------------------------------------------------------------------
(* The knowledge graph. *)

GraphFiles == [is : {"missing", "torn", "json"}, nodes : SUBSET Nodes, edges : Seq(Edge), field : Fields]

\* What graphify gave the last build that ended is what the snapshot has.
GraphInv ==
    /\ graph \in GraphFiles /\ shot \in GraphFiles /\ shot.is # "torn"
    /\ builder \in [at : {"off", "copy", "copying", "snapshot"}, out : GraphFiles]
    /\ built \in [count : 0 .. MaxBuilds, out : GraphFiles]
    /\ built.count # 0 => built.out.is = "json"
    /\ builder.at # "off" => builder.out.is = "json"
    /\ builder.at = "snapshot" => graph = builder.out
    /\ ends \in Seq(GraphFiles)
    /\ IF ends = <<>> THEN shot.is = "missing" ELSE shot = Last(ends)

LEMMA EdgeFields ==
    ASSUME NEW e \in Edge
    PROVE  /\ e.from \in Nodes /\ e.to \in Nodes /\ e.kind \in Kinds
           /\ e.tier \in {"AMBIGUOUS", "INFERRED", "EXTRACTED", "none"}
BY DEF Edge, Certainty

LEMMA EdgesOf ==
    ASSUME NEW g \in GraphFiles
    PROVE  /\ g.nodes \subseteq Nodes /\ g.edges \in Seq(Edge) /\ Len(g.edges) \in Nat
           /\ DOMAIN g.edges = 1 .. Len(g.edges)
           /\ \A i \in 1 .. Len(g.edges) : g.edges[i] \in Edge
           /\ ToSet(g.edges) = {g.edges[i] : i \in 1 .. Len(g.edges)}
           /\ ToSet(g.edges) \subseteq Edge
<1>1. g.nodes \subseteq Nodes /\ g.edges \in Seq(Edge)
    BY DEF GraphFiles
<1>2. PICK edges \in Seq(Edge) : edges = g.edges
    BY <1>1
<1>3. Len(edges) \in Nat /\ DOMAIN edges = 1 .. Len(edges)
    BY LenProperties
<1>4. \A i \in 1 .. Len(edges) : edges[i] \in Edge
    BY ElementOfSeq
<1> QED
    BY <1>1, <1>2, <1>3, <1>4 DEF ToSet

LEMMA ChangedFiles ==
    ASSUME NEW g \in GraphFiles
    PROVE  \A h \in Changed(g) : h \in GraphFiles /\ h.is = g.is
<1> DEFINE less(h) == h \in GraphFiles /\ h.is = g.is
<1>0. PICK edges \in Seq(Edge) : edges = g.edges
    BY EdgesOf
<1>1. less([g EXCEPT !.nodes = g.nodes \ {Dangling}])
    BY DEF GraphFiles
<1>2. ASSUME NEW s \in Seq(Edge) PROVE less([g EXCEPT !.edges = s])
    BY <1>2 DEF GraphFiles
<1>3. Reverse(edges) \in Seq(Edge)
    <2>1. Len(edges) \in Nat /\ \A i \in 1 .. Len(edges) : edges[(Len(edges) - i) + 1] \in Edge
        BY LenProperties, ElementOfSeq
    <2> QED
        BY <2>1, IsASeq DEF Reverse
<1>4. ASSUME NEW i \in DOMAIN edges PROVE RemoveAt(edges, i) \in Seq(Edge)
    <2>1. Len(edges) \in Nat /\ i \in 1 .. Len(edges)
        BY <1>4, LenProperties
    <2>2. \A k \in 1 .. i - 1 : edges[k] \in Edge
        BY <2>1, ElementOfSeq
    <2>3. \A k \in i + 1 .. Len(edges) : edges[k] \in Edge
        BY <2>1, ElementOfSeq
    <2>4. SubSeq(edges, 1, i - 1) \in Seq(Edge)
        BY <2>1, <2>2, SubSeqProperties
    <2>5. SubSeq(edges, i + 1, Len(edges)) \in Seq(Edge)
        BY <2>1, <2>3, SubSeqProperties
    <2> QED
        BY <2>4, <2>5, ConcatProperties DEF RemoveAt
<1>5. less(g)
    OBVIOUS
<1> HIDE DEF less
<1>6. less([g EXCEPT !.edges = Reverse(g.edges)])
    BY <1>0, <1>2, <1>3
<1>7. ASSUME NEW i \in DOMAIN g.edges PROVE less([g EXCEPT !.edges = RemoveAt(g.edges, i)])
    BY <1>0, <1>2, <1>4
<1>8. \A h \in Changed(g) : less(h)
    BY <1>1, <1>5, <1>6, <1>7 DEF Changed
<1> QED
    BY <1>8 DEF less

LEMMA GraphInitInv == GraphInit => GraphInv
<1>1. Nothing \in GraphFiles /\ Nothing.is = "missing"
    BY EmptySeq DEF Nothing, GraphFiles, Fields
<1> QED
    BY <1>1, BuildAssumption, EmptySeq DEF GraphInit, GraphInv

LEMMA GraphStep == GraphInv /\ [GraphNext]_graphVars => GraphInv'
<1> SUFFICES ASSUME GraphInv, [GraphNext]_graphVars PROVE GraphInv'
    OBVIOUS
<1> USE DEF GraphInv
<1>0. Nothing \in GraphFiles /\ HalfCopied \in GraphFiles
    BY EmptySeq DEF Nothing, HalfCopied, GraphFiles, Fields
<1>1. ASSUME NEW out \in IF built.count = 0 THEN FirstGraphs ELSE Changed(built.out), Build(out)
      PROVE  GraphInv'
    <2>1. out \in GraphFiles /\ out.is = "json"
        <3>1. CASE built.count = 0
            BY <3>1, BuildAssumption DEF GraphFiles
        <3>2. CASE built.count # 0
            BY <3>2, ChangedFiles
        <3> QED
            BY <3>1, <3>2
    <2>2. built.count + 1 \in 0 .. MaxBuilds
        BY <1>1, BuildAssumption DEF Build
    <2> QED
        BY <1>1, <2>1, <2>2 DEF Build
<1>2. CASE CopyStarts
    BY <1>0, <1>2 DEF CopyStarts
<1>3. CASE CopyEnds
    BY <1>3 DEF CopyEnds
<1>4. CASE WriteSnapshot
    <2>1. PICK out \in GraphFiles : out = builder.out /\ out = graph /\ out.is = "json"
        BY <1>4 DEF WriteSnapshot
    <2>2. shot' = out /\ ends' = Append(ends, out)
        BY <1>4, <2>1 DEF WriteSnapshot
    <2>3. ends' \in Seq(GraphFiles) /\ ends' # <<>> /\ Last(ends') = out
        <3>1. Len(ends) \in Nat
            BY LenProperties
        <3> QED
            BY <2>2, <3>1, AppendProperties DEF Last
    <2> QED
        BY <1>0, <1>4, <2>1, <2>2, <2>3 DEF WriteSnapshot
<1>5. CASE StopBuild
    BY <1>0, <1>5 DEF StopBuild
<1>6. CASE UNCHANGED graphVars
    BY <1>6 DEF graphVars
<1> QED
    BY <1>1, <1>2, <1>3, <1>4, <1>5, <1>6 DEF GraphNext

\* The first edge of a key stands for it, and no other.
LEMMA FirstsHave ==
    ASSUME NEW g \in GraphFiles
    PROVE  /\ Firsts(g) \subseteq ToSet(g.edges)
           /\ \A e \in ToSet(g.edges) : \E f \in Firsts(g) : Key(g, f) = Key(g, e)
           /\ \A e, f \in Firsts(g) : Key(g, e) = Key(g, f) => e = f
<1> DEFINE key(i) == Key(g, g.edges[i])
           first(i) == \A j \in 1 .. i - 1 : key(j) # key(i)
<1>1. Len(g.edges) \in Nat /\ ToSet(g.edges) = {g.edges[i] : i \in 1 .. Len(g.edges)}
    BY EdgesOf
<1>2. Firsts(g) = {g.edges[i] : i \in {k \in 1 .. Len(g.edges) : first(k)}}
    BY EdgesOf DEF Firsts
<1>3. ASSUME NEW i \in 1 .. Len(g.edges) PROVE \E k \in 1 .. Len(g.edges) : first(k) /\ key(k) = key(i)
    <2>1. PICK S : S = {k \in 1 .. Len(g.edges) : key(k) = key(i)}
        OBVIOUS
    <2>2. S \in SUBSET Nat /\ S # {}
        BY <1>1, <2>1
    <2>3. PICK m \in S : \A n \in S : m <= n
        BY <2>2, LeastNumber
    <2>4. m \in 1 .. Len(g.edges) /\ key(m) = key(i)
        BY <2>1
    <2>5. ASSUME NEW j \in 1 .. m - 1 PROVE key(j) # key(m)
        <3>1. j \in 1 .. Len(g.edges) /\ ~(m <= j)
            BY <1>1, <2>4
        <3> QED
            BY <2>1, <2>3, <2>4, <3>1
    <2> QED
        BY <2>4, <2>5
<1>4. ASSUME NEW i \in 1 .. Len(g.edges), NEW k \in 1 .. Len(g.edges), first(i), first(k), key(i) = key(k)
      PROVE  i = k
    <2>1. ~(i < k) /\ ~(k < i)
        BY <1>1, <1>4
    <2> QED
        BY <1>1, <2>1
<1> HIDE DEF first
<1>5. \A e \in ToSet(g.edges) : \E f \in Firsts(g) : Key(g, f) = Key(g, e)
    BY <1>1, <1>2, <1>3
<1>6. \A e, f \in Firsts(g) : Key(g, e) = Key(g, f) => e = f
    BY <1>2, <1>4
<1> QED
    BY <1>1, <1>2, <1>5, <1>6

\* The last edge of a diff key stands for it, and no other.
LEMMA LastsHave ==
    ASSUME NEW g \in GraphFiles
    PROVE  /\ \A e \in ToSet(g.edges) : \E f \in Lasts(g) : DiffKey(f) = DiffKey(e)
           /\ Lasts(g) \subseteq ToSet(g.edges)
           /\ \A e, f \in Lasts(g) : DiffKey(e) = DiffKey(f) => e = f
<1> DEFINE key(i) == DiffKey(g.edges[i])
           endmost(i) == \A j \in 1 .. Len(g.edges) : j > i => key(j) # key(i)
<1>1. Len(g.edges) \in Nat /\ ToSet(g.edges) = {g.edges[i] : i \in 1 .. Len(g.edges)}
    BY EdgesOf
<1>2. Lasts(g) = {g.edges[i] : i \in {k \in 1 .. Len(g.edges) : endmost(k)}}
    BY EdgesOf DEF Lasts, LastOfKey
<1>3. ASSUME NEW i \in 1 .. Len(g.edges) PROVE \E k \in 1 .. Len(g.edges) : endmost(k) /\ key(k) = key(i)
    <2>1. PICK S : S = {n \in 0 .. Len(g.edges) - 1 : key(Len(g.edges) - n) = key(i)}
        OBVIOUS
    <2>2. S \in SUBSET Nat /\ S # {}
        <3>1. Len(g.edges) - i \in 0 .. Len(g.edges) - 1 /\ Len(g.edges) - (Len(g.edges) - i) = i
            BY <1>1
        <3>2. Len(g.edges) - i \in S
            BY <2>1, <3>1
        <3>3. 0 .. Len(g.edges) - 1 \subseteq Nat
            BY <1>1
        <3> QED
            BY ONLY <2>1, <3>2, <3>3
    <2>3. PICK m \in S : \A n \in S : m <= n
        BY <2>2, LeastNumber
    <2>4. PICK k \in 1 .. Len(g.edges) : k = Len(g.edges) - m /\ key(k) = key(i)
        BY <1>1, <2>1
    <2>5. ASSUME NEW j \in 1 .. Len(g.edges), j > k PROVE key(j) # key(k)
        <3>1. Len(g.edges) - j \in 0 .. Len(g.edges) - 1 /\ ~(m <= Len(g.edges) - j)
              /\ Len(g.edges) - (Len(g.edges) - j) = j
            BY <1>1, <2>1, <2>4, <2>5
        <3>2. Len(g.edges) - j \notin S
            BY <2>3, <3>1
        <3> QED
            BY <2>1, <2>4, <3>1, <3>2
    <2> QED
        BY <2>4, <2>5
<1>4. ASSUME NEW i \in 1 .. Len(g.edges), NEW k \in 1 .. Len(g.edges), endmost(i), endmost(k), key(i) = key(k)
      PROVE  i = k
    <2>1. ~(i < k) /\ ~(k < i)
        BY <1>1, <1>4
    <2> QED
        BY <1>1, <2>1
<1> HIDE DEF endmost
<1>5. \A e \in ToSet(g.edges) : \E f \in Lasts(g) : DiffKey(f) = DiffKey(e)
    BY <1>1, <1>2, <1>3
<1>6. \A e, f \in Lasts(g) : DiffKey(e) = DiffKey(f) => e = f
    BY <1>2, <1>4
<1> QED
    BY <1>1, <1>2, <1>5, <1>6

\* Diff is silent of equal nodes and edges, and tells of the nodes and of the last
\* edges of a key that one of two graphs has.
LEMMA DiffTells ==
    ASSUME NEW old \in GraphFiles, NEW new \in GraphFiles
    PROVE  /\ old.nodes = new.nodes /\ old.edges = new.edges => Diff(old, new) = NoDiff
           /\ old.nodes # new.nodes => Diff(old, new).nodes # {}
           /\ ToldOf(old, new, Diff(old, new)) /\ ToldOf(new, old, Diff(old, new))
<1>1. /\ Diff(old, new).nodes = (new.nodes \ old.nodes) \cup (old.nodes \ new.nodes)
      /\ Diff(old, new).edges = (Keys(new) \ Keys(old)) \cup (Keys(old) \ Keys(new))
      /\ Diff(old, new).changed =
             {DiffKey(e) : e \in {f \in Lasts(new) : DiffKey(f) \in Keys(old)} \ Lasts(old)}
      /\ Diff(old, new) = [nodes |-> Diff(old, new).nodes, edges |-> Diff(old, new).edges,
                           changed |-> Diff(old, new).changed]
    BY DEF Diff
<1>2. ASSUME old.nodes = new.nodes, old.edges = new.edges PROVE Diff(old, new) = NoDiff
    <2>1. Keys(old) = Keys(new)
        BY <1>2 DEF Keys
    <2>2. Lasts(old) = Lasts(new)
        BY <1>2 DEF Lasts, LastOfKey
    <2>3. Diff(old, new).nodes = {} /\ Diff(old, new).edges = {} /\ Diff(old, new).changed = {}
        BY <1>1, <1>2, <2>1, <2>2
    <2> QED
        BY <1>1, <2>3 DEF NoDiff
<1>3. old.nodes # new.nodes => Diff(old, new).nodes # {}
    BY <1>1
<1>4. ASSUME NEW g \in {old, new}, NEW i \in DOMAIN g.edges, LastOfKey(g, i)
      PROVE  g.edges[i] \in Lasts(g) /\ DiffKey(g.edges[i]) \in Keys(g)
    BY <1>4 DEF Lasts, Keys, ToSet
<1>5. ToldOf(new, old, Diff(old, new))
    <2> SUFFICES ASSUME NEW i \in DOMAIN new.edges, LastOfKey(new, i), new.edges[i] \notin ToSet(old.edges)
                 PROVE  DiffKey(new.edges[i]) \in Diff(old, new).edges \cup Diff(old, new).changed
        BY DEF ToldOf
    <2>1. PICK e \in Lasts(new) : e = new.edges[i] /\ DiffKey(e) \in Keys(new)
        BY <1>4
    <2>2. CASE DiffKey(e) \notin Keys(old)
        BY <1>1, <2>1, <2>2
    <2>3. CASE DiffKey(e) \in Keys(old)
        <3>1. e \notin Lasts(old)
            BY <2>1, LastsHave
        <3> QED
            BY <1>1, <2>1, <2>3, <3>1
    <2> QED
        BY <2>2, <2>3
<1>6. ToldOf(old, new, Diff(old, new))
    <2> SUFFICES ASSUME NEW i \in DOMAIN old.edges, LastOfKey(old, i), old.edges[i] \notin ToSet(new.edges)
                 PROVE  DiffKey(old.edges[i]) \in Diff(old, new).edges \cup Diff(old, new).changed
        BY DEF ToldOf
    <2>1. PICK e \in Lasts(old) : e = old.edges[i] /\ DiffKey(e) \in Keys(old) /\ e \notin ToSet(new.edges)
        BY <1>4
    <2>2. CASE DiffKey(e) \notin Keys(new)
        BY <1>1, <2>1, <2>2
    <2>3. CASE DiffKey(e) \in Keys(new)
        <3>1. PICK f \in Lasts(new) : DiffKey(f) = DiffKey(e) /\ f \in ToSet(new.edges)
            BY <2>3, LastsHave DEF Keys
        <3>2. f \notin Lasts(old)
            BY <2>1, <3>1, LastsHave
        <3> QED
            BY <1>1, <2>1, <3>1, <3>2
    <2> QED
        BY <2>2, <2>3
<1> QED
    BY <1>2, <1>3, <1>5, <1>6

\* One hop from a set of nodes.
LEMMA NearJoined ==
    ASSUME NEW g \in GraphFiles, NEW set \in SUBSET Nodes
    PROVE  Near(g, set) = set \cup {n \in Nodes : \E s \in set : Joined(g, s, n)}
<1>0. \A e \in ToSet(g.edges) : e.from \in Nodes /\ e.to \in Nodes
    BY EdgeFields, EdgesOf
<1>1. ASSUME NEW n \in Near(g, set) PROVE n \in set \cup {m \in Nodes : \E s \in set : Joined(g, s, m)}
    <2>1. CASE n \in set
        BY <2>1
    <2>2. CASE n \notin set
        <3>1. PICK e \in ToSet(g.edges) : Touches(e, set) /\ (n = e.from \/ n = e.to)
            BY <2>2 DEF Near, EndsOf
        <3>2. \E s \in set : {e.from, e.to} = {s, n}
            BY <2>2, <3>1 DEF Touches
        <3> QED
            BY <1>0, <3>1, <3>2 DEF Joined
    <2> QED
        BY <2>1, <2>2
<1>2. ASSUME NEW n \in Nodes, NEW s \in set, Joined(g, s, n) PROVE n \in Near(g, set)
    <2>1. PICK e \in ToSet(g.edges) : {e.from, e.to} = {s, n}
        BY <1>2 DEF Joined
    <2>2. Touches(e, set) /\ (n = e.from \/ n = e.to)
        BY <2>1 DEF Touches
    <2> QED
        BY <2>2 DEF Near, EndsOf
<1> QED
    BY <1>1, <1>2 DEF Near

\* Less certain edges go first.
LEMMA CertaintyValues ==
    /\ Certainty["AMBIGUOUS"] = 0 /\ Certainty["INFERRED"] = 1
    /\ Certainty["EXTRACTED"] = 2 /\ Certainty["none"] = 3
BY DEF Certainty

\* A budget, of whatever answer.
LEMMA BudgetHolds ==
    ASSUME NEW nodes, NEW edges \in SUBSET Edge, NEW seeds, seeds \subseteq nodes, NEW budget
    PROVE  BudgetKept([nodes |-> nodes, edges |-> edges, seeds |-> seeds], budget)
<1> DEFINE answer == [nodes |-> nodes, edges |-> edges, seeds |-> seeds]
           fits(set) == Size(nodes, set) <= budget
           from(c) == {f \in edges : Certainty[f.tier] >= c}
<1>1. PICK sure : sure = Drop(answer, edges, "AMBIGUOUS", budget)
    OBVIOUS
<1>2. PICK read : read = Drop(answer, sure, "INFERRED", budget)
    OBVIOUS
<1>3. PICK left : left = Drop(answer, read, "EXTRACTED", budget)
    OBVIOUS
<1>4. /\ sure = IF fits(edges) THEN edges ELSE {e \in edges : e.tier # "AMBIGUOUS"}
      /\ read = IF fits(sure) THEN sure ELSE {e \in sure : e.tier # "INFERRED"}
      /\ left = IF fits(read) THEN read ELSE {e \in read : e.tier # "EXTRACTED"}
    BY <1>1, <1>2, <1>3 DEF Drop
<1>5. \A e \in edges : e.tier \in {"AMBIGUOUS", "INFERRED", "EXTRACTED", "none"}
    BY EdgeFields
<1>6. /\ from(0) = edges
      /\ from(1) = {e \in edges : e.tier # "AMBIGUOUS"}
      /\ from(2) = {e \in edges : e.tier # "AMBIGUOUS" /\ e.tier # "INFERRED"}
    <2>1. \A e \in edges : /\ Certainty[e.tier] >= 0
                           /\ Certainty[e.tier] >= 1 <=> e.tier # "AMBIGUOUS"
                           /\ Certainty[e.tier] >= 2 <=> e.tier # "AMBIGUOUS" /\ e.tier # "INFERRED"
        BY <1>5, CertaintyValues
    <2> QED
        BY <2>1
<1> HIDE DEF fits, from
<1>7. left \subseteq read /\ read \subseteq sure /\ sure \subseteq edges
    BY <1>4
<1>8. ~fits(sure) => ~fits(edges)
    BY <1>4
<1>9. ~fits(read) => ~fits(sure)
    BY <1>4
<1>10. fits(left) \/ \A e \in left : e.tier = "none"
    <2>1. CASE fits(read)
        BY <1>4, <2>1
    <2>2. CASE ~fits(read)
        <3>1. \A e \in left : e.tier # "EXTRACTED" /\ e.tier # "INFERRED" /\ e.tier # "AMBIGUOUS"
            BY <1>4, <1>7, <1>8, <1>9, <2>2
        <3> QED
            BY <1>5, <1>7, <3>1
    <2> QED
        BY <2>1, <2>2
<1>11. ASSUME NEW e \in edges \ left PROVE ~fits(from(Certainty[e.tier]))
    <2>1. CASE e \notin sure
        <3>1. ~fits(edges) /\ e.tier = "AMBIGUOUS"
            BY <1>4, <2>1
        <3> QED
            BY <1>6, <3>1, CertaintyValues
    <2>2. CASE e \in sure /\ e \notin read
        <3>1. ~fits(sure) /\ e.tier = "INFERRED"
            BY <1>4, <2>2
        <3>2. sure = from(1)
            BY <1>4, <1>6, <1>8, <3>1
        <3> QED
            BY <3>1, <3>2, CertaintyValues
    <2>3. CASE e \in read
        <3>1. ~fits(read) /\ e.tier = "EXTRACTED"
            BY <1>4, <2>3
        <3>2. read = from(2)
            BY <1>4, <1>6, <1>8, <1>9, <3>1
        <3> QED
            BY <3>1, <3>2, CertaintyValues
    <2> QED
        BY <2>1, <2>2, <2>3
<1>12. answer.edges = edges /\ answer.nodes = nodes /\ answer.seeds = seeds
    OBVIOUS
<1>13. Budgeted(answer, budget) =
          [nodes |-> {n \in nodes : n \in EndsOf(left) \cup seeds}, edges |-> left, seeds |-> seeds]
    <2>1. Budgeted(answer, budget) =
              [answer EXCEPT !.edges = left, !.nodes = {n \in answer.nodes : n \in EndsOf(left) \cup seeds}]
        BY <1>1, <1>2, <1>3, <1>12 DEF Budgeted
    <2> QED
        BY <2>1
<1>14. PICK less : less = Budgeted(answer, budget)
    OBVIOUS
<1>15. /\ less.nodes = {n \in nodes : n \in EndsOf(left) \cup seeds} /\ less.edges = left
       /\ answer.seeds \subseteq less.nodes /\ less.nodes \subseteq answer.nodes
    BY <1>12, <1>13, <1>14
<1>16. Size(answer.nodes, less.edges) <= budget \/ \A e \in less.edges : e.tier = "none"
    BY <1>10, <1>12, <1>15 DEF fits
<1>17. \A e \in answer.edges \ less.edges :
          ~(Size(answer.nodes, {f \in answer.edges : Certainty[f.tier] >= Certainty[e.tier]}) <= budget)
    BY <1>11, <1>12, <1>15 DEF fits, from
<1>18. less.edges \subseteq answer.edges /\ EndsOf(less.edges) \cap answer.nodes \subseteq less.nodes
    BY <1>7, <1>12, <1>15
<1> HIDE DEF answer
<1>19. BudgetKept(answer, budget)
    BY <1>14, <1>15, <1>16, <1>17, <1>18 DEF BudgetKept
<1> QED
    BY <1>19 DEF answer

\* An answer for any matches, with or without a budget.
LEMMA AnswerHolds ==
    ASSUME NEW g \in GraphFiles, NEW seeds \in SUBSET g.nodes
    PROVE  LET answer == Query(g, seeds)
               close  == seeds \cup {n \in Nodes : \E s \in seeds : Joined(g, s, n)}
               near   == {e \in ToSet(g.edges) : Touches(e, close)}
           IN  /\ answer.nodes = WithinTwo(g, seeds)
               /\ answer.edges \subseteq near
               /\ \A e \in near : \E f \in answer.edges :
                     f.from = e.from /\ f.to = e.to /\ (g.field = "label" => f.kind = e.kind)
               /\ \A e, f \in answer.edges : Key(g, e) = Key(g, f) => e = f
               /\ \A budget \in 1 .. Size(answer.nodes, answer.edges) : BudgetKept(answer, budget)
<1>0. seeds \subseteq Nodes /\ g.nodes \subseteq Nodes /\ seeds \cap g.nodes = seeds
    BY EdgesOf
<1>1. PICK close : close = Near(g, seeds)
    OBVIOUS
<1>2. close = seeds \cup {n \in Nodes : \E s \in seeds : Joined(g, s, n)} /\ close \subseteq Nodes
    BY <1>0, <1>1, NearJoined
<1>3. PICK near : near = {e \in ToSet(g.edges) : Touches(e, close)}
    OBVIOUS
<1>4. PICK nodes : nodes = Near(g, close) \cap g.nodes
    OBVIOUS
<1>5. PICK edges : edges = {e \in Firsts(g) : Touches(e, close)}
    OBVIOUS
<1>6. PICK answer : answer = Query(g, seeds)
    OBVIOUS
<1>7. answer = [nodes |-> nodes, edges |-> edges, seeds |-> seeds]
    BY <1>0, <1>1, <1>4, <1>5, <1>6 DEF Query
<1>8. answer.nodes = nodes /\ answer.edges = edges
    BY <1>7
<1>9. nodes = WithinTwo(g, seeds)
    <2>1. Near(g, close) = close \cup {n \in Nodes : \E m \in close : Joined(g, m, n)}
        BY <1>2, NearJoined
    <2>2. ASSUME NEW n \in nodes PROVE n \in WithinTwo(g, seeds)
        <3>1. n \in g.nodes /\ (n \in close \/ \E m \in close : Joined(g, m, n))
            BY <1>4, <2>1
        <3> QED
            BY <1>2, <3>1 DEF WithinTwo
    <2>3. ASSUME NEW n \in WithinTwo(g, seeds) PROVE n \in nodes
        <3>1. n \in g.nodes /\ n \in Nodes
            BY <1>0 DEF WithinTwo
        <3>2. n \in close \/ \E m \in close : Joined(g, m, n)
            BY <1>2, <3>1 DEF WithinTwo
        <3> QED
            BY <1>4, <2>1, <3>1, <3>2
    <2> QED
        BY <2>2, <2>3
<1>10. edges \subseteq near /\ edges \in SUBSET Edge
    BY <1>3, <1>5, FirstsHave, EdgesOf
<1>11. ASSUME NEW e \in near
       PROVE  \E f \in edges : f.from = e.from /\ f.to = e.to /\ (g.field = "label" => f.kind = e.kind)
    <2>1. PICK f \in Firsts(g) : Key(g, f) = Key(g, e)
        BY <1>3, FirstsHave
    <2>2. f.from = e.from /\ f.to = e.to /\ (g.field = "label" => f.kind = e.kind)
        BY <2>1 DEF Key, Name
    <2>3. Touches(f, close)
        BY <1>3, <2>2 DEF Touches
    <2> QED
        BY <1>5, <2>2, <2>3
<1>12. \A e, f \in edges : Key(g, e) = Key(g, f) => e = f
    BY <1>5, FirstsHave
<1>13. seeds \subseteq nodes
    BY <1>0, <1>1, <1>4 DEF Near
<1>14. \A budget : BudgetKept(answer, budget)
    BY <1>7, <1>10, <1>13, BudgetHolds
<1>15. near = {e \in ToSet(g.edges) :
                 Touches(e, seeds \cup {n \in Nodes : \E s \in seeds : Joined(g, s, n)})}
    BY <1>2, <1>3
<1> QED
    BY <1>6, <1>8, <1>9, <1>10, <1>11, <1>12, <1>14, <1>15

\* KnowledgeGraph.AnswersHold and DiffHolds, of any list of edges, with tiers or
\* without, edges of one key among them: every answer about every graph a build can
\* leave has the nodes and edges near the matches, and a budget drops the least
\* certain first; diff compares with the last build that ended and tells every
\* difference but of edges that another of their key follows.
THEOREM AnswersAndDiffHold == GraphSpec => [](AnswersHold /\ DiffHolds)
<1>1. GraphInv => AnswersHold
    BY AnswerHolds DEF GraphInv, AnswersHold
<1>2. GraphInv => DiffHolds
    <2> SUFFICES ASSUME GraphInv PROVE DiffHolds
        OBVIOUS
    <2>1. /\ shot.nodes = graph.nodes /\ shot.edges = graph.edges => Diff(shot, graph) = NoDiff
          /\ shot.nodes # graph.nodes => Diff(shot, graph).nodes # {}
          /\ ToldOf(shot, graph, Diff(shot, graph)) /\ ToldOf(graph, shot, Diff(shot, graph))
        BY DiffTells DEF GraphInv
    <2> QED
        BY <2>1 DEF GraphInv, DiffHolds
<1> QED
    BY <1>1, <1>2, GraphInitInv, GraphStep, PTL DEF GraphSpec

\* The files of the graph are what their readers take them for.
THEOREM GraphTyped == GraphSpec => []GraphTypeOK
<1>1. GraphInv => GraphTypeOK
    BY DEF GraphInv, GraphFiles, GraphTypeOK
<1> QED
    BY <1>1, GraphInitInv, GraphStep, PTL DEF GraphSpec

-----------------------------------------------------------------------------
(* All of them, as MCTools runs them one at a time. *)

LEMMA ToolsRunEach ==
    ToolsSpec => /\ PlanSpec /\ StreamsSpec /\ ConfigSpec /\ MonitorSpec /\ UpdateSpec
                 /\ CommitsSpec /\ TreesSpec /\ LearnSpec /\ GraphSpec
<1>1. ToolsInit => /\ PlanInit /\ StreamsInit /\ ConfigInit /\ MonitorInit /\ UpdateInit
                   /\ CommitsInit /\ TreesInit /\ LearnInit /\ GraphInit
    BY DEF ToolsInit
<1>2. [ToolsNext]_toolsVars =>
          /\ [PlanNext]_planVars /\ [StreamsNext]_streamVars /\ [ConfigNext]_configVars
          /\ [MonitorNext]_monitorVars /\ [UpdateNext]_updateVars /\ [CommitsNext]_commitVars
          /\ [TreesNext]_treeVars /\ [LearnNext]_learnVars /\ [GraphNext]_graphVars
    BY DEF ToolsNext, OnlyPlanning, OnlyStreams, OnlyConfig, OnlyMonitor, OnlyUpdate, OnlyCommits,
           OnlyTrees, OnlyLearnings, OnlyGraph, toolsVars
<1> QED
    BY <1>1, <1>2, PTL DEF ToolsSpec, PlanSpec, StreamsSpec, ConfigSpec, MonitorSpec, UpdateSpec,
                           CommitsSpec, TreesSpec, LearnSpec, GraphSpec

\* MCTools.KnowledgeSound: the promises of both stores of knowledge, for any
\* number of sessions, projects, learnings and nodes.
THEOREM KnowledgeIsSound == ToolsSpec => []KnowledgeSound
<1>1. LearningsKept /\ AnswersHold /\ DiffHolds => KnowledgeSound
    BY DEF KnowledgeSound
<1> QED
    BY <1>1, ToolsRunEach, LearningsStay, AnswersAndDiffHold, PTL

\* MCTools.ToolsTypeOK: the types of all nine tools, with the bounds they keep:
\* a command stages only what it was asked to, no silence is counted that was
\* not used, no file is from a run that never was.
THEOREM ToolsTyped == ToolsSpec => []ToolsTypeOK
<1>1. PlanTypeOK /\ StreamsTypeOK /\ ConfigTypeOK /\ MonitorTypeOK /\ UpdateTypeOK
          /\ CommitsTypeOK /\ TreesTypeOK /\ LearnTypeOK /\ GraphTypeOK
      => ToolsTypeOK
    BY DEF ToolsTypeOK
<1> QED
    BY <1>1, ToolsRunEach, PlanTyped, StreamsTyped, ConfigTyped, MonitorTyped, UpdateTyped,
       CommitsTyped, TreesTyped, LearnTyped, GraphTyped, PTL
=============================================================================
