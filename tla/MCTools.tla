------------------------------- MODULE MCTools -------------------------------
(***************************************************************************)
(* The models of one session's commands, of workstreams, config.json, the  *)
(* hooks and commits, in one state space: focus, fixed at the start, says  *)
(* which of them moves; the others stay in one of their initial states.    *)
(***************************************************************************)
EXTENDS Planning, Workstreams, ProjectConfig, ContextMonitor, UpdateCheck, Commits,
        Worktrees, Learnings, KnowledgeGraph

CONSTANTS s1, s2, n1, n2, r1, m1, m2, k1, k2, c1, c2, e1, e2, o1, o2, h1, h2, p1, p2, t1, t2

VARIABLE focus

toolsVars == <<planVars, streamVars, configVars, monitorVars, updateVars, commitVars, treeVars,
               learnVars, graphVars, focus>>

\* What agents commit: a folder, a file, two; or amend with a folder and a file.
CommitRequests ==
    {[list |-> list, amend |-> FALSE] : list \in {<<0>>, <<1>>, <<2, 1>>}}
        \cup {[list |-> <<0, 1>>, amend |-> TRUE]}

\* What graphify finds first: an edge of any tier from any node to any; two edges, of one key or
\* not; four of four tiers, the last without one; each with and without the dangling node.  (Nodes 1
\* and 2 are alike.)
Arc(from, to, kind, tier) == [from |-> from, to |-> to, kind |-> kind, tier |-> tier]
Arcs == {arc \in Nodes \X Nodes : arc[1] # arc[2]}
TierPairs == {<<"AMBIGUOUS", "INFERRED">>, <<"INFERRED", "EXTRACTED">>, <<"EXTRACTED", "none">>,
              <<"none", "AMBIGUOUS">>, <<"INFERRED", "INFERRED">>}
EdgeLists ==
    {<<Arc(from, to, 1, tier)>> : from, to \in Nodes, tier \in DOMAIN Certainty}
    \cup {<<Arc(a[1], a[2], 1, t[1]), Arc(b[1], b[2], kind, t[2])>> :
               a \in {<<1, 2>>, <<3, 1>>}, b \in Arcs, kind \in Kinds, t \in TierPairs}
    \cup {<<Arc(1, 2, 1, t[1]), Arc(2, 3, 1, t[2]), Arc(1, 3, 1, t[3]), Arc(2, 1, 2, t[4])>> :
               t \in {s \in SetToSeqs(DOMAIN Certainty) : s[4] = "none"}}
Graphs ==
    {[is |-> "json", nodes |-> nodes, edges |-> edges, field |-> field] :
        nodes \in {Nodes, Nodes \ {Dangling}}, edges \in EdgeLists, field \in Fields}

ToolsInit ==
    /\ focus \in {"planning", "streams", "config", "monitor", "update", "commits", "trees",
               "learnings", "graph"}
    /\ PlanInit /\ (focus # "planning" \/ doc.bold => roadmap[2].num = <<2>>)
    /\ focus # "planning" => doc.bold
    /\ ConfigInit /\ (focus # "config" => config = Missing /\ ~ignored)
    /\ UpdateInit /\ (focus # "update" => installed = 1)
    /\ CommitsInit /\ (focus # "commits" => strategy = "none" /\ ~HasBranch(<<"phase", 1>>))
    /\ TreesInit /\ (focus # "trees" => deleting = {} /\ wave = [e \in Executors |-> o1])
    /\ StreamsInit /\ MonitorInit /\ LearnInit /\ GraphInit

OnlyPlanning ==
    /\ focus = "planning" /\ PlanNext
    /\ UNCHANGED <<streamVars, configVars, monitorVars, updateVars, commitVars,
                   treeVars, learnVars, graphVars, focus>>
OnlyStreams ==
    /\ focus = "streams" /\ StreamsNext
    /\ UNCHANGED <<planVars, configVars, monitorVars, updateVars, commitVars,
                   treeVars, learnVars, graphVars, focus>>
OnlyConfig ==
    /\ focus = "config" /\ ConfigNext
    /\ UNCHANGED <<planVars, streamVars, monitorVars, updateVars, commitVars,
                   treeVars, learnVars, graphVars, focus>>
OnlyMonitor ==
    /\ focus = "monitor" /\ MonitorNext
    /\ UNCHANGED <<planVars, streamVars, configVars, updateVars, commitVars,
                   treeVars, learnVars, graphVars, focus>>
OnlyUpdate ==
    /\ focus = "update" /\ UpdateNext
    /\ UNCHANGED <<planVars, streamVars, configVars, monitorVars, commitVars,
                   treeVars, learnVars, graphVars, focus>>
OnlyCommits ==
    /\ focus = "commits" /\ CommitsNext
    /\ UNCHANGED <<planVars, streamVars, configVars, monitorVars, updateVars,
                   treeVars, learnVars, graphVars, focus>>
OnlyTrees ==
    /\ focus = "trees" /\ TreesNext
    /\ UNCHANGED <<planVars, streamVars, configVars, monitorVars, updateVars,
                   commitVars, learnVars, graphVars, focus>>
OnlyLearnings ==
    /\ focus = "learnings" /\ LearnNext
    /\ UNCHANGED <<planVars, streamVars, configVars, monitorVars, updateVars,
                   commitVars, treeVars, graphVars, focus>>
OnlyGraph ==
    /\ focus = "graph" /\ GraphNext
    /\ UNCHANGED <<planVars, streamVars, configVars, monitorVars, updateVars,
                   commitVars, treeVars, learnVars, focus>>

ToolsNext ==
    \/ OnlyPlanning \/ OnlyStreams \/ OnlyConfig \/ OnlyMonitor \/ OnlyUpdate \/ OnlyCommits
    \/ OnlyTrees \/ OnlyLearnings \/ OnlyGraph
ToolsSpec == ToolsInit /\ [][ToolsNext]_toolsVars

\* Every variable of the model that moves keeps its type: in particular the work of a workstream
\* is never moved to where the root of .planning keeps its own.
ToolsTypeOK ==
    /\ focus = "planning" => PlanTypeOK
    /\ focus = "streams" => StreamsTypeOK
    /\ focus = "config" => ConfigTypeOK
    /\ focus = "monitor" => MonitorTypeOK
    /\ focus = "update" => UpdateTypeOK
    /\ focus = "commits" => CommitsTypeOK
    /\ focus = "trees" => TreesTypeOK
    /\ focus = "learnings" => LearnTypeOK
    /\ focus = "graph" => GraphTypeOK

\* The promises of the two hooks: an agent that runs out of context is told that its state is
\* tracked only after a record of the session was started, once, unless that threw, and is never
\* left without a message for DEBOUNCE_CALLS uses (gsd-context-monitor.js); a notice of an update
\* is true (gsd-check-update-worker.js).
HooksSound ==
    /\ focus = "monitor" => RecordedOnce /\ SilenceBounded
    /\ focus = "update" => NoticeIsTrue

\* The promises of `gsd-tools commit`: what a command reports as committed is in the history, no
\* file that is there when its entry is looked at and added is removed from it, and a command that
\* ran alone committed on the branch of its phase.
CommitsSound == focus = "commits" => CommitsKeep /\ OnItsBranch

\* What the stores of knowledge promise: a learning that was copied is there once and stays, and
\* the answers of the knowledge graph, whole or within a budget, and its diff are those of its
\* graph and of the graph of the last build that ended.
KnowledgeSound ==
    /\ focus = "learnings" => LearningsKept
    /\ focus = "graph" => AnswersHold /\ DiffHolds
=============================================================================
