---------------------------- MODULE KnowledgeGraph ----------------------------
(***************************************************************************)
(* The knowledge graph of a project (graphify.cjs): the graph an agent     *)
(* builds with the external graphify and copies to .planning/graphs, the   *)
(* snapshot it is compared with, and the answers of query, with and        *)
(* without a budget.  A graph lists its edges; an edge has its relation in *)
(* the field label or in the field relation, as graphify wrote it, and     *)
(* maybe a tier of confidence.  A node is its id.                          *)
(***************************************************************************)
EXTENDS FiniteSets, Naturals, Sequences, SequencesExt

CONSTANTS
    Nodes, Kinds,    \* ids, and relations
    Dangling,        \* a node that edges may name when the graph has it no more
    FirstGraphs,     \* what graphify may find first
    MaxBuilds        \* bound: builds

Certainty == [tier \in {"AMBIGUOUS", "INFERRED", "EXTRACTED", "none"} |->
                 CASE tier = "AMBIGUOUS" -> 0 [] tier = "INFERRED" -> 1
                   [] tier = "EXTRACTED" -> 2 [] tier = "none" -> 3]
Fields == {"label", "relation"}
Edge == [from : Nodes, to : Nodes, kind : Kinds, tier : DOMAIN Certainty]

ASSUME BuildAssumption ==
    /\ MaxBuilds \in Nat
    /\ FirstGraphs \subseteq [is : {"json"}, nodes : SUBSET Nodes, edges : Seq(Edge), field : Fields]

VARIABLES
    graph,      \* graph.json: missing, torn, or its nodes and edges
    shot,       \* .last-build-snapshot.json, the same
    builder,    \* the step of the agent that builds, and what graphify gave it
    built,      \* builds begun, and what graphify gave the last one
    ends        \* history: what graphify gave the builds that ended

graphVars == <<graph, shot, builder, built, ends>>

Nothing == [is |-> "missing", nodes |-> {}, edges |-> <<>>, field |-> "label"]
HalfCopied == [Nothing EXCEPT !.is = "torn"]

\* What a later build may find: the same, the edges in another order, or an edge or the
\* dangling node less.
Changed(g) ==
    {g, [g EXCEPT !.nodes = @ \ {Dangling}], [g EXCEPT !.edges = Reverse(@)]}
        \cup {[g EXCEPT !.edges = RemoveAt(@, i)] : i \in DOMAIN g.edges}

-----------------------------------------------------------------------------

\* seedAndExpand: of the edges of a key the first is met; the label is the only
\* name of an edge it looks at.
Name(g, e) == IF g.field = "label" THEN e.kind ELSE "none"
Key(g, e) == <<e.from, e.to, Name(g, e)>>
Touches(e, set) == e.from \in set \/ e.to \in set
EndsOf(edges) == {e.from : e \in edges} \cup {e.to : e \in edges}
Firsts(g) ==
    {g.edges[i] : i \in {k \in DOMAIN g.edges :
        \A j \in 1 .. k - 1 : Key(g, g.edges[j]) # Key(g, g.edges[k])}}

\* From the nodes that match, two hops, in either direction.
Near(g, set) == set \cup EndsOf({e \in ToSet(g.edges) : Touches(e, set)})
Query(g, matches) ==
    LET seeds == matches \cap g.nodes
        close == Near(g, seeds)
    IN  [nodes |-> Near(g, close) \cap g.nodes,
         edges |-> {e \in Firsts(g) : Touches(e, close)}, seeds |-> seeds]

\* applyBudget: whole tiers of edges are dropped, an edge without a known tier
\* never, until the answer fits; then the nodes that are neither a seed nor at
\* an edge.
Size(nodes, edges) == Cardinality(nodes) + Cardinality(edges)
Drop(result, edges, tier, budget) ==
    IF Size(result.nodes, edges) <= budget THEN edges ELSE {e \in edges : e.tier # tier}
Budgeted(result, budget) ==
    LET sure  == Drop(result, result.edges, "AMBIGUOUS", budget)
        read  == Drop(result, sure, "INFERRED", budget)
        edges == Drop(result, read, "EXTRACTED", budget)
    IN  [result EXCEPT !.edges = edges,
                       !.nodes = {n \in @ : n \in EndsOf(edges) \cup result.seeds}]

\* graphifyDiff: nodes by id and edges by key, of which the last stands for all,
\* changed by content; here the relation counts, whatever field has it.
DiffKey(e) == <<e.from, e.to, e.kind>>
Keys(g) == {DiffKey(e) : e \in ToSet(g.edges)}
LastOfKey(g, i) == \A j \in DOMAIN g.edges : j > i => DiffKey(g.edges[j]) # DiffKey(g.edges[i])
Lasts(g) == {g.edges[i] : i \in {k \in DOMAIN g.edges : LastOfKey(g, k)}}
Diff(old, new) ==
    [nodes   |-> (new.nodes \ old.nodes) \cup (old.nodes \ new.nodes),
     edges   |-> (Keys(new) \ Keys(old)) \cup (Keys(old) \ Keys(new)),
     changed |-> {DiffKey(e) : e \in {f \in Lasts(new) : DiffKey(f) \in Keys(old)} \ Lasts(old)}]
NoDiff == [nodes |-> {}, edges |-> {}, changed |-> {}]

-----------------------------------------------------------------------------

GraphInit ==
    /\ graph = Nothing /\ shot = Nothing
    /\ builder = [at |-> "off", out |-> Nothing]
    /\ built = [count |-> 0, out |-> Nothing] /\ ends = <<>>

\* graphify writes graphify-out; a failed build leaves .planning/graphs alone.
Build(out) ==
    /\ builder.at = "off" /\ built.count < MaxBuilds
    /\ builder' = [at |-> "copy", out |-> out]
    /\ built' = [count |-> built.count + 1, out |-> out]
    /\ UNCHANGED <<graph, shot, ends>>

\* cp graphify-out/graph.json, which a reader can see half done.
CopyStarts ==
    /\ builder.at = "copy"
    /\ graph' = HalfCopied /\ builder' = [builder EXCEPT !.at = "copying"]
    /\ UNCHANGED <<shot, built, ends>>
CopyEnds ==
    /\ builder.at = "copying"
    /\ graph' = builder.out /\ builder' = [builder EXCEPT !.at = "snapshot"]
    /\ UNCHANGED <<shot, built, ends>>

\* writeSnapshot: of graph.json as it is, atomically; not of a torn one.
WriteSnapshot ==
    /\ builder.at = "snapshot"
    /\ shot' = IF graph.is = "json" THEN graph ELSE shot
    /\ builder' = [at |-> "off", out |-> Nothing]
    /\ ends' = Append(ends, builder.out)
    /\ UNCHANGED <<graph, built>>

\* The agent ends early, or is killed.
StopBuild ==
    /\ builder.at # "off" /\ builder' = [at |-> "off", out |-> Nothing]
    /\ UNCHANGED <<graph, shot, built, ends>>

GraphNext ==
    \/ \E out \in IF built.count = 0 THEN FirstGraphs ELSE Changed(built.out) : Build(out)
    \/ CopyStarts \/ CopyEnds \/ WriteSnapshot \/ StopBuild

GraphSpec == GraphInit /\ [][GraphNext]_graphVars

-----------------------------------------------------------------------------

\* Types of the two files and the build.
GraphTypeOK ==
    /\ graph.is \in {"missing", "torn", "json"} /\ shot.is \in {"missing", "json"}
    /\ built.count \in 0 .. MaxBuilds

\* The nodes that a path of at most two edges joins to a seed.
Joined(g, m, n) == \E e \in ToSet(g.edges) : {e.from, e.to} = {m, n}
WithinTwo(g, seeds) ==
    {n \in g.nodes : \E s \in seeds : s = n \/ Joined(g, s, n)
                        \/ \E m \in Nodes : Joined(g, s, m) /\ Joined(g, m, n)}

\* A budget takes no match away and leaves no edge without its nodes; what is
\* left fits, or has only edges without a known tier; and an edge is taken away
\* only when the answer without all that are less certain does not fit either.
BudgetKept(answer, budget) ==
    LET less == Budgeted(answer, budget)
    IN  /\ answer.seeds \subseteq less.nodes /\ less.nodes \subseteq answer.nodes
        /\ less.edges \subseteq answer.edges
        /\ EndsOf(less.edges) \cap answer.nodes \subseteq less.nodes
        /\ Size(answer.nodes, less.edges) <= budget \/ \A e \in less.edges : e.tier = "none"
        /\ \A e \in answer.edges \ less.edges :
              ~(Size(answer.nodes, {f \in answer.edges : Certainty[f.tier] >= Certainty[e.tier]}) <= budget)

\* An answer of query has just the nodes within two edges of a match; of the
\* edges near a match, and of no others, one for every two nodes that they join,
\* in each direction, and one for each relation, when graphify names relations
\* by label.
AnswersHold ==
    graph.is = "json" =>
      \A seeds \in SUBSET graph.nodes :
        LET answer == Query(graph, seeds)
            close  == seeds \cup {n \in Nodes : \E s \in seeds : Joined(graph, s, n)}
            near   == {e \in ToSet(graph.edges) : Touches(e, close)}
        IN  /\ answer.nodes = WithinTwo(graph, seeds)
            /\ answer.edges \subseteq near
            /\ \A e \in near : \E f \in answer.edges :
                  f.from = e.from /\ f.to = e.to /\ (graph.field = "label" => f.kind = e.kind)
            /\ \A e, f \in answer.edges : Key(graph, e) = Key(graph, f) => e = f
            /\ \A budget \in 1 .. Size(answer.nodes, answer.edges) : BudgetKept(answer, budget)

\* diff compares the graph with that of the last build that ended, and never with
\* half of one.  It is silent of equal graphs, and tells of every node and edge
\* that only one of them has, but for an edge that another with its key follows.  (When the
\* build has ended that graph is its own: not the changes "since last build" that
\* gsd-graphify.md:73 promises.)
ToldOf(g, h, diff) ==
    \A i \in DOMAIN g.edges :
        LastOfKey(g, i) /\ g.edges[i] \notin ToSet(h.edges) => DiffKey(g.edges[i]) \in diff.edges \cup diff.changed

DiffHolds ==
    /\ IF ends = <<>> THEN shot.is = "missing" ELSE shot = Last(ends)
    /\ graph.is = "json" /\ shot.is = "json" =>
          LET diff == Diff(shot, graph) IN
          /\ shot.nodes = graph.nodes /\ shot.edges = graph.edges => diff = NoDiff
          /\ shot.nodes # graph.nodes => diff.nodes # {}
          /\ ToldOf(shot, graph, diff) /\ ToldOf(graph, shot, diff)
===============================================================================
