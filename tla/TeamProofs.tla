----------------------------- MODULE TeamProofs -----------------------------
(***************************************************************************)
(* The two locks of a .planning directory and the commands that use them,  *)
(* for any number of agents, processes, pauses and commands and any content*)
(* of the files.                                                           *)
(*                                                                         *)
(* STATE.md.  As long as no lock was taken from an agent at work the lock  *)
(* excludes, and a read-modify-write command loses no update.  Every step  *)
(* of the team is a step of the lock protocol or leaves its variables      *)
(* alone, so that what is proved of the protocol holds of the commands.    *)
(* What they have added then stays: a command under the lock writes over   *)
(* what it read (NoLostUpdate), and what it makes of a document keeps every*)
(* entry it is not there to take out (ApplyGains, command by command);     *)
(* TeamInv adds that an entry a prune took out is in its hands until it is *)
(* archived, and that the entry of a command is in the file from its write *)
(* on, not only once it ended.                                             *)
(*                                                                         *)
(* .planning.  Until a process times out or loses its lock file at most one*)
(* runs its command, and what phase add, roadmap update-plan-progress and  *)
(* config-set have written stays.  PlanLockTypeOK and OneInside are        *)
(* inductive; what stays rests on what a worker between its read and its   *)
(* write still has: the ROADMAP.md there is, a number above every other,   *)
(* all the keys that were set.                                             *)
(***************************************************************************)
EXTENDS MCTeams, StateDocProofs, SequenceTheorems, FiniteSetTheorems,
        WellFoundedInduction, TLAPS

-----------------------------------------------------------------------------
(* The lock. *)

\* The invariant that is inductive: a writer's buffer is current because
\* nobody else is in the lock, and nobody else is because of whose file it is.
LockInv == LockTypeOK /\ Exclusive /\ NoLostUpdate

LEMMA LockInitInv == LockInit => LockInv
<1> SUFFICES ASSUME LockInit PROVE LockInv
    OBVIOUS
<1> USE DEF LockInit
<1>1. 0 \in 0 .. MaxRetries - 1
    BY RetryAssumption
<1>2. LockTypeOK
    BY <1>1 DEF LockTypeOK, Modes, Labels
<1>3. Exclusive /\ NoLostUpdate
    BY DEF Exclusive, NoLostUpdate, InLock
<1> QED
    BY <1>2, <1>3 DEF LockInv

\* Every step keeps the variables in their types.
LEMMA LockTypeStep == LockTypeOK /\ [LockNext]_lockVars => LockTypeOK'
<1> SUFFICES ASSUME LockTypeOK, [LockNext]_lockVars PROVE LockTypeOK'
    OBVIOUS
<1> USE AgentAssumption, RetryAssumption DEF LockTypeOK, Labels, Modes, Goto, Acquired
<1>1. ASSUME NEW a \in Agents, NEW m \in Modes, Begin(a, m) PROVE LockTypeOK'
    BY <1>1 DEF Begin
<1>2. ASSUME NEW a \in Agents, Read(a) PROVE LockTypeOK'
    BY <1>2 DEF Read
<1>3. ASSUME NEW a \in Agents, Acquire(a) PROVE LockTypeOK'
    BY <1>3 DEF Acquire
<1>4. ASSUME NEW a \in Agents, Refused(a) PROVE LockTypeOK'
    BY <1>4 DEF Refused
<1>5. ASSUME NEW a \in Agents, Retry(a) PROVE LockTypeOK'
    BY <1>5 DEF Retry
<1>6. ASSUME NEW a \in Agents, UnlinkStale(a) PROVE LockTypeOK'
    <2>1. CASE tries[a] = MaxRetries - 1
        BY <1>6, <2>1 DEF UnlinkStale
    <2>2. CASE tries[a] # MaxRetries - 1
        <3>1. tries[a] + 1 \in 0 .. MaxRetries - 1
            BY <2>2
        <3>2. pc' = [pc EXCEPT ![a] = "open"] /\ tries' = [tries EXCEPT ![a] = @ + 1]
              /\ robbed' \in BOOLEAN /\ lock' = NoAgent /\ old' = FALSE
            BY <1>6, <2>2 DEF UnlinkStale, TakesFrom, InLock
        <3> QED
            BY <1>6, <3>1, <3>2 DEF UnlinkStale
    <2> QED
        BY <2>1, <2>2
<1>7. ASSUME NEW a \in Agents, UnlinkNothing(a) PROVE LockTypeOK'
    BY <1>7 DEF UnlinkNothing
<1>8. ASSUME NEW a \in Agents, GiveUp(a) \/ Release(a) \/ Kill(a) PROVE LockTypeOK'
    BY <1>8 DEF GiveUp, Release, Kill, TakesFrom, InLock
<1>9. ASSUME NEW a \in Agents, NEW content, Write(a, content) PROVE LockTypeOK'
    BY <1>9 DEF Write
<1>10. ASSUME Age \/ UNCHANGED lockVars PROVE LockTypeOK'
    BY <1>10 DEF Age, lockVars
<1> QED
    BY <1>1, <1>2, <1>3, <1>4, <1>5, <1>6, <1>7, <1>8, <1>9, <1>10 DEF LockNext, LockStep

\* Who is in the lock after a step of a, and whose the lock file is.
LEMMA ExclusiveStep == LockTypeOK /\ Exclusive /\ [LockNext]_lockVars => Exclusive'
<1> SUFFICES ASSUME LockTypeOK, Exclusive, [LockNext]_lockVars, ~robbed',
                    NEW b \in Agents, InLock(b)'
             PROVE  lock' = b
    BY DEF Exclusive
<1> USE AgentAssumption DEF LockTypeOK, Exclusive, InLock, Goto, Acquired
<1>1. ASSUME NEW a \in Agents, NEW m \in Modes, Begin(a, m) PROVE lock' = b
    BY <1>1 DEF Begin, Modes
<1>2. ASSUME NEW a \in Agents, Read(a) PROVE lock' = b
    BY <1>2 DEF Read, Modes
<1>3. ASSUME NEW a \in Agents, Acquire(a) PROVE lock' = b
    BY <1>3 DEF Acquire
<1>4. ASSUME NEW a \in Agents, Refused(a) \/ Retry(a) \/ UnlinkNothing(a) PROVE lock' = b
    BY <1>4 DEF Refused, Retry, UnlinkNothing
<1>5. ASSUME NEW a \in Agents, UnlinkStale(a) PROVE lock' = b
    BY <1>5 DEF UnlinkStale, TakesFrom
<1>6. ASSUME NEW a \in Agents, GiveUp(a) PROVE lock' = b
    BY <1>6 DEF GiveUp
<1>7. ASSUME NEW a \in Agents, NEW content, Write(a, content) PROVE lock' = b
    BY <1>7 DEF Write
<1>8. ASSUME NEW a \in Agents, Release(a) PROVE lock' = b
    BY <1>8 DEF Release, TakesFrom
<1>9. ASSUME NEW a \in Agents, Kill(a) PROVE lock' = b
    BY <1>9 DEF Kill
<1>10. ASSUME Age \/ UNCHANGED lockVars PROVE lock' = b
    BY <1>10 DEF Age, lockVars
<1> QED
    BY <1>1, <1>2, <1>3, <1>4, <1>5, <1>6, <1>7, <1>8, <1>9, <1>10 DEF LockNext, LockStep

\* A writer's buffer stays current: the only step that changes STATE.md is a
\* write, and while one agent writes no other is in the lock.
LEMMA UpdateStep ==
    LockTypeOK /\ Exclusive /\ NoLostUpdate /\ [LockNext]_lockVars => NoLostUpdate'
<1> SUFFICES ASSUME LockTypeOK, Exclusive, NoLostUpdate, [LockNext]_lockVars, ~robbed',
                    NEW b \in Agents, pc'[b] = "write", mode'[b] = "rmw"
             PROVE  buf'[b] = file'
    BY DEF NoLostUpdate
<1> USE AgentAssumption DEF LockTypeOK, NoLostUpdate, Goto, Acquired
<1>1. ASSUME NEW a \in Agents, NEW m \in Modes, Begin(a, m) PROVE buf'[b] = file'
    BY <1>1 DEF Begin, Modes
<1>2. ASSUME NEW a \in Agents, Read(a) PROVE buf'[b] = file'
    BY <1>2 DEF Read
<1>3. ASSUME NEW a \in Agents, Acquire(a) \/ Refused(a) \/ Retry(a) PROVE buf'[b] = file'
    BY <1>3 DEF Acquire, Refused, Retry
<1>4. ASSUME NEW a \in Agents, UnlinkStale(a) \/ UnlinkNothing(a) PROVE buf'[b] = file'
    BY <1>4 DEF UnlinkStale, UnlinkNothing
<1>5. ASSUME NEW a \in Agents, GiveUp(a) PROVE buf'[b] = file'
    BY <1>5 DEF GiveUp
<1>6. ASSUME NEW a \in Agents, NEW content, Write(a, content) PROVE buf'[b] = file'
    <2>1. b # a
        BY <1>6 DEF Write, Labels
    <2>2. InLock(a) /\ InLock(b) /\ ~robbed
        BY <1>6, <2>1 DEF Write, InLock
    <2> QED
        BY <2>1, <2>2 DEF Exclusive
<1>7. ASSUME NEW a \in Agents, Release(a) \/ Kill(a) PROVE buf'[b] = file'
    BY <1>7 DEF Release, Kill
<1>8. ASSUME Age \/ UNCHANGED lockVars PROVE buf'[b] = file'
    BY <1>8 DEF Age, lockVars
<1> QED
    BY <1>1, <1>2, <1>3, <1>4, <1>5, <1>6, <1>7, <1>8 DEF LockNext, LockStep

\* The lock protocol keeps the three together.
LEMMA LockInvariant == LockSpec => []LockInv
<1>1. LockInv /\ [LockNext]_lockVars => LockInv'
    BY LockTypeStep, ExclusiveStep, UpdateStep DEF LockInv
<1> QED
    BY LockInitInv, <1>1, PTL DEF LockSpec

\* Until a lock is taken from an agent at work, at most one agent is between
\* taking and releasing STATE.md.lock, whatever the number of agents.
THEOREM LockExcludes == LockSpec => []Exclusive
<1>1. LockInv => Exclusive
    BY DEF LockInv
<1> QED
    BY LockInvariant, <1>1, PTL

\* Until then a readModifyWriteStateMd writes over exactly what it read: no
\* other command's update is lost under it, blind writers included.
THEOREM RmwLosesNothing == LockSpec => []NoLostUpdate
<1>1. LockInv => NoLostUpdate
    BY DEF LockInv
<1> QED
    BY LockInvariant, <1>1, PTL

-----------------------------------------------------------------------------
(* The commands. *)

\* The team starts in an initial state of the lock.
LEMMA TeamInitLock == TeamInit => LockInit
BY DEF TeamInit, LockInit

\* Every step of a command is a step of the lock or leaves it alone.
LEMMA TeamStepLock == [TeamNext]_teamVars => [LockNext]_lockVars
<1> SUFFICES ASSUME [TeamNext]_teamVars PROVE [LockNext]_lockVars
    OBVIOUS
<1>1. ASSUME NEW a \in Agents, NEW c \in Commands, Start(a, c) PROVE LockNext
    <2>1. ModeOf(c) \in Modes
        BY DEF ModeOf, Modes
    <2> QED
        BY <1>1, <2>1 DEF Start, LockNext, LockStep
<1>2. ASSUME NEW a \in Agents, Proceed(a) PROVE LockNext \/ UNCHANGED lockVars
    <2>1. CASE Store(a)
        BY <2>1 DEF Store, LockNext, LockStep
    <2>2. CASE Leave(a)
        BY <2>2 DEF Leave, LockNext, LockStep
    <2>3. CASE ReadArchive(a) \/ ArchivePruned(a)
        BY <2>3 DEF ReadArchive, ArchivePruned
    <2> QED
        BY <1>2, <2>1, <2>2, <2>3 DEF Proceed, LockNext, LockStep
<1>3. ASSUME NEW a \in Agents, Die(a) PROVE LockNext
    BY <1>3 DEF Die, LockNext, LockStep
<1>4. CASE Age \/ UNCHANGED teamVars
    BY <1>4 DEF LockNext, teamVars
<1> QED
    BY <1>1, <1>2, <1>3, <1>4 DEF TeamNext

\* The commands of gsd-tools on STATE.md use the lock of state.cjs as its protocol says.
THEOREM TeamImplementsLock == TeamSpec => LockSpec
BY TeamInitLock, TeamStepLock, PTL DEF TeamSpec, LockSpec

\* While no lock was taken from a command at work, one command at a time is inside it.
THEOREM TeamExcludes == TeamSpec => []Exclusive
BY TeamImplementsLock, LockExcludes, PTL

\* ... and what a command that read under the lock writes over is still what it read.
THEOREM TeamLosesNothing == TeamSpec => []NoLostUpdate
BY TeamImplementsLock, RmwLosesNothing, PTL

-----------------------------------------------------------------------------
(* The commands of the team. *)

\* The entries of the document the team works on, and its next plan: k of three.
IsTeamDoc(d) ==
    /\ IsDoc(d)
    /\ d.decisions \subseteq Olds \cup {Made(a) : a \in Agents}
    /\ d.session = [stopped |-> d.session.stopped, resume |-> d.session.resume]

Counts(d, k) ==
    IF d.bold THEN /\ d.body["CurrentPlan"] = <<k>> /\ d.body["TotalPlans"] = <<3>>
                   /\ d.body["Phase"] = << <<5>> >>
              ELSE d.body["Plan"] = <<k, 3>>

AtMost3(k) == IF k > 3 THEN 3 ELSE k

\* What state advance-plan reads out of a document that counts k plans.
LEMMA CountsPlanOf ==
    ASSUME NEW d, NEW k \in Nat, IsDoc(d), Counts(d, k)
    PROVE  PlanOf(d) = <<k, 3>>
<1>1. <<k>> \o <<3>> = <<k, 3>>
    <2>1. <<k>> \in Seq(Nat) /\ <<3>> \in Seq(Nat) /\ <<k, 3>> \in Seq(Nat)
        OBVIOUS
    <2>2. <<k>> \o <<3>> \in Seq(Nat) /\ Len(<<k>> \o <<3>>) = 2
        BY <2>1, ConcatProperties
    <2>3. (<<k>> \o <<3>>)[1] = k /\ (<<k>> \o <<3>>)[2] = 3
        BY <2>1, ConcatProperties
    <2>4. Len(<<k, 3>>) = 2 /\ <<k, 3>>[1] = k /\ <<k, 3>>[2] = 3
        OBVIOUS
    <2>5. \A i \in 1..2 : (<<k>> \o <<3>>)[i] = <<k, 3>>[i]
        BY <2>3, <2>4
    <2> QED
        BY <2>1, <2>2, <2>4, <2>5, SeqEqual
<1> QED
    BY <1>1 DEF PlanOf, Counts, IsDoc, InBody, BoldFields, PlainFields

\* Fields other than the counted ones do not change the count.
LEMMA EditedCounts ==
    ASSUME NEW d, NEW e, NEW F, NEW k, Edited(d, e, F), Counts(d, k), IsDoc(d),
           F \cap {"CurrentPlan", "TotalPlans", "Phase", "Plan"} = {}
    PROVE  Counts(e, k)
BY DEF Edited, SameLists, Counts, IsDoc, BoldFields, PlainFields

\* Writing the number of plans the phase has anyway.
LEMMA TotalSet ==
    ASSUME NEW d, NEW k, IsDoc(d), Counts(d, k)
    PROVE  LET e == Replace(d, "TotalPlans", <<3>>) IN Edited(d, e, {"TotalPlans"}) /\ Counts(e, k)
<1> DEFINE e == Replace(d, "TotalPlans", <<3>>)
<1>1. Edited(d, e, {"TotalPlans"})
      /\ ("TotalPlans" \in DOMAIN d.body => e.body["TotalPlans"] = <<3>>)
    BY ReplaceEdits
<1> HIDE DEF e
<1>2. Counts(e, k)
    BY <1>1 DEF Edited, SameLists, Counts, IsDoc, BoldFields, PlainFields
<1> QED
    BY <1>1, <1>2 DEF e

\* state advance-plan counts one plan, and none beyond the last.
LEMMA AdvanceCounts ==
    ASSUME NEW d, NEW k \in Nat, IsDoc(d), Counts(d, k)
    PROVE  LET e == AdvancePlan(d) IN
           /\ IsDoc(e) /\ SameLists(d, e) /\ Counts(e, IF k >= 3 THEN k ELSE k + 1)
<1> DEFINE says(c, text) == Position(Replace(c, "Status", text), "Status", text)
           counted == IF InBody(d, "CurrentPlan") THEN Replace(d, "CurrentPlan", <<k + 1>>)
                   ELSE Replace(d, "Plan", <<k + 1, 3>>)
<1>1. AdvancePlan(d) = IF k >= 3 THEN says(d, "phaseComplete") ELSE says(counted, "readyToExecute")
    BY CountsPlanOf DEF AdvancePlan
<1>2. ASSUME NEW c, NEW text, IsDoc(c)
      PROVE  Edited(c, says(c, text), {"Status"})
    <2> DEFINE r == Replace(c, "Status", text)
    <2>1. Edited(c, r, {"Status"}) /\ IsDoc(r)
        BY <1>2, ReplaceEdits DEF Edited
    <2> HIDE DEF r
    <2>2. Edited(r, Position(r, "Status", text), {"Status"})
        BY <2>1, PositionEdits
    <2>3. Edited(c, Position(r, "Status", text), {"Status"})
        BY <1>2, <2>1, <2>2, EditedTwice
    <2> QED
        BY <2>3 DEF r
<1> HIDE DEF says
<1>3. CASE k >= 3
    <2>1. Edited(d, says(d, "phaseComplete"), {"Status"})
        BY <1>2
    <2> QED
        BY <1>1, <1>3, <2>1, EditedCounts DEF Edited
<1>4. CASE ~(k >= 3)
    <2>1. IsDoc(counted) /\ SameLists(d, counted) /\ Counts(counted, k + 1)
        <3>1. CASE d.bold
            <4>1. counted = Replace(d, "CurrentPlan", <<k + 1>>) /\ "CurrentPlan" \in DOMAIN d.body
                BY <3>1 DEF InBody, IsDoc, BoldFields
            <4> HIDE DEF counted
            <4>2. Edited(d, Replace(d, "CurrentPlan", <<k + 1>>), {"CurrentPlan"})
                BY ReplaceEdits
            <4>3. Replace(d, "CurrentPlan", <<k + 1>>).body["CurrentPlan"] = <<k + 1>>
                BY <4>1, ReplaceSets
            <4> QED
                BY <3>1, <4>1, <4>2, <4>3 DEF Edited, SameLists, Counts, IsDoc, BoldFields
        <3>2. CASE ~d.bold
            <4>1. counted = Replace(d, "Plan", <<k + 1, 3>>) /\ "Plan" \in DOMAIN d.body
                BY <3>2 DEF InBody, IsDoc, PlainFields
            <4> HIDE DEF counted
            <4>2. Edited(d, Replace(d, "Plan", <<k + 1, 3>>), {"Plan"})
                BY ReplaceEdits
            <4>3. Replace(d, "Plan", <<k + 1, 3>>).body["Plan"] = <<k + 1, 3>>
                BY <4>1, ReplaceSets
            <4> QED
                BY <3>2, <4>1, <4>2, <4>3 DEF Edited, SameLists, Counts, IsDoc, PlainFields
        <3> QED
            BY <3>1, <3>2
    <2> HIDE DEF counted
    <2>2. Edited(counted, says(counted, "readyToExecute"), {"Status"})
        BY <1>2, <2>1
    <2>3. Counts(says(counted, "readyToExecute"), k + 1)
        BY <2>1, <2>2, EditedCounts
    <2>4. SameLists(d, says(counted, "readyToExecute"))
        BY <2>1, <2>2 DEF Edited, SameLists
    <2> QED
        BY <1>1, <1>4, <2>2, <2>3, <2>4 DEF Edited
<1> QED
    BY <1>3, <1>4

\* The positions of a patch with two fields, as FoldLeft takes them.
LEMMA MaxOfPlans == Max({1}) = 1 /\ Max({2}) = 2 /\ Max({1, 2}) = 2
<1>1. \E x \in {1, 2} : \A y \in {1, 2} : x >= y
  OBVIOUS
<1>2. (\E x \in {1} : \A y \in {1} : x >= y) /\ \E x \in {2} : \A y \in {2} : x >= y
  OBVIOUS
<1> QED
 BY <1>1, <1>2 DEF Max

\* A patch of two fields is the one update after the other.
LEMMA PatchTwo ==
  ASSUME NEW doc, NEW p, NEW q
  PROVE StatePatch(doc, <<p, q>>) = StateUpdate(StateUpdate(doc, p[1], p[2]), q[1], q[2])
<1> DEFINE seq == <<p, q>>
           Step(i, d) == StateUpdate(d, seq[i][1], seq[i][2])
           Unfold(g) == [s \in SUBSET DOMAIN seq |->
             IF s = {} THEN doc ELSE LET x == Max(s) IN Step(x, g[s \ {x}])]
           iter == CHOOSE g : g = Unfold(g)
           G == [s \in SUBSET DOMAIN seq |->
             IF s = {} THEN doc ELSE IF s = {1} THEN Step(1, doc) ELSE IF s = {2} THEN Step(2, doc)
             ELSE Step(2, Step(1, doc))]
<1>1. StatePatch(doc, seq) = iter[DOMAIN seq]
  BY DEF StatePatch, FoldLeft, MapThenFoldSet
<1>2. DOMAIN seq = {1, 2} /\ seq[1] = p /\ seq[2] = q
  OBVIOUS
<1>3. \A s \in SUBSET {1, 2} : s \in {{}, {1}, {2}, {1, 2}}
  OBVIOUS
<1>4. G = Unfold(G)
  <2> SUFFICES ASSUME NEW s \in SUBSET DOMAIN seq
      PROVE G[s] = IF s = {} THEN doc ELSE LET x == Max(s) IN Step(x, G[s \ {x}])
    BY Zenon
  <2>1. CASE s = {}
    BY <2>1
  <2>2. CASE s = {1}
    <3>1. s \ {1} = {}
      BY <2>2
    <3> QED BY <2>2, <3>1, MaxOfPlans, <1>2
  <2>3. CASE s = {2}
    <3>1. s \ {2} = {}
      BY <2>3
    <3> QED BY <2>3, <3>1, MaxOfPlans, <1>2
  <2>4. CASE s = {1, 2}
    <3>1. s \ {2} = {1}
      BY <2>4
    <3> QED BY <2>4, <3>1, MaxOfPlans, <1>2
  <2> QED
    BY <1>2, <1>3, <2>1, <2>2, <2>3, <2>4
<1> HIDE DEF G
<1>5. iter = Unfold(iter)
  BY <1>4, Zenon
<1> HIDE DEF iter
<1>6. \A s \in SUBSET {1, 2} : iter[s] = IF s = {} THEN doc ELSE LET x == Max(s) IN Step(x, iter[s \ {x}])
  BY <1>2, <1>5
<1>7. /\ iter[{}] = doc /\ iter[{1}] = Step(1, iter[{1} \ {1}]) /\ iter[{1, 2}] = Step(2, iter[{1, 2} \ {2}])
  BY <1>6, MaxOfPlans
<1>8. {1} \ {1} = {} /\ {1, 2} \ {2} = {1}
  OBVIOUS
<1> QED
  BY <1>1, <1>2, <1>7, <1>8

\* What command c of agent a makes of d keeps every entry it is not there to
\* take out, and has its own entry.
Gains(a, c, d, e) ==
    /\ d.timings \subseteq e.timings
    /\ c = "metric" => a \in e.timings
    /\ d.blockers \ (IF c = "resolve" THEN {a} ELSE {}) \subseteq e.blockers
    /\ c = "block" => a \in e.blockers
    /\ d.session.stopped # "" \/ c = "session" => e.session.stopped # ""
    /\ d.decisions \ (IF c \in Prunes THEN Prunable(d, Cutoff(d, Keep(c))) ELSE {})
         \subseteq e.decisions
    /\ c = "decide" => Made(a) \in e.decisions

\* A document with the same body and lists.
LEMMA GainsEdited ==
    ASSUME NEW a, NEW c, NEW d, NEW x, NEW e, NEW F, IsTeamDoc(x), Gains(a, c, d, x), Edited(x, e, F)
    PROVE  Gains(a, c, d, e) /\ IsTeamDoc(e)
<1>1. SameLists(x, e) /\ IsDoc(e)
    BY DEF Edited
<1>2. Gains(a, c, d, e)
    <2>1. /\ e.decisions = x.decisions /\ e.blockers = x.blockers
          /\ e.timings = x.timings /\ e.session = x.session
        BY <1>1 DEF SameLists
    <2> QED
        <3>1. d.timings \subseteq e.timings /\ (c = "metric" => a \in e.timings)
            BY <2>1 DEF Gains
        <3>2. /\ d.blockers \ (IF c = "resolve" THEN {a} ELSE {}) \subseteq e.blockers
              /\ c = "block" => a \in e.blockers
            BY <2>1 DEF Gains
        <3>3. d.session.stopped # "" \/ c = "session" => e.session.stopped # ""
            BY <2>1 DEF Gains
        <3>4. /\ d.decisions \ (IF c \in Prunes THEN Prunable(d, Cutoff(d, Keep(c))) ELSE {})
                   \subseteq e.decisions
              /\ c = "decide" => Made(a) \in e.decisions
            BY <2>1 DEF Gains
        <3> QED
            BY <3>1, <3>2, <3>3, <3>4 DEF Gains
<1>3. IsTeamDoc(e)
    BY <1>1 DEF IsTeamDoc, SameLists
<1> QED
    BY <1>2, <1>3

\* A command without an entry of its own may leave the document alone.
LEMMA NothingLost ==
    ASSUME NEW a, NEW c, c \notin {"metric", "block", "session", "decide"}, NEW d, IsTeamDoc(d)
    PROVE  Gains(a, c, d, d)
BY DEF Gains

\* One list of the document with another value.
LEMMA ListChanged ==
    ASSUME NEW d, NEW v, IsDoc(d), NEW k, Counts(d, k),
           NEW e \in {[d EXCEPT !.decisions = v], [d EXCEPT !.blockers = v],
                      [d EXCEPT !.timings = v], [d EXCEPT !.session = v]}
    PROVE  IsDoc(e) /\ Counts(e, k) /\ e.bold = d.bold /\ e.body = d.body
<1>1. CASE e = [d EXCEPT !.decisions = v]
    BY <1>1 DEF IsDoc, Counts
<1>2. CASE e = [d EXCEPT !.blockers = v]
    BY <1>2 DEF IsDoc, Counts
<1>3. CASE e = [d EXCEPT !.timings = v]
    BY <1>3 DEF IsDoc, Counts
<1>4. CASE e = [d EXCEPT !.session = v]
    BY <1>4 DEF IsDoc, Counts
<1> QED
    BY <1>1, <1>2, <1>3, <1>4

\* The commands, one by one.
LEMMA AddDecisionGains ==
    ASSUME NEW a \in Agents, NEW d, NEW k, IsTeamDoc(d), Counts(d, k)
    PROVE  LET x == AddDecision(d, Made(a)) IN
           Gains(a, "decide", d, x) /\ IsTeamDoc(x) /\ Counts(x, k)
<1> DEFINE x == AddDecision(d, Made(a))
<1>1. x = [d EXCEPT !.decisions = d.decisions \cup {Made(a)}]
    BY DEF AddDecision
<1> HIDE DEF x
<1>2. IsDoc(x) /\ Counts(x, k)
    <2>1. IsDoc(d)
        BY DEF IsTeamDoc
    <2> QED
        BY <1>1, <2>1, ListChanged
<1>3. /\ x.decisions = d.decisions \cup {Made(a)} /\ x.blockers = d.blockers
      /\ x.timings = d.timings /\ x.session = d.session
    BY <1>1 DEF IsTeamDoc, IsDoc
<1>4. Gains(a, "decide", d, x) /\ IsTeamDoc(x)
    BY <1>2, <1>3 DEF Gains, IsTeamDoc
<1> QED
    BY <1>2, <1>4 DEF x

LEMMA BlockerGains ==
    ASSUME NEW a, NEW d, NEW k, IsTeamDoc(d), Counts(d, k),
           NEW c \in {"block", "resolve"}, NEW x,
           x = IF c = "block" THEN AddBlocker(d, a) ELSE ResolveBlocker(d, a)
    PROVE  Gains(a, c, d, x) /\ IsTeamDoc(x) /\ Counts(x, k)
<1> DEFINE v == IF c = "block" THEN d.blockers \cup {a} ELSE d.blockers \ {a}
<1>1. x = [d EXCEPT !.blockers = v]
    BY DEF AddBlocker, ResolveBlocker
<1> HIDE DEF v
<1>2. IsDoc(x) /\ Counts(x, k)
    <2>1. IsDoc(d)
        BY DEF IsTeamDoc
    <2> QED
        BY <1>1, <2>1 DEF IsDoc, Counts
<1>3. /\ x.blockers = v /\ x.decisions = d.decisions
      /\ x.timings = d.timings /\ x.session = d.session
    BY <1>1 DEF IsTeamDoc, IsDoc
<1> QED
    BY <1>2, <1>3 DEF Gains, IsTeamDoc, v

LEMMA MetricGains ==
    ASSUME NEW a, NEW d, NEW k, IsTeamDoc(d), Counts(d, k)
    PROVE  LET x == RecordMetric(d, a) IN
           Gains(a, "metric", d, x) /\ IsTeamDoc(x) /\ Counts(x, k)
<1> DEFINE x == RecordMetric(d, a)
<1>1. x = [d EXCEPT !.timings = d.timings \cup {a}]
    BY DEF RecordMetric
<1> HIDE DEF x
<1>2. IsDoc(x) /\ Counts(x, k)
    <2>1. IsDoc(d)
        BY DEF IsTeamDoc
    <2> QED
        BY <1>1, <2>1, ListChanged
<1>3. /\ x.decisions = d.decisions /\ x.blockers = d.blockers
      /\ x.timings = d.timings \cup {a} /\ x.session = d.session
    BY <1>1 DEF IsTeamDoc, IsDoc
<1>4. Gains(a, "metric", d, x) /\ IsTeamDoc(x)
    BY <1>2, <1>3 DEF Gains, IsTeamDoc
<1> QED
    BY <1>2, <1>4 DEF x

LEMMA SessionGains ==
    ASSUME NEW a, NEW d, NEW k, IsTeamDoc(d), Counts(d, k)
    PROVE  LET x == RecordSession(d, "context exhaustion", "") IN
           Gains(a, "session", d, x) /\ IsTeamDoc(x) /\ Counts(x, k)
<1> DEFINE x == RecordSession(d, "context exhaustion", "")
           v == [stopped |-> "context exhaustion", resume |-> "None"]
<1>1. x = [d EXCEPT !.session = v]
    BY DEF RecordSession
<1> HIDE DEF x
<1>2. IsDoc(x) /\ Counts(x, k)
    <2>1. IsDoc(d)
        BY DEF IsTeamDoc
    <2> QED
        BY <1>1, <2>1, ListChanged
<1>3. /\ x.decisions = d.decisions /\ x.blockers = d.blockers
      /\ x.timings = d.timings /\ x.session = v
    BY <1>1 DEF IsTeamDoc, IsDoc
<1>4. /\ x.session.stopped # ""
      /\ x.session = [stopped |-> x.session.stopped, resume |-> x.session.resume]
    <2>1. v.stopped = "context exhaustion"
        OBVIOUS
    <2>2. "context exhaustion" # ""
        OBVIOUS
    <2>3. v = [stopped |-> v.stopped, resume |-> v.resume]
        OBVIOUS
    <2> HIDE DEF v
    <2> QED
        BY <1>3, <2>1, <2>2, <2>3
<1>5. Gains(a, "session", d, x)
    BY <1>3, <1>4 DEF Gains
<1>6. IsTeamDoc(x)
    BY <1>2, <1>3, <1>4 DEF IsTeamDoc
<1> QED
    BY <1>2, <1>5, <1>6 DEF x

LEMMA PruneGains ==
    ASSUME NEW a, NEW c \in Prunes, NEW d, NEW k, IsTeamDoc(d), Counts(d, k)
    PROVE  LET x == Prune(d, Cutoff(d, Keep(c))) IN
           Gains(a, c, d, x) /\ IsTeamDoc(x) /\ Counts(x, k)
<1> DEFINE x == Prune(d, Cutoff(d, Keep(c)))
           v == d.decisions \ Prunable(d, Cutoff(d, Keep(c)))
           r == {q \in d.rows : q[1][1] > Cutoff(d, Keep(c))}
<1>1. x = [[d EXCEPT !.decisions = v] EXCEPT !.rows = r]
    BY DEF Prune, IsTeamDoc, IsDoc
<1> HIDE DEF v, r
<1>2. IsDoc(x) /\ Counts(x, k)
    BY <1>1 DEF IsTeamDoc, IsDoc, Counts
<1>3. /\ x.decisions = v /\ x.blockers = d.blockers
      /\ x.timings = d.timings /\ x.session = d.session
    BY <1>1 DEF IsTeamDoc, IsDoc
<1> HIDE DEF x
<1>4. v \subseteq d.decisions /\ d.decisions \ Prunable(d, Cutoff(d, Keep(c))) \subseteq v
    BY DEF v
<1>5. Gains(a, c, d, x) /\ IsTeamDoc(x)
    BY <1>2, <1>3, <1>4 DEF Gains, Prunes, IsTeamDoc
<1> QED
    BY <1>2, <1>5 DEF x

LEMMA PlannedGains ==
    ASSUME NEW a, NEW d, NEW k, IsTeamDoc(d), Counts(d, k)
    PROVE  LET x == PlannedPhase(d, 3) IN
           Gains(a, "planned", d, x) /\ IsTeamDoc(x) /\ Counts(x, k)
<1> DEFINE y == Replace(d, "Status", "readyToExecute")
           z == Replace(y, "TotalPlans", <<3>>)
           x == Position(z, "Status", "readyToExecute")
<1>1. PlannedPhase(d, 3) = x
    BY DEF PlannedPhase
<1>2. Edited(d, y, {"Status"})
    BY ReplaceEdits DEF IsTeamDoc
<1> HIDE DEF y
<1>3. Counts(y, k) /\ Gains(a, "planned", d, y) /\ IsTeamDoc(y)
    <2>1. Counts(y, k)
        BY <1>2, EditedCounts DEF IsTeamDoc
    <2>2. Gains(a, "planned", d, d)
        BY NothingLost
    <2> QED
        BY <1>2, <2>1, <2>2, GainsEdited
<1>4. Edited(y, z, {"TotalPlans"}) /\ Counts(z, k)
    BY <1>3, TotalSet DEF IsTeamDoc
<1> HIDE DEF z
<1>5. Gains(a, "planned", d, z) /\ IsTeamDoc(z)
    BY <1>3, <1>4, GainsEdited
<1>6. Edited(z, x, {"Status"})
    BY <1>5, PositionEdits DEF IsTeamDoc
<1> HIDE DEF x
<1>7. Counts(x, k) /\ Gains(a, "planned", d, x) /\ IsTeamDoc(x)
    BY <1>4, <1>5, <1>6, EditedCounts, GainsEdited DEF IsTeamDoc
<1> QED
    BY <1>1, <1>7

LEMMA SyncGains ==
    ASSUME NEW a, NEW d, NEW k, IsTeamDoc(d), Counts(d, k)
    PROVE  LET x == SyncFromDisk(d, Disk, 3) IN
           Gains(a, "sync", d, x) /\ IsTeamDoc(x) /\ Counts(x, k)
<1> DEFINE y == IF 3 > 0 /\ InBody(d, "TotalPlans") THEN Replace(d, "TotalPlans", <<3>>) ELSE d
           v == IF Disk.plans > 0 THEN Percent(Disk.summaries, Disk.plans) ELSE 0
           x == Replace(y, "Progress", v)
<1>1. SyncFromDisk(d, Disk, 3) = x
    BY DEF SyncFromDisk, UpdateProgress
<1> HIDE DEF v
<1>2. Edited(d, Replace(d, "TotalPlans", <<3>>), {"TotalPlans"})
      /\ Counts(Replace(d, "TotalPlans", <<3>>), k)
    BY TotalSet DEF IsTeamDoc
<1>3. Edited(d, d, {"TotalPlans"})
    BY DEF Edited, SameLists, IsTeamDoc
<1>4. Edited(d, y, {"TotalPlans"}) /\ Counts(y, k)
    BY <1>2, <1>3
<1> HIDE DEF y
<1>5. Gains(a, "sync", d, y) /\ IsTeamDoc(y)
    BY <1>4, NothingLost, GainsEdited
<1>6. Edited(y, x, {"Progress"})
    BY <1>5, ReplaceEdits DEF IsTeamDoc
<1> HIDE DEF x
<1>7. Counts(x, k) /\ Gains(a, "sync", d, x) /\ IsTeamDoc(x)
    BY <1>4, <1>5, <1>6, EditedCounts, GainsEdited DEF IsTeamDoc
<1> QED
    BY <1>1, <1>7

LEMMA PatchGains ==
    ASSUME NEW a, NEW d, NEW k, IsTeamDoc(d), Counts(d, k)
    PROVE  LET x == StatePatch(d, << <<"Status", "executing">>, <<"Progress", 50>> >>) IN
           Gains(a, "patch", d, x) /\ IsTeamDoc(x) /\ Counts(x, k)
<1> DEFINE y == Replace(d, "Status", "executing")
           x == Replace(y, "Progress", 50)
<1>1. StatePatch(d, << <<"Status", "executing">>, <<"Progress", 50>> >>) = x
    BY PatchTwo DEF StateUpdate
<1>2. Edited(d, y, {"Status"})
    BY ReplaceEdits DEF IsTeamDoc
<1> HIDE DEF y
<1>3. Counts(y, k) /\ Gains(a, "patch", d, y) /\ IsTeamDoc(y)
    <2>1. Counts(y, k)
        BY <1>2, EditedCounts DEF IsTeamDoc
    <2>2. Gains(a, "patch", d, d)
        BY NothingLost
    <2> QED
        BY <1>2, <2>1, <2>2, GainsEdited
<1>4. Edited(y, x, {"Progress"})
    BY <1>3, ReplaceEdits DEF IsTeamDoc
<1> HIDE DEF x
<1>5. Counts(x, k) /\ Gains(a, "patch", d, x) /\ IsTeamDoc(x)
    BY <1>3, <1>4, EditedCounts, GainsEdited DEF IsTeamDoc
<1> QED
    BY <1>1, <1>5

LEMMA AdvanceGains ==
    ASSUME NEW a, NEW d, NEW k \in Nat, IsTeamDoc(d), Counts(d, k)
    PROVE  LET x == AdvancePlan(d) IN
           Gains(a, "advance", d, x) /\ IsTeamDoc(x) /\ Counts(x, IF k >= 3 THEN k ELSE k + 1)
<1> DEFINE x == AdvancePlan(d)
<1>1. IsDoc(x) /\ SameLists(d, x) /\ Counts(x, IF k >= 3 THEN k ELSE k + 1)
    BY AdvanceCounts DEF IsTeamDoc
<1> HIDE DEF x
<1>2. Edited(d, x, DOMAIN d.body)
    BY <1>1 DEF Edited
<1>3. Gains(a, "advance", d, x) /\ IsTeamDoc(x)
    BY <1>2, NothingLost, GainsEdited
<1> QED
    BY <1>1, <1>3 DEF x

\* What a command of the team makes of the document it read.
LEMMA ApplyGains ==
    ASSUME NEW a \in Agents, cmd[a] \in Commands, NEW d, NEW k \in Nat, IsTeamDoc(d), Counts(d, k)
    PROVE  LET e == Apply(a, d) IN
           /\ Gains(a, cmd[a], d, e) /\ IsTeamDoc(e)
           /\ Counts(e, IF cmd[a] = "advance" /\ ~(k >= 3) THEN k + 1 ELSE k)
<1> DEFINE Next(x) == /\ Gains(a, cmd[a], d, x) /\ IsTeamDoc(x)
                      /\ Counts(x, IF cmd[a] = "advance" /\ ~(k >= 3) THEN k + 1 ELSE k)
<1>1. ASSUME NEW x, Next(x), Apply(a, d) = Synced(x, Disk)
      PROVE  Next(Apply(a, d))
    <2>1. Edited(x, Synced(x, Disk), {})
        BY <1>1, SyncedEdits DEF IsTeamDoc
    <2> DEFINE e == Synced(x, Disk)
    <2> HIDE DEF e
    <2>2. Gains(a, cmd[a], d, e) /\ IsTeamDoc(e)
        BY <1>1, <2>1, GainsEdited DEF e
    <2>3. Counts(e, IF cmd[a] = "advance" /\ ~(k >= 3) THEN k + 1 ELSE k)
        BY <1>1, <2>1, EditedCounts DEF e, IsTeamDoc
    <2> QED
        BY <1>1, <2>2, <2>3 DEF e
<1>2. CASE cmd[a] = "decide"
    <2>1. Apply(a, d) = Synced(AddDecision(d, Made(a)), Disk)
        BY <1>2 DEF Apply, Prunes
    <2> QED
        BY <1>1, <1>2, <2>1, AddDecisionGains
<1>3. CASE cmd[a] \in {"block", "resolve"}
    <2> DEFINE x == IF cmd[a] = "block" THEN AddBlocker(d, a) ELSE ResolveBlocker(d, a)
    <2>1. Apply(a, d) = Synced(x, Disk)
        BY <1>3 DEF Apply, Prunes
    <2>2. Gains(a, cmd[a], d, x) /\ IsTeamDoc(x) /\ Counts(x, k)
        BY <1>3, BlockerGains
    <2> HIDE DEF x
    <2> QED
        BY <1>1, <1>3, <2>1, <2>2
<1>4. CASE cmd[a] = "advance"
    <2>1. Apply(a, d) = Synced(AdvancePlan(d), Disk)
        BY <1>4 DEF Apply, Prunes
    <2> QED
        BY <1>1, <1>4, <2>1, AdvanceGains
<1>5. CASE cmd[a] = "metric"
    <2>1. Apply(a, d) = Synced(RecordMetric(d, a), Disk)
        BY <1>5 DEF Apply, Prunes
    <2> QED
        BY <1>1, <1>5, <2>1, MetricGains
<1>6. CASE cmd[a] = "session"
    <2>1. Apply(a, d) = Synced(RecordSession(d, "context exhaustion", ""), Disk)
        BY <1>6 DEF Apply, Prunes
    <2> QED
        BY <1>1, <1>6, <2>1, SessionGains
<1>7. CASE cmd[a] = "patch"
    <2>1. Apply(a, d) = Synced(StatePatch(d, << <<"Status", "executing">>, <<"Progress", 50>> >>), Disk)
        BY <1>7 DEF Apply, Prunes
    <2> QED
        BY <1>1, <1>7, <2>1, PatchGains
<1>8. CASE cmd[a] \in Prunes
    <2>1. Apply(a, d) = Synced(Prune(d, Cutoff(d, Keep(cmd[a]))), Disk)
        BY <1>8 DEF Apply, Prunes
    <2> QED
        BY <1>1, <1>8, <2>1, PruneGains DEF Prunes
<1>9. CASE cmd[a] = "planned"
    <2>1. Apply(a, d) = Synced(PlannedPhase(d, 3), Disk)
        BY <1>9 DEF Apply
    <2> QED
        BY <1>1, <1>9, <2>1, PlannedGains
<1>10. CASE cmd[a] = "sync"
    <2>1. Apply(a, d) = Synced(SyncFromDisk(d, Disk, 3), Disk)
        BY <1>10 DEF Apply
    <2> QED
        BY <1>1, <1>10, <2>1, SyncGains
<1> QED
    BY <1>2, <1>3, <1>4, <1>5, <1>6, <1>7, <1>8, <1>9, <1>10 DEF Commands, Prunes

-----------------------------------------------------------------------------
(* What the commands have added to STATE.md stays.                         *)

Plans(n) == IF 1 + n > 3 THEN 3 ELSE 1 + n

\* A command that ended, or has only its lock file left to delete.
Due(c, a) == <<c, a>> \in acked \/ (pc[a] = "release" /\ cmd[a] = c)

\* Every content read or written is a document of the team.
DocsInv ==
    /\ IsTeamDoc(file) /\ \E k \in Nat : Counts(file, k)
    /\ \A a \in Agents : IsTeamDoc(buf[a]) /\ \E k \in Nat : Counts(buf[a], k)

BeforeRelease == {"read", "open", "wait", "unlink", "force", "write"}

\* What is known of the commands under way: a new one starts only with empty
\* hands, and one to resolve a blocker leaves its agent idle only when it ended.
CommandInv ==
    /\ cmd \in [Agents -> Commands]
    /\ pending = [a \in Agents |-> pending[a]]
    /\ dropped \in BOOLEAN /\ crossed \in BOOLEAN
    /\ started \in 0 .. MaxCommands /\ advances \in Nat
    /\ \A a \in Agents : pc[a] \in BeforeRelease => pending[a] = {}
    /\ \A a \in Agents : pc[a] = "idle" /\ cmd[a] = "resolve" => <<"resolve", a>> \in acked

EffectsInv ==
    Undisturbed =>
        /\ Counts(file, Plans(advances))
        /\ \A a \in Agents :
              /\ Due("metric", a) => a \in file.timings
              /\ Due("block", a) /\ <<"resolve", a>> \notin acked /\ cmd[a] # "resolve"
                    => a \in file.blockers
              /\ Due("session", a) => file.session.stopped # ""

\* The decisions STATE.md or its archive owes, and when it owes them.
Owed == Olds \cup {Made(a) : a \in {b \in Agents : Due("decide", b)}}
Archived == Undisturbed /\ ~dropped /\ ~crossed
RecordInv == Archived => Owed \subseteq OnRecord

TeamInv == LockInv /\ DocsInv /\ CommandInv /\ EffectsInv /\ RecordInv

\* What a step owes to whoever proves that it keeps the invariant.
StepKeeps == DocsInv' /\ CommandInv' /\ EffectsInv' /\ RecordInv'

\* The document the team starts from, in either layout.
LEMMA TeamDocFacts ==
    ASSUME NEW bold \in BOOLEAN
    PROVE  LET d == Synced(TeamDoc(bold), Disk) IN
           IsTeamDoc(d) /\ Counts(d, 1) /\ d.decisions = Olds
<1> DEFINE t == TeamDoc(bold)
<1>1. IsTeamDoc(t) /\ Counts(t, 1) /\ t.decisions = Olds
    <2> DEFINE n == NewDoc(bold, 6)
               p == WithBody(n, "Phase", << <<5>> >>)
               q == WithBody(p, "Status", "executing")
               r == IF bold THEN WithBody(WithBody(q, "CurrentPlan", <<1>>), "TotalPlans", <<3>>)
                    ELSE WithBody(q, "Plan", <<1, 3>>)
    <2>1. t = [r EXCEPT !.decisions = Olds]
        BY DEF TeamDoc, WithBody
    <2>2. /\ IsDoc(n) /\ n.bold = bold
          /\ n.session = [stopped |-> n.session.stopped, resume |-> n.session.resume]
        BY DEF NewDoc, IsDoc, BoldFields, PlainFields
    <2> HIDE DEF n
    <2>3. IsDoc(p) /\ p.bold = bold /\ p.session = n.session /\ p.body["Phase"] = << <<5>> >>
        <3>1. "Phase" \in DOMAIN n.body
            BY <2>2 DEF IsDoc, BoldFields, PlainFields
        <3> QED
            BY <2>2, <3>1, BodyEdited DEF Edited, SameLists
    <2> HIDE DEF p
    <2>4. IsDoc(q) /\ q.bold = bold /\ q.session = n.session /\ q.body["Phase"] = << <<5>> >>
        <3>1. "Phase" \in DOMAIN p.body /\ "Status" \in DOMAIN p.body
            BY <2>3 DEF IsDoc, BoldFields, PlainFields
        <3> QED
            BY <2>3, <3>1, BodyEdited DEF Edited, SameLists
    <2> HIDE DEF q
    <2>5. IsDoc(r) /\ r.bold = bold /\ r.session = n.session /\ Counts(r, 1)
        <3>1. CASE bold
            <4> DEFINE u == WithBody(q, "CurrentPlan", <<1>>)
                       v == WithBody(u, "TotalPlans", <<3>>)
            <4>1. "Phase" \in DOMAIN q.body /\ "CurrentPlan" \in DOMAIN q.body
                BY <2>4, <3>1 DEF IsDoc, BoldFields
            <4>2. Edited(q, u, {"CurrentPlan"}) /\ u.body["CurrentPlan"] = <<1>>
                BY <2>4, <4>1, BodyEdited
            <4> HIDE DEF u
            <4>3. /\ IsDoc(u) /\ u.bold = bold /\ u.session = n.session
                  /\ u.body["Phase"] = << <<5>> >>
                BY <2>4, <4>1, <4>2 DEF Edited, SameLists
            <4>4. /\ "Phase" \in DOMAIN u.body /\ "CurrentPlan" \in DOMAIN u.body
                  /\ "TotalPlans" \in DOMAIN u.body
                BY <3>1, <4>3 DEF IsDoc, BoldFields
            <4>5. Edited(u, v, {"TotalPlans"}) /\ v.body["TotalPlans"] = <<3>>
                BY <4>3, <4>4, BodyEdited
            <4> HIDE DEF v
            <4>6. IsDoc(v) /\ v.bold = bold /\ v.session = n.session /\ Counts(v, 1)
                BY <3>1, <4>2, <4>3, <4>4, <4>5 DEF Edited, SameLists, Counts
            <4> QED
                BY <3>1, <4>6 DEF u, v
        <3>2. CASE ~bold
            <4> DEFINE v == WithBody(q, "Plan", <<1, 3>>)
            <4>1. "Plan" \in DOMAIN q.body
                BY <2>4, <3>2 DEF IsDoc, PlainFields
            <4>2. Edited(q, v, {"Plan"}) /\ v.body["Plan"] = <<1, 3>>
                <5>1. IsDoc(q) /\ "Plan" \in DOMAIN q.body
                    BY <2>4, <4>1
                <5>2. ASSUME NEW x
                      PROVE  Edited(q, WithBody(q, "Plan", x), {"Plan"})
                             /\ WithBody(q, "Plan", x).body["Plan"] = x
                    BY <5>1, BodyEdited
                <5> QED
                    BY <5>2 DEF v
            <4> HIDE DEF v
            <4>3. IsDoc(v) /\ v.bold = bold /\ v.session = n.session /\ Counts(v, 1)
                BY <2>4, <3>2, <4>2 DEF Edited, SameLists, Counts
            <4> QED
                BY <3>2, <4>3 DEF v
        <3> QED
            BY <3>1, <3>2
    <2> HIDE DEF r, t
    <2>6. IsDoc(t) /\ Counts(t, 1) /\ t.session = r.session /\ t.decisions = Olds
        BY <2>1, <2>5 DEF IsDoc, Counts
    <2> QED
        BY <2>2, <2>5, <2>6 DEF IsTeamDoc
<1> HIDE DEF t
<1> DEFINE d == Synced(t, Disk)
<1>2. Edited(t, d, {})
    BY <1>1, SyncedEdits DEF IsTeamDoc
<1> HIDE DEF d
<1>3. Counts(d, 1)
    BY <1>1, <1>2, EditedCounts DEF IsTeamDoc
<1>4. IsTeamDoc(d) /\ d.decisions = Olds
    BY <1>1, <1>2 DEF Edited, SameLists, IsTeamDoc
<1> QED
    BY <1>3, <1>4 DEF d, t

\* The invariant holds at the start.
LEMMA TeamInitInv == TeamInit => TeamInv
<1> SUFFICES ASSUME TeamInit PROVE TeamInv
    OBVIOUS
<1>1. LockInv
    BY TeamInitLock, LockInitInv
<1>2. IsTeamDoc(file) /\ Counts(file, 1) /\ file.decisions = Olds
    BY TeamDocFacts DEF TeamInit
<1>3. DocsInv
    <2>1. \A a \in Agents : buf[a] = file
        BY DEF TeamInit
    <2> QED
        BY <1>2, <2>1 DEF DocsInv
<1>4. CommandInv
    <2>1. "decide" \in Commands /\ "idle" \notin BeforeRelease
        BY DEF Commands, BeforeRelease
    <2>2. cmd \in [Agents -> Commands] /\ pending = [a \in Agents |-> pending[a]]
        BY <2>1 DEF TeamInit
    <2>3. started \in 0 .. MaxCommands /\ advances \in Nat
        BY TeamAssumption DEF TeamInit
    <2>4. \A a \in Agents : pc[a] \notin BeforeRelease /\ cmd[a] # "resolve"
        BY <2>1 DEF TeamInit
    <2>5. dropped \in BOOLEAN /\ crossed \in BOOLEAN
        BY DEF TeamInit
    <2> QED
        BY <2>2, <2>3, <2>4, <2>5 DEF CommandInv
<1>5. EffectsInv
    <2>1. \A a \in Agents, c \in Commands : ~Due(c, a)
        BY DEF TeamInit, Due
    <2>2. Counts(file, Plans(advances))
        BY <1>2 DEF TeamInit, Plans
    <2> QED
        BY <2>1, <2>2 DEF EffectsInv, Commands
<1>6. RecordInv
    <2>1. \A a \in Agents : ~Due("decide", a)
        BY DEF TeamInit, Due
    <2>2. Olds \subseteq OnRecord
        BY <1>2 DEF OnRecord
    <2> QED
        BY <2>1, <2>2 DEF RecordInv, Owed
<1> QED
    BY <1>1, <1>3, <1>4, <1>5, <1>6 DEF TeamInv

\* A lock taken from an agent at work is on record for good.
LEMMA RobbedForever == [LockNext]_lockVars /\ robbed => robbed'
BY DEF LockNext, LockStep, Begin, Read, Acquire, Refused, Retry, UnlinkStale, UnlinkNothing,
       GiveUp, Write, Release, Kill, Age, lockVars

\* A step that takes nothing off the record and owes nothing new.
LEMMA RecordKept ==
    ASSUME TeamInv, Archived' => Archived, OnRecord \subseteq OnRecord',
           \A b \in Agents : Due("decide", b)' => Due("decide", b) \/ Made(b) \in OnRecord'
    PROVE  RecordInv'
BY DEF TeamInv, RecordInv, Owed, Olds, Made

\* A step that ends no command and writes no file.
LEMMA LockStepKeeps ==
    ASSUME TeamInv, LockTypeOK', Undisturbed' => Undisturbed,
           UNCHANGED <<file, cmd, pending, archive, started, acked, advances, dropped, crossed>>,
           \A b \in Agents : buf'[b] \in {buf[b], file},
           \A b \in Agents : pc'[b] \in {"idle", "release"} => pc[b] = pc'[b],
           \A b \in Agents : pc'[b] \in BeforeRelease => pc[b] \in BeforeRelease,
           \A b \in Agents : pc'[b] = "dead" => pc[b] = "dead"
    PROVE  StepKeeps
<1>1. DocsInv'
    BY DEF TeamInv, DocsInv
<1>2. CommandInv'
    BY DEF TeamInv, CommandInv
<1>3. \A b \in Agents, c \in Commands : Due(c, b)' => Due(c, b)
    BY DEF Due
<1>4. OnRecord \subseteq OnRecord'
    BY DEF OnRecord
<1>5. EffectsInv'
    BY <1>3 DEF TeamInv, EffectsInv, Commands
<1>6. RecordInv'
    BY <1>3, <1>4, RecordKept DEF Archived, Commands
<1> QED
    BY <1>1, <1>2, <1>5, <1>6 DEF StepKeeps

\* The steps that wait for the lock or read STATE.md write nothing.
LEMMA WaitingKeeps ==
    ASSUME TeamInv, [TeamNext]_teamVars, NEW a \in Agents, Unlogged,
           Read(a) \/ Acquire(a) \/ Refused(a) \/ Retry(a) \/ UnlinkStale(a)
             \/ UnlinkNothing(a) \/ GiveUp(a)
    PROVE  StepKeeps
<1>1. LockTypeOK /\ LockTypeOK' /\ [LockNext]_lockVars
    BY TeamStepLock, LockTypeStep DEF TeamInv, LockInv
<1>2. Undisturbed' => Undisturbed
    BY <1>1, RobbedForever DEF Unlogged, historyVars, Undisturbed
<1>3. UNCHANGED <<file, cmd, pending, archive, started, acked, advances, dropped, crossed>>
    BY DEF Unlogged, historyVars, Read, Acquire, Refused, Retry, UnlinkStale, UnlinkNothing, GiveUp
<1>4. \A b \in Agents : buf'[b] \in {buf[b], file}
    BY <1>1 DEF LockTypeOK, Read, Acquire, Refused, Retry, UnlinkStale, UnlinkNothing, GiveUp
<1>5. /\ pc[a] \in BeforeRelease
      /\ \E l \in BeforeRelease : pc' = [pc EXCEPT ![a] = l]
    BY DEF Read, Acquire, Refused, Retry, UnlinkStale, UnlinkNothing, GiveUp, Goto, Acquired,
           BeforeRelease
<1>6. \A b \in Agents : /\ pc'[b] \in {"idle", "release"} => pc[b] = pc'[b]
                        /\ pc'[b] \in BeforeRelease => pc[b] \in BeforeRelease
                        /\ pc'[b] = "dead" => pc[b] = "dead"
    BY <1>1, <1>5 DEF LockTypeOK, BeforeRelease
<1> QED
    BY <1>1, <1>2, <1>3, <1>4, <1>6, LockStepKeeps

\* A command starts.
LEMMA StartKeeps ==
    ASSUME TeamInv, [TeamNext]_teamVars, NEW a \in Agents, NEW c \in Commands, Start(a, c)
    PROVE  StepKeeps
<1>1. /\ UNCHANGED <<file, buf, pending, archive, acked, advances, robbed, stomped, dropped, crossed>>
      /\ cmd' = [cmd EXCEPT ![a] = c] /\ started < MaxCommands /\ started' = started + 1
      /\ pending[a] = {} /\ pc[a] = "idle"
      /\ \E l \in {"read", "open"} : pc' = [pc EXCEPT ![a] = l]
    BY DEF Start, historyVars, Begin, Goto
<1>2. LockTypeOK /\ cmd \in [Agents -> Commands]
    BY DEF TeamInv, LockInv, CommandInv
<1>3. DocsInv'
    BY <1>1 DEF TeamInv, DocsInv
<1>4. CommandInv'
    <2>1. cmd' \in [Agents -> Commands] /\ started' \in 0 .. MaxCommands /\ advances' \in Nat
        BY <1>1, <1>2, TeamAssumption DEF TeamInv, CommandInv
    <2>2. \A b \in Agents : b # a => pc'[b] = pc[b] /\ cmd'[b] = cmd[b]
        BY <1>1, <1>2 DEF LockTypeOK
    <2>3. pc'[a] \in {"read", "open"}
        BY <1>1, <1>2 DEF LockTypeOK
    <2> QED
        BY <1>1, <2>1, <2>2, <2>3 DEF TeamInv, CommandInv
<1>5. OnRecord \subseteq OnRecord'
    BY <1>1, <1>2 DEF OnRecord, LockTypeOK
<1>6. \A b \in Agents, x \in Commands : Due(x, b)' => Due(x, b)
    BY <1>1, <1>2 DEF Due, LockTypeOK
<1>7. \A b \in Agents : cmd[b] = "resolve" /\ cmd'[b] # "resolve" => <<"resolve", b>> \in acked
    BY <1>1, <1>2 DEF TeamInv, CommandInv
<1>8. Undisturbed' = Undisturbed
    BY <1>1 DEF Undisturbed
<1>9. EffectsInv'
    BY <1>1, <1>6, <1>7, <1>8 DEF TeamInv, EffectsInv, Commands
<1>10. RecordInv'
    BY <1>1, <1>5, <1>6, <1>8, RecordKept DEF Archived, Commands
<1> QED
    BY <1>3, <1>4, <1>9, <1>10 DEF StepKeeps

\* A command that changes what is on record writes over what it read.
LEMMA StoreKeeps ==
    ASSUME TeamInv, [TeamNext]_teamVars, NEW a \in Agents, Store(a)
    PROVE  StepKeeps
<1> DEFINE d == buf[a]
           c == cmd[a]
<1>1. /\ pc[a] = "write" /\ pc' = [pc EXCEPT ![a] = "release"]
      /\ file' = Apply(a, d)
      /\ UNCHANGED <<mode, buf, robbed, cmd, archive, started, acked, dropped, crossed>>
      /\ pending' = [pending EXCEPT ![a] =
                        IF c \in Prunes THEN Prunable(d, Cutoff(d, Keep(c))) ELSE {}]
      /\ advances' = IF c = "advance" THEN advances + 1 ELSE advances
      /\ stomped' = (stomped \/ (mode[a] = "blind" /\ d # file))
    BY DEF Store, Write, Goto
<1>2. /\ LockTypeOK /\ cmd \in [Agents -> Commands] /\ c \in Commands
      /\ pending = [b \in Agents |-> pending[b]] /\ pending[a] = {} /\ advances \in Nat
    BY <1>1 DEF TeamInv, LockInv, CommandInv, BeforeRelease
<1>3. PICK k \in Nat : IsTeamDoc(d) /\ Counts(d, k)
    BY DEF TeamInv, DocsInv
<1>4. /\ Gains(a, c, d, file') /\ IsTeamDoc(file')
      /\ Counts(file', IF c = "advance" /\ ~(k >= 3) THEN k + 1 ELSE k)
    BY <1>1, <1>2, <1>3, ApplyGains
<1>5. DocsInv'
    <2>1. (IF c = "advance" /\ ~(k >= 3) THEN k + 1 ELSE k) \in Nat
        OBVIOUS
    <2>2. \E n \in Nat : Counts(file', n)
        BY <1>4, <2>1
    <2> QED
        BY <1>1, <1>4, <2>2 DEF TeamInv, DocsInv
<1>6. /\ \A b \in Agents : b # a => pc'[b] = pc[b] /\ pending'[b] = pending[b]
      /\ pc'[a] = "release"
      /\ pending'[a] = IF c \in Prunes THEN Prunable(d, Cutoff(d, Keep(c))) ELSE {}
      /\ pending' = [b \in Agents |-> pending'[b]]
    BY <1>1, <1>2 DEF LockTypeOK
<1>7. CommandInv'
    BY <1>1, <1>2, <1>6 DEF TeamInv, CommandInv, BeforeRelease
<1>8. ASSUME Undisturbed' PROVE Undisturbed /\ d = file
    <2>1. ~robbed /\ ~stomped /\ ~(mode[a] = "blind" /\ d # file)
        BY <1>1, <1>8 DEF Undisturbed
    <2>2. mode[a] = "rmw" => d = file
        BY <1>1, <2>1 DEF TeamInv, LockInv, NoLostUpdate
    <2>3. mode[a] \in {"blind", "rmw"}
        BY <1>2 DEF LockTypeOK, Modes
    <2> QED
        BY <2>1, <2>2, <2>3 DEF Undisturbed
<1>9. \A b \in Agents, x \in Commands : Due(x, b)' => Due(x, b) \/ (b = a /\ x = c)
    BY <1>1, <1>6 DEF Due
<1>10. EffectsInv'
    <2> SUFFICES ASSUME Undisturbed' PROVE EffectsInv'
        BY DEF EffectsInv
    <2>1. Undisturbed /\ d = file
        BY <1>8
    <2>2. Counts(file', Plans(advances'))
        <3>1. Counts(d, Plans(advances)) /\ Plans(advances) \in Nat
            <4>1. Counts(d, Plans(advances))
                BY <2>1 DEF TeamInv, EffectsInv
            <4>2. Plans(advances) \in Nat
                BY <1>2 DEF Plans
            <4> QED
                BY <4>1, <4>2
        <3>2. Counts(file', IF c = "advance" /\ ~(Plans(advances) >= 3)
                            THEN Plans(advances) + 1 ELSE Plans(advances))
            BY <1>1, <1>2, <1>3, <3>1, ApplyGains
        <3>3. Plans(advances') = IF c = "advance" /\ ~(Plans(advances) >= 3)
                                 THEN Plans(advances) + 1 ELSE Plans(advances)
            BY <1>1, <1>2 DEF Plans
        <3> QED
            BY <3>2, <3>3
    <2>3. ASSUME NEW b \in Agents
          PROVE  /\ Due("metric", b)' => b \in file'.timings
                 /\ Due("block", b)' /\ <<"resolve", b>> \notin acked /\ cmd[b] # "resolve"
                       => b \in file'.blockers
                 /\ Due("session", b)' => file'.session.stopped # ""
        <3>1. Due("metric", b)' => b \in file'.timings
            BY <1>4, <1>9, <2>1 DEF Gains, TeamInv, EffectsInv, Commands
        <3>2. Due("block", b)' /\ <<"resolve", b>> \notin acked /\ cmd[b] # "resolve"
                => b \in file'.blockers
            <4>1. CASE Due("block", b)
                BY <1>4, <2>1, <4>1 DEF Gains, TeamInv, EffectsInv
            <4>2. CASE b = a /\ c = "block"
                BY <1>4, <4>2 DEF Gains
            <4> QED
                BY <1>9, <4>1, <4>2 DEF Commands
        <3>3. Due("session", b)' => file'.session.stopped # ""
            BY <1>4, <1>9, <2>1 DEF Gains, TeamInv, EffectsInv, Commands
        <3> QED
            BY <3>1, <3>2, <3>3
    <2> QED
        BY <1>1, <2>2, <2>3 DEF EffectsInv
<1>11. RecordInv'
    <2> SUFFICES ASSUME Archived' PROVE RecordInv'
        BY DEF RecordInv
    <2>1. Undisturbed /\ d = file /\ Archived
        BY <1>1, <1>8 DEF Archived
    <2>2. OnRecord \subseteq OnRecord'
        <3>1. \A b \in Agents : pc[b] # "dead" => pc'[b] # "dead" /\ pending[b] \subseteq pending'[b]
            BY <1>1, <1>2, <1>6
        <3>2. file.decisions \subseteq file'.decisions \cup pending'[a]
            BY <1>4, <1>6, <2>1 DEF Gains
        <3>3. pc'[a] # "dead"
            BY <1>6
        <3> QED
            BY <1>1, <3>1, <3>2, <3>3 DEF OnRecord
    <2>3. c = "decide" => Made(a) \in OnRecord'
        BY <1>4 DEF Gains, OnRecord
    <2>4. \A b \in Agents : Due("decide", b)' => Due("decide", b) \/ Made(b) \in OnRecord'
        BY <1>9, <2>3 DEF Commands
    <2> QED
        BY <2>1, <2>2, <2>4, RecordKept
<1> QED
    BY <1>5, <1>7, <1>10, <1>11 DEF StepKeeps

\* A command ends: its entry is on record already.
LEMMA LeaveKeeps ==
    ASSUME TeamInv, [TeamNext]_teamVars, NEW a \in Agents, Leave(a)
    PROVE  StepKeeps
<1>1. /\ UNCHANGED <<file, buf, cmd, pending, archive, started, advances, stomped, dropped, crossed>>
      /\ pc[a] = "release" /\ pc' = [pc EXCEPT ![a] = "idle"]
      /\ acked' = acked \cup {<<cmd[a], a>>}
    BY DEF Leave, Release, Goto
<1>2. Undisturbed' => Undisturbed
    BY <1>1, TeamStepLock, RobbedForever DEF Undisturbed
<1>3. DocsInv'
    BY <1>1 DEF TeamInv, DocsInv
<1>4. \A b \in Agents : b # a => pc'[b] = pc[b]
    BY <1>1 DEF TeamInv, LockInv, LockTypeOK
<1>5. pc'[a] = "idle"
    BY <1>1 DEF TeamInv, LockInv, LockTypeOK
<1>6. CommandInv'
    BY <1>1, <1>4, <1>5 DEF TeamInv, CommandInv, BeforeRelease
<1>7. OnRecord \subseteq OnRecord'
    BY <1>1, <1>4, <1>5 DEF OnRecord
<1>8. \A b \in Agents, x \in Commands : Due(x, b)' => Due(x, b)
    BY <1>1, <1>4, <1>5 DEF Due
<1>9. EffectsInv'
    BY <1>1, <1>2, <1>8 DEF TeamInv, EffectsInv, Commands, LockInv
<1>10. RecordInv'
    BY <1>1, <1>2, <1>7, <1>8, RecordKept DEF Archived, Commands
<1> QED
    BY <1>3, <1>6, <1>9, <1>10 DEF StepKeeps

\* A prune reads the archive it is to add to.
LEMMA ReadArchiveKeeps ==
    ASSUME TeamInv, NEW a \in Agents, ReadArchive(a)
    PROVE  StepKeeps
<1>1. /\ LockTypeOK' /\ (Undisturbed' => Undisturbed)
      /\ UNCHANGED <<file, buf, pc, cmd, pending, archive, started, acked, advances, dropped, crossed>>
    BY DEF ReadArchive, lockVars, historyVars, TeamInv, LockInv, LockTypeOK, Undisturbed
<1> QED
    BY <1>1, LockStepKeeps

\* The entries a prune held go to the archive, with all that is in it unless
\* another prune wrote it in between.
LEMMA ArchiveKeeps ==
    ASSUME TeamInv, NEW a \in Agents, ArchivePruned(a)
    PROVE  StepKeeps
<1>1. /\ UNCHANGED <<file, buf, pc, robbed, cmd, started, acked, advances, stomped, dropped>>
      /\ pc[a] = "idle" /\ archive' = loaded[a][1] \cup pending[a]
      /\ pending' = [pending EXCEPT ![a] = {}]
      /\ crossed' = (crossed \/ loaded[a] # <<archive>>)
    BY DEF ArchivePruned, lockVars
<1>2. /\ \A b \in Agents : pending'[b] = IF b = a THEN {} ELSE pending[b]
      /\ pending' = [b \in Agents |-> pending'[b]]
    BY <1>1 DEF TeamInv, CommandInv
<1>3. DocsInv'
    BY <1>1 DEF TeamInv, DocsInv
<1>4. CommandInv'
    BY <1>1, <1>2 DEF TeamInv, CommandInv
<1>5. Archived' => Archived /\ OnRecord \subseteq OnRecord'
    <2> SUFFICES ASSUME Archived' PROVE Archived /\ OnRecord \subseteq OnRecord'
        OBVIOUS
    <2>1. loaded[a] = <<archive>> /\ Archived
        BY <1>1 DEF Archived, Undisturbed
    <2>2. archive' = archive \cup pending[a]
        BY <1>1, <2>1
    <2> QED
        BY <1>1, <1>2, <2>1, <2>2 DEF OnRecord
<1>6. \A b \in Agents, x \in Commands : Due(x, b)' = Due(x, b)
    BY <1>1 DEF Due
<1>7. Undisturbed' = Undisturbed
    BY <1>1 DEF Undisturbed
<1>8. EffectsInv'
    BY <1>1, <1>6, <1>7 DEF TeamInv, EffectsInv, Commands
<1>9. RecordInv'
    <2>1. CASE Archived'
        BY <1>5, <1>6, <2>1, RecordKept DEF Commands
    <2> QED
        BY <2>1 DEF RecordInv
<1> QED
    BY <1>3, <1>4, <1>8, <1>9 DEF StepKeeps

\* A process is killed; what it held is dropped.
LEMMA DieKeeps ==
    ASSUME TeamInv, NEW a \in Agents, Die(a)
    PROVE  StepKeeps
<1>1. /\ UNCHANGED <<file, buf, robbed, cmd, pending, archive, started, acked, advances, stomped, crossed>>
      /\ pc' = [pc EXCEPT ![a] = "dead"] /\ dropped' = (dropped \/ pending[a] # {})
    BY DEF Die, Kill, Goto
<1>2. \A b \in Agents : pc'[b] = IF b = a THEN "dead" ELSE pc[b]
    BY <1>1 DEF TeamInv, LockInv, LockTypeOK
<1>3. DocsInv'
    BY <1>1 DEF TeamInv, DocsInv
<1>4. CommandInv'
    BY <1>1, <1>2 DEF TeamInv, CommandInv, BeforeRelease
<1>5. Archived' => Archived /\ OnRecord \subseteq OnRecord'
    <2> SUFFICES ASSUME Archived' PROVE Archived /\ OnRecord \subseteq OnRecord'
        OBVIOUS
    <2>1. pending[a] = {} /\ Archived
        BY <1>1 DEF Archived, Undisturbed
    <2>2. \A b \in Agents : pc[b] # "dead" /\ pending[b] # {} => pc'[b] # "dead"
        BY <1>2, <2>1
    <2> QED
        BY <1>1, <2>1, <2>2 DEF OnRecord
<1>6. \A b \in Agents, x \in Commands : Due(x, b)' => Due(x, b)
    BY <1>1, <1>2 DEF Due
<1>7. Undisturbed' = Undisturbed
    BY <1>1 DEF Undisturbed
<1>8. EffectsInv'
    BY <1>1, <1>6, <1>7 DEF TeamInv, EffectsInv, Commands
<1>9. RecordInv'
    <2>1. CASE Archived'
        BY <1>5, <1>6, <2>1, RecordKept DEF Commands
    <2> QED
        BY <2>1 DEF RecordInv
<1> QED
    BY <1>3, <1>4, <1>8, <1>9 DEF StepKeeps

\* Every step keeps the invariant.
LEMMA TeamStepInv == TeamInv /\ [TeamNext]_teamVars => TeamInv'
<1> SUFFICES ASSUME TeamInv, [TeamNext]_teamVars PROVE TeamInv'
    OBVIOUS
<1>1. LockInv'
    BY TeamStepLock, LockTypeStep, ExclusiveStep, UpdateStep DEF TeamInv, LockInv
<1>2. ASSUME NEW a \in Agents, NEW c \in Commands, Start(a, c)
      PROVE  StepKeeps
    BY <1>2, StartKeeps
<1>3. ASSUME NEW a \in Agents, Proceed(a) PROVE StepKeeps
    BY <1>3, WaitingKeeps, StoreKeeps, LeaveKeeps, ReadArchiveKeeps, ArchiveKeeps DEF Proceed
<1>4. ASSUME NEW a \in Agents, Die(a) PROVE StepKeeps
    BY <1>4, DieKeeps
<1>5. CASE (Age /\ Unlogged) \/ UNCHANGED teamVars
    <2>1. UNCHANGED <<file, buf, pc, robbed, stomped, cmd, pending, archive, started, acked, advances,
                      dropped, crossed>>
        BY <1>5 DEF Age, Unlogged, teamVars, lockVars, historyVars
    <2> QED
        <3>1. LockTypeOK' /\ (Undisturbed' => Undisturbed)
            BY <1>1, <2>1 DEF LockInv, Undisturbed
        <3>2. \A b \in Agents : buf'[b] \in {buf[b], file}
            BY <2>1
        <3>3. \A b \in Agents : pc'[b] = pc[b]
            BY <2>1
        <3>4. UNCHANGED <<file, cmd, pending, archive, started, acked, advances, dropped, crossed>>
            BY <2>1
        <3>5. StepKeeps
            BY <3>1, <3>2, <3>3, <3>4, LockStepKeeps
        <3> QED
            BY <1>1, <3>5 DEF TeamInv, StepKeeps
<1> QED
    BY <1>1, <1>2, <1>3, <1>4, <1>5 DEF TeamNext, TeamInv, StepKeeps

\* The inductive invariant of the team, for any number of agents and commands.
THEOREM TeamInvariant == TeamSpec => []TeamInv
BY TeamInitInv, TeamStepInv, PTL DEF TeamSpec

\* STATE.md never holds a decision that no command made, whatever lock was
\* taken from whom: every write is a whole document made from one that was read.
THEOREM TeamTypeCorrect == TeamSpec => []TeamTypeOK
<1>1. TeamInv => TeamTypeOK
    BY DEF TeamInv, LockInv, DocsInv, CommandInv, TeamTypeOK, IsTeamDoc
<1> QED
    BY <1>1, TeamInvariant, PTL

\* Until a lock is taken from an agent at work or a blind writer stores what it
\* read before, what each command that ended has added to STATE.md is still on
\* record: its decision for as long as no prune died between its two writes and
\* no two prunes wrote STATE-ARCHIVE.md over each other, everything else always.
THEOREM TeamEffectsKept == TeamSpec => []EffectsKept
<1>1. TeamInv => EffectsKept
    <2> SUFFICES ASSUME TeamInv, Undisturbed PROVE EffectsKept
        BY DEF EffectsKept
    <2>1. ~dropped /\ ~crossed => Olds \cup {Made(a) : a \in By("decide")} \subseteq OnRecord
        <3>1. By("decide") \subseteq {b \in Agents : Due("decide", b)}
            BY DEF By, Due
        <3> QED
            BY <3>1 DEF TeamInv, RecordInv, Archived, Owed
    <2>2. /\ By("metric") \subseteq file.timings
          /\ (By("block") \ (By("resolve") \cup {a \in Agents : cmd[a] = "resolve"}))
               \subseteq file.blockers
          /\ By("session") # {} => file.session.stopped # ""
        BY DEF TeamInv, EffectsInv, By, Due
    <2>3. PlanOf(file)[1] = IF 1 + advances > 3 THEN 3 ELSE 1 + advances
        <3>1. Plans(advances) \in Nat /\ IsDoc(file) /\ Counts(file, Plans(advances))
            <4>1. Counts(file, Plans(advances)) /\ IsDoc(file)
                BY DEF TeamInv, EffectsInv, DocsInv, IsTeamDoc
            <4>2. Plans(advances) \in Nat
                BY DEF TeamInv, CommandInv, Plans
            <4> QED
                BY <4>1, <4>2
        <3>2. PlanOf(file) = <<Plans(advances), 3>>
            BY <3>1, CountsPlanOf
        <3> QED
            BY <3>2 DEF Plans
    <2> QED
        BY <2>1, <2>2, <2>3 DEF EffectsKept
<1> QED
    BY <1>1, TeamInvariant, PTL
-----------------------------------------------------------------------------
(* The planning lock and its writers.                                      *)

PlanLockInv == PlanLockTypeOK /\ OneInside

LEMMA PlanLockInitInv == PlanLockInit => PlanLockInv
<1> SUFFICES ASSUME PlanLockInit PROVE PlanLockInv
    OBVIOUS
<1>1. 0 \in 0 .. MaxWaits
    BY WaitAssumption
<1>2. PlanLockTypeOK
    BY <1>1 DEF PlanLockInit, PlanLockTypeOK
<1>3. OneInside
    BY DEF PlanLockInit, OneInside, Inside, Body
<1> QED
    BY <1>2, <1>3 DEF PlanLockInv

\* Every step keeps the variables in their types.
LEMMA PlanLockTypeStep == PlanLockTypeOK /\ [PlanLockNext]_planLockVars => PlanLockTypeOK'
<1> SUFFICES ASSUME PlanLockTypeOK, [PlanLockNext]_planLockVars PROVE PlanLockTypeOK'
    OBVIOUS
<1> USE WaitAssumption DEF PlanLockTypeOK, StepTo, Early, Body
<1>1. ASSUME NEW w \in Workers, NEW first \in {"load", "try"}, Launch(w, first)
      PROVE  PlanLockTypeOK'
    BY <1>1 DEF Launch
<1>2. ASSUME NEW w \in Workers, NEW next \in Early \cup {"try"}, Prepare(w, next)
      PROVE  PlanLockTypeOK'
    BY <1>2 DEF Prepare
<1>3. ASSUME NEW w \in Workers, Take(w) PROVE PlanLockTypeOK'
    BY <1>3 DEF Take
<1>4. ASSUME NEW w \in Workers, Refuse(w) PROVE PlanLockTypeOK'
    BY <1>4 DEF Refuse
<1>5. ASSUME NEW w \in Workers, UnlinkExpired(w) \/ Unlock(w) PROVE PlanLockTypeOK'
    BY <1>5 DEF UnlinkExpired, Unlock, Robs, Inside
<1>6. ASSUME NEW w \in Workers, RunBare(w) \/ KillWorker(w) PROVE PlanLockTypeOK'
    BY <1>6 DEF RunBare, KillWorker
<1>7. ASSUME NEW w \in Workers, NEW next \in Body \cup {"unlock"}, Work(w, next)
      PROVE  PlanLockTypeOK'
    <2>1. (IF next = "unlock" /\ bare[w] THEN "off" ELSE next) \in {"off", "unlock"} \cup Body
        BY <1>7
    <2> QED
        BY <1>7, <2>1 DEF Work
<1>8. ASSUME Expire \/ UNCHANGED planLockVars PROVE PlanLockTypeOK'
    BY <1>8 DEF Expire, planLockVars
<1> QED
    BY <1>1, <1>2, <1>3, <1>4, <1>5, <1>6, <1>7, <1>8 DEF PlanLockNext, PlanLockStep

\* Who is inside after a step of w, and whose the lock file is.
LEMMA OneInsideStep ==
    PlanLockTypeOK /\ OneInside /\ [PlanLockNext]_planLockVars => OneInside'
<1> SUFFICES ASSUME PlanLockTypeOK, OneInside, [PlanLockNext]_planLockVars, ~forced',
                    NEW v \in Workers, Inside(v)'
             PROVE  holder' = v
    BY DEF OneInside
<1> USE WorkerAssumption DEF PlanLockTypeOK, OneInside, Inside, StepTo, Body
<1>1. ASSUME NEW w \in Workers, NEW first \in {"load", "try"}, Launch(w, first)
      PROVE  holder' = v
    BY <1>1 DEF Launch
<1>2. ASSUME NEW w \in Workers, NEW next \in Early \cup {"try"}, Prepare(w, next)
      PROVE  holder' = v
    BY <1>2 DEF Prepare, Early
<1>3. ASSUME NEW w \in Workers, Take(w) PROVE holder' = v
    BY <1>3 DEF Take
<1>4. ASSUME NEW w \in Workers, Refuse(w) PROVE holder' = v
    BY <1>4 DEF Refuse
<1>5. ASSUME NEW w \in Workers, UnlinkExpired(w) PROVE holder' = v
    <2>1. v # w /\ step[v] = step'[v] /\ ~forced /\ ~Robs(w)
        BY <1>5 DEF UnlinkExpired
    <2>2. holder = v
        BY <2>1
    <2> QED
        BY <2>1, <2>2 DEF Robs
<1>6. ASSUME NEW w \in Workers, RunBare(w) PROVE holder' = v
    BY <1>6 DEF RunBare
<1>7. ASSUME NEW w \in Workers, NEW next \in Body \cup {"unlock"}, Work(w, next)
      PROVE  holder' = v
    BY <1>7 DEF Work
<1>8. ASSUME NEW w \in Workers, Unlock(w) PROVE holder' = v
    <2>1. v # w /\ step[v] = step'[v] /\ ~forced /\ ~Robs(w)
        BY <1>8 DEF Unlock
    <2>2. holder = v
        BY <2>1
    <2> QED
        BY <2>1, <2>2 DEF Robs
<1>9. ASSUME NEW w \in Workers, KillWorker(w) PROVE holder' = v
    BY <1>9 DEF KillWorker
<1>10. ASSUME Expire \/ UNCHANGED planLockVars PROVE holder' = v
    BY <1>10 DEF Expire, planLockVars
<1> QED
    BY <1>1, <1>2, <1>3, <1>4, <1>5, <1>6, <1>7, <1>8, <1>9, <1>10 DEF PlanLockNext, PlanLockStep

-----------------------------------------------------------------------------
(* The team of commands runs by the protocol of the lock. *)

\* Every step of the commands is one of the lock's, or leaves the lock alone.
LEMMA TeamStepPlanLock == [PlanTeamNext]_planTeamVars => [PlanLockNext]_planLockVars
<1> SUFFICES ASSUME [PlanTeamNext]_planTeamVars PROVE [PlanLockNext]_planLockVars
    OBVIOUS
<1> USE DEF PlanLockNext, PlanLockStep
<1>1. ASSUME NEW w \in Workers, NEW kind \in Kinds, StartJob(w, kind) PROVE PlanLockNext
    BY <1>1 DEF StartJob
<1>2. ASSUME NEW w \in Workers, CountSummaries(w) \/ LoadConfig(w) \/ TearConfig(w) \/ FillConfig(w)
      PROVE  PlanLockNext
    BY <1>2 DEF CountSummaries, LoadConfig, TearConfig, FillConfig, Early
<1>3. ASSUME NEW w \in Workers, Waiting(w) \/ EndJob(w) \/ DieAtWork(w) PROVE PlanLockNext
    BY <1>3 DEF Waiting, EndJob, DieAtWork
<1>4. ASSUME NEW w \in Workers, ScanPhases(w) \/ MakeFolder(w) \/ StorePhase(w) PROVE PlanLockNext
    BY <1>4 DEF ScanPhases, MakeFolder, StorePhase, Body
<1>5. ASSUME NEW w \in Workers,
             ScanRow(w) \/ StoreRow(w) \/ ScanConfig(w) \/ StoreConfig(w)
      PROVE  PlanLockNext
    BY <1>5 DEF ScanRow, StoreRow, ScanConfig, StoreConfig, Body
<1>6. CASE Expire \/ UNCHANGED planTeamVars
    BY <1>6 DEF planTeamVars
<1> QED
    BY <1>1, <1>2, <1>3, <1>4, <1>5, <1>6 DEF PlanTeamNext, GoOn

\* Until a command times out or its lock file is taken while it works, at most
\* one process is inside withPlanningLock, whatever commands they run.
THEOREM PlanningExcludes == PlanTeamSpec => []OneInside
<1>1. PlanTeamInit => PlanLockInv
    BY PlanLockInitInv DEF PlanTeamInit
<1>2. PlanLockInv /\ [PlanTeamNext]_planTeamVars => PlanLockInv'
    BY PlanLockTypeStep, OneInsideStep, TeamStepPlanLock DEF PlanLockInv
<1>3. PlanLockInv => OneInside
    BY DEF PlanLockInv
<1> QED
    BY <1>1, <1>2, <1>3, PTL DEF PlanTeamSpec

-----------------------------------------------------------------------------
(* What the commands on ROADMAP.md and config.json have written stays.     *)

AllJobs == Kinds \X (1 .. MaxJobs) \cup {NoJob}
Roadmaps == [phases : SUBSET (Nat \X AllJobs), row : Nat]
Configs == [inode : Nat, torn : BOOLEAN, legacy : BOOLEAN, keys : SUBSET AllJobs]

\* Types of the files and of what the workers hold of them.
FilesInv ==
    /\ job \in [Workers -> AllJobs]
    /\ roadmap \in Roadmaps /\ folders \subseteq Nat \X AllJobs /\ <<1, NoJob>> \in folders
    /\ summaries \in Nat /\ config \in Configs
    /\ copy \in [Workers -> [roadmap : Roadmaps, config : Configs, number : Nat]]
    /\ jobs \in 0 .. MaxJobs /\ done \subseteq Kinds \X (1 .. MaxJobs)
    /\ \A w \in Workers : step[w] = "mkdir" => Kind(w) = "add"

\* Some number is above every number given so far.
NumbersUnder(top) ==
    /\ \A x \in roadmap.phases \cup folders : x[1] <= top
    /\ \A w \in Workers :
          copy[w].number <= top /\ \A x \in copy[w].roadmap.phases : x[1] <= top

NumbersBounded == \E top \in Nat : NumbersUnder(top)

\* A worker inside still has the ROADMAP.md there is; the number it found is
\* free until its own mkdir, and its directory is there before its heading.
AddsInv ==
    ~forced =>
        /\ \A x, y \in folders : x # y => x[1] # y[1]
        /\ roadmap.phases \subseteq folders
        /\ \A j \in done : j[1] = "add" => \E x \in roadmap.phases : x[2] = j
        /\ \A w \in Workers :
             /\ step[w] \in {"mkdir", "store"} /\ Kind(w) \in {"add", "count"}
                   => copy[w].roadmap = roadmap
             /\ step[w] = "mkdir" => \A x \in folders : x[1] # copy[w].number
             /\ step[w] = "store" /\ Kind(w) = "add" => <<copy[w].number, job[w]>> \in folders

SetJobs == {j \in done : j[1] = "set"}

\* Every key in a config.json, or in a copy of it, was set by a command that
\* ended; a worker about to store has all those keys, in a text that is JSON.
SetsInv ==
    /\ config.keys \subseteq SetJobs
    /\ \A w \in Workers : copy[w].config.keys \subseteq SetJobs
    /\ ~forced /\ ~clobbered /\ ~config.torn => SetJobs \subseteq config.keys
    /\ \A w \in Workers : step[w] = "store" /\ Kind(w) = "set" =>
          /\ ~copy[w].config.torn
          /\ ~forced /\ ~clobbered => SetJobs \subseteq copy[w].config.keys

\* A torn config.json is in the hands of the worker that tore this very file.
TornInv ==
    ~clobbered /\ ~halved /\ config.torn =>
        \E w \in Workers : step[w] = "fill" /\ copy[w].config.inode = config.inode

PlanTeamInv ==
    PlanLockInv /\ FilesInv /\ NumbersBounded /\ AddsInv /\ SetsInv /\ TornInv

-----------------------------------------------------------------------------
(* The highest number. *)

\* A nonempty set of numbers with a bound has a highest number.
LEMMA HighestIs ==
    ASSUME NEW numbers \in SUBSET Nat, numbers # {}, NEW top \in Nat,
           \A n \in numbers : n <= top
    PROVE  Highest(numbers) \in numbers /\ \A n \in numbers : n <= Highest(numbers)
<1> DEFINE bounds == {b \in Nat : \A n \in numbers : n <= b}
<1>1. PICK b \in bounds : \A c \in bounds : ~(c < b)
    <2>1. bounds \subseteq Nat /\ bounds # {}
        OBVIOUS
    <2>2. PICK b \in bounds : \A c \in bounds : <<c, b>> \notin OpToRel(<, Nat)
        BY <2>1, NatLessThanWellFounded, WFMin
    <2> QED
        BY <2>1, <2>2 DEF OpToRel
<1>2. b \in numbers
    <2> SUFFICES ASSUME b \notin numbers PROVE FALSE
        OBVIOUS
    <2>1. b \in Nat /\ \A n \in numbers : n \in Nat /\ n < b
        BY <1>1
    <2>2. PICK n \in numbers : TRUE
        OBVIOUS
    <2>3. b # 0
        BY <2>1, <2>2
    <2>4. b - 1 \in Nat /\ \A m \in numbers : m <= b - 1
        BY <2>1, <2>3
    <2> QED
        BY <1>1, <2>1, <2>4
<1>3. \E h \in numbers : \A n \in numbers : n <= h
    BY <1>1, <1>2
<1> QED
    BY <1>3 DEF Highest

\* The number phase add finds is above every number there is.
LEMMA NextIsFree ==
    ASSUME FilesInv, NumbersBounded
    PROVE  NextFree \in Nat /\ \A x \in roadmap.phases \cup folders : x[1] < NextFree
<1> DEFINE numbers == {x[1] : x \in roadmap.phases \cup folders}
<1>1. PICK top \in Nat : \A x \in roadmap.phases \cup folders : x[1] <= top
    BY DEF NumbersBounded, NumbersUnder
<1>2. \A x \in roadmap.phases \cup folders : x[1] \in Nat
    BY DEF FilesInv, Roadmaps
<1>3. numbers \in SUBSET Nat /\ numbers # {} /\ \A n \in numbers : n <= top
    BY <1>1, <1>2 DEF FilesInv
<1> HIDE DEF numbers
<1>4. Highest(numbers) \in numbers /\ \A n \in numbers : n <= Highest(numbers)
    BY <1>1, <1>3, HighestIs
<1>5. NextFree = 1 + Highest(numbers)
    BY DEF NextFree, numbers
<1>6. \A x \in roadmap.phases \cup folders : x[1] \in numbers
    BY DEF numbers
<1>7. Highest(numbers) \in Nat
    BY <1>3, <1>4
<1> QED
    BY <1>2, <1>4, <1>5, <1>6, <1>7

-----------------------------------------------------------------------------
(* The types of the files. *)

LEMMA FilesStep ==
    ASSUME PlanTeamInv, [PlanTeamNext]_planTeamVars
    PROVE  FilesInv'
<1> USE DEF PlanTeamInv, FilesInv
<1> USE JobAssumption
<1>0. /\ step \in [Workers -> {"off", "try", "unlink", "unlock", "killed"} \cup Early \cup Body]
      /\ \A w \in Workers : copy[w].roadmap \in Roadmaps /\ copy[w].config \in Configs
                             /\ copy[w].number \in Nat
    BY DEF PlanLockInv, PlanLockTypeOK
<1>1. ASSUME NEW w \in Workers, NEW kind \in Kinds, StartJob(w, kind) PROVE FilesInv'
    <2>1. <<kind, jobs + 1>> \in Kinds \X (1 .. MaxJobs)
        BY <1>1 DEF StartJob
    <2>2. job' \in [Workers -> AllJobs] /\ jobs' \in 0 .. MaxJobs /\ summaries' \in Nat
        BY <1>1, <2>1 DEF StartJob, AllJobs
    <2>3. \A v \in Workers : step'[v] = "mkdir" => v # w /\ step[v] = "mkdir" /\ job'[v] = job[v]
        BY <1>0, <1>1 DEF StartJob, Launch, StepTo
    <2> QED
        BY <1>1, <2>2, <2>3 DEF StartJob, Kind
<1>2. ASSUME NEW w \in Workers,
             CountSummaries(w) \/ LoadConfig(w) \/ TearConfig(w) \/ FillConfig(w)
      PROVE  FilesInv'
    <2>1. \A v \in Workers : step'[v] = "mkdir" => step[v] = "mkdir"
        BY <1>0, <1>2 DEF CountSummaries, LoadConfig, TearConfig, FillConfig, Prepare, StepTo, Early
    <2>2. UNCHANGED <<job, roadmap, folders, summaries, jobs, done>>
        BY <1>2 DEF CountSummaries, LoadConfig, TearConfig, FillConfig, Files, Logs
    <2>3. CASE CountSummaries(w)
        <3>1. copy' = [copy EXCEPT ![w].number = summaries] /\ config' = config
            BY <2>3 DEF CountSummaries, Files
        <3> QED
            BY <2>1, <2>2, <3>1 DEF Kind
    <2>4. CASE LoadConfig(w)
        <3>1. copy' = [copy EXCEPT ![w].config = config] /\ config' = config
            BY <2>4 DEF LoadConfig, Files
        <3> QED
            BY <2>1, <2>2, <3>1 DEF Kind
    <2>5. CASE TearConfig(w)
        <3>1. config' = [config EXCEPT !.torn = TRUE, !.legacy = FALSE, !.keys = {}]
              /\ copy' = [copy EXCEPT ![w].config.inode = config.inode]
            BY <2>5 DEF TearConfig
        <3>2. config' \in Configs
            BY <3>1 DEF Configs
        <3>3. [copy[w].config EXCEPT !.inode = config.inode] \in Configs
            BY <1>0 DEF Configs
        <3>4. copy' = [copy EXCEPT ![w] = [copy[w] EXCEPT !.config =
                                             [copy[w].config EXCEPT !.inode = config.inode]]]
            BY <3>1
        <3>5. copy' \in [Workers -> [roadmap : Roadmaps, config : Configs, number : Nat]]
            BY <3>3, <3>4
        <3> QED
            BY <2>1, <2>2, <3>2, <3>5 DEF Kind
    <2>6. CASE FillConfig(w)
        <3> DEFINE mine == [copy[w].config EXCEPT !.legacy = FALSE]
        <3>1. copy' = copy
              /\ config' = IF config.inode # mine.inode THEN config
                           ELSE [mine EXCEPT !.torn = Cardinality(config.keys) > Cardinality(mine.keys)]
            BY <2>6 DEF FillConfig
        <3>2. mine \in Configs
            BY <1>0 DEF Configs
        <3> HIDE DEF mine
        <3>3. (Cardinality(config.keys) > Cardinality(mine.keys)) \in BOOLEAN
            OBVIOUS
        <3>4. config' \in Configs
            BY <3>1, <3>2, <3>3 DEF Configs
        <3> QED
            BY <2>1, <2>2, <3>1, <3>4 DEF Kind
    <2> QED
        BY <1>2, <2>3, <2>4, <2>5, <2>6
<1>3. ASSUME NEW w \in Workers, Waiting(w) \/ EndJob(w) \/ DieAtWork(w) PROVE FilesInv'
    <2>1. \A v \in Workers : step'[v] = "mkdir" => step[v] = "mkdir"
        BY <1>0, <1>3
        DEF Waiting, EndJob, DieAtWork, Take, Refuse, UnlinkExpired, RunBare, Unlock, KillWorker, StepTo
    <2>2. UNCHANGED <<job, roadmap, folders, summaries, config, copy, jobs, done>>
        BY <1>3 DEF Waiting, EndJob, DieAtWork, Files, Logs
    <2> QED
        BY <2>1, <2>2 DEF Kind
<1>4. ASSUME NEW w \in Workers, ScanPhases(w) PROVE FilesInv'
    <2>1. \A v \in Workers : step'[v] = "mkdir" => step[v] = "mkdir" \/ v = w
        BY <1>0, <1>4 DEF ScanPhases, Work, StepTo
    <2>2. copy' = [copy EXCEPT ![w] = [copy[w] EXCEPT !.roadmap = roadmap, !.number = NextFree]]
        BY <1>4 DEF ScanPhases
    <2>3. copy' \in [Workers -> [roadmap : Roadmaps, config : Configs, number : Nat]]
        BY <2>2, NextIsFree
    <2> QED
        BY <1>4, <2>1, <2>3 DEF ScanPhases, Files, Logs, Kind
<1>5. ASSUME NEW w \in Workers, MakeFolder(w) \/ StorePhase(w) PROVE FilesInv'
    <2>1. \A v \in Workers : step'[v] = "mkdir" => step[v] = "mkdir"
        BY <1>0, <1>5 DEF MakeFolder, StorePhase, Work, StepTo
    <2>2. <<copy[w].number, job[w]>> \in Nat \X AllJobs
        BY <1>0
    <2>3. CASE MakeFolder(w)
        <3>1. folders' = folders \cup {<<copy[w].number, job[w]>>}
              /\ UNCHANGED <<job, roadmap, summaries, config, copy, jobs, done>>
            BY <2>3 DEF MakeFolder, Logs
        <3>2. folders' \subseteq Nat \X AllJobs /\ <<1, NoJob>> \in folders'
            BY <2>2, <3>1
        <3> QED
            BY <2>1, <3>1, <3>2 DEF Kind
    <2>4. CASE StorePhase(w)
        <3>1. job[w] \in Kinds \X (1 .. MaxJobs)
            BY <2>4 DEF StorePhase, Kind, AllJobs, NoJob
        <3>2. roadmap' \in Roadmaps
            BY <1>0, <2>2, <2>4 DEF StorePhase, Roadmaps
        <3> QED
            BY <2>1, <2>4, <3>1, <3>2 DEF StorePhase, Kind
    <2> QED
        BY <1>5, <2>3, <2>4
<1>6. ASSUME NEW w \in Workers, ScanRow(w) \/ StoreRow(w) PROVE FilesInv'
    <2>1. \A v \in Workers : step'[v] = "mkdir" => step[v] = "mkdir"
        BY <1>0, <1>6 DEF ScanRow, StoreRow, Work, StepTo
    <2>2. CASE ScanRow(w)
        BY <2>1, <2>2 DEF ScanRow, Kind, Files, Logs
    <2>3. CASE StoreRow(w)
        <3>1. job[w] \in Kinds \X (1 .. MaxJobs)
            BY <2>3 DEF StoreRow, Kind, AllJobs, NoJob
        <3>2. roadmap' \in Roadmaps
            BY <1>0, <2>3 DEF StoreRow, Roadmaps
        <3> QED
            BY <2>1, <2>3, <3>1, <3>2 DEF StoreRow, Kind
    <2> QED
        BY <1>6, <2>2, <2>3
<1>7. ASSUME NEW w \in Workers, ScanConfig(w) \/ StoreConfig(w) PROVE FilesInv'
    <2>1. \A v \in Workers : step'[v] = "mkdir" => step[v] = "mkdir"
        BY <1>0, <1>7 DEF ScanConfig, StoreConfig, Work, StepTo
    <2>2. CASE ScanConfig(w)
        BY <2>1, <2>2 DEF ScanConfig, Kind, Files, Logs
    <2>3. CASE StoreConfig(w)
        <3>1. job[w] \in Kinds \X (1 .. MaxJobs)
            BY <2>3 DEF StoreConfig, Kind, AllJobs, NoJob
        <3>2. config' \in Configs
            <4>1. config.inode + 1 \in Nat /\ copy[w].config.keys \cup {job[w]} \in SUBSET AllJobs
                BY <1>0 DEF Configs
            <4>2. config' = [copy[w].config EXCEPT !.inode = config.inode + 1,
                                                   !.keys = copy[w].config.keys \cup {job[w]}]
                BY <2>3 DEF StoreConfig
            <4> QED
                BY <1>0, <4>1, <4>2 DEF Configs
        <3> QED
            BY <2>1, <2>3, <3>1, <3>2 DEF StoreConfig, Kind
    <2> QED
        BY <1>7, <2>2, <2>3
<1>8. ASSUME (Expire /\ UNCHANGED <<job, Files, copy, Logs>>) \/ UNCHANGED planTeamVars
      PROVE  FilesInv'
    BY <1>8 DEF Expire, planTeamVars, planLockVars, Files, Logs, Kind
<1> QED
    BY <1>1, <1>2, <1>3, <1>4, <1>5, <1>6, <1>7, <1>8 DEF PlanTeamNext, GoOn

-----------------------------------------------------------------------------
(* The other parts, step by step. *)

\* What holds of the types whenever the invariant does.
LEMMA TeamTypes ==
    ASSUME PlanTeamInv
    PROVE  /\ step \in [Workers -> {"off", "try", "unlink", "unlock", "killed"} \cup Early \cup Body]
           /\ copy \in [Workers -> [roadmap : Roadmaps, config : Configs, number : Nat]]
           /\ job \in [Workers -> AllJobs] /\ config \in Configs /\ roadmap \in Roadmaps
BY DEF PlanTeamInv, PlanLockInv, PlanLockTypeOK, FilesInv

\* The numbers stay under a bound, which grows with the number found.
LEMMA NumbersStep ==
    ASSUME PlanTeamInv, [PlanTeamNext]_planTeamVars
    PROVE  NumbersBounded'
<1>0. PICK top \in Nat : NumbersUnder(top)
    BY DEF PlanTeamInv, NumbersBounded
<1>1. \A v \in Workers : copy[v].number \in Nat /\ copy[v].roadmap \in Roadmaps
    BY TeamTypes
<1>2. /\ \A x \in roadmap.phases \cup folders : x[1] \in Nat
      /\ \A v \in Workers : \A x \in copy[v].roadmap.phases : x[1] \in Nat
    BY <1>1 DEF PlanTeamInv, FilesInv, Roadmaps
<1>3. ASSUME UNCHANGED <<roadmap, folders>>,
             \A v \in Workers : copy'[v].number = copy[v].number /\ copy'[v].roadmap = copy[v].roadmap
      PROVE  NumbersBounded'
    BY <1>0, <1>3 DEF NumbersBounded, NumbersUnder
<1>4. ASSUME NEW w \in Workers, CountSummaries(w) PROVE NumbersBounded'
    <2>1. /\ UNCHANGED <<roadmap, folders>>
          /\ copy' = [copy EXCEPT ![w].number = summaries]
        BY <1>4 DEF CountSummaries, Files
    <2>2. \A v \in Workers : copy'[v].roadmap = copy[v].roadmap
                              /\ copy'[v].number \in {copy[v].number, summaries}
        BY <2>1, TeamTypes
    <2>3. summaries \in Nat /\ top + summaries \in Nat
        BY DEF PlanTeamInv, FilesInv
    <2>4. PICK high \in Nat : /\ summaries <= high
                              /\ \A n \in Nat : n <= top => n <= high
        BY <2>3
    <2>5. NumbersUnder(high)'
        BY <1>0, <1>1, <1>2, <2>1, <2>2, <2>3, <2>4 DEF NumbersUnder
    <2> QED
        BY <2>5 DEF NumbersBounded
<1>5. ASSUME NEW w \in Workers, ScanPhases(w) PROVE NumbersBounded'
    <2>1. /\ UNCHANGED <<roadmap, folders>>
          /\ copy' = [copy EXCEPT ![w] = [copy[w] EXCEPT !.roadmap = roadmap, !.number = NextFree]]
        BY <1>5 DEF ScanPhases, Files
    <2>2. \A v \in Workers : copy'[v].roadmap \in {copy[v].roadmap, roadmap}
                              /\ copy'[v].number \in {copy[v].number, NextFree}
        BY <2>1, TeamTypes
    <2>3. NextFree \in Nat /\ top + NextFree \in Nat
        BY NextIsFree DEF PlanTeamInv
    <2>4. PICK high \in Nat : /\ NextFree <= high
                              /\ \A n \in Nat : n <= top => n <= high
        BY <2>3
    <2>5. NumbersUnder(high)'
        BY <1>0, <1>1, <1>2, <2>1, <2>2, <2>3, <2>4 DEF NumbersUnder
    <2> QED
        BY <2>5 DEF NumbersBounded
<1>6. ASSUME NEW w \in Workers, MakeFolder(w) \/ StorePhase(w) PROVE NumbersBounded'
    <2>1. /\ UNCHANGED copy
          /\ \A x \in roadmap'.phases \cup folders' :
                \/ x \in roadmap.phases \cup folders \cup copy[w].roadmap.phases
                \/ x = <<copy[w].number, job[w]>>
        <3>1. CASE MakeFolder(w)
            BY <3>1 DEF MakeFolder
        <3>2. CASE StorePhase(w)
            <4>1. roadmap'.phases = copy[w].roadmap.phases \cup {<<copy[w].number, job[w]>>}
                BY <1>1, <3>2 DEF StorePhase, Roadmaps
            <4> QED
                BY <3>2, <4>1 DEF StorePhase
        <3> QED
            BY <1>6, <3>1, <3>2
    <2> QED
        BY <1>0, <2>1 DEF NumbersBounded, NumbersUnder
<1>7. ASSUME NEW w \in Workers, ScanRow(w) \/ StoreRow(w) PROVE NumbersBounded'
    <2>1. CASE ScanRow(w)
        <3>1. /\ UNCHANGED <<roadmap, folders>>
              /\ copy' = [copy EXCEPT ![w] = [copy[w] EXCEPT !.roadmap = roadmap]]
            BY <2>1 DEF ScanRow, Files
        <3>2. \A v \in Workers : copy'[v].roadmap \in {copy[v].roadmap, roadmap}
                                  /\ copy'[v].number = copy[v].number
            BY <3>1, TeamTypes
        <3> QED
            BY <1>0, <3>1, <3>2 DEF NumbersBounded, NumbersUnder
    <2>2. CASE StoreRow(w)
        <3>1. roadmap'.phases = copy[w].roadmap.phases
            BY <1>1, <2>2 DEF StoreRow, Roadmaps
        <3> QED
            BY <1>0, <2>2, <3>1 DEF StoreRow, NumbersBounded, NumbersUnder
    <2> QED
        BY <1>7, <2>1, <2>2
<1>8. ASSUME NEW w \in Workers,
             (\E kind \in Kinds : StartJob(w, kind)) \/ LoadConfig(w) \/ TearConfig(w) \/ FillConfig(w)
             \/ Waiting(w) \/ ScanConfig(w) \/ StoreConfig(w) \/ EndJob(w) \/ DieAtWork(w)
      PROVE  NumbersBounded'
    <2>1. UNCHANGED <<roadmap, folders>>
        BY <1>8 DEF StartJob, LoadConfig, TearConfig, FillConfig, Waiting, ScanConfig, StoreConfig,
                    EndJob, DieAtWork, Files
    <2>2. \/ UNCHANGED copy
          \/ copy' = [copy EXCEPT ![w].config = config]
          \/ copy' = [copy EXCEPT ![w].config.inode = config.inode]
        BY <1>8 DEF StartJob, LoadConfig, TearConfig, FillConfig, Waiting, ScanConfig, StoreConfig,
                    EndJob, DieAtWork
    <2>3. \A v \in Workers : copy'[v].number = copy[v].number /\ copy'[v].roadmap = copy[v].roadmap
        BY <2>2, TeamTypes
    <2> QED
        BY <1>3, <2>1, <2>3
<1>9. ASSUME (Expire /\ UNCHANGED <<job, Files, copy, Logs>>) \/ UNCHANGED planTeamVars
      PROVE  NumbersBounded'
    BY <1>3, <1>9 DEF planTeamVars, Files
<1> QED
    BY <1>4, <1>5, <1>6, <1>7, <1>8, <1>9 DEF PlanTeamNext, GoOn

\* Exclusion is not taken up again, and no step makes a worker another's.
LEMMA ForcedStays == [PlanTeamNext]_planTeamVars => (forced => forced')
<1> SUFFICES ASSUME [PlanTeamNext]_planTeamVars, forced PROVE forced'
    OBVIOUS
<1>1. [PlanLockNext]_planLockVars
    BY TeamStepPlanLock
<1> QED
    BY <1>1 DEF PlanLockNext, PlanLockStep, planLockVars, Launch, Prepare, Take, Refuse, UnlinkExpired,
                RunBare, Work, Unlock, KillWorker, Expire

\* While exclusion holds, two workers inside are one.
LEMMA AloneInside ==
    ASSUME PlanTeamInv, ~forced, NEW v \in Workers, NEW w \in Workers, Inside(v), Inside(w)
    PROVE  v = w
BY DEF PlanTeamInv, PlanLockInv, OneInside

\* A step of the phases or of another command that leaves every worker between
\* its scan and its write with what it has.
LEMMA AddsQuiet ==
    ASSUME PlanTeamInv, forced => forced', UNCHANGED <<roadmap, folders>>,
           \A j \in done' : j \in done \/ j[1] # "add",
           \A v \in Workers : step'[v] \in {"mkdir", "store"} =>
               \/ step'[v] = "store" /\ job'[v][1] = "set"
               \/ /\ step'[v] = step[v] /\ job'[v] = job[v]
                  /\ copy'[v].roadmap = copy[v].roadmap /\ copy'[v].number = copy[v].number
    PROVE  AddsInv'
<1> SUFFICES ASSUME ~forced' PROVE AddsInv'
    BY DEF AddsInv
<1>1. AddsInv /\ ~forced
    BY DEF PlanTeamInv
<1> QED
    BY <1>1 DEF AddsInv, Kind

LEMMA AddsStep ==
    ASSUME PlanTeamInv, [PlanTeamNext]_planTeamVars
    PROVE  AddsInv'
<1> SUFFICES ASSUME ~forced' PROVE AddsInv'
    BY DEF AddsInv
<1>0. ~forced /\ (forced => forced') /\ AddsInv
    BY ForcedStays DEF PlanTeamInv
<1>1. ASSUME NEW w \in Workers, NEW kind \in Kinds, StartJob(w, kind) PROVE AddsInv'
    <2>1. /\ UNCHANGED <<roadmap, folders, done, copy>>
          /\ job' = [job EXCEPT ![w] = <<kind, jobs + 1>>]
          /\ step' = [step EXCEPT ![w] = IF kind = "set" THEN "try" ELSE "load"]
        BY <1>1 DEF StartJob, Launch, StepTo
    <2> QED
        BY <1>0, <2>1, TeamTypes, AddsQuiet
<1>2. ASSUME NEW w \in Workers,
             CountSummaries(w) \/ LoadConfig(w) \/ TearConfig(w) \/ FillConfig(w)
      PROVE  AddsInv'
    <2>1. UNCHANGED <<roadmap, folders, done, job>>
        BY <1>2 DEF CountSummaries, LoadConfig, TearConfig, FillConfig, Files, Logs
    <2>2. step'[w] \in {"try", "tear", "fill"} /\ \A v \in Workers \ {w} : step'[v] = step[v]
        BY <1>2, TeamTypes DEF CountSummaries, LoadConfig, TearConfig, FillConfig, Prepare, StepTo
    <2>3. \A v \in Workers \ {w} : copy'[v] = copy[v]
        BY <1>2, TeamTypes DEF CountSummaries, LoadConfig, TearConfig, FillConfig
    <2> QED
        BY <1>0, <2>1, <2>2, <2>3, AddsQuiet
<1>3. ASSUME NEW w \in Workers, Waiting(w) \/ EndJob(w) \/ DieAtWork(w) PROVE AddsInv'
    <2>1. UNCHANGED <<roadmap, folders, done, job, copy>>
        BY <1>3 DEF Waiting, EndJob, DieAtWork, Files, Logs
    <2>2. step'[w] \notin {"mkdir", "store"} \/ step' = step
        BY <1>3, TeamTypes
        DEF Waiting, EndJob, DieAtWork, Take, Refuse, UnlinkExpired, RunBare, Unlock, KillWorker, StepTo
    <2>3. \A v \in Workers \ {w} : step'[v] = step[v]
        BY <1>3, TeamTypes
        DEF Waiting, EndJob, DieAtWork, Take, Refuse, UnlinkExpired, RunBare, Unlock, KillWorker, StepTo
    <2> QED
        BY <1>0, <2>1, <2>2, <2>3, AddsQuiet
<1>4. ASSUME NEW w \in Workers, ScanConfig(w) \/ StoreConfig(w) PROVE AddsInv'
    <2>1. UNCHANGED <<roadmap, folders, job>> /\ Kind(w) = "set"
        BY <1>4 DEF ScanConfig, StoreConfig, Files
    <2>2. \A j \in done' : j \in done \/ j[1] # "add"
        BY <1>4 DEF ScanConfig, StoreConfig, Logs, Kind
    <2>3. step'[w] \in {"off", "unlock", "store"} /\ \A v \in Workers \ {w} : step'[v] = step[v]
        BY <1>4, TeamTypes DEF ScanConfig, StoreConfig, Work, StepTo
    <2>4. \A v \in Workers \ {w} : copy'[v] = copy[v]
        BY <1>4, TeamTypes DEF ScanConfig, StoreConfig
    <2> QED
        BY <1>0, <2>1, <2>2, <2>3, <2>4, AddsQuiet DEF Kind
<1>5. ASSUME NEW w \in Workers, ScanPhases(w) \/ ScanRow(w) PROVE AddsInv'
    <2>1. /\ UNCHANGED <<roadmap, folders, done, job>>
          /\ Inside(w) /\ Kind(w) \in {"add", "count"}
        BY <1>5 DEF ScanPhases, ScanRow, Files, Logs, Inside, Body
    <2>2. \A v \in Workers : v # w => step'[v] \notin {"mkdir", "store"}
        <3>1. \A v \in Workers \ {w} : step'[v] = step[v]
            BY <1>5, TeamTypes DEF ScanPhases, ScanRow, Work, StepTo
        <3> QED
            BY <1>0, <2>1, <3>1, AloneInside DEF Inside, Body
    <2>3. /\ step'[w] \in {"mkdir", "store"} /\ copy'[w].roadmap = roadmap
          /\ step'[w] = "mkdir" => copy'[w].number = NextFree
          /\ step'[w] = "store" => Kind(w) = "count"
        <3>1. CASE ScanPhases(w)
            <4>1. copy' = [copy EXCEPT ![w] = [copy[w] EXCEPT !.roadmap = roadmap, !.number = NextFree]]
                BY <3>1 DEF ScanPhases
            <4>2. step'[w] = "mkdir"
                BY <3>1, TeamTypes DEF ScanPhases, Work, StepTo
            <4> QED
                BY <4>1, <4>2, TeamTypes
        <3>2. CASE ScanRow(w)
            <4>1. copy' = [copy EXCEPT ![w] = [copy[w] EXCEPT !.roadmap = roadmap]]
                BY <3>2 DEF ScanRow
            <4>2. step'[w] = "store" /\ Kind(w) = "count"
                BY <3>2, TeamTypes DEF ScanRow, Work, StepTo
            <4> QED
                BY <4>1, <4>2, TeamTypes
        <3> QED
            BY <1>5, <3>1, <3>2
    <2>4. \A x \in folders : x[1] # NextFree
        <3>1. NextFree \in Nat /\ \A x \in folders : x[1] < NextFree /\ x[1] \in Nat
            BY NextIsFree DEF PlanTeamInv, FilesInv
        <3> QED
            BY <3>1
    <2> QED
        BY <1>0, <2>1, <2>2, <2>3, <2>4 DEF AddsInv, Kind
<1>6. ASSUME NEW w \in Workers, MakeFolder(w) PROVE AddsInv'
    <2>1. /\ UNCHANGED <<roadmap, done, job, copy>> /\ Inside(w) /\ Kind(w) = "add"
          /\ folders' = folders \cup {<<copy[w].number, job[w]>>}
        BY <1>6 DEF MakeFolder, Logs, Inside, Body, PlanTeamInv, FilesInv
    <2>2. step'[w] = "store" /\ \A v \in Workers : v # w => step'[v] \notin {"mkdir", "store"}
        <3>1. step'[w] = "store" /\ \A v \in Workers \ {w} : step'[v] = step[v]
            BY <1>6, TeamTypes DEF MakeFolder, Work, StepTo
        <3> QED
            BY <1>0, <2>1, <3>1, AloneInside DEF Inside, Body
    <2>3. copy[w].roadmap = roadmap /\ \A x \in folders : x[1] # copy[w].number
        BY <1>0, <1>6, <2>1 DEF AddsInv, MakeFolder
    <2>4. \A x, y \in folders' : x # y => x[1] # y[1]
        BY <1>0, <2>1, <2>3 DEF AddsInv
    <2> QED
        BY <1>0, <2>1, <2>2, <2>3, <2>4 DEF AddsInv, Kind
<1>7. ASSUME NEW w \in Workers, StorePhase(w) \/ StoreRow(w) PROVE AddsInv'
    <2>1. /\ UNCHANGED <<folders, job, copy>> /\ Inside(w)
          /\ Kind(w) \in {"add", "count"} /\ step[w] = "store" /\ done' = done \cup {job[w]}
        BY <1>7 DEF StorePhase, StoreRow, Inside, Body
    <2>2. \A v \in Workers : step'[v] \notin {"mkdir", "store"}
        <3>1. step'[w] \in {"off", "unlock"} /\ \A v \in Workers \ {w} : step'[v] = step[v]
            BY <1>7, TeamTypes DEF StorePhase, StoreRow, Work, StepTo
        <3> QED
            BY <1>0, <2>1, <3>1, AloneInside DEF Inside, Body
    <2>3. copy[w].roadmap = roadmap
        BY <1>0, <2>1 DEF AddsInv
    <2>4. CASE StorePhase(w)
        <3>1. roadmap'.phases = roadmap.phases \cup {<<copy[w].number, job[w]>>}
            BY <2>3, <2>4, TeamTypes DEF StorePhase, Roadmaps
        <3>2. <<copy[w].number, job[w]>> \in folders
            BY <1>0, <2>1, <2>4 DEF AddsInv, StorePhase
        <3>3. roadmap'.phases \subseteq folders'
            BY <1>0, <2>1, <3>1, <3>2 DEF AddsInv
        <3>4. \A j \in done' : j[1] = "add" => \E x \in roadmap'.phases : x[2] = j
            <4> SUFFICES ASSUME NEW j \in done', j[1] = "add" PROVE \E x \in roadmap'.phases : x[2] = j
                OBVIOUS
            <4>1. CASE j = job[w]
                <5>1. <<copy[w].number, job[w]>>[2] = j
                    BY <4>1
                <5> QED
                    BY <3>1, <5>1
            <4>2. CASE j \in done
                BY <1>0, <3>1, <4>2 DEF AddsInv
            <4> QED
                BY <2>1, <4>1, <4>2
        <3> QED
            BY <1>0, <2>1, <2>2, <3>3, <3>4 DEF AddsInv
    <2>5. CASE StoreRow(w)
        <3>1. roadmap'.phases = roadmap.phases /\ job[w][1] # "add"
            BY <2>3, <2>5, TeamTypes DEF StoreRow, Roadmaps, Kind
        <3> QED
            BY <1>0, <2>1, <2>2, <3>1 DEF AddsInv
    <2> QED
        BY <1>7, <2>4, <2>5
<1>8. ASSUME (Expire /\ UNCHANGED <<job, Files, copy, Logs>>) \/ UNCHANGED planTeamVars
      PROVE  AddsInv'
    BY <1>0, <1>8, AddsQuiet DEF Expire, planTeamVars, planLockVars, Files, Logs
<1> QED
    BY <1>1, <1>2, <1>3, <1>4, <1>5, <1>6, <1>7, <1>8 DEF PlanTeamNext, GoOn

\* A step that leaves config.json and the commands that set keys as they are.
LEMMA SetsQuiet ==
    ASSUME PlanTeamInv, forced => forced', UNCHANGED <<config, clobbered>>, SetJobs' = SetJobs,
           \A v \in Workers :
               /\ copy'[v].config.keys = copy[v].config.keys
               /\ step'[v] = "store" /\ job'[v][1] = "set" =>
                    step[v] = "store" /\ Kind(v) = "set" /\ copy'[v] = copy[v]
    PROVE  SetsInv'
BY DEF PlanTeamInv, SetsInv, Kind

LEMMA SetsStep ==
    ASSUME PlanTeamInv, [PlanTeamNext]_planTeamVars
    PROVE  SetsInv'
<1>0. (forced => forced') /\ SetsInv
    BY ForcedStays DEF PlanTeamInv
<1>1. ASSUME NEW w \in Workers, NEW kind \in Kinds, StartJob(w, kind) PROVE SetsInv'
    <2>1. /\ UNCHANGED <<config, clobbered, done, copy>>
          /\ job' = [job EXCEPT ![w] = <<kind, jobs + 1>>]
          /\ step' = [step EXCEPT ![w] = IF kind = "set" THEN "try" ELSE "load"]
        BY <1>1 DEF StartJob, Launch, StepTo
    <2>2. SetJobs' = SetJobs
        BY <2>1 DEF SetJobs
    <2>3. \A v \in Workers : step'[v] = "store" => v # w /\ step[v] = "store" /\ job'[v] = job[v]
        BY <2>1, TeamTypes
    <2> QED
        BY <1>0, <2>1, <2>2, <2>3, SetsQuiet DEF Kind
<1>2. ASSUME NEW w \in Workers,
             CountSummaries(w) \/ Waiting(w) \/ ScanPhases(w) \/ MakeFolder(w) \/ StorePhase(w)
             \/ ScanRow(w) \/ StoreRow(w) \/ EndJob(w) \/ DieAtWork(w)
      PROVE  SetsInv'
    <2>1. UNCHANGED <<config, clobbered, job>>
        BY <1>2 DEF CountSummaries, Waiting, ScanPhases, MakeFolder, StorePhase, ScanRow, StoreRow,
                    EndJob, DieAtWork, Files, Logs
    <2>2. SetJobs' = SetJobs
        <3>1. CASE StorePhase(w) \/ StoreRow(w)
            <4>1. done' = done \cup {job[w]} /\ job[w][1] # "set"
                BY <3>1 DEF StorePhase, StoreRow, Kind
            <4> QED
                BY <4>1 DEF SetJobs
        <3>2. CASE ~(StorePhase(w) \/ StoreRow(w))
            <4>1. done' = done
                BY <1>2, <3>2 DEF CountSummaries, Waiting, ScanPhases, MakeFolder, ScanRow, EndJob,
                                  DieAtWork, Logs
            <4> QED
                BY <4>1 DEF SetJobs
        <3> QED
            BY <3>1, <3>2
    <2>3. \A v \in Workers : copy'[v].config = copy[v].config /\ (v # w => copy'[v] = copy[v])
        <3>1. \/ copy' = copy
              \/ copy' = [copy EXCEPT ![w].number = summaries]
              \/ copy' = [copy EXCEPT ![w].roadmap = roadmap]
              \/ copy' = [copy EXCEPT ![w].roadmap = roadmap, ![w].number = NextFree]
            BY <1>2 DEF CountSummaries, Waiting, ScanPhases, MakeFolder, StorePhase, ScanRow, StoreRow,
                        EndJob, DieAtWork
        <3> QED
            BY <3>1, TeamTypes
    <2>4. \A v \in Workers \ {w} : step'[v] = step[v]
        BY <1>2, TeamTypes
        DEF CountSummaries, Waiting, ScanPhases, MakeFolder, StorePhase, ScanRow, StoreRow, EndJob,
            DieAtWork, Prepare, Take, Refuse, UnlinkExpired, RunBare, Unlock, KillWorker, Work, StepTo
    <2>5. step'[w] = "store" => job'[w][1] # "set"
        <3>1. CASE ScanPhases(w) \/ StorePhase(w) \/ ScanRow(w) \/ StoreRow(w)
            BY <2>1, <3>1 DEF ScanPhases, StorePhase, ScanRow, StoreRow, Kind
        <3>2. CASE MakeFolder(w)
            BY <2>1, <3>2 DEF MakeFolder, PlanTeamInv, FilesInv, Kind
        <3>3. CASE CountSummaries(w) \/ Waiting(w) \/ EndJob(w) \/ DieAtWork(w)
            BY <3>3, TeamTypes
            DEF CountSummaries, Waiting, EndJob, DieAtWork, Prepare, Take, Refuse, UnlinkExpired,
                RunBare, Unlock, KillWorker, StepTo, Early
        <3> QED
            BY <1>2, <3>1, <3>2, <3>3
    <2> QED
        BY <1>0, <2>1, <2>2, <2>3, <2>4, <2>5, SetsQuiet DEF Kind
<1>3. ASSUME NEW w \in Workers, LoadConfig(w) \/ ScanConfig(w) PROVE SetsInv'
    <2>1. /\ UNCHANGED <<config, clobbered, job, done>>
          /\ copy' = [copy EXCEPT ![w] = [copy[w] EXCEPT !.config = config]]
        BY <1>3 DEF LoadConfig, ScanConfig, Files, Logs
    <2>2. SetJobs' = SetJobs
        BY <2>1 DEF SetJobs
    <2>3. copy'[w].config = config /\ \A v \in Workers \ {w} : copy'[v] = copy[v]
        BY <2>1, TeamTypes
    <2>4. \A v \in Workers \ {w} : step'[v] = step[v]
        BY <1>3, TeamTypes DEF LoadConfig, ScanConfig, Prepare, Work, StepTo
    <2>5. step'[w] = "store" => ~config.torn
        BY <1>3, TeamTypes DEF LoadConfig, ScanConfig, Prepare, Work, StepTo
    <2> QED
        BY <1>0, <2>1, <2>2, <2>3, <2>4, <2>5 DEF SetsInv, Kind
<1>4. ASSUME NEW w \in Workers, TearConfig(w) PROVE SetsInv'
    <2>1. /\ UNCHANGED <<clobbered, job, done>>
          /\ config' = [config EXCEPT !.torn = TRUE, !.legacy = FALSE, !.keys = {}]
          /\ copy' = [copy EXCEPT ![w].config.inode = config.inode]
        BY <1>4 DEF TearConfig, Logs
    <2>2. SetJobs' = SetJobs
        BY <2>1 DEF SetJobs
    <2>3. config'.torn /\ config'.keys = {}
        BY <2>1, TeamTypes DEF Configs
    <2>4. copy'[w].config.keys = copy[w].config.keys /\ \A v \in Workers \ {w} : copy'[v] = copy[v]
        BY <2>1, TeamTypes DEF Configs
    <2>5. step'[w] # "store" /\ \A v \in Workers \ {w} : step'[v] = step[v]
        BY <1>4, TeamTypes DEF TearConfig, Prepare, StepTo
    <2> QED
        BY <1>0, <2>1, <2>2, <2>3, <2>4, <2>5 DEF SetsInv, Kind
<1>5. ASSUME NEW w \in Workers, FillConfig(w) PROVE SetsInv'
    <2>1. /\ UNCHANGED <<job, done, copy>>
          /\ clobbered' = (clobbered \/ (config.inode = copy[w].config.inode
                              /\ \E j \in done : j[1] = "set" /\ j \notin copy[w].config.keys))
          /\ config' = config \/ config'.keys = copy[w].config.keys
          /\ config.inode # copy[w].config.inode => config' = config
          /\ config.inode = copy[w].config.inode => config'.keys = copy[w].config.keys
        BY <1>5, TeamTypes DEF FillConfig, Logs, Configs
    <2>2. SetJobs' = SetJobs
        BY <2>1 DEF SetJobs
    <2>3. step'[w] # "store" /\ \A v \in Workers \ {w} : step'[v] = step[v]
        BY <1>5, TeamTypes DEF FillConfig, Prepare, StepTo
    <2>4. config'.keys \subseteq SetJobs
        BY <1>0, <2>1 DEF SetsInv
    <2>5. ~clobbered' => ~clobbered
        BY <2>1
    <2>6. ASSUME ~forced', ~clobbered', ~config'.torn PROVE SetJobs \subseteq config'.keys
        <3>1. CASE config' = config
            BY <1>0, <2>5, <2>6, <3>1 DEF SetsInv
        <3>2. CASE config.inode = copy[w].config.inode
            BY <2>1, <2>6, <3>2 DEF SetJobs
        <3> QED
            BY <2>1, <3>1, <3>2
    <2> QED
        BY <1>0, <2>1, <2>2, <2>3, <2>4, <2>5, <2>6 DEF SetsInv, Kind
<1>6. ASSUME NEW w \in Workers, StoreConfig(w) PROVE SetsInv'
    <2>1. /\ UNCHANGED <<clobbered, job, copy>> /\ done' = done \cup {job[w]}
          /\ step[w] = "store" /\ Kind(w) = "set"
        BY <1>6 DEF StoreConfig
    <2>2. SetJobs' = SetJobs \cup {job[w]}
        BY <2>1 DEF SetJobs, Kind
    <2>3. config'.keys = copy[w].config.keys \cup {job[w]}
        BY <1>6, TeamTypes DEF StoreConfig, Configs
    <2>4. step'[w] # "store" /\ \A v \in Workers \ {w} : step'[v] = step[v]
        BY <1>6, TeamTypes DEF StoreConfig, Work, StepTo
    <2>5. ASSUME NEW v \in Workers, step'[v] = "store", ~forced' PROVE FALSE
        <3>1. v # w /\ step[v] = "store" /\ ~forced
            BY <1>0, <2>4, <2>5
        <3> QED
            BY <2>1, <3>1, AloneInside DEF Inside, Body
    <2> QED
        BY <1>0, <2>1, <2>2, <2>3, <2>4, <2>5 DEF SetsInv, Kind
<1>7. ASSUME (Expire /\ UNCHANGED <<job, Files, copy, Logs>>) \/ UNCHANGED planTeamVars
      PROVE  SetsInv'
    BY <1>0, <1>7 DEF Expire, planTeamVars, planLockVars, Files, Logs, SetsInv, SetJobs, Kind
<1> QED
    BY <1>1, <1>2, <1>3, <1>4, <1>5, <1>6, <1>7 DEF PlanTeamNext, GoOn

\* A step after which config.json is torn only if it was before.
LEMMA TornQuiet ==
    ASSUME PlanTeamInv, NEW w \in Workers, config' = config,
           clobbered => clobbered', halved => halved',
           \A v \in Workers \ {w} : step'[v] = step[v] /\ copy'[v] = copy[v],
           step[w] = "fill" /\ copy[w].config.inode = config.inode => halved'
    PROVE  TornInv'
BY DEF PlanTeamInv, TornInv

LEMMA TornStep ==
    ASSUME PlanTeamInv, [PlanTeamNext]_planTeamVars
    PROVE  TornInv'
<1>0. TornInv /\ SetsInv
    BY DEF PlanTeamInv
<1>1. ASSUME NEW w \in Workers,
             (\E kind \in Kinds : StartJob(w, kind)) \/ CountSummaries(w) \/ LoadConfig(w)
             \/ Waiting(w) \/ ScanPhases(w) \/ MakeFolder(w) \/ StorePhase(w) \/ ScanRow(w)
             \/ StoreRow(w) \/ ScanConfig(w) \/ EndJob(w) \/ DieAtWork(w)
      PROVE  TornInv'
    <2>1. UNCHANGED <<config, clobbered>> /\ (halved => halved')
        <3>1. CASE DieAtWork(w)
            BY <3>1 DEF DieAtWork, Files
        <3>2. CASE ~DieAtWork(w)
            BY <1>1, <3>2 DEF StartJob, CountSummaries, LoadConfig, Waiting, ScanPhases, MakeFolder,
                              StorePhase, ScanRow, StoreRow, ScanConfig, EndJob, Files, Logs
        <3> QED
            BY <3>1, <3>2
    <2>2. \A v \in Workers \ {w} : step'[v] = step[v]
        BY <1>1, TeamTypes
        DEF StartJob, CountSummaries, LoadConfig, Waiting, ScanPhases, MakeFolder, StorePhase, ScanRow,
            StoreRow, ScanConfig, EndJob, DieAtWork, Launch, Prepare, Take, Refuse, UnlinkExpired,
            RunBare, Unlock, KillWorker, Work, StepTo
    <2>3. \A v \in Workers \ {w} : copy'[v] = copy[v]
        BY <1>1, TeamTypes
        DEF StartJob, CountSummaries, LoadConfig, Waiting, ScanPhases, MakeFolder, StorePhase, ScanRow,
            StoreRow, ScanConfig, EndJob, DieAtWork
    <2>4. step[w] = "fill" => halved'
        BY <1>1 DEF StartJob, CountSummaries, LoadConfig, Waiting, ScanPhases, MakeFolder, StorePhase,
                    ScanRow, StoreRow, ScanConfig, EndJob, DieAtWork, Launch, Take, Refuse,
                    UnlinkExpired, RunBare, Unlock, Work, Body
    <2> QED
        BY <2>1, <2>2, <2>3, <2>4, TornQuiet
<1>2. ASSUME NEW w \in Workers, TearConfig(w) PROVE TornInv'
    <2>1. config'.inode = config.inode /\ copy'[w].config.inode = config.inode
        BY <1>2, TeamTypes DEF TearConfig, Configs
    <2>2. step'[w] = "fill"
        BY <1>2, TeamTypes DEF TearConfig, Prepare, StepTo
    <2> QED
        BY <2>1, <2>2 DEF TornInv
<1>3. ASSUME NEW w \in Workers, FillConfig(w) PROVE TornInv'
    <2>1. (clobbered => clobbered') /\ UNCHANGED <<halved, copy>>
          /\ \A v \in Workers \ {w} : step'[v] = step[v]
        BY <1>3, TeamTypes DEF FillConfig, Prepare, StepTo
    <2>2. CASE config.inode # copy[w].config.inode
        <3>1. config' = config
            BY <1>3, <2>2, TeamTypes DEF FillConfig, Configs
        <3> QED
            BY <2>1, <2>2, <3>1, TornQuiet
    <2>3. CASE config.inode = copy[w].config.inode
        <3> DEFINE mine == copy[w].config.keys
        <3>1. /\ config'.torn = (Cardinality(config.keys) > Cardinality(mine))
              /\ ~clobbered' => SetJobs \subseteq mine
            BY <1>3, <2>3, TeamTypes DEF FillConfig, Configs, SetJobs
        <3>2. config.keys \subseteq SetJobs /\ mine \subseteq SetJobs
            BY <1>0 DEF SetsInv
        <3>3. ASSUME ~clobbered' PROVE ~config'.torn
            <4>1. config.keys \subseteq mine
                BY <3>1, <3>2, <3>3
            <4>2. IsFiniteSet(mine)
                <5>1. IsFiniteSet(Kinds) /\ IsFiniteSet(1 .. MaxJobs)
                    <6>1. Kinds = (({} \cup {"add"}) \cup {"count"}) \cup {"set"}
                        BY DEF Kinds
                    <6>2. IsFiniteSet(Kinds)
                        BY <6>1, FS_AddElement, FS_EmptySet
                    <6> QED
                        BY <6>2, JobAssumption, FS_Interval
                <5>2. IsFiniteSet(Kinds \X (1 .. MaxJobs))
                    BY <5>1, FS_Product
                <5>3. mine \subseteq Kinds \X (1 .. MaxJobs)
                    BY <3>2 DEF SetJobs, PlanTeamInv, FilesInv
                <5> QED
                    BY <5>2, <5>3, FS_Subset
            <4>3. /\ IsFiniteSet(config.keys) /\ Cardinality(config.keys) <= Cardinality(mine)
                  /\ Cardinality(config.keys) \in Nat /\ Cardinality(mine) \in Nat
                BY <4>1, <4>2, FS_Subset, FS_CardinalityType
            <4>4. ~(Cardinality(config.keys) > Cardinality(mine))
                BY <4>3
            <4> QED
                BY <3>1, <4>4, Zenon
        <3> QED
            BY <3>3 DEF TornInv
    <2> QED
        BY <2>2, <2>3
<1>4. ASSUME NEW w \in Workers, StoreConfig(w) PROVE TornInv'
    <2>1. config'.torn = copy[w].config.torn
        BY <1>4, TeamTypes DEF StoreConfig, Configs
    <2>2. ~copy[w].config.torn
        BY <1>0, <1>4 DEF SetsInv, StoreConfig
    <2> QED
        BY <2>1, <2>2 DEF TornInv
<1>5. ASSUME (Expire /\ UNCHANGED <<job, Files, copy, Logs>>) \/ UNCHANGED planTeamVars
      PROVE  TornInv'
    BY <1>0, <1>5 DEF Expire, planTeamVars, planLockVars, Files, Logs, TornInv
<1> QED
    BY <1>1, <1>2, <1>3, <1>4, <1>5 DEF PlanTeamNext, GoOn

-----------------------------------------------------------------------------
(* The commands, for any number of workers, pauses and commands. *)

LEMMA PlanTeamInitInv == PlanTeamInit => PlanTeamInv
<1> SUFFICES ASSUME PlanTeamInit PROVE PlanTeamInv
    OBVIOUS
<1> USE JobAssumption DEF PlanTeamInit
<1>1. PlanLockInv
    BY PlanLockInitInv
<1>2. PICK legacy \in BOOLEAN :
          config = [inode |-> 0, torn |-> FALSE, legacy |-> legacy, keys |-> {}]
    OBVIOUS
<1>3. config \in Configs /\ roadmap \in Roadmaps
    BY <1>2 DEF Configs, Roadmaps, AllJobs
<1>4. FilesInv
    <2>1. <<1, NoJob>> \in Nat \X AllJobs /\ NoJob \in AllJobs
        BY DEF AllJobs
    <2>2. folders \subseteq Nat \X AllJobs /\ <<1, NoJob>> \in folders
        BY <2>1
    <2>3. job \in [Workers -> AllJobs]
        BY <2>1
    <2>4. copy \in [Workers -> [roadmap : Roadmaps, config : Configs, number : Nat]]
        BY <1>3
    <2>5. \A w \in Workers : step[w] # "mkdir"
        BY DEF PlanLockInit
    <2>6. summaries \in Nat /\ jobs \in 0 .. MaxJobs /\ done \subseteq Kinds \X (1 .. MaxJobs)
        OBVIOUS
    <2> HIDE DEF PlanTeamInit
    <2> QED
        BY <1>3, <2>2, <2>3, <2>4, <2>5, <2>6 DEF FilesInv
<1>5. NumbersUnder(1)
    BY DEF NumbersUnder
<1>6. NumbersBounded
    BY <1>5 DEF NumbersBounded
<1>7. AddsInv
    BY DEF AddsInv, PlanLockInit
<1>8. SetsInv /\ TornInv
    BY <1>2 DEF SetsInv, TornInv, SetJobs, PlanLockInit
<1> QED
    BY <1>1, <1>4, <1>6, <1>7, <1>8 DEF PlanTeamInv

LEMMA PlanTeamStepInv == PlanTeamInv /\ [PlanTeamNext]_planTeamVars => PlanTeamInv'
<1> SUFFICES ASSUME PlanTeamInv, [PlanTeamNext]_planTeamVars PROVE PlanTeamInv'
    OBVIOUS
<1>1. PlanLockInv'
    BY PlanLockTypeStep, OneInsideStep, TeamStepPlanLock DEF PlanTeamInv, PlanLockInv
<1> QED
    BY <1>1, FilesStep, NumbersStep, AddsStep, SetsStep, TornStep DEF PlanTeamInv

\* No behaviour of the commands leaves the inductive invariant.
THEOREM PlanTeamInvariant == PlanTeamSpec => []PlanTeamInv
BY PlanTeamInitInv, PlanTeamStepInv, PTL DEF PlanTeamSpec

\* The workers, the files and the counters of the planning commands keep their
\* types; no command runs past the bound on commands.
THEOREM PlanningTypeCorrect == PlanTeamSpec => []PlanTeamTypeOK
<1>1. PlanTeamInv => PlanTeamTypeOK
    BY DEF PlanTeamInv, PlanLockInv, FilesInv, PlanTeamTypeOK, AllJobs
<1> QED
    BY <1>1, PlanTeamInvariant, PTL

\* phase add never gives a number twice nor loses a phase, config-set keeps the
\* keys that were set, and config.json is JSON outside a migration, as long as
\* no worker times out or is robbed and no migration overruns a newer file.
THEOREM PlanningIsKept == PlanTeamSpec => []PlanningKept
<1>1. PlanTeamInv => PlanningKept
    <2> SUFFICES ASSUME PlanTeamInv PROVE PlanningKept
        OBVIOUS
    <2>1. AddsKept
        BY DEF PlanTeamInv, AddsInv, AddsKept
    <2>2. SetsKept
        BY DEF PlanTeamInv, SetsInv, SetsKept, SetJobs
    <2>3. ConfigReadable
        BY DEF PlanTeamInv, TornInv, ConfigReadable
    <2> QED
        BY <2>1, <2>2, <2>3 DEF PlanningKept
<1> QED
    BY <1>1, PlanTeamInvariant, PTL
-----------------------------------------------------------------------------
(* The manager: phases that depend on one another are executed one after   *)
(* the other.  A phase whose execution has begun depends on finished ones  *)
(* only, so that the finished phases are a closed set, and whatever is     *)
(* behind such a phase is in it, however long the chain.                   *)

Offers == [action : {"execute", "plan", "discuss"}, phase : Scheduled]
ManagerTypes ==
    /\ needs \in [Phases -> SUBSET Scheduled]
    /\ checked \in [Phases -> BOOLEAN] /\ active \in [Phases -> BOOLEAN] /\ planner \in [Phases -> BOOLEAN]
    /\ folder \in [Phases -> Folders]
    /\ planned \in [Phases -> 0 .. PlansEach] /\ summed \in [Phases -> 0 .. PlansEach]
    /\ executor \in [Phases -> 0 .. PlansEach]
    /\ menu \subseteq Offers

Offered(action, p) == [action |-> action, phase |-> p] \in menu
Finished == {p \in Phases : planned[p] > 0 /\ summed[p] >= planned[p]}
Begun(p) == executor[p] > 0 \/ summed[p] > 0

\* An executor found all the plans of its phase: the planner has ended, nobody
\* starts another one, and what the phase needs is finished.
PhaseInv(p) ==
    /\ executor[p] \in {0, planned[p]}
    /\ checked[p] => p \in Finished
    /\ Begun(p) => ~planner[p] /\ ~Offered("plan", p) /\ needs[p] \subseteq Finished
    /\ Offered("execute", p) => planned[p] > 0 /\ ~Offered("plan", p) /\ needs[p] \subseteq Finished
BegunInv == reused = {} /\ ~hasty => \A p \in Phases : PhaseInv(p)
ManagerInv == ManagerTypes /\ BegunInv

\* What the dashboard offers, and why.
LEMMA OffersAre ==
    ASSUME NEW a \in Filtered
    PROVE  /\ a \in Offers
           /\ a.action = "execute" => StatusOf(a.phase) = "planned" /\ DepsSatisfied(a.phase)
           /\ a.action = "plan" => StatusOf(a.phase) = "discussed"
<1>1. a \in Recommended
    BY DEF Filtered
<1> QED
    BY <1>1 DEF Recommended, Offers

\* What a status says of the files.
LEMMA StatusTells ==
    ASSUME ManagerTypes, NEW p \in Phases
    PROVE  /\ StatusOf(p) = "complete" => checked[p] \/ p \in Finished
           /\ StatusOf(p) = "planned" => planned[p] > 0
           /\ StatusOf(p) = "discussed" => planned[p] = 0 /\ summed[p] = 0
<1>1. /\ planned[p] \in Nat /\ summed[p] \in Nat /\ folder[p] \in Folders
    BY DEF ManagerTypes
<1> DEFINE complete == checked[p] \/ (planned[p] > 0 /\ summed[p] >= planned[p])
<1>2. CASE complete
    <2>1. StatusOf(p) = "complete"
        BY <1>2 DEF StatusOf
    <2> QED
        BY <1>2, <2>1 DEF Finished
<1>3. CASE ~complete /\ summed[p] > 0
    <2>1. StatusOf(p) = "partial"
        BY <1>3 DEF StatusOf
    <2> QED
        BY <2>1
<1>4. CASE ~complete /\ ~(summed[p] > 0) /\ planned[p] > 0
    <2>1. StatusOf(p) = "planned"
        BY <1>4 DEF StatusOf
    <2> QED
        BY <1>4, <2>1
<1>5. CASE ~complete /\ ~(summed[p] > 0) /\ ~(planned[p] > 0)
    <2>1. StatusOf(p) = folder[p]
        BY <1>5 DEF StatusOf
    <2>2. planned[p] = 0 /\ summed[p] = 0
        BY <1>1, <1>5
    <2> QED
        BY <1>1, <2>1, <2>2 DEF Folders
<1> QED
    BY <1>2, <1>3, <1>4, <1>5

LEMMA ManagerInitInv == ManagerInit => ManagerInv
<1> SUFFICES ASSUME ManagerInit PROVE ManagerInv
    OBVIOUS
<1>1. 0 \in 0 .. PlansEach
    BY PlansAssumption
<1>2. ManagerTypes
    BY <1>1 DEF ManagerInit, ManagerTypes, Folders
<1>3. BegunInv
    BY DEF ManagerInit, BegunInv, PhaseInv, Begun, Offered
<1> QED
    BY <1>2, <1>3 DEF ManagerInv

LEMMA ManagerTypeStep == ManagerTypes /\ [ManagerNext]_managerVars => ManagerTypes'
<1> SUFFICES ASSUME ManagerTypes, [ManagerNext]_managerVars PROVE ManagerTypes'
    OBVIOUS
<1> USE DEF ManagerTypes
<1>1. CASE Refresh
    <2>1. Filtered \subseteq Offers
        BY OffersAre
    <2> QED
        BY <1>1, <2>1 DEF Refresh
<1>2. CASE Continue
    BY <1>2 DEF Continue, Folders
<1>3. ASSUME NEW p \in Phases, DiscussEarly(p) \/ GoQuiet(p) PROVE ManagerTypes'
    BY <1>3 DEF DiscussEarly, GoQuiet, Folders
<1>4. ASSUME NEW p \in Phases, WritePlan(p) PROVE ManagerTypes'
    <2>1. planned[p] + 1 \in 0 .. PlansEach
        BY <1>4, PlansAssumption DEF WritePlan
    <2> QED
        BY <1>4, <2>1 DEF WritePlan
<1>5. ASSUME NEW p \in Phases, WriteSummary(p) PROVE ManagerTypes'
    <2>1. summed[p] + 1 \in 0 .. PlansEach
        BY <1>5, PlansAssumption DEF WriteSummary
    <2> QED
        BY <1>5, <2>1 DEF WriteSummary
<1>6. ASSUME NEW p \in Phases, EndPlanning(p) PROVE ManagerTypes'
    BY <1>6 DEF EndPlanning
<1>7. ASSUME NEW p \in Phases, EndExecuting(p) \/ AgentDies(p) PROVE ManagerTypes'
    <2>1. 0 \in 0 .. PlansEach
        BY PlansAssumption
    <2> QED
        BY <1>7, <2>1 DEF EndExecuting, AgentDies
<1>8. CASE UNCHANGED managerVars
    BY <1>8 DEF managerVars
<1> QED
    BY <1>1, <1>2, <1>3, <1>4, <1>5, <1>6, <1>7, <1>8 DEF ManagerNext, AgentStep

LEMMA BegunStep ==
    ASSUME ManagerTypes, BegunInv, [ManagerNext]_managerVars
    PROVE  BegunInv'
<1> SUFFICES ASSUME reused' = {}, ~hasty', NEW p \in Phases PROVE PhaseInv(p)'
    BY DEF BegunInv
<1>1. ~hasty /\ reused = {}
    BY DEF ManagerNext, managerVars, Refresh, Continue, DiscussEarly, GoQuiet, AgentStep, WritePlan,
           EndPlanning, WriteSummary, EndExecuting, AgentDies
<1>2. \A q \in Phases : PhaseInv(q)
    BY <1>1 DEF BegunInv
<1>3. /\ planned[p] \in Nat /\ summed[p] \in Nat /\ executor[p] \in Nat
      /\ \A q \in Phases : planned[q] \in Nat /\ summed[q] \in Nat /\ executor[q] \in Nat
    BY DEF ManagerTypes
<1>4. CASE Refresh
    <2>1. Finished' = Finished
        BY <1>4 DEF Refresh, Finished
    <2>2. Offered("execute", p)' => planned[p] > 0 /\ needs[p] \subseteq Finished
        <3> SUFFICES ASSUME Offered("execute", p)' PROVE planned[p] > 0 /\ needs[p] \subseteq Finished
            OBVIOUS
        <3> DEFINE a == [action |-> "execute", phase |-> p]
        <3>1. a \in Filtered
            BY <1>4 DEF Refresh, Offered
        <3>2. StatusOf(p) = "planned" /\ DepsSatisfied(p)
            BY <3>1, OffersAre
        <3>3. \A q \in needs[p] : q \in Phases /\ StatusOf(q) = "complete"
            BY <1>1, <3>2 DEF DepsSatisfied, CompletedNums
        <3> QED
            BY <1>2, <3>2, <3>3, StatusTells DEF PhaseInv
    <2>3. Offered("plan", p)' => planned[p] = 0 /\ summed[p] = 0
        <3> DEFINE a == [action |-> "plan", phase |-> p]
        <3>1. Offered("plan", p)' => a \in Filtered
            BY <1>4 DEF Refresh, Offered
        <3> QED
            BY <3>1, OffersAre, StatusTells
    <2>4. Offered("plan", p)' => ~Begun(p)
        BY <1>2, <1>3, <2>3 DEF PhaseInv, Begun
    <2>5. UNCHANGED <<needs, checked, summed, planned, executor, planner>>
        BY <1>4 DEF Refresh
    <2> QED
        BY <1>2, <1>3, <2>1, <2>2, <2>3, <2>4, <2>5 DEF PhaseInv, Begun
<1>5. CASE Continue
    <2>1. Finished' = Finished /\ menu' = {}
        BY <1>5 DEF Continue, Finished
    <2>2. UNCHANGED <<needs, checked, summed, planned>>
        BY <1>5 DEF Continue
    <2>3. p \in Phase("execute") <=> Offered("execute", p)
        BY DEF Phase, Offered, ManagerTypes, Offers
    <2>4. p \in Phase("plan") <=> Offered("plan", p)
        BY DEF Phase, Offered, ManagerTypes, Offers
    <2>5. /\ planner'[p] = (planner[p] \/ Offered("plan", p))
          /\ executor'[p] = IF Offered("execute", p) THEN planned[p] ELSE executor[p]
          /\ Offered("execute", p) => ~planner[p]
        BY <1>5, <2>3, <2>4 DEF Continue
    <2> QED
        BY <1>2, <1>3, <2>1, <2>2, <2>5 DEF PhaseInv, Begun, Offered
<1>6. ASSUME NEW q \in Phases, DiscussEarly(q) \/ GoQuiet(q) PROVE PhaseInv(p)'
    BY <1>2, <1>6 DEF DiscussEarly, GoQuiet, PhaseInv, Begun, Offered, Finished
<1>7. ASSUME NEW q \in Phases, WritePlan(q) PROVE PhaseInv(p)'
    <2>1. ~Begun(q) /\ q \notin Finished
        BY <1>2, <1>3, <1>7 DEF WritePlan, PhaseInv, Begun, Finished
    <2>2. Finished \subseteq Finished'
        BY <1>7, <2>1 DEF WritePlan, Finished, ManagerTypes
    <2>3. planned'[p] = IF p = q THEN planned[p] + 1 ELSE planned[p]
        BY <1>7 DEF WritePlan, ManagerTypes
    <2>4. UNCHANGED <<needs, checked, summed, executor, planner, menu>>
        BY <1>7 DEF WritePlan
    <2> QED
        BY <1>2, <1>3, <2>1, <2>2, <2>3, <2>4 DEF PhaseInv, Begun, Offered
<1>8. ASSUME NEW q \in Phases, EndPlanning(q) PROVE PhaseInv(p)'
    BY <1>2, <1>8 DEF EndPlanning, PhaseInv, Begun, Offered, Finished, ManagerTypes
<1>9. ASSUME NEW q \in Phases, WriteSummary(q) PROVE PhaseInv(p)'
    <2>1. Begun(q)
        BY <1>3, <1>9 DEF WriteSummary, Begun
    <2>2. summed'[p] = IF p = q THEN summed[p] + 1 ELSE summed[p]
        BY <1>9 DEF WriteSummary, ManagerTypes
    <2>3. Finished \subseteq Finished'
        BY <1>3, <1>9 DEF WriteSummary, Finished, ManagerTypes
    <2>4. UNCHANGED <<needs, checked, planned, executor, planner, menu>>
        BY <1>9 DEF WriteSummary
    <2> QED
        BY <1>2, <1>3, <2>1, <2>2, <2>3, <2>4 DEF PhaseInv, Begun, Offered
<1>10. ASSUME NEW q \in Phases, EndExecuting(q) PROVE PhaseInv(p)'
    <2>1. q \in Finished
        BY <1>2, <1>3, <1>10 DEF EndExecuting, PhaseInv, Finished
    <2>2. Finished' = Finished
        BY <1>10 DEF EndExecuting, Finished
    <2>3. /\ executor'[p] = IF p = q THEN 0 ELSE executor[p]
          /\ checked'[p] = IF p = q THEN TRUE ELSE checked[p]
        BY <1>10 DEF EndExecuting, ManagerTypes
    <2>4. UNCHANGED <<needs, summed, planned, planner, menu>>
        BY <1>10 DEF EndExecuting
    <2> QED
        BY <1>2, <1>3, <2>1, <2>2, <2>3, <2>4 DEF PhaseInv, Begun, Offered
<1>11. ASSUME NEW q \in Phases, AgentDies(q) PROVE PhaseInv(p)'
    <2>1. /\ executor'[p] \in {0, executor[p]} /\ (planner'[p] => planner[p])
        BY <1>11 DEF AgentDies, ManagerTypes
    <2>2. UNCHANGED <<needs, checked, summed, planned, menu>> /\ Finished' = Finished
        BY <1>11 DEF AgentDies, Finished
    <2> QED
        BY <1>2, <1>3, <2>1, <2>2 DEF PhaseInv, Begun, Offered
<1>12. CASE UNCHANGED managerVars
    BY <1>2, <1>12 DEF managerVars, PhaseInv, Begun, Offered, Finished
<1> QED
    BY <1>4, <1>5, <1>6, <1>7, <1>8, <1>9, <1>10, <1>11, <1>12 DEF ManagerNext, AgentStep

LEMMA ManagerStepInv == ManagerInv /\ [ManagerNext]_managerVars => ManagerInv'
BY ManagerTypeStep, BegunStep DEF ManagerInv

\* The invariant of the manager and its agents: types, and that a phase is
\* executed after everything it needs.
THEOREM ManagerInvariant == ManagerSpec => []ManagerInv
BY ManagerInitInv, ManagerStepInv, PTL DEF ManagerSpec

\* Everything behind a phase at work is finished.
LEMMA BehindIsFinished ==
    ASSUME ManagerInv, reused = {}, ~hasty, NEW p \in Phases, AtWork(p)
    PROVE  Behind(needs[p]) \subseteq Finished
<1>1. \A q \in Phases : PhaseInv(q) /\ planned[q] \in Nat /\ summed[q] \in Nat /\ executor[q] \in Nat
    BY DEF ManagerInv, BegunInv, ManagerTypes
<1>2. needs[p] \subseteq Finished
    BY <1>1 DEF AtWork, PhaseInv, Begun
<1>3. Finished \in SUBSET Phases
    BY DEF Finished
<1>4. Closed(Finished)
    <2>1. \A q \in Finished : Begun(q) /\ q \in Phases
        BY <1>1 DEF Finished, Begun
    <2> QED
        BY <1>1, <2>1 DEF Closed, PhaseInv
<1> QED
    BY <1>2, <1>3, <1>4 DEF Behind

LEMMA ApartInv == ManagerInv => RelatedApart
<1> SUFFICES ASSUME ManagerInv, reused = {}, ~hasty,
                    NEW p \in Phases, NEW q \in Phases, AtWork(p), AtWork(q)
             PROVE  ~Related(p, q)
    BY DEF RelatedApart
<1>1. ASSUME NEW r \in Phases, AtWork(r) PROVE r \notin Finished
    <2>1. PhaseInv(r) /\ planned[r] \in Nat /\ summed[r] \in Nat
        BY DEF ManagerInv, BegunInv, ManagerTypes
    <2> QED
        BY <1>1, <2>1 DEF AtWork, PhaseInv, Finished
<1> QED
    BY <1>1, BehindIsFinished DEF Related

\* For any phases, any dependencies between them and any number of plans: of
\* two phases one of which needs the other, however indirectly, only one is
\* executed at a time; the exceptions are those of the property.
THEOREM ManagerKeepsApart == ManagerSpec => []RelatedApart
BY ManagerInvariant, ApartInv, PTL

-----------------------------------------------------------------------------
(* The three models side by side: each moves as it does alone. *)

LEMMA TeamsStep ==
    ASSUME [TeamsNext]_teamsVars
    PROVE  [TeamNext]_teamVars /\ [PlanTeamNext]_planTeamVars /\ [ManagerNext]_managerVars
BY DEF TeamsNext, OnlyState, OnlyPlanning, OnlyManager, teamsVars

\* Types of everything the agents share, for any agents, workers and phases.
THEOREM TeamsTyped == TeamsSpec => []TeamsTypeOK
<1>1. TeamInv => TeamTypeOK
    BY DEF TeamInv, LockInv, DocsInv, CommandInv, TeamTypeOK, IsTeamDoc
<1>2. PlanTeamInv => PlanTeamTypeOK
    BY DEF PlanTeamInv, PlanLockInv, FilesInv, PlanTeamTypeOK, AllJobs
<1>3. ManagerInv => ManagerTypeOK
    BY DEF ManagerInv, ManagerTypes, ManagerTypeOK, Offers
<1>4. TeamsInit => TeamInv /\ PlanTeamInv /\ ManagerInv
    BY TeamInitInv, PlanTeamInitInv, ManagerInitInv DEF TeamsInit
<1>5. TeamInv /\ PlanTeamInv /\ ManagerInv /\ [TeamsNext]_teamsVars
      => (TeamInv /\ PlanTeamInv /\ ManagerInv)'
    BY TeamsStep, TeamStepInv, PlanTeamStepInv, ManagerStepInv
<1>6. TeamInv /\ PlanTeamInv /\ ManagerInv => TeamsTypeOK
    BY <1>1, <1>2, <1>3 DEF TeamsTypeOK
<1> QED
    BY <1>4, <1>5, <1>6, PTL DEF TeamsSpec

\* And the phases that depend on each other are kept apart there too.
THEOREM TeamsKeepApart == TeamsSpec => []RelatedApart
<1>1. TeamsInit => ManagerInv
    BY ManagerInitInv DEF TeamsInit
<1>2. ManagerInv /\ [TeamsNext]_teamsVars => ManagerInv'
    BY TeamsStep, ManagerStepInv
<1> QED
    BY <1>1, <1>2, ApartInv, PTL DEF TeamsSpec
=============================================================================
