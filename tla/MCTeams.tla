------------------------------- MODULE MCTeams -------------------------------
(***************************************************************************)
(* The three models of agents at work on one .planning directory at a      *)
(* time, in one state space: focus, fixed at the start, says which of them *)
(* moves; the others stay in one of their initial states.                  *)
(***************************************************************************)
EXTENDS StateTeam, PlanningTeam, Manager

CONSTANTS a1, a2, w1, w2

VARIABLE focus

teamsVars == <<teamVars, planTeamVars, managerVars, focus>>

TeamsInit ==
    /\ focus \in {"state", "planning", "manager"}
    /\ TeamInit /\ PlanTeamInit /\ ManagerInit
    /\ focus # "state" => ~file.bold
    /\ focus # "planning" => ~config.legacy
    /\ focus # "manager" => reused = {} /\ needs = [p \in Phases |-> {}]

OnlyState == focus = "state" /\ TeamNext /\ UNCHANGED <<planTeamVars, managerVars, focus>>
OnlyPlanning == focus = "planning" /\ PlanTeamNext /\ UNCHANGED <<teamVars, managerVars, focus>>
OnlyManager == focus = "manager" /\ ManagerNext /\ UNCHANGED <<teamVars, planTeamVars, focus>>

TeamsNext == OnlyState \/ OnlyPlanning \/ OnlyManager

\* The fairness of the model that moves.
TeamsFairness ==
    /\ \A a \in Agents : WF_teamVars(focus = "state" /\ Proceed(a))
    /\ \A w \in Workers : WF_planTeamVars(focus = "planning" /\ GoOn(w))
    /\ WF_managerVars(focus = "manager" /\ Refresh) /\ WF_managerVars(focus = "manager" /\ Continue)
    /\ WF_managerVars(focus = "manager" /\ \E p \in Phases : GoQuiet(p))
    /\ WF_managerVars(focus = "manager" /\ \E p \in Phases : AgentStep(p))

TeamsSpec == TeamsInit /\ [][TeamsNext]_teamsVars /\ TeamsFairness

\* Every variable of the three models keeps its type: locks hold an owner, attempts stay within
\* their limit, phases and their numbers exist.
TeamsTypeOK == TeamTypeOK /\ PlanTeamTypeOK /\ ManagerTypeOK
=============================================================================
