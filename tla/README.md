# SagaSmith in TLA+: the life of a turn, and the tool the project is planned with

The repository holds two programs, and this directory a TLA+ model of each.

**The game.** SagaSmith is a terminal game master: a player types, a LangGraph graph of agents
(Oracle, RulesLawyer, Orator, Archivist) plans, resolves and narrates the turn, and
a persistence layer makes the turn part of the campaign's canon, in SQLite and in a
vault of Markdown pages. Modelled is the part of that which must not go wrong
silently: what is canon, what the player can take back (`/retry`, `/discard`,
`/retcon`), and what survives a failure or the death of the process at any point.

**The planning tool.** `.kilo/` holds Get Shit Done (GSD): command line tools
(`gsd-tools.cjs`, Node.js), hooks and workflows with which several agents plan and execute
the phases of a project. All they share are files: `.planning/` with `STATE.md`, `ROADMAP.md`,
`config.json` and the phase directories, git, and a few caches. Modelled is what becomes of these
files when commands of several sessions interleave, die, time out or follow one another in
an order nobody tried.

Paths of the game are relative to `src/sagasmith/` of the repository unless they start
with `docs/` or `tests/`. Paths of the planning tool are relative to `.kilo/get-shit-done/bin/lib/`
unless they start with `hooks/`, `workflows/`, `command/`, `templates/` or `references/`, which are in
`.kilo/` or `.kilo/get-shit-done/`.

## Contents

1. [Inventory of the system](#1-inventory-of-the-system)
2. [Modules and how they correspond to the code](#2-modules-and-how-they-correspond-to-the-code)
3. [What is checked](#3-what-is-checked)
4. [Where code and documentation disagree](#4-where-code-and-documentation-disagree)
5. [What is proved](#5-what-is-proved)
6. [What is not modelled](#6-what-is-not-modelled)
7. [Plan](#7-plan)

## 1. Inventory of the system

### The game

Everything runs in one process and, for the TUI, in one thread; there is one SQLite
file per campaign, on which the app holds **one connection**. The checkpointer of
LangGraph writes through that same connection. Concurrency is therefore rare; what
is hard is *order*: many small commits on a shared connection, files beside it,
and operations that rewind what others have written.

| Part | State it keeps | Operations | Talks to |
| --- | --- | --- | --- |
| Graph thread (`graph/runtime.py`, `graph/routing.py`, `turn_start/builder.py`) | the chain of checkpoints of the campaign's thread | `invoke_turn`, `resume_and_close`, `retry_narration`, `discard_incomplete_turn`, `confirm_retcon`, `post_interrupt`, `resume_after_interrupt` | nodes; `SqliteSaver`; turn store |
| Turn store (`persistence/repositories.py`, `turn_history.py`, `retcon.py`) | `turn_records` (status, `completed_at`), `checkpoint_refs`, `transcript_entries`, `retcon_audit`, log tables | upsert, append, affected suffix, prior final checkpoint, confirm a retcon | the shared connection |
| TUI (`tui/app.py`, `tui/commands/*`, `tui/runtime.py`) | current turn, session, scrollback | player input, slash commands, quit, restart | graph thread, turn store |
| Turn close (`persistence/turn_close.py`) | none of its own | `close_turn`, `apply_vault_writes` | turn store, vault, index |
| Vault (`vault/*`, `cli/vault_cmd.py`) | master vault and player vault (files) | `write_page`, `sync`, `rebuild_indices` | files |
| Index and repair (`memory/fts5.py`, `retcon_repair/repair.py`) | FTS5 table | `index_page`, `remove_page`, `rebuild_all`, `repair_from_canonical` | the shared connection, vault |
| Graph cache (`memory/graph.py`) | process-wide adjacency of pages | `load_from_vault`, `update_page` | vault |
| Resolver, turn plan (`vault/resolver.py`, `turn_plan/builder.py`) | slug and alias indexes | `resolve`, `refresh`, `build_turn_plan` | vault |
| Memory packet (`agents/archivist/skills/memory_packet_assembly`) | none | a read under a token budget | transcript, index, graph, vault |
| Cost governor (`services/cost.py`) | spend, tokens, warnings sent | `record_usage`, `preflight`, `apply_hard_stop` | Oracle, RulesLawyer, Orator |
| LLM client (`providers/*`) | none | `invoke_with_retry`, `stream` | remote provider |
| Scene rendering and safety (`agents/orator/skills/scene_rendering`, `safety_guard/`, `services/safety*.py`) | safety event log | `render_scene`, `route_intent`, `check_stream`, `scan_generated_prose` | LLM, cost governor |
| Mechanics (`services/rules_engine.py`, `dice.py`, `combat_engine.py`, `rules_turn_resolution/`) | the encounter, check results | `resolve_check`, `start_encounter`, `resolve_strike`, `move`, `end_turn` | graph state |
| Onboarding (`onboarding/*`) | a draft; three committed rows | `step`, `edit`, `review`, `build_records`, `commit`, `reload` | SQLite |
| CLI set-up, schemas, prompts, evaluation harness | files and settings | one-shot | - |

What makes each part correct, and what is hard about it:

- **Graph thread.** A rewind returns to the checkpoint the player has in mind; the
  thread and the rows never tell different stories. Hard: each superstep is its own
  commit, so the process can die between any two; a rewind of *the* campaign thread
  affects every later turn; turn ids are derived from the thread and so are used
  again after a rewind.
- **Turn store.** Canon is a history: it grows at its end, a retcon cuts a suffix,
  nothing retconned comes back. Hard: "earlier" and "later" are decided by
  `completed_at`, which four different operations overwrite, and rows are looked up
  by turn id where they belong to an attempt.
- **TUI.** Every command gives the prompt back; a command acts on the turn the
  player sees. Hard: the player input handler silently finishes what is pending.
- **Turn close.** The rows of a turn become durable together; files follow the
  commit, never precede it; every failure afterwards is recorded. Hard: six
  repositories, the index and the checkpointer share a connection, so a failed step
  can leave something for the next one to commit.
- **Vault, index, repair.** The derived layers follow the master vault and hold no
  `gm_only` page; a rebuild restores them from whatever a failure left. Hard: `sync`
  deletes first and writes then; three code paths decide visibility.
- **Resolver, graph cache.** One page per entity; the cache equals what a reload
  would give. Hard: caches that are refreshed only on success.
- **Cost governor, LLM client, scene rendering.** No call is made that would exceed
  the budget; each warning fires once; the ladder of retries ends and never shows
  prose that was not screened. Hard: several ladders inside one another, one budget.
- **Mechanics.** The same seed gives the same roll; an encounter ends; nobody acts
  out of turn or without actions. Hard: roll indexes across turns and rewinds.
- **Onboarding.** Only a complete, validated draft is committed, and all of it. Hard:
  edits from the review phase against values validated earlier.

### The planning tool

Every command is a short-lived process; agents, sessions and hooks run them at any
time, several at once. There are two lock files and no server. What is hard is what
concurrent processes do to files without transactions, and what a long sequence of
legal commands does to numbers, headings and directories that are three copies of
one plan.

| Part | State it keeps | Operations | Talks to |
| --- | --- | --- | --- |
| STATE.md lock (`state.cjs`) | `STATE.md.lock` | acquire with ten attempts, stale after 10 s, release | every command that writes `STATE.md` |
| STATE.md commands (`state.cjs`) | `STATE.md` in two layouts, its YAML block, `STATE-ARCHIVE.md` | update, patch, advance-plan, begin-phase, planned-phase, sync, prune, decisions, blockers, ... | phase directories |
| Phase, roadmap, milestone commands (`phase.cjs`, `roadmap.cjs`, `milestone.cjs`) | `ROADMAP.md`, `phases/`, `milestones/` | add, insert, remove, complete, update-plan-progress, milestone complete, clear | `STATE.md` |
| Reads of the plan (`init.cjs`, `commands.cjs`, `verify.cjs`, `hooks/gsd-statusline.js`) | none | progress, analyze, stats, validate, health, statusline | all of the above |
| Planning lock (`core.cjs`) | `.planning/.lock` | `withPlanningLock`: 10 s, stale after 30 s, then run without it | writers of `ROADMAP.md` and `config.json` |
| Manager (`init.cjs`, `workflows/manager.md`) | background planners and executors | status of every phase, what to start next | phase directories |
| Workstreams (`workstream.cjs`, `core.cjs`) | `.planning/workstreams/`, one pointer per session and a shared one | create with migration, complete, set, clear | `.planning` |
| config.json and health (`config.cjs`, `core.cjs`, `verify.cjs`) | `config.json` | new-project, set, migrations on load, `health --repair` | every command |
| Hooks (`hooks/`) | counter and cache files | context warnings, update notices | sessions |
| Commits (`commands.cjs`) | git's index and branches | `gsd-tools commit` | agents |
| Worktrees (`core.cjs`, `workflows/execute-phase.md`) | branches and worktrees of executors | spawn, merge, remove, prune | git |
| Learnings (`learnings.cjs`) | `~/.gsd/knowledge` | copy, prune, delete | projects |
| Knowledge graph (`graphify.cjs`) | `.planning/graphs` | build, snapshot, query, diff | graphify |
| Intel, audits, profiles, documents, guard hooks | - | reads and generators in one pass | - |

What makes each part correct:

- **Locks.** One command at a time works on a file until a lock is given up on, and even then
  every command ends. **STATE.md commands** lose nothing of one another, and tell where the work is.
- **Plan.** Numbers are new, order is kept, executed work is deleted on request only; the
  commands that report progress agree. **Manager**: dependent phases are not executed together, and the
  milestone is finished.
- **Workstreams, worktrees, commits.** What was written before a move, merge or commit is somewhere
  afterwards, whatever fails half-way.
- **config.json.** What was set is what is loaded; a repair leaves nothing to repair.
- **Hooks, learnings, knowledge graph.** What they say is true of the files they keep.

## 2. Modules and how they correspond to the code

### The game: modules

```
GraphThread      the thread: head checkpoint, supersteps, rewinds
   ^
TurnStore        the rows: one operator per committed transaction
   ^
TurnLifecycle    the operations: TUI handlers driving runtime, thread and rows
   ^
LifecycleProperties --- Log == INSTANCE CanonLog   (abstract specification)
   ^              ^
MCLifecycle    LifecycleProofs

TurnClose        close_turn and the layers behind it, step by step
   ^
TurnCloseProperties --- Log == INSTANCE CloseLog   (abstract specification)
   ^           ^
MCTurnClose  TurnCloseProofs
```

### GraphThread

`head` is the checkpoint `graph.get_state` returns: its `turn_id`, the node to run
next, whether `memory_packet` is set, and whether an encounter is on or over. `hist`
is a history field: the *attempts* (executions of the graph from START) on whose
values this checkpoint's state was built. `headRef` says that the head's id is already
in `checkpoint_refs`, whose primary key it is. Each operator is one superstep, which
`SqliteSaver` commits:

- `StartGraph` is `build_turn_start` and the input checkpoint; `EntryNode` is
  `route_by_phase`, the phase being "combat" exactly when `combat_state` is set.
- `Oracle`, `RulesLawyer`, `Orator`, `Archivist` are the nodes. The Oracle may end the
  run (`budget_stop`, `safety_block`); whether it does is left open, which covers the
  cost governor and the safety guard.
- `PostInterrupt` is `update_state(as_node="archivist")`: it consumes the trigger of
  the node that was to run, so a thread paused at the Orator is at its end afterwards.
  `resume_after_interrupt` has the same effect on the thread.
- `RewindTo` is `_rewind_to_checkpoint`, a fork: a new id with the old values.

### TurnStore

`status`, `before`, `pre`, `final`, `rows` and `audit` are the rows that decide what is
canon. `completed_at` is only ever compared, so it is kept as the order it induces
(`before`); `Stamp(t)` is "now". Of the refs of a turn only the last of each kind is
ever read, so `pre[t]` and `final[t]` hold the checkpoint it points at. A transcript row
is the pair of its turn id and the attempt that produced it, and `audit` remembers
the attempts a retcon has removed (history variables, as is `hist`: the code has no
notion of an attempt, the properties need one). `narrated`, a status the schema
allows and no code writes, is left out.

### TurnLifecycle

One action per durable step of each operation. `op` says which operation is in flight
and how far it is; there is only one, handlers being synchronous. `cur` is
`app.current_turn_id`.

| Operation | Steps |
| --- | --- |
| player input (`tui/app.py`) | `PlayerInput`, (`OratorStep`, `ArchivistStep` for a pending narration,) `BeginTurn`, `LaunchGraph`, `OracleStep`, `RulesStep`, and one of `RecordPreNarration`, `ReturnUnrecorded`, `BudgetStop` |
| `/retry` | `RetryRewind`, `RetryMark`, `OratorStep`, `ArchivistStep` |
| `/discard` | `DiscardRewind`, `DiscardMark` |
| `/pause`, `/line`, quit | `Pause`, `Quit` |
| `/retcon`, confirmed | `Retcon`, `RetconRewind` |
| `resume_and_close` | `CloseTurn`, (`OratorStep`, `ArchivistStep`,) `CloseCommit` or `CloseRollback`, `VaultWritten` or `VaultFailed` |
| death and restart | `Crash` |

Worth knowing:

- `resume_and_close` has no caller in the TUI (turns played there never become canon);
  tests and the evaluation harness call it on the runtime. `CloseTurn` allows what
  those callers do: closing a turn paused at the Orator, or one whose run is over and
  whose record is open (`tests/integration/test_tui_graph_smoke.py`).
- The early returns of `invoke_turn` cannot fire here, the next turn's id always being
  the one after the head's; they are therefore absent.
- An exception no handler catches ends the app; for the model that is a `Crash`. A
  retcon whose repair of the derived layers fails is one of those, after the rewind.
- With `durability="async"` a checkpoint may become durable one step later, which is a
  crash one step earlier.

### TurnClose

The inside of `CloseCommit`, `VaultWritten` and `VaultFailed`. `tx` is what the shared
connection sees and `db` what is committed: *any* commit makes them equal, whoever
wrote what is pending. A page is reduced to the turn that wrote it and whether it is
projected (`player_known` and `foreshadowed` are) or `gm_only`. Paths under `meta/` are
indexed but not projected, as in the code. The steps are the appends and the commit,
the page loop with its audit rows, the refresh and its commit, the index updates, each
with its own commit, the clearing of the player vault file by file and the writing of
the projection, and the session page as a second `apply_vault_writes`. Every step has its failure
(`RollbackTurn`, `PageFails`, `RefreshFails`, `IndexFails`, `SyncFails`), and what repairs the layers
runs between closes: `ttrpg vault rebuild`, `ttrpg vault sync`, the repair at the end of a
retcon, which may leave a rebuilt index uncommitted (`RepairFails`). What fails on the index may leave its row deleted or
written and pending (`IndexFails`). `lost` and `loose` are history variables that say what a death or an unrecorded
failure has spoilt.

Simplifications: pages are written and removed in any order (the code: that of the list or of
the directory); `index.md` and `log.md`, made from the same pages as the projection, are not
state but the step that ends a sync; a turn closed successfully is not closed again; a turn removed by a
retcon is not followed here; repairs begin with nothing pending, or are refused (`RetconRefused`).

### The planning tool: modules

```
StateLock     StateDoc      PhaseTree        PlanningLock
    ^           ^   ^        ^     ^              ^
    |           |   |   PhaseViews |              |
    |           |   |        ^     |              |
    +--StateTeam+   +----- Planning+         PlanningTeam    Manager
           ^                 ^                    ^             ^
           |   Workstreams   |                    |             |
           |   ProjectConfig |                    |             |
           |   ContextMonitor|                    |             |
           |   UpdateCheck   |                    |             |
           |   Commits       |                    |             |
           |   Worktrees     |                    |             |
           |   Learnings     |                    |             |
           |   KnowledgeGraph|                    |             |
           |      ^          |                    |             |
           |      +-- MCTools+                    |             |
           |             ^                        |             |
           |  CommandProofs, WorkstreamProofs,    |             |
           |  PlanningProofs <-- ToolsProofs      |             |
           +------------- MCTeams ----------------+-------------+
                             ^
                         TeamProofs
```

`StateDocProofs` has the facts on the content of `STATE.md` that `PlanningProofs` and `TeamProofs` share.

**StateLock** is `acquireStateLock` to `releaseStateLock`, one action per system call: `Acquire`, `Refused`
(a lock older than ten seconds goes to `UnlinkStale`, whose stat and unlink are apart), `Retry`, `GiveUp` (the
last attempt unlinks the lock and proceeds), `Release` (unlinks whatever lock is there). `mode` is "rmw" for
`readModifyWriteStateMd`, which reads under the lock, and "blind" for `writeStateMd`, which stores what was read
before. `robbed` records that a lock was taken from a live process, `Kill` that one died.

**StateDoc** has the content of `STATE.md`: `body` its fields, `front` the YAML block, `bold` which of the two layouts
it has. Each command is an operator from document to document; `Synced` is the rebuild of the block that follows every
write. Texts are model values. In the plain layout the pattern for a field finds the block first (`InFront`),
as the regular expressions do.

**StateTeam** composes both: agents that give each other's commands, with the buffer of the lock holding a
document. A prune writes `STATE.md` under the lock (`pending` is what it took out), then reads the archive (`ReadArchive`) and writes
it back (`ArchivePruned`), without a lock; `crossed` records that it wrote over what another prune had added. `TeamProofs`
shows that `StateTeam` implements `StateLock`.

**PhaseTree** has headings, directories, and every command of `phase.cjs`, `roadmap.cjs` and `milestone.cjs` as a
function of the two; a phase number is a sequence, and `padded` tells 06.1 from 6.1 where a pattern compares spellings.
**PhaseViews** has the commands that only read, and **Planning** a session that plans, executes and completes
phase after phase while the user adds, inserts and removes others; each action is a whole command on `ROADMAP.md`, the
directories and `STATE.md`. `doubled` is a history variable: a removal has left two directories with one number. Sequential by design: interleavings are the business of the two team modules.

**PlanningLock** is `withPlanningLock`; **PlanningTeam** runs `phase add`, `update-plan-progress` and `config-set`
under it, with the reads that happen before it and loadConfig's migration, which happens outside it. **Manager** is
`cmdInitManager` as it is refreshed every minute, and the planner and executor agents a user starts from it; what `reaches`
collects along the dependencies is there the least set closed under them.

**Workstreams** moves `.planning` into a workstream and back, rename by rename (`MoveItem`, `Restore`, `Shelve`, `Unshelve`),
each of which may fail; a value above 0 of an item is the run that wrote it. **ProjectConfig** has `config.json` as its keys and where
they are (flat, in their section, legacy), so that shadowing is visible. **ContextMonitor** and **UpdateCheck** are hook processes
that read, empty and write one file, each in a step of its own. The monitor looks for `STATE.md` (`active`), and what throws when it starts the record
or remembers it is caught (`SpawnFails`, `SaveFails`): the message is given anyway. **Commits** has git reduced to branches (sequences of
trees), index and working tree. A list has files and the folder above them (`Above`); the check of an entry and its `git add` are two
steps (`CheckEntry`, `AddEntry`), between which files change. **Worktrees** has branches as sets of commits. **Learnings** and
**KnowledgeGraph** keep files that can be torn. A graph lists its edges, several of which may have one key, each with one of three tiers
of confidence or none; `Query`, `Budgeted` and `Diff` translate the algorithms of `graphify.cjs`, and their properties compare them with
a definition by paths. `ends`, what each build that ended had found, is a history variable.

**MCTeams** and **MCTools** put several of these models into one state space: `focus`, fixed in the initial state, says
which of them moves, and the others stay as they are. This is a disjoint sum, not a product: no interaction is claimed
between them. Invariants speak of the model in focus; temporal properties hold trivially of the others.

## 3. What is checked

Run TLC on a module with a configuration, for example
`tlc -workers 4 -config lifecycle_full.cfg MCLifecycle`.

| Run | Question | Bounds | Distinct states |
| --- | --- | --- | --- |
| `lifecycle_full` | does canon stay a history, with encounters and a death anywhere? | 3 turn ids, 5 attempts | 946 k |
| `lifecycle_story` | are canon and the thread one story, is a retcon final, does the prompt return? | 3 turn ids, 5 attempts, no encounters | 151 k |
| `turn_close` | does every layer follow the one before it, whatever fails? | 2 closes, 3 pages (one ordinary, one under `meta/`, the session page) | 862 k |
| `gsd_teams` | do agents that share `.planning` lose each other's work, and does everyone finish? | 2 agents, 2 commands, 2 attempts; 2 workers, 2 jobs; 3 phases of 2 plans | 113 k |
| `gsd_tools` | is the plan kept through every edit, and what do workstreams, config, hooks, commits, worktrees and stores promise? | see below | 950 k |
| `*_violation` | a sentence of the documentation the code does not keep (section 4) | as above | - |
| `last_phase_violation` | the same of the planning tool | 3 phases, 1 edit, 1 plan a phase | - |

`TypeOK`, `CloseTypeOK`, `TeamsTypeOK` and `ToolsTypeOK` are the type invariants. The others:

**lifecycle_full**
- `CanonOrder`: canonical turns are completed in the order of their ids, although every
  operation rewrites `completed_at`. Without it a retcon's suffix would be wrong.
- `CanonBehindThread`: the thread is never behind canon, and is done with the turn it is
  at if that turn is canon. So a retry or a discard never touches canon.
- `CanonBacked`: every canonical turn can be returned to; its final ref names a finished
  checkpoint of that turn and its transcript is there.
- `ImplementsCanonLog`: refinement. `CanonLog` knows nothing of checkpoints, commands or
  crashes: a log of (turn, attempt) pairs that is extended at its end, cut by a retcon to a
  non-empty prefix, or loses its last turn when its pages could not be written. The
  mapping takes each canonical turn with the attempt of its final checkpoint.

**lifecycle_story**
- `OneStory`: the history of every canonical turn's final checkpoint is a prefix of the
  history of the thread's head. The state played on from contains canon, in order.
- `RetconIsForever`, `RetconErases`: a removed attempt never closes a canonical turn again,
  and when `/retcon` gave the prompt back nothing in the thread was built on one.
- `RewindKeepsMechanics`: `/retry` and `/discard` change nothing of the pending attempt.
- `PromptReturns`: whatever was asked for, the prompt comes back.

**turn_close**
- `AllOrNothing`: rows are committed together or not at all, and no later commit of
  anything takes the leftovers of a failed close along.
- `NothingPending`: with the prompt back, at most a row of the rebuildable index is pending.
- `CompleteIsWritten`: a complete turn has all its pages and their committed audit rows,
  unless the process died in its page loop.
- `DerivedBehindMaster`: player vault and index never run ahead of the master vault, never
  hold a `gm_only` page, and the player vault nothing of `meta/`.
- `StaleIsRecorded`: a player vault that does not show the master vault is flagged.
- `SyncRestores`: a sync that ends repairs whatever an earlier one left.
- `ImplementsCloseLog`: refinement. `CloseLog` knows nothing of connections, audit rows or
  derived layers: a turn is open, complete, or marked for repair. It is committed as a
  whole and after every turn before it; only the last turn writes pages, only while it is
  complete, and only those it owes, which a mark or a death cancels. That no page names a
  turn that was not committed follows (`PagesAfterCommit`, proved in section 5). The
  mapping takes the outcome from rows and status, and what is owed from the page loop.

**gsd_teams**
- `NoLostUpdate`: until a lock is taken from a live process, what a read-modify-write stores over is what it read.
- `EffectsKept`: what each command added to `STATE.md` is still there, or in the archive, or in the hands of a prune, until
  a lock was taken, a blind writer stored an old copy, a prune died between its writes, or two prunes wrote the archive over each
  other. The exceptions are what the code does: planned-phase, sync and milestone complete are blind, and the archive has no lock
  (section 4).
- `OneInside`, `PlanningKept`: the planning lock excludes, and no number is given twice, no added phase or setting lost, no torn
  `config.json` left behind, until somebody runs without the lock, or a migration outside it overwrites or dies.
- `RelatedApart`: the manager never has a phase and one that depends on it executed at once, unless phase
  numbers are reused or an execute was given out while the planner still wrote.
- `CommandsEnd`, `JobsEnd`: every command ends, whoever dies holding a lock. `AllDone`: a user who follows the manager's menu
  finishes the milestone, unless an agent dies (a phase left "partial" is not offered again).

**gsd_tools**
- `ExecutedWorkKept`, `EditsSound`: executed work is deleted on request only; new numbers are new; removing a phase keeps
  the order of the directories, those apart that share a number or a title with another; shipped phases are not written to while
  the phase at hand has its heading (without it the number is looked up in the archive).
- `ViewsSound`: six commands agree on whether the milestone is done, and the warnings about roadmap and disk are
  exact, under the conditions named there (distinct numbers, no phase checked off and then planned again, and fewer than 200 phases:
  `Math.round` makes 100 percent of 199 in 200).
- `StatusTold`: `STATE.md` and the statusline say executing while a plan is executed, unless a removal has left two directories
  with one number; `state validate` finds no verified phase that is said to be executing, while the Current Phase field names
  the phase at hand (a removal does not renumber it). In the plain layout the end of the
  milestone is not told (section 4), so that part is for the bold layout.
- `StreamsKeepWork`, `SessionsApart`: the files of the project are never lost or left apart by create and complete, when
  renames fail or processes die; no session moves another's pointer. Excepted are two commands that move files at once or into
  one directory: the rollback of the second then removes the directory with what the first has moved into it.
- `SetHolds`, `RepairSettles`: what was set is what is loaded; two repairs in a row leave nothing repairable.
- `HooksSound`: the agent is told that its state is in `STATE.md` only after a record of the session was started, unless starting it
  threw; it is recorded once, unless monitors overlapped or the counter could not be written; the debounce never silences a needed
  warning, unless monitors overlapped; an update notice is true, unless an upgrade overtakes a check.
- `CommitsSound`: what a command reported as committed is in the history of some branch, of the branch it named when no other
  command was at work, and no commit removes a file. Excepted: `--amend`, a file that was missing when the folder above it was added
  (`git add` of a folder stages what is missing in it), and one removed between its check and its add (section 4).
- `WorkLands`: no executor's commit is lost by those who remove worktrees, and an undisturbed wave ends with the work of every
  plan merged. Excepted: the commit between the check and the removal, and a rescue whose second merge fails.
- `KnowledgeSound`: a copied learning stays readable and single. `query` answers with what lies within two edges of a match. A budget
  drops whole tiers, the least certain first and none without need, and edges without a tier never, so that an answer may stay
  too large. `diff` compares with the graph of the last build that ended, is silent of equal graphs and tells every difference,
  but for an edge that a later one with its key hides. (That graph is the one at hand unless a build was cut short: section 4.)

### Bounds, and why they are enough

Three turn ids are the smallest number at which a retcon's suffix, its prior turn and a
turn before that differ; five attempts let every id be played, and one or two of them be
taken back and played again, which is where ids, refs and rows of different attempts meet. `CrashPoints`
and `CrashAt` name the steps at which the process may die. They are all of them, with two
exceptions:

- `lifecycle_story` excludes the stage between the commit of a retcon and its rewind.
  `RetconErases` does not hold there: after such a death the thread is still on the
  retconned attempts, and nothing at start-up notices. `lifecycle_full` includes that stage.
- `rebuild_violation` uses only the page loop, to show the shortest way.

`Encounters` is FALSE in `lifecycle_story` because `RewindKeepsMechanics` fails in combat (section 4).
Two closes are enough for a later close to meet what an earlier one left; three pages cover the
three kinds of path. `EndingTurns` is {1}: one close may end the session, and write its page, so that a later close meets
what that left. `Appends` is six, one for each repository the close writes to.

`CHECK_DEADLOCK` is left on for the game: pausing, quitting, `vault sync` are always possible at the prompt. For the planning
tool it is off: the runs stop when their bounds on commands and edits are used up.

*gsd_teams.* Two agents are what a race needs; two attempts (the code: ten) let a waiter be refused, retry and give up; two
commands let a third process find a lock left behind. `MaxWaits` is the number of times a worker finds the planning lock taken
before its ten seconds are over. Phases 1 and 2 with any dependency between them and a backlog phase 9; chains of three phases,
where a dependency is indirect, are too large for this run with its liveness properties (`Manager` alone with four phases is
of the order of a million states).

*gsd_tools.* Planning: two phases, one of them decimal in some initial states, two edits of the roadmap, up to two plans a phase, the bold
layout with integer phases and the plain one with both. Two edits are enough for a removal to follow an insertion and for a new milestone to follow the
old. Workstreams: two sessions of which one has a key, two names, three commands, two renames that fail or processes
that are killed (two are needed for a rollback to meet what a killed command left). Config: one
repository beside the project, three changes by hand, one loss or torn write. Context monitor: two hook processes and three tool uses
with `DEBOUNCE_CALLS` 2 (the code: 5), enough to be silent once, escalate and speak again. Update check: two workers, two checks,
versions 1 to 3. Commits: two commands at a time and two in all, one change of two files; a
request lists the folder, a file or both files, or the folder and a file with `--amend`. Worktrees: two executors of one wave or of two
waves, `init progress` beside one wave only (`OneWave`). Learnings: two sessions, two projects, two texts, two files. Graph: three nodes, one of which
may be named by edges only, lists of one or two edges with any tiers and with keys that may be equal, some of four edges with every
tier once (the last without one), two builds.

### Fairness

`Spec` of the lifecycle asks for `WF_vars(Progress)`: an operation in flight goes on. Handlers are
synchronous functions on the only thread, so nothing can set one aside; what can end one early
is a death, which is the separate action `Crash`. Nothing is assumed of the player.
`TurnClose` states no liveness and assumes no fairness.

In the planning tool `TeamFairness` and `PlanTeamFairness` ask for weak fairness of each process's next step: commands are
synchronous scripts that wait with a timer, so one that is not killed goes on; that a lock grows old (`Age`, `Expire`) is *not*
assumed, since the number of attempts ends the waiting. `ManagerFairness` asks that the dashboard is refreshed and the user goes on
(the loop of `workflows/manager.md`), that five minutes pass, and that some agent at work goes on. `MCTeams` states the same
of the model in focus. `MCTools` states no liveness.

### Mutants

The modules contain, each marked `Mutant:`, alternative forms of definitions a plausible bug would
produce: a transaction that leaves out the ref, `<=` for `<` in the search for the prior
checkpoint, a missing rollback, a projection that is not cleared. Substituting one makes the
property listed with it in `PROJECT.json` fail; no specification uses them.

## 4. Where code and documentation disagree

Each is a run that TLC must find violated. The counterexamples are the shortest TLC found.

1. **`transcript_violation`: retconned lines return as canon.** After a retcon the thread is at an
   earlier turn and the retconned ids are handed out again. `_ensure_turn_record` keeps the old row
   (`graph/runtime.py:370`), the old transcript rows stay, and the next close makes the row
   `complete`; scrollback joins by turn id (`persistence/turn_history.py:171`). The player was told that
   "Affected turns are audit-retained and excluded from canon." (`tui/commands/control.py:187`).
2. **`discard_violation`: a discarded turn is narrated.** `/discard` leaves the thread before the
   Orator, and the next input resumes it (`tui/app.py:134`). `tui/commands/recovery.py:5`: "discards the
   incomplete turn entirely".
3. **`recoverable_violation`: no pre-narration checkpoint in combat.** `invoke_turn` records none when
   the memory packet is missing (`graph/runtime.py:86`), which is every turn of an encounter.
   `docs/sagasmith/PERSISTENCE_SPEC.md:75`: "A pre-narration checkpoint is written after mechanics are
   resolved but before Orator streaming starts."
4. **`retry_violation`: `/retry` returns to a retconned attempt.** A consequence of 1 and 3: the last
   ref of a reused id may be another attempt's (`graph/runtime.py:278`), against the "deterministic
   invariant" of `graph/runtime.py:265`.
5. **`combat_violation`: combat never ends.** A completed encounter leaves `combat_state` in place and the next
   turn derives the phase from it (`turn_start/builder.py:53`), against `graph/routing.py:3`, "returning completed
   encounters to play".
6. **`rebuild_violation`: a complete turn without pages.** A death between the commit
   (`persistence/turn_close.py:150`) and the last page leaves nothing to rebuild from and no mark.
   `docs/sagasmith/agents/archivist-skills.md:147` says it is recoverable with `ttrpg vault rebuild`.

7. **`last_phase_violation`: the milestone ends with phases open.** `phase complete` takes the next phase from the
   directories while there is a later one (`phase.cjs:905`). `phase add` makes a directory at once, so after phase 1 of 3 and
   one added phase 4 it goes on with 4 and then reports `is_last_phase`. The comment above says "Phases may be defined in
   ROADMAP.md but not yet scaffolded to disk, so a filesystem-only scan would incorrectly report is_last_phase:true"
   (`phase.cjs:899`), and `workflows/transition.md:384` takes the field for "Last phase done".

Met while modelling the planning tool, visible in the models as the exceptions named in the properties:

- `state.cjs:937` says the lock is held "across the entire read -> transform -> write cycle"; `writeStateMd`'s callers read before it.
- In the layout of `templates/state.md`, `stateReplaceField` finds `status:` of the YAML block first, and the block is rebuilt from
  the body: such an update of Status or Progress is lost.
- Removing an integer phase renames every later integer heading to the *same* number (`phase.cjs:668`: each round of the count-down
  matches what the one before wrote); the directories are renumbered correctly.
- `core.cjs:640` "Never removes a worktree whose branch has unmerged commits": true of the moment of the check. A fresh worktree,
  whose branch has no commit yet, counts as merged, and its uncommitted work goes with it.
- The cleanup of `workflows/execute-phase.md` removes from the merge every file under `.planning/` it added, the committed
  `SUMMARY.md` included (lines 635-643), although the executor was told to commit it so that it is not lost (474-478).
- A flat key of an old `config.json` hides the same setting in its section (`core.cjs`, loadConfig), so `config-set` prints one value
  and commands use another.
- `state prune` takes old entries out of `STATE.md` under the lock, then reads `STATE-ARCHIVE.md` and writes it back without one
  (`state.cjs:1568`, 1577). Of two prunes that both took something, the second drops what the first had archived, against the header it
  writes (`state.cjs:1571`): "Recoverable but no longer loaded into agent context." (`crossed`)
- `commit` with a list looks for a file (`commands.cjs:320`) and adds it in another process (331); of a file removed in between the
  deletion is staged and committed. `commands.cjs:322`: "missing files are skipped. Staging a deletion here would silently remove tracked
  planning files". (`raced`) A listed folder takes the removals in it along in any case. (`swept`)
- The snapshot of the knowledge graph is taken after the new graph was copied (`command/gsd-graphify.md:165-179`, `graphify.cjs:448`), so
  after every build that ended `diff` compares a graph with itself. `command/gsd-graphify.md:73`: "Show changes since last build", and
  118: build twice, "second to generate a diff baseline".

## 5. What is proved

### The game

`LifecycleProofs` proves, with TLAPS and for **every** `MaxTurn`, `MaxAttempt`, `Encounters` and
`CrashPoints` (so, with all crash points, for a death anywhere):

| Theorem | States |
| --- | --- |
| `TypeCorrect` | `Spec => []TypeOK` |
| `CanonIsOrdered` | `Spec => []CanonOrder` |
| `ThreadAheadOfCanon` | `Spec => []CanonBehindThread` |
| `CanonIsBacked` | `Spec => []CanonBacked` |
| `CanonIsALog` | `Spec => ImplementsCanonLog` |
| `LifecycleInvariant` | `Spec => []LifecycleInv`, from which the first four follow |

The assumptions are `ThreadAssumption` (the bounds are natural numbers, `Encounters` is a Boolean) and
`CrashAssumption` (crash points are stages).

**The argument.** None of the invariants is inductive. Three kinds of facts are missing:

- *what the rows point at* (`RefInv`): a pre-narration ref names a checkpoint of its own turn paused
  before the Orator, a final ref one of its own turn at its end. A rewind makes such a
  checkpoint the head, so whatever a rewind may restore has to be known in advance.
- *what an operation in flight relies on* (`OpInv`): a turn about to be marked or closed is the
  head's turn and not canon; a turn about to begin is the one after the head's; between a
  retcon's commit and its rewind the turn to return to is the last canonical one.
- *that the order is one* (`OrderInv`) and *that a thread without turns has nothing to run* (`ThreadInv`).

`StampFacts` says what writing `completed_at` does to the order, once for every operation that
does it. `RetconCutsSuffix` is the heart: because canonical turns are ordered by id, the
affected suffix of a retcon is exactly the canonical turns from the selected one on, and the
prior turn is the last before them. Then there is one lemma per action (`...Keeps`), put together
in `StepInv`. For the refinement every step either leaves the canonical pairs alone
(`SameCanon`, `CanonFixed`) or is one of three abstract steps: `CommitCloses`, `RetconCuts`,
`DemotionWithdraws`. That the last holds, a turn is only withdrawn while it is the last, comes from
`CanonBehindThread`.

It goes on with what is true of the *attempts*, for every bound again:

| Theorem | States | Hypotheses |
| --- | --- | --- |
| `CanonIsOneStory` | `Spec => []OneStory` | no encounters |
| `RewindsKeepMechanics` | `Spec => RewindKeepsMechanics` | no encounters |
| `RetconsAreForever` | `Spec => []RetconIsForever` | no encounters, no death at "rewind" |
| `RetconsErase` | `Spec => []RetconErases` | no encounters, no death at "rewind" |

The hypotheses are those of the run `lifecycle_story`, and needed: in combat no pre-narration checkpoint is recorded (section 4,
3 and 4), and a death between the two commits of a retcon leaves the thread on the retconned attempts. `CanonIsOneStory` needs only
the first. The invariant behind them speaks of `hist`, the attempts a checkpoint was built from. `FreshInv`: a history is
in ascending order and holds no attempt that was not begun, so that it only grows by attempts never used before. `StoryInv`: the history of every
canonical turn's final checkpoint is a prefix of the head's, and a later canonical turn has the longer one. `PackedInv` is where
the absence of encounters enters: whatever is about to be narrated has its memory packet, so its checkpoint is on record.
`ErasedInv` is what a rewind to the prior turn leaves: nothing built on an attempt a retcon removed.

`TurnCloseProofs` proves of the close, for any set of pages, any number of closes and appends, every failure and a death
anywhere:

| Theorem | States |
| --- | --- |
| `CloseTypeCorrect`, `CloseIsAtomic`, `PromptLeavesNothing` | `[]CloseTypeOK`, `[]AllOrNothing`, `[]NothingPending` |
| `CloseKeepsPromise` | `Spec => ImplementsCloseLog` |
| `VaultBehindCanon`, `CompleteTurnsAreWritten` | `[]PagesAfterCommit`, `[]CompleteIsWritten` |
| `DerivedLayersFollow`, `StalenessIsOnRecord` | `[]DerivedBehindMaster`, `[]StaleIsRecorded` |
| `SyncIsComplete` | the action property `SyncRestores` |
| `CloseInvariant` | `Spec => []CloseInv`, from which the others follow |

What these say of the prompt is right because of what the close in flight has done so far, and `CloseInv` is that:
`PendingInv` names, stage by stage, what may differ between the connection and the database (this is what makes a foreign commit
harmless), `RowsInv` and `PagesInv` how many rows and pages of the turn in flight are there, `SyncInv` which files of the projection
are written, and `StaleInv` on which turn an unfinished projection is on record.
The refinement needs of it that a turn in flight after its commit is complete and the newest (`InFlightIsNewest`): then the
commit is `Complete`, a page is `Put`, a failure is `MarkForRepair` (with or without the page it fails on), the session page
is `Owe`, a death in a page loop is `CutShort`, and no other step is seen.

**Only model-checked** of the game: `PromptReturns`, since liveness under fairness is out of the prover's reach.

### The planning tool

Each theorem holds for any set of processes, any number of commands, faults and deaths, and any other value of the constants
that meets the assumptions of the module: that bounds are natural numbers (`MaxVersion`, the last version published, at least 2), that `NoAgent`, `NoWorker` and `NoName` are no agent, worker
or name, that keyed sessions are sessions, that an executor is not the one who cleans up after it (`ActorAssumption`), and that the text
two projects share is one of the texts (`NoteAssumption`).

| Module | Theorem | States |
| --- | --- | --- |
| `TeamProofs` | `LockExcludes`, `RmwLosesNothing` | `LockSpec => []Exclusive`, `[]NoLostUpdate` |
| | `TeamImplementsLock` | `TeamSpec => LockSpec` |
| | `TeamExcludes`, `TeamLosesNothing` | `TeamSpec => []Exclusive`, `[]NoLostUpdate` |
| | `TeamTypeCorrect`, `TeamEffectsKept` | `TeamSpec => []TeamTypeOK`, `[]EffectsKept` |
| | `PlanningExcludes` | `PlanTeamSpec => []OneInside` |
| | `PlanningTypeCorrect`, `PlanningIsKept` | `PlanTeamSpec => []PlanTeamTypeOK`, `[]PlanningKept` |
| | `ManagerKeepsApart` | `ManagerSpec => []RelatedApart` |
| | `TeamsTyped`, `TeamsKeepApart` | `TeamsSpec => []TeamsTypeOK`, `[]RelatedApart` |
| `PlanningProofs` | `PlanTyped`, `PlanKeepsWork`, `PlanViewsAgree` | `PlanSpec => []PlanTypeOK`, `[]ExecutedWorkKept`, `[]ViewsSound` |
| | `PlanKeepsOrder` | `PlanSpec => [][OrderKept /\ ShippedFixed]_planVars` |
| | `PlanTellsStatus`, `PlanEditsSound` | `PlanSpec => []StatusTold`, `EditsSound`, where numbers do not reach the backlog |
| `ToolsProofs` | `ExecutedWorkLands` | `TreesSpec => []WorkLands` |
| | `LearningsStay`, `AnswersAndDiffHold` | `LearnSpec => []LearningsKept`, `GraphSpec => [](AnswersHold /\ DiffHolds)` |
| | `KnowledgeIsSound`, `ToolsTyped` | `ToolsSpec => []KnowledgeSound`, `[]ToolsTypeOK` |
| `CommandProofs` | `MonitorPromises`, `UpdateNoticeTrue` | `[](RecordedOnce /\ SilenceBounded)`, `[]NoticeIsTrue` |
| | `CommitPromises` | `CommitsSpec => [](CommitsKeep /\ OnItsBranch)` |
| | `HooksAreSound`, `CommitsAreSound` | `ToolsSpec => []HooksSound`, `[]CommitsSound` |
| | `SettingsHold`, `RepairsSettle` | `ConfigSpec => []SetHolds`, `[]RepairSettles` |
| `WorkstreamProofs` | `SessionsKeepApart`, `WorkIsNotLost` | `StreamsSpec => SessionsApart`, `[]StreamsKeepWork` |

*The lock of STATE.md.* `Exclusive` is inductive together with the types once one knows that a lock disappears only in ways
`robbed` records. `NoLostUpdate` needs it: the buffer of a read-modify-write in its last step equals the file because whoever else
could have written would have to be inside the lock as well. `LockInv` is their conjunction. The commands are then not looked at
one by one again: `TeamStepLock` shows that each step of theirs is a step of `StateLock` or leaves its variables alone, and both
properties carry over. *What the commands added* then stays: a command under the lock writes over what it read, what it makes of a
document keeps every entry it is not there to take out (`ApplyGains`, one lemma for each of the commands), what a prune took out is in
its hands until it is archived, and a command's entry is in the file from its write on (`TeamInv`). What is in the archive stays there until a
prune that had read it before writes it back (`crossed`), and that is all the second half of the property excepts.

*The planning lock* is the same argument (`PlanLockInv`). What stays rests on what a worker between its read and its write still
knows: the `ROADMAP.md` it read, a number above every other one, all keys that were set, and which inode a migration will overwrite
(`PlanTeamInv`).

*The manager* refuses an execute while a related phase is at work, but what it knows is a minute old, so the refusal alone proves nothing.
What does is the dependency check at the time of the offer: a phase whose execution has begun, or is on offer, needs only finished
phases, and a finished phase stays finished (`PhaseInv`, of which a phase that had been planned again after its execution began would be a
counterexample; `reused` and `hasty` are these). So the finished phases are closed under dependencies and hold all that is
behind a phase at work, through any chain (`BehindIsFinished`), while a phase at work is not finished. The
last two theorems put the three models of `MCTeams` side by side: each step there is a step or a stutter of each.

*The phase workflow.* Every command of `PhaseTree` is a function on the roadmap and the directories, and the proofs go by what it
does to them. `BaseInv` has their types and that numbers and titles are given out one after another, none above what
was there plus one for each edit. `StatusInv` relates the YAML block to the body and both to the stage of the session. With
`ExecutedWorkKept` they are `Sound`, the inductive invariant of most theorems. That *executed work stays* comes down to one fact on each
command, that it maps directories with their titles and summaries (for the renumbering of a removal, and of its decimals, by the way
`RemovedDirs` is built). That a removal *keeps the order* follows number by number from what it takes one off of. That the *views agree* is
counting: under the conditions of the property directories and headings are matched one to one, so that the number of complete
directories is the number of phases just when every heading is done, and with fewer than 200 phases `Math.round` tells this from less.

*What STATE.md tells* needs more: `PlacesInv`, that an integer names one directory and that a verified one lies before the phase at hand,
and `WorkInv`, that without doubled numbers only the phase at hand is under way and the plan that is counted is not ahead of its summaries.
These hold as long as the numbers given out stay below those of the backlog (`FewPhases`: what is in the roadmap at first and the bound
on edits add up to less than 999), for 999 and up are left out where the next number is looked for. It is a hypothesis of `PlanTellsStatus`
and `PlanEditsSound` only.

*Worktrees.* `LossInv` says where each commit of an executor is: on its branch, on the main one, or accounted to one of the two
exceptions. `WaveInv` says of a wave that is alone, position by position of the one who merges it, which plans have landed and
which still stand. *Learnings, graph.* The invariants pair each file with the session that is writing it; the answers of `query`
are proved equal to the definition by paths for every graph, since they are unions and not a recursion. Of edges with one key `query` keeps the
first and `diff` the last (`FirstsHave`, `LastsHave`), and `BudgetHolds` goes through the tiers; `GraphInv` has the snapshot equal to the
graph of the last build that ended.

*Hooks.* `MonitorInv` relates the warning file to what each hook process holds in memory and, while no two overlap, to how
long the session has been silent; of one about to tell the agent that its state is recorded it knows that a record was started or threw.
*Commits.* `StagedInv`: what a command staged is in the index or already in some history; what it has found
and not yet added is there or was removed since (`raced`); `Grown` and `NoneRemoved`: a history only grows, and no tree drops a file
outside `swept` and `raced`. *config.json.* `ConfigInv` follows a setting from where
it was written through migrations and repairs. *Workstreams.* `Effect` bounds what a step does to directories and to the pointers of
others. `KeptInv` says of the one command that moves files where each of them is: what is in `moved` is there and not here, and
everything else is here; so the directory or archive it removes at its end, or when it takes everything back, holds none of them.

*Types.* `ToolsTyped` puts the types of the nine tools together, each proved for its own specification (`PlanTyped`, `StreamsTyped`,
`ConfigTyped`, ...), and those have bounds that are invariants in their own right: `LowInv` and `RootInv`, that no file of a
workstream is from a command that never ran and that `workstreams/` is there as long as one of them is; `UsesInv`, that the silence counted
and the sessions recorded, with what the monitors at work will still add, are at most the tool uses; `AskedInv`, that a commit stages
what it was asked to.

Some attempts failed for a reason and changed the models:

- *`CommitsKeep`* used to say "in the history of the branch that was reported". With **three** commands that is false: one stages
  on a branch, a second checks out another, and the third commits there what the first has staged. The runs had two commands. The
  property now says what is true, the branch being the reported one when no other command was at work.
- *`StreamsKeepWork`* had only excepted commands that overlap. With **two** faults that is false: a migration is killed halfway after
  a second one has passed its check; that one goes on into the same directory, a rename fails, and its rollback deletes the directory
  with what the first had moved (`workstream.cjs:59`). The property excepts it now (`crossed`), and the run has two faults.

- *The phase workflow* was checked with two edits, and its properties said more than is true with more of them; each was found false by
  TLC once the bounds were what the failed proof asked for. `OrderKept`, with **four** edits: phases added by
  different commands may have one title, which the property used as the name of a directory. `ShippedFixed`, with **seven**: removals renumber headings and
  directories each in their own way until the phase at hand has no heading, and its number is then looked up in the archive. `StatusTold`,
  with **seven** edits for a verified phase that is said to be executing, and with **six** and three plans a phase for the status of two directories of one
  number (`doubled`). `ViewsSound`: 199 of 200 phases are 100 percent. The properties now name these cases, which are behaviours of the code.

**Only model-checked** of the planning tool: `CommandsEnd`, `JobsEnd` and `AllDone`, which are liveness under fairness.

## 6. What is not modelled

`PROJECT.json` lists every part with its reason. Of the planning tool:

- *Within modelled parts:* requirements traceability and the automatic prune of `phase complete`; letter suffixes, custom ids
  and project codes of phases; the warnings of `health` other than E002 to E005, W003, W004, W006 to W008, W012, W016 and what it repairs;
  `commit-to-subrepo` and `check-commit`; the folders between `.planning/phases/` and a file in the list of a commit;
  the changed nodes of a diff (a node is its id); `WAITING.json`; `workstream create --no-migrate`; the copies of `STATE.md` and `ROADMAP.md`
  around a merge of a worktree and the test gate after it; the list of stale hooks the update worker caches.
- *Parts:* intel, audits, UAT and schema drift, profiles, documents, templates, frontmatter, import from GSD 2, the guard hooks
  and the path checks of `security.cjs`: reads or generators in one pass, whose substance is matching of text.
- *git, npm, graphify, the agents and the user* are external; they are modelled by what the code expects of them.

Of the game:

- *Planned* (section 7): cost governor, LLM retry ladder, scene rendering and the safety guard's
  control; dice, rules, combat engine; resolver, graph cache, turn plan; the onboarding wizard.
- *Sessions.* Session ids, session numbers and the session-end flag are not part of the
  lifecycle; `TurnClose` takes "this close ends the session" as an input.
- *A second process.* A CLI command may run between two operations of the app, not inside one.
- *Text.* Page contents, prompts, narration, the matching of safety terms, intents parsed from
  the player's line: the model takes every outcome as possible.
- *Read-only commands*, scrollback rendering, widgets, the activation log: nothing depends on them.
- *Generated code, schemas, prompts, the evaluation harness, provider transport.*

## 7. Plan

Done: the game's thread, rows and lifecycle with its abstract log, the inner steps of the close with theirs; the
locks of the planning tool and the commands under them, the phase workflow with its views, and the parts around it; the proofs of
section 5, which leave out only what is liveness. What remains, in order of importance:

1. **Services of the game** (`CostGovernor`, `RetryLadder`, `SceneRendering`). Spend and warnings under several calls of a
   turn; the rewrite ladder with its preflights, stream failures, screening and fallback; the retry ladder of
   `invoke_with_retry`. Hazards waiting for it: the stream's usage is never recorded (`scene_rendering/logic.py:160`), the two
   warnings when one call crosses both limits (`services/cost.py:125`), a schema violation after a time-out ends the ladder
   (`providers/client.py:149`).
2. **Mechanics** (`Dice`, `CombatEngine`, `RulesTurn`). Turn order, actions, end of the encounter; roll ids across rewinds and the
   `roll_logs` key (`services/dice.py:64`); strikes out of turn (`services/combat_engine.py:93`).
3. **Memory and onboarding** (`EntityResolver`, `VaultGraph`, `TurnPlan`, `OnboardingWizard`). One page per entity through failed
   batches; the cached graph against a reload (`memory/graph.py:119`); the wizard's edits from the review (`onboarding/wizard.py:199`).
4. **Manager** with a chain of three phases, as a run of its own; `ManagerKeepsApart` already covers chains of any length, `AllDone` does not.
