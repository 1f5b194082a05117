----------------------------- MODULE TurnClose -----------------------------
(***************************************************************************)
(* close_turn in detail: the SQLite transaction, the master-vault pages    *)
(* and their audit rows, the full-text index and the player vault, one     *)
(* durable step at a time, with failures and process deaths in between;    *)
(* and what repairs the layers derived from the master vault.              *)
(*                                                                         *)
(* All SQLite work shares one connection: tx is what the connection sees,  *)
(* db what is committed.  A commit makes db equal to tx whoever wrote what *)
(* is pending; a rollback or the end of the process makes tx equal to db.  *)
(* A page is abstracted to the turn that wrote it and to its visibility:   *)
(* gm_only, or one of the two that are projected.                          *)
(***************************************************************************)
EXTENDS Naturals

CONSTANTS
    MaxClose,      \* bound: turn ids are 1..MaxClose
    Pages,         \* vault paths
    MetaPages,     \* those under meta/
    SessionPage,   \* the page of the session
    EndingTurns,   \* bound: the turns that may end the session
    CrashAt        \* where the process may die, a subset of Steps

Turns == 1..MaxClose

VARIABLES
    db, tx,        \* the database as committed and as the connection sees it
    master,        \* master vault: the page under each path
    player,        \* player vault
    bundle,        \* the paths of vault_pending_writes of each turn
    op,            \* the operation in flight
    lost,          \* history: turns whose page writes a death cut short
    loose          \* history: a projection was cut short and no row says so

vars == <<db, tx, master, player, bundle, op, lost, loose>>

Visibilities == {"gm_only", "projected"}

NoPage == [by |-> 0, vis |-> "none"]

PageVersions == [by : Turns, vis : Visibilities] \cup {NoPage}

(* What a list of pages asks to be written: a visibility, or nothing. *)
PageLists == [Pages -> Visibilities \cup {"none"}]

NoPages == [p \in Pages |-> "none"]

Written(list) == {p \in Pages : list[p] # "none"}

Appends == 6    \* transcript, roll, provider, delta, cost, checkpoint ref

Steps ==
    {"idle",
     "rows",                          \* before close_turn's commit
     "pages", "refresh", "fts",       \* apply_vault_writes
     "clear", "write"}                \* VaultService.sync

ASSUME CloseAssumption ==
    /\ MaxClose \in Nat
    /\ MetaPages \subseteq Pages
    /\ SessionPage \in Pages \ MetaPages
    /\ EndingTurns \subseteq Turns
    /\ CrashAt \subseteq Steps

(***************************************************************************)
(* turn is 0 outside a close; pages are those of the apply_vault_writes in *)
(* flight, left what the current loop has still to visit, and session says *)
(* that the session page will be authored when this apply is through.      *)
(***************************************************************************)
Ops == [at : Steps, turn : 0..MaxClose, pages : PageLists,
        left : SUBSET Pages, session : BOOLEAN]

Idle == [at |-> "idle", turn |-> 0, pages |-> NoPages, left |-> {},
         session |-> FALSE]

Databases ==
    [status : [Turns -> {"needs_vault_repair", "complete"}],
     rows : [Turns -> 0..Appends],
     warn : [Turns -> BOOLEAN],
     audit : SUBSET (Turns \X Pages),
     fts : [Pages -> PageVersions]]

(* Every turn has the record _ensure_turn_record made for it. *)
EmptyDatabase ==
    [status |-> [t \in Turns |-> "needs_vault_repair"],
     rows |-> [t \in Turns |-> 0],
     warn |-> [t \in Turns |-> FALSE],
     audit |-> {},
     fts |-> [p \in Pages |-> NoPage]]

Init ==
    /\ db = EmptyDatabase
    /\ tx = db
    /\ master = [p \in Pages |-> NoPage]
    /\ player = master
    /\ bundle = [t \in Turns |-> {}]
    /\ op = Idle
    /\ lost = {}
    /\ loose = FALSE

(* conn.commit() after the connection's view became d. *)
Commit(d) == tx' = d /\ db' = d

(* rebuild_all: gm_only pages are skipped, those under meta/ are not. *)
Indexed(m) ==
    [p \in Pages |-> IF m[p].vis = "gm_only" THEN NoPage ELSE m[p]]

(* Mutant: pages under meta/ are projected too. *)
ProjectedWithMeta(m) ==
    [p \in Pages |-> IF m[p].vis = "gm_only" THEN NoPage ELSE m[p]]

(* _project_visible_pages: neither gm_only pages nor those under meta/. *)
Projected(m) ==
    [p \in Pages |->
        IF m[p].vis = "gm_only" \/ p \in MetaPages THEN NoPage ELSE m[p]]

Present(layer) == {p \in Pages : layer[p] # NoPage}

(* _clear_player_markdown_projection is through when nothing is left.      *)
Clear(o, remaining) ==
    IF remaining = {}
    THEN [o EXCEPT !.at = "write", !.left = Present(Projected(master))]
    ELSE [o EXCEPT !.at = "clear", !.left = remaining]

(* Mutant: the old projection is not removed. *)
ProjectOver(o) == Clear(o, {})

(* Computing the projection reads only: a failure of it is one of the first*)
(* step after it.                                                          *)
StartSync(o) == Clear(o, Present(player))

-----------------------------------------------------------------------------
(* close_turn: one transaction.                                            *)

(* The turns are closed in order; a close that rolled back may be repeated.*)
CloseTurn(t) ==
    /\ op = Idle
    /\ \A u \in Turns : u >= t => db.rows[u] = 0
    /\ \E list \in PageLists, ending \in BOOLEAN :
         /\ list[SessionPage] = "none" /\ (ending => t \in EndingTurns)
         /\ bundle' = [bundle EXCEPT ![t] = Written(list)]
         /\ op' = [at |-> "rows", turn |-> t, pages |-> list, left |-> {},
                   session |-> ending]
    /\ UNCHANGED <<db, tx, master, player, lost, loose>>

(* Mutant: one row too many. *)
AppendOneMore ==
    /\ op.at = "rows"
    /\ tx.rows[op.turn] <= Appends
    /\ tx' = [tx EXCEPT !.rows[op.turn] = @ + 1]
    /\ UNCHANGED <<db, master, player, bundle, op, lost, loose>>

AppendRow ==
    /\ op.at = "rows"
    /\ tx.rows[op.turn] < Appends
    /\ tx' = [tx EXCEPT !.rows[op.turn] = @ + 1]
    /\ UNCHANGED <<db, master, player, bundle, op, lost, loose>>

(* Where an apply_vault_writes begins, the session page's being the last. *)
Apply(t, list, ending) ==
    [at |-> "pages", turn |-> t, pages |-> list, left |-> Written(list),
     session |-> ending]

ApplySession(t) ==
    Apply(t, [NoPages EXCEPT ![SessionPage] = "projected"], FALSE)

AfterApply == IF op.session THEN ApplySession(op.turn) ELSE Idle

(* INSERT OR REPLACE of the record: sync_warning becomes NULL. *)
UpsertRecord(d, t, s) == [d EXCEPT !.status[t] = s, !.warn[t] = FALSE]

(* Mutant: the pages are written before the commit. *)
CompleteUncommitted ==
    /\ op.at = "rows"
    /\ tx.rows[op.turn] = Appends
    /\ tx' = UpsertRecord(tx, op.turn, "complete")
    /\ op' = IF Written(op.pages) = {}
             THEN AfterApply
             ELSE Apply(op.turn, op.pages, op.session)
    /\ UNCHANGED <<db, master, player, bundle, lost, loose>>

(* The commit; without vault pages apply_vault_writes is not called. *)
CompleteTurn ==
    /\ op.at = "rows"
    /\ tx.rows[op.turn] = Appends
    /\ Commit(UpsertRecord(tx, op.turn, "complete"))
    /\ op' = IF Written(op.pages) = {}
             THEN AfterApply
             ELSE Apply(op.turn, op.pages, op.session)
    /\ UNCHANGED <<master, player, bundle, lost, loose>>

(* Mutant: no rollback. *)
AbandonTurn ==
    /\ op.at = "rows"
    /\ op' = Idle
    /\ UNCHANGED <<db, tx, master, player, bundle, lost, loose>>

(* The redaction sweep, an insert or the commit raised. *)
RollbackTurn ==
    /\ op.at = "rows"
    /\ tx' = db
    /\ op' = Idle
    /\ UNCHANGED <<db, master, player, bundle, lost, loose>>

-----------------------------------------------------------------------------
(* apply_vault_writes.                                                     *)

ReplacePage(p) ==
    master' = [master EXCEPT ![p] = [by |-> op.turn, vis |-> op.pages[p]]]

(* atomic_write and the audit row, which nothing commits yet. *)
WritePage(p) ==
    /\ op.at = "pages"
    /\ p \in op.left
    /\ ReplacePage(p)
    /\ tx' = [tx EXCEPT !.audit = @ \cup {<<op.turn, p>>}]
    /\ op' = [op EXCEPT !.left = @ \ {p},
                        !.at = IF op.left = {p} THEN "refresh" ELSE @]
    /\ UNCHANGED <<db, player, bundle, lost, loose>>

(* Mutant: the record is not upserted. *)
KeepComplete ==
    /\ Commit(tx)
    /\ op' = Idle
    /\ UNCHANGED <<player, bundle, lost, loose>>

(* The except branch: its commit takes the audit rows pending so far along.*)
DemoteTurn ==
    /\ Commit(UpsertRecord(tx, op.turn, "needs_vault_repair"))
    /\ op' = Idle
    /\ UNCHANGED <<player, bundle, lost, loose>>

(* atomic_write raised, before os.replace or in the validation after it. *)
PageFails(p) ==
    /\ op.at = "pages"
    /\ p \in op.left
    /\ ReplacePage(p) \/ UNCHANGED master
    /\ DemoteTurn

(* Mutant: the audit rows are left for a later commit. *)
RefreshUncommitted ==
    /\ op.at = "refresh"
    /\ op' = [op EXCEPT !.at = "fts", !.left = Written(op.pages)]
    /\ UNCHANGED <<db, tx, master, player, bundle, lost, loose>>

(* resolver.refresh() and the commit of the audit rows. *)
RefreshResolver ==
    /\ op.at = "refresh"
    /\ Commit(tx)
    /\ op' = [op EXCEPT !.at = "fts", !.left = Written(op.pages)]
    /\ UNCHANGED <<master, player, bundle, lost, loose>>

RefreshFails ==
    /\ op.at = "refresh"
    /\ DemoteTurn
    /\ UNCHANGED master

(* _update_derived_indices: index_page or remove_page, each with a commit. *)
RowOf(p) ==
    IF op.pages[p] = "gm_only" THEN NoPage ELSE [by |-> op.turn, vis |-> op.pages[p]]

IndexPage(p) ==
    /\ op.at = "fts"
    /\ p \in op.left
    /\ Commit([tx EXCEPT !.fts[p] = RowOf(p)])
    /\ op' = IF op.left = {p} THEN StartSync(op)
                               ELSE [op EXCEPT !.left = @ \ {p}]
    /\ UNCHANGED <<master, player, bundle, lost, loose>>

(* Swallowed.  The DELETE of index_page, or its INSERT too, may have run    *)
(* before the exception; nothing undoes them.                              *)
IndexFails(p) ==
    /\ op.at = "fts"
    /\ p \in op.left
    /\ tx' \in {tx, [tx EXCEPT !.fts[p] = NoPage], [tx EXCEPT !.fts[p] = RowOf(p)]}
    /\ op' = StartSync(op)
    /\ UNCHANGED <<db, master, player, bundle, lost, loose>>

-----------------------------------------------------------------------------
(* VaultService.sync, called by a close, by a repair or by the CLI.        *)

(* Unlinks one *.md of the player vault. *)
ClearPage(p) ==
    /\ op.at = "clear"
    /\ p \in op.left
    /\ player' = [player EXCEPT ![p] = NoPage]
    /\ op' = Clear(op, op.left \ {p})
    /\ UNCHANGED <<db, tx, master, bundle, lost, loose>>

ProjectPage(p) ==
    /\ op.at = "write"
    /\ p \in op.left
    /\ player' = [player EXCEPT ![p] = Projected(master)[p]]
    /\ op' = [op EXCEPT !.left = @ \ {p}]
    /\ UNCHANGED <<db, tx, master, bundle, lost, loose>>

(* _regenerate_index and _regenerate_log, from the same pages: the sync is *)
(* through.                                                                *)
RegenerateListing ==
    /\ op.at = "write"
    /\ op.left = {}
    /\ op' = AfterApply
    /\ loose' = FALSE
    /\ UNCHANGED <<db, tx, master, player, bundle, lost>>

(* Mutant: the failure of a close is not recorded. *)
SyncFailsSilently ==
    /\ op.at \in {"clear", "write"}
    /\ loose' = (loose \/ op.turn = 0)
    /\ op' = AfterApply
    /\ UNCHANGED <<db, tx, master, player, bundle, lost>>

(* A close records the failure; the CLI and a repair only report it. *)
SyncFails ==
    /\ op.at \in {"clear", "write"}
    /\ IF op.turn = 0
       THEN /\ loose' = TRUE
            /\ UNCHANGED <<db, tx>>
       ELSE /\ Commit([tx EXCEPT !.warn[op.turn] = TRUE])
            /\ UNCHANGED loose
    /\ op' = AfterApply
    /\ UNCHANGED <<master, player, bundle, lost>>

-----------------------------------------------------------------------------
(* Repairs.                                                                *)

(* rebuild_all on a connection of its own: a pending write locks it out. *)
VaultRebuild ==
    /\ op = Idle
    /\ tx = db
    /\ Commit([tx EXCEPT !.fts = Indexed(master)])
    /\ UNCHANGED <<master, player, bundle, op, lost, loose>>

VaultSync ==
    /\ op = Idle
    /\ op' = StartSync(Idle)
    /\ UNCHANGED <<db, tx, master, player, bundle, lost, loose>>

(***************************************************************************)
(* confirm_retcon: its "BEGIN" fails inside a pending write, the rollback  *)
(* drops that write and the error is not one RetconCommand catches.        *)
(***************************************************************************)
RetconRefused ==
    /\ op = Idle
    /\ tx # db
    /\ tx' = db
    /\ UNCHANGED <<db, master, player, bundle, op, lost, loose>>

(* After its commit and rewind the app's own process repairs the layers. *)
RepairFromCanonical ==
    /\ op = Idle
    /\ tx = db
    /\ Commit([tx EXCEPT !.fts = Indexed(master)])
    /\ op' = StartSync(Idle)
    /\ UNCHANGED <<master, player, bundle, lost, loose>>

(***************************************************************************)
(* The stage "fts5" raised: a page that cannot be read is skipped, so it   *)
(* was the listing of the vault, after the DELETE, or the commit.          *)
(***************************************************************************)
RepairFails ==
    /\ op = Idle
    /\ tx = db
    /\ \E layer \in {[p \in Pages |-> NoPage], Indexed(master)} :
         tx' = [tx EXCEPT !.fts = layer]
    /\ UNCHANGED <<db, master, player, bundle, op, lost, loose>>

-----------------------------------------------------------------------------
(* Play goes on: the thread's checkpoints are put on the same connection,  *)
(* and SqliteSaver commits it.                                             *)
ThreadPut ==
    /\ op = Idle
    /\ tx # db
    /\ Commit(tx)
    /\ UNCHANGED <<master, player, bundle, op, lost, loose>>

(* The process dies; the next one opens the campaign. *)
Crash ==
    /\ op.at \in CrashAt
    /\ tx' = db
    /\ op' = Idle
    /\ lost' = IF op.at \in {"pages", "refresh"} THEN lost \cup {op.turn} ELSE lost
    /\ loose' = (loose \/ op.at \notin {"idle", "rows"})
    /\ UNCHANGED <<db, master, player, bundle>>

Close ==
    \/ \E t \in Turns : CloseTurn(t)
    \/ AppendRow \/ CompleteTurn \/ RollbackTurn

ApplyVaultWrites ==
    \/ \E p \in Pages : WritePage(p) \/ PageFails(p) \/ IndexPage(p) \/ IndexFails(p)
    \/ RefreshResolver \/ RefreshFails

Sync ==
    \/ \E p \in Pages : ClearPage(p) \/ ProjectPage(p)
    \/ RegenerateListing \/ SyncFails

Repair ==
    \/ VaultRebuild \/ VaultSync
    \/ RetconRefused \/ RepairFromCanonical \/ RepairFails

Next == Close \/ ApplyVaultWrites \/ Sync \/ Repair \/ ThreadPut \/ Crash

Spec == Init /\ [][Next]_vars
=============================================================================
