------------------------ MODULE TurnCloseProperties ------------------------
(***************************************************************************)
(* What closing a turn must guarantee, whichever of its steps fails and    *)
(* wherever the process dies.                                              *)
(***************************************************************************)
EXTENDS TurnClose

(* Every variable holds a value of its kind. *)
CloseTypeOK ==
    /\ db \in Databases
    /\ tx \in Databases
    /\ master \in [Pages -> PageVersions]
    /\ player \in [Pages -> PageVersions]
    /\ bundle \in [Turns -> SUBSET Pages]
    /\ op \in Ops
    /\ lost \subseteq Turns
    /\ loose \in BOOLEAN

(* The rows of a turn are committed together or not at all, and with them  *)
(* its completion: no commit of a later step, of another turn or of the    *)
(* index takes along what a failed close left on the shared connection.    *)
AllOrNothing ==
    \A t \in Turns :
        /\ db.rows[t] \in {0, Appends}
        /\ db.status[t] = "complete" => db.rows[t] = Appends
        /\ db.warn[t] => db.status[t] = "complete"

(* When the prompt is back, nothing but a row of the rebuildable index can *)
(* still be pending on the connection.                                     *)
NothingPending ==
    op = Idle => [tx EXCEPT !.fts = db.fts] = db

(* The vault never runs ahead of the database: a page of a turn is on disk *)
(* only if the turn's transaction was committed.                           *)
PagesAfterCommit ==
    \A p \in Pages : \A t \in Turns :
        master[p].by = t => db.rows[t] = Appends

(* A complete turn that is no longer being closed has all its pages in the *)
(* master vault, each with its committed audit row, unless the process died*)
(* while they were written.                                                *)
CompleteIsWritten ==
    \A t \in Turns \ lost :
        db.status[t] = "complete" /\ op.turn # t =>
            \A p \in bundle[t] :
                /\ <<t, p>> \in db.audit
                /\ master[p].by >= t

(* The layers derived from the master vault follow it and never show a     *)
(* gm_only page; the player vault shows nothing of meta/ either.           *)
DerivedBehindMaster ==
    \A p \in Pages :
        /\ \A layer \in {player[p], db.fts[p], tx.fts[p]} :
             layer.vis # "gm_only" /\ layer.by <= master[p].by
        /\ p \in MetaPages => player[p] = NoPage

(* When the prompt is back and the player vault does not show the master   *)
(* vault, either the death or the failing command that did it was seen, or *)
(* a turn at least as late as every page of the master vault says so: by   *)
(* its sync_warning or by its status needs_vault_repair.                   *)
Flagged(t) ==
    \/ db.warn[t]
    \/ db.rows[t] = Appends /\ db.status[t] = "needs_vault_repair"

StaleIsRecorded ==
    op = Idle /\ player # Projected(master) =>
        \/ loose
        \/ \E t \in Turns : Flagged(t) /\ \A p \in Pages : master[p].by <= t

(***************************************************************************)
(* Closing a turn implements CloseLog: whatever raises and wherever the    *)
(* process dies, a turn is committed once and as a whole, only the last    *)
(* one is marked for repair, none so marked is complete again or written   *)
(* to, and the master vault takes pages of the last turn only, after its   *)
(* commit.                                                                 *)
(***************************************************************************)
Outcome ==
    [t \in Turns |-> IF db.rows[t] = 0 THEN "open"
                     ELSE IF db.status[t] = "complete" THEN "complete" ELSE "repair"]

Author == [p \in Pages |-> master[p].by]

Owed == IF op.at = "pages" THEN op.left ELSE {}

Log == INSTANCE CloseLog WITH
    LogTurns <- Turns, LogPages <- Pages,
    outcome <- Outcome, page <- Author, owed <- Owed

ImplementsCloseLog == Log!CloseLogSpec

(* A sync that ends leaves exactly the projection of the master vault,     *)
(* whatever an earlier sync that failed or died left behind.               *)
SyncRestores ==
    [][RegenerateListing => player' = Projected(master)]_vars

-----------------------------------------------------------------------------
(* A crash between the SQLite commit of a turn and its index updates is    *)
(* recoverable with "ttrpg vault rebuild": once the index agrees with the  *)
(* master vault again, the pages of every complete turn are there.         *)
RebuildRecovers ==
    op = Idle /\ db.fts = Indexed(master) =>
        \A t \in Turns : db.status[t] = "complete" =>
            \A p \in bundle[t] : master[p].by >= t
=============================================================================
