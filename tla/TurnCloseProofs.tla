-------------------------- MODULE TurnCloseProofs --------------------------
(***************************************************************************)
(* The safety of closing a turn for every number of turns and every set of *)
(* pages, wherever the process may die.                                    *)
(*                                                                         *)
(* What the properties say of the moments when the prompt is back is right *)
(* because of what the close in flight has done so far.  CloseInv adds it: *)
(* what the step at op.at may rely on, what is pending on the connection,  *)
(* how far the pages are, and how far the projection is.                   *)
(***************************************************************************)
EXTENDS TurnCloseProperties, TLAPS

(* The stages after the commit of the turn's rows. *)
AfterCommit == {"pages", "refresh", "fts", "clear", "write"}

(* What the operation in flight is about. *)
OpShape ==
    /\ op.at = "idle" => op = Idle
    /\ op.at \in {"rows", "pages", "refresh", "fts"} => op.turn \in Turns
    /\ op.session => op.turn \in Turns
    /\ op.at \in {"pages", "fts"} => op.left \subseteq Written(op.pages)
    /\ op.at = "rows" => bundle[op.turn] = Written(op.pages)

(* What is pending on the connection: the rows of the turn being closed,   *)
(* the audit rows of the pages being written, rows of the index.           *)
PendingInv ==
    /\ tx.status = db.status /\ tx.warn = db.warn
    /\ \A t \in Turns : tx.rows[t] # db.rows[t] => op.at = "rows" /\ op.turn = t
    /\ db.audit \subseteq tx.audit
    /\ tx.audit # db.audit => op.at \in {"pages", "refresh"}

(* No turn after the one in flight has rows; that one has none before its  *)
(* commit and is complete after it.                                        *)
RowsInv ==
    /\ op.at = "rows" => \A u \in Turns : u >= op.turn => db.rows[u] = 0
    /\ op.at \in AfterCommit /\ op.turn # 0 =>
         /\ db.rows[op.turn] = Appends
         /\ db.status[op.turn] = "complete"
         /\ \A u \in Turns : u > op.turn => db.rows[u] = 0

(* A page of turn t that need not be written any more. *)
Landed(t, p, d) == <<t, p>> \in d.audit /\ master[p].by >= t

(* How far the pages of the turn in flight are: those of its bundle, which *)
(* the session page is not among, and those of the list being applied.     *)
PagesInv ==
    /\ op.at = "pages" => \A p \in bundle[op.turn] \ op.left : Landed(op.turn, p, tx)
    /\ op.at = "refresh" => \A p \in bundle[op.turn] : Landed(op.turn, p, tx)
    /\ op.at \in {"fts", "clear", "write"} /\ op.turn # 0 =>
         \A p \in bundle[op.turn] : Landed(op.turn, p, db)
    /\ op.at = "pages" => \A p \in Written(op.pages) \ op.left : master[p].by >= op.turn
    /\ op.at \in {"refresh", "fts"} =>
         \A p \in Written(op.pages) : master[p].by >= op.turn

(* How far the projection is: what is left of the old one, then what is    *)
(* missing of the new one.                                                 *)
SyncInv ==
    /\ op.at = "clear" => Present(player) \subseteq op.left
    /\ op.at = "write" =>
         \A p \in Pages : player[p] = IF p \in op.left THEN NoPage ELSE Projected(master)[p]

(* StaleIsRecorded, which also holds until the commit of the next turn. *)
Recorded ==
    \/ player = Projected(master)
    \/ loose
    \/ \E t \in Turns : Flagged(t) /\ \A p \in Pages : master[p].by <= t

StaleInv == op.at \in {"idle", "rows"} => Recorded

CloseInv ==
    /\ CloseTypeOK /\ OpShape /\ PendingInv
    /\ AllOrNothing /\ RowsInv
    /\ PagesAfterCommit /\ PagesInv /\ CompleteIsWritten
    /\ SyncInv /\ DerivedBehindMaster /\ StaleInv

-----------------------------------------------------------------------------
(* Facts about the helpers.                                                *)

LEMMA NoPageIsOne == NoPage \in PageVersions
  BY DEF PageVersions

(* The fields of a database. *)
LEMMA DatabaseFields ==
    ASSUME NEW d \in Databases
    PROVE  /\ d.status \in [Turns -> {"needs_vault_repair", "complete"}]
           /\ d.rows \in [Turns -> 0..Appends]
           /\ d.warn \in [Turns -> BOOLEAN]
           /\ d.audit \in SUBSET (Turns \X Pages)
           /\ d.fts \in [Pages -> PageVersions]
  BY DEF Databases

(* What an upsert of the record of t writes, and all it writes. *)
LEMMA UpsertFacts ==
    ASSUME NEW d \in Databases, NEW t \in Turns,
           NEW s \in {"needs_vault_repair", "complete"}
    PROVE  /\ UpsertRecord(d, t, s) \in Databases
           /\ UpsertRecord(d, t, s).status = [d.status EXCEPT ![t] = s]
           /\ UpsertRecord(d, t, s).warn = [d.warn EXCEPT ![t] = FALSE]
           /\ UpsertRecord(d, t, s).rows = d.rows
           /\ UpsertRecord(d, t, s).audit = d.audit
           /\ UpsertRecord(d, t, s).fts = d.fts
  BY DEF UpsertRecord, Databases

(* A derived layer shows nothing newer than the master vault and nothing   *)
(* gm_only.                                                                *)
LEMMA DerivedFacts ==
    ASSUME NEW m \in [Pages -> PageVersions]
    PROVE  /\ Indexed(m) \in [Pages -> PageVersions]
           /\ Projected(m) \in [Pages -> PageVersions]
           /\ \A p \in Pages :
                /\ Indexed(m)[p].vis # "gm_only" /\ Indexed(m)[p].by <= m[p].by
                /\ Projected(m)[p].vis # "gm_only" /\ Projected(m)[p].by <= m[p].by
                /\ p \in MetaPages => Projected(m)[p] = NoPage
  <1>1. \A v \in PageVersions : v.by \in Nat
    BY CloseAssumption DEF PageVersions, NoPage, Turns
  <1>2. NoPage.vis # "gm_only" /\ NoPage.by = 0
    BY DEF NoPage
  <1> QED
    BY <1>1, <1>2, NoPageIsOne DEF Indexed, Projected

(* Where a sync begins or goes on, and what it leaves of the operation.    *)
LEMMA ClearFacts ==
    ASSUME NEW o \in Ops, NEW R \in SUBSET Pages, master \in [Pages -> PageVersions]
    PROVE  /\ Clear(o, R) \in Ops
           /\ Clear(o, R).turn = o.turn /\ Clear(o, R).session = o.session
           /\ R = {} => /\ Clear(o, R).at = "write"
                        /\ Clear(o, R).left = Present(Projected(master))
           /\ R # {} => Clear(o, R).at = "clear" /\ Clear(o, R).left = R
  <1>1. Present(Projected(master)) \in SUBSET Pages
    BY DEF Present
  <1>2. "write" \in Steps /\ "clear" \in Steps
    BY DEF Steps
  <1> QED
    BY <1>1, <1>2 DEF Clear, Ops

LEMMA IdleFacts ==
    /\ Idle \in Ops /\ Idle.at = "idle" /\ Idle.turn = 0 /\ ~Idle.session
    /\ \A p \in Pages : NoPages[p] = "none"
  <1>1. NoPages \in PageLists /\ "idle" \in Steps /\ 0 \in 0..MaxClose
    BY CloseAssumption DEF NoPages, PageLists, Steps
  <1> QED
    BY <1>1 DEF Idle, Ops, NoPages

(* Where the pages of a turn begin to be written. *)
LEMMA ApplyFacts ==
    ASSUME NEW t \in Turns, NEW list \in PageLists, NEW ending \in BOOLEAN
    PROVE  /\ Apply(t, list, ending) \in Ops
           /\ Apply(t, list, ending).at = "pages"
           /\ Apply(t, list, ending).turn = t
           /\ Apply(t, list, ending).pages = list
           /\ Apply(t, list, ending).left = Written(list)
           /\ Apply(t, list, ending).session = ending
  <1>1. "pages" \in Steps /\ t \in 0..MaxClose /\ Written(list) \in SUBSET Pages
    BY CloseAssumption DEF Steps, Turns, Written
  <1> QED
    BY <1>1 DEF Apply, Ops

(* What follows an apply: nothing, or the apply of the session page. *)
LEMMA AfterApplyFacts ==
    ASSUME op \in Ops, op.session => op.turn \in Turns
    PROVE  /\ AfterApply \in Ops
           /\ ~op.session => AfterApply = Idle
           /\ op.session =>
                /\ AfterApply.at = "pages" /\ AfterApply.turn = op.turn
                /\ AfterApply.session = FALSE
                /\ AfterApply.left = Written(AfterApply.pages)
                /\ AfterApply.left = {SessionPage}
  <1>1. CASE op.session
    <2> DEFINE list == [NoPages EXCEPT ![SessionPage] = "projected"]
    <2>1. list \in PageLists /\ Written(list) = {SessionPage}
      BY CloseAssumption DEF PageLists, NoPages, Visibilities, Written
    <2>2. AfterApply = Apply(op.turn, list, FALSE)
      BY <1>1 DEF AfterApply, ApplySession
    <2>3. op.turn \in Turns
      BY <1>1
    <2> HIDE DEF list
    <2>4. /\ AfterApply.at = "pages" /\ AfterApply.turn = op.turn
          /\ AfterApply.pages = list /\ AfterApply.left = {SessionPage}
          /\ AfterApply.session = FALSE
      BY <2>1, <2>2 DEF Apply
    <2>5. AfterApply \in Ops
      BY <2>1, <2>2, <2>3, CloseAssumption DEF Apply, Ops, Steps, Turns
    <2> QED
      BY <1>1, <2>1, <2>4, <2>5
  <1>2. CASE ~op.session
    BY <1>2, IdleFacts DEF AfterApply
  <1> QED
    BY <1>1, <1>2 DEF Ops

-----------------------------------------------------------------------------
(* The close begins with nothing pending and no page. *)
LEMMA InitCloseInv == Init => CloseInv
  <1> SUFFICES ASSUME Init PROVE CloseInv
    OBVIOUS
  <1> USE DEF Init
  <1>1. /\ db = EmptyDatabase /\ tx = EmptyDatabase
        /\ master = [p \in Pages |-> NoPage] /\ player = [p \in Pages |-> NoPage]
        /\ op = Idle /\ bundle = [t \in Turns |-> {}] /\ lost = {} /\ loose = FALSE
    OBVIOUS
  <1>2. EmptyDatabase \in Databases
    BY NoPageIsOne DEF EmptyDatabase, Databases, Appends
  <1>3. CloseTypeOK
    BY <1>1, <1>2, IdleFacts, NoPageIsOne DEF CloseTypeOK
  <1>4. OpShape /\ PendingInv /\ RowsInv /\ PagesInv /\ SyncInv
    BY <1>1, IdleFacts DEF OpShape, PendingInv, RowsInv, PagesInv, SyncInv, AfterCommit
  <1>5. AllOrNothing
    BY <1>1 DEF AllOrNothing, EmptyDatabase
  <1>6. PagesAfterCommit
    BY <1>1 DEF PagesAfterCommit, NoPage, Turns
  <1>7. CompleteIsWritten
    BY <1>1 DEF CompleteIsWritten
  <1>8. DerivedBehindMaster
    BY <1>1 DEF DerivedBehindMaster, EmptyDatabase, NoPage
  <1>9. StaleInv
    BY <1>1 DEF StaleInv, Recorded, Projected, NoPage
  <1> QED
    BY <1>3, <1>4, <1>5, <1>6, <1>7, <1>8, <1>9 DEF CloseInv

-----------------------------------------------------------------------------
(* close_turn. *)

LEMMA CloseTurnKeeps ==
    ASSUME CloseInv, NEW t \in Turns, CloseTurn(t)
    PROVE  CloseInv'
  <1> USE DEF CloseInv
  <1>1. PICK list \in PageLists, ending \in BOOLEAN :
          /\ bundle' = [bundle EXCEPT ![t] = Written(list)]
          /\ op' = [at |-> "rows", turn |-> t, pages |-> list, left |-> {},
                    session |-> ending]
    BY DEF CloseTurn
  <1>2. /\ op.at = "idle" /\ op.turn = 0
        /\ \A u \in Turns : u >= t => db.rows[u] = 0
        /\ db' = db /\ tx' = tx /\ master' = master /\ player' = player
        /\ lost' = lost /\ loose' = loose
    BY IdleFacts DEF CloseTurn
  <1>3. CloseTypeOK'
    <2>1. op' \in Ops
      BY <1>1, CloseAssumption DEF Ops, Steps, Turns
    <2>2. Written(list) \in SUBSET Pages
      BY DEF Written
    <2> QED
      BY <1>1, <1>2, <2>1, <2>2 DEF CloseTypeOK
  <1>4. OpShape'
    BY <1>1, <1>2 DEF OpShape, CloseTypeOK
  <1>5. PendingInv' /\ RowsInv' /\ PagesInv' /\ SyncInv'
    BY <1>1, <1>2 DEF PendingInv, RowsInv, PagesInv, SyncInv, AfterCommit
  <1>6. AllOrNothing' /\ PagesAfterCommit' /\ DerivedBehindMaster'
    BY <1>2 DEF AllOrNothing, PagesAfterCommit, DerivedBehindMaster
  <1>7. CompleteIsWritten'
    BY <1>1, <1>2 DEF CompleteIsWritten, CloseTypeOK, Turns
  <1>8. StaleInv'
    BY <1>1, <1>2 DEF StaleInv, Recorded, Flagged, Projected
  <1> QED
    BY <1>3, <1>4, <1>5, <1>6, <1>7, <1>8

LEMMA AppendRowKeeps ==
    ASSUME CloseInv, AppendRow
    PROVE  CloseInv'
  <1> USE DEF CloseInv
  <1> DEFINE t == op.turn
  <1>1. /\ op.at = "rows" /\ t \in Turns /\ tx \in Databases /\ tx.rows[t] < Appends
        /\ tx' = [tx EXCEPT !.rows[t] = @ + 1]
        /\ db' = db /\ master' = master /\ player' = player /\ bundle' = bundle
        /\ op' = op /\ lost' = lost /\ loose' = loose
    BY DEF AppendRow, OpShape, CloseTypeOK
  <1>2. /\ tx' \in Databases /\ tx'.rows = [tx.rows EXCEPT ![t] = @ + 1]
        /\ tx'.status = tx.status /\ tx'.warn = tx.warn
        /\ tx'.audit = tx.audit /\ tx'.fts = tx.fts
    BY <1>1 DEF Databases, Appends
  <1>3. CloseTypeOK' /\ OpShape'
    BY <1>1, <1>2 DEF CloseTypeOK, OpShape
  <1>4. PendingInv'
    BY <1>1, <1>2, DatabaseFields DEF PendingInv
  <1>5. AllOrNothing' /\ RowsInv' /\ PagesAfterCommit' /\ CompleteIsWritten' /\ SyncInv'
    BY <1>1 DEF AllOrNothing, RowsInv, PagesAfterCommit, CompleteIsWritten, SyncInv, Projected
  <1>6. PagesInv' /\ DerivedBehindMaster'
    BY <1>1, <1>2 DEF PagesInv, Landed, DerivedBehindMaster
  <1>7. StaleInv'
    BY <1>1 DEF StaleInv, Recorded, Flagged, Projected
  <1> QED
    BY <1>3, <1>4, <1>5, <1>6, <1>7

LEMMA CompleteTurnKeeps ==
    ASSUME CloseInv, CompleteTurn
    PROVE  CloseInv'
  <1> USE DEF CloseInv
  <1> DEFINE t == op.turn
  <1>1. /\ op.at = "rows" /\ t \in Turns /\ t # 0 /\ tx \in Databases /\ op \in Ops
        /\ op.pages \in PageLists /\ op.session \in BOOLEAN
        /\ tx.rows[t] = Appends /\ bundle[t] = Written(op.pages)
        /\ db' = UpsertRecord(tx, t, "complete") /\ tx' = db'
        /\ master' = master /\ player' = player /\ bundle' = bundle
        /\ lost' = lost /\ loose' = loose
    BY DEF CompleteTurn, Commit, OpShape, CloseTypeOK, Turns, Ops
  <1>2. /\ db' \in Databases /\ db'.rows = tx.rows /\ db'.audit = tx.audit
        /\ db'.status = [tx.status EXCEPT ![t] = "complete"]
        /\ db'.warn = [tx.warn EXCEPT ![t] = FALSE] /\ db'.fts = tx.fts
    BY <1>1, UpsertFacts
  <1>3. /\ \A u \in Turns \ {t} : db'.rows[u] = db.rows[u] /\ db'.status[u] = db.status[u]
                                   /\ db'.warn[u] = db.warn[u]
        /\ db'.rows[t] = Appends /\ db'.status[t] = "complete" /\ db'.warn[t] = FALSE
        /\ db'.audit = db.audit /\ db.rows[t] = 0
        /\ \A u \in Turns : u > t => db'.rows[u] = 0
    <2>1. /\ tx.rows \in [Turns -> 0..Appends] /\ tx.warn \in [Turns -> BOOLEAN]
          /\ tx.status \in [Turns -> {"needs_vault_repair", "complete"}]
      BY <1>1, DatabaseFields
    <2>2. /\ tx.status = db.status /\ tx.warn = db.warn /\ tx.audit = db.audit
          /\ \A u \in Turns \ {t} : tx.rows[u] = db.rows[u]
      BY <1>1 DEF PendingInv
    <2>3. db.rows[t] = 0 /\ \A u \in Turns : u > t => db.rows[u] = 0
      BY <1>1 DEF RowsInv, Turns
    <2>4. \A u \in Turns : u > t => u # t
      BY <1>1 DEF Turns
    <2> QED
      BY <1>1, <1>2, <2>1, <2>2, <2>3, <2>4
  <1>4. \/ op' = Idle /\ bundle[t] = {}
        \/ /\ op' \in Ops /\ op'.at = "pages" /\ op'.turn = t
           /\ op'.left = Written(op'.pages) /\ bundle[t] \subseteq op'.left
    <2>1. CASE Written(op.pages) = {}
      BY <1>1, <2>1, AfterApplyFacts DEF CompleteTurn
    <2>2. CASE Written(op.pages) # {}
      BY <1>1, <2>2, ApplyFacts DEF CompleteTurn
    <2> QED
      BY <2>1, <2>2
  <1>5. op' \in Ops /\ ((op'.at = "idle" /\ op' = Idle) \/ (op'.at = "pages" /\ op'.turn = t))
    BY <1>4, IdleFacts
  <1>6. CloseTypeOK'
    BY <1>1, <1>2, <1>5 DEF CloseTypeOK
  <1>7. OpShape'
    BY <1>1, <1>4, <1>5, IdleFacts DEF OpShape
  <1>8. PendingInv' /\ SyncInv'
    BY <1>1, <1>5 DEF PendingInv, SyncInv
  <1>9. AllOrNothing' /\ RowsInv'
    <2>1. AllOrNothing'
      BY <1>1, <1>3 DEF AllOrNothing
    <2>2. RowsInv'
      BY <1>1, <1>3, <1>5 DEF RowsInv, AfterCommit
    <2> QED
      BY <2>1, <2>2
  <1>10. PagesAfterCommit'
    BY <1>1, <1>3 DEF PagesAfterCommit
  <1>11. PagesInv'
    <2>1. CASE op' = Idle
      BY <2>1, IdleFacts DEF PagesInv
    <2>2. CASE op' # Idle
      BY <1>1, <1>4, <2>2 DEF PagesInv
    <2> QED
      BY <2>1, <2>2
  <1>12. CompleteIsWritten'
    BY <1>1, <1>3, <1>4, IdleFacts DEF CompleteIsWritten
  <1>13. DerivedBehindMaster'
    BY <1>1, <1>2 DEF DerivedBehindMaster
  <1>14. StaleInv'
    <2>1. \A u \in Turns : Flagged(u) => u # t
      BY <1>3 DEF Flagged, AllOrNothing, Appends
    <2>2. \A u \in Turns : Flagged(u) => Flagged(u)'
      BY <1>3, <2>1 DEF Flagged
    <2> QED
      BY <1>1, <2>2 DEF StaleInv, Recorded, Projected
  <1> QED
    BY <1>6, <1>7, <1>8, <1>9, <1>10, <1>11, <1>12, <1>13, <1>14

LEMMA RollbackTurnKeeps ==
    ASSUME CloseInv, RollbackTurn
    PROVE  CloseInv'
  <1> USE DEF CloseInv
  <1>1. /\ op.at = "rows" /\ op.turn \in Turns /\ db \in Databases
        /\ tx' = db /\ db' = db /\ op' = Idle /\ master' = master /\ player' = player
        /\ bundle' = bundle /\ lost' = lost /\ loose' = loose
    BY DEF RollbackTurn, OpShape, CloseTypeOK
  <1>2. db.status[op.turn] # "complete"
    BY <1>1 DEF RowsInv, AllOrNothing, Turns, Appends
  <1>3. CloseTypeOK' /\ OpShape' /\ PendingInv' /\ RowsInv' /\ PagesInv' /\ SyncInv'
    BY <1>1, IdleFacts
    DEF CloseTypeOK, OpShape, PendingInv, RowsInv, PagesInv, SyncInv, AfterCommit
  <1>4. AllOrNothing' /\ PagesAfterCommit' /\ DerivedBehindMaster'
    BY <1>1 DEF AllOrNothing, PagesAfterCommit, DerivedBehindMaster
  <1>5. CompleteIsWritten'
    BY <1>1, <1>2 DEF CompleteIsWritten
  <1>6. StaleInv'
    BY <1>1 DEF StaleInv, Recorded, Flagged, Projected
  <1> QED
    BY <1>3, <1>4, <1>5, <1>6

-----------------------------------------------------------------------------
(* apply_vault_writes.                                                     *)

(* Turns are closed in order: the turn in flight is the last committed one,*)
(* and no page is of a later one.                                          *)
LEMMA NothingLater ==
    ASSUME CloseInv, op.at \in AfterCommit, op.turn # 0
    PROVE  /\ op.turn \in Turns
           /\ \A u \in Turns : db.rows[u] = Appends => u <= op.turn
           /\ \A u \in Turns : db.status[u] = "complete" => u <= op.turn
           /\ \A p \in Pages : master[p].by \in 0..op.turn
  <1> USE DEF CloseInv
  <1>1. op.turn \in Turns
    BY CloseAssumption DEF CloseTypeOK, Ops, Turns
  <1>2. \A u \in Turns : db.rows[u] = Appends => u <= op.turn
    BY <1>1 DEF RowsInv, Turns, Appends
  <1>3. \A u \in Turns : db.status[u] = "complete" => u <= op.turn
    BY <1>2 DEF AllOrNothing
  <1>4. ASSUME NEW p \in Pages PROVE master[p].by \in 0..op.turn
    <2>1. master[p].by \in Turns \/ master[p].by = 0
      BY DEF CloseTypeOK, PageVersions, NoPage
    <2> QED
      BY <1>1, <1>2, <2>1 DEF PagesAfterCommit, Turns
  <1> QED
    BY <1>1, <1>2, <1>3, <1>4

(* The derived layers stay behind a master vault that only moves on. *)
LEMMA DerivedStay ==
    ASSUME CloseInv, master' \in [Pages -> PageVersions],
           \A p \in Pages : master[p].by <= master'[p].by,
           player' = player, db'.fts \in {db.fts, tx.fts}, tx'.fts \in {db.fts, tx.fts}
    PROVE  DerivedBehindMaster'
  <1> SUFFICES ASSUME NEW p \in Pages, NEW layer \in {player[p], db.fts[p], tx.fts[p]}
               PROVE  /\ layer.vis # "gm_only" /\ layer.by <= master'[p].by
                      /\ p \in MetaPages => player[p] = NoPage
    BY DEF DerivedBehindMaster
  <1>1. /\ db.fts \in [Pages -> PageVersions] /\ tx.fts \in [Pages -> PageVersions]
        /\ player \in [Pages -> PageVersions] /\ master \in [Pages -> PageVersions]
    BY DatabaseFields DEF CloseInv, CloseTypeOK
  <1>2. \A v \in PageVersions : v.by \in Nat
    BY DEF PageVersions, NoPage, Turns
  <1>3. layer.by \in Nat /\ master[p].by \in Nat /\ master'[p].by \in Nat
    BY <1>1, <1>2
  <1> QED
    BY <1>3 DEF CloseInv, DerivedBehindMaster

LEMMA WritePageKeeps ==
    ASSUME CloseInv, NEW p \in Pages, WritePage(p)
    PROVE  CloseInv'
  <1> USE DEF CloseInv
  <1> DEFINE t == op.turn
  <1>1. /\ op.at = "pages" /\ t \in Turns /\ t # 0
        /\ p \in op.left /\ op.left \subseteq Written(op.pages)
        /\ op \in Ops /\ tx \in Databases /\ master \in [Pages -> PageVersions]
        /\ master' = [master EXCEPT ![p] = [by |-> t, vis |-> op.pages[p]]]
        /\ tx' = [tx EXCEPT !.audit = @ \cup {<<t, p>>}]
        /\ db' = db /\ player' = player /\ bundle' = bundle /\ lost' = lost /\ loose' = loose
    BY DEF WritePage, ReplacePage, OpShape, CloseTypeOK, Turns
  <1>2. /\ tx' \in Databases /\ tx'.audit = tx.audit \cup {<<t, p>>}
        /\ tx'.status = tx.status /\ tx'.rows = tx.rows
        /\ tx'.warn = tx.warn /\ tx'.fts = tx.fts
    BY <1>1 DEF Databases
  <1>3. /\ op' \in Ops /\ op'.turn = t /\ op'.pages = op.pages /\ op'.left = op.left \ {p}
        /\ op'.session = op.session
        /\ (op'.at = "pages" \/ (op'.at = "refresh" /\ op.left = {p}))
    <2>1. op' = [op EXCEPT !.left = @ \ {p},
                          !.at = IF op.left = {p} THEN "refresh" ELSE @]
      BY DEF WritePage
    <2>2. "refresh" \in Steps /\ op.left \in SUBSET Pages
      BY <1>1 DEF Steps, Ops
    <2> QED
      BY <1>1, <2>1, <2>2 DEF Ops
  <1>4. /\ master' \in [Pages -> PageVersions] /\ master'[p].by = t
        /\ \A q \in Pages \ {p} : master'[q] = master[q]
    <2>1. op.pages[p] \in Visibilities
      BY <1>1 DEF Written, Ops, PageLists
    <2> QED
      BY <1>1, <2>1 DEF PageVersions
  <1>5. /\ \A q \in Pages : master[q].by <= master'[q].by
        /\ \A u \in Turns : db.status[u] = "complete" => u <= t
    <2>1. \A q \in Pages : master[q].by \in 0..t
      BY <1>1, NothingLater DEF AfterCommit
    <2> QED
      BY <1>1, <1>4, <2>1, NothingLater DEF AfterCommit, Turns
  <1>6. CloseTypeOK'
    BY <1>1, <1>2, <1>3, <1>4 DEF CloseTypeOK
  <1>7. OpShape'
    BY <1>1, <1>3 DEF OpShape
  <1>8. PendingInv'
    BY <1>1, <1>2, <1>3 DEF PendingInv
  <1>9. AllOrNothing' /\ RowsInv' /\ SyncInv' /\ StaleInv'
    BY <1>1, <1>3 DEF AllOrNothing, RowsInv, AfterCommit, SyncInv, StaleInv
  <1>10. PagesAfterCommit'
    <2>1. db.rows[t] = Appends
      BY <1>1 DEF RowsInv, AfterCommit
    <2> QED
      BY <1>1, <1>4, <2>1 DEF PagesAfterCommit
  <1>11. PagesInv'
    <2>1. \A q \in bundle[t] \ op.left : Landed(t, q, tx)
      BY <1>1 DEF PagesInv
    <2>2. ASSUME NEW q \in bundle[t] \ op'.left
          PROVE  <<t, q>> \in tx'.audit /\ master'[q].by >= t
      <3>1. q \in Pages
        BY <1>1 DEF CloseTypeOK
      <3>2. CASE q = p
        BY <1>1, <1>2, <1>4, <3>2 DEF Turns
      <3>3. CASE q # p
        BY <1>2, <1>3, <1>4, <2>1, <2>2, <3>1, <3>3 DEF Landed
      <3> QED
        BY <3>2, <3>3
    <2>3. ASSUME NEW q \in Written(op.pages) \ op'.left
          PROVE  master'[q].by >= t
      <3>1. q \in Pages
        BY DEF Written
      <3>2. CASE q = p
        BY <1>1, <1>4, <3>2 DEF Turns
      <3>3. CASE q # p
        BY <1>1, <1>3, <1>4, <2>3, <3>1, <3>3 DEF PagesInv
      <3> QED
        BY <3>2, <3>3
    <2> QED
      BY <1>1, <1>3, <2>2, <2>3 DEF PagesInv, Landed
  <1>12. CompleteIsWritten'
    BY <1>1, <1>3, <1>4, <1>5 DEF CompleteIsWritten, CloseTypeOK, Turns, PageVersions, NoPage
  <1>13. DerivedBehindMaster'
    BY <1>1, <1>2, <1>4, <1>5, DerivedStay
  <1> QED
    BY <1>6, <1>7, <1>8, <1>9, <1>10, <1>11, <1>12, <1>13

(* The except branch, whatever the failing write has made of its page.     *)
LEMMA DemotionKeeps ==
    ASSUME CloseInv, op.at \in {"pages", "refresh"}, DemoteTurn,
           master' \in [Pages -> PageVersions],
           \A p \in Pages : master'[p] = master[p] \/ master'[p].by = op.turn
    PROVE  CloseInv'
  <1> USE DEF CloseInv
  <1> DEFINE t == op.turn
  <1>1. /\ t \in Turns /\ t # 0 /\ tx \in Databases
        /\ db' = UpsertRecord(tx, t, "needs_vault_repair") /\ tx' = db' /\ op' = Idle
        /\ player' = player /\ bundle' = bundle /\ lost' = lost /\ loose' = loose
    BY DEF DemoteTurn, Commit, OpShape, CloseTypeOK, Turns
  <1>2. /\ db' \in Databases /\ db'.rows = tx.rows /\ db'.audit = tx.audit
        /\ db'.status = [tx.status EXCEPT ![t] = "needs_vault_repair"]
        /\ db'.warn = [tx.warn EXCEPT ![t] = FALSE] /\ db'.fts = tx.fts
    BY <1>1, UpsertFacts
  <1>3. /\ \A u \in Turns : db'.rows[u] = db.rows[u]
        /\ \A u \in Turns \ {t} : db'.status[u] = db.status[u] /\ db'.warn[u] = db.warn[u]
        /\ db'.status[t] = "needs_vault_repair" /\ db'.warn[t] = FALSE
        /\ db.audit \subseteq db'.audit /\ db'.rows[t] = Appends
    <2>1. /\ tx.warn \in [Turns -> BOOLEAN]
          /\ tx.status \in [Turns -> {"needs_vault_repair", "complete"}]
      BY <1>1, DatabaseFields
    <2>2. /\ tx.status = db.status /\ tx.warn = db.warn /\ db.audit \subseteq tx.audit
          /\ \A u \in Turns : tx.rows[u] = db.rows[u]
      BY DEF PendingInv
    <2>3. db.rows[t] = Appends
      BY <1>1 DEF RowsInv, AfterCommit
    <2> QED
      BY <1>1, <1>2, <2>1, <2>2, <2>3
  <1>4. /\ \A u \in Turns : db.status[u] = "complete" => u <= t
        /\ \A p \in Pages : master[p].by \in 0..t /\ master'[p].by \in 0..t
                           /\ master[p].by <= master'[p].by
    <2>1. /\ \A u \in Turns : db.status[u] = "complete" => u <= t
          /\ \A p \in Pages : master[p].by \in 0..t
      BY <1>1, NothingLater DEF AfterCommit
    <2> QED
      BY <1>1, <2>1 DEF Turns
  <1>5. CloseTypeOK' /\ OpShape' /\ PendingInv' /\ RowsInv' /\ PagesInv' /\ SyncInv'
    BY <1>1, <1>2, IdleFacts
    DEF CloseTypeOK, OpShape, PendingInv, RowsInv, PagesInv, SyncInv, AfterCommit
  <1>6. AllOrNothing'
    BY <1>1, <1>3 DEF AllOrNothing
  <1>7. PagesAfterCommit'
    BY <1>1, <1>3 DEF PagesAfterCommit
  <1>8. CompleteIsWritten'
    <2> SUFFICES ASSUME NEW u \in Turns \ lost, db'.status[u] = "complete",
                        NEW p \in bundle[u]
                 PROVE  <<u, p>> \in db'.audit /\ master'[p].by >= u
      BY <1>1 DEF CompleteIsWritten
    <2>1. u # t /\ db.status[u] = "complete" /\ p \in Pages /\ u <= t
      BY <1>1, <1>3, <1>4 DEF CloseTypeOK
    <2>2. <<u, p>> \in db.audit /\ master[p].by >= u
      BY <2>1 DEF CompleteIsWritten
    <2> QED
      BY <1>1, <1>3, <1>4, <2>1, <2>2 DEF Turns
  <1>9. DerivedBehindMaster'
    BY <1>1, <1>2, <1>4, DerivedStay
  <1>10. StaleInv'
    <2>1. \A p \in Pages : master'[p].by <= t
      BY <1>1, <1>4 DEF Turns
    <2> QED
      BY <1>1, <1>3, <2>1 DEF StaleInv, Recorded, Flagged
  <1> QED
    BY <1>5, <1>6, <1>7, <1>8, <1>9, <1>10

LEMMA PageFailsKeeps ==
    ASSUME CloseInv, NEW p \in Pages, PageFails(p)
    PROVE  CloseInv'
  <1>1. /\ op.at = "pages" /\ p \in op.left /\ op.turn \in Turns /\ DemoteTurn
        /\ op.left \subseteq Written(op.pages) /\ op \in Ops
        /\ master \in [Pages -> PageVersions] /\ (ReplacePage(p) \/ UNCHANGED master)
    BY DEF PageFails, CloseInv, OpShape, CloseTypeOK
  <1>2. op.pages[p] \in Visibilities
    BY <1>1 DEF Written, Ops, PageLists
  <1>3. /\ master' \in [Pages -> PageVersions]
        /\ \A q \in Pages : master'[q] = master[q] \/ master'[q].by = op.turn
    BY <1>1, <1>2 DEF ReplacePage, PageVersions
  <1> QED
    BY <1>1, <1>3, DemotionKeeps

LEMMA RefreshFailsKeeps ==
    ASSUME CloseInv, RefreshFails
    PROVE  CloseInv'
  BY DemotionKeeps DEF RefreshFails, CloseInv, CloseTypeOK

LEMMA RefreshResolverKeeps ==
    ASSUME CloseInv, RefreshResolver
    PROVE  CloseInv'
  <1> USE DEF CloseInv
  <1> DEFINE t == op.turn
  <1>1. /\ op.at = "refresh" /\ t \in Turns /\ t # 0 /\ op \in Ops /\ tx \in Databases
        /\ db' = tx /\ tx' = tx
        /\ op' = [op EXCEPT !.at = "fts", !.left = Written(op.pages)]
        /\ master' = master /\ player' = player /\ bundle' = bundle
        /\ lost' = lost /\ loose' = loose
    BY DEF RefreshResolver, Commit, OpShape, CloseTypeOK, Turns
  <1>2. /\ op' \in Ops /\ op'.at = "fts" /\ op'.turn = t /\ op'.pages = op.pages
        /\ op'.left = Written(op.pages) /\ op'.session = op.session
    <2>1. "fts" \in Steps /\ Written(op.pages) \in SUBSET Pages
      BY DEF Steps, Written
    <2> QED
      BY <1>1, <2>1 DEF Ops
  <1>3. /\ tx.status = db.status /\ tx.warn = db.warn /\ db.audit \subseteq tx.audit
        /\ \A u \in Turns : tx.rows[u] = db.rows[u]
    BY <1>1 DEF PendingInv
  <1>4. CloseTypeOK' /\ OpShape' /\ PendingInv' /\ SyncInv' /\ StaleInv'
    BY <1>1, <1>2 DEF CloseTypeOK, OpShape, PendingInv, SyncInv, StaleInv
  <1>5. AllOrNothing' /\ PagesAfterCommit' /\ CompleteIsWritten' /\ DerivedBehindMaster'
    BY <1>1, <1>2, <1>3
    DEF AllOrNothing, PagesAfterCommit, CompleteIsWritten, DerivedBehindMaster
  <1>6. RowsInv'
    BY <1>1, <1>2, <1>3 DEF RowsInv, AfterCommit
  <1>7. PagesInv'
    BY <1>1, <1>2 DEF PagesInv, Landed
  <1> QED
    BY <1>4, <1>5, <1>6, <1>7

-----------------------------------------------------------------------------
(* The layers derived from the master vault.                               *)

(* When no row and no page is being written, only rows of the index are    *)
(* pending on the connection.                                              *)
LEMMA OnlyIndexPending ==
    ASSUME CloseInv, op.at \in {"idle", "fts", "clear", "write"}
    PROVE  /\ tx.status = db.status /\ tx.warn = db.warn
           /\ tx.rows = db.rows /\ tx.audit = db.audit
  <1>1. tx.rows \in [Turns -> 0..Appends] /\ db.rows \in [Turns -> 0..Appends]
    BY DatabaseFields DEF CloseInv, CloseTypeOK
  <1>2. \A t \in Turns : tx.rows[t] = db.rows[t]
    BY DEF CloseInv, PendingInv
  <1>3. tx.rows = db.rows
    BY <1>1, <1>2
  <1> QED
    BY <1>3 DEF CloseInv, PendingInv

(* A step on a derived layer leaves rows, pages and audit rows alone; it   *)
(* may end the apply it belongs to, or go on to the session page.          *)
LEMMA LayerStep ==
    ASSUME CloseInv, op.at \in {"idle", "fts", "clear", "write"},
           db' \in Databases, tx' \in Databases, tx'.warn = db'.warn,
           db'.status = db.status, db'.rows = db.rows, db'.audit = db.audit,
           tx'.status = db.status, tx'.rows = db.rows, tx'.audit = db.audit,
           \A t \in Turns : db'.warn[t] => db.status[t] = "complete",
           UNCHANGED <<master, bundle, lost>>,
           op' \in Ops, op'.turn \in {0, op.turn},
           \/ op'.at \in {"idle", "clear", "write"}
           \/ /\ op'.at = "pages" /\ op'.left = Written(op'.pages)
              /\ op.turn # 0 /\ op'.turn = op.turn
           \/ op'.at = "fts" /\ op.at = "fts" /\ op'.pages = op.pages /\ op'.turn = op.turn
    PROVE  /\ PendingInv' /\ AllOrNothing' /\ RowsInv'
           /\ PagesAfterCommit' /\ PagesInv' /\ CompleteIsWritten'
  <1> USE DEF CloseInv
  <1>1. PendingInv'
    BY DEF PendingInv
  <1>2. AllOrNothing'
    BY DEF AllOrNothing
  <1>3. op.turn # 0 => op.at \in {"fts", "clear", "write"}
    BY IdleFacts DEF OpShape
  <1>4. RowsInv'
    BY <1>3 DEF RowsInv, AfterCommit
  <1>5. PagesAfterCommit'
    BY DEF PagesAfterCommit
  <1>6. op.turn # 0 =>
          \A p \in bundle[op.turn] : <<op.turn, p>> \in db.audit /\ master[p].by >= op.turn
    BY <1>3 DEF PagesInv, Landed
  <1>7. PagesInv'
    <2>1. CASE op'.at = "idle"
      BY <2>1 DEF PagesInv
    <2>2. CASE op'.at \in {"clear", "write"}
      BY <1>6, <2>2 DEF PagesInv, Landed
    <2>3. CASE op'.at = "pages"
      <3>1. op'.turn = op.turn /\ op.turn # 0
        BY <2>3
      <3>2. op'.left = Written(op'.pages)
        BY <2>3
      <3>3. \A p \in Written(op'.pages) \ op'.left : master'[p].by >= op'.turn
        BY <3>2
      <3>4. \A p \in bundle'[op'.turn] \ op'.left :
              <<op'.turn, p>> \in tx'.audit /\ master'[p].by >= op'.turn
        BY <1>6, <3>1
      <3> QED
        BY <2>3, <3>3, <3>4 DEF PagesInv, Landed
    <2>4. CASE op'.at = "fts"
      <3>1. op'.turn = op.turn /\ op.turn # 0
        BY <2>4, CloseAssumption DEF OpShape, Turns
      <3> QED
        BY <1>6, <2>4, <3>1 DEF PagesInv, Landed
    <2> QED
      BY <2>1, <2>2, <2>3, <2>4
  <1>8. CompleteIsWritten'
    <2> SUFFICES ASSUME NEW t \in Turns \ lost, db.status[t] = "complete", op'.turn # t,
                        NEW p \in bundle[t]
                 PROVE  <<t, p>> \in db.audit /\ master[p].by >= t
      BY DEF CompleteIsWritten
    <2>1. CASE op.turn = t
      BY <1>6, <2>1 DEF Turns
    <2>2. CASE op.turn # t
      BY <2>2 DEF CompleteIsWritten
    <2> QED
      BY <2>1, <2>2
  <1> QED
    BY <1>1, <1>2, <1>4, <1>5, <1>7, <1>8

(* The first step of a sync, or the next one of its clearing. *)
LEMMA SyncStarts ==
    ASSUME CloseInv, NEW o \in Ops, NEW R \in SUBSET Pages,
           player' \in [Pages -> PageVersions], Present(player') \subseteq R,
           master' = master, op' = Clear(o, R)
    PROVE  /\ op' \in Ops /\ op'.at \in {"clear", "write"}
           /\ op'.turn = o.turn /\ op'.session = o.session
           /\ SyncInv'
  <1>1. master \in [Pages -> PageVersions]
    BY DEF CloseInv, CloseTypeOK
  <1>2. CASE R = {}
    <2>1. \A p \in Pages : player'[p] = NoPage
      BY <1>2 DEF Present
    <2>2. op'.at = "write" /\ op'.left = Present(Projected(master))
      BY <1>1, <1>2, ClearFacts
    <2>3. SyncInv'
      BY <1>1, <2>1, <2>2 DEF SyncInv, Present, Projected
    <2> QED
      BY <1>1, <2>2, <2>3, ClearFacts
  <1>3. CASE R # {}
    <2>1. op'.at = "clear" /\ op'.left = R
      BY <1>1, <1>3, ClearFacts
    <2> QED
      BY <1>1, <2>1, ClearFacts DEF SyncInv
  <1> QED
    BY <1>2, <1>3

\* The row of a page of the turn is no newer than the page, and none of gm_only.
LEMMA RowIsBehind ==
    ASSUME CloseInv, op.at = "fts", NEW p \in op.left
    PROVE  RowOf(p) \in PageVersions /\ RowOf(p).vis # "gm_only" /\ RowOf(p).by <= master[p].by
  <1> USE DEF CloseInv
  <1>1. /\ p \in Written(op.pages) /\ op.turn \in Turns /\ op.turn # 0 /\ op \in Ops
        /\ master \in [Pages -> PageVersions]
    BY DEF OpShape, CloseTypeOK, Turns
  <1>2. p \in Pages /\ op.pages[p] \in Visibilities /\ master[p].by >= op.turn
    BY <1>1 DEF Written, Ops, PageLists, PagesInv
  <1>3. master[p].by \in Nat
    BY <1>1, <1>2 DEF PageVersions, NoPage, Turns
  <1>4. CASE op.pages[p] = "gm_only"
    BY <1>3, <1>4, NoPageIsOne DEF RowOf, NoPage
  <1>5. CASE op.pages[p] # "gm_only"
    BY <1>1, <1>2, <1>3, <1>5 DEF RowOf, PageVersions, Turns
  <1> QED
    BY <1>4, <1>5

LEMMA IndexPageKeeps ==
    ASSUME CloseInv, NEW p \in Pages, IndexPage(p)
    PROVE  CloseInv'
  <1> USE DEF CloseInv
  <1>0. PICK row : row = RowOf(p)
    OBVIOUS
  <1>1. /\ op.at = "fts" /\ p \in op.left /\ op.left \subseteq Written(op.pages)
        /\ op.turn \in Turns /\ op.turn # 0 /\ op \in Ops /\ tx \in Databases
        /\ tx' = [tx EXCEPT !.fts[p] = row] /\ db' = tx'
        /\ master' = master /\ player' = player /\ bundle' = bundle
        /\ lost' = lost /\ loose' = loose
        /\ player \in [Pages -> PageVersions] /\ master \in [Pages -> PageVersions]
    BY <1>0 DEF IndexPage, Commit, OpShape, CloseTypeOK, Turns
  <1>2. /\ row \in PageVersions /\ row.vis # "gm_only" /\ row.by <= master[p].by
    BY <1>0, <1>1, RowIsBehind
  <1>3. /\ tx' \in Databases /\ tx'.fts = [tx.fts EXCEPT ![p] = row]
        /\ tx'.status = db.status /\ tx'.rows = db.rows
        /\ tx'.warn = db.warn /\ tx'.audit = db.audit
    BY <1>1, <1>2, OnlyIndexPending DEF Databases
  <1>4. /\ op' \in Ops /\ op'.turn = op.turn /\ op'.session = op.session /\ SyncInv'
        /\ \/ op'.at \in {"clear", "write"}
           \/ /\ op'.at = "fts" /\ op'.pages = op.pages /\ op'.left = op.left \ {p}
    <2>1. CASE op.left = {p}
      <3>1. op' = Clear(op, Present(player))
        BY <2>1 DEF IndexPage, StartSync
      <3>2. Present(player) \in SUBSET Pages
        BY DEF Present
      <3> QED
        BY <1>1, <3>1, <3>2, SyncStarts
    <2>2. CASE op.left # {p}
      <3>1. op' = [op EXCEPT !.left = @ \ {p}]
        BY <2>2 DEF IndexPage
      <3>2. /\ op' \in Ops /\ op'.turn = op.turn /\ op'.session = op.session
            /\ op'.at = "fts" /\ op'.pages = op.pages /\ op'.left = op.left \ {p}
        BY <1>1, <3>1 DEF Ops
      <3> QED
        BY <3>2 DEF SyncInv
    <2> QED
      BY <2>1, <2>2
  <1>5. \A t \in Turns : db'.warn[t] => db.status[t] = "complete"
    BY <1>1, <1>3 DEF AllOrNothing
  <1>6. /\ PendingInv' /\ AllOrNothing' /\ RowsInv'
        /\ PagesAfterCommit' /\ PagesInv' /\ CompleteIsWritten'
    BY <1>1, <1>3, <1>4, <1>5, LayerStep
  <1>7. CloseTypeOK'
    BY <1>1, <1>3, <1>4 DEF CloseTypeOK
  <1>8. OpShape'
    BY <1>1, <1>4 DEF OpShape
  <1>9. DerivedBehindMaster'
    <2>1. tx.fts \in [Pages -> PageVersions]
      BY <1>1, DatabaseFields
    <2> QED
      BY <1>1, <1>2, <1>3, <2>1 DEF DerivedBehindMaster
  <1>10. StaleInv'
    BY <1>4 DEF StaleInv
  <1> QED
    BY <1>4, <1>6, <1>7, <1>8, <1>9, <1>10

LEMMA IndexFailsKeeps ==
    ASSUME CloseInv, NEW p \in Pages, IndexFails(p)
    PROVE  CloseInv'
  <1> USE DEF CloseInv
  <1>0. PICK row : row = RowOf(p)
    OBVIOUS
  <1>1. /\ op.at = "fts" /\ p \in op.left /\ op.turn \in Turns /\ op.turn # 0 /\ op \in Ops
        /\ tx \in Databases /\ db \in Databases /\ db' = db
        /\ tx' \in {tx, [tx EXCEPT !.fts[p] = NoPage], [tx EXCEPT !.fts[p] = row]}
        /\ op' = Clear(op, Present(player))
        /\ master' = master /\ player' = player /\ bundle' = bundle
        /\ lost' = lost /\ loose' = loose
        /\ player \in [Pages -> PageVersions] /\ master \in [Pages -> PageVersions]
    BY <1>0 DEF IndexFails, StartSync, OpShape, CloseTypeOK, Turns
  <1>8. row \in PageVersions /\ row.vis # "gm_only" /\ row.by <= master[p].by
    BY <1>0, <1>1, RowIsBehind
  <1>2. /\ tx' \in Databases
        /\ \A q \in Pages : tx'.fts[q] \in {tx.fts[q], NoPage} \/ (q = p /\ tx'.fts[q] = row)
        /\ tx'.status = db.status /\ tx'.rows = db.rows
        /\ tx'.warn = db.warn /\ tx'.audit = db.audit
    BY <1>1, <1>8, OnlyIndexPending, NoPageIsOne DEF Databases
  <1>3. /\ op' \in Ops /\ op'.turn = op.turn /\ op'.session = op.session /\ SyncInv'
        /\ op'.at \in {"clear", "write"}
    <2>1. Present(player) \in SUBSET Pages
      BY DEF Present
    <2> QED
      BY <1>1, <2>1, SyncStarts
  <1>4. \A t \in Turns : db'.warn[t] => db.status[t] = "complete"
    BY <1>1 DEF AllOrNothing
  <1>5. /\ PendingInv' /\ AllOrNothing' /\ RowsInv'
        /\ PagesAfterCommit' /\ PagesInv' /\ CompleteIsWritten'
    BY <1>1, <1>2, <1>3, <1>4, LayerStep
  <1>6. CloseTypeOK' /\ OpShape' /\ StaleInv'
    BY <1>1, <1>2, <1>3 DEF CloseTypeOK, OpShape, StaleInv
  <1>7. DerivedBehindMaster'
    <2>1. NoPage.vis # "gm_only" /\ \A q \in Pages : NoPage.by <= master[q].by
      BY <1>1 DEF NoPage, PageVersions, Turns
    <2> QED
      BY <1>1, <1>2, <1>8, <2>1 DEF DerivedBehindMaster
  <1> QED
    BY <1>3, <1>5, <1>6, <1>7

-----------------------------------------------------------------------------
(* VaultService.sync.                                                      *)

LEMMA ClearPageKeeps ==
    ASSUME CloseInv, NEW p \in Pages, ClearPage(p)
    PROVE  CloseInv'
  <1> USE DEF CloseInv
  <1>1. /\ op.at = "clear" /\ op \in Ops /\ tx' = tx /\ db' = db
        /\ tx \in Databases /\ db \in Databases
        /\ player' = [player EXCEPT ![p] = NoPage]
        /\ op' = Clear(op, op.left \ {p})
        /\ master' = master /\ bundle' = bundle /\ lost' = lost /\ loose' = loose
        /\ player \in [Pages -> PageVersions] /\ master \in [Pages -> PageVersions]
        /\ Present(player) \subseteq op.left /\ op.left \in SUBSET Pages
    BY DEF ClearPage, CloseTypeOK, SyncInv, Ops
  <1>2. player' \in [Pages -> PageVersions] /\ Present(player') \subseteq op.left \ {p}
    BY <1>1, NoPageIsOne DEF Present
  <1>3. /\ op' \in Ops /\ op'.turn = op.turn /\ op'.session = op.session /\ SyncInv'
        /\ op'.at \in {"clear", "write"}
    BY <1>1, <1>2, SyncStarts
  <1>4. /\ PendingInv' /\ AllOrNothing' /\ RowsInv'
        /\ PagesAfterCommit' /\ PagesInv' /\ CompleteIsWritten'
    <2>1. \A t \in Turns : db'.warn[t] => db.status[t] = "complete"
      BY <1>1 DEF AllOrNothing
    <2> QED
      BY <1>1, <1>3, <2>1, OnlyIndexPending, LayerStep
  <1>5. CloseTypeOK' /\ OpShape' /\ StaleInv'
    BY <1>1, <1>2, <1>3 DEF CloseTypeOK, OpShape, StaleInv
  <1>6. DerivedBehindMaster'
    <2>1. NoPage.vis # "gm_only" /\ \A q \in Pages : NoPage.by <= master[q].by
      BY <1>1 DEF NoPage, PageVersions, Turns
    <2> QED
      BY <1>1, <2>1 DEF DerivedBehindMaster
  <1> QED
    BY <1>3, <1>4, <1>5, <1>6

LEMMA ProjectPageKeeps ==
    ASSUME CloseInv, NEW p \in Pages, ProjectPage(p)
    PROVE  CloseInv'
  <1> USE DEF CloseInv
  <1>1. /\ op.at = "write" /\ op \in Ops /\ tx' = tx /\ db' = db
        /\ tx \in Databases /\ db \in Databases
        /\ player' = [player EXCEPT ![p] = Projected(master)[p]]
        /\ op' = [op EXCEPT !.left = @ \ {p}]
        /\ master' = master /\ bundle' = bundle /\ lost' = lost /\ loose' = loose
        /\ player \in [Pages -> PageVersions] /\ master \in [Pages -> PageVersions]
        /\ op.left \in SUBSET Pages
    BY DEF ProjectPage, CloseTypeOK, Ops
  <1>2. player' \in [Pages -> PageVersions]
    BY <1>1, DerivedFacts
  <1>3. /\ op' \in Ops /\ op'.turn = op.turn /\ op'.session = op.session
        /\ op'.at = "write" /\ op'.left = op.left \ {p}
    BY <1>1 DEF Ops
  <1>4. /\ PendingInv' /\ AllOrNothing' /\ RowsInv'
        /\ PagesAfterCommit' /\ PagesInv' /\ CompleteIsWritten'
    <2>1. \A t \in Turns : db'.warn[t] => db.status[t] = "complete"
      BY <1>1 DEF AllOrNothing
    <2> QED
      BY <1>1, <1>3, <2>1, OnlyIndexPending, LayerStep
  <1>5. CloseTypeOK' /\ OpShape' /\ StaleInv'
    BY <1>1, <1>2, <1>3 DEF CloseTypeOK, OpShape, StaleInv
  <1>6. SyncInv'
    BY <1>1, <1>3 DEF SyncInv, Projected
  <1>7. DerivedBehindMaster'
    BY <1>1, DerivedFacts DEF DerivedBehindMaster
  <1> QED
    BY <1>4, <1>5, <1>6, <1>7

(* The end of an apply: the prompt, or the apply of the session page. *)
LEMMA ApplyEnds ==
    ASSUME CloseInv, op' = AfterApply
    PROVE  /\ op' \in Ops /\ op'.turn \in {0, op.turn}
           /\ \/ op' = Idle /\ op'.at = "idle"
              \/ /\ op'.at = "pages" /\ op'.left = Written(op'.pages)
                 /\ op.turn # 0 /\ op'.turn = op.turn
           /\ OpShape' /\ SyncInv'
  <1> USE DEF CloseInv
  <1>1. op \in Ops /\ (op.session => op.turn \in Turns)
    BY DEF CloseTypeOK, OpShape
  <1>2. CASE op.session
    <2>1. op.turn \in Turns /\ op.turn # 0
      BY <1>1, <1>2 DEF Turns
    <2> QED
      BY <1>1, <1>2, <2>1, AfterApplyFacts DEF OpShape, SyncInv
  <1>3. CASE ~op.session
    BY <1>1, <1>3, AfterApplyFacts, IdleFacts DEF OpShape, SyncInv
  <1> QED
    BY <1>2, <1>3

(* The sync has made the player vault what it should be. *)
LEMMA SyncIsThrough ==
    ASSUME CloseInv, op.at = "write", op.left = {}
    PROVE  player = Projected(master)
  <1>1. player \in [Pages -> PageVersions] /\ master \in [Pages -> PageVersions]
    BY DEF CloseInv, CloseTypeOK
  <1>2. \A p \in Pages : player[p] = Projected(master)[p]
    BY DEF CloseInv, SyncInv
  <1>3. Projected(master) \in [Pages -> PageVersions]
    BY <1>1, DerivedFacts
  <1> QED
    BY <1>1, <1>2, <1>3

LEMMA RegenerateListingKeeps ==
    ASSUME CloseInv, RegenerateListing
    PROVE  CloseInv'
  <1> USE DEF CloseInv
  <1>1. /\ op.at = "write" /\ op.left = {} /\ op' = AfterApply /\ loose' = FALSE
        /\ tx' = tx /\ db' = db /\ tx \in Databases /\ db \in Databases
        /\ master' = master /\ player' = player /\ bundle' = bundle /\ lost' = lost
    BY DEF RegenerateListing, CloseTypeOK
  <1>2. /\ PendingInv' /\ AllOrNothing' /\ RowsInv'
        /\ PagesAfterCommit' /\ PagesInv' /\ CompleteIsWritten'
    <2>1. \A t \in Turns : db'.warn[t] => db.status[t] = "complete"
      BY <1>1 DEF AllOrNothing
    <2> QED
      BY <1>1, <2>1, ApplyEnds, OnlyIndexPending, LayerStep
  <1>3. CloseTypeOK' /\ OpShape' /\ SyncInv' /\ DerivedBehindMaster'
    BY <1>1, ApplyEnds DEF CloseTypeOK, DerivedBehindMaster
  <1>4. StaleInv'
    BY <1>1, SyncIsThrough DEF StaleInv, Recorded, Projected
  <1> QED
    BY <1>2, <1>3, <1>4

LEMMA SyncFailsKeeps ==
    ASSUME CloseInv, SyncFails
    PROVE  CloseInv'
  <1> USE DEF CloseInv
  <1>1. /\ op.at \in {"clear", "write"} /\ op' = AfterApply
        /\ tx \in Databases /\ db \in Databases
        /\ master' = master /\ player' = player /\ bundle' = bundle /\ lost' = lost
    BY DEF SyncFails, CloseTypeOK
  <1>2. CASE op.turn = 0
    <2>1. tx' = tx /\ db' = db /\ loose' = TRUE
      BY <1>2 DEF SyncFails
    <2>2. /\ PendingInv' /\ AllOrNothing' /\ RowsInv'
          /\ PagesAfterCommit' /\ PagesInv' /\ CompleteIsWritten'
      <3>1. \A t \in Turns : db'.warn[t] => db.status[t] = "complete"
        BY <2>1 DEF AllOrNothing
      <3> QED
        BY <1>1, <2>1, <3>1, ApplyEnds, OnlyIndexPending, LayerStep
    <2>3. CloseTypeOK' /\ OpShape' /\ SyncInv' /\ DerivedBehindMaster' /\ StaleInv'
      BY <1>1, <2>1, ApplyEnds DEF CloseTypeOK, DerivedBehindMaster, StaleInv, Recorded
    <2> QED
      BY <2>2, <2>3
  <1>3. CASE op.turn # 0
    <2> DEFINE t == op.turn
    <2>1. /\ tx' = [tx EXCEPT !.warn[t] = TRUE] /\ db' = tx' /\ loose' = loose
          /\ op.at \in AfterCommit
      BY <1>1, <1>3 DEF SyncFails, Commit, AfterCommit
    <2>2. t \in Turns /\ db.status[t] = "complete"
          /\ \A p \in Pages : master[p].by \in 0..t
      BY <1>3, <2>1, NothingLater DEF RowsInv
    <2>3. /\ tx' \in Databases /\ tx'.warn = [tx.warn EXCEPT ![t] = TRUE]
          /\ tx'.status = db.status /\ tx'.rows = db.rows
          /\ tx'.audit = db.audit /\ tx'.fts = tx.fts
      BY <1>1, <2>1, <2>2, OnlyIndexPending DEF Databases
    <2>4. tx.warn = db.warn /\ tx.warn \in [Turns -> BOOLEAN]
      BY <1>1, OnlyIndexPending, DatabaseFields
    <2>5. /\ PendingInv' /\ AllOrNothing' /\ RowsInv'
          /\ PagesAfterCommit' /\ PagesInv' /\ CompleteIsWritten'
      <3>1. \A u \in Turns : db'.warn[u] => db.status[u] = "complete"
        BY <2>1, <2>2, <2>3, <2>4 DEF AllOrNothing
      <3> QED
        BY <1>1, <2>1, <2>3, <3>1, ApplyEnds, LayerStep
    <2>6. CloseTypeOK' /\ OpShape' /\ SyncInv' /\ DerivedBehindMaster'
      BY <1>1, <2>1, <2>3, ApplyEnds DEF CloseTypeOK, DerivedBehindMaster
    <2>7. StaleInv'
      <3>1. db'.warn[t]
        BY <2>1, <2>2, <2>3, <2>4, Zenon
      <3>2. \A p \in Pages : master'[p].by <= t
        BY <1>1, <2>2 DEF Turns
      <3> QED
        BY <2>2, <3>1, <3>2 DEF StaleInv, Recorded, Flagged
    <2> QED
      BY <2>5, <2>6, <2>7
  <1> QED
    BY <1>2, <1>3

-----------------------------------------------------------------------------
(* Repairs, the next put of the thread, and the death of the process.      *)

(* At the prompt nothing is in flight; a step that stays there and writes  *)
(* an index made from the master vault, or drops what is pending, keeps    *)
(* all that is known.                                                      *)
LEMMA PromptStep ==
    ASSUME CloseInv, op.at = "idle", db' \in Databases, tx' \in Databases,
           db'.status = db.status, db'.rows = db.rows,
           db'.warn = db.warn, db'.audit = db.audit,
           tx'.status = db.status, tx'.rows = db.rows,
           tx'.warn = db.warn, tx'.audit = db.audit,
           \A p \in Pages : \A layer \in {db'.fts[p], tx'.fts[p]} :
             layer.vis # "gm_only" /\ layer.by <= master[p].by,
           UNCHANGED <<master, player, bundle, lost, loose>>,
           op' \in {op, Clear(Idle, Present(player))}
    PROVE  CloseInv'
  <1> USE DEF CloseInv
  <1>1. op = Idle /\ player \in [Pages -> PageVersions]
    BY DEF OpShape, CloseTypeOK
  <1>2. /\ op' \in Ops /\ op'.turn = 0 /\ ~op'.session /\ SyncInv'
        /\ (op' = Idle \/ op'.at \in {"clear", "write"})
    <2>1. CASE op' = op
      BY <1>1, <2>1, IdleFacts DEF SyncInv
    <2>2. CASE op' = Clear(Idle, Present(player))
      <3>1. Present(player) \in SUBSET Pages
        BY DEF Present
      <3> QED
        BY <1>1, <2>2, <3>1, IdleFacts, SyncStarts
    <2> QED
      BY <2>1, <2>2
  <1>3. op'.at \in {"idle", "clear", "write"}
    BY <1>2, IdleFacts
  <1>4. /\ PendingInv' /\ AllOrNothing' /\ RowsInv'
        /\ PagesAfterCommit' /\ PagesInv' /\ CompleteIsWritten'
    <2>1. \A t \in Turns : db'.warn[t] => db.status[t] = "complete"
      BY DEF AllOrNothing
    <2> QED
      BY <1>2, <1>3, <2>1, LayerStep
  <1>5. CloseTypeOK' /\ OpShape'
    BY <1>2, <1>3, IdleFacts DEF CloseTypeOK, OpShape
  <1>6. DerivedBehindMaster'
    BY DEF DerivedBehindMaster
  <1>7. StaleInv'
    BY DEF StaleInv, Recorded, Flagged, Projected
  <1> QED
    BY <1>2, <1>4, <1>5, <1>6, <1>7

LEMMA RepairKeeps ==
    ASSUME CloseInv,
           VaultRebuild \/ VaultSync \/ RetconRefused \/ RepairFromCanonical \/ RepairFails
    PROVE  CloseInv'
  <1> USE DEF CloseInv
  <1>1. op = Idle /\ op.at = "idle"
    BY IdleFacts
    DEF VaultRebuild, VaultSync, RetconRefused, RepairFromCanonical, RepairFails
  <1>2. /\ tx \in Databases /\ db \in Databases /\ master \in [Pages -> PageVersions]
        /\ tx.status = db.status /\ tx.rows = db.rows
        /\ tx.warn = db.warn /\ tx.audit = db.audit
    BY <1>1, OnlyIndexPending DEF CloseTypeOK
  <1>3. \A p \in Pages : \A layer \in {db.fts[p], tx.fts[p]} :
          layer.vis # "gm_only" /\ layer.by <= master[p].by
    BY DEF DerivedBehindMaster
  <1>4. ASSUME NEW layer \in {[p \in Pages |-> NoPage], Indexed(master)},
               tx' = [tx EXCEPT !.fts = layer]
        PROVE  /\ tx' \in Databases /\ tx'.status = db.status /\ tx'.rows = db.rows
               /\ tx'.warn = db.warn /\ tx'.audit = db.audit
               /\ \A p \in Pages : tx'.fts[p].vis # "gm_only" /\ tx'.fts[p].by <= master[p].by
    <2>1. /\ layer \in [Pages -> PageVersions]
          /\ \A p \in Pages : layer[p].vis # "gm_only" /\ layer[p].by <= master[p].by
      <3>1. CASE layer = [p \in Pages |-> NoPage]
        <4>1. NoPage.vis # "gm_only" /\ \A q \in Pages : NoPage.by <= master[q].by
          BY <1>2 DEF NoPage, PageVersions, Turns
        <4> QED
          BY <3>1, <4>1, NoPageIsOne
      <3>2. CASE layer = Indexed(master)
        BY <1>2, <3>2, DerivedFacts
      <3> QED
        BY <3>1, <3>2
    <2> HIDE DEF Indexed
    <2>2. tx' \in Databases /\ tx'.fts = layer /\ tx'.status = tx.status /\ tx'.rows = tx.rows
          /\ tx'.warn = tx.warn /\ tx'.audit = tx.audit
      BY <1>2, <1>4, <2>1 DEF Databases
    <2> QED
      BY <1>2, <2>1, <2>2
  <1>5. CASE VaultRebuild
    BY <1>1, <1>2, <1>4, <1>5, PromptStep DEF VaultRebuild, Commit
  <1>6. CASE VaultSync
    BY <1>1, <1>2, <1>3, <1>6, PromptStep DEF VaultSync, StartSync
  <1>7. CASE RetconRefused
    BY <1>1, <1>2, <1>3, <1>7, PromptStep DEF RetconRefused
  <1>8. CASE RepairFromCanonical
    BY <1>1, <1>2, <1>4, <1>8, PromptStep DEF RepairFromCanonical, Commit, StartSync
  <1>9. CASE RepairFails
    <2>1. PICK layer \in {[p \in Pages |-> NoPage], Indexed(master)} :
            tx' = [tx EXCEPT !.fts = layer]
      BY <1>9 DEF RepairFails
    <2> QED
      BY <1>1, <1>2, <1>3, <1>4, <1>9, <2>1, PromptStep DEF RepairFails
  <1> QED
    BY <1>5, <1>6, <1>7, <1>8, <1>9

LEMMA ThreadPutKeeps ==
    ASSUME CloseInv, ThreadPut
    PROVE  CloseInv'
  <1> USE DEF CloseInv
  <1>1. /\ op.at = "idle" /\ tx \in Databases /\ tx' = tx /\ db' = tx /\ op' = op
        /\ UNCHANGED <<master, player, bundle, lost, loose>>
    BY IdleFacts DEF ThreadPut, Commit, CloseTypeOK
  <1>2. \A p \in Pages : tx.fts[p].vis # "gm_only" /\ tx.fts[p].by <= master[p].by
    BY DEF DerivedBehindMaster
  <1> QED
    BY <1>1, <1>2, OnlyIndexPending, PromptStep

LEMMA CrashKeeps ==
    ASSUME CloseInv, Crash
    PROVE  CloseInv'
  <1> USE DEF CloseInv
  <1>1. /\ tx' = db /\ db' = db /\ op' = Idle /\ db \in Databases
        /\ lost' = IF op.at \in {"pages", "refresh"} THEN lost \cup {op.turn} ELSE lost
        /\ loose' = (loose \/ op.at \notin {"idle", "rows"})
        /\ UNCHANGED <<master, player, bundle>>
    BY DEF Crash, CloseTypeOK
  <1>2. lost' \subseteq Turns /\ lost \subseteq lost'
    BY <1>1 DEF CloseTypeOK, OpShape
  <1>3. CloseTypeOK'
    BY <1>1, <1>2, IdleFacts DEF CloseTypeOK
  <1>4. OpShape' /\ PendingInv' /\ RowsInv' /\ PagesInv' /\ SyncInv'
    BY <1>1, IdleFacts DEF OpShape, PendingInv, RowsInv, PagesInv, SyncInv, AfterCommit
  <1>5. AllOrNothing' /\ PagesAfterCommit' /\ DerivedBehindMaster'
    BY <1>1 DEF AllOrNothing, PagesAfterCommit, DerivedBehindMaster
  <1>6. CompleteIsWritten'
    <2> SUFFICES ASSUME NEW t \in Turns \ lost', db.status[t] = "complete",
                        NEW p \in bundle[t]
                 PROVE  <<t, p>> \in db.audit /\ master[p].by >= t
      BY <1>1 DEF CompleteIsWritten
    <2>1. CASE op.turn = t
      <3>1. op.at # "rows"
        BY <2>1 DEF RowsInv, AllOrNothing, Appends, Turns
      <3>2. op.at \in {"fts", "clear", "write"} /\ op.turn # 0
        BY <1>1, <2>1, <3>1, IdleFacts DEF OpShape, CloseTypeOK, Ops, Steps, Turns
      <3> QED
        BY <2>1, <3>2 DEF PagesInv, Landed
    <2>2. CASE op.turn # t
      BY <1>2, <2>2 DEF CompleteIsWritten
    <2> QED
      BY <2>1, <2>2
  <1>7. StaleInv'
    BY <1>1 DEF StaleInv, Recorded, Flagged, Projected
  <1> QED
    BY <1>3, <1>4, <1>5, <1>6, <1>7

LEMMA StutterKeeps ==
    ASSUME CloseInv, UNCHANGED vars
    PROVE  CloseInv'
  BY DEF CloseInv, CloseTypeOK, OpShape, PendingInv, AllOrNothing, RowsInv,
         PagesAfterCommit, PagesInv, Landed, CompleteIsWritten, SyncInv, Projected,
         DerivedBehindMaster, StaleInv, Recorded, Flagged, vars

-----------------------------------------------------------------------------
LEMMA StepCloseInv == CloseInv /\ [Next]_vars => CloseInv'
  <1> SUFFICES ASSUME CloseInv, [Next]_vars PROVE CloseInv'
    OBVIOUS
  <1>1. CASE Close
    BY <1>1, CloseTurnKeeps, AppendRowKeeps, CompleteTurnKeeps, RollbackTurnKeeps DEF Close
  <1>2. CASE ApplyVaultWrites
    BY <1>2, WritePageKeeps, PageFailsKeeps, IndexPageKeeps, IndexFailsKeeps,
       RefreshResolverKeeps, RefreshFailsKeeps DEF ApplyVaultWrites
  <1>3. CASE Sync
    BY <1>3, ClearPageKeeps, ProjectPageKeeps, RegenerateListingKeeps, SyncFailsKeeps DEF Sync
  <1>4. CASE Repair
    BY <1>4, RepairKeeps DEF Repair
  <1>5. CASE ThreadPut \/ Crash \/ UNCHANGED vars
    BY <1>5, ThreadPutKeeps, CrashKeeps, StutterKeeps
  <1> QED
    BY <1>1, <1>2, <1>3, <1>4, <1>5 DEF Next

(* The inductive invariant of the close, for every number of turns, every  *)
(* set of pages, every failure and every set of points to die at.          *)
THEOREM CloseInvariant == Spec => []CloseInv
  BY InitCloseInv, StepCloseInv, PTL DEF Spec

(* Every reachable state of the close is well typed. *)
THEOREM CloseTypeCorrect == Spec => []CloseTypeOK
  <1>1. CloseInv => CloseTypeOK
    BY DEF CloseInv
  <1> QED
    BY CloseInvariant, <1>1, PTL

(* No commit takes along the rows a failed close left on the connection:   *)
(* the rows of a turn and its completion are durable together or not at    *)
(* all.                                                                    *)
THEOREM CloseIsAtomic == Spec => []AllOrNothing
  <1>1. CloseInv => AllOrNothing
    BY DEF CloseInv
  <1> QED
    BY CloseInvariant, <1>1, PTL

(* With the prompt back, only rows of the rebuildable index can be pending *)
(* on the connection.                                                      *)
THEOREM PromptLeavesNothing == Spec => []NothingPending
  <1>1. CloseInv => NothingPending
    <2> SUFFICES ASSUME CloseInv, op = Idle
                 PROVE  [tx EXCEPT !.fts = db.fts] = db
      BY DEF NothingPending
    <2>1. /\ tx.status = db.status /\ tx.warn = db.warn
          /\ tx.rows = db.rows /\ tx.audit = db.audit
      BY OnlyIndexPending, IdleFacts
    <2> QED
      BY <2>1 DEF CloseInv, CloseTypeOK, Databases
  <1> QED
    BY CloseInvariant, <1>1, PTL

(* The vault never runs ahead of the database: a page names a turn only    *)
(* when the rows of that turn are committed.                               *)
THEOREM VaultBehindCanon == Spec => []PagesAfterCommit
  <1>1. CloseInv => PagesAfterCommit
    BY DEF CloseInv
  <1> QED
    BY CloseInvariant, <1>1, PTL

(* A turn that stays complete has every page of its bundle in the master   *)
(* vault, with a committed audit row, unless a death cut its pages short.  *)
THEOREM CompleteTurnsAreWritten == Spec => []CompleteIsWritten
  <1>1. CloseInv => CompleteIsWritten
    BY DEF CloseInv
  <1> QED
    BY CloseInvariant, <1>1, PTL

(* The player vault and the index show nothing secret and nothing newer    *)
(* than the master vault.                                                  *)
THEOREM DerivedLayersFollow == Spec => []DerivedBehindMaster
  <1>1. CloseInv => DerivedBehindMaster
    BY DEF CloseInv
  <1> QED
    BY CloseInvariant, <1>1, PTL

(* A player vault that is not the projection of the master vault is on     *)
(* record in a turn at least as late as every page, or its cut was seen.   *)
THEOREM StalenessIsOnRecord == Spec => []StaleIsRecorded
  <1>1. CloseInv => StaleIsRecorded
    BY IdleFacts DEF CloseInv, StaleInv, Recorded, StaleIsRecorded
  <1> QED
    BY CloseInvariant, <1>1, PTL

(* A sync that ends has made the player vault the projection of the master *)
(* vault, whatever an earlier sync left there.                             *)
THEOREM SyncIsComplete == Spec => SyncRestores
  <1>1. CloseInv /\ RegenerateListing => player' = Projected(master)'
    <2> SUFFICES ASSUME CloseInv, RegenerateListing PROVE player' = Projected(master)'
      OBVIOUS
    <2>1. player = Projected(master) /\ master' = master /\ player' = player
      BY SyncIsThrough DEF RegenerateListing
    <2> QED
      BY <2>1 DEF Projected
  <1>2. CloseInv /\ [Next]_vars => [RegenerateListing => player' = Projected(master)]_vars
    <2>1. RegenerateListing => master' = master
      BY DEF RegenerateListing
    <2> QED
      BY <1>1, <2>1 DEF Projected
  <1> QED
    BY CloseInvariant, <1>2, PTL DEF Spec, SyncRestores

-----------------------------------------------------------------------------
(* The refinement: each step of the close is a step of CloseLog, or leaves *)
(* outcomes, pages and what is owed alone.                                 *)

(* The turn in flight after its commit is the newest, and complete. *)
LEMMA InFlightIsNewest ==
    ASSUME CloseInv, op.at \in AfterCommit, op.turn # 0
    PROVE  /\ op.turn \in Turns /\ Outcome[op.turn] = "complete" /\ Log!Newest(op.turn)
           /\ \A p \in Pages : Author[p] = master[p].by
  <1>1. op.turn \in Turns
    BY NothingLater
  <1>2. /\ db.rows[op.turn] = Appends /\ db.status[op.turn] = "complete"
        /\ \A u \in Turns : u > op.turn => db.rows[u] = 0
    BY DEF CloseInv, RowsInv
  <1>3. Outcome[op.turn] = "complete"
    BY <1>1, <1>2 DEF Outcome, Appends
  <1>4. \A u \in Turns : u > op.turn => Outcome[u] = "open"
    BY <1>2 DEF Outcome
  <1> QED
    BY <1>1, <1>3, <1>4 DEF Log!Newest, Author

(* What is owed is owed by the newest turn. *)
LEMMA OwedByNewest ==
    ASSUME CloseInv, op.at = "pages"
    PROVE  op.turn \in Turns /\ op.turn # 0 /\ Owed = op.left /\ op.left \subseteq Pages
  BY DEF CloseInv, OpShape, CloseTypeOK, Ops, Turns, Owed

LEMMA SameOutcome ==
    ASSUME db'.rows = db.rows, db'.status = db.status
    PROVE  Outcome' = Outcome
  BY DEF Outcome

(* Most steps move nothing that CloseLog sees. *)
LEMMA Unseen ==
    ASSUME db'.rows = db.rows, db'.status = db.status, master' = master,
           op.at # "pages", op'.at # "pages"
    PROVE  UNCHANGED <<Outcome, Author, Owed>>
  BY SameOutcome DEF Author, Owed

LEMMA ClearIsUnseen ==
    ASSUME NEW o, o \in Ops, NEW R, op' = Clear(o, R)
    PROVE  op'.at # "pages"
  BY DEF Clear, Ops

LEMMA CommitCompletes ==
    ASSUME CloseInv, CompleteTurn
    PROVE  Log!Complete(op.turn) /\ op.turn \in Turns
  <1> DEFINE t == op.turn
  <1>1. /\ op.at = "rows" /\ t \in Turns /\ tx \in Databases /\ op \in Ops
        /\ tx.rows[t] = Appends /\ db' = UpsertRecord(tx, t, "complete") /\ master' = master
        /\ \A u \in Turns : u >= t => db.rows[u] = 0
    BY DEF CompleteTurn, Commit, CloseInv, OpShape, CloseTypeOK, RowsInv
  <1>2. db'.rows = tx.rows /\ db'.status = [tx.status EXCEPT ![t] = "complete"]
    BY <1>1, UpsertFacts
  <1>3. /\ tx.status = db.status /\ \A u \in Turns \ {t} : tx.rows[u] = db.rows[u]
        /\ tx.status \in [Turns -> {"needs_vault_repair", "complete"}]
    BY <1>1, DatabaseFields DEF CloseInv, PendingInv
  <1>4. Outcome' = [Outcome EXCEPT ![t] = "complete"]
    <2>1. \A u \in Turns \ {t} : Outcome'[u] = Outcome[u]
      BY <1>2, <1>3 DEF Outcome
    <2>2. Outcome'[t] = "complete"
      BY <1>1, <1>2, <1>3 DEF Outcome, Appends
    <2> QED
      BY <2>1, <2>2 DEF Outcome
  <1>5. \A u \in Turns : u >= t => Outcome[u] = "open"
    BY <1>1 DEF Outcome
  <1>6. Owed = {} /\ Author' = Author
    BY <1>1 DEF Owed, Author
  <1>7. Owed' \subseteq Pages
    BY CompleteTurnKeeps DEF Owed, CloseInv, CloseTypeOK, Ops
  <1> QED
    BY <1>1, <1>4, <1>5, <1>6, <1>7 DEF Log!Complete

LEMMA WriteIsPut ==
    ASSUME CloseInv, NEW p \in Pages, WritePage(p)
    PROVE  op.turn \in Turns /\ Log!Put(op.turn, p)
  <1>1. /\ op.at = "pages" /\ p \in op.left /\ op \in Ops
        /\ db' = db /\ master' = [master EXCEPT ![p] = [by |-> op.turn, vis |-> op.pages[p]]]
        /\ op' = [op EXCEPT !.left = op.left \ {p},
                            !.at = IF op.left = {p} THEN "refresh" ELSE op.at]
        /\ master \in [Pages -> PageVersions]
    BY DEF WritePage, ReplacePage, CloseInv, CloseTypeOK
  <1>2. /\ op.turn \in Turns /\ Owed = op.left
        /\ Outcome[op.turn] = "complete" /\ Log!Newest(op.turn)
    BY <1>1, InFlightIsNewest, OwedByNewest DEF AfterCommit
  <1>3. Outcome' = Outcome
    BY <1>1, SameOutcome
  <1>4. Author' = [Author EXCEPT ![p] = op.turn]
    BY <1>1 DEF Author
  <1>5. Owed' = op.left \ {p}
    <2>1. op'.left = op.left \ {p} /\ op'.at = IF op.left = {p} THEN "refresh" ELSE "pages"
      BY <1>1 DEF Ops
    <2> QED
      BY <2>1 DEF Owed
  <1> QED
    BY <1>1, <1>2, <1>3, <1>4, <1>5 DEF Log!Put

LEMMA DemotionMarks ==
    ASSUME CloseInv, op.at \in {"pages", "refresh"}, DemoteTurn,
           \/ master' = master
           \/ op.at = "pages" /\ \E p \in op.left : ReplacePage(p)
    PROVE  op.turn \in Turns /\ Log!MarkForRepair(op.turn)
  <1> DEFINE t == op.turn
  <1>1. /\ t \in Turns /\ t # 0 /\ tx \in Databases /\ op' = Idle
        /\ db' = UpsertRecord(tx, t, "needs_vault_repair")
        /\ master \in [Pages -> PageVersions]
    BY DEF DemoteTurn, Commit, CloseInv, OpShape, CloseTypeOK, Turns
  <1>2. Outcome[t] = "complete" /\ Log!Newest(t) /\ db.rows[t] = Appends
    BY <1>1, InFlightIsNewest DEF AfterCommit, CloseInv, RowsInv
  <1>3. db'.rows = tx.rows /\ db'.status = [tx.status EXCEPT ![t] = "needs_vault_repair"]
    BY <1>1, UpsertFacts
  <1>4. /\ tx.status = db.status /\ \A u \in Turns : tx.rows[u] = db.rows[u]
        /\ tx.status \in [Turns -> {"needs_vault_repair", "complete"}]
    BY <1>1, DatabaseFields DEF CloseInv, PendingInv
  <1>5. Outcome' = [Outcome EXCEPT ![t] = "repair"]
    <2>1. \A u \in Turns \ {t} : Outcome'[u] = Outcome[u]
      BY <1>3, <1>4 DEF Outcome
    <2>2. Outcome'[t] = "repair"
      BY <1>1, <1>2, <1>3, <1>4 DEF Outcome, Appends
    <2> QED
      BY <2>1, <2>2 DEF Outcome
  <1>6. Owed' = {}
    BY <1>1, IdleFacts DEF Owed
  <1>7. Author' = Author \/ \E p \in Owed : Author' = [Author EXCEPT ![p] = t]
    <2>1. CASE master' = master
      BY <2>1 DEF Author
    <2>2. ASSUME op.at = "pages", NEW p \in op.left, ReplacePage(p)
          PROVE  p \in Owed /\ Author' = [Author EXCEPT ![p] = t]
      <3>1. p \in Pages /\ p \in Owed
        BY <2>2, OwedByNewest
      <3>2. Author' = [Author EXCEPT ![p] = t]
        BY <1>1, <2>2, <3>1 DEF ReplacePage, Author
      <3> QED
        BY <3>1, <3>2
    <2> QED
      BY <2>1, <2>2
  <1> QED
    BY <1>1, <1>2, <1>5, <1>6, <1>7 DEF Log!MarkForRepair

(* The end of a sync: the page of the session is owed, or nothing is. *)
LEMMA SessionIsOwed ==
    ASSUME CloseInv, op.at \in {"clear", "write"}, op' = AfterApply,
           db'.rows = db.rows, db'.status = db.status, master' = master
    PROVE  \/ UNCHANGED <<Outcome, Author, Owed>>
           \/ op.turn \in Turns /\ Log!Owe(op.turn)
  <1>1. op \in Ops /\ (op.session => op.turn \in Turns)
    BY DEF CloseInv, CloseTypeOK, OpShape
  <1>2. CASE ~op.session
    <2>1. op'.at = "idle"
      BY <1>1, <1>2, AfterApplyFacts, IdleFacts
    <2> QED
      BY <2>1, Unseen
  <1>3. CASE op.session
    <2>0. op.turn \in Turns /\ op.turn # 0
      BY <1>1, <1>3 DEF Turns
    <2>1. op'.at = "pages" /\ op'.left = {SessionPage} /\ op.turn \in Turns /\ op.turn # 0
      <3>1. AfterApply.at = "pages" /\ AfterApply.left = {SessionPage}
        BY <1>1, <1>3, AfterApplyFacts
      <3> QED
        BY <2>0, <3>1
    <2>2. Outcome[op.turn] = "complete" /\ Log!Newest(op.turn)
      BY <2>1, InFlightIsNewest DEF AfterCommit
    <2>3. Owed = {} /\ Owed' # {} /\ Owed' \subseteq Pages
      BY <2>1, CloseAssumption DEF Owed
    <2>4. UNCHANGED <<Outcome, Author>>
      BY SameOutcome DEF Author
    <2> QED
      BY <2>1, <2>2, <2>3, <2>4 DEF Log!Owe
  <1> QED
    BY <1>2, <1>3

LEMMA DeathCutsShort ==
    ASSUME CloseInv, Crash
    PROVE  Log!CutShort \/ UNCHANGED <<Outcome, Author, Owed>>
  <1>1. Outcome' = Outcome /\ Author' = Author
    BY SameOutcome DEF Crash, Author
  <1>2. Owed' = {}
    BY IdleFacts DEF Crash, Owed
  <1> QED
    BY <1>1, <1>2 DEF Log!CutShort

(* Every step is one of the abstract ones, or is not seen. *)
LEMMA StepIsClosing ==
    CloseInv /\ [Next]_vars => [Log!CloseLogNext]_(Log!closeLogVars)
  <1> SUFFICES ASSUME CloseInv, [Next]_vars
               PROVE  Log!CloseLogNext \/ UNCHANGED <<Outcome, Author, Owed>>
    BY DEF Log!closeLogVars
  <1>1. op \in Ops /\ (op = Idle => op.at = "idle")
    BY IdleFacts DEF CloseInv, CloseTypeOK
  <1>2. CASE Close
    <2>1. ASSUME NEW t \in Turns, CloseTurn(t) PROVE UNCHANGED <<Outcome, Author, Owed>>
      <3>1. op.at = "idle" /\ op'.at = "rows" /\ UNCHANGED <<db, master>>
        BY <1>1, <2>1 DEF CloseTurn
      <3> QED
        BY <3>1, Unseen
    <2>2. CASE AppendRow \/ RollbackTurn
      <3>1. op.at = "rows" /\ op'.at # "pages" /\ UNCHANGED <<db, master>>
        BY <2>2, IdleFacts DEF AppendRow, RollbackTurn
      <3> QED
        BY <3>1, Unseen
    <2>3. CASE CompleteTurn
      BY <2>3, CommitCompletes DEF Log!CloseLogNext
    <2> QED
      BY <1>2, <2>1, <2>2, <2>3 DEF Close
  <1>3. CASE ApplyVaultWrites
    <2>1. ASSUME NEW p \in Pages, WritePage(p) PROVE Log!CloseLogNext
      BY <2>1, WriteIsPut DEF Log!CloseLogNext
    <2>2. ASSUME NEW p \in Pages, PageFails(p) PROVE Log!CloseLogNext
      BY <2>2, DemotionMarks DEF PageFails, Log!CloseLogNext
    <2>3. ASSUME NEW p \in Pages, IndexPage(p) \/ IndexFails(p)
          PROVE  UNCHANGED <<Outcome, Author, Owed>>
      <3>1. op.at = "fts" /\ master' = master
        BY <2>3 DEF IndexPage, IndexFails
      <3>2. db'.rows = db.rows /\ db'.status = db.status
        <4>1. CASE IndexFails(p)
          BY <4>1 DEF IndexFails
        <4>2. CASE IndexPage(p)
          <5>1. PICK row : db' = [tx EXCEPT !.fts[p] = row]
            BY <4>2 DEF IndexPage, Commit
          <5> QED
            BY <3>1, <5>1, OnlyIndexPending DEF CloseInv, CloseTypeOK, Databases
        <4> QED
          BY <2>3, <4>1, <4>2
      <3>3. op'.at # "pages"
        <4>1. op' = Clear(op, Present(player)) \/ op' = [op EXCEPT !.left = op.left \ {p}]
          BY <2>3 DEF IndexPage, IndexFails, StartSync
        <4> QED
          BY <1>1, <3>1, <4>1, ClearIsUnseen DEF Ops
      <3> QED
        BY <3>1, <3>2, <3>3, Unseen
    <2>4. CASE RefreshResolver
      <3>1. op.at = "refresh" /\ master' = master /\ db' = tx /\ op'.at # "pages"
        BY <1>1, <2>4 DEF RefreshResolver, Commit, Ops
      <3>2. tx.status = db.status /\ tx.rows = db.rows
        <4>1. \A t \in Turns : tx.rows[t] = db.rows[t]
          BY <3>1 DEF CloseInv, PendingInv
        <4>2. tx.rows \in [Turns -> 0..Appends] /\ db.rows \in [Turns -> 0..Appends]
          BY DatabaseFields DEF CloseInv, CloseTypeOK
        <4>3. tx.rows = db.rows
          BY <4>1, <4>2
        <4> QED
          BY <4>3 DEF CloseInv, PendingInv
      <3> QED
        BY <3>1, <3>2, Unseen
    <2>5. CASE RefreshFails
      BY <2>5, DemotionMarks DEF RefreshFails, Log!CloseLogNext
    <2> QED
      BY <1>3, <2>1, <2>2, <2>3, <2>4, <2>5 DEF ApplyVaultWrites
  <1>4. CASE Sync
    <2>1. ASSUME NEW p \in Pages, ClearPage(p) \/ ProjectPage(p)
          PROVE  UNCHANGED <<Outcome, Author, Owed>>
      <3>1. op.at \in {"clear", "write"} /\ UNCHANGED <<db, master>>
        BY <2>1 DEF ClearPage, ProjectPage
      <3>2. op' = Clear(op, op.left \ {p}) \/ op' = [op EXCEPT !.left = op.left \ {p}]
        BY <2>1 DEF ClearPage, ProjectPage
      <3>3. op'.at # "pages"
        BY <1>1, <3>1, <3>2, ClearIsUnseen DEF Ops
      <3> QED
        BY <3>1, <3>3, Unseen
    <2>2. CASE RegenerateListing \/ SyncFails
      <3>1. op.at \in {"clear", "write"} /\ op' = AfterApply /\ master' = master
        BY <2>2 DEF RegenerateListing, SyncFails
      <3>2. db'.rows = db.rows /\ db'.status = db.status
        <4>1. db' = db \/ db' = [tx EXCEPT !.warn[op.turn] = TRUE]
          BY <2>2 DEF RegenerateListing, SyncFails, Commit
        <4> QED
          BY <3>1, <4>1, OnlyIndexPending DEF CloseInv, CloseTypeOK, Databases
      <3> QED
        BY <3>1, <3>2, SessionIsOwed DEF Log!CloseLogNext
    <2> QED
      BY <1>4, <2>1, <2>2 DEF Sync
  <1>5. CASE Repair \/ ThreadPut
    <2>1. op.at = "idle" /\ master' = master
      BY <1>1, <1>5 DEF Repair, VaultRebuild, VaultSync, RetconRefused, RepairFromCanonical,
                        RepairFails, ThreadPut
    <2>2. db'.rows = db.rows /\ db'.status = db.status
      <3>1. db' = db \/ db' = tx \/ db' = [tx EXCEPT !.fts = Indexed(master)]
        BY <1>5 DEF Repair, VaultRebuild, VaultSync, RetconRefused, RepairFromCanonical,
                    RepairFails, ThreadPut, Commit
      <3> QED
        BY <2>1, <3>1, OnlyIndexPending DEF CloseInv, CloseTypeOK, Databases
    <2>3. op'.at # "pages"
      <3>1. op' = op \/ op' = Clear(Idle, Present(player))
        BY <1>5 DEF Repair, VaultRebuild, VaultSync, RetconRefused, RepairFromCanonical,
                    RepairFails, ThreadPut, StartSync
      <3> QED
        BY <2>1, <3>1, IdleFacts, ClearIsUnseen
    <2> QED
      BY <2>1, <2>2, <2>3, Unseen
  <1>6. CASE Crash
    BY <1>6, DeathCutsShort DEF Log!CloseLogNext
  <1>7. CASE UNCHANGED vars
    BY <1>7, SameOutcome DEF vars, Author, Owed
  <1> QED
    BY <1>2, <1>3, <1>4, <1>5, <1>6, <1>7 DEF Next

(* Closing turns implements CloseLog, for any number of turns, any pages,  *)
(* every failure and a death anywhere.                                     *)
THEOREM CloseKeepsPromise == Spec => ImplementsCloseLog
  <1>1. Init => Log!CloseLogInit
    <2> SUFFICES ASSUME Init PROVE Log!CloseLogInit
      OBVIOUS
    <2>1. Owed = {} /\ Author = [p \in Pages |-> 0]
      BY IdleFacts DEF Init, Owed, Author, NoPage
    <2>2. Outcome = [t \in Turns |-> "open"]
      BY DEF Init, EmptyDatabase, Outcome
    <2> QED
      BY <2>1, <2>2 DEF Log!CloseLogInit
  <1> QED
    BY <1>1, CloseInvariant, StepIsClosing, PTL DEF Spec, ImplementsCloseLog, Log!CloseLogSpec
=============================================================================
