--------------------------- MODULE StateDocProofs ---------------------------
(***************************************************************************)
(* What the replacements of StateDoc keep of a STATE.md, in both layouts:  *)
(* lemmas for the proofs about the commands that write it.                 *)
(***************************************************************************)
EXTENDS StateDoc, TLAPS

\* A STATE.md: the parts of StateDoc, and the fields of its layout in the body.
IsDoc(d) ==
    /\ d = [bold |-> d.bold, front |-> d.front, decisions |-> d.decisions,
            blockers |-> d.blockers, velocity |-> d.velocity, rows |-> d.rows,
            timings |-> d.timings, session |-> d.session, body |-> d.body]
    /\ d.body = [f \in DOMAIN d.body |-> d.body[f]]
    /\ DOMAIN d.body = IF d.bold THEN BoldFields ELSE PlainFields

\* The parts a field replacement leaves alone.
SameLists(d, e) ==
    /\ e.bold = d.bold
    /\ e.decisions = d.decisions /\ e.blockers = d.blockers
    /\ e.timings = d.timings /\ e.session = d.session

\* e is d with other values in some of the fields F, and any YAML block.
Edited(d, e, F) ==
    /\ IsDoc(e) /\ SameLists(d, e)
    /\ \A g \in DOMAIN d.body \ F : e.body[g] = d.body[g]

\* Edits of the same fields compose.
LEMMA EditedTwice ==
    ASSUME NEW d, NEW e, NEW h, NEW F, IsDoc(d), Edited(d, e, F), Edited(e, h, F)
    PROVE  Edited(d, h, F)
<1>1. DOMAIN e.body = DOMAIN d.body
    BY DEF IsDoc, Edited, SameLists
<1> QED
    BY <1>1 DEF Edited, SameLists

\* An edit of some fields is one of more fields.
LEMMA EditedMore ==
    ASSUME NEW d, NEW e, NEW F, NEW G, F \subseteq G, Edited(d, e, F)
    PROVE  Edited(d, e, G)
BY DEF Edited

\* The document with another YAML block, or another value of a field of the body.
WithFront(d, v) == [d EXCEPT !.front = v]
WithBody(d, f, v) == [d EXCEPT !.body[f] = v]

\* Another YAML block is no edit of the body.
LEMMA FrontEdited ==
    ASSUME NEW d, NEW v, IsDoc(d)
    PROVE  Edited(d, WithFront(d, v), {}) /\ WithFront(d, v).body = d.body
BY DEF IsDoc, Edited, SameLists, WithFront

\* One field of the body with another value.
LEMMA BodyEdited ==
    ASSUME NEW d, NEW f, NEW v, IsDoc(d), f \in DOMAIN d.body
    PROVE  Edited(d, WithBody(d, f, v), {f}) /\ WithBody(d, f, v).body[f] = v
<1> DEFINE e == [d EXCEPT !.body[f] = v]
<1>1. e = [d EXCEPT !.body = [d.body EXCEPT ![f] = v]]
    OBVIOUS
<1>2. e.body = [d.body EXCEPT ![f] = v]
    BY <1>1 DEF IsDoc
<1>3. SameLists(d, e) /\ e = [bold |-> e.bold, front |-> e.front, decisions |-> e.decisions,
            blockers |-> e.blockers, velocity |-> e.velocity, rows |-> e.rows,
            timings |-> e.timings, session |-> e.session, body |-> e.body]
    BY <1>1 DEF IsDoc, SameLists
<1>4. e.body = [g \in DOMAIN d.body |-> IF g = f THEN v ELSE d.body[g]]
    BY <1>2 DEF IsDoc
<1>5. IsDoc(e)
    BY <1>3, <1>4 DEF IsDoc, SameLists
<1>6. Edited(d, e, {f}) /\ e.body[f] = v
    BY <1>3, <1>4, <1>5 DEF Edited
<1> QED
    BY <1>6 DEF WithBody

\* A replacement edits the field it names, in the body or in the block.
LEMMA ReplaceEdits ==
    ASSUME NEW d, NEW f, NEW v, IsDoc(d)
    PROVE  /\ Edited(d, Replace(d, f, v), {f})
           /\ f \in DOMAIN d.body /\ f \notin {"Status", "Progress"} => Replace(d, f, v).body[f] = v
<1>1. Edited(d, d, {f})
    BY DEF Edited, SameLists
<1>2. CASE InFront(d, f)
    <2>1. Edited(d, [d EXCEPT !.front.status = v], {f})
      <3>1. [d EXCEPT !.front.status = v] = WithFront(d, [d.front EXCEPT !.status = v])
        BY DEF WithFront
      <3>2. Edited(d, WithFront(d, [d.front EXCEPT !.status = v]), {})
        BY FrontEdited
      <3> QED
        BY <3>1, <3>2, EditedMore
    <2> QED
        BY <1>1, <1>2, <2>1 DEF Replace, InFront
<1>3. CASE ~InFront(d, f) /\ InBody(d, f)
    <2>1. Replace(d, f, v) = WithBody(d, f, v)
        BY <1>3 DEF Replace, WithBody
    <2>2. Edited(d, WithBody(d, f, v), {f}) /\ WithBody(d, f, v).body[f] = v
        BY <1>3, BodyEdited DEF InBody
    <2> QED
        BY <2>1, <2>2
<1>4. CASE ~InFront(d, f) /\ ~InBody(d, f)
    BY <1>1, <1>4 DEF Replace, InBody
<1> QED
    BY <1>2, <1>3, <1>4

\* ... and so does the one confined to the Current Position section.
LEMMA PositionEdits ==
    ASSUME NEW d, NEW f, NEW v, IsDoc(d)
    PROVE  Edited(d, Position(d, f, v), {f})
<1>1. Edited(d, d, {f})
    BY DEF Edited, SameLists
<1>2. CASE ~d.bold /\ InBody(d, f)
    <2>1. Position(d, f, v) = WithBody(d, f, v)
        BY <1>2 DEF Position, WithBody
    <2> QED
        BY <1>2, <2>1, BodyEdited DEF InBody
<1> QED
    BY <1>1, <1>2 DEF Position

\* A field that the YAML block does not have is found in the body.
LEMMA ReplaceSets ==
    ASSUME NEW d, NEW f, NEW v, IsDoc(d), f \in DOMAIN d.body, f \notin {"Status", "Progress"}
    PROVE  Replace(d, f, v).body[f] = v
BY ReplaceEdits

\* The block is rebuilt and nothing else.
LEMMA SyncedEdits ==
    ASSUME NEW d, NEW disk, IsDoc(d)
    PROVE  Edited(d, Synced(d, disk), {}) /\ Synced(d, disk).body = d.body
<1>1. PICK v : Synced(d, disk) = WithFront(d, v)
    BY DEF Synced, WithFront
<1> QED
    BY <1>1, FrontEdited
=============================================================================
