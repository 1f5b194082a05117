--------------------------- MODULE PlanningProofs ---------------------------
(***************************************************************************)
(* What the commands of one session keep of the plan, for any number of    *)
(* phases, edits and plans.                                                *)
(***************************************************************************)
EXTENDS Planning, StateDocProofs, FunctionTheorems, FiniteSetTheorems, WellFoundedInduction,
        SequenceTheorems, TLAPS

\* Phase numbers: an integer, or an integer and a decimal.
Num == {<<n>> : n \in Nat \ {0}} \cup {<<n, k>> : n \in Nat \ {0}, k \in Nat \ {0}}
HeadingRecs == [num : Num, padded : BOOLEAN, title : Nat, done : BOOLEAN, count : {<<>>} \cup (Nat \X Nat)]
DirRecs == {d \in [num : Num, title : Nat, plans : Nat, summaries : Nat, verified : BOOLEAN] :
               d.summaries <= d.plans}

\* Types of the roadmap, the directories and the session; the phase whose
\* plans are being executed has its directory.
AtWork == {"progress", "advance", "verify", "complete"}
TreeTypes ==
    /\ dirs \subseteq DirRecs /\ shipped \subseteq DirRecs /\ IsFiniteSet(dirs)
    /\ at \in Num \cup {<<>>} /\ stage \in Stages /\ (stage = "over" <=> at = <<>>)
    /\ stage \in AtWork => at \in Numbers(dirs)
    /\ edits \in 0 .. MaxEdits /\ (closed => stage = "over")

\* A roadmap whose numbers and titles were given up to top, each title once.
Below(num, top) == \A i \in DOMAIN num : num[i] <= top
RoadOK(r, top) ==
    /\ r \in Seq(HeadingRecs)
    /\ \A i \in DOMAIN r : Below(r[i].num, top) /\ r[i].title <= top
    /\ \A i, j \in DOMAIN r : r[i].title = r[j].title => i = j

\* Numbers and titles are given one after the other.
Top == Written + edits
GivenInv ==
    /\ RoadOK(roadmap, Top)
    /\ \A d \in dirs : Below(d.num, Top) /\ d.title <= Top
    /\ Below(at, Top)

\* The fields of a STATE.md that tell where the session is.
DocOK(d) ==
    /\ IsDoc(d) /\ d.bold \in BOOLEAN
    /\ d.body["Status"] \in DOMAIN StatusWord
    /\ d.body["Phase"] \in Seq(Num \cup Int) /\ Len(d.body["Phase"]) \in 1 .. 2
    /\ d.body["Phase"][1] \in Num /\ (Len(d.body["Phase"]) = 2 => d.body["Phase"][2] \in Int)
    /\ d.bold => d.body["CurrentPlan"] \in Seq(Nat) /\ d.body["TotalPlans"] \in Seq(Nat)

BaseInv == TreeTypes /\ GivenInv /\ DocOK(doc)

\* An integer is the number of one directory, and a verified one with an
\* integer is behind the session.
PlacesInv ==
    /\ \A d, e \in dirs : d.num = e.num /\ Len(d.num) = 1 => d = e
    /\ \A d \in dirs : d.verified /\ Len(d.num) = 1 /\ at # <<>> =>
          Before(d.num, at) \/ (d.num = at /\ stage = "complete")

\* The YAML block follows the body from the first command on.
Shown(d) == d.front.status = StatusWord[d.body["Status"]]
StatusInv ==
    /\ Shown(doc) \/ (doc.front = NoFront /\ stage \in {"plan", "planned"})
    /\ doc.bold /\ stage \in {"execute", "progress", "advance"} =>
          Len(doc.body["CurrentPlan"]) = 1 /\ Len(doc.body["TotalPlans"]) = 1
    /\ doc.bold /\ doc.body["Status"] = "executing" => stage \in {"execute", "progress", "advance"}
    /\ doc.bold /\ closed => doc.body["Status"] = "milestoneComplete"

\* As long as numbers are distinct, only the phase at hand is under way, and
\* the plan that STATE.md counts is not ahead of its summaries.
Open(d) == d.summaries < d.plans
PlanCounted(d, plan, where) ==
    \E c \in Nat : plan = <<c, d.plans>> /\ c <= d.summaries + (IF where = "execute" THEN 1 ELSE 0)
WorkInv ==
    ~doubled =>
        /\ Distinct(dirs)
        /\ \A d \in dirs : Open(d) => d.num = at /\ stage \notin {"verify", "complete"}
        /\ \A d \in dirs : Open(d) /\ stage \in {"execute", "progress", "advance"} =>
              PlanCounted(d, PlanOf(doc), stage)
        /\ stage \in {"execute", "progress"} => doc.body["Status"] \in {"executing", "readyToExecute"}

-----------------------------------------------------------------------------
(* Phase numbers and their order.                                          *)

\* The two parts of a number.
LEMMA NumParts ==
    ASSUME NEW p \in Num
    PROVE  /\ p[1] \in Nat \ {0} /\ At(p, 1) = p[1] /\ At(p, 3) = 0 /\ At(p, 2) \in Nat
           /\ Len(p) \in 1 .. 2 /\ DOMAIN p = 1 .. Len(p) /\ p # <<>>
           /\ Len(p) = 1 <=> At(p, 2) = 0
           /\ Len(p) = 1 => p = <<p[1]>>
           /\ Len(p) = 2 => p = <<p[1], p[2]>> /\ p[2] \in Nat \ {0} /\ At(p, 2) = p[2]
<1>1. CASE \E n \in Nat \ {0} : p = <<n>>
    BY <1>1 DEF At
<1>2. CASE \E n \in Nat \ {0}, k \in Nat \ {0} : p = <<n, k>>
    BY <1>2 DEF At
<1> QED
    BY <1>1, <1>2 DEF Num

\* They are all there is of it.
LEMMA NumEqual ==
    ASSUME NEW p \in Num, NEW q \in Num, p[1] = q[1], At(p, 2) = At(q, 2)
    PROVE  p = q
BY NumParts DEF At

\* The order, with the two parts.
LEMMA BeforeIs ==
    ASSUME NEW p \in Num, NEW q \in Num
    PROVE  Before(p, q) <=> p[1] < q[1] \/ (p[1] = q[1] /\ At(p, 2) < At(q, 2))
<1>1. /\ At(p, 1) = p[1] /\ At(q, 1) = q[1] /\ At(p, 3) = 0 /\ At(q, 3) = 0
      /\ p[1] \in Nat /\ q[1] \in Nat /\ At(p, 2) \in Nat /\ At(q, 2) \in Nat
    BY NumParts
<1>2. 1 .. 3 = {1, 2, 3} /\ 1 .. 1 - 1 = {} /\ 1 .. 2 - 1 = {1} /\ 1 .. 3 - 1 = {1, 2}
    OBVIOUS
<1> DEFINE Less(i) == At(p, i) < At(q, i) /\ \A j \in 1 .. i - 1 : At(p, j) = At(q, j)
<1>3. /\ Less(1) <=> p[1] < q[1]
      /\ Less(2) <=> p[1] = q[1] /\ At(p, 2) < At(q, 2)
      /\ ~Less(3)
    BY <1>1, <1>2
<1>4. Before(p, q) <=> \E i \in 1 .. 3 : Less(i)
    BY DEF Before
<1> HIDE DEF Less
<1> QED
    BY <1>2, <1>3, <1>4

LEMMA BeforeOrders ==
    ASSUME NEW p \in Num, NEW q \in Num, NEW r \in Num
    PROVE  /\ ~Before(p, p)
           /\ Before(p, q) /\ Before(q, r) => Before(p, r)
           /\ p = q \/ Before(p, q) \/ Before(q, p)
<1>1. /\ p[1] \in Nat /\ q[1] \in Nat /\ r[1] \in Nat
      /\ At(p, 2) \in Nat /\ At(q, 2) \in Nat /\ At(r, 2) \in Nat
    BY NumParts
<1> QED
    BY <1>1, BeforeIs, NumEqual

\* The lowest and the highest of a set of numbers.
LEMMA LeastIs ==
    ASSUME NEW set \in SUBSET Nat, set # {}
    PROVE  Least(set) \in set /\ \A n \in set : Least(set) <= n
<1>1. PICK m \in set : \A n \in set : <<n, m>> \notin OpToRel(<, Nat)
    BY NatLessThanWellFounded, WFMin
<1>2. ASSUME NEW n \in set PROVE m <= n
    <2>1. n \in Nat /\ m \in Nat /\ <<n, m>> \notin OpToRel(<, Nat)
        BY <1>1
    <2>2. ~(n < m)
        BY <2>1 DEF OpToRel
    <2>3. n \in Nat /\ m \in Nat
        OBVIOUS
    <2> QED
        BY <2>2, <2>3
<1> QED
    BY <1>2 DEF Least

LEMMA MaxOfIs ==
    ASSUME NEW set \in SUBSET Nat, set # {}, NEW top \in Nat, \A n \in set : n <= top
    PROVE  MaxOf(set) \in set /\ \A n \in set : n <= MaxOf(set)
<1> DEFINE gaps == {top - n : n \in set}
<1>1. gaps \in SUBSET Nat /\ gaps # {}
    <2>1. ASSUME NEW n \in set PROVE top - n \in Nat
        <3>1. n \in Nat /\ n <= top
            OBVIOUS
        <3> QED
            BY <3>1
    <2> QED
        BY <2>1
<1> HIDE DEF gaps
<1>2. PICK g \in gaps : \A h \in gaps : g <= h
    BY <1>1, LeastIs
<1> USE DEF gaps
<1>3. PICK m \in set : g = top - m
    BY <1>2
<1>4. ASSUME NEW n \in set PROVE n <= m
    <2>1. g <= top - n /\ n \in Nat /\ m \in Nat
        BY <1>2
    <2> QED
        BY <1>3, <2>1
<1> QED
    BY <1>4 DEF MaxOf

\* Of some phase numbers one comes first.
LEMMA FirstNumber ==
    ASSUME NEW nums \in SUBSET Num, nums # {}
    PROVE  \E p \in nums : \A q \in nums : p = q \/ Before(p, q)
<1> DEFINE ints == {p[1] : p \in nums}
           some == {p \in nums : p[1] = Least(ints)}
           decs == {At(p, 2) : p \in some}
<1>1. ints \in SUBSET Nat /\ ints # {}
    BY NumParts
<1>2. Least(ints) \in ints /\ \A n \in ints : Least(ints) <= n
    BY <1>1, LeastIs
<1>3. some # {} /\ \A p \in nums : Least(ints) <= p[1]
    BY <1>2
<1>4. decs \in SUBSET Nat /\ decs # {}
    <2>1. ASSUME NEW p \in some PROVE At(p, 2) \in Nat
        BY NumParts
    <2> QED
        BY <1>3, <2>1
<1>5. PICK p \in some : \A q \in some : At(p, 2) <= At(q, 2)
    <2>1. Least(decs) \in decs /\ \A n \in decs : Least(decs) <= n
        <3> HIDE DEF decs
        <3> QED
            BY <1>4, LeastIs
    <2> QED
        BY <2>1
<1>6. ASSUME NEW q \in nums PROVE p = q \/ Before(p, q)
    <2>1. p[1] \in Nat /\ q[1] \in Nat /\ At(p, 2) \in Nat /\ At(q, 2) \in Nat
        BY NumParts
    <2>2. CASE p[1] = q[1]
        BY <1>5, <2>1, <2>2, BeforeIs, NumEqual
    <2>3. CASE p[1] # q[1]
        BY <1>3, <1>5, <2>1, <2>3, BeforeIs
    <2> QED
        BY <2>2, <2>3
<1> QED
    BY <1>5, <1>6

-----------------------------------------------------------------------------
(* Directories and headings.                                               *)

\* The directory with a number.
LEMMA FindIs ==
    ASSUME NEW set \in SUBSET DirRecs, NEW num \in Num
    PROVE  /\ num \notin Numbers(set) => Find(set, num) = NoDir
           /\ num \in Numbers(set) => /\ Find(set, num) \in set /\ Find(set, num).num = num
                                      /\ Find(set, num) # NoDir
           /\ Find(set, num) # NoDir => num \in Numbers(set)
<1> DEFINE same == {d \in set : d.num = num}
<1>1. num \in Numbers(set) <=> same # {}
    BY DEF Numbers
<1>2. CASE same = {}
    BY <1>1, <1>2 DEF Find
<1>3. CASE same # {}
    <2>1. {d.title : d \in same} \in SUBSET Nat /\ {d.title : d \in same} # {}
        BY <1>3 DEF DirRecs
    <2>2. PICK d \in same : \A e \in same : d.title <= e.title
        <3> DEFINE titles == {d.title : d \in same}
        <3>1. Least(titles) \in titles /\ \A n \in titles : Least(titles) <= n
            <4>1. titles \in SUBSET Nat /\ titles # {}
                BY <2>1
            <4> HIDE DEF titles
            <4> QED
                BY <4>1, LeastIs
        <3> QED
            BY <3>1
    <2>3. Find(set, num) = CHOOSE x \in same : \A e \in same : x.title <= e.title
        BY <1>3 DEF Find
    <2>4. Find(set, num) \in same
        BY <2>2, <2>3
    <2>5. Find(set, num).num # <<>>
        BY <2>4, NumParts
    <2>6. Find(set, num) # NoDir
        BY <2>5 DEF NoDir, Dir
    <2> QED
        BY <1>1, <1>3, <2>4, <2>6
<1> QED
    BY <1>2, <1>3

\* A directory whose number no other has is the one found.
LEMMA FindOnly ==
    ASSUME NEW set \in SUBSET DirRecs, NEW d \in set, \A e \in set : e.num = d.num => e = d
    PROVE  Find(set, d.num) = d
<1>1. d.num \in Num /\ d.num \in Numbers(set)
    BY DEF DirRecs, Numbers
<1> QED
    BY <1>1, FindIs

\* The heading a number is spelled like.
LEMMA SpelledIs ==
    ASSUME NEW r \in Seq(HeadingRecs), NEW num, NEW padded
    PROVE  /\ Spelled(r, num, padded) \in {0} \cup DOMAIN r
           /\ Spelled(r, num, padded) # 0 =>
                 r[Spelled(r, num, padded)].num = num /\ r[Spelled(r, num, padded)].padded = padded
           /\ Spelled(r, num, padded) = 0 <=> \A h \in Headings(r) : ~(h.num = num /\ h.padded = padded)
<1> DEFINE same == {i \in DOMAIN r : r[i].num = num /\ r[i].padded = padded}
<1>1. same \in SUBSET Nat /\ 0 \notin same
    OBVIOUS
<1>2. same # {} => Least(same) \in same
    BY <1>1, LeastIs
<1>3. Spelled(r, num, padded) = IF same = {} THEN 0 ELSE Least(same)
    BY DEF Spelled
<1>4. same = {} <=> \A h \in Headings(r) : ~(h.num = num /\ h.padded = padded)
    BY DEF Headings, ToSet
<1> QED
    BY <1>1, <1>2, <1>3, <1>4

LEMMA TargetIs ==
    ASSUME NEW r \in Seq(HeadingRecs), NEW num
    PROVE  /\ Target(r, num) \in {0} \cup DOMAIN r
           /\ Target(r, num) # 0 => r[Target(r, num)].num = num
           /\ Target(r, num) = 0 <=> num \notin Numbers(Headings(r))
<1> DEFINE same == {i \in DOMAIN r : r[i].num = num}
<1>1. same \in SUBSET Nat /\ 0 \notin same
    OBVIOUS
<1>2. same # {} => Least(same) \in same
    BY <1>1, LeastIs
<1>3. Target(r, num) = IF same = {} THEN 0 ELSE Least(same)
    BY DEF Target
<1>4. same = {} <=> num \notin Numbers(Headings(r))
    BY DEF Headings, ToSet, Numbers
<1> QED
    BY <1>1, <1>2, <1>3, <1>4

\* A number has a heading of its spelling just when it has a heading.
LEMMA HeadingOfIs ==
    ASSUME roadmap \in Seq(HeadingRecs), NEW num
    PROVE  /\ HeadingOf(num) \in {0} \cup DOMAIN roadmap
           /\ HeadingOf(num) # 0 => roadmap[HeadingOf(num)].num = num
           /\ HeadingOf(num) = 0 <=> num \notin Numbers(Headings(roadmap))
<1>1. num \in Numbers(Headings(roadmap)) =>
          \E h \in Headings(roadmap) : h.num = num /\ h.padded = Padded(num)
    <2> SUFFICES ASSUME num \in Numbers(Headings(roadmap))
                 PROVE  \E h \in Headings(roadmap) : h.num = num /\ h.padded = Padded(num)
        OBVIOUS
    <2>1. Target(roadmap, num) \in DOMAIN roadmap /\ roadmap[Target(roadmap, num)].num = num
          /\ Target(roadmap, num) # 0
        BY TargetIs
    <2>2. roadmap[Target(roadmap, num)].padded = Padded(num)
        <3>1. Padded(num) <=> roadmap[Target(roadmap, num)].padded
            BY <2>1 DEF Padded
        <3>2. Padded(num) \in BOOLEAN
            BY DEF Padded
        <3>3. roadmap[Target(roadmap, num)].padded \in BOOLEAN
            <4>1. roadmap[Target(roadmap, num)] \in HeadingRecs
                BY <2>1
            <4> QED
                BY <4>1 DEF HeadingRecs
        <3> QED
            BY <3>1, <3>2, <3>3
    <2> QED
        BY <2>1, <2>2 DEF Headings, ToSet
<1>2. \A h \in Headings(roadmap) : h.num = num => num \in Numbers(Headings(roadmap))
    BY DEF Numbers
<1>3. /\ HeadingOf(num) \in {0} \cup DOMAIN roadmap
      /\ HeadingOf(num) # 0 => roadmap[HeadingOf(num)].num = num
      /\ HeadingOf(num) = 0 <=> \A h \in Headings(roadmap) : ~(h.num = num /\ h.padded = Padded(num))
    BY SpelledIs DEF HeadingOf
<1> QED
    BY <1>1, <1>2, <1>3

-----------------------------------------------------------------------------
(* The commands on STATE.md.                                               *)

\* A replacement that does not go to the YAML block sets its field of the body.
LEMMA ReplaceIs ==
    ASSUME NEW d, NEW f, NEW v, IsDoc(d)
    PROVE  LET e == Replace(d, f, v)
           IN  /\ IsDoc(e) /\ e.bold = d.bold /\ DOMAIN e.body = DOMAIN d.body
               /\ \A g \in DOMAIN d.body :
                     e.body[g] = IF g = f /\ ~InFront(d, f) THEN v ELSE d.body[g]
<1>1. IsDoc(Replace(d, f, v)) /\ Replace(d, f, v).bold = d.bold
    BY ReplaceEdits DEF Edited, SameLists
<1>2. CASE InFront(d, f)
    <2>1. [d EXCEPT !.front.status = v].body = d.body
        BY DEF IsDoc
    <2> QED
        BY <1>1, <1>2, <2>1 DEF Replace
<1>3. CASE ~InFront(d, f) /\ f \in DOMAIN d.body
    <2>1. [d EXCEPT !.body[f] = v].body = [d.body EXCEPT ![f] = v]
        BY DEF IsDoc
    <2> QED
        BY <1>1, <1>3, <2>1 DEF Replace, InBody
<1>4. CASE ~InFront(d, f) /\ f \notin DOMAIN d.body
    BY <1>1, <1>4 DEF Replace, InBody
<1> QED
    BY <1>2, <1>3, <1>4

LEMMA PositionIs ==
    ASSUME NEW d, NEW f, NEW v, IsDoc(d)
    PROVE  LET e == Position(d, f, v)
           IN  /\ IsDoc(e) /\ e.bold = d.bold /\ DOMAIN e.body = DOMAIN d.body
               /\ \A g \in DOMAIN d.body :
                     e.body[g] = IF g = f /\ ~d.bold THEN v ELSE d.body[g]
<1>1. IsDoc(Position(d, f, v)) /\ Position(d, f, v).bold = d.bold
    BY PositionEdits DEF Edited, SameLists
<1>2. [d EXCEPT !.body[f] = v].body = [d.body EXCEPT ![f] = v]
    BY DEF IsDoc
<1> QED
    BY <1>1, <1>2 DEF Position, InBody

\* The two together set a Status in either layout.
LEMMA SaysStatus ==
    ASSUME NEW d, NEW v, IsDoc(d), d.bold \in BOOLEAN
    PROVE  LET e == Position(Replace(d, "Status", v), "Status", v)
           IN  /\ IsDoc(e) /\ e.bold = d.bold /\ DOMAIN e.body = DOMAIN d.body
               /\ \A g \in DOMAIN d.body : e.body[g] = IF g = "Status" THEN v ELSE d.body[g]
<1> DEFINE r == Replace(d, "Status", v)
           e == Position(r, "Status", v)
<1>1. /\ IsDoc(r) /\ r.bold = d.bold /\ DOMAIN r.body = DOMAIN d.body
      /\ \A g \in DOMAIN d.body :
            r.body[g] = IF g = "Status" /\ ~InFront(d, "Status") THEN v ELSE d.body[g]
    BY ReplaceIs
<1>2. /\ IsDoc(e) /\ e.bold = r.bold /\ DOMAIN e.body = DOMAIN r.body
      /\ \A g \in DOMAIN r.body : e.body[g] = IF g = "Status" /\ ~r.bold THEN v ELSE r.body[g]
    <2> HIDE DEF r
    <2> QED
        BY <1>1, PositionIs
<1>3. d.bold => ~InFront(d, "Status")
    BY DEF InFront
<1> HIDE DEF r, e
<1>4. \A g \in DOMAIN d.body : e.body[g] = IF g = "Status" THEN v ELSE d.body[g]
    BY <1>1, <1>2, <1>3
<1> QED
    BY <1>1, <1>2, <1>4 DEF r, e

\* A plan field holds one number, and two of them make the plan counted.
LEMMA OneNumber ==
    ASSUME NEW a \in Nat, NEW b \in Nat
    PROVE  <<a>> \in Seq(Nat) /\ Len(<<a>>) = 1 /\ <<a>> \o <<b>> = <<a, b>>
<1> DEFINE x == <<a>>
           y == <<b>>
           z == <<a, b>>
<1>1. /\ x \in Seq(Nat) /\ y \in Seq(Nat) /\ z \in Seq(Nat)
      /\ Len(x) = 1 /\ Len(y) = 1 /\ Len(z) = 2 /\ x[1] = a /\ y[1] = b /\ z[1] = a /\ z[2] = b
    OBVIOUS
<1> HIDE DEF x, y, z
<1>2. /\ x \o y \in Seq(Nat) /\ Len(x \o y) = Len(x) + Len(y)
      /\ \A i \in 1 .. Len(x) + Len(y) : (x \o y)[i] = IF i <= Len(x) THEN x[i] ELSE y[i - Len(x)]
    BY <1>1, ConcatProperties
<1>3. Len(x \o y) = 2 /\ (x \o y)[1] = a /\ (x \o y)[2] = b
    BY <1>1, <1>2
<1>4. \A i \in 1 .. 2 : (x \o y)[i] = z[i]
    BY <1>1, <1>3
<1>5. x \o y = z
    BY <1>1, <1>2, <1>3, <1>4, SeqEqual
<1> QED
    BY <1>1, <1>5 DEF x, y, z

LEMMA AppendedNumber ==
    ASSUME NEW a \in Nat, NEW b \in Nat
    PROVE  Append(<<a>>, b) = <<a, b>>
<1> DEFINE x == <<a>>
           z == <<a, b>>
<1>1. /\ x \in Seq(Nat) /\ z \in Seq(Nat) /\ Len(x) = 1 /\ Len(z) = 2 /\ x[1] = a /\ z[1] = a /\ z[2] = b
    OBVIOUS
<1> HIDE DEF x, z
<1>2. /\ Append(x, b) \in Seq(Nat) /\ Len(Append(x, b)) = 2
      /\ Append(x, b)[1] = a /\ Append(x, b)[2] = b
    <2>1. /\ Append(x, b) \in Seq(Nat) /\ Len(Append(x, b)) = Len(x) + 1
          /\ \A i \in 1 .. Len(x) : Append(x, b)[i] = x[i]
          /\ Append(x, b)[Len(x) + 1] = b
        <3>1. PICK S : S = Nat
            OBVIOUS
        <3>2. x \in Seq(S) /\ b \in S
            BY <1>1, <3>1
        <3>3. /\ Append(x, b) \in Seq(S) /\ Len(Append(x, b)) = Len(x) + 1
              /\ \A i \in 1 .. Len(x) : Append(x, b)[i] = x[i]
              /\ Append(x, b)[Len(x) + 1] = b
            BY <3>2, AppendProperties
        <3> QED
            BY <3>1, <3>3
    <2> QED
        BY <1>1, <2>1
<1>3. \A i \in 1 .. 2 : Append(x, b)[i] = z[i]
    BY <1>1, <1>2
<1>4. Append(x, b) = z
    BY <1>1, <1>2, <1>3, SeqEqual
<1> QED
    BY <1>4 DEF x, z

\* The texts of Status and what the block makes of them.
LEMMA StatusWords ==
    /\ DOMAIN StatusWord = {"executing", "readyToExecute", "readyToPlan", "phaseComplete", "milestoneComplete"}
    /\ StatusWord["executing"] = "executing" /\ StatusWord["readyToExecute"] = "executing"
    /\ StatusWord["milestoneComplete"] = "completed"
BY DEF StatusWord

\* What keeps the fields that tell where the session is.
LEMMA DocFrom ==
    ASSUME NEW d, NEW e, DocOK(d), IsDoc(e), e.bold = d.bold,
           e.body["Status"] \in DOMAIN StatusWord, e.body["Phase"] = d.body["Phase"],
           d.bold => e.body["CurrentPlan"] \in Seq(Nat) /\ e.body["TotalPlans"] \in Seq(Nat)
    PROVE  DocOK(e)
BY DEF DocOK

\* A write ends with a YAML block that follows the body.
LEMMA SyncedIs ==
    ASSUME NEW d, NEW disk, DocOK(d)
    PROVE  /\ DocOK(Synced(d, disk)) /\ Shown(Synced(d, disk))
           /\ Synced(d, disk).body = d.body /\ Synced(d, disk).bold = d.bold
<1> DEFINE front == YamlBlock(d.body, disk)
<1>1. "Status" \in DOMAIN d.body
    BY DEF DocOK, IsDoc, BoldFields, PlainFields
<1>2. front.status = StatusWord[d.body["Status"]] /\ front.status # "unknown"
    BY <1>1 DEF YamlBlock, DocOK, StatusWord
<1>3. Synced(d, disk) = [d EXCEPT !.front = front]
    BY <1>2 DEF Synced
<1>4. /\ Synced(d, disk).body = d.body /\ Synced(d, disk).bold = d.bold
      /\ IsDoc(Synced(d, disk))
    BY SyncedEdits DEF DocOK, Edited, SameLists
<1>5. Synced(d, disk).front = front
    BY <1>3 DEF DocOK, IsDoc
<1> HIDE DEF front
<1> QED
    BY <1>2, <1>4, <1>5 DEF DocOK, Shown

\* The plan counted is in the body.
LEMMA PlanOfBody ==
    ASSUME NEW d, NEW e, d.body = e.body
    PROVE  PlanOf(d) = PlanOf(e)
BY DEF PlanOf, InBody

\* state planned-phase
LEMMA PlannedIs ==
    ASSUME NEW d, NEW count \in Nat, DocOK(d)
    PROVE  LET e == PlannedPhase(d, count)
           IN  /\ DocOK(e) /\ e.bold = d.bold
               /\ e.body["Status"] = "readyToExecute" /\ e.body["Phase"] = d.body["Phase"]
<1> DEFINE r == Replace(d, "Status", "readyToExecute")
           t == Replace(r, "TotalPlans", <<count>>)
           e == Position(t, "Status", "readyToExecute")
<1>0. /\ IsDoc(d) /\ DOMAIN d.body = IF d.bold THEN BoldFields ELSE PlainFields
      /\ d.bold => ~InFront(d, "Status")
    BY DEF DocOK, IsDoc, InFront
<1>1. /\ IsDoc(r) /\ r.bold = d.bold /\ DOMAIN r.body = DOMAIN d.body
      /\ \A g \in DOMAIN d.body : r.body[g] =
            IF g = "Status" /\ ~InFront(d, "Status") THEN "readyToExecute" ELSE d.body[g]
    BY <1>0, ReplaceIs
<1>2. /\ IsDoc(t) /\ t.bold = d.bold /\ DOMAIN t.body = DOMAIN d.body
      /\ \A g \in DOMAIN d.body : t.body[g] = IF g = "TotalPlans" THEN <<count>> ELSE r.body[g]
    <2>1. ~InFront(r, "TotalPlans")
        BY DEF InFront
    <2> HIDE DEF r
    <2> QED
        BY <1>1, <2>1, ReplaceIs
<1>3. /\ IsDoc(e) /\ e.bold = d.bold /\ DOMAIN e.body = DOMAIN d.body
      /\ \A g \in DOMAIN d.body :
            e.body[g] = IF g = "Status" /\ ~d.bold THEN "readyToExecute" ELSE t.body[g]
    <2> HIDE DEF t
    <2> QED
        BY <1>2, PositionIs
<1>4. e = PlannedPhase(d, count)
    BY DEF PlannedPhase
<1> HIDE DEF r, t, e
<1>5. e.body["Status"] = "readyToExecute" /\ e.body["Phase"] = d.body["Phase"]
    BY <1>0, <1>1, <1>2, <1>3 DEF BoldFields, PlainFields
<1>6. d.bold => /\ e.body["CurrentPlan"] = d.body["CurrentPlan"]
                /\ e.body["TotalPlans"] = <<count>>
    BY <1>0, <1>1, <1>2, <1>3 DEF BoldFields
<1>7. DocOK(e)
    <2>1. d.bold => e.body["CurrentPlan"] \in Seq(Nat) /\ e.body["TotalPlans"] \in Seq(Nat)
        BY <1>6, OneNumber DEF DocOK
    <2> QED
        BY <1>1, <1>2, <1>3, <1>5, <2>1, StatusWords, DocFrom
<1> QED
    BY <1>1, <1>2, <1>3, <1>4, <1>5, <1>7

\* state begin-phase
LEMMA BeginIs ==
    ASSUME NEW d, NEW n \in Num, NEW count \in Nat, DocOK(d)
    PROVE  LET e == BeginPhase(d, n, count)
           IN  /\ DocOK(e) /\ e.bold = d.bold /\ e.body["Status"] = "executing"
               /\ PlanOf(e) = <<1, count>>
               /\ d.bold => e.body["CurrentPlan"] = <<1>> /\ e.body["TotalPlans"] = <<count>>
<1> DEFINE r == Replace(d, "Status", "executing")
           c == Replace(r, "CurrentPlan", <<1>>)
           t == Replace(c, "TotalPlans", <<count>>)
           q == IF d.bold THEN Replace(t, "Phase", <<n>>) ELSE Position(t, "Phase", <<n>>)
           w == Position(q, "Plan", <<1, count>>)
           e == Position(w, "Status", "executing")
<1>0. /\ IsDoc(d) /\ d.bold \in BOOLEAN /\ DOMAIN d.body = IF d.bold THEN BoldFields ELSE PlainFields
      /\ d.bold => ~InFront(d, "Status")
    BY DEF DocOK, IsDoc, InFront
<1>1. /\ IsDoc(r) /\ r.bold = d.bold /\ DOMAIN r.body = DOMAIN d.body
      /\ \A g \in DOMAIN d.body : r.body[g] =
            IF g = "Status" /\ ~InFront(d, "Status") THEN "executing" ELSE d.body[g]
    BY <1>0, ReplaceIs
<1>2. /\ IsDoc(c) /\ c.bold = d.bold /\ DOMAIN c.body = DOMAIN d.body
      /\ \A g \in DOMAIN d.body : c.body[g] = IF g = "CurrentPlan" THEN <<1>> ELSE r.body[g]
    <2>1. ~InFront(r, "CurrentPlan")
        BY DEF InFront
    <2> HIDE DEF r
    <2> QED
        BY <1>1, <2>1, ReplaceIs
<1>3. /\ IsDoc(t) /\ t.bold = d.bold /\ DOMAIN t.body = DOMAIN d.body
      /\ \A g \in DOMAIN d.body : t.body[g] = IF g = "TotalPlans" THEN <<count>> ELSE c.body[g]
    <2>1. ~InFront(c, "TotalPlans")
        BY DEF InFront
    <2> HIDE DEF c
    <2> QED
        BY <1>2, <2>1, ReplaceIs
<1>4. /\ IsDoc(q) /\ q.bold = d.bold /\ DOMAIN q.body = DOMAIN d.body
      /\ \A g \in DOMAIN d.body : q.body[g] = IF g = "Phase" THEN <<n>> ELSE t.body[g]
    <2>1. ~InFront(t, "Phase")
        BY DEF InFront
    <2> HIDE DEF t
    <2>2. CASE d.bold
        <3>1. q = Replace(t, "Phase", <<n>>)
            BY <2>2
        <3> HIDE DEF q
        <3> QED
            BY <1>3, <2>1, <3>1, ReplaceIs
    <2>3. CASE ~d.bold
        <3>1. q = Position(t, "Phase", <<n>>)
            BY <2>3
        <3> HIDE DEF q
        <3> QED
            BY <1>3, <2>3, <3>1, PositionIs
    <2> QED
        BY <1>0, <2>2, <2>3
<1>5. /\ IsDoc(w) /\ w.bold = d.bold /\ DOMAIN w.body = DOMAIN d.body
      /\ \A g \in DOMAIN d.body : w.body[g] = IF g = "Plan" /\ ~d.bold THEN <<1, count>> ELSE q.body[g]
    <2> HIDE DEF q
    <2> QED
        BY <1>4, PositionIs
<1>6. /\ IsDoc(e) /\ e.bold = d.bold /\ DOMAIN e.body = DOMAIN d.body
      /\ \A g \in DOMAIN d.body : e.body[g] = IF g = "Status" /\ ~d.bold THEN "executing" ELSE w.body[g]
    <2> HIDE DEF w
    <2> QED
        BY <1>5, PositionIs
<1>7. e = BeginPhase(d, n, count)
    BY DEF BeginPhase
<1> HIDE DEF r, c, t, q, w, e
<1>8. e.body["Status"] = "executing" /\ e.body["Phase"] = <<n>>
    BY <1>0, <1>1, <1>2, <1>3, <1>4, <1>5, <1>6 DEF BoldFields, PlainFields
<1>9. d.bold => /\ e.body["CurrentPlan"] = <<1>> /\ e.body["TotalPlans"] = <<count>>
                /\ "CurrentPlan" \in DOMAIN e.body
    BY <1>0, <1>1, <1>2, <1>3, <1>4, <1>5, <1>6 DEF BoldFields
<1>10. ~d.bold => /\ e.body["Plan"] = <<1, count>>
                  /\ "Plan" \in DOMAIN e.body /\ "CurrentPlan" \notin DOMAIN e.body
    BY <1>0, <1>5, <1>6 DEF PlainFields
<1>11. PlanOf(e) = <<1, count>>
    <2>1. <<1>> \o <<count>> = <<1, count>>
        BY OneNumber
    <2> QED
        BY <1>0, <1>9, <1>10, <2>1 DEF PlanOf, InBody
<1>12. DocOK(e)
    <2>1. <<n>> \in Seq(Num \cup Int) /\ Len(<<n>>) = 1 /\ <<n>>[1] \in Num
        OBVIOUS
    <2>2. d.bold => e.body["CurrentPlan"] \in Seq(Nat) /\ e.body["TotalPlans"] \in Seq(Nat)
        BY <1>9, OneNumber
    <2> QED
        BY <1>0, <1>6, <1>8, <2>1, <2>2, StatusWords DEF DocOK
<1> QED
    BY <1>6, <1>7, <1>8, <1>9, <1>11, <1>12

\* A replacement in the body that sets the plan field of the layout.
PlanField(d) == IF d.bold THEN "CurrentPlan" ELSE "Plan"

\* state advance-plan
LEMMA AdvanceIs ==
    ASSUME NEW d, DocOK(d), d.bold => Len(d.body["CurrentPlan"]) = 1 /\ Len(d.body["TotalPlans"]) = 1
    PROVE  LET e == AdvancePlan(d)
           IN  /\ DocOK(e) /\ e.bold = d.bold
               /\ d.bold => /\ e.body["Status"] # "executing"
                            /\ Len(e.body["CurrentPlan"]) = 1 /\ Len(e.body["TotalPlans"]) = 1
               /\ \A c \in Nat, n \in Nat : PlanOf(d) = <<c, n>> /\ c < n =>
                     PlanOf(e) = <<c + 1, n>> /\ e.body["Status"] = "readyToExecute"
<1> DEFINE plan == PlanOf(d)
           says(x, text) == Position(Replace(x, "Status", text), "Status", text)
           next == IF InBody(d, "CurrentPlan") THEN Replace(d, "CurrentPlan", <<plan[1] + 1>>)
                   ELSE Replace(d, "Plan", <<plan[1] + 1, plan[2]>>)
           e == AdvancePlan(d)
<1>0. /\ IsDoc(d) /\ d.bold \in BOOLEAN /\ DOMAIN d.body = IF d.bold THEN BoldFields ELSE PlainFields
    BY DEF DocOK, IsDoc
<1>1. ASSUME d.bold
      PROVE  /\ "CurrentPlan" \in DOMAIN d.body
             /\ d.body["CurrentPlan"] \in Seq(Nat) /\ d.body["TotalPlans"] \in Seq(Nat)
             /\ plan = <<d.body["CurrentPlan"][1], d.body["TotalPlans"][1]>>
             /\ Len(plan) = 2 /\ plan[1] \in Nat /\ plan[2] \in Nat /\ d.body["TotalPlans"] = <<plan[2]>>
    <2>1. "CurrentPlan" \in DOMAIN d.body
        BY <1>0, <1>1 DEF BoldFields
    <2>2. plan = d.body["CurrentPlan"] \o d.body["TotalPlans"]
        BY <2>1 DEF PlanOf, InBody
    <2>3. /\ d.body["CurrentPlan"] \in Seq(Nat) /\ d.body["TotalPlans"] \in Seq(Nat)
          /\ Len(d.body["CurrentPlan"]) = 1 /\ Len(d.body["TotalPlans"]) = 1
        BY <1>1 DEF DocOK
    <2>4. PICK a \in Nat, b \in Nat : d.body["CurrentPlan"] = <<a>> /\ d.body["TotalPlans"] = <<b>>
        <3> DEFINE x == d.body["CurrentPlan"]
                   y == d.body["TotalPlans"]
        <3>1. x[1] \in Nat /\ y[1] \in Nat
            BY <2>3
        <3>2. x = <<x[1]>> /\ y = <<y[1]>>
            BY <2>3, <3>1
        <3> QED
            BY <3>1, <3>2
    <2>5. plan = <<a, b>>
        BY <2>2, <2>4, OneNumber
    <2> QED
        BY <2>1, <2>3, <2>4, <2>5
<1>2. ASSUME ~d.bold
      PROVE  "CurrentPlan" \notin DOMAIN d.body /\ "Plan" \in DOMAIN d.body /\ plan = d.body["Plan"]
    BY <1>0, <1>2 DEF PlanOf, InBody, PlainFields
<1>3. e = IF Len(plan) # 2 THEN d ELSE IF plan[1] >= plan[2] THEN says(d, "phaseComplete")
          ELSE says(next, "readyToExecute")
    BY DEF AdvancePlan
<1>4. /\ IsDoc(next) /\ next.bold = d.bold /\ DOMAIN next.body = DOMAIN d.body
      /\ d.bold => \A g \in DOMAIN d.body :
            next.body[g] = IF g = "CurrentPlan" THEN <<plan[1] + 1>> ELSE d.body[g]
      /\ ~d.bold => \A g \in DOMAIN d.body :
            next.body[g] = IF g = "Plan" THEN <<plan[1] + 1, plan[2]>> ELSE d.body[g]
    <2>1. ~InFront(d, "CurrentPlan") /\ ~InFront(d, "Plan")
        BY DEF InFront
    <2> HIDE DEF plan
    <2>2. CASE d.bold
        <3>1. next = Replace(d, "CurrentPlan", <<plan[1] + 1>>)
            BY <1>1, <2>2 DEF InBody
        <3> HIDE DEF next
        <3>2. /\ IsDoc(next) /\ next.bold = d.bold /\ DOMAIN next.body = DOMAIN d.body
              /\ \A g \in DOMAIN d.body :
                    next.body[g] = IF g = "CurrentPlan" THEN <<plan[1] + 1>> ELSE d.body[g]
            BY <1>0, <2>1, <3>1, ReplaceIs
        <3> QED
            BY <2>2, <3>2
    <2>3. CASE ~d.bold
        <3>1. next = Replace(d, "Plan", <<plan[1] + 1, plan[2]>>)
            BY <1>2, <2>3 DEF InBody
        <3> HIDE DEF next
        <3> QED
            BY <1>0, <2>1, <2>3, <3>1, ReplaceIs
    <2> QED
        BY <1>0, <2>2, <2>3
<1> HIDE DEF next
<1>5. \A text : /\ IsDoc(says(d, text)) /\ says(d, text).bold = d.bold /\ DOMAIN says(d, text).body = DOMAIN d.body
                /\ \A g \in DOMAIN d.body : says(d, text).body[g] = IF g = "Status" THEN text ELSE d.body[g]
    BY <1>0, SaysStatus
<1>6. \A text : /\ IsDoc(says(next, text)) /\ says(next, text).bold = d.bold
                /\ DOMAIN says(next, text).body = DOMAIN d.body
                /\ \A g \in DOMAIN d.body :
                      says(next, text).body[g] = IF g = "Status" THEN text ELSE next.body[g]
    BY <1>0, <1>4, SaysStatus
<1> HIDE DEF says, plan, e
<1>7. /\ "Status" \in DOMAIN d.body /\ "Phase" \in DOMAIN d.body
      /\ d.bold => "CurrentPlan" \in DOMAIN d.body /\ "TotalPlans" \in DOMAIN d.body
    BY <1>0 DEF BoldFields, PlainFields
<1>8. CASE Len(plan) # 2
    <2>1. e = d /\ ~d.bold
        BY <1>1, <1>3, <1>8
    <2>2. \A c \in Nat, n \in Nat : PlanOf(d) # <<c, n>>
        BY <1>8 DEF plan
    <2> QED
        BY <2>1, <2>2 DEF e
<1>9. CASE Len(plan) = 2 /\ plan[1] >= plan[2]
    <2>1. e = says(d, "phaseComplete")
        BY <1>3, <1>9
    <2>2. /\ IsDoc(e) /\ e.bold = d.bold /\ e.body["Status"] = "phaseComplete" /\ e.body["Phase"] = d.body["Phase"]
          /\ d.bold => e.body["CurrentPlan"] = d.body["CurrentPlan"] /\ e.body["TotalPlans"] = d.body["TotalPlans"]
        <3> DEFINE f == says(d, "phaseComplete")
        <3>1. /\ IsDoc(f) /\ f.bold = d.bold
              /\ \A g \in DOMAIN d.body : f.body[g] = IF g = "Status" THEN "phaseComplete" ELSE d.body[g]
            BY <1>5
        <3>2. e = f
            BY <2>1
        <3> HIDE DEF f
        <3> QED
            BY <1>7, <3>1, <3>2
    <2>3. DocOK(e)
        BY <1>1, <2>2, StatusWords, DocFrom
    <2>4. \A c \in Nat, n \in Nat : PlanOf(d) = <<c, n>> => ~(c < n)
        BY <1>9 DEF plan
    <2> QED
        BY <2>2, <2>3, <2>4 DEF e
<1>10. CASE Len(plan) = 2 /\ ~(plan[1] >= plan[2])
    <2>1. e = says(next, "readyToExecute")
        BY <1>3, <1>10
    <2>2. /\ IsDoc(e) /\ e.bold = d.bold /\ e.body["Status"] = "readyToExecute" /\ e.body["Phase"] = d.body["Phase"]
          /\ DOMAIN e.body = DOMAIN d.body
          /\ d.bold => e.body["CurrentPlan"] = <<plan[1] + 1>> /\ e.body["TotalPlans"] = d.body["TotalPlans"]
          /\ ~d.bold => e.body["Plan"] = <<plan[1] + 1, plan[2]>>
        <3> DEFINE f == says(next, "readyToExecute")
        <3>1. /\ IsDoc(f) /\ f.bold = d.bold /\ DOMAIN f.body = DOMAIN d.body
              /\ \A g \in DOMAIN d.body : f.body[g] = IF g = "Status" THEN "readyToExecute" ELSE next.body[g]
            BY <1>6
        <3>2. e = f
            BY <2>1
        <3> HIDE DEF f
        <3> QED
            BY <1>2, <1>4, <1>7, <3>1, <3>2
    <2>3. d.bold => <<plan[1] + 1>> \in Seq(Nat) /\ Len(<<plan[1] + 1>>) = 1
        BY <1>1, OneNumber
    <2>4. DocOK(e)
        BY <1>1, <2>2, <2>3, StatusWords, DocFrom
    <2>5. ASSUME NEW c \in Nat, NEW n \in Nat, PlanOf(d) = <<c, n>> PROVE PlanOf(e) = <<c + 1, n>>
        <3>1. plan[1] = c /\ plan[2] = n
            BY <2>5 DEF plan
        <3>2. CASE d.bold
            <4>1. d.body["TotalPlans"] = <<n>>
                BY <1>1, <3>1, <3>2
            <4>2. PlanOf(e) = <<c + 1>> \o <<n>>
                BY <1>1, <2>2, <3>1, <3>2, <4>1 DEF PlanOf, InBody
            <4> QED
                BY <4>2, OneNumber
        <3>3. CASE ~d.bold
            BY <1>2, <2>2, <3>1, <3>3 DEF PlanOf, InBody
        <3> QED
            BY <3>2, <3>3
    <2> QED
        BY <1>1, <2>2, <2>3, <2>4, <2>5 DEF e
<1> QED
    BY <1>8, <1>9, <1>10

\* state update-progress
LEMMA ProgressIs ==
    ASSUME NEW d, NEW disk, DocOK(d)
    PROVE  LET e == UpdateProgress(d, disk)
           IN  /\ DocOK(e) /\ e.bold = d.bold /\ DOMAIN e.body = DOMAIN d.body
               /\ \A g \in DOMAIN d.body \ {"Progress"} : e.body[g] = d.body[g]
<1> DEFINE e == UpdateProgress(d, disk)
<1>0. IsDoc(d) /\ DOMAIN d.body = IF d.bold THEN BoldFields ELSE PlainFields
    BY DEF DocOK, IsDoc
<1>1. PICK v : e = Replace(d, "Progress", v)
    BY DEF UpdateProgress
<1> HIDE DEF e
<1>2. /\ IsDoc(e) /\ e.bold = d.bold /\ DOMAIN e.body = DOMAIN d.body
      /\ \A g \in DOMAIN d.body \ {"Progress"} : e.body[g] = d.body[g]
    BY <1>0, <1>1, ReplaceIs
<1>3. /\ e.body["Status"] = d.body["Status"] /\ e.body["Phase"] = d.body["Phase"]
      /\ d.bold => /\ e.body["CurrentPlan"] = d.body["CurrentPlan"]
                   /\ e.body["TotalPlans"] = d.body["TotalPlans"]
    BY <1>0, <1>2 DEF BoldFields, PlainFields
<1>4. DocOK(e)
    BY <1>2, <1>3 DEF DocOK
<1> QED
    BY <1>2, <1>4 DEF e

\* state sync
LEMMA SyncIs ==
    ASSUME NEW d, NEW disk, NEW count \in Nat, DocOK(d)
    PROVE  LET e == SyncFromDisk(d, disk, count)
           IN  /\ DocOK(e) /\ e.bold = d.bold /\ DOMAIN e.body = DOMAIN d.body
               /\ \A g \in DOMAIN d.body \ {"Progress", "TotalPlans"} : e.body[g] = d.body[g]
               /\ d.bold => e.body["TotalPlans"] = IF count > 0 THEN <<count>> ELSE d.body["TotalPlans"]
<1> DEFINE t == IF count > 0 /\ InBody(d, "TotalPlans") THEN Replace(d, "TotalPlans", <<count>>) ELSE d
           e == UpdateProgress(t, disk)
<1>0. /\ IsDoc(d) /\ DOMAIN d.body = IF d.bold THEN BoldFields ELSE PlainFields
      /\ ~InFront(d, "TotalPlans") /\ d.bold \in BOOLEAN
    BY DEF DocOK, IsDoc, InFront
<1>1. /\ IsDoc(t) /\ t.bold = d.bold /\ DOMAIN t.body = DOMAIN d.body
      /\ \A g \in DOMAIN d.body :
            t.body[g] = IF g = "TotalPlans" /\ count > 0 THEN <<count>> ELSE d.body[g]
    <2>1. CASE count > 0 /\ InBody(d, "TotalPlans")
        <3>1. t = Replace(d, "TotalPlans", <<count>>)
            BY <2>1
        <3> HIDE DEF t
        <3> QED
            BY <1>0, <2>1, <3>1, ReplaceIs
    <2>2. CASE ~(count > 0 /\ InBody(d, "TotalPlans"))
        <3>1. t = d
            BY <2>2
        <3> QED
            BY <1>0, <2>2, <3>1 DEF InBody
    <2> QED
        BY <2>1, <2>2
<1> HIDE DEF t
<1>2. DocOK(t)
    <2>1. /\ t.body["Status"] = d.body["Status"] /\ t.body["Phase"] = d.body["Phase"]
          /\ d.bold => /\ t.body["CurrentPlan"] = d.body["CurrentPlan"]
                       /\ t.body["TotalPlans"] = IF count > 0 THEN <<count>> ELSE d.body["TotalPlans"]
        BY <1>0, <1>1 DEF BoldFields, PlainFields
    <2> QED
        BY <1>0, <1>1, <2>1, OneNumber DEF DocOK
<1>3. /\ DocOK(e) /\ e.bold = t.bold /\ DOMAIN e.body = DOMAIN t.body
      /\ \A g \in DOMAIN t.body \ {"Progress"} : e.body[g] = t.body[g]
    BY <1>2, ProgressIs
<1>4. e = SyncFromDisk(d, disk, count)
    BY DEF SyncFromDisk, t
<1> HIDE DEF e
<1>5. d.bold => e.body["TotalPlans"] = IF count > 0 THEN <<count>> ELSE d.body["TotalPlans"]
    BY <1>0, <1>1, <1>3 DEF BoldFields
<1> QED
    BY <1>1, <1>3, <1>4, <1>5

\* phase complete, in STATE.md
LEMMA CompletePhaseIs ==
    ASSUME NEW d, NEW n \in Num, NEW to \in Num \cup {<<>>}, NEW summaries, DocOK(d)
    PROVE  LET e == CompletePhase(d, n, to, summaries)
           IN  /\ DocOK(e) /\ e.bold = d.bold
               /\ d.bold => e.body["Status"] = IF to = <<>> THEN "milestoneComplete" ELSE "readyToPlan"
<1> DEFINE value == IF to = <<>> THEN n ELSE to
           of == IF Len(d.body["Phase"]) = 2 THEN <<d.body["Phase"][2]>> ELSE <<>>
           text == IF to = <<>> THEN "milestoneComplete" ELSE "readyToPlan"
           phased == Replace(d, "Phase", <<value>> \o of)
           named == Replace(phased, "Status", text)
           planned == ReplaceOr(named, "CurrentPlan", "Plan", NotStarted)
           shut == IF ~InBody(d, "ClosedPhases") THEN planned
                   ELSE Replace(planned, "ClosedPhases", d.body["ClosedPhases"] + 1)
           percent == IF ~InBody(d, "ClosedPhases") \/ d.body["TotalPhases"] = 0 THEN shut
                      ELSE Replace(shut, "Progress",
                                   Percent(d.body["ClosedPhases"] + 1, d.body["TotalPhases"]))
           e == Measured(percent, n, summaries)
<1>0. /\ IsDoc(d) /\ d.bold \in BOOLEAN /\ DOMAIN d.body = IF d.bold THEN BoldFields ELSE PlainFields
      /\ d.bold => ~InFront(d, "Status")
    BY DEF DocOK, IsDoc, InFront
<1>1. /\ IsDoc(phased) /\ phased.bold = d.bold /\ DOMAIN phased.body = DOMAIN d.body
      /\ \A g \in DOMAIN d.body : phased.body[g] = IF g = "Phase" THEN <<value>> \o of ELSE d.body[g]
    <2>1. ~InFront(d, "Phase")
        BY DEF InFront
    <2> HIDE DEF of, value
    <2> QED
        BY <1>0, <2>1, ReplaceIs
<1> HIDE DEF phased
<1>2. /\ IsDoc(named) /\ named.bold = d.bold /\ DOMAIN named.body = DOMAIN d.body
      /\ \A g \in DOMAIN d.body \ {"Status"} : named.body[g] = phased.body[g]
      /\ d.bold => named.body["Status"] = text
      /\ named.body["Status"] \in {text, d.body["Status"]}
    <2> HIDE DEF text
    <2>1. /\ IsDoc(named) /\ named.bold = d.bold /\ DOMAIN named.body = DOMAIN d.body
          /\ \A g \in DOMAIN d.body : named.body[g] =
                IF g = "Status" /\ ~InFront(phased, "Status") THEN text ELSE phased.body[g]
        BY <1>1, ReplaceIs
    <2>2. d.bold => ~InFront(phased, "Status")
        BY <1>1 DEF InFront
    <2>3. "Status" \in DOMAIN d.body
        BY <1>0 DEF BoldFields, PlainFields
    <2> QED
        BY <1>1, <2>1, <2>2, <2>3
<1> HIDE DEF named
<1>3. /\ IsDoc(planned) /\ planned.bold = d.bold /\ DOMAIN planned.body = DOMAIN d.body
      /\ \A g \in DOMAIN d.body \ {"CurrentPlan", "Plan"} : planned.body[g] = named.body[g]
      /\ d.bold => planned.body["CurrentPlan"] = NotStarted
    <2>1. ~InFront(named, "CurrentPlan") /\ ~InFront(named, "Plan")
        BY DEF InFront
    <2>2. PICK f \in {"CurrentPlan", "Plan"} :
            /\ planned = Replace(named, f, NotStarted)
            /\ f = "CurrentPlan" <=> "CurrentPlan" \in DOMAIN d.body
        BY <1>2, <2>1 DEF ReplaceOr, Found, InBody
    <2> HIDE DEF planned
    <2>3. /\ IsDoc(planned) /\ planned.bold = d.bold /\ DOMAIN planned.body = DOMAIN d.body
          /\ \A g \in DOMAIN d.body : planned.body[g] = IF g = f THEN NotStarted ELSE named.body[g]
        BY <1>2, <2>1, <2>2, ReplaceIs
    <2>4. d.bold => f = "CurrentPlan" /\ f \in DOMAIN d.body
        BY <1>0, <2>2 DEF BoldFields
    <2> QED
        BY <2>2, <2>3, <2>4
<1> HIDE DEF planned
<1>4. /\ IsDoc(shut) /\ shut.bold = d.bold /\ DOMAIN shut.body = DOMAIN d.body
      /\ \A g \in DOMAIN d.body \ {"ClosedPhases"} : shut.body[g] = planned.body[g]
    <2>1. CASE InBody(d, "ClosedPhases")
        <3>1. PICK v : shut = Replace(planned, "ClosedPhases", v)
            BY <2>1
        <3> HIDE DEF shut
        <3> QED
            BY <1>3, <3>1, ReplaceIs
    <2>2. CASE ~InBody(d, "ClosedPhases")
        BY <1>3, <2>2
    <2> QED
        BY <2>1, <2>2
<1> HIDE DEF shut
<1>5. /\ IsDoc(percent) /\ percent.bold = d.bold /\ DOMAIN percent.body = DOMAIN d.body
      /\ \A g \in DOMAIN d.body \ {"Progress"} : percent.body[g] = shut.body[g]
    <2>1. CASE percent = shut
        <3> HIDE DEF percent
        <3> QED
            BY <1>4, <2>1
    <2>2. CASE percent # shut
        <3>1. PICK v : percent = Replace(shut, "Progress", v)
            BY <2>2
        <3> HIDE DEF percent
        <3> QED
            BY <1>4, <3>1, ReplaceIs
    <2> QED
        BY <2>1, <2>2
<1> HIDE DEF percent
<1>6. IsDoc(e) /\ e.bold = d.bold /\ e.body = percent.body
    <2>1. PICK v, r : e = [percent EXCEPT !.velocity = v, !.rows = r]
        BY DEF Measured
    <2> HIDE DEF e
    <2> QED
        BY <1>5, <2>1 DEF IsDoc
<1>7. e = CompletePhase(d, n, to, summaries)
    BY DEF CompletePhase, phased, named, planned, shut, percent
<1> HIDE DEF e
<1>8. /\ e.body["Phase"] = <<value>> \o of
      /\ e.body["Status"] \in {text, d.body["Status"]} /\ (d.bold => e.body["Status"] = text)
      /\ d.bold => e.body["CurrentPlan"] = <<>> /\ e.body["TotalPlans"] = d.body["TotalPlans"]
    <2>1. {"Status", "Phase"} \subseteq DOMAIN d.body
          /\ (d.bold => {"CurrentPlan", "TotalPlans"} \subseteq DOMAIN d.body)
        BY <1>0 DEF BoldFields, PlainFields
    <2>2. \A g \in DOMAIN d.body \ {"Progress", "ClosedPhases"} : e.body[g] = planned.body[g]
        BY <1>4, <1>5, <1>6
    <2>3. \A g \in {"Phase", "Status"} : e.body[g] = named.body[g]
        BY <1>3, <2>1, <2>2
    <2>4. e.body["Phase"] = <<value>> \o of
        <3> DEFINE w == <<value>> \o of
        <3>1. phased.body["Phase"] = w
            BY <1>1, <2>1
        <3> HIDE DEF w
        <3> QED
            BY <1>2, <2>1, <2>3, <3>1 DEF w
    <2>5. e.body["Status"] \in {text, d.body["Status"]} /\ (d.bold => e.body["Status"] = text)
        <3> HIDE DEF text
        <3> QED
            BY <1>2, <2>3
    <2>6. d.bold => e.body["CurrentPlan"] = <<>> /\ e.body["TotalPlans"] = d.body["TotalPlans"]
        BY <1>1, <1>2, <1>3, <2>1, <2>2 DEF NotStarted
    <2> QED
        BY <2>4, <2>5, <2>6
<1>9. /\ <<value>> \o of \in Seq(Num \cup Int) /\ Len(<<value>> \o of) \in 1 .. 2
      /\ (<<value>> \o of)[1] \in Num
      /\ Len(<<value>> \o of) = 2 => (<<value>> \o of)[2] \in Int
    <2> DEFINE v == <<value>>
    <2>1. v \in Seq(Num \cup Int) /\ Len(v) = 1 /\ v[1] \in Num
        OBVIOUS
    <2>2. of \in Seq(Num \cup Int) /\ Len(of) \in 0 .. 1 /\ (Len(of) = 1 => of[1] \in Int)
        <3>1. CASE Len(d.body["Phase"]) = 2
            <4>1. d.body["Phase"][2] \in Int
                BY <3>1 DEF DocOK
            <4> QED
                BY <3>1, <4>1
        <3>2. CASE Len(d.body["Phase"]) # 2
            BY <3>2
        <3> QED
            BY <3>1, <3>2
    <2> HIDE DEF v, of
    <2>3. /\ v \o of \in Seq(Num \cup Int) /\ Len(v \o of) = Len(v) + Len(of)
          /\ \A i \in 1 .. Len(v) + Len(of) : (v \o of)[i] = IF i <= Len(v) THEN v[i] ELSE of[i - Len(v)]
        BY <2>1, <2>2, ConcatProperties
    <2>4. (v \o of)[1] = v[1] /\ (Len(of) = 1 => (v \o of)[2] = of[1])
        BY <2>1, <2>2, <2>3
    <2> QED
        BY <2>1, <2>2, <2>3, <2>4 DEF v
<1>10. DocOK(e)
    <2>1. text \in DOMAIN StatusWord /\ <<>> \in Seq(Nat)
        BY StatusWords
    <2> DEFINE w == <<value>> \o of
    <2>2. e.body["Phase"] = w /\ w \in Seq(Num \cup Int) /\ Len(w) \in 1 .. 2 /\ w[1] \in Num
          /\ (Len(w) = 2 => w[2] \in Int)
        BY <1>8, <1>9
    <2> HIDE DEF w, value, of, text
    <2> QED
        BY <1>6, <1>5, <1>8, <2>1, <2>2 DEF DocOK
<1> QED
    BY <1>5, <1>6, <1>7, <1>8, <1>10

\* phase remove, in STATE.md
LEMMA RemoveIs ==
    ASSUME NEW d, DocOK(d)
    PROVE  LET e == RemovePhase(d)
           IN  /\ DocOK(e) /\ e.bold = d.bold /\ DOMAIN e.body = DOMAIN d.body
               /\ \A g \in DOMAIN d.body \ {"Phase", "TotalPhases"} : e.body[g] = d.body[g]
               /\ e.body["Phase"][1] = d.body["Phase"][1]
<1> DEFINE fewer == IF InBody(d, "TotalPhases")
                    THEN Replace(d, "TotalPhases", d.body["TotalPhases"] - 1) ELSE d
           phase == d.body["Phase"]
           e == RemovePhase(d)
<1>0. /\ IsDoc(d) /\ d.bold \in BOOLEAN /\ DOMAIN d.body = IF d.bold THEN BoldFields ELSE PlainFields
      /\ "Phase" \in DOMAIN d.body /\ "Status" \in DOMAIN d.body
      /\ d.bold => {"CurrentPlan", "TotalPlans"} \subseteq DOMAIN d.body
    BY DEF DocOK, IsDoc, BoldFields, PlainFields
<1>1. /\ IsDoc(fewer) /\ fewer.bold = d.bold /\ DOMAIN fewer.body = DOMAIN d.body
      /\ \A g \in DOMAIN d.body \ {"TotalPhases"} : fewer.body[g] = d.body[g]
    <2>1. CASE InBody(d, "TotalPhases")
        <3>1. PICK v : fewer = Replace(d, "TotalPhases", v)
            BY <2>1
        <3> HIDE DEF fewer
        <3> QED
            BY <1>0, <3>1, ReplaceIs
    <2>2. CASE ~InBody(d, "TotalPhases")
        BY <1>0, <2>2
    <2> QED
        BY <2>1, <2>2
<1>2. e = IF Len(phase) = 2 THEN [fewer EXCEPT !.body["Phase"][2] = @ - 1] ELSE fewer
    BY DEF RemovePhase
<1> HIDE DEF fewer, e
<1>3. CASE Len(phase) = 2
    <2> DEFINE less == [phase EXCEPT ![2] = @ - 1]
    <2>1. fewer.body["Phase"] = phase
        BY <1>0, <1>1
    <2>2. e = WithBody(fewer, "Phase", less)
        BY <1>0, <1>1, <1>2, <1>3, <2>1 DEF WithBody
    <2> HIDE DEF less
    <2>3. Edited(fewer, e, {"Phase"}) /\ e.body["Phase"] = less
        BY <1>0, <1>1, <2>2, BodyEdited
    <2>4. /\ IsDoc(e) /\ e.bold = d.bold /\ DOMAIN e.body = DOMAIN d.body
          /\ \A g \in DOMAIN d.body \ {"Phase", "TotalPhases"} : e.body[g] = d.body[g]
        BY <1>0, <1>1, <2>3 DEF Edited, SameLists, IsDoc
    <2>5. less \in Seq(Num \cup Int) /\ Len(less) = 2 /\ less[1] = phase[1] /\ less[2] \in Int
        <3>1. phase[2] - 1 \in Int
            BY <1>3 DEF DocOK
        <3> QED
            BY <1>3, <3>1 DEF DocOK, less
    <2>6. DocOK(e)
        <3>1. /\ e.body["Status"] = d.body["Status"]
              /\ d.bold => /\ e.body["CurrentPlan"] = d.body["CurrentPlan"]
                           /\ e.body["TotalPlans"] = d.body["TotalPlans"]
            BY <1>0, <2>4
        <3>2. less[1] \in Num
            BY <2>5 DEF DocOK
        <3> QED
            BY <2>3, <2>4, <2>5, <3>1, <3>2 DEF DocOK
    <2> QED
        BY <2>3, <2>4, <2>5, <2>6 DEF e
<1>4. CASE Len(phase) # 2
    <2>1. e = fewer
        BY <1>2, <1>4
    <2>2. DocOK(e)
        BY <1>0, <1>1, <2>1 DEF DocOK
    <2> QED
        BY <1>0, <1>1, <2>1, <2>2 DEF e
<1> QED
    BY <1>3, <1>4

\* milestone complete, in STATE.md
LEMMA MilestoneIs ==
    ASSUME NEW d, DocOK(d)
    PROVE  LET e == Replace(d, "Status", "milestoneComplete")
           IN  DocOK(e) /\ e.bold = d.bold /\ (d.bold => e.body["Status"] = "milestoneComplete")
<1> DEFINE e == Replace(d, "Status", "milestoneComplete")
<1>0. /\ IsDoc(d) /\ DOMAIN d.body = IF d.bold THEN BoldFields ELSE PlainFields
      /\ d.bold => ~InFront(d, "Status")
      /\ "Phase" \in DOMAIN d.body /\ "Status" \in DOMAIN d.body
      /\ d.bold => {"CurrentPlan", "TotalPlans"} \subseteq DOMAIN d.body
    BY DEF DocOK, IsDoc, InFront, BoldFields, PlainFields
<1>1. /\ IsDoc(e) /\ e.bold = d.bold /\ DOMAIN e.body = DOMAIN d.body
      /\ \A g \in DOMAIN d.body : e.body[g] =
            IF g = "Status" /\ ~InFront(d, "Status") THEN "milestoneComplete" ELSE d.body[g]
    BY <1>0, ReplaceIs
<1> HIDE DEF e
<1>2. /\ e.body["Status"] \in {"milestoneComplete", d.body["Status"]}
      /\ d.bold => e.body["Status"] = "milestoneComplete"
      /\ e.body["Phase"] = d.body["Phase"]
      /\ d.bold => /\ e.body["CurrentPlan"] = d.body["CurrentPlan"]
                   /\ e.body["TotalPlans"] = d.body["TotalPlans"]
    BY <1>0, <1>1
<1>3. DocOK(e)
    BY <1>1, <1>2, StatusWords DEF DocOK
<1> QED
    BY <1>1, <1>2, <1>3 DEF e

\* A new STATE.md.
LEMMA NewDocIs ==
    ASSUME NEW bold \in BOOLEAN, NEW phases \in Nat
    PROVE  LET e == NewDoc(bold, phases)
           IN  /\ DocOK(e) /\ e.bold = bold /\ e.front = NoFront /\ e.body["Status"] = "readyToPlan"
<1> DEFINE e == NewDoc(bold, phases)
<1>1. e.bold = bold /\ e.front = NoFront
    BY DEF NewDoc
<1>2. DOMAIN e.body = IF bold THEN BoldFields ELSE PlainFields
    BY DEF NewDoc
<1>3. /\ IsDoc(e)
    BY <1>1, <1>2 DEF NewDoc, IsDoc
<1>4. bold => /\ e.body["Status"] = "readyToPlan" /\ e.body["Phase"] = << <<1>> >>
              /\ e.body["CurrentPlan"] = <<>> /\ e.body["TotalPlans"] = <<>>
    BY DEF NewDoc, BoldFields, NotStarted
<1>5. ~bold => e.body["Status"] = "readyToPlan" /\ e.body["Phase"] = << <<1>>, phases >>
    BY DEF NewDoc, PlainFields
<1>6. <<1>> \in Num
    BY DEF Num
<1> HIDE DEF e
<1>7. DocOK(e)
    <2>1. CASE bold
        <3> DEFINE w == << <<1>> >>
        <3>1. w \in Seq(Num \cup Int) /\ Len(w) = 1 /\ w[1] \in Num /\ <<>> \in Seq(Nat)
            BY <1>6
        <3>2. e.body["Phase"] = w
            BY <1>4, <2>1
        <3> HIDE DEF w
        <3> QED
            <4>1. e.bold \in BOOLEAN /\ e.body["CurrentPlan"] \in Seq(Nat) /\ e.body["TotalPlans"] \in Seq(Nat)
                BY <1>1, <1>4, <2>1, <3>1
            <4>2. e.body["Status"] \in DOMAIN StatusWord /\ Len(w) # 2
                BY <1>4, <2>1, <3>1, StatusWords
            <4>3. e.body["Phase"] \in Seq(Num \cup Int) /\ Len(e.body["Phase"]) = 1 /\ e.body["Phase"][1] \in Num
                BY <3>1, <3>2
            <4> HIDE DEF w
            <4> QED
                BY <1>3, <4>1, <4>2, <4>3 DEF DocOK
    <2>2. CASE ~bold
        <3> DEFINE w == << <<1>>, phases >>
        <3>1. w \in Seq(Num \cup Int) /\ Len(w) = 2 /\ w[1] \in Num /\ w[2] \in Int
            BY <1>6
        <3>2. e.body["Phase"] = w
            BY <1>5, <2>2
        <3> HIDE DEF w
        <3> QED
            BY <1>1, <1>3, <1>5, <2>2, <3>1, <3>2, StatusWords DEF DocOK
    <2> QED
        BY <2>1, <2>2
<1> QED
    BY <1>1, <1>4, <1>5, <1>7 DEF e

-----------------------------------------------------------------------------
(* The commands on the roadmap and the directories.                        *)

LEMMA Typed ==
    ASSUME NEW num \in Num, NEW title \in Nat
    PROVE  /\ \A padded \in BOOLEAN : Heading(num, padded, title) \in HeadingRecs
           /\ Dir(num, title) \in DirRecs
BY DEF Heading, Dir, HeadingRecs, DirRecs

\* The headings of a roadmap.
LEMMA HeadingsTyped ==
    ASSUME NEW r \in Seq(HeadingRecs)
    PROVE  /\ \A h \in Headings(r) : h \in HeadingRecs /\ \E i \in DOMAIN r : h = r[i]
           /\ \A i \in DOMAIN r : r[i] \in Headings(r)
<1>1. \A i \in DOMAIN r : r[i] \in HeadingRecs
    OBVIOUS
<1> QED
    BY <1>1 DEF Headings, ToSet

\* The number of phase add is above every integer in use.
LEMMA NextNumberIs ==
    ASSUME NEW r \in Seq(HeadingRecs), NEW set \in SUBSET DirRecs
    PROVE  LET n == NextNumber(r, set)
           IN  /\ n \in 1 .. Backlog
               /\ \A h \in Headings(r) : h.num[1] < Backlog => h.num[1] < n
               /\ \A d \in set : Len(d.num) = 1 /\ d.num[1] < Backlog => d.num[1] < n
               /\ n = 1 \/ (\E h \in Headings(r) : h.num[1] = n - 1) \/ (\E d \in set : d.num[1] = n - 1)
<1> DEFINE ints == {h.num[1] : h \in Headings(r)}
                   \cup {d.num[1] : d \in {e \in set : Len(e.num) = 1}}
           used == {0} \cup {n \in ints : n < Backlog}
<1>1. ints \subseteq Nat
    <2>1. \A h \in Headings(r) : h.num \in Num
        BY HeadingsTyped DEF HeadingRecs
    <2>2. \A d \in set : d.num \in Num
        BY DEF DirRecs
    <2> QED
        BY <2>1, <2>2, NumParts
<1>2. used \in SUBSET Nat /\ used # {} /\ \A n \in used : n <= 998
    BY <1>1 DEF Backlog
<1> DEFINE m == MaxOf(used)
<1>3. NextNumber(r, set) = 1 + m
    BY DEF NextNumber
<1>4. m \in used /\ \A n \in used : n <= m
    <2> DEFINE top == 998
    <2>1. top \in Nat /\ \A n \in used : n <= top
        BY <1>2
    <2>2. used \in SUBSET Nat /\ used # {}
        BY <1>2
    <2> HIDE DEF used, top, ints
    <2> QED
        BY <2>1, <2>2, MaxOfIs
<1> HIDE DEF m
<1>5. m \in Nat /\ m <= 998 /\ (m = 0 \/ m \in ints)
    <2>1. m \in used /\ \A n \in used : n \in Nat /\ n <= 998
        BY <1>2, <1>4
    <2>2. \A n \in used : n = 0 \/ n \in ints
        OBVIOUS
    <2> HIDE DEF used, ints
    <2> QED
        BY <2>1, <2>2
<1>6. \A n \in ints : n < Backlog => n < 1 + m
    <2> SUFFICES ASSUME NEW n \in ints, n < Backlog PROVE n < 1 + m
        OBVIOUS
    <2>1. n \in used /\ n \in Nat
        BY <1>1
    <2>2. n <= m
        BY <1>4, <2>1
    <2> QED
        BY <1>5, <2>1, <2>2
<1> HIDE DEF used
<1>7. 1 + m \in 1 .. Backlog /\ (1 + m) - 1 = m
    BY <1>5 DEF Backlog
<1> QED
    BY <1>3, <1>5, <1>6, <1>7

LEMMA FirstPart ==
    ASSUME NEW p \in Num
    PROVE  SubSeq(p, 1, 1) = <<p[1]>>
<1>1. p \in Seq(Nat) /\ Len(p) \in 1 .. 2 /\ p[1] \in Nat
    <2>1. \A n \in Nat, k \in Nat : <<n>> \in Seq(Nat) /\ <<n, k>> \in Seq(Nat)
        OBVIOUS
    <2>2. \A n \in Nat \ {0}, k \in Nat \ {0} : <<n>> \in Seq(Nat) /\ <<n, k>> \in Seq(Nat)
        BY <2>1
    <2>3. (\E n \in Nat \ {0} : p = <<n>>) \/ (\E n \in Nat \ {0}, k \in Nat \ {0} : p = <<n, k>>)
        BY DEF Num
    <2>4. p \in Seq(Nat)
        BY <2>2, <2>3
    <2> QED
        BY <2>4, NumParts
<1> DEFINE q == <<p[1]>>
           u == SubSeq(p, 1, 1)
<1>2. q \in Seq(Nat) /\ Len(q) = 1 /\ q[1] = p[1]
    BY <1>1
<1>3. u \in Seq(Nat) /\ Len(u) = 1 /\ u[1] = p[1]
    <2>1. \A i \in 1 .. 1 : p[i] \in Nat
        BY <1>1
    <2> QED
        BY <2>1, SubSeqProperties
<1> HIDE DEF q, u
<1>4. \A i \in 1 .. Len(u) : u[i] = q[i]
    BY <1>2, <1>3
<1>5. u = q
    BY <1>2, <1>3, <1>4, SeqEqual
<1> QED
    BY <1>5 DEF q, u

\* A phase number under an integer is one of its decimals.
LEMMA UnderIs ==
    ASSUME NEW p \in Num, NEW base \in Num
    PROVE  Under(p, base) <=> Len(p) = 2 /\ Len(base) = 1 /\ p[1] = base[1]
<1>1. Len(p) \in 1 .. 2 /\ Len(base) \in 1 .. 2 /\ SubSeq(p, 1, 1) = <<p[1]>>
    BY NumParts, FirstPart
<1>2. CASE Len(base) = 1
    <2>1. PICK b : base = <<b>>
        BY <1>2, NumParts
    <2>2. Under(p, base) <=> Len(p) > 1 /\ <<p[1]>> = <<b>>
        BY <1>1, <1>2, <2>1 DEF Under
    <2>3. base[1] = b /\ (<<p[1]>> = <<b>> <=> p[1] = b)
        BY <2>1
    <2> QED
        BY <1>1, <1>2, <2>2, <2>3
<1>3. CASE Len(base) = 2
    <2>1. ~(Len(p) > Len(base))
        BY <1>1, <1>3
    <2>2. ~Under(p, base)
        BY <2>1 DEF Under
    <2> QED
        BY <1>3, <2>2
<1> QED
    BY <1>1, <1>2, <1>3

\* The decimal of phase insert is in use by no directory and no padded heading.
LEMMA NextDecimalIs ==
    ASSUME NEW r \in Seq(HeadingRecs), NEW set \in SUBSET DirRecs, NEW base \in Num, Len(base) = 1,
           NEW top \in Nat, \A h \in Headings(r) : Below(h.num, top), \A d \in set : Below(d.num, top)
    PROVE  LET next == NextDecimal(r, set, base)
           IN  /\ next \in Num /\ Len(next) = 2 /\ next[1] = base[1] /\ next[2] <= top + 1
               /\ next \notin Numbers(set)
               /\ \A h \in Headings(r) : h.num = next => ~h.padded
<1> DEFINE used == {0} \cup Decimals(r, set, base)
           next == NextDecimal(r, set, base)
<1>1. \A h \in Headings(r) : h.num \in Num /\ h.padded \in BOOLEAN
    BY HeadingsTyped DEF HeadingRecs
<1>2. \A d \in set : d.num \in Num
    BY DEF DirRecs
<1>3. \A p \in Num : Under(p, base) => p[2] \in Nat /\ 2 \in DOMAIN p
    BY UnderIs, NumParts
<1>4. Decimals(r, set, base) =
          {d.num[2] : d \in {e \in set : Under(e.num, base)}}
          \cup {h.num[2] : h \in {g \in Headings(r) : g.padded /\ Under(g.num, base) /\ Len(g.num) = 2}}
    BY DEF Decimals
<1>5. used \in SUBSET Nat /\ used # {} /\ \A n \in used : n <= top
    BY <1>1, <1>2, <1>3, <1>4 DEF Below
<1>6. MaxOf(used) \in used /\ \A n \in used : n <= MaxOf(used)
    <2> HIDE DEF used
    <2> QED
        BY <1>5, MaxOfIs
<1>7. next = Append(base, 1 + MaxOf(used))
    BY DEF NextDecimal
<1>8. base = <<base[1]>> /\ base[1] \in Nat \ {0}
    BY NumParts
<1>9. next = <<base[1], 1 + MaxOf(used)>>
    <2>1. PICK b \in Nat : base = <<b>>
        BY <1>8
    <2>2. base[1] = b
        BY <2>1
    <2>3. \A v \in Nat : Append(<<b>>, v) = <<b, v>>
        BY AppendedNumber
    <2>4. 1 + MaxOf(used) \in Nat
        BY <1>5, <1>6
    <2> HIDE DEF next, used
    <2> QED
        BY <1>7, <2>1, <2>2, <2>3, <2>4
<1>10. MaxOf(used) \in Nat /\ MaxOf(used) <= top /\ 1 + MaxOf(used) \notin used
    <2>1. MaxOf(used) \in Nat /\ MaxOf(used) <= top
        BY <1>5, <1>6
    <2>2. 1 + MaxOf(used) \notin used
        <3>1. 1 + MaxOf(used) \in used => 1 + MaxOf(used) <= MaxOf(used)
            BY <1>6
        <3> QED
            BY <2>1, <3>1
    <2> QED
        BY <2>1, <2>2
<1>11. /\ next \in Num /\ Len(next) = 2 /\ next[1] = base[1] /\ next[2] = 1 + MaxOf(used)
    BY <1>8, <1>9, <1>10 DEF Num
<1> HIDE DEF next
<1>12. Under(next, base)
    BY <1>11, UnderIs
<1>13. next \notin Numbers(set)
    BY <1>4, <1>10, <1>11, <1>12 DEF Numbers
<1>14. \A h \in Headings(r) : h.num = next => ~h.padded
    BY <1>4, <1>10, <1>11, <1>12
<1> HIDE DEF used
<1> QED
    BY <1>10, <1>11, <1>13, <1>14 DEF next

\* Bounds only grow.
LEMMA BelowMore ==
    ASSUME NEW p \in Num, NEW top \in Nat, NEW more \in Nat, top <= more, Below(p, top)
    PROVE  Below(p, more)
<1>1. \A i \in DOMAIN p : p[i] \in Nat
    <2>1. DOMAIN p = 1 .. Len(p) /\ Len(p) \in 1 .. 2 /\ p[1] \in Nat /\ (Len(p) = 2 => p[2] \in Nat)
        BY NumParts
    <2> QED
        BY <2>1
<1> QED
    BY <1>1 DEF Below

\* A number below a bound, by its parts.
LEMMA BelowIs ==
    ASSUME NEW p \in Num, NEW top \in Nat
    PROVE  Below(p, top) <=> p[1] <= top /\ (Len(p) = 2 => p[2] <= top)
<1>1. DOMAIN p = 1 .. Len(p) /\ Len(p) \in 1 .. 2
    BY NumParts
<1>2. CASE Len(p) = 1
    BY <1>1, <1>2 DEF Below
<1>3. CASE Len(p) = 2
    <2>1. DOMAIN p = {1, 2}
        BY <1>1, <1>3
    <2> QED
        BY <1>3, <2>1 DEF Below
<1> QED
    BY <1>1, <1>2, <1>3

\* phase add, in ROADMAP.md
LEMMA AddedOK ==
    ASSUME NEW r, NEW top \in Nat, RoadOK(r, top),
           NEW h \in HeadingRecs, Below(h.num, top + 1), h.title = top + 1
    PROVE  RoadOK(Append(r, h), top + 1)
<1> DEFINE s == Append(r, h)
<1>1. r \in Seq(HeadingRecs) /\ Len(r) \in Nat /\ DOMAIN r = 1 .. Len(r)
    BY DEF RoadOK
<1>2. /\ s \in Seq(HeadingRecs) /\ Len(s) = Len(r) + 1 /\ DOMAIN s = 1 .. Len(r) + 1
      /\ \A i \in 1 .. Len(r) : s[i] = r[i]
      /\ s[Len(r) + 1] = h
    BY <1>1, AppendProperties
<1> HIDE DEF s
<1>3. \A i \in DOMAIN r : /\ Below(r[i].num, top + 1) /\ r[i].title < top + 1
                          /\ r[i].title \in Nat
    <2> SUFFICES ASSUME NEW i \in DOMAIN r
                 PROVE  Below(r[i].num, top + 1) /\ r[i].title < top + 1 /\ r[i].title \in Nat
        OBVIOUS
    <2>1. r[i] \in HeadingRecs
        BY <1>1
    <2>2. r[i].num \in Num /\ r[i].title \in Nat /\ Below(r[i].num, top) /\ r[i].title <= top
        BY <2>1 DEF RoadOK, HeadingRecs
    <2> QED
        BY <2>2, BelowMore
<1>4. \A i \in DOMAIN s : Below(s[i].num, top + 1) /\ s[i].title <= top + 1
    BY <1>1, <1>2, <1>3
<1>5. \A i, j \in DOMAIN s : s[i].title = s[j].title => i = j
    BY <1>1, <1>2, <1>3 DEF RoadOK
<1> QED
    BY <1>2, <1>4, <1>5 DEF RoadOK, s

\* phase insert, in ROADMAP.md
LEMMA InsertedOK ==
    ASSUME NEW r, NEW top \in Nat, RoadOK(r, top), NEW k \in 1 .. Len(r) + 1,
           NEW h \in HeadingRecs, Below(h.num, top + 1), h.title = top + 1
    PROVE  RoadOK(InsertAt(r, k, h), top + 1)
<1> DEFINE a == SubSeq(r, 1, k - 1)
           b == SubSeq(r, k, Len(r))
           c == <<h>>
           u == a \o c
           s == u \o b
<1>1. r \in Seq(HeadingRecs) /\ Len(r) \in Nat /\ DOMAIN r = 1 .. Len(r) /\ k \in Int
    BY DEF RoadOK
<1>2. a \in Seq(HeadingRecs) /\ Len(a) = k - 1 /\ \A i \in 1 .. k - 1 : a[i] = r[i]
    <2>1. \A i \in 1 .. k - 1 : r[i] \in HeadingRecs
        BY <1>1
    <2>2. /\ a \in Seq(HeadingRecs) /\ Len(a) = IF 1 <= k - 1 THEN (k - 1) - 1 + 1 ELSE 0
          /\ \A i \in 1 .. (k - 1) - 1 + 1 : a[i] = r[1 + i - 1]
        BY <1>1, <2>1, SubSeqProperties
    <2> HIDE DEF a
    <2> QED
        BY <1>1, <2>2
<1>3. /\ b \in Seq(HeadingRecs) /\ Len(b) = Len(r) - k + 1
      /\ \A i \in 1 .. Len(r) - k + 1 : b[i] = r[k + i - 1]
    <2>1. \A i \in k .. Len(r) : r[i] \in HeadingRecs
        BY <1>1
    <2>2. /\ b \in Seq(HeadingRecs) /\ Len(b) = IF k <= Len(r) THEN Len(r) - k + 1 ELSE 0
          /\ \A i \in 1 .. Len(r) - k + 1 : b[i] = r[k + i - 1]
        BY <1>1, <2>1, SubSeqProperties
    <2> HIDE DEF b
    <2> QED
        BY <1>1, <2>2
<1>4. c \in Seq(HeadingRecs) /\ Len(c) = 1 /\ c[1] = h
    OBVIOUS
<1>5. s = InsertAt(r, k, h)
    BY DEF InsertAt
<1> HIDE DEF a, b, c
<1>6. /\ u \in Seq(HeadingRecs) /\ Len(u) = k
      /\ \A i \in 1 .. k : u[i] = IF i <= k - 1 THEN r[i] ELSE h
    <2>1. /\ u \in Seq(HeadingRecs) /\ Len(u) = Len(a) + Len(c)
          /\ \A i \in 1 .. Len(a) + Len(c) : u[i] = IF i <= Len(a) THEN a[i] ELSE c[i - Len(a)]
        BY <1>2, <1>4, ConcatProperties
    <2> HIDE DEF u
    <2> QED
        BY <1>1, <1>2, <1>4, <2>1
<1> HIDE DEF u
<1>7. /\ s \in Seq(HeadingRecs) /\ Len(s) = Len(r) + 1 /\ DOMAIN s = 1 .. Len(r) + 1
      /\ \A i \in 1 .. Len(r) + 1 :
            s[i] = IF i < k THEN r[i] ELSE IF i = k THEN h ELSE r[i - 1]
    <2>1. /\ s \in Seq(HeadingRecs) /\ Len(s) = Len(u) + Len(b)
          /\ \A i \in 1 .. Len(u) + Len(b) : s[i] = IF i <= Len(u) THEN u[i] ELSE b[i - Len(u)]
        BY <1>3, <1>6, ConcatProperties
    <2> HIDE DEF s
    <2>2. Len(s) = Len(r) + 1 /\ DOMAIN s = 1 .. Len(r) + 1
        BY <1>1, <1>3, <1>6, <2>1
    <2>3. ASSUME NEW i \in 1 .. Len(r) + 1, i <= k
          PROVE  s[i] = IF i < k THEN r[i] ELSE h
        BY <1>1, <1>3, <1>6, <2>1, <2>3
    <2>4. ASSUME NEW i \in 1 .. Len(r) + 1, ~(i <= k)
          PROVE  s[i] = r[i - 1]
        <3>1. s[i] = b[i - k] /\ i - k \in 1 .. Len(r) - k + 1
            BY <1>1, <1>3, <1>6, <2>1, <2>4
        <3>2. b[i - k] = r[k + (i - k) - 1]
            BY <1>3, <3>1
        <3>3. k + (i - k) - 1 = i - 1
            BY <1>1
        <3> QED
            BY <3>1, <3>2, <3>3
    <2> QED
        BY <1>1, <2>1, <2>2, <2>3, <2>4
<1> HIDE DEF s
<1>8. \A i \in DOMAIN r : /\ Below(r[i].num, top + 1) /\ r[i].title < top + 1
                          /\ r[i].title \in Nat
    <2> SUFFICES ASSUME NEW i \in DOMAIN r
                 PROVE  Below(r[i].num, top + 1) /\ r[i].title < top + 1 /\ r[i].title \in Nat
        OBVIOUS
    <2>1. r[i] \in HeadingRecs
        BY <1>1
    <2>2. r[i].num \in Num /\ r[i].title \in Nat /\ Below(r[i].num, top) /\ r[i].title <= top
        BY <2>1 DEF RoadOK, HeadingRecs
    <2> QED
        BY <2>2, BelowMore
<1>9. \A i \in DOMAIN s : Below(s[i].num, top + 1) /\ s[i].title <= top + 1
    <2> SUFFICES ASSUME NEW i \in DOMAIN s PROVE Below(s[i].num, top + 1) /\ s[i].title <= top + 1
        OBVIOUS
    <2>1. s[i] = h \/ (\E j \in DOMAIN r : s[i] = r[j])
        <3>1. i < k => i \in DOMAIN r /\ s[i] = r[i]
            BY <1>1, <1>7
        <3>2. i = k => s[i] = h
            BY <1>1, <1>7
        <3>3. i > k => i - 1 \in DOMAIN r /\ s[i] = r[i - 1]
            BY <1>1, <1>7
        <3>4. i < k \/ i = k \/ i > k
            BY <1>1, <1>7
        <3> QED
            BY <3>1, <3>2, <3>3, <3>4
    <2> QED
        BY <1>8, <2>1
<1>10. ASSUME NEW i \in DOMAIN s, NEW j \in DOMAIN s, s[i].title = s[j].title PROVE i = j
    <2> DEFINE from(x) == IF x < k THEN x ELSE x - 1
    <2>1. \A x \in DOMAIN s : x # k => from(x) \in DOMAIN r /\ s[x] = r[from(x)]
        BY <1>1, <1>7
    <2>2. (i = k) <=> (j = k)
        <3>1. \A x \in DOMAIN s : x # k => s[x].title # h.title
            BY <1>8, <2>1
        <3>2. s[k] = h /\ k \in DOMAIN s
            BY <1>1, <1>7
        <3> QED
            BY <1>10, <3>1, <3>2
    <2>3. CASE i # k
        <3>1. from(i) = from(j)
            <4> HIDE DEF from
            <4> QED
                BY <1>10, <2>1, <2>2, <2>3 DEF RoadOK
        <3> QED
            BY <1>1, <1>7, <2>2, <2>3, <3>1
    <2> QED
        BY <2>2, <2>3
<1> QED
    BY <1>5, <1>7, <1>9, <1>10 DEF RoadOK

\* phase remove, in ROADMAP.md
LEMMA RemovedOK ==
    ASSUME NEW r, NEW top \in Nat, RoadOK(r, top), NEW num \in Num, NEW padded
    PROVE  RoadOK(RemovedHeading(r, num, padded), top)
<1> DEFINE k == Spelled(r, num, padded)
           s == RemoveAt(r, k)
           rest == IF k = 0 THEN r ELSE s
<1>1. /\ r \in Seq(HeadingRecs) /\ Len(r) \in Nat /\ DOMAIN r = 1 .. Len(r)
      /\ k \in {0} \cup DOMAIN r
    BY SpelledIs DEF RoadOK
<1> HIDE DEF k
<1>2. ASSUME k # 0 PROVE RoadOK(s, top)
    <2> DEFINE a == SubSeq(r, 1, k - 1)
               b == SubSeq(r, k + 1, Len(r))
    <2>0. k \in 1 .. Len(r)
        BY <1>1, <1>2
    <2>1. a \in Seq(HeadingRecs) /\ Len(a) = k - 1 /\ \A i \in 1 .. k - 1 : a[i] = r[i]
        <3>1. \A i \in 1 .. k - 1 : r[i] \in HeadingRecs
            BY <1>1, <2>0
        <3>2. /\ a \in Seq(HeadingRecs) /\ Len(a) = IF 1 <= k - 1 THEN (k - 1) - 1 + 1 ELSE 0
              /\ \A i \in 1 .. (k - 1) - 1 + 1 : a[i] = r[1 + i - 1]
            BY <2>0, <3>1, SubSeqProperties
        <3> HIDE DEF a
        <3> QED
            BY <1>1, <2>0, <3>2
    <2>2. /\ b \in Seq(HeadingRecs) /\ Len(b) = Len(r) - k
          /\ \A i \in 1 .. Len(r) - k : b[i] = r[k + i]
        <3>1. \A i \in k + 1 .. Len(r) : r[i] \in HeadingRecs
            BY <1>1, <2>0
        <3>2. /\ b \in Seq(HeadingRecs) /\ Len(b) = IF k + 1 <= Len(r) THEN Len(r) - (k + 1) + 1 ELSE 0
              /\ \A i \in 1 .. Len(r) - (k + 1) + 1 : b[i] = r[(k + 1) + i - 1]
            BY <1>1, <2>0, <3>1, SubSeqProperties
        <3> HIDE DEF b
        <3>3. Len(b) = Len(r) - k
            <4>1. k \in Int /\ Len(r) \in Int /\ k <= Len(r)
                BY <1>1, <2>0
            <4>2. (k + 1 <= Len(r) => Len(b) = Len(r) - (k + 1) + 1) /\ (~(k + 1 <= Len(r)) => Len(b) = 0)
                BY <3>2
            <4> QED
                BY <4>1, <4>2
        <3>4. ASSUME NEW i \in 1 .. Len(r) - k PROVE b[i] = r[k + i]
            <4>1. i \in 1 .. Len(r) - (k + 1) + 1 /\ (k + 1) + i - 1 = k + i
                BY <1>1, <2>0
            <4> QED
                BY <3>2, <4>1
        <3> QED
            BY <3>2, <3>3, <3>4
    <2>3. s = a \o b
        BY DEF RemoveAt
    <2> HIDE DEF a, b, s
    <2>4. /\ s \in Seq(HeadingRecs) /\ Len(s) = Len(a) + Len(b)
          /\ \A i \in 1 .. Len(a) + Len(b) : s[i] = IF i <= Len(a) THEN a[i] ELSE b[i - Len(a)]
        BY <2>1, <2>2, <2>3, ConcatProperties
    <2>5. DOMAIN s = 1 .. Len(r) - 1
        BY <1>1, <2>0, <2>1, <2>2, <2>4
    <2> DEFINE from(i) == IF i < k THEN i ELSE i + 1
    <2>6. ASSUME NEW i \in DOMAIN s PROVE from(i) \in DOMAIN r /\ s[i] = r[from(i)]
        <3>1. i \in 1 .. Len(r) - 1 /\ from(i) \in DOMAIN r
            BY <1>1, <2>0, <2>5
        <3>2. CASE i < k
            <4>1. i \in 1 .. k - 1 /\ i \in 1 .. Len(a) + Len(b) /\ i <= Len(a)
                BY <1>1, <2>0, <2>1, <2>2, <3>1, <3>2
            <4>2. s[i] = r[i] /\ from(i) = i
                BY <2>1, <2>4, <3>2, <4>1
            <4> QED
                BY <3>1, <4>2
        <3>3. CASE ~(i < k)
            <4>0. i \in 1 .. Len(a) + Len(b) /\ ~(i <= Len(a)) /\ Len(a) = k - 1
                BY <1>1, <2>0, <2>1, <2>2, <3>1, <3>3
            <4>1. s[i] = b[i - (k - 1)]
                <5>1. s[i] = b[i - Len(a)]
                    BY <2>4, <4>0, Zenon
                <5> QED
                    BY <4>0, <5>1, Zenon
            <4>2. i - (k - 1) \in 1 .. Len(r) - k /\ k + (i - (k - 1)) = i + 1
                BY <1>1, <2>0, <3>1, <3>3
            <4>3. b[i - (k - 1)] = r[k + (i - (k - 1))]
                BY <2>2, <4>2
            <4> QED
                BY <3>1, <3>3, <4>1, <4>2, <4>3
        <3> QED
            BY <3>2, <3>3
    <2>7. ASSUME NEW i \in DOMAIN s, NEW j \in DOMAIN s, from(i) = from(j) PROVE i = j
        BY <1>1, <2>0, <2>5, <2>7
    <2> HIDE DEF from
    <2> QED
        BY <2>4, <2>6, <2>7 DEF RoadOK
<1>3. RoadOK(rest, top)
    BY <1>2
<1>4. CASE Len(num) > 1
    <2>1. RemovedHeading(r, num, padded) = rest
        BY <1>4 DEF RemovedHeading, k
    <2> QED
        BY <1>3, <2>1
<1>5. CASE ~(Len(num) > 1)
    <2> DEFINE t == [i \in DOMAIN rest |-> Lowered(rest[i], num[1])]
    <2>1. RemovedHeading(r, num, padded) = t
        BY <1>5 DEF RemovedHeading, k
    <2> HIDE DEF rest
    <2>2. rest \in Seq(HeadingRecs) /\ Len(rest) \in Nat /\ DOMAIN rest = 1 .. Len(rest)
        BY <1>3 DEF RoadOK
    <2>3. ASSUME NEW i \in DOMAIN rest
          PROVE  /\ t[i] \in HeadingRecs /\ t[i].title = rest[i].title /\ Below(t[i].num, top)
        <3> DEFINE h == rest[i]
        <3>1. h \in HeadingRecs /\ Below(h.num, top)
            BY <1>3, <2>2 DEF RoadOK
        <3>2. t[i] = Lowered(h, num[1])
            OBVIOUS
        <3> HIDE DEF h, t
        <3>3. CASE Len(h.num) = 1 /\ h.num[1] \in num[1] + 1 .. 99 /\ ~h.padded
            <4>1. t[i] = [h EXCEPT !.num = <<num[1]>>]
                BY <3>2, <3>3 DEF Lowered
            <4>2. num[1] \in Nat \ {0} /\ <<num[1]>> \in Num
                BY NumParts DEF Num
            <4>3. t[i] \in HeadingRecs /\ t[i].title = h.title /\ t[i].num = <<num[1]>>
                BY <3>1, <4>1, <4>2 DEF HeadingRecs
            <4>4. num[1] <= top
                <5>1. h.num \in Num /\ h.num[1] <= top /\ h.num[1] \in Nat
                    <6>1. h.num \in Num
                        BY <3>1 DEF HeadingRecs
                    <6> QED
                        BY <3>1, <6>1, BelowIs, NumParts
                <5> QED
                    BY <3>3, <4>2, <5>1
            <4>5. Below(<<num[1]>>, top)
                BY <4>4 DEF Below
            <4> QED
                BY <4>3, <4>5 DEF h
        <3>4. CASE ~(Len(h.num) = 1 /\ h.num[1] \in num[1] + 1 .. 99 /\ ~h.padded)
            <4>1. t[i] = h
                BY <3>2, <3>4 DEF Lowered
            <4> QED
                BY <3>1, <4>1 DEF h
        <3> QED
            BY <3>3, <3>4
    <2>4. t \in Seq(HeadingRecs) /\ DOMAIN t = DOMAIN rest
        BY <2>2, <2>3
    <2> HIDE DEF t
    <2>5. /\ \A i \in DOMAIN t : Below(t[i].num, top) /\ t[i].title <= top
          /\ \A i, j \in DOMAIN t : t[i].title = t[j].title => i = j
        BY <1>3, <2>3, <2>4 DEF RoadOK
    <2> QED
        BY <2>1, <2>4, <2>5 DEF RoadOK
<1> QED
    BY <1>4, <1>5

\* Other marks in a heading.
LEMMA MarkedOK ==
    ASSUME NEW r, NEW top \in Nat, RoadOK(r, top), NEW k \in DOMAIN r, NEW h \in HeadingRecs,
           h.num = r[k].num, h.title = r[k].title
    PROVE  RoadOK([r EXCEPT ![k] = h], top) /\ Numbers(Headings([r EXCEPT ![k] = h])) = Numbers(Headings(r))
<1> DEFINE s == [r EXCEPT ![k] = h]
<1>1. r \in Seq(HeadingRecs) /\ s \in Seq(HeadingRecs) /\ DOMAIN s = DOMAIN r
    BY DEF RoadOK
<1>2. \A i \in DOMAIN r : s[i].num = r[i].num /\ s[i].title = r[i].title
    BY <1>1
<1> HIDE DEF s
<1>3. RoadOK(s, top)
    BY <1>1, <1>2 DEF RoadOK
<1>4. Numbers(Headings(s)) = Numbers(Headings(r))
    <2>1. /\ Numbers(Headings(s)) = {s[i].num : i \in DOMAIN s}
          /\ Numbers(Headings(r)) = {r[i].num : i \in DOMAIN r}
        BY DEF Numbers, Headings, ToSet
    <2>2. \A p : p \in {s[i].num : i \in DOMAIN s} <=> p \in {r[i].num : i \in DOMAIN r}
        BY <1>1, <1>2, Zenon
    <2> QED
        BY <2>1, <2>2
<1> QED
    BY <1>3, <1>4 DEF s

\* What the number p becomes when the phase num is removed.
Renumbered(p, num) ==
    IF Len(num) = 1
    THEN IF p[1] > num[1] THEN IF Len(p) = 1 THEN <<p[1] - 1>> ELSE <<p[1] - 1, p[2]>> ELSE p
    ELSE IF Len(p) = 2 /\ p[1] = num[1] /\ p[2] > num[2] THEN <<p[1], p[2] - 1>> ELSE p

LEMMA RenumberedIs ==
    ASSUME NEW p \in Num, NEW num \in Num
    PROVE  LET q == Renumbered(p, num)
           IN  /\ q \in Num /\ Len(q) = Len(p)
               /\ q[1] = IF Len(num) = 1 /\ p[1] > num[1] THEN p[1] - 1 ELSE p[1]
               /\ At(q, 2) = IF Len(num) = 2 /\ Len(p) = 2 /\ p[1] = num[1] /\ p[2] > num[2]
                             THEN At(p, 2) - 1 ELSE At(p, 2)
               /\ \A top \in Nat : Below(p, top) => Below(q, top)
<1> DEFINE q == Renumbered(p, num)
<1>1. /\ p[1] \in Nat \ {0} /\ num[1] \in Nat \ {0} /\ Len(p) \in 1 .. 2 /\ Len(num) \in 1 .. 2
      /\ Len(p) = 2 => p = <<p[1], p[2]>> /\ p[2] \in Nat \ {0} /\ At(p, 2) = p[2]
      /\ Len(p) = 1 => p = <<p[1]>> /\ At(p, 2) = 0
      /\ Len(num) = 2 => num[2] \in Nat \ {0}
    BY NumParts
<1>2. \A n \in Nat \ {0} : <<n>> \in Num /\ Len(<<n>>) = 1 /\ <<n>>[1] = n
    BY DEF Num
<1>3. \A n \in Nat \ {0}, k \in Nat \ {0} :
          <<n, k>> \in Num /\ Len(<<n, k>>) = 2 /\ <<n, k>>[1] = n /\ <<n, k>>[2] = k
    BY DEF Num
<1>4. CASE q = p
    <2>1. ~(Len(num) = 1 /\ p[1] > num[1])
        <3>1. ASSUME Len(num) = 1, p[1] > num[1] PROVE FALSE
            <4>1. q[1] = p[1] - 1
                BY <3>1 DEF Renumbered
            <4> QED
                BY <1>1, <1>4, <4>1
        <3> QED
            BY <3>1
    <2>2. ~(Len(num) = 2 /\ Len(p) = 2 /\ p[1] = num[1] /\ p[2] > num[2])
        <3>1. ASSUME Len(num) = 2, Len(p) = 2, p[1] = num[1], p[2] > num[2] PROVE FALSE
            <4>1. q[2] = p[2] - 1
                BY <3>1 DEF Renumbered
            <4> QED
                BY <1>1, <1>4, <3>1, <4>1
        <3> QED
            BY <3>1
    <2> HIDE DEF q
    <2> QED
        BY <1>1, <1>4, <2>1, <2>2 DEF q
<1>5. CASE Len(num) = 1 /\ p[1] > num[1] /\ Len(p) = 1
    <2>1. q = <<p[1] - 1>> /\ p[1] - 1 \in Nat \ {0}
        BY <1>1, <1>5 DEF Renumbered
    <2> HIDE DEF q
    <2>2. q \in Num /\ Len(q) = 1 /\ q[1] = p[1] - 1
        BY <1>2, <2>1
    <2>3. At(q, 2) = 0
        BY <2>2, NumParts
    <2>4. \A top \in Nat : Below(p, top) => Below(q, top)
        BY <1>1, <1>5, <2>2, BelowIs
    <2> QED
        BY <1>1, <1>5, <2>2, <2>3, <2>4 DEF q
<1>6. CASE Len(num) = 1 /\ p[1] > num[1] /\ Len(p) = 2
    <2>1. q = <<p[1] - 1, p[2]>> /\ p[1] - 1 \in Nat \ {0}
        BY <1>1, <1>6 DEF Renumbered
    <2> HIDE DEF q
    <2>2. q \in Num /\ Len(q) = 2 /\ q[1] = p[1] - 1 /\ q[2] = p[2]
        BY <1>1, <1>3, <1>6, <2>1
    <2>3. At(q, 2) = p[2]
        BY <2>2, NumParts
    <2>4. \A top \in Nat : Below(p, top) => Below(q, top)
        BY <1>1, <1>6, <2>2, BelowIs
    <2> QED
        BY <1>1, <1>6, <2>2, <2>3, <2>4 DEF q
<1>7. CASE Len(num) = 2 /\ Len(p) = 2 /\ p[1] = num[1] /\ p[2] > num[2]
    <2>1. q = <<p[1], p[2] - 1>> /\ p[2] - 1 \in Nat \ {0}
        BY <1>1, <1>7 DEF Renumbered
    <2> HIDE DEF q
    <2>2. q \in Num /\ Len(q) = 2 /\ q[1] = p[1] /\ q[2] = p[2] - 1
        BY <1>1, <1>3, <1>7, <2>1
    <2>3. At(q, 2) = p[2] - 1
        BY <2>2, NumParts
    <2>4. \A top \in Nat : Below(p, top) => Below(q, top)
        BY <1>1, <1>7, <2>2, BelowIs
    <2> QED
        BY <1>1, <1>7, <2>2, <2>3, <2>4 DEF q
<1> QED
    BY <1>1, <1>4, <1>5, <1>6, <1>7 DEF Renumbered

\* Renumbering keeps the order of the phases that stay, the decimals of the
\* phase removed apart.
LEMMA RenumberedOrder ==
    ASSUME NEW p \in Num, NEW q \in Num, NEW num \in Num, p # num, q # num, ~Under(p, num), Before(p, q)
    PROVE  Before(Renumbered(p, num), Renumbered(q, num))
<1> DEFINE v == Renumbered(p, num)
           w == Renumbered(q, num)
<1>1. /\ v \in Num /\ v[1] = IF Len(num) = 1 /\ p[1] > num[1] THEN p[1] - 1 ELSE p[1]
      /\ At(v, 2) = IF Len(num) = 2 /\ Len(p) = 2 /\ p[1] = num[1] /\ p[2] > num[2]
                    THEN At(p, 2) - 1 ELSE At(p, 2)
    BY RenumberedIs
<1>2. /\ w \in Num /\ w[1] = IF Len(num) = 1 /\ q[1] > num[1] THEN q[1] - 1 ELSE q[1]
      /\ At(w, 2) = IF Len(num) = 2 /\ Len(q) = 2 /\ q[1] = num[1] /\ q[2] > num[2]
                    THEN At(q, 2) - 1 ELSE At(q, 2)
    BY RenumberedIs
<1> HIDE DEF v, w
<1>3. /\ p[1] \in Nat /\ q[1] \in Nat /\ num[1] \in Nat /\ At(p, 2) \in Nat /\ At(q, 2) \in Nat
      /\ Len(p) \in 1 .. 2 /\ Len(q) \in 1 .. 2 /\ Len(num) \in 1 .. 2
      /\ Len(p) = 2 => At(p, 2) = p[2]
      /\ Len(q) = 2 => At(q, 2) = q[2]
      /\ Len(num) = 2 => num[2] \in Nat \ {0} /\ At(num, 2) = num[2]
      /\ Len(p) = 1 <=> At(p, 2) = 0
      /\ Len(q) = 1 <=> At(q, 2) = 0
      /\ Len(num) = 1 <=> At(num, 2) = 0
    BY NumParts
<1>4. p[1] < q[1] \/ (p[1] = q[1] /\ At(p, 2) < At(q, 2))
    BY BeforeIs
<1>5. (p[1] # num[1] \/ At(p, 2) # At(num, 2)) /\ (q[1] # num[1] \/ At(q, 2) # At(num, 2))
    BY NumEqual
<1>6. v[1] < w[1] \/ (v[1] = w[1] /\ At(v, 2) < At(w, 2))
    <2>1. CASE Len(num) = 1
        <3>1. p[1] # num[1]
            BY <1>3, <1>5, <2>1, UnderIs
        <3> QED
            BY <1>1, <1>2, <1>3, <1>4, <2>1, <3>1
    <2>2. CASE Len(num) = 2
        BY <1>1, <1>2, <1>3, <1>4, <1>5, <2>2
    <2> QED
        BY <1>3, <2>1, <2>2
<1> QED
    BY <1>1, <1>2, <1>6, BeforeIs DEF v, w

\* phase remove, on the disk: one directory goes, the others are renumbered and
\* keep everything else.
LEMMA RemovedDirsIs ==
    ASSUME NEW set \in SUBSET DirRecs, NEW num \in Num
    PROVE  RemovedDirs(set, num) =
               {[d EXCEPT !.num = Renumbered(@, num)] : d \in set \ {Find(set, num)}}
<1> DEFINE rest == set \ {Find(set, num)}
<1>0. Len(num) \in 1 .. 2 /\ num[1] \in Nat
    BY NumParts
<1>1. CASE Len(num) = 1
    <2> DEFINE f(d) == IF d.num[1] > num[1] /\ Len(d.num) <= 2 THEN [d EXCEPT !.num[1] = @ - 1] ELSE d
    <2>1. RemovedDirs(set, num) = {f(d) : d \in rest}
        BY <1>0, <1>1 DEF RemovedDirs, RenamedInteger
    <2>2. ASSUME NEW d \in rest PROVE f(d) = [d EXCEPT !.num = Renumbered(@, num)]
        <3>1. d.num \in Num /\ d = [num |-> d.num, title |-> d.title, plans |-> d.plans,
                                    summaries |-> d.summaries, verified |-> d.verified]
            BY DEF DirRecs
        <3>2. /\ Len(d.num) \in 1 .. 2
              /\ Len(d.num) = 1 => d.num = <<d.num[1]>>
              /\ Len(d.num) = 2 => d.num = <<d.num[1], d.num[2]>>
            BY <3>1, NumParts
        <3>3. d.num[1] > num[1] => [d.num EXCEPT ![1] = @ - 1] = Renumbered(d.num, num)
            BY <1>1, <3>2 DEF Renumbered
        <3>4. ~(d.num[1] > num[1]) => Renumbered(d.num, num) = d.num
            BY <1>1 DEF Renumbered
        <3>5. [d EXCEPT !.num[1] = @ - 1] = [d EXCEPT !.num = [d.num EXCEPT ![1] = @ - 1]]
            BY <3>1
        <3>6. [d EXCEPT !.num = d.num] = d
            BY <3>1
        <3>7. CASE d.num[1] > num[1]
            <4>0. Len(d.num) \in 1 .. 2
                BY <3>2
            <4>5. \A k \in 1 .. 2 : k <= 2
                OBVIOUS
            <4>9. Len(d.num) <= 2
                BY ONLY <4>0, <4>5, Zenon
            <4>1. f(d) = [d EXCEPT !.num[1] = @ - 1]
                BY ONLY <4>9, <3>7, Zenon
            <4>2. [d EXCEPT !.num[1] = @ - 1] = [d EXCEPT !.num = Renumbered(d.num, num)]
                BY <3>3, <3>5, <3>7
            <4> HIDE DEF f
            <4> QED
                BY <4>1, <4>2
        <3>8. CASE ~(d.num[1] > num[1])
            <4>1. f(d) = d
                BY <3>8
            <4> HIDE DEF f
            <4> QED
                BY <3>4, <3>6, <3>8, <4>1
        <3> HIDE DEF f
        <3> QED
            BY <3>7, <3>8
    <2> HIDE DEF f, rest
    <2> QED
        BY <2>1, <2>2 DEF rest
<1>2. CASE Len(num) = 2
    <2> DEFINE f(d) == IF d.num[1] = num[1] /\ Len(d.num) = 2 /\ d.num[2] > num[2]
                       THEN [d EXCEPT !.num[2] = @ - 1] ELSE d
    <2>1. RemovedDirs(set, num) = {f(d) : d \in rest}
        BY <1>0, <1>2 DEF RemovedDirs, RenamedDecimal
    <2>2. ASSUME NEW d \in rest PROVE f(d) = [d EXCEPT !.num = Renumbered(@, num)]
        <3>1. d.num \in Num /\ d = [num |-> d.num, title |-> d.title, plans |-> d.plans,
                                    summaries |-> d.summaries, verified |-> d.verified]
            BY DEF DirRecs
        <3> DEFINE moves == d.num[1] = num[1] /\ Len(d.num) = 2 /\ d.num[2] > num[2]
        <3>2. Len(d.num) = 2 => d.num = <<d.num[1], d.num[2]>>
            BY <3>1, NumParts
        <3>3. moves => [d.num EXCEPT ![2] = @ - 1] = Renumbered(d.num, num)
            BY <1>2, <3>2 DEF Renumbered
        <3>4. ~moves => Renumbered(d.num, num) = d.num
            BY <1>2 DEF Renumbered
        <3>5. [d EXCEPT !.num[2] = @ - 1] = [d EXCEPT !.num = [d.num EXCEPT ![2] = @ - 1]]
            BY <3>1
        <3>6. [d EXCEPT !.num = d.num] = d
            BY <3>1
        <3> QED
            BY <3>3, <3>4, <3>5, <3>6
    <2> HIDE DEF f, rest
    <2> QED
        BY <2>1, <2>2 DEF rest
<1> QED
    BY <1>0, <1>1, <1>2

\* The directories afterwards, one for each that stays.
LEMMA RemovedDirsAre ==
    ASSUME NEW set \in SUBSET DirRecs, NEW num \in Num
    PROVE  /\ RemovedDirs(set, num) \subseteq DirRecs
           /\ IsFiniteSet(set) => IsFiniteSet(RemovedDirs(set, num))
           /\ \A e \in RemovedDirs(set, num) : \E d \in set \ {Find(set, num)} :
                  /\ e.num = Renumbered(d.num, num) /\ e.title = d.title /\ e.plans = d.plans
                  /\ e.summaries = d.summaries /\ e.verified = d.verified
           /\ \A d \in set \ {Find(set, num)} : \E e \in RemovedDirs(set, num) :
                  /\ e.num = Renumbered(d.num, num) /\ e.title = d.title /\ e.plans = d.plans
                  /\ e.summaries = d.summaries /\ e.verified = d.verified
<1> DEFINE f(d) == [d EXCEPT !.num = Renumbered(@, num)]
           rest == set \ {Find(set, num)}
<1>1. RemovedDirs(set, num) = {f(d) : d \in rest}
    BY RemovedDirsIs
<1>2. ASSUME NEW d \in rest
      PROVE  /\ f(d) \in DirRecs
             /\ f(d).num = Renumbered(d.num, num) /\ f(d).title = d.title /\ f(d).plans = d.plans
             /\ f(d).summaries = d.summaries /\ f(d).verified = d.verified
    <2>1. d.num \in Num
        BY DEF DirRecs
    <2>2. Renumbered(d.num, num) \in Num
        BY <2>1, RenumberedIs
    <2> QED
        BY <2>2 DEF DirRecs
<1>3. IsFiniteSet(set) => IsFiniteSet({f(d) : d \in rest})
    <2> SUFFICES ASSUME IsFiniteSet(set) PROVE IsFiniteSet({f(d) : d \in rest})
        OBVIOUS
    <2>1. IsFiniteSet(rest)
        BY FS_Subset
    <2> HIDE DEF rest, f
    <2>2. [d \in rest |-> f(d)] \in Surjection(rest, {f(d) : d \in rest})
        BY DEF Surjection
    <2> QED
        BY <2>1, <2>2, FS_Surjection
<1> HIDE DEF f
<1> QED
    BY <1>1, <1>2, <1>3

-----------------------------------------------------------------------------
(* Every command keeps types, bounds and the fields of STATE.md.           *)

Sound == BaseInv /\ StatusInv /\ ExecutedWorkKept

\* What is read of the directory found, which may be none.
LEMMA FoundCounts ==
    ASSUME NEW set \in SUBSET DirRecs, NEW num \in Num
    PROVE  LET d == Find(set, num)
           IN  /\ d.plans \in Nat /\ d.summaries \in Nat /\ d.summaries <= d.plans
               /\ d.summaries < d.plans => d \in set
<1>1. CASE num \in Numbers(set)
    BY <1>1, FindIs DEF DirRecs
<1>2. CASE num \notin Numbers(set)
    <2>1. Find(set, num) = NoDir
        BY <1>2, FindIs
    <2> QED
        BY <2>1 DEF NoDir, Dir
<1> QED
    BY <1>1, <1>2

\* The directory init plan-phase hands to the planner.
LEMMA ResolvedIs ==
    ASSUME TreeTypes, roadmap \in Seq(HeadingRecs), at \in Num
    PROVE  LET found == Resolved(roadmap, dirs, shipped, at, Padded(at))
           IN  /\ found.archived \in BOOLEAN
               /\ found.archived =>
                     /\ found.dir \in shipped /\ found.dir.num = at /\ found.dir # NoDir
                     /\ at \notin Numbers(dirs) /\ at \notin Numbers(Headings(roadmap))
               /\ ~found.archived /\ at \in Numbers(dirs) =>
                     found.dir \in dirs /\ found.dir.num = at /\ found.dir # NoDir
               /\ ~found.archived /\ at \notin Numbers(dirs) => found.dir = NoDir
<1> DEFINE mine == Find(dirs, at)
           other == Find(shipped, at)
           loc == Located(dirs, shipped, at)
<1>1. /\ at \notin Numbers(dirs) => mine = NoDir
      /\ at \in Numbers(dirs) => mine \in dirs /\ mine.num = at /\ mine # NoDir
      /\ other # NoDir => other \in shipped /\ other.num = at
    <2>1. dirs \in SUBSET DirRecs /\ shipped \in SUBSET DirRecs
        BY DEF TreeTypes
    <2> QED
        BY <2>1, FindIs
<1>2. HeadingOf(at) = 0 <=> at \notin Numbers(Headings(roadmap))
    BY HeadingOfIs
<1>3. Resolved(roadmap, dirs, shipped, at, Padded(at)) =
        IF loc.archived /\ HeadingOf(at) # 0 THEN [dir |-> NoDir, archived |-> FALSE] ELSE loc
    BY DEF Resolved, HeadingOf
<1>4. /\ mine # NoDir => loc = [dir |-> mine, archived |-> FALSE]
      /\ mine = NoDir /\ other = NoDir => loc = [dir |-> NoDir, archived |-> FALSE]
      /\ mine = NoDir /\ other # NoDir => loc = [dir |-> other, archived |-> TRUE]
    BY DEF Located
<1> HIDE DEF mine, other, loc
<1> DEFINE found == Resolved(roadmap, dirs, shipped, at, Padded(at))
<1>5. CASE mine # NoDir
    <2>1. found = [dir |-> mine, archived |-> FALSE]
        BY <1>3, <1>4, <1>5
    <2> QED
        BY <1>1, <1>5, <2>1
<1>6. CASE mine = NoDir /\ other = NoDir
    <2>1. found = [dir |-> NoDir, archived |-> FALSE]
        BY <1>3, <1>4, <1>6
    <2> QED
        BY <1>1, <1>6, <2>1
<1>7. CASE mine = NoDir /\ other # NoDir
    <2>1. found = IF HeadingOf(at) # 0 THEN [dir |-> NoDir, archived |-> FALSE]
                  ELSE [dir |-> other, archived |-> TRUE]
        <3>1. loc = [dir |-> other, archived |-> TRUE]
            BY <1>4, <1>7
        <3> QED
            BY <1>3, <3>1
    <2> QED
        BY <1>1, <1>2, <1>7, <2>1
<1> QED
    BY <1>5, <1>6, <1>7

\* The plans go to the directory of the phase at hand, to a new one, or to the
\* shipped one whose number has no heading.
LEMMA PlanPhaseIs ==
    ASSUME BaseInv, NEW n \in 1 .. MaxPlans, PlanPhase(n)
    PROVE  \E old, new :
        /\ new \in DirRecs /\ new.num = at
        /\ \/ /\ old \in DirRecs /\ old.num = at /\ new.title = old.title
              /\ new.summaries = old.summaries /\ new.verified = old.verified
           \/ /\ old = NoDir /\ new.title <= Top /\ new.summaries = 0 /\ ~new.verified
              /\ at \notin Numbers(dirs)
        /\ \/ /\ dirs' = (dirs \ {old}) \cup {new} /\ shipped' = shipped
              /\ old \in dirs \/ old = NoDir
           \/ /\ shipped' = (shipped \ {old}) \cup {new} /\ dirs' = dirs /\ old \in shipped
              /\ at \notin Numbers(Headings(roadmap))
<1> DEFINE found == Resolved(roadmap, dirs, shipped, at, Padded(at))
           i == HeadingOf(at)
           e == IF found.dir = NoDir THEN Dir(at, roadmap[i].title) ELSE found.dir
           new == [e EXCEPT !.plans = IF n > @ THEN n ELSE @]
<1>1. /\ found.dir # NoDir \/ i # 0
      /\ dirs' = IF found.archived THEN dirs ELSE (dirs \ {found.dir}) \cup {new}
      /\ shipped' = IF found.archived THEN (shipped \ {found.dir}) \cup {new} ELSE shipped
      /\ stage = "plan" /\ stage' = "planned" /\ at' = at
      /\ UNCHANGED <<roadmap, doc, edits, executed, closed, doubled>>
    BY DEF PlanPhase, Step
<1>2. roadmap \in Seq(HeadingRecs) /\ TreeTypes /\ at \in Num /\ RoadOK(roadmap, Top)
    BY <1>1 DEF BaseInv, TreeTypes, GivenInv, RoadOK
<1>3. /\ found.archived \in BOOLEAN
      /\ found.archived =>
            /\ found.dir \in shipped /\ found.dir.num = at /\ found.dir # NoDir
            /\ at \notin Numbers(dirs) /\ at \notin Numbers(Headings(roadmap))
      /\ ~found.archived /\ at \in Numbers(dirs) =>
            found.dir \in dirs /\ found.dir.num = at /\ found.dir # NoDir
      /\ ~found.archived /\ at \notin Numbers(dirs) => found.dir = NoDir
    BY <1>2, ResolvedIs
<1>4. i # 0 => roadmap[i] \in HeadingRecs /\ roadmap[i].title <= Top
    BY <1>2, HeadingOfIs, ElementOfSeq DEF RoadOK
<1> HIDE DEF found, i
<1>5. /\ e \in DirRecs /\ e.num = at
      /\ found.dir # NoDir => e = found.dir
      /\ found.dir = NoDir => e.title <= Top /\ e.summaries = 0 /\ ~e.verified
    <2>1. CASE found.dir = NoDir
        <3>1. e = Dir(at, roadmap[i].title) /\ roadmap[i].title \in Nat
            BY <1>1, <1>4, <2>1 DEF HeadingRecs
        <3> HIDE DEF e
        <3> QED
            BY <1>1, <1>2, <1>4, <2>1, <3>1, Typed DEF Dir
    <2>2. CASE found.dir # NoDir
        BY <1>2, <1>3, <2>2 DEF TreeTypes
    <2> QED
        BY <2>1, <2>2
<1> HIDE DEF e
<1>6. /\ new \in DirRecs /\ new.num = e.num /\ new.title = e.title /\ new.summaries = e.summaries
      /\ new.verified = e.verified
    BY <1>5 DEF DirRecs
<1> HIDE DEF new
<1>7. found.dir = NoDir => ~found.archived /\ at \notin Numbers(dirs)
    BY <1>3
<1>8. CASE found.dir = NoDir
    BY <1>1, <1>5, <1>6, <1>7, <1>8
<1>9. CASE found.dir # NoDir /\ ~found.archived
    BY <1>1, <1>3, <1>5, <1>6, <1>9
<1>10. CASE found.dir # NoDir /\ found.archived
    BY <1>1, <1>3, <1>5, <1>6, <1>10
<1> QED
    BY <1>8, <1>9, <1>10

\* Of the phase numbers up to a bound one comes last.
LEMMA LastNumber ==
    ASSUME NEW nums \in SUBSET Num, nums # {}, NEW top \in Nat, \A q \in nums : Below(q, top)
    PROVE  \E p \in nums : \A q \in nums : ~Before(p, q)
<1> DEFINE ints == {p[1] : p \in nums}
           some == {p \in nums : p[1] = MaxOf(ints)}
           decs == {At(p, 2) : p \in some}
<1>0. \A q \in nums : /\ q[1] \in Nat /\ q[1] <= top
                      /\ At(q, 2) \in Nat /\ At(q, 2) <= top
    <2> SUFFICES ASSUME NEW q \in nums
                 PROVE  q[1] \in Nat /\ q[1] <= top /\ At(q, 2) \in Nat /\ At(q, 2) <= top
        OBVIOUS
    <2>1. q \in Num /\ Below(q, top)
        OBVIOUS
    <2>2. q[1] <= top /\ (Len(q) = 2 => q[2] <= top)
        BY <2>1, BelowIs
    <2>3. /\ q[1] \in Nat /\ At(q, 2) \in Nat /\ Len(q) \in 1 .. 2
          /\ Len(q) = 1 <=> At(q, 2) = 0
          /\ Len(q) = 2 => At(q, 2) = q[2]
        BY <2>1, NumParts
    <2> QED
        BY <2>2, <2>3
<1>1. ints \in SUBSET Nat /\ ints # {} /\ \A n \in ints : n <= top
    BY <1>0
<1>2. MaxOf(ints) \in ints /\ \A n \in ints : n <= MaxOf(ints)
    <2> HIDE DEF ints
    <2> QED
        BY <1>1, MaxOfIs
<1>3. some # {} /\ \A p \in nums : p[1] <= MaxOf(ints)
    BY <1>2
<1>4. decs \in SUBSET Nat /\ decs # {} /\ \A n \in decs : n <= top
    BY <1>0, <1>3
<1>5. PICK p \in some : \A q \in some : At(q, 2) <= At(p, 2)
    <2>1. MaxOf(decs) \in decs /\ \A n \in decs : n <= MaxOf(decs)
        <3> HIDE DEF decs
        <3> QED
            BY <1>4, MaxOfIs
    <2> QED
        BY <2>1
<1>6. ASSUME NEW q \in nums PROVE ~Before(p, q)
    <2>1. p[1] \in Nat /\ q[1] \in Nat /\ At(p, 2) \in Nat /\ At(q, 2) \in Nat /\ p \in Num /\ q \in Num
        BY <1>0
    <2>2. CASE p[1] = q[1]
        <3>1. At(q, 2) <= At(p, 2)
            BY <1>5, <2>2
        <3> QED
            BY <2>1, <2>2, <3>1, BeforeIs
    <2>3. CASE p[1] # q[1]
        BY <1>3, <1>5, <2>1, <2>3, BeforeIs
    <2> QED
        BY <2>2, <2>3
<1> QED
    BY <1>5, <1>6

\* state sync takes the plans of a directory: of one that is open, when one is.
LEMMA SyncPlansIs ==
    ASSUME NEW set \in SUBSET DirRecs, NEW top \in Nat, \A d \in set : Below(d.num, top)
    PROVE  /\ SyncPlans(set) \in Nat
           /\ (\E d \in set : Open(d)) => \E d \in set : Open(d) /\ SyncPlans(set) = d.plans
<1> DEFINE planned == {d \in set : d.plans > 0}
           open == {d \in planned : d.summaries < d.plans}
<1>0. /\ \A d \in set : d.num \in Num /\ d.plans \in Nat /\ d.summaries \in Nat
      /\ \A d \in set : Open(d) <=> d \in open
    <2>1. \A d \in set : d.num \in Num /\ d.plans \in Nat /\ d.summaries \in Nat
        BY DEF DirRecs
    <2> QED
        BY <2>1 DEF Open
<1>1. CASE open # {}
    <2>1. {d.num : d \in open} \in SUBSET Num /\ {d.num : d \in open} # {}
          /\ \A q \in {d.num : d \in open} : Below(q, top)
        BY <1>0, <1>1
    <2>2. PICK d \in open : \A e \in open : ~Before(d.num, e.num)
        <3> DEFINE nums == {d.num : d \in open}
        <3>1. \E p \in nums : \A q \in nums : ~Before(p, q)
            <4> HIDE DEF nums
            <4> QED
                BY <2>1, LastNumber DEF nums
        <3> QED
            BY <3>1
    <2> DEFINE x == CHOOSE y \in open : \A e \in open : ~Before(y.num, e.num)
    <2>3. x \in open
        BY <2>2
    <2>4. SyncPlans(set) = x.plans
        BY <1>1 DEF SyncPlans
    <2> HIDE DEF x
    <2> QED
        BY <1>0, <2>3, <2>4
<1>2. CASE open = {} /\ planned # {}
    <2>1. {d.num : d \in planned} \in SUBSET Num /\ {d.num : d \in planned} # {}
        BY <1>0, <1>2
    <2>2. PICK d \in planned : \A e \in planned : ~Before(e.num, d.num)
        <3> DEFINE nums == {d.num : d \in planned}
        <3>1. \E p \in nums : \A q \in nums : p = q \/ Before(p, q)
            <4> HIDE DEF nums
            <4> QED
                BY <2>1, FirstNumber DEF nums
        <3>2. PICK d \in planned : \A e \in planned : d.num = e.num \/ Before(d.num, e.num)
            BY <3>1
        <3>3. ASSUME NEW e \in planned PROVE ~Before(e.num, d.num)
            <4>1. d.num \in Num /\ e.num \in Num
                BY <1>0
            <4>2. d.num = e.num \/ Before(d.num, e.num)
                BY <3>2
            <4> QED
                BY <4>1, <4>2, BeforeOrders
        <3> QED
            BY <3>3
    <2> DEFINE x == CHOOSE y \in planned : \A e \in planned : ~Before(e.num, y.num)
    <2>3. x \in planned
        BY <2>2
    <2>4. SyncPlans(set) = x.plans
        BY <1>2 DEF SyncPlans
    <2> HIDE DEF x
    <2> QED
        BY <1>0, <1>2, <2>3, <2>4
<1>3. CASE open = {} /\ planned = {}
    BY <1>0, <1>3 DEF SyncPlans
<1> QED
    BY <1>1, <1>2, <1>3

\* phase complete goes on with the number of a directory or of a heading that
\* comes later, or with none.
LEMMA NextPhaseIs ==
    ASSUME NEW r \in Seq(HeadingRecs), NEW set \in SUBSET DirRecs, NEW num \in Num
    PROVE  LET next == NextPhase(r, set, num)
           IN  \/ next = <<>>
               \/ next \in Num /\ Before(num, next) /\ next \in Numbers(set) \cup Numbers(Headings(r))
<1> DEFINE disk == NextOnDisk(r, set, num)
           text == NextInRoadmap(r, num)
           next == NextPhase(r, set, num)
<1>1. CASE disk # {}
    <2>1. disk \in SUBSET Num /\ \A p \in disk : Before(num, p) /\ p \in Numbers(set)
        BY DEF NextOnDisk, Numbers, DirRecs
    <2>2. \E p \in disk : \A q \in disk : p = q \/ Before(p, q)
        <3> HIDE DEF disk
        <3> QED
            BY <1>1, <2>1, FirstNumber
    <2>3. next = CHOOSE p \in disk : \A q \in disk : p = q \/ Before(p, q)
        BY <1>1 DEF NextPhase
    <2>4. next \in disk
        <3> HIDE DEF disk, next
        <3> QED
            BY <2>2, <2>3
    <2> QED
        BY <2>1, <2>4
<1>2. CASE disk = {} /\ text # {}
    <2>1. text \in SUBSET Nat /\ text # {}
        BY <1>2 DEF NextInRoadmap
    <2>2. Least(text) \in text
        <3> HIDE DEF text
        <3> QED
            BY <2>1, LeastIs
    <2>3. PICK i \in DOMAIN r : i = Least(text) /\ Before(num, r[i].num)
        BY <2>2 DEF NextInRoadmap
    <2>4. next = r[i].num
        BY <1>2, <2>3 DEF NextPhase
    <2>5. r[i] \in HeadingRecs /\ r[i] \in Headings(r)
        BY HeadingsTyped, ElementOfSeq
    <2> QED
        BY <2>3, <2>4, <2>5 DEF HeadingRecs, Numbers
<1>3. CASE disk = {} /\ text = {}
    BY <1>3 DEF NextPhase
<1> QED
    BY <1>1, <1>2, <1>3

\* A bound may grow.
LEMMA RoadMore ==
    ASSUME NEW r, NEW top \in Nat, RoadOK(r, top), NEW more \in Nat, top <= more
    PROVE  RoadOK(r, more)
<1>1. r \in Seq(HeadingRecs)
    BY DEF RoadOK
<1>2. ASSUME NEW i \in DOMAIN r PROVE Below(r[i].num, more) /\ r[i].title <= more
    <2>0. r[i] \in HeadingRecs
        BY <1>1, HeadingsTyped
    <2>1. r[i].num \in Num /\ r[i].title \in Nat
        BY <2>0 DEF HeadingRecs
    <2>2. Below(r[i].num, top) /\ r[i].title <= top
        BY DEF RoadOK
    <2> QED
        BY <2>1, <2>2, BelowMore
<1> QED
    BY <1>1, <1>2 DEF RoadOK

\* Executed work, one title at a time.
LEMMA WorkKept ==
    ExecutedWorkKept <=> \A t \in executed : \E d \in dirs \cup shipped : d.title = t /\ d.summaries > 0
    BY DEF ExecutedWorkKept

LEMMA WorkStays ==
    ASSUME ExecutedWorkKept, executed' \subseteq executed,
           \A d \in dirs \cup shipped : d.summaries > 0 =>
               \/ d.title \notin executed'
               \/ \E e \in dirs' \cup shipped' : e.title = d.title /\ e.summaries > 0
    PROVE  ExecutedWorkKept'
<1>1. ASSUME NEW t \in executed'
      PROVE  \E e \in dirs' \cup shipped' : e.title = t /\ e.summaries > 0
    <2>1. PICK d \in dirs \cup shipped : d.title = t /\ d.summaries > 0
        BY WorkKept
    <2> QED
        BY <2>1
<1> QED
    BY <1>1 DEF ExecutedWorkKept

\* The commands that write STATE.md and nothing else.
LEMMA SoundFrom ==
    ASSUME Sound, UNCHANGED <<roadmap, dirs, shipped, at, edits, executed, closed>>,
           DocOK(doc'), Shown(doc'), doc'.bold = doc.bold, stage' \in Stages \ {"over"}, stage # "over",
           stage' \in AtWork => at \in Numbers(dirs),
           doc'.bold /\ stage' \in {"execute", "progress", "advance"} =>
               Len(doc'.body["CurrentPlan"]) = 1 /\ Len(doc'.body["TotalPlans"]) = 1,
           doc'.bold /\ doc'.body["Status"] = "executing" => stage' \in {"execute", "progress", "advance"}
    PROVE  Sound'
<1>1. ~closed /\ ~closed'
    BY DEF Sound, BaseInv, TreeTypes
<1>2. TreeTypes'
    <2>1. at # <<>>
        BY DEF Sound, BaseInv, TreeTypes
    <2> QED
        BY <1>1, <2>1 DEF Sound, BaseInv, TreeTypes, AtWork
<1>3. GivenInv'
    BY DEF Sound, BaseInv, GivenInv, Top
<1>4. StatusInv'
    BY <1>1 DEF StatusInv
<1>5. ExecutedWorkKept'
    BY DEF Sound, ExecutedWorkKept
<1> QED
    BY <1>2, <1>3, <1>4, <1>5 DEF Sound, BaseInv

LEMMA SoundStatePlanned ==
    ASSUME Sound, StatePlanned
    PROVE  Sound'
<1> DEFINE count == Find(dirs, at).plans
           new == PlannedPhase(doc, count)
<1>1. stage = "planned" /\ stage' = "begin" /\ doc' = Synced(new, OnDisk(roadmap', dirs'))
      /\ UNCHANGED <<roadmap, dirs, shipped, at, edits, executed, closed>>
    BY DEF StatePlanned, Step, Rewrite
<1>2. DocOK(doc) /\ at \in Num /\ dirs \in SUBSET DirRecs
    BY <1>1 DEF Sound, BaseInv, TreeTypes
<1>3. count \in Nat
    BY <1>2, FoundCounts
<1> HIDE DEF count
<1>4. DocOK(new) /\ new.bold = doc.bold /\ new.body["Status"] = "readyToExecute"
    BY <1>2, <1>3, PlannedIs
<1> HIDE DEF new
<1>5. DocOK(doc') /\ Shown(doc') /\ doc'.body = new.body /\ doc'.bold = doc.bold
    BY <1>1, <1>4, SyncedIs
<1>6. "begin" \in Stages \ {"over"} /\ "begin" \notin AtWork
    BY DEF Stages, AtWork
<1> QED
    BY <1>1, <1>4, <1>5, <1>6, SoundFrom

LEMMA SoundStateBegin ==
    ASSUME Sound, StateBegin
    PROVE  Sound'
<1> DEFINE count == Find(dirs, at).plans
           new == BeginPhase(doc, at, count)
<1>1. stage = "begin" /\ stage' = "execute" /\ doc' = Synced(new, OnDisk(roadmap', dirs'))
      /\ UNCHANGED <<roadmap, dirs, shipped, at, edits, executed, closed>>
    BY DEF StateBegin, Step, Rewrite
<1>2. DocOK(doc) /\ at \in Num /\ dirs \in SUBSET DirRecs
    BY <1>1 DEF Sound, BaseInv, TreeTypes
<1>3. count \in Nat
    BY <1>2, FoundCounts
<1> HIDE DEF count
<1>4. /\ DocOK(new) /\ new.bold = doc.bold /\ new.body["Status"] = "executing"
      /\ doc.bold => new.body["CurrentPlan"] = <<1>> /\ new.body["TotalPlans"] = <<count>>
    BY <1>2, <1>3, BeginIs
<1> HIDE DEF new
<1>5. DocOK(doc') /\ Shown(doc') /\ doc'.body = new.body /\ doc'.bold = doc.bold
    BY <1>1, <1>4, SyncedIs
<1>6. doc'.bold => Len(doc'.body["CurrentPlan"]) = 1 /\ Len(doc'.body["TotalPlans"]) = 1
    BY <1>3, <1>4, <1>5, OneNumber
<1>7. "execute" \in Stages \ {"over"} /\ "execute" \notin AtWork
    BY DEF Stages, AtWork
<1> QED
    BY <1>1, <1>5, <1>6, <1>7, SoundFrom

LEMMA SoundStateAdvance ==
    ASSUME Sound, StateAdvance
    PROVE  Sound'
<1> DEFINE new == AdvancePlan(doc)
<1>1. stage = "advance" /\ stage' \in {"execute", "verify"} /\ doc' = Synced(new, OnDisk(roadmap', dirs'))
      /\ UNCHANGED <<roadmap, dirs, shipped, at, edits, executed, closed>>
    BY DEF StateAdvance, Step, Rewrite
<1>2. DocOK(doc) /\ at \in Numbers(dirs)
    BY <1>1 DEF Sound, BaseInv, TreeTypes, AtWork
<1>3. doc.bold => Len(doc.body["CurrentPlan"]) = 1 /\ Len(doc.body["TotalPlans"]) = 1
    BY <1>1 DEF Sound, StatusInv
<1>4. /\ DocOK(new) /\ new.bold = doc.bold
      /\ doc.bold => /\ new.body["Status"] # "executing"
                     /\ Len(new.body["CurrentPlan"]) = 1 /\ Len(new.body["TotalPlans"]) = 1
    BY <1>2, <1>3, AdvanceIs
<1> HIDE DEF new
<1>5. DocOK(doc') /\ Shown(doc') /\ doc'.body = new.body /\ doc'.bold = doc.bold
    BY <1>1, <1>4, SyncedIs
<1>6. {"execute", "verify"} \subseteq Stages \ {"over"}
    BY DEF Stages
<1> QED
    BY <1>1, <1>2, <1>4, <1>5, <1>6, SoundFrom

\* state update-progress and state sync, in STATE.md.
LEMMA StateProgressIs ==
    ASSUME BaseInv, StateProgress
    PROVE  /\ DocOK(doc') /\ Shown(doc') /\ doc'.bold = doc.bold
           /\ DOMAIN doc'.body = DOMAIN doc.body
           /\ \A g \in DOMAIN doc.body \ {"Progress", "TotalPlans"} : doc'.body[g] = doc.body[g]
           /\ doc.bold => doc'.body["TotalPlans"] \in {doc.body["TotalPlans"], <<SyncPlans(dirs)>>}
           /\ doc.bold /\ SyncPlans(dirs) = 0 => doc'.body["TotalPlans"] = doc.body["TotalPlans"]
<1> DEFINE one == UpdateProgress(doc, OnDisk(roadmap, dirs))
           disk == [plans |-> Plans(dirs), summaries |-> Summaries(dirs)]
           two == SyncFromDisk(doc, disk, SyncPlans(dirs))
<1>1. \/ doc' = Synced(one, OnDisk(roadmap', dirs'))
      \/ doc' = Synced(two, OnDisk(roadmap', dirs'))
    BY DEF StateProgress, Rewrite
<1>2. DocOK(doc) /\ dirs \in SUBSET DirRecs /\ Top \in Nat /\ \A d \in dirs : Below(d.num, Top)
    BY PlanningAssumption DEF BaseInv, TreeTypes, GivenInv, Top
<1>3. SyncPlans(dirs) \in Nat
    BY <1>2, SyncPlansIs
<1>4. /\ DocOK(one) /\ one.bold = doc.bold /\ DOMAIN one.body = DOMAIN doc.body
      /\ \A g \in DOMAIN doc.body \ {"Progress"} : one.body[g] = doc.body[g]
    BY <1>2, ProgressIs
<1>5. /\ DocOK(two) /\ two.bold = doc.bold /\ DOMAIN two.body = DOMAIN doc.body
      /\ \A g \in DOMAIN doc.body \ {"Progress", "TotalPlans"} : two.body[g] = doc.body[g]
      /\ doc.bold => two.body["TotalPlans"] = IF SyncPlans(dirs) > 0 THEN <<SyncPlans(dirs)>>
                                              ELSE doc.body["TotalPlans"]
    BY <1>2, <1>3, SyncIs
<1>6. doc.bold => "TotalPlans" \in DOMAIN doc.body
    BY <1>2 DEF DocOK, IsDoc, BoldFields
<1> HIDE DEF one, two
<1>7. CASE doc' = Synced(one, OnDisk(roadmap', dirs'))
    <2>1. DocOK(doc') /\ Shown(doc') /\ doc'.body = one.body /\ doc'.bold = one.bold
        BY <1>4, <1>7, SyncedIs
    <2> QED
        BY <1>4, <1>6, <2>1
<1>8. CASE doc' = Synced(two, OnDisk(roadmap', dirs'))
    <2>1. DocOK(doc') /\ Shown(doc') /\ doc'.body = two.body /\ doc'.bold = two.bold
        BY <1>5, <1>8, SyncedIs
    <2> QED
        BY <1>3, <1>5, <2>1
<1> QED
    BY <1>1, <1>7, <1>8

LEMMA SoundStateProgress ==
    ASSUME Sound, StateProgress
    PROVE  Sound'
<1>1. UNCHANGED <<roadmap, dirs, shipped, at, stage, edits, executed, closed>>
    BY DEF StateProgress
<1>2. BaseInv /\ StatusInv /\ DocOK(doc) /\ SyncPlans(dirs) \in Nat
    <2>1. dirs \in SUBSET DirRecs /\ Top \in Nat /\ \A d \in dirs : Below(d.num, Top)
        BY PlanningAssumption DEF Sound, BaseInv, TreeTypes, GivenInv, Top
    <2> QED
        BY <2>1, SyncPlansIs DEF Sound, BaseInv
<1>3. /\ DocOK(doc') /\ Shown(doc') /\ doc'.bold = doc.bold
      /\ DOMAIN doc'.body = DOMAIN doc.body
      /\ \A g \in DOMAIN doc.body \ {"Progress", "TotalPlans"} : doc'.body[g] = doc.body[g]
      /\ doc.bold => doc'.body["TotalPlans"] \in {doc.body["TotalPlans"], <<SyncPlans(dirs)>>}
    BY <1>2, StateProgressIs
<1>4. "Status" \in DOMAIN doc.body /\ (doc.bold => "CurrentPlan" \in DOMAIN doc.body)
    BY <1>2 DEF DocOK, IsDoc, BoldFields, PlainFields
<1>5. StatusInv'
    <2>1. doc'.body["Status"] = doc.body["Status"]
        BY <1>3, <1>4
    <2>2. doc.bold => doc'.body["CurrentPlan"] = doc.body["CurrentPlan"]
        BY <1>3, <1>4
    <2>3. doc.bold /\ Len(doc.body["TotalPlans"]) = 1 => Len(doc'.body["TotalPlans"]) = 1
        BY <1>2, <1>3, OneNumber
    <2> QED
        BY <1>1, <1>2, <1>3, <2>1, <2>2, <2>3 DEF StatusInv
<1>6. TreeTypes' /\ GivenInv' /\ ExecutedWorkKept'
    BY <1>1 DEF Sound, BaseInv, TreeTypes, GivenInv, Top, ExecutedWorkKept
<1> QED
    BY <1>3, <1>5, <1>6 DEF Sound, BaseInv

\* A directory changes and keeps its number, or one is new with the number at hand.
LEMMA ChangedDirs ==
    ASSUME NEW set \in SUBSET DirRecs, NEW new \in DirRecs, NEW old
    PROVE  /\ (set \ {old}) \cup {new} \in SUBSET DirRecs
           /\ IsFiniteSet(set) => IsFiniteSet((set \ {old}) \cup {new})
<1>1. IsFiniteSet(set) => IsFiniteSet((set \ {old}) \cup {new})
    BY FS_AddElement, FS_RemoveElement
<1> QED
    BY <1>1

LEMMA SoundPlanPhase ==
    ASSUME Sound, NEW n \in 1 .. MaxPlans, PlanPhase(n)
    PROVE  Sound'
<1>1. /\ stage = "plan" /\ stage' = "planned"
      /\ UNCHANGED <<roadmap, doc, at, edits, executed, closed>>
    BY DEF PlanPhase, Step
<1>2. PICK old, new :
        /\ new \in DirRecs /\ new.num = at
        /\ \/ /\ old \in DirRecs /\ old.num = at /\ new.title = old.title
              /\ new.summaries = old.summaries /\ new.verified = old.verified
           \/ /\ old = NoDir /\ new.title <= Top /\ new.summaries = 0 /\ ~new.verified
              /\ at \notin Numbers(dirs)
        /\ \/ /\ dirs' = (dirs \ {old}) \cup {new} /\ shipped' = shipped
              /\ old \in dirs \/ old = NoDir
           \/ /\ shipped' = (shipped \ {old}) \cup {new} /\ dirs' = dirs /\ old \in shipped
              /\ at \notin Numbers(Headings(roadmap))
    BY PlanPhaseIs DEF Sound
<1>3. dirs \in SUBSET DirRecs /\ shipped \in SUBSET DirRecs /\ IsFiniteSet(dirs) /\ at # <<>> /\ ~closed
    BY <1>1 DEF Sound, BaseInv, TreeTypes
<1>4. dirs' \in SUBSET DirRecs /\ shipped' \in SUBSET DirRecs /\ IsFiniteSet(dirs')
    <2>1. CASE dirs' = (dirs \ {old}) \cup {new} /\ shipped' = shipped
        BY <1>2, <1>3, <2>1, ChangedDirs
    <2>2. CASE shipped' = (shipped \ {old}) \cup {new} /\ dirs' = dirs
        <3>1. shipped' \in SUBSET DirRecs
            BY <1>2, <1>3, <2>2, ChangedDirs
        <3> QED
            BY <1>3, <2>2, <3>1
    <2> QED
        BY <1>2, <2>1, <2>2
<1>5. TreeTypes'
    BY <1>1, <1>3, <1>4 DEF Sound, BaseInv, TreeTypes, Stages, AtWork
<1>6. GivenInv'
    <2>1. Below(at, Top) /\ (\A d \in dirs : Below(d.num, Top) /\ d.title <= Top) /\ Top' = Top
        BY <1>1 DEF Sound, BaseInv, GivenInv, Top
    <2>2. ASSUME NEW d \in dirs' PROVE Below(d.num, Top) /\ d.title <= Top
        <3>1. NoDir \notin DirRecs
            BY NumParts DEF DirRecs, NoDir, Dir
        <3>2. d \in dirs \/ d = new
            BY <1>2
        <3>3. dirs' # dirs => new.title <= Top
            <4>1. CASE old \in DirRecs
                <5>1. dirs' # dirs => old \in dirs
                    BY <1>2, <3>1, <4>1
                <5>2. new.title = old.title
                    BY <1>2, <3>1, <4>1
                <5> QED
                    BY <2>1, <5>1, <5>2
            <4>2. CASE old \notin DirRecs
                BY <1>2, <4>2
            <4> QED
                BY <4>1, <4>2
        <3>4. CASE d = new /\ d \notin dirs
            BY <1>2, <2>1, <3>3, <3>4
        <3> QED
            BY <2>1, <3>2, <3>4
    <2>3. RoadOK(roadmap', Top')
        BY <1>1, <2>1 DEF Sound, BaseInv, GivenInv
    <2> QED
        BY <1>1, <2>1, <2>2, <2>3 DEF GivenInv
<1>7. StatusInv'
    BY <1>1, <1>3 DEF Sound, StatusInv
<1>8. ExecutedWorkKept'
    <2>1. ASSUME NEW d \in dirs \cup shipped, d.summaries > 0
          PROVE  \E e \in dirs' \cup shipped' : e.title = d.title /\ e.summaries > 0
        <3>1. CASE d = old
            <4>1. new.title = old.title /\ new.summaries = old.summaries
                BY <1>2, <2>1, <3>1 DEF NoDir, Dir
            <4>2. new \in dirs' \cup shipped'
                BY <1>2
            <4> QED
                BY <2>1, <3>1, <4>1, <4>2
        <3>2. CASE d # old
            BY <1>2, <2>1, <3>2
        <3> QED
            BY <3>1, <3>2
    <2> QED
        BY <1>1, <2>1, WorkStays DEF Sound
<1>9. DocOK(doc')
    BY <1>1 DEF Sound, BaseInv
<1> QED
    BY <1>5, <1>6, <1>7, <1>8, <1>9 DEF Sound, BaseInv

LEMMA SoundExecutePlan ==
    ASSUME Sound, ExecutePlan
    PROVE  Sound'
<1> DEFINE d == Find(dirs, at)
           new == [d EXCEPT !.summaries = @ + 1]
<1>1. /\ stage = "execute" /\ stage' = "progress" /\ d.summaries < d.plans
      /\ dirs' = (dirs \ {d}) \cup {new} /\ executed' = executed \cup {d.title}
      /\ UNCHANGED <<roadmap, doc, at, shipped, edits, closed>>
    BY DEF ExecutePlan, Step
<1>2. dirs \in SUBSET DirRecs /\ IsFiniteSet(dirs) /\ at \in Num /\ ~closed
    BY <1>1 DEF Sound, BaseInv, TreeTypes
<1>3. d \in dirs /\ d.num = at
    <2>1. d \in dirs
        BY <1>1, <1>2, FoundCounts
    <2>2. at \in Numbers(dirs)
        <3>1. d # NoDir
            BY <1>2, <2>1, NumParts DEF DirRecs, NoDir, Dir
        <3> QED
            BY <1>2, <3>1, FindIs
    <2> QED
        BY <1>2, <2>2, FindIs
<1> HIDE DEF d
<1>4. /\ new \in DirRecs /\ new.num = at /\ new.title = d.title /\ new.summaries = d.summaries + 1
      /\ d.summaries \in Nat
    <2>1. d \in DirRecs
        BY <1>2, <1>3
    <2> QED
        BY <1>1, <1>3, <2>1 DEF DirRecs
<1> HIDE DEF new
<1>5. TreeTypes'
    <2>1. dirs' \in SUBSET DirRecs /\ IsFiniteSet(dirs')
        BY <1>1, <1>2, <1>4, ChangedDirs
    <2>2. at \in Numbers(dirs')
        BY <1>1, <1>4 DEF Numbers
    <2> QED
        BY <1>1, <1>2, <2>1, <2>2 DEF Sound, BaseInv, TreeTypes, Stages, AtWork
<1>6. GivenInv'
    <2>1. \A e \in dirs' : Below(e.num, Top) /\ e.title <= Top
        BY <1>1, <1>3, <1>4 DEF Sound, BaseInv, GivenInv
    <2> QED
        BY <1>1, <2>1 DEF Sound, BaseInv, GivenInv, Top
<1>7. StatusInv'
    BY <1>1, <1>2 DEF Sound, StatusInv
<1>8. ExecutedWorkKept'
    <2>1. new \in dirs' /\ new.summaries > 0
        BY <1>1, <1>4
    <2>2. ASSUME NEW t \in executed' PROVE \E e \in dirs' \cup shipped' : e.title = t /\ e.summaries > 0
        <3>1. CASE t = d.title
            BY <1>4, <2>1, <3>1
        <3>2. CASE t # d.title
            <4>1. PICK e \in dirs \cup shipped : e.title = t /\ e.summaries > 0
                BY <1>1, <3>2, WorkKept DEF Sound
            <4>2. e \in dirs' \cup shipped'
                BY <1>1, <3>2, <4>1
            <4> QED
                BY <4>1, <4>2
        <3> QED
            BY <3>1, <3>2
    <2> QED
        BY <2>2 DEF ExecutedWorkKept
<1>9. DocOK(doc')
    BY <1>1 DEF Sound, BaseInv
<1> QED
    BY <1>5, <1>6, <1>7, <1>8, <1>9 DEF Sound, BaseInv

LEMMA SoundVerify ==
    ASSUME Sound, Verify
    PROVE  Sound'
<1> DEFINE d == Find(dirs, at)
           new == [d EXCEPT !.verified = TRUE]
<1>1. /\ stage = "verify" /\ stage' = "complete"
      /\ dirs' = (dirs \ {d}) \cup {new}
      /\ UNCHANGED <<roadmap, doc, at, shipped, edits, closed, executed>>
    BY DEF Verify, Step
<1>2. dirs \in SUBSET DirRecs /\ IsFiniteSet(dirs) /\ at \in Num /\ ~closed /\ at \in Numbers(dirs)
    BY <1>1 DEF Sound, BaseInv, TreeTypes, AtWork
<1>3. d \in dirs /\ d.num = at
    BY <1>2, FindIs
<1> HIDE DEF d
<1>4. /\ new \in DirRecs /\ new.num = at /\ new.title = d.title /\ new.summaries = d.summaries
    <2>1. d \in DirRecs
        BY <1>2, <1>3
    <2> QED
        BY <1>3, <2>1 DEF DirRecs
<1> HIDE DEF new
<1>5. TreeTypes'
    <2>1. dirs' \in SUBSET DirRecs /\ IsFiniteSet(dirs')
        BY <1>1, <1>2, <1>4, ChangedDirs
    <2>2. at \in Numbers(dirs')
        BY <1>1, <1>4 DEF Numbers
    <2> QED
        BY <1>1, <1>2, <2>1, <2>2 DEF Sound, BaseInv, TreeTypes, Stages, AtWork
<1>6. GivenInv'
    <2>1. \A e \in dirs' : Below(e.num, Top) /\ e.title <= Top
        BY <1>1, <1>3, <1>4 DEF Sound, BaseInv, GivenInv
    <2> QED
        BY <1>1, <2>1 DEF Sound, BaseInv, GivenInv, Top
<1>7. StatusInv'
    BY <1>1, <1>2 DEF Sound, StatusInv
<1>8. ExecutedWorkKept'
    <2>1. ASSUME NEW x \in dirs \cup shipped, x.summaries > 0
          PROVE  \E e \in dirs' \cup shipped' : e.title = x.title /\ e.summaries > 0
        <3>1. new \in dirs'
            BY <1>1
        <3> QED
            BY <1>1, <1>4, <2>1, <3>1
    <2> QED
        BY <1>1, <2>1, WorkStays DEF Sound
<1>9. DocOK(doc')
    BY <1>1 DEF Sound, BaseInv
<1> QED
    BY <1>5, <1>6, <1>7, <1>8, <1>9 DEF Sound, BaseInv

\* What update-plan-progress and phase complete write in a heading.
LEMMA MarkedHeadings ==
    ASSUME NEW h \in HeadingRecs, NEW d, d.plans \in Nat, d.summaries \in Nat
    PROVE  /\ ProgressedHeading(h, d) \in HeadingRecs /\ CompletedHeading(h, d) \in HeadingRecs
           /\ ProgressedHeading(h, d).num = h.num /\ ProgressedHeading(h, d).title = h.title
           /\ CompletedHeading(h, d).num = h.num /\ CompletedHeading(h, d).title = h.title
<1>1. <<d.summaries, d.plans>> \in {<<>>} \cup (Nat \X Nat)
    OBVIOUS
<1>2. (h.done \/ d.summaries >= d.plans) \in BOOLEAN
    BY DEF HeadingRecs
<1> DEFINE c == <<d.summaries, d.plans>>
           b == h.done \/ d.summaries >= d.plans
<1>3. /\ ProgressedHeading(h, d) \in {h, [h EXCEPT !.count = c, !.done = b]}
      /\ CompletedHeading(h, d) = [h EXCEPT !.count = c, !.done = TRUE]
    BY DEF ProgressedHeading, CompletedHeading
<1>4. c \in {<<>>} \cup (Nat \X Nat) /\ b \in BOOLEAN
    BY <1>1, <1>2
<1> HIDE DEF b, c
<1>5. PICK p : p = ProgressedHeading(h, d)
    OBVIOUS
<1>6. p \in HeadingRecs /\ p.num = h.num /\ p.title = h.title
    BY <1>3, <1>4, <1>5 DEF HeadingRecs
<1> QED
    BY <1>3, <1>4, <1>5, <1>6 DEF HeadingRecs

LEMMA SoundRoadmapProgress ==
    ASSUME Sound, RoadmapProgress
    PROVE  Sound'
<1> DEFINE i == HeadingOf(at)
           d == Find(dirs, at)
           h == ProgressedHeading(roadmap[i], d)
<1>1. /\ stage = "progress" /\ stage' = "advance"
      /\ roadmap' = IF i = 0 THEN roadmap ELSE [roadmap EXCEPT ![i] = h]
      /\ UNCHANGED <<dirs, doc, at, shipped, edits, closed, executed>>
    BY DEF RoadmapProgress, Step
<1>2. /\ dirs \in SUBSET DirRecs /\ at \in Num /\ ~closed /\ at \in Numbers(dirs)
      /\ RoadOK(roadmap, Top) /\ Top \in Nat /\ roadmap \in Seq(HeadingRecs)
    BY <1>1, PlanningAssumption DEF Sound, BaseInv, TreeTypes, AtWork, GivenInv, RoadOK, Top
<1>3. d.plans \in Nat /\ d.summaries \in Nat
    BY <1>2, FoundCounts
<1>4. i \in {0} \cup DOMAIN roadmap
    BY <1>2, HeadingOfIs
<1> HIDE DEF i, d
<1>5. RoadOK(roadmap', Top)
    <2>1. CASE i = 0
        BY <1>1, <1>2, <2>1
    <2>2. CASE i # 0
        <3>1. i \in DOMAIN roadmap /\ roadmap[i] \in HeadingRecs
            BY <1>2, <1>4, <2>2, HeadingsTyped
        <3>2. h \in HeadingRecs /\ h.num = roadmap[i].num /\ h.title = roadmap[i].title
            BY <1>3, <3>1, MarkedHeadings
        <3> HIDE DEF h
        <3> QED
            BY <1>1, <1>2, <2>2, <3>1, <3>2, MarkedOK
    <2> QED
        BY <2>1, <2>2
<1>6. TreeTypes'
    BY <1>1, <1>2 DEF Sound, BaseInv, TreeTypes, Stages
<1>7. GivenInv'
    BY <1>1, <1>5 DEF Sound, BaseInv, GivenInv, Top
<1>8. StatusInv'
    BY <1>1, <1>2 DEF Sound, StatusInv
<1>9. ExecutedWorkKept' /\ DocOK(doc')
    BY <1>1 DEF Sound, BaseInv, ExecutedWorkKept
<1> QED
    BY <1>6, <1>7, <1>8, <1>9 DEF Sound, BaseInv

LEMMA SoundPhaseComplete ==
    ASSUME Sound, PhaseComplete
    PROVE  Sound'
<1> DEFINE i == HeadingOf(at)
           d == Find(dirs, at)
           h == CompletedHeading(roadmap[i], d)
           next == NextPhase(roadmap', dirs, at)
           new == CompletePhase(doc, at, next, d.summaries)
<1>1. /\ stage = "complete" /\ at' = next
      /\ roadmap' = IF i = 0 THEN roadmap ELSE [roadmap EXCEPT ![i] = h]
      /\ UNCHANGED <<dirs, shipped, edits, executed>>
      /\ doc' = Synced(new, OnDisk(roadmap', dirs'))
      /\ stage' = IF next = <<>> THEN "over" ELSE "plan"
      /\ closed' = (closed \/ next = <<>>)
    BY DEF PhaseComplete, Rewrite
<1>2. /\ dirs \in SUBSET DirRecs /\ at \in Num /\ ~closed
      /\ RoadOK(roadmap, Top) /\ Top \in Nat /\ roadmap \in Seq(HeadingRecs) /\ DocOK(doc)
    BY <1>1, PlanningAssumption DEF Sound, BaseInv, TreeTypes, AtWork, GivenInv, RoadOK, Top
<1>3. d.plans \in Nat /\ d.summaries \in Nat
    BY <1>2, FoundCounts
<1>4. i \in {0} \cup DOMAIN roadmap
    BY <1>2, HeadingOfIs
<1> HIDE DEF i, d
<1>5. RoadOK(roadmap', Top)
    <2>1. CASE i = 0
        BY <1>1, <1>2, <2>1
    <2>2. CASE i # 0
        <3>1. i \in DOMAIN roadmap /\ roadmap[i] \in HeadingRecs
            BY <1>2, <1>4, <2>2, HeadingsTyped
        <3>2. h \in HeadingRecs /\ h.num = roadmap[i].num /\ h.title = roadmap[i].title
            BY <1>3, <3>1, MarkedHeadings
        <3>3. roadmap' = [roadmap EXCEPT ![i] = h]
            BY <1>1, <2>2
        <3> HIDE DEF h
        <3> QED
            BY <1>2, <3>1, <3>2, <3>3, MarkedOK
    <2> QED
        BY <2>1, <2>2
<1>6. roadmap' \in Seq(HeadingRecs)
    BY <1>5 DEF RoadOK
<1>7. next = <<>> \/ (next \in Num /\ next \in Numbers(dirs) \cup Numbers(Headings(roadmap')))
    BY <1>2, <1>6, NextPhaseIs
<1> HIDE DEF next
<1>8. Below(next, Top)
    <2>1. CASE next = <<>>
        BY <2>1 DEF Below
    <2>2. CASE next \in Numbers(dirs)
        <3>1. PICK e \in dirs : e.num = next
            BY <2>2 DEF Numbers
        <3> QED
            BY <3>1 DEF Sound, BaseInv, GivenInv
    <2>3. CASE next \in Numbers(Headings(roadmap'))
        <3>1. PICK e \in Headings(roadmap') : e.num = next
            BY <2>3 DEF Numbers
        <3>2. PICK j \in DOMAIN roadmap' : e = roadmap'[j]
            BY <1>6, HeadingsTyped
        <3> QED
            BY <1>5, <3>1, <3>2 DEF RoadOK
    <2> QED
        BY <1>7, <2>1, <2>2, <2>3
<1>9. /\ DocOK(new) /\ new.bold = doc.bold
      /\ doc.bold => new.body["Status"] = IF next = <<>> THEN "milestoneComplete" ELSE "readyToPlan"
    BY <1>2, <1>7, CompletePhaseIs
<1> HIDE DEF new
<1>10. DocOK(doc') /\ Shown(doc') /\ doc'.body = new.body /\ doc'.bold = doc.bold
    BY <1>1, <1>9, SyncedIs
<1>11. TreeTypes'
    <2>1. <<>> \notin Num
        BY NumParts
    <2> QED
        BY <1>1, <1>2, <1>7, <2>1 DEF Sound, BaseInv, TreeTypes, Stages, AtWork
<1>12. GivenInv'
    BY <1>1, <1>5, <1>8 DEF Sound, BaseInv, GivenInv, Top
<1>13. StatusInv'
    BY <1>1, <1>2, <1>9, <1>10 DEF StatusInv
<1>14. ExecutedWorkKept'
    BY <1>1 DEF Sound, ExecutedWorkKept
<1> QED
    BY <1>10, <1>11, <1>12, <1>13, <1>14 DEF Sound, BaseInv

\* The number of phase add.
LEMMA AddNumber ==
    ASSUME NEW r, NEW set \in SUBSET DirRecs, NEW top \in Nat, RoadOK(r, top),
           \A d \in set : Below(d.num, top)
    PROVE  LET n == NextNumber(r, set)
           IN  n \in Nat \ {0} /\ n <= top + 1 /\ <<n>> \in Num /\ Below(<<n>>, top + 1)
<1> DEFINE n == NextNumber(r, set)
<1>1. r \in Seq(HeadingRecs)
    BY DEF RoadOK
<1>2. /\ n \in 1 .. Backlog
      /\ n = 1 \/ (\E h \in Headings(r) : h.num[1] = n - 1) \/ (\E d \in set : d.num[1] = n - 1)
    BY <1>1, NextNumberIs
<1>3. n \in Nat \ {0}
    BY <1>2 DEF Backlog
<1> HIDE DEF n
<1>4. n <= top + 1
    <2>1. CASE n = 1
        BY <2>1
    <2>2. CASE \E h \in Headings(r) : h.num[1] = n - 1
        <3>1. PICK i \in DOMAIN r : r[i].num[1] = n - 1
            BY <1>1, <2>2, HeadingsTyped
        <3>2. r[i].num \in Num /\ Below(r[i].num, top)
            <4>1. r[i] \in HeadingRecs
                BY <1>1, HeadingsTyped
            <4> QED
                BY <4>1 DEF HeadingRecs, RoadOK
        <3>3. r[i].num[1] <= top
            BY <3>2, BelowIs
        <3> QED
            BY <1>3, <3>1, <3>3
    <2>3. CASE \E d \in set : d.num[1] = n - 1
        <3>1. PICK d \in set : d.num[1] = n - 1
            BY <2>3
        <3>2. d.num \in Num /\ Below(d.num, top)
            BY DEF DirRecs
        <3>3. d.num[1] <= top
            BY <3>2, BelowIs
        <3> QED
            BY <1>3, <3>1, <3>3
    <2> QED
        BY <1>2, <2>1, <2>2, <2>3
<1>5. <<n>> \in Num
    BY <1>3 DEF Num
<1>6. Below(<<n>>, top + 1)
    BY <1>4 DEF Below
<1> QED
    BY <1>3, <1>4, <1>5, <1>6 DEF n

\* A directory may be below a higher bound.
LEMMA DirsMore ==
    ASSUME NEW set \in SUBSET DirRecs, NEW top \in Nat, NEW more \in Nat, top <= more,
           \A d \in set : Below(d.num, top) /\ d.title <= top
    PROVE  \A d \in set : Below(d.num, more) /\ d.title <= more
<1> SUFFICES ASSUME NEW d \in set PROVE Below(d.num, more) /\ d.title <= more
    OBVIOUS
<1>1. d.num \in Num /\ d.title \in Nat
    BY DEF DirRecs
<1>2. Below(d.num, top) /\ d.title <= top
    OBVIOUS
<1> QED
    BY <1>1, <1>2, BelowMore

LEMMA SoundPhaseAdd ==
    ASSUME Sound, PhaseAdd
    PROVE  Sound'
<1> DEFINE n == NextNumber(roadmap, dirs)
           h == Heading(<<n>>, FALSE, FreshTitle)
           e == Dir(<<n>>, FreshTitle)
<1>1. /\ edits < MaxEdits /\ edits' = edits + 1
      /\ dirs' = dirs \cup {e} /\ roadmap' = Append(roadmap, h)
      /\ at' = (IF stage = "over" THEN <<n>> ELSE at)
      /\ stage' = (IF stage = "over" THEN "plan" ELSE stage)
      /\ closed' = FALSE /\ UNCHANGED <<doc, shipped, executed>>
    BY DEF PhaseAdd, Edit, AddedHeading
<1>2. /\ dirs \in SUBSET DirRecs /\ IsFiniteSet(dirs) /\ Top \in Nat /\ edits \in Nat /\ MaxEdits \in Nat
      /\ RoadOK(roadmap, Top) /\ (\A d \in dirs : Below(d.num, Top) /\ d.title <= Top)
      /\ Below(at, Top) /\ at \in Num \cup {<<>>}
    BY PlanningAssumption DEF Sound, BaseInv, TreeTypes, GivenInv, Top
<1>3. Top' = Top + 1 /\ FreshTitle = Top + 1 /\ Top + 1 \in Nat
    BY <1>1, <1>2, PlanningAssumption DEF Top, FreshTitle
<1>4. n \in Nat \ {0} /\ n <= Top + 1 /\ <<n>> \in Num /\ Below(<<n>>, Top + 1)
    BY <1>2, AddNumber
<1> HIDE DEF n
<1>5. /\ h \in HeadingRecs /\ h.num = <<n>> /\ h.title = Top + 1
      /\ e \in DirRecs /\ e.num = <<n>> /\ e.title = Top + 1
    BY <1>3, <1>4, Typed DEF Heading, Dir
<1> HIDE DEF h, e
<1>6. RoadOK(roadmap', Top')
    BY <1>1, <1>2, <1>3, <1>4, <1>5, AddedOK
<1>7. TreeTypes'
    <2>1. dirs' \in SUBSET DirRecs /\ IsFiniteSet(dirs')
        BY <1>1, <1>2, <1>5, FS_AddElement
    <2>2. at \in Numbers(dirs) => at \in Numbers(dirs')
        BY <1>1 DEF Numbers
    <2>3. <<n>> # <<>>
        BY <1>4, NumParts
    <2> QED
        BY <1>1, <1>2, <1>4, <2>1, <2>2, <2>3 DEF Sound, BaseInv, TreeTypes, Stages, AtWork
<1>8. GivenInv'
    <2>0. Top <= Top + 1
        BY <1>2
    <2>1. \A d \in dirs : Below(d.num, Top + 1) /\ d.title <= Top + 1
        BY <1>2, <1>3, <2>0, DirsMore
    <2>2. \A d \in dirs' : Below(d.num, Top + 1) /\ d.title <= Top + 1
        BY <1>1, <1>3, <1>4, <1>5, <2>1
    <2>3. Below(at, Top + 1)
        <3>1. CASE at = <<>>
            BY <3>1 DEF Below
        <3>2. CASE at \in Num
            BY <1>2, <1>3, <3>2, BelowMore
        <3> QED
            BY <1>2, <3>1, <3>2
    <2> QED
        BY <1>1, <1>3, <1>4, <1>6, <2>2, <2>3 DEF GivenInv
<1>9. StatusInv'
    BY <1>1 DEF Sound, StatusInv
<1>10. ExecutedWorkKept' /\ DocOK(doc')
    BY <1>1 DEF Sound, BaseInv, ExecutedWorkKept
<1> QED
    BY <1>7, <1>8, <1>9, <1>10 DEF Sound, BaseInv

LEMMA SoundPhaseAddBatch ==
    ASSUME Sound, PhaseAddBatch
    PROVE  Sound'
<1> DEFINE n == NextNumber(roadmap, dirs)
           h1 == Heading(<<n>>, FALSE, FreshTitle)
           h2 == Heading(<<n + 1>>, FALSE, FreshTitle + 1)
           e1 == Dir(<<n>>, FreshTitle)
           e2 == Dir(<<n + 1>>, FreshTitle + 1)
<1>1. /\ edits + 1 < MaxEdits /\ edits' = edits + 2 /\ stage # "over"
      /\ dirs' = dirs \cup {e1, e2} /\ roadmap' = Append(Append(roadmap, h1), h2)
      /\ UNCHANGED <<doc, shipped, at, stage, executed, closed>>
    BY DEF PhaseAddBatch, AddedHeading
<1>2. /\ dirs \in SUBSET DirRecs /\ IsFiniteSet(dirs) /\ Top \in Nat /\ edits \in Nat /\ MaxEdits \in Nat
      /\ RoadOK(roadmap, Top) /\ (\A d \in dirs : Below(d.num, Top) /\ d.title <= Top)
      /\ Below(at, Top) /\ at \in Num
    BY <1>1, PlanningAssumption DEF Sound, BaseInv, TreeTypes, GivenInv, Top
<1>3. /\ Top' = Top + 2 /\ FreshTitle = Top + 1 /\ FreshTitle + 1 = Top + 2
      /\ Top + 1 \in Nat /\ Top + 2 \in Nat /\ (Top + 1) + 1 = Top + 2
    BY <1>1, <1>2, PlanningAssumption DEF Top, FreshTitle
<1>4. n \in Nat \ {0} /\ n <= Top + 1 /\ <<n>> \in Num /\ Below(<<n>>, Top + 1)
    BY <1>2, AddNumber
<1> HIDE DEF n
<1>5. <<n + 1>> \in Num /\ Below(<<n + 1>>, Top + 2)
    BY <1>2, <1>4 DEF Num, Below
<1>6. /\ h1 \in HeadingRecs /\ h1.num = <<n>> /\ h1.title = Top + 1
      /\ h2 \in HeadingRecs /\ h2.num = <<n + 1>> /\ h2.title = Top + 2
      /\ e1 \in DirRecs /\ e1.num = <<n>> /\ e1.title = Top + 1
      /\ e2 \in DirRecs /\ e2.num = <<n + 1>> /\ e2.title = Top + 2
    BY <1>3, <1>4, <1>5, Typed DEF Heading, Dir
<1> HIDE DEF h1, h2, e1, e2
<1>7. RoadOK(roadmap', Top')
    <2>1. RoadOK(Append(roadmap, h1), Top + 1)
        BY <1>2, <1>4, <1>6, AddedOK
    <2>2. RoadOK(Append(Append(roadmap, h1), h2), (Top + 1) + 1)
        BY <1>3, <1>5, <1>6, <2>1, AddedOK
    <2> QED
        BY <1>1, <1>3, <2>2
<1>8. TreeTypes'
    <2>1. dirs' = (dirs \cup {e1}) \cup {e2}
        BY <1>1
    <2>2. dirs' \in SUBSET DirRecs /\ IsFiniteSet(dirs')
        BY <1>2, <1>6, <2>1, FS_AddElement
    <2>3. at \in Numbers(dirs) => at \in Numbers(dirs')
        BY <1>1 DEF Numbers
    <2> QED
        BY <1>1, <1>2, <2>2, <2>3 DEF Sound, BaseInv, TreeTypes
<1>9. GivenInv'
    <2>1. \A d \in dirs : Below(d.num, Top + 2) /\ d.title <= Top + 2
        BY <1>2, <1>3, DirsMore
    <2>2. Below(<<n>>, Top + 2) /\ Below(at, Top + 2)
        BY <1>2, <1>3, <1>4, BelowMore
    <2>3. \A d \in dirs' : Below(d.num, Top + 2) /\ d.title <= Top + 2
        <3>1. Below(e1.num, Top + 2) /\ e1.title <= Top + 2 /\ Below(e2.num, Top + 2) /\ e2.title <= Top + 2
            BY <1>2, <1>5, <1>6, <2>2
        <3> QED
            BY <1>1, <2>1, <3>1
    <2> QED
        BY <1>1, <1>3, <1>7, <2>2, <2>3 DEF GivenInv
<1>10. StatusInv'
    BY <1>1 DEF Sound, StatusInv
<1>11. ExecutedWorkKept' /\ DocOK(doc')
    BY <1>1 DEF Sound, BaseInv, ExecutedWorkKept
<1> QED
    BY <1>8, <1>9, <1>10, <1>11 DEF Sound, BaseInv

\* The numbers of the headings.
LEMMA HeadingNumbers ==
    ASSUME NEW r, NEW top, RoadOK(r, top)
    PROVE  /\ Numbers(Headings(r)) \subseteq Num
           /\ \A h \in Headings(r) : Below(h.num, top) /\ h.title <= top
<1>1. r \in Seq(HeadingRecs) /\ \A h \in Headings(r) : h \in HeadingRecs /\ \E i \in DOMAIN r : h = r[i]
    BY HeadingsTyped DEF RoadOK
<1> QED
    BY <1>1 DEF RoadOK, Numbers, HeadingRecs

\* The phase inserted.
LEMMA PhaseInsertIs ==
    ASSUME BaseInv, NEW num \in Numbers(Headings(roadmap)), PhaseInsert(num)
    PROVE  /\ Top' = Top + 1 /\ Top + 1 \in Nat /\ edits' = edits + 1 /\ edits < MaxEdits /\ stage # "over"
           /\ num \in Num /\ Len(num) = 1 /\ RoadOK(roadmap', Top + 1)
           /\ UNCHANGED <<doc, shipped, at, stage, executed, closed, doubled>>
           /\ LET next == NextDecimal(roadmap, dirs, num)
              IN  /\ dirs' = dirs \cup {Dir(next, Top + 1)}
                  /\ next \in Num /\ Len(next) = 2 /\ Below(next, Top + 1) /\ next \notin Numbers(dirs)
                  /\ \A h \in Headings(roadmap) : h.num = next => ~h.padded
<1> DEFINE i == Target(roadmap, num)
           next == NextDecimal(roadmap, dirs, num)
           h == Heading(next, TRUE, FreshTitle)
<1>1. /\ edits < MaxEdits /\ edits' = edits + 1 /\ i # 0 /\ Len(num) = 1 /\ stage # "over"
      /\ dirs' = dirs \cup {Dir(next, FreshTitle)}
      /\ roadmap' = InsertAt(roadmap, i + 1, h)
      /\ UNCHANGED <<doc, shipped, at, stage, executed, closed, doubled>>
    BY DEF PhaseInsert, Edit, InsertedHeading
<1>2. /\ dirs \in SUBSET DirRecs /\ Top \in Nat /\ edits \in Nat
      /\ RoadOK(roadmap, Top) /\ (\A d \in dirs : Below(d.num, Top) /\ d.title <= Top)
    BY PlanningAssumption DEF BaseInv, TreeTypes, GivenInv, Top
<1>3. Top' = Top + 1 /\ FreshTitle = Top + 1 /\ Top + 1 \in Nat
    BY <1>1, <1>2, PlanningAssumption DEF Top, FreshTitle
<1>4. num \in Num /\ roadmap \in Seq(HeadingRecs) /\ \A g \in Headings(roadmap) : Below(g.num, Top)
    BY <1>2, HeadingNumbers DEF RoadOK
<1>5. /\ next \in Num /\ Len(next) = 2 /\ next[1] = num[1] /\ next[2] <= Top + 1
      /\ next \notin Numbers(dirs)
      /\ \A g \in Headings(roadmap) : g.num = next => ~g.padded
    BY <1>1, <1>2, <1>4, NextDecimalIs
<1>6. i \in 0 .. Len(roadmap)
    <2>1. i \in {0} \cup DOMAIN roadmap
        BY <1>4, TargetIs
    <2>2. DOMAIN roadmap = 1 .. Len(roadmap) /\ Len(roadmap) \in Nat
        BY <1>4
    <2> QED
        BY <2>1, <2>2
<1> HIDE DEF i, next
<1>7. Below(next, Top + 1)
    <2>1. Below(num, Top)
        <3>1. PICK g \in Headings(roadmap) : g.num = num
            BY DEF Numbers
        <3> QED
            BY <1>4, <3>1
    <2>2. num[1] <= Top /\ num[1] \in Nat
        BY <1>2, <1>4, <2>1, BelowIs, NumParts
    <2>3. next[1] <= Top + 1
        BY <1>2, <1>5, <2>2
    <2> QED
        BY <1>3, <1>5, <2>3, BelowIs
<1>8. h \in HeadingRecs /\ h.num = next /\ h.title = Top + 1
    BY <1>3, <1>5, Typed DEF Heading
<1> HIDE DEF h
<1>9. RoadOK(roadmap', Top + 1)
    <2>1. i + 1 \in 1 .. Len(roadmap) + 1
        BY <1>4, <1>6
    <2> QED
        BY <1>1, <1>2, <1>7, <1>8, <2>1, InsertedOK
<1> QED
    BY <1>1, <1>3, <1>4, <1>5, <1>7, <1>9 DEF next

LEMMA SoundPhaseInsert ==
    ASSUME Sound, NEW num \in Numbers(Headings(roadmap)), PhaseInsert(num)
    PROVE  Sound'
<1> DEFINE next == NextDecimal(roadmap, dirs, num)
           e == Dir(next, Top + 1)
<1>1. /\ Top' = Top + 1 /\ Top + 1 \in Nat /\ edits' = edits + 1 /\ edits < MaxEdits /\ stage # "over"
      /\ RoadOK(roadmap', Top + 1) /\ dirs' = dirs \cup {e}
      /\ next \in Num /\ Below(next, Top + 1)
      /\ UNCHANGED <<doc, shipped, at, stage, executed, closed>>
    BY PhaseInsertIs DEF Sound
<1> HIDE DEF next
<1>2. /\ dirs \in SUBSET DirRecs /\ IsFiniteSet(dirs) /\ Top \in Nat /\ edits \in Nat /\ MaxEdits \in Nat
      /\ (\A d \in dirs : Below(d.num, Top) /\ d.title <= Top) /\ Below(at, Top) /\ at \in Num
    BY <1>1, PlanningAssumption DEF Sound, BaseInv, TreeTypes, GivenInv, Top
<1>3. e \in DirRecs /\ e.num = next /\ e.title = Top + 1
    BY <1>1, Typed DEF Dir
<1> HIDE DEF e
<1>4. TreeTypes'
    <2>1. dirs' \in SUBSET DirRecs /\ IsFiniteSet(dirs')
        BY <1>1, <1>2, <1>3, FS_AddElement
    <2>2. at \in Numbers(dirs) => at \in Numbers(dirs')
        BY <1>1 DEF Numbers
    <2> QED
        BY <1>1, <1>2, <2>1, <2>2 DEF Sound, BaseInv, TreeTypes
<1>5. GivenInv'
    <2>0. Top <= Top + 1
        BY <1>2
    <2>1. \A d \in dirs : Below(d.num, Top + 1) /\ d.title <= Top + 1
        BY <1>1, <1>2, <2>0, DirsMore
    <2>2. Below(at, Top + 1)
        BY <1>1, <1>2, BelowMore
    <2>3. \A d \in dirs' : Below(d.num, Top + 1) /\ d.title <= Top + 1
        BY <1>1, <1>3, <2>1
    <2> QED
        BY <1>1, <2>2, <2>3 DEF GivenInv
<1>6. StatusInv'
    BY <1>1 DEF Sound, StatusInv
<1>7. ExecutedWorkKept' /\ DocOK(doc')
    BY <1>1 DEF Sound, BaseInv, ExecutedWorkKept
<1> QED
    BY <1>4, <1>5, <1>6, <1>7 DEF Sound, BaseInv

\* A number whose first part is another.
LEMMA FirstPartOther ==
    ASSUME NEW a \in Nat, NEW b \in Nat, NEW c \in Nat
    PROVE  <<c>> \o Tail(<<a>>) = <<c>> /\ <<c>> \o Tail(<<a, b>>) = <<c, b>>
<1> DEFINE x == <<a>>
           y == <<a, b>>
           z == <<c>>
<1>1. /\ x \in Seq(Nat) /\ Len(x) = 1 /\ y \in Seq(Nat) /\ Len(y) = 2 /\ y[2] = b
      /\ z \in Seq(Nat) /\ Len(z) = 1 /\ x # <<>> /\ y # <<>>
    OBVIOUS
<1> HIDE DEF x, y, z
<1>2. Tail(x) \in Seq(Nat) /\ Len(Tail(x)) = 0
    BY <1>1, HeadTailProperties
<1>3. Tail(x) = <<>>
    BY <1>2, EmptySeq
<1>4. z \o Tail(x) = z
    BY <1>1, <1>3, ConcatEmptySeq
<1>5. Tail(y) \in Seq(Nat) /\ Len(Tail(y)) = 1 /\ Tail(y)[1] = b
    <2>1. /\ Tail(y) \in Seq(Nat) /\ Len(Tail(y)) = Len(y) - 1
          /\ \A i \in 1 .. Len(Tail(y)) : Tail(y)[i] = y[i + 1]
        BY <1>1, HeadTailProperties
    <2>2. Len(Tail(y)) = 1
        BY <1>1, <2>1
    <2>3. 1 \in 1 .. Len(Tail(y)) /\ 1 + 1 = 2
        BY <2>2
    <2>4. Tail(y)[1] = y[1 + 1]
        BY <2>1, <2>3
    <2> QED
        BY <1>1, <2>1, <2>2, <2>3, <2>4
<1> DEFINE w == <<b>>
<1>6. w \in Seq(Nat) /\ Len(w) = 1 /\ w[1] = b
    OBVIOUS
<1> HIDE DEF w
<1>7. Tail(y) = w
    <2>1. \A i \in 1 .. 1 : Tail(y)[i] = w[i]
        BY <1>5, <1>6
    <2> QED
        BY <1>5, <1>6, <2>1, SeqEqual
<1> USE DEF w
<1>8. <<c>> \o <<b>> = <<c, b>>
    BY OneNumber
<1> QED
    BY <1>4, <1>7, <1>8 DEF x, y, z

\* The phase removed, and what the phase at hand is called afterwards.
LEMMA PhaseRemoveIs ==
    ASSUME BaseInv, NEW num \in Numbers(Headings(roadmap)), NEW force \in BOOLEAN, PhaseRemove(num, force)
    PROVE  LET d == Find(dirs, num)
           IN  /\ num \in Num /\ at \in Num /\ num # at /\ stage # "over" /\ edits < MaxEdits /\ edits' = edits + 1
               /\ d = NoDir \/ d.summaries = 0 \/ force
               /\ dirs' = RemovedDirs(dirs, num) /\ RoadOK(roadmap', Top) /\ at' = Renumbered(at, num)
               /\ executed' = IF force THEN executed \ {d.title} ELSE executed
               /\ doubled' = (doubled \/ ~Distinct(dirs'))
               /\ doc' = Synced(RemovePhase(doc), OnDisk(roadmap', dirs'))
               /\ UNCHANGED <<shipped, stage, closed>>
<1>1. /\ edits < MaxEdits /\ edits' = edits + 1 /\ stage # "over" /\ num # at
      /\ Find(dirs, num) = NoDir \/ Find(dirs, num).summaries = 0 \/ force
      /\ dirs' = RemovedDirs(dirs, num)
      /\ roadmap' = RemovedHeading(roadmap, num, Padded(num))
      /\ at' = (IF Len(num) = 1 /\ at[1] > num[1] THEN <<at[1] - 1>> \o Tail(at)
                ELSE IF Len(num) = 2 /\ Len(at) = 2 /\ at[1] = num[1] /\ at[2] > num[2]
                THEN <<at[1], at[2] - 1>> ELSE at)
      /\ executed' = IF force THEN executed \ {Find(dirs, num).title} ELSE executed
      /\ doubled' = (doubled \/ ~Distinct(dirs'))
      /\ doc' = Synced(RemovePhase(doc), OnDisk(roadmap', dirs'))
      /\ UNCHANGED <<shipped, stage, closed>>
    BY DEF PhaseRemove, Edit, Rewrite
<1>2. RoadOK(roadmap, Top) /\ Top \in Nat /\ at \in Num /\ num \in Num
    <2>1. RoadOK(roadmap, Top) /\ Top \in Nat /\ at \in Num
        BY <1>1, PlanningAssumption DEF BaseInv, TreeTypes, GivenInv, Top
    <2> QED
        BY <2>1, HeadingNumbers
<1>3. RoadOK(roadmap', Top)
    BY <1>1, <1>2, RemovedOK
<1>4. at' = Renumbered(at, num)
    <2>1. /\ Len(num) \in 1 .. 2 /\ Len(at) \in 1 .. 2 /\ at[1] \in Nat \ {0} /\ num[1] \in Nat \ {0}
          /\ Len(at) = 1 => at = <<at[1]>>
          /\ Len(at) = 2 => at = <<at[1], at[2]>> /\ at[2] \in Nat
        BY <1>2, NumParts
    <2>2. CASE Len(num) = 1 /\ at[1] > num[1]
        <3>1. at' = <<at[1] - 1>> \o Tail(at)
            BY <1>1, <2>2
        <3>2. at[1] - 1 \in Nat
            BY <2>1, <2>2
        <3>3. CASE Len(at) = 1
            <4>1. <<at[1] - 1>> \o Tail(<<at[1]>>) = <<at[1] - 1>>
                BY <2>1, <3>2, FirstPartOther
            <4> QED
                BY <2>1, <2>2, <3>1, <3>3, <4>1 DEF Renumbered
        <3>4. CASE Len(at) = 2
            <4>1. <<at[1] - 1>> \o Tail(<<at[1], at[2]>>) = <<at[1] - 1, at[2]>>
                BY <2>1, <3>2, <3>4, FirstPartOther
            <4>2. Tail(at) = Tail(<<at[1], at[2]>>)
                BY <2>1, <3>4
            <4>3. at' = <<at[1] - 1, at[2]>>
                BY <3>1, <4>1, <4>2
            <4>4. Renumbered(at, num) = <<at[1] - 1, at[2]>>
                BY <2>2, <3>4 DEF Renumbered
            <4> QED
                BY <4>3, <4>4
        <3> QED
            BY <2>1, <3>3, <3>4
    <2>3. CASE Len(num) = 1 /\ ~(at[1] > num[1])
        BY <1>1, <2>3 DEF Renumbered
    <2>4. CASE Len(num) = 2
        BY <1>1, <2>4 DEF Renumbered
    <2> QED
        BY <2>1, <2>2, <2>3, <2>4
<1> QED
    BY <1>1, <1>2, <1>3, <1>4

\* The directory of the phase at hand stays when another phase is removed.
LEMMA OthersStay ==
    ASSUME NEW set \in SUBSET DirRecs, NEW num \in Num, NEW p \in Num, p # num, p \in Numbers(set)
    PROVE  Renumbered(p, num) \in Numbers(RemovedDirs(set, num))
<1>1. PICK d \in set : d.num = p
    BY DEF Numbers
<1>2. d # Find(set, num)
    <2>1. CASE num \in Numbers(set)
        BY <1>1, <2>1, FindIs
    <2>2. CASE num \notin Numbers(set)
        BY <1>1, <2>2, FindIs, NumParts DEF NoDir, Dir
    <2> QED
        BY <2>1, <2>2
<1>3. PICK e \in RemovedDirs(set, num) : e.num = Renumbered(d.num, num)
    <2>1. \A x \in set \ {Find(set, num)} : \E e \in RemovedDirs(set, num) :
              /\ e.num = Renumbered(x.num, num) /\ e.title = x.title /\ e.plans = x.plans
              /\ e.summaries = x.summaries /\ e.verified = x.verified
        BY RemovedDirsAre
    <2> QED
        BY <1>2, <2>1
<1> QED
    BY <1>1, <1>3 DEF Numbers

LEMMA SoundPhaseRemove ==
    ASSUME Sound, NEW num \in Numbers(Headings(roadmap)), NEW force \in BOOLEAN, PhaseRemove(num, force)
    PROVE  Sound'
<1> DEFINE x == Find(dirs, num)
           new == RemovePhase(doc)
<1>1. /\ num \in Num /\ at \in Num /\ num # at /\ stage # "over" /\ edits < MaxEdits /\ edits' = edits + 1
      /\ x = NoDir \/ x.summaries = 0 \/ force
      /\ dirs' = RemovedDirs(dirs, num) /\ RoadOK(roadmap', Top) /\ at' = Renumbered(at, num)
      /\ executed' = IF force THEN executed \ {x.title} ELSE executed
      /\ doc' = Synced(new, OnDisk(roadmap', dirs'))
      /\ UNCHANGED <<shipped, stage, closed>>
    BY PhaseRemoveIs DEF Sound
<1> HIDE DEF x
<1>2. /\ dirs \in SUBSET DirRecs /\ IsFiniteSet(dirs) /\ Top \in Nat /\ edits \in Nat /\ MaxEdits \in Nat
      /\ (\A d \in dirs : Below(d.num, Top) /\ d.title <= Top) /\ Below(at, Top) /\ DocOK(doc) /\ ~closed
    BY <1>1, PlanningAssumption DEF Sound, BaseInv, TreeTypes, GivenInv, Top
<1>3. /\ dirs' \in SUBSET DirRecs /\ IsFiniteSet(dirs')
      /\ \A e \in dirs' : \E d \in dirs \ {x} :
            /\ e.num = Renumbered(d.num, num) /\ e.title = d.title /\ e.plans = d.plans
            /\ e.summaries = d.summaries /\ e.verified = d.verified
      /\ \A d \in dirs \ {x} : \E e \in dirs' :
            /\ e.num = Renumbered(d.num, num) /\ e.title = d.title /\ e.plans = d.plans
            /\ e.summaries = d.summaries /\ e.verified = d.verified
    BY <1>1, <1>2, RemovedDirsAre DEF x
<1>4. Top' = Top + 1 /\ Top + 1 \in Nat /\ Top <= Top + 1
    BY <1>1, <1>2, PlanningAssumption DEF Top
<1>5. at' \in Num /\ Below(at', Top)
    BY <1>1, <1>2, RenumberedIs
<1>6. TreeTypes'
    <2>1. at' # <<>>
        BY <1>5, NumParts
    <2>2. at \in Numbers(dirs) => at' \in Numbers(dirs')
        BY <1>1, <1>2, OthersStay
    <2> QED
        BY <1>1, <1>2, <1>3, <1>5, <2>1, <2>2 DEF Sound, BaseInv, TreeTypes
<1>7. GivenInv'
    <2>1. \A e \in dirs' : Below(e.num, Top) /\ e.title <= Top
        <3> SUFFICES ASSUME NEW e \in dirs' PROVE Below(e.num, Top) /\ e.title <= Top
            OBVIOUS
        <3>1. PICK d \in dirs : e.num = Renumbered(d.num, num) /\ e.title = d.title
            BY <1>3
        <3>2. d.num \in Num /\ Below(d.num, Top) /\ d.title <= Top
            BY <1>2 DEF DirRecs
        <3> QED
            BY <1>1, <1>2, <3>1, <3>2, RenumberedIs
    <2>2. \A e \in dirs' : Below(e.num, Top + 1) /\ e.title <= Top + 1
        BY <1>2, <1>3, <1>4, <2>1, DirsMore
    <2>3. Below(at', Top + 1)
        BY <1>2, <1>4, <1>5, BelowMore
    <2>4. RoadOK(roadmap', Top + 1)
        BY <1>1, <1>2, <1>4, RoadMore
    <2> QED
        BY <1>4, <2>2, <2>3, <2>4 DEF GivenInv
<1>8. /\ DocOK(new) /\ new.bold = doc.bold /\ DOMAIN new.body = DOMAIN doc.body
      /\ \A g \in DOMAIN doc.body \ {"Phase", "TotalPhases"} : new.body[g] = doc.body[g]
    BY <1>2, RemoveIs
<1> HIDE DEF new
<1>9. DocOK(doc') /\ Shown(doc') /\ doc'.body = new.body /\ doc'.bold = new.bold
    BY <1>1, <1>8, SyncedIs
<1>10. StatusInv'
    <2>1. "Status" \in DOMAIN doc.body /\ (doc.bold => {"CurrentPlan", "TotalPlans"} \subseteq DOMAIN doc.body)
        BY <1>2 DEF DocOK, IsDoc, BoldFields, PlainFields
    <2>2. doc'.body["Status"] = doc.body["Status"]
        BY <1>8, <1>9, <2>1
    <2>3. doc.bold => /\ doc'.body["CurrentPlan"] = doc.body["CurrentPlan"]
                      /\ doc'.body["TotalPlans"] = doc.body["TotalPlans"]
        BY <1>8, <1>9, <2>1
    <2> QED
        BY <1>1, <1>8, <1>9, <2>2, <2>3 DEF Sound, StatusInv
<1>11. ExecutedWorkKept'
    <2>1. ASSUME NEW d \in dirs \cup shipped, d.summaries > 0
          PROVE  d.title \notin executed' \/ \E e \in dirs' \cup shipped' : e.title = d.title /\ e.summaries > 0
        <3>1. CASE d = x /\ d \in dirs
            <4>1. d # NoDir /\ d.summaries # 0
                BY <1>2, <2>1, <3>1, NumParts DEF NoDir, Dir, DirRecs
            <4> QED
                BY <1>1, <3>1, <4>1
        <3>2. CASE d \in shipped
            BY <1>1, <2>1, <3>2
        <3>3. CASE d # x /\ d \in dirs
            <4>1. PICK e \in dirs' : e.title = d.title /\ e.summaries = d.summaries
                BY <1>3, <3>3
            <4> QED
                BY <2>1, <4>1
        <3> QED
            BY <3>1, <3>2, <3>3
    <2>2. executed' \subseteq executed
        BY <1>1
    <2> QED
        BY <2>1, <2>2, WorkStays DEF Sound
<1> QED
    BY <1>6, <1>7, <1>9, <1>10, <1>11 DEF Sound, BaseInv

LEMMA SoundMilestoneComplete ==
    ASSUME Sound, MilestoneComplete
    PROVE  Sound'
<1> DEFINE new == Replace(doc, "Status", "milestoneComplete")
           gone == Archived(roadmap, dirs)
<1>1. /\ stage = "over" /\ shipped' = shipped \cup gone /\ dirs' = dirs \ gone
      /\ doc' = Synced(new, OnDisk(roadmap, dirs))
      /\ UNCHANGED <<roadmap, at, stage, edits, executed, closed>>
    BY DEF MilestoneComplete
<1>2. /\ dirs \in SUBSET DirRecs /\ shipped \in SUBSET DirRecs /\ IsFiniteSet(dirs) /\ DocOK(doc)
      /\ gone \subseteq dirs
    BY DEF Sound, BaseInv, TreeTypes, Archived
<1> HIDE DEF gone
<1>3. DocOK(new) /\ new.bold = doc.bold /\ (doc.bold => new.body["Status"] = "milestoneComplete")
    BY <1>2, MilestoneIs
<1> HIDE DEF new
<1>4. DocOK(doc') /\ Shown(doc') /\ doc'.body = new.body /\ doc'.bold = new.bold
    BY <1>1, <1>3, SyncedIs
<1>5. TreeTypes'
    <2>1. IsFiniteSet(dirs')
        BY <1>1, <1>2, FS_Subset
    <2> QED
        BY <1>1, <1>2, <2>1 DEF Sound, BaseInv, TreeTypes, AtWork
<1>6. GivenInv'
    BY <1>1 DEF Sound, BaseInv, GivenInv, Top
<1>7. StatusInv'
    BY <1>1, <1>3, <1>4 DEF Sound, StatusInv
<1>8. ExecutedWorkKept'
    BY <1>1, <1>2, WorkStays DEF Sound
<1> QED
    BY <1>4, <1>5, <1>6, <1>7, <1>8 DEF Sound, BaseInv

LEMMA SoundPhasesClear ==
    ASSUME Sound, PhasesClear
    PROVE  Sound'
<1> DEFINE gone == Cleared(dirs)
<1>1. /\ stage = "over" /\ dirs' = dirs \ gone /\ executed' = executed \ {d.title : d \in gone}
      /\ UNCHANGED <<roadmap, doc, shipped, at, stage, edits, closed>>
    BY DEF PhasesClear
<1>2. dirs \in SUBSET DirRecs /\ IsFiniteSet(dirs)
    BY DEF Sound, BaseInv, TreeTypes
<1> HIDE DEF gone
<1>3. TreeTypes'
    <2>1. IsFiniteSet(dirs')
        BY <1>1, <1>2, FS_Subset
    <2> QED
        BY <1>1, <1>2, <2>1 DEF Sound, BaseInv, TreeTypes, AtWork
<1>4. GivenInv'
    BY <1>1 DEF Sound, BaseInv, GivenInv, Top
<1>5. StatusInv'
    BY <1>1 DEF Sound, StatusInv
<1>6. ExecutedWorkKept'
    BY <1>1, WorkStays DEF Sound
<1>7. DocOK(doc')
    BY <1>1 DEF Sound, BaseInv
<1> QED
    BY <1>3, <1>4, <1>5, <1>6, <1>7 DEF Sound, BaseInv

LEMMA SoundNewMilestone ==
    ASSUME Sound, NEW reset \in BOOLEAN, NewMilestone(reset)
    PROVE  Sound'
<1> DEFINE n == IF reset THEN 1 ELSE NextNumber(roadmap, dirs)
           h == Heading(<<n>>, FALSE, FreshTitle)
<1>1. /\ edits < MaxEdits /\ edits' = edits + 1 /\ stage = "over"
      /\ roadmap' = <<h>>
      /\ shipped' = (IF reset THEN shipped \cup dirs ELSE shipped)
      /\ dirs' = (IF reset THEN {} ELSE dirs)
      /\ at' = <<n>> /\ stage' = "plan" /\ closed' = FALSE /\ UNCHANGED <<doc, executed>>
    BY DEF NewMilestone, Edit
<1>2. /\ dirs \in SUBSET DirRecs /\ shipped \in SUBSET DirRecs /\ IsFiniteSet(dirs) /\ Top \in Nat
      /\ edits \in Nat /\ MaxEdits \in Nat
      /\ RoadOK(roadmap, Top) /\ (\A d \in dirs : Below(d.num, Top) /\ d.title <= Top)
    BY PlanningAssumption DEF Sound, BaseInv, TreeTypes, GivenInv, Top
<1>3. Top' = Top + 1 /\ FreshTitle = Top + 1 /\ Top + 1 \in Nat /\ Top <= Top + 1
    BY <1>1, <1>2, PlanningAssumption DEF Top, FreshTitle
<1>4. <<n>> \in Num /\ Below(<<n>>, Top + 1)
    <2>1. CASE reset
        <3>1. n = 1 /\ 1 <= Top + 1
            BY <1>2, <2>1
        <3> QED
            BY <3>1 DEF Num, Below
    <2>2. CASE ~reset
        <3>1. n = NextNumber(roadmap, dirs)
            BY <2>2
        <3> QED
            BY <1>2, <3>1, AddNumber
    <2> QED
        BY <2>1, <2>2
<1> HIDE DEF n
<1>5. h \in HeadingRecs /\ h.num = <<n>> /\ h.title = Top + 1
    BY <1>3, <1>4, Typed DEF Heading
<1> HIDE DEF h
<1>6. RoadOK(roadmap', Top + 1)
    <2>1. roadmap' \in Seq(HeadingRecs) /\ DOMAIN roadmap' = {1} /\ roadmap'[1] = h
        BY <1>1, <1>5
    <2> QED
        BY <1>3, <1>4, <1>5, <2>1 DEF RoadOK
<1>7. TreeTypes'
    <2>1. dirs' \in SUBSET DirRecs /\ shipped' \in SUBSET DirRecs /\ IsFiniteSet(dirs')
        BY <1>1, <1>2, FS_EmptySet
    <2>2. <<n>> # <<>>
        BY <1>4, NumParts
    <2> QED
        BY <1>1, <1>2, <1>4, <2>1, <2>2 DEF TreeTypes, Stages, AtWork
<1>8. GivenInv'
    <2>1. \A d \in dirs : Below(d.num, Top + 1) /\ d.title <= Top + 1
        BY <1>2, <1>3, DirsMore
    <2> QED
        BY <1>1, <1>3, <1>4, <1>6, <2>1 DEF GivenInv
<1>9. StatusInv'
    BY <1>1 DEF Sound, StatusInv
<1>10. ExecutedWorkKept'
    BY <1>1, WorkStays DEF Sound
<1>11. DocOK(doc')
    BY <1>1 DEF Sound, BaseInv
<1> QED
    BY <1>7, <1>8, <1>9, <1>10, <1>11 DEF Sound, BaseInv

\* The plan at the start.
LEMMA SoundInit ==
    ASSUME PlanInit
    PROVE  Sound
<1>1. /\ dirs = {} /\ shipped = {} /\ executed = {} /\ closed = FALSE /\ doubled = FALSE
      /\ at = <<1>> /\ stage = "plan" /\ edits = 0 /\ Written \in Nat \ {0} /\ MaxEdits \in Nat
    BY PlanningAssumption DEF PlanInit
<1>2. PICK decimal \in BOOLEAN :
        roadmap = [i \in 1 .. Written |->
                      Heading(IF decimal /\ i = 2 THEN <<1, 1>>
                              ELSE IF decimal /\ i > 2 THEN <<i - 1>> ELSE <<i>>, FALSE, i)]
    BY DEF PlanInit
<1>3. PICK bold \in BOOLEAN : doc = NewDoc(bold, Written)
    BY DEF PlanInit
<1>4. <<1>> \in Num /\ <<1>> # <<>> /\ Top = Written /\ Written \in Nat
    BY <1>1 DEF Num, Top
<1>5. RoadOK(roadmap, Written)
    <2> DEFINE num(i) == IF decimal /\ i = 2 THEN <<1, 1>> ELSE IF decimal /\ i > 2 THEN <<i - 1>> ELSE <<i>>
    <2>1. ASSUME NEW i \in 1 .. Written
          PROVE  num(i) \in Num /\ Below(num(i), Written)
        <3>1. CASE decimal /\ i = 2
            <4>1. <<1, 1>> \in Num
                BY DEF Num
            <4>2. Below(<<1, 1>>, Written)
                BY <1>4, <3>1 DEF Below
            <4> QED
                BY <3>1, <4>1, <4>2
        <3>2. CASE decimal /\ i > 2
            <4>1. i - 1 \in Nat \ {0} /\ i - 1 <= Written
                BY <1>4, <3>2
            <4>2. <<i - 1>> \in Num /\ Below(<<i - 1>>, Written)
                BY <4>1 DEF Num, Below
            <4>3. num(i) = <<i - 1>>
                BY <3>2
            <4> QED
                BY <4>2, <4>3
        <3>3. CASE ~(decimal /\ i = 2) /\ ~(decimal /\ i > 2)
            <4>1. i \in Nat \ {0} /\ i <= Written
                BY <1>4
            <4>2. <<i>> \in Num /\ Below(<<i>>, Written)
                BY <4>1 DEF Num, Below
            <4>3. num(i) = <<i>>
                BY <3>3
            <4> QED
                BY <4>2, <4>3
        <3> QED
            BY <3>1, <3>2, <3>3
    <2>2. \A i \in 1 .. Written : i \in Nat /\ i <= Written
        BY <1>4
    <2>3. roadmap = [i \in 1 .. Written |-> Heading(num(i), FALSE, i)]
        BY <1>2
    <2> HIDE DEF num
    <2>4. \A i \in 1 .. Written : Heading(num(i), FALSE, i) \in HeadingRecs
        BY <2>1, <2>2, Typed
    <2>5. DOMAIN roadmap = 1 .. Written /\ roadmap \in Seq(HeadingRecs)
        <3>1. roadmap \in [1 .. Written -> HeadingRecs]
            BY <2>3, <2>4
        <3>2. PICK S : S = HeadingRecs
            OBVIOUS
        <3>3. roadmap \in Seq(S) /\ DOMAIN roadmap = 1 .. Written
            BY <1>4, <3>1, <3>2
        <3> QED
            BY <3>2, <3>3
    <2>6. \A i \in 1 .. Written : roadmap[i].num = num(i) /\ roadmap[i].title = i
        BY <2>3 DEF Heading
    <2> QED
        BY <2>1, <2>2, <2>5, <2>6 DEF RoadOK
<1>6. DocOK(doc) /\ doc.front = NoFront /\ doc.body["Status"] = "readyToPlan"
    BY <1>1, <1>3, NewDocIs
<1>7. Below(at, Top)
    BY <1>1, <1>4 DEF Below
<1>8. TreeTypes
    BY <1>1, <1>4, FS_EmptySet DEF TreeTypes, Stages, AtWork
<1>9. GivenInv
    BY <1>1, <1>4, <1>5, <1>7 DEF GivenInv
<1>10. StatusInv /\ ExecutedWorkKept
    BY <1>1, <1>6 DEF StatusInv, ExecutedWorkKept
<1> QED
    BY <1>6, <1>8, <1>9, <1>10 DEF Sound, BaseInv

LEMMA SoundStep ==
    ASSUME Sound, [PlanNext]_planVars
    PROVE  Sound'
<1>1. CASE UNCHANGED planVars
    BY <1>1 DEF planVars, Sound, BaseInv, TreeTypes, GivenInv, Top, StatusInv, ExecutedWorkKept
<1>2. CASE PlanNext
    BY <1>2, SoundPlanPhase, SoundStatePlanned, SoundStateBegin, SoundExecutePlan, SoundRoadmapProgress,
       SoundStateAdvance, SoundVerify, SoundPhaseComplete, SoundStateProgress, SoundPhaseAdd,
       SoundPhaseAddBatch, SoundPhaseInsert, SoundPhaseRemove, SoundMilestoneComplete, SoundPhasesClear,
       SoundNewMilestone DEF PlanNext
<1> QED
    BY <1>1, <1>2

LEMMA PlanSound == PlanSpec => []Sound
<1> QED
    BY SoundInit, SoundStep, PTL DEF PlanSpec

\* Types of the plan: headings, directories and STATE.md stay what the commands
\* can read, with no more summaries than plans, for any number of commands.
THEOREM PlanTyped == PlanSpec => []PlanTypeOK
<1>1. Sound => PlanTypeOK
    <2> SUFFICES ASSUME Sound PROVE PlanTypeOK
        OBVIOUS
    <2>1. roadmap \in Seq(HeadingRecs) /\ TreeTypes /\ DocOK(doc)
        BY DEF Sound, BaseInv, GivenInv, RoadOK
    <2>2. ASSUME NEW i \in DOMAIN roadmap PROVE Len(roadmap[i].num) \in 1 .. 2 /\ roadmap[i].done \in BOOLEAN
        <3>1. roadmap[i] \in HeadingRecs
            BY <2>1, HeadingsTyped
        <3> QED
            BY <3>1, NumParts DEF HeadingRecs
    <2>3. DOMAIN doc.body = IF doc.bold THEN BoldFields ELSE PlainFields
        BY <2>1 DEF DocOK, IsDoc
    <2> QED
        BY <2>1, <2>2, <2>3 DEF PlanTypeOK, TreeTypes, DirRecs
<1> QED
    BY <1>1, PlanSound, PTL

\* Executed work is deleted on request only, whatever is added, inserted,
\* removed, archived and renumbered, in any order and any number of times.
THEOREM PlanKeepsWork == PlanSpec => []ExecutedWorkKept
<1>1. Sound => ExecutedWorkKept
    BY DEF Sound
<1> QED
    BY <1>1, PlanSound, PTL

-----------------------------------------------------------------------------
(* Where the phases are, while no number reaches that of the backlog.      *)

FewPhases == Written + MaxEdits < Backlog

\* A number given by phase add is above every integer in use.
LEMMA AddIsFresh ==
    ASSUME FewPhases, BaseInv
    PROVE  LET n == NextNumber(roadmap, dirs)
           IN  /\ n \in Nat \ {0} /\ <<n>> \in Num
               /\ \A d \in dirs : Len(d.num) = 1 => d.num[1] < n
               /\ \A h \in Headings(roadmap) : h.num[1] < n
<1> DEFINE n == NextNumber(roadmap, dirs)
<1>1. /\ dirs \in SUBSET DirRecs /\ Top \in Nat /\ Top < Backlog /\ Backlog \in Nat
      /\ RoadOK(roadmap, Top) /\ (\A d \in dirs : Below(d.num, Top))
    <2>1. edits <= MaxEdits /\ edits \in Nat /\ MaxEdits \in Nat /\ Written \in Nat
        BY PlanningAssumption DEF BaseInv, TreeTypes
    <2>2. Top \in Nat /\ Top < Backlog /\ Backlog \in Nat
        BY <2>1 DEF FewPhases, Top, Backlog
    <2> QED
        BY <2>2 DEF BaseInv, TreeTypes, GivenInv
<1>2. /\ \A h \in Headings(roadmap) : h.num[1] < Backlog => h.num[1] < n
      /\ \A d \in dirs : Len(d.num) = 1 /\ d.num[1] < Backlog => d.num[1] < n
    BY <1>1, NextNumberIs DEF RoadOK
<1>3. n \in Nat \ {0} /\ <<n>> \in Num
    BY <1>1, AddNumber
<1> HIDE DEF n
<1>4. ASSUME NEW p \in Num, Below(p, Top) PROVE p[1] < Backlog
    <2>1. p[1] <= Top /\ p[1] \in Nat
        BY <1>1, <1>4, BelowIs, NumParts
    <2> QED
        BY <1>1, <2>1
<1>5. \A h \in Headings(roadmap) : h.num \in Num /\ Below(h.num, Top)
    BY <1>1, HeadingNumbers DEF Numbers
<1>6. \A d \in dirs : d.num \in Num
    BY <1>1 DEF DirRecs
<1> QED
    BY <1>1, <1>2, <1>3, <1>4, <1>5, <1>6 DEF n

\* An integer above another comes after it.
LEMMA HigherAfter ==
    ASSUME NEW p \in Num, NEW n \in Nat \ {0}, p[1] < n
    PROVE  Before(p, <<n>>) /\ p # <<n>>
<1>1. <<n>> \in Num /\ <<n>>[1] = n
    BY DEF Num
<1>2. p # <<n>>
    <2>1. p[1] # n
        BY NumParts
    <2> QED
        BY <1>1, <2>1
<1> QED
    BY <1>1, <1>2, BeforeIs

\* What a change of the directory of the phase at hand keeps.
LEMMA PlacesFromChange ==
    ASSUME BaseInv, PlacesInv, at \in Num, at' = at, NEW old, NEW new \in DirRecs, new.num = at,
           dirs' = (dirs \ {old}) \cup {new},
           \/ old \in dirs /\ old.num = at
           \/ at \notin Numbers(dirs),
           stage # "complete", new.verified => stage' = "complete"
    PROVE  PlacesInv'
<1>1. dirs \in SUBSET DirRecs /\ \A d \in dirs : d.num \in Num
    BY DEF BaseInv, TreeTypes, DirRecs
<1>2. \A d \in dirs \ {old} : Len(d.num) = 1 => d.num # at
    BY DEF PlacesInv, Numbers
<1>3. \A d, e \in dirs' : d.num = e.num /\ Len(d.num) = 1 => d = e
    BY <1>2 DEF PlacesInv
<1>4. \A d \in dirs' : d.verified /\ Len(d.num) = 1 =>
          Before(d.num, at) \/ (d.num = at /\ stage' = "complete")
    <2> SUFFICES ASSUME NEW d \in dirs', d.verified, Len(d.num) = 1
                 PROVE  Before(d.num, at) \/ (d.num = at /\ stage' = "complete")
        OBVIOUS
    <2>1. CASE d = new
        BY <2>1
    <2>2. CASE d # new
        <3>1. d \in dirs \ {old}
            BY <2>2
        <3>2. at # <<>>
            BY NumParts
        <3> QED
            BY <1>2, <3>1, <3>2 DEF PlacesInv
    <2> QED
        BY <2>1, <2>2
<1> QED
    BY <1>3, <1>4 DEF PlacesInv

\* A directory verified with the number at hand: the phase is about to be completed.
LEMMA AtHandVerified ==
    ASSUME BaseInv, PlacesInv, at \in Num, NEW d \in dirs, d.num = at, Len(at) = 1, d.verified
    PROVE  stage = "complete"
<1>1. ~Before(at, at) /\ at # <<>>
    BY BeforeOrders, NumParts
<1> QED
    BY <1>1 DEF PlacesInv

LEMMA PlacesPlanPhase ==
    ASSUME BaseInv, PlacesInv, NEW n \in 1 .. MaxPlans, PlanPhase(n)
    PROVE  PlacesInv'
<1>1. stage = "plan" /\ stage' = "planned" /\ UNCHANGED <<roadmap, at>>
    BY DEF PlanPhase, Step
<1>2. PICK old, new :
        /\ new \in DirRecs /\ new.num = at
        /\ \/ /\ old \in DirRecs /\ old.num = at /\ new.title = old.title
              /\ new.summaries = old.summaries /\ new.verified = old.verified
           \/ /\ old = NoDir /\ new.title <= Top /\ new.summaries = 0 /\ ~new.verified
              /\ at \notin Numbers(dirs)
        /\ \/ /\ dirs' = (dirs \ {old}) \cup {new} /\ shipped' = shipped
              /\ old \in dirs \/ old = NoDir
           \/ /\ shipped' = (shipped \ {old}) \cup {new} /\ dirs' = dirs /\ old \in shipped
              /\ at \notin Numbers(Headings(roadmap))
    BY PlanPhaseIs
<1>3. at \in Num /\ dirs \in SUBSET DirRecs
    BY <1>1 DEF BaseInv, TreeTypes
<1>4. NoDir \notin DirRecs
    BY NumParts DEF DirRecs, NoDir, Dir
<1>5. CASE dirs' = dirs
    BY <1>1, <1>5 DEF PlacesInv
<1>6. CASE dirs' = (dirs \ {old}) \cup {new} /\ old \in dirs
    <2>1. old.num = at /\ new.verified = old.verified
        BY <1>2, <1>3, <1>4, <1>6
    <2>2. CASE Len(at) = 1
        <3>1. ~new.verified
            BY <1>1, <1>3, <1>6, <2>1, <2>2, AtHandVerified
        <3> QED
            BY <1>1, <1>2, <1>3, <1>6, <2>1, <3>1, PlacesFromChange
    <2>3. CASE Len(at) # 1
        <3>1. \A d \in dirs' : Len(d.num) = 1 => d \in dirs
            BY <1>2, <1>6, <2>3
        <3>2. stage' # "complete" /\ stage # "complete"
            BY <1>1
        <3> QED
            BY <1>1, <1>6, <3>1, <3>2 DEF PlacesInv
    <2> QED
        BY <2>2, <2>3
<1>7. CASE dirs' = (dirs \ {old}) \cup {new} /\ old = NoDir
    <2>1. ~new.verified /\ at \notin Numbers(dirs)
        BY <1>2, <1>4, <1>7
    <2>2. stage # "complete"
        BY <1>1
    <2> QED
        BY <1>1, <1>2, <1>3, <1>7, <2>1, <2>2, PlacesFromChange
<1> QED
    BY <1>2, <1>5, <1>6, <1>7

LEMMA PlacesExecutePlan ==
    ASSUME BaseInv, PlacesInv, ExecutePlan
    PROVE  PlacesInv'
<1> DEFINE d == Find(dirs, at)
           new == [d EXCEPT !.summaries = @ + 1]
<1>1. /\ stage = "execute" /\ stage' = "progress" /\ d.summaries < d.plans
      /\ dirs' = (dirs \ {d}) \cup {new} /\ at' = at
    BY DEF ExecutePlan, Step
<1>2. dirs \in SUBSET DirRecs /\ at \in Num
    BY <1>1 DEF BaseInv, TreeTypes
<1>3. d \in dirs /\ d.num = at
    <2>1. d \in dirs
        BY <1>1, <1>2, FoundCounts
    <2>2. at \in Numbers(dirs)
        <3>1. d # NoDir
            BY <1>2, <2>1, NumParts DEF DirRecs, NoDir, Dir
        <3> QED
            BY <1>2, <3>1, FindIs
    <2> QED
        BY <1>2, <2>2, FindIs
<1> HIDE DEF d
<1>4. new \in DirRecs /\ new.num = at /\ new.verified = d.verified
    <2>1. d \in DirRecs
        BY <1>2, <1>3
    <2> QED
        BY <1>1, <1>3, <2>1 DEF DirRecs
<1> HIDE DEF new
<1>5. stage # "complete" /\ stage' # "complete"
    BY <1>1
<1>6. CASE Len(at) = 1
    <2>1. ~new.verified
        BY <1>2, <1>3, <1>4, <1>5, <1>6, AtHandVerified
    <2> QED
        BY <1>1, <1>2, <1>3, <1>4, <1>5, <2>1, PlacesFromChange
<1>7. CASE Len(at) # 1
    <2>1. \A e \in dirs' : Len(e.num) = 1 => e \in dirs
        BY <1>1, <1>4, <1>7
    <2> QED
        BY <1>1, <1>5, <2>1 DEF PlacesInv
<1> QED
    BY <1>6, <1>7

LEMMA PlacesVerify ==
    ASSUME BaseInv, PlacesInv, Verify
    PROVE  PlacesInv'
<1> DEFINE d == Find(dirs, at)
           new == [d EXCEPT !.verified = TRUE]
<1>1. /\ stage = "verify" /\ stage' = "complete"
      /\ dirs' = (dirs \ {d}) \cup {new} /\ at' = at
    BY DEF Verify, Step
<1>2. dirs \in SUBSET DirRecs /\ at \in Num /\ at \in Numbers(dirs)
    BY <1>1 DEF BaseInv, TreeTypes, AtWork
<1>3. d \in dirs /\ d.num = at
    BY <1>2, FindIs
<1> HIDE DEF d
<1>4. new \in DirRecs /\ new.num = at
    <2>1. d \in DirRecs
        BY <1>2, <1>3
    <2> QED
        BY <1>3, <2>1 DEF DirRecs
<1> HIDE DEF new
<1>5. stage # "complete"
    BY <1>1
<1> QED
    BY <1>1, <1>2, <1>3, <1>4, <1>5, PlacesFromChange

LEMMA PlacesPhaseComplete ==
    ASSUME BaseInv, BaseInv', PlacesInv, PhaseComplete
    PROVE  PlacesInv'
<1>1. stage = "complete" /\ dirs' = dirs /\ at' = NextPhase(roadmap', dirs, at)
    BY DEF PhaseComplete
<1>2. at \in Num /\ dirs \in SUBSET DirRecs /\ roadmap' \in Seq(HeadingRecs)
    BY <1>1 DEF BaseInv, TreeTypes, GivenInv, RoadOK
<1>3. at' = <<>> \/ (at' \in Num /\ Before(at, at'))
    BY <1>1, <1>2, NextPhaseIs
<1>4. ASSUME NEW d \in dirs, d.verified, Len(d.num) = 1, at' # <<>>
      PROVE  Before(d.num, at')
    <2>1. d.num \in Num /\ at # <<>>
        BY <1>2, NumParts DEF DirRecs
    <2>2. Before(d.num, at) \/ d.num = at
        BY <1>4, <2>1 DEF PlacesInv
    <2> QED
        BY <1>2, <1>3, <1>4, <2>1, <2>2, BeforeOrders
<1> QED
    BY <1>1, <1>4 DEF PlacesInv

LEMMA PlacesPhaseAdd ==
    ASSUME FewPhases, BaseInv, PlacesInv, PhaseAdd
    PROVE  PlacesInv'
<1> DEFINE n == NextNumber(roadmap, dirs)
           e == Dir(<<n>>, FreshTitle)
<1>1. /\ dirs' = dirs \cup {e}
      /\ at' = (IF stage = "over" THEN <<n>> ELSE at)
      /\ stage' = (IF stage = "over" THEN "plan" ELSE stage)
    BY DEF PhaseAdd
<1>2. n \in Nat \ {0} /\ \A d \in dirs : Len(d.num) = 1 => d.num[1] < n
    BY AddIsFresh
<1> HIDE DEF n
<1>3. e.num = <<n>> /\ ~e.verified
    BY DEF Dir
<1> HIDE DEF e
<1>4. \A d \in dirs : Len(d.num) = 1 => Before(d.num, <<n>>) /\ d.num # <<n>>
    <2>1. \A d \in dirs : d.num \in Num
        BY DEF BaseInv, TreeTypes, DirRecs
    <2> QED
        BY <1>2, <2>1, HigherAfter
<1>5. \A d, f \in dirs' : d.num = f.num /\ Len(d.num) = 1 => d = f
    BY <1>1, <1>3, <1>4 DEF PlacesInv
<1>6. \A d \in dirs' : d.verified /\ Len(d.num) = 1 /\ at' # <<>> =>
          Before(d.num, at') \/ (d.num = at' /\ stage' = "complete")
    <2>1. CASE stage = "over"
        BY <1>1, <1>3, <1>4, <2>1
    <2>2. CASE stage # "over"
        BY <1>1, <1>3, <2>2 DEF PlacesInv
    <2> QED
        BY <2>1, <2>2
<1> QED
    BY <1>5, <1>6 DEF PlacesInv

LEMMA PlacesPhaseAddBatch ==
    ASSUME FewPhases, BaseInv, PlacesInv, PhaseAddBatch
    PROVE  PlacesInv'
<1> DEFINE n == NextNumber(roadmap, dirs)
           e1 == Dir(<<n>>, FreshTitle)
           e2 == Dir(<<n + 1>>, FreshTitle + 1)
<1>1. dirs' = dirs \cup {e1, e2} /\ UNCHANGED <<at, stage>>
    BY DEF PhaseAddBatch
<1>2. n \in Nat \ {0} /\ \A d \in dirs : Len(d.num) = 1 => d.num[1] < n
    BY AddIsFresh
<1> HIDE DEF n
<1>3. e1.num = <<n>> /\ ~e1.verified /\ e2.num = <<n + 1>> /\ ~e2.verified
    BY DEF Dir
<1> HIDE DEF e1, e2
<1>4. \A d \in dirs : Len(d.num) = 1 => d.num # <<n>> /\ d.num # <<n + 1>>
    <2> SUFFICES ASSUME NEW d \in dirs, Len(d.num) = 1 PROVE d.num # <<n>> /\ d.num # <<n + 1>>
        OBVIOUS
    <2>1. d.num \in Num /\ d.num[1] < n
        BY <1>2 DEF BaseInv, TreeTypes, DirRecs
    <2>2. n + 1 \in Nat \ {0} /\ d.num[1] < n + 1
        BY <1>2, <2>1, NumParts
    <2> QED
        BY <1>2, <2>1, <2>2, HigherAfter
<1>5. e1.num # e2.num
    BY <1>2, <1>3
<1>6. \A d, f \in dirs' : d.num = f.num /\ Len(d.num) = 1 => d = f
    BY <1>1, <1>3, <1>4, <1>5 DEF PlacesInv
<1>7. \A d \in dirs' : d.verified => d \in dirs
    BY <1>1, <1>3
<1> QED
    BY <1>1, <1>6, <1>7 DEF PlacesInv

LEMMA PlacesPhaseInsert ==
    ASSUME BaseInv, PlacesInv, NEW num \in Numbers(Headings(roadmap)), PhaseInsert(num)
    PROVE  PlacesInv'
<1> DEFINE next == NextDecimal(roadmap, dirs, num)
           e == Dir(next, Top + 1)
<1>1. dirs' = dirs \cup {e} /\ Len(next) = 2 /\ UNCHANGED <<at, stage>>
    BY PhaseInsertIs
<1> HIDE DEF next
<1>2. Len(e.num) = 2
    BY <1>1 DEF Dir
<1> HIDE DEF e
<1>3. \A d \in dirs' : Len(d.num) = 1 => d \in dirs
    BY <1>1, <1>2
<1> QED
    BY <1>1, <1>3 DEF PlacesInv

LEMMA PlacesPhaseRemove ==
    ASSUME BaseInv, PlacesInv, NEW num \in Numbers(Headings(roadmap)), NEW force \in BOOLEAN,
           PhaseRemove(num, force)
    PROVE  PlacesInv'
<1> DEFINE x == Find(dirs, num)
<1>1. /\ num \in Num /\ at \in Num /\ num # at /\ dirs' = RemovedDirs(dirs, num)
      /\ at' = Renumbered(at, num) /\ stage' = stage
    BY PhaseRemoveIs
<1>2. dirs \in SUBSET DirRecs
    BY DEF BaseInv, TreeTypes
<1>3. /\ dirs' \in SUBSET DirRecs
      /\ \A e \in dirs' : \E d \in dirs \ {x} :
            /\ e.num = Renumbered(d.num, num) /\ e.title = d.title /\ e.plans = d.plans
            /\ e.summaries = d.summaries /\ e.verified = d.verified
    BY <1>1, <1>2, RemovedDirsAre
<1>4. ASSUME NEW d \in dirs \ {x}, Len(d.num) = 1
      PROVE  d.num \in Num /\ d.num # num
    <2>1. d.num \in Num
        BY <1>2 DEF DirRecs
    <2>2. CASE d.num = num
        <3>1. \A e \in dirs : e.num = d.num => e = d
            BY <1>4 DEF PlacesInv
        <3>2. x = d
            BY <1>2, <2>2, <3>1, FindOnly
        <3> QED
            BY <3>2
    <2> QED
        BY <2>1, <2>2
<1> HIDE DEF x
<1>5. ASSUME NEW p \in Num, NEW q \in Num, p # num, q # num, Len(p) = 1
      PROVE  Before(p, q) => Before(Renumbered(p, num), Renumbered(q, num))
    <2>1. ~Under(p, num)
        BY <1>1, <1>5, UnderIs
    <2> QED
        BY <1>1, <1>5, <2>1, RenumberedOrder
<1>6. ASSUME NEW e \in dirs', NEW f \in dirs', e.num = f.num, Len(e.num) = 1
      PROVE  e = f
    <2>1. PICK d \in dirs \ {x} : /\ e.num = Renumbered(d.num, num) /\ e.title = d.title /\ e.plans = d.plans
                                  /\ e.summaries = d.summaries /\ e.verified = d.verified
        BY <1>3
    <2>2. PICK c \in dirs \ {x} : /\ f.num = Renumbered(c.num, num) /\ f.title = c.title /\ f.plans = c.plans
                                  /\ f.summaries = c.summaries /\ f.verified = c.verified
        BY <1>3
    <2>3. d.num \in Num /\ c.num \in Num
        BY <1>2 DEF DirRecs
    <2>4. Len(d.num) = 1 /\ Len(c.num) = 1
        <3>1. \A q \in Num : Len(Renumbered(q, num)) = Len(q)
            BY <1>1, RenumberedIs
        <3> QED
            BY <1>6, <2>1, <2>2, <2>3, <3>1
    <2>5. d.num # num /\ c.num # num
        BY <1>4, <2>4
    <2>6. ~Before(e.num, e.num)
        <3>1. e.num \in Num
            BY <1>3 DEF DirRecs
        <3> QED
            BY <3>1, BeforeOrders
    <2>7. ~Before(d.num, c.num) /\ ~Before(c.num, d.num)
        BY <1>5, <1>6, <2>1, <2>2, <2>3, <2>4, <2>5, <2>6
    <2>8. d.num = c.num
        BY <2>3, <2>7, BeforeOrders
    <2>9. d = c
        BY <2>4, <2>8 DEF PlacesInv
    <2>10. e \in DirRecs /\ f \in DirRecs
        BY <1>3
    <2> QED
        BY <1>6, <2>1, <2>2, <2>9, <2>10 DEF DirRecs
<1>7. ASSUME NEW e \in dirs', e.verified, Len(e.num) = 1
      PROVE  Before(e.num, at') \/ (e.num = at' /\ stage' = "complete")
    <2>1. PICK d \in dirs \ {x} : e.num = Renumbered(d.num, num) /\ e.verified = d.verified
        BY <1>3
    <2>2. d.num \in Num /\ at # <<>>
        BY <1>1, <1>2, NumParts DEF DirRecs
    <2>3. Len(d.num) = 1
        <3>1. \A q \in Num : Len(Renumbered(q, num)) = Len(q)
            BY <1>1, RenumberedIs
        <3> QED
            BY <1>7, <2>1, <2>2, <3>1
    <2>4. Before(d.num, at) \/ (d.num = at /\ stage = "complete")
        BY <1>7, <2>1, <2>2, <2>3 DEF PlacesInv
    <2>5. d.num # num
        BY <1>4, <2>3
    <2> QED
        BY <1>1, <1>5, <2>1, <2>2, <2>3, <2>4, <2>5
<1> QED
    BY <1>6, <1>7 DEF PlacesInv

LEMMA PlacesNewMilestone ==
    ASSUME FewPhases, BaseInv, PlacesInv, NEW reset \in BOOLEAN, NewMilestone(reset)
    PROVE  PlacesInv'
<1>1. CASE reset
    <2>1. dirs' = {}
        BY <1>1 DEF NewMilestone
    <2> QED
        BY <2>1 DEF PlacesInv
<1>2. CASE ~reset
    <2> DEFINE n == NextNumber(roadmap, dirs)
    <2>1. dirs' = dirs /\ at' = <<n>>
        BY <1>2 DEF NewMilestone
    <2>2. n \in Nat \ {0} /\ \A d \in dirs : Len(d.num) = 1 => d.num[1] < n
        BY AddIsFresh
    <2> HIDE DEF n
    <2>3. \A d \in dirs : Len(d.num) = 1 => Before(d.num, <<n>>)
        <3>1. \A d \in dirs : d.num \in Num
            BY DEF BaseInv, TreeTypes, DirRecs
        <3> QED
            BY <2>2, <3>1, HigherAfter
    <2> QED
        BY <2>1, <2>3 DEF PlacesInv
<1> QED
    BY <1>1, <1>2

LEMMA PlacesStep ==
    ASSUME FewPhases, Sound, PlacesInv, [PlanNext]_planVars
    PROVE  PlacesInv'
<1>1. BaseInv /\ BaseInv'
    BY SoundStep DEF Sound
<1>2. CASE UNCHANGED <<dirs, at>> /\ (stage = "complete" => stage' = "complete")
    BY <1>2 DEF PlacesInv
<1>3. CASE UNCHANGED planVars
    BY <1>2, <1>3 DEF planVars
<1>4. CASE StatePlanned \/ StateBegin \/ RoadmapProgress \/ StateAdvance \/ StateProgress
    BY <1>2, <1>4 DEF StatePlanned, StateBegin, RoadmapProgress, StateAdvance, StateProgress, Step
<1>5. CASE MilestoneComplete \/ PhasesClear
    <2>1. dirs' \subseteq dirs /\ UNCHANGED <<at, stage>>
        BY <1>5 DEF MilestoneComplete, PhasesClear
    <2> QED
        BY <2>1 DEF PlacesInv
<1> QED
    BY <1>1, <1>3, <1>4, <1>5, PlacesPlanPhase, PlacesExecutePlan, PlacesVerify, PlacesPhaseComplete,
       PlacesPhaseAdd, PlacesPhaseAddBatch, PlacesPhaseInsert, PlacesPhaseRemove, PlacesNewMilestone
       DEF PlanNext

-----------------------------------------------------------------------------
(* What is under way.                                                      *)

\* The commands that move nothing on the disk.
LEMMA WorkSame ==
    ASSUME WorkInv, UNCHANGED <<dirs, at, doubled>>,
           stage' \notin {"verify", "complete"},
           stage' \in {"execute", "progress", "advance"} =>
               \A d \in dirs : Open(d) => PlanCounted(d, PlanOf(doc'), stage'),
           stage' \in {"execute", "progress"} => doc'.body["Status"] \in {"executing", "readyToExecute"}
    PROVE  WorkInv'
    BY DEF WorkInv, Distinct, Open

\* No directory is open.
LEMMA WorkNone ==
    ASSUME ~doubled' => Distinct(dirs'), \A d \in dirs' : ~Open(d),
           stage' \notin {"execute", "progress"}
    PROVE  WorkInv'
    BY DEF WorkInv, Open

\* The directory of the phase at hand is the only one that may be open.
LEMMA OpenIsFound ==
    ASSUME BaseInv, WorkInv, ~doubled, NEW d \in dirs, Open(d)
    PROVE  /\ d.num = at /\ at \in Num /\ d = Find(dirs, at) /\ stage \notin {"verify", "complete", "over"}
           /\ \A e \in dirs : Open(e) => e = d
<1>1. dirs \in SUBSET DirRecs /\ d.num = at /\ stage \notin {"verify", "complete"} /\ Distinct(dirs)
    BY DEF WorkInv, BaseInv, TreeTypes
<1>2. \A e \in dirs : e.num = d.num => e = d
    BY <1>1 DEF Distinct
<1>3. d = Find(dirs, at)
    BY <1>1, <1>2, FindOnly
<1>4. at \in Num
    BY <1>1 DEF DirRecs
<1>5. stage # "over"
    BY <1>4, NumParts DEF BaseInv, TreeTypes
<1>6. \A e \in dirs : Open(e) => e = d
    BY <1>1, <1>2 DEF WorkInv
<1> QED
    BY <1>1, <1>3, <1>4, <1>5, <1>6

LEMMA WorkPlanPhase ==
    ASSUME BaseInv, WorkInv, NEW n \in 1 .. MaxPlans, PlanPhase(n)
    PROVE  WorkInv'
<1>1. stage = "plan" /\ stage' = "planned" /\ UNCHANGED <<roadmap, at, doubled>>
    BY DEF PlanPhase, Step
<1>2. PICK old, new :
        /\ new \in DirRecs /\ new.num = at
        /\ \/ /\ old \in DirRecs /\ old.num = at /\ new.title = old.title
              /\ new.summaries = old.summaries /\ new.verified = old.verified
           \/ /\ old = NoDir /\ new.title <= Top /\ new.summaries = 0 /\ ~new.verified
              /\ at \notin Numbers(dirs)
        /\ \/ /\ dirs' = (dirs \ {old}) \cup {new} /\ shipped' = shipped
              /\ old \in dirs \/ old = NoDir
           \/ /\ shipped' = (shipped \ {old}) \cup {new} /\ dirs' = dirs /\ old \in shipped
              /\ at \notin Numbers(Headings(roadmap))
    BY PlanPhaseIs
<1>3. NoDir \notin DirRecs
    BY NumParts DEF DirRecs, NoDir, Dir
<1> SUFFICES ASSUME ~doubled
             PROVE  Distinct(dirs') /\ \A d \in dirs' : Open(d) => d.num = at
    BY <1>1 DEF WorkInv, Open, Distinct
<1>4. Distinct(dirs) /\ \A d \in dirs : Open(d) => d.num = at
    BY DEF WorkInv
<1>5. CASE dirs' = dirs
    BY <1>4, <1>5
<1>6. CASE dirs' = (dirs \ {old}) \cup {new} /\ (old \in dirs \/ old = NoDir)
    <2>1. \A d \in dirs \ {old} : d.num # at
        <3>1. CASE at \notin Numbers(dirs)
            BY <3>1 DEF Numbers
        <3>2. CASE old \in DirRecs /\ old.num = at
            <4>1. old \in dirs
                BY <1>2, <1>3, <1>6, <3>2
            <4> QED
                BY <1>4, <3>2, <4>1 DEF Distinct
        <3> QED
            BY <1>2, <3>1, <3>2
    <2>2. Distinct(dirs')
        BY <1>2, <1>4, <1>6, <2>1 DEF Distinct
    <2> QED
        BY <1>2, <1>4, <1>6, <2>2
<1> QED
    BY <1>2, <1>5, <1>6

LEMMA WorkStateBegin ==
    ASSUME BaseInv, WorkInv, StateBegin
    PROVE  WorkInv'
<1> DEFINE count == Find(dirs, at).plans
           new == BeginPhase(doc, at, count)
<1>1. stage = "begin" /\ stage' = "execute" /\ doc' = Synced(new, OnDisk(roadmap', dirs'))
      /\ UNCHANGED <<dirs, at, doubled>>
    BY DEF StateBegin, Step, Rewrite
<1>2. DocOK(doc) /\ at \in Num /\ dirs \in SUBSET DirRecs
    BY <1>1 DEF BaseInv, TreeTypes
<1>3. count \in Nat
    BY <1>2, FoundCounts
<1>4. \A d \in dirs : ~doubled /\ Open(d) => d.plans = count /\ d.summaries \in Nat
    BY <1>2, OpenIsFound DEF DirRecs
<1> HIDE DEF count
<1>5. DocOK(new) /\ new.body["Status"] = "executing" /\ PlanOf(new) = <<1, count>>
    BY <1>2, <1>3, BeginIs
<1> HIDE DEF new
<1>6. doc'.body = new.body /\ PlanOf(doc') = <<1, count>>
    <2>1. doc'.body = new.body
        BY <1>1, <1>5, SyncedIs
    <2>2. PlanOf(doc') = PlanOf(new)
        BY <2>1, PlanOfBody
    <2> QED
        BY <1>5, <2>1, <2>2
<1>7. ASSUME NEW d \in dirs, ~doubled, Open(d) PROVE PlanCounted(d, PlanOf(doc'), stage')
    <2>1. d.plans = count /\ d.summaries \in Nat
        BY <1>4, <1>7
    <2>2. 1 <= d.summaries + (IF stage' = "execute" THEN 1 ELSE 0)
        BY <1>1, <2>1
    <2> QED
        BY <1>6, <2>1, <2>2 DEF PlanCounted
<1> QED
    BY <1>1, <1>5, <1>6, <1>7 DEF WorkInv, Distinct, Open

LEMMA WorkExecutePlan ==
    ASSUME BaseInv, WorkInv, ExecutePlan
    PROVE  WorkInv'
<1> DEFINE d == Find(dirs, at)
           new == [d EXCEPT !.summaries = @ + 1]
<1>1. /\ stage = "execute" /\ stage' = "progress" /\ d.summaries < d.plans
      /\ dirs' = (dirs \ {d}) \cup {new} /\ UNCHANGED <<at, doc, doubled>>
    BY DEF ExecutePlan, Step
<1>2. dirs \in SUBSET DirRecs /\ at \in Num
    BY <1>1 DEF BaseInv, TreeTypes
<1>3. d \in dirs
    BY <1>1, <1>2, FoundCounts
<1> SUFFICES ASSUME ~doubled PROVE WorkInv'
    BY <1>1 DEF WorkInv
<1>4. Open(d) /\ d.num = at /\ \A e \in dirs : Open(e) => e = d
    <2>1. Open(d)
        BY <1>1 DEF Open
    <2> QED
        BY <1>3, <2>1, OpenIsFound
<1>5. PlanCounted(d, PlanOf(doc), stage) /\ Distinct(dirs) /\ doc.body["Status"] \in {"executing", "readyToExecute"}
    BY <1>1, <1>3, <1>4 DEF WorkInv
<1> HIDE DEF d
<1>6. /\ new \in DirRecs /\ new.num = at /\ new.plans = d.plans /\ new.summaries = d.summaries + 1
      /\ d.summaries \in Nat
    <2>1. d \in DirRecs
        BY <1>2, <1>3
    <2> QED
        BY <1>1, <1>4, <2>1 DEF DirRecs
<1> HIDE DEF new
<1>7. \A e \in dirs \ {d} : e.num # at /\ ~Open(e)
    BY <1>3, <1>4, <1>5 DEF Distinct
<1>8. Distinct(dirs')
    BY <1>1, <1>5, <1>6, <1>7 DEF Distinct
<1>9. \A e \in dirs' : Open(e) => e = new
    BY <1>1, <1>7
<1>10. PlanCounted(new, PlanOf(doc'), stage')
    <2>1. PICK c \in Nat : PlanOf(doc) = <<c, d.plans>> /\ c <= d.summaries + 1
        BY <1>1, <1>5 DEF PlanCounted
    <2>2. c <= new.summaries + 0
        BY <1>6, <2>1
    <2>3. PlanOf(doc') = <<c, new.plans>>
        BY <1>1, <1>6, <2>1
    <2>4. stage' # "execute"
        BY <1>1
    <2> QED
        BY <2>2, <2>3, <2>4 DEF PlanCounted
<1>11. \A e \in dirs' : Open(e) => e.num = at' /\ PlanCounted(e, PlanOf(doc'), stage')
    BY <1>1, <1>6, <1>9, <1>10
<1> QED
    BY <1>1, <1>5, <1>8, <1>11 DEF WorkInv, Open

LEMMA WorkStateAdvance ==
    ASSUME BaseInv, StatusInv, WorkInv, StateAdvance
    PROVE  WorkInv'
<1> DEFINE d == Find(dirs, at)
           new == AdvancePlan(doc)
<1>1. /\ stage = "advance" /\ stage' = (IF d.summaries < d.plans THEN "execute" ELSE "verify")
      /\ doc' = Synced(new, OnDisk(roadmap', dirs')) /\ UNCHANGED <<dirs, at, doubled>>
    BY DEF StateAdvance, Step, Rewrite
<1> SUFFICES ASSUME ~doubled PROVE WorkInv'
    BY <1>1 DEF WorkInv
<1>2. \A e \in dirs : Open(e) => e = d /\ PlanCounted(e, PlanOf(doc), stage) /\ e.summaries \in Nat /\ e.plans \in Nat
    <2> SUFFICES ASSUME NEW e \in dirs, Open(e)
                 PROVE  e = d /\ PlanCounted(e, PlanOf(doc), stage) /\ e.summaries \in Nat /\ e.plans \in Nat
        OBVIOUS
    <2>1. e = d
        BY OpenIsFound
    <2>2. PlanCounted(e, PlanOf(doc), stage)
        BY <1>1 DEF WorkInv
    <2>3. e.summaries \in Nat /\ e.plans \in Nat
        BY DEF BaseInv, TreeTypes, DirRecs
    <2> QED
        BY <2>1, <2>2, <2>3
<1>3. DocOK(doc) /\ Distinct(dirs)
    BY DEF BaseInv, WorkInv
<1>4. /\ DocOK(new)
      /\ \A c \in Nat, n \in Nat : PlanOf(doc) = <<c, n>> /\ c < n =>
             PlanOf(new) = <<c + 1, n>> /\ new.body["Status"] = "readyToExecute"
    BY <1>1, <1>3, AdvanceIs DEF StatusInv
<1>5. Open(d) <=> d.summaries < d.plans
    BY DEF Open
<1>6. d.summaries < d.plans => d \in dirs
    <2>1. dirs \in SUBSET DirRecs /\ at \in Num
        BY <1>1 DEF BaseInv, TreeTypes
    <2> QED
        BY <2>1, FoundCounts
<1> HIDE DEF d, new
<1>7. CASE d.summaries < d.plans
    <2>1. d \in dirs /\ Open(d) /\ PlanCounted(d, PlanOf(doc), stage) /\ d.summaries \in Nat /\ d.plans \in Nat /\ stage' = "execute"
        BY <1>1, <1>2, <1>5, <1>6, <1>7
    <2>2. PICK c \in Nat : PlanOf(doc) = <<c, d.plans>> /\ c <= d.summaries
        BY <1>1, <2>1 DEF PlanCounted
    <2>3. c < d.plans
        BY <1>7, <2>1, <2>2
    <2>4. PlanOf(new) = <<c + 1, d.plans>> /\ new.body["Status"] = "readyToExecute"
        BY <1>4, <2>1, <2>2, <2>3
    <2>5. PlanOf(doc') = <<c + 1, d.plans>> /\ doc'.body["Status"] = "readyToExecute"
        <3>1. doc'.body = new.body
            BY <1>1, <1>4, SyncedIs
        <3>2. PlanOf(doc') = PlanOf(new)
            BY <3>1, PlanOfBody
        <3> QED
            BY <2>4, <3>1, <3>2
    <2>6. PlanCounted(d, PlanOf(doc'), stage')
        <3>1. c + 1 \in Nat /\ c + 1 <= d.summaries + 1
            BY <2>1, <2>2
        <3> QED
            BY <2>1, <2>5, <3>1 DEF PlanCounted
    <2>7. \A e \in dirs : Open(e) => PlanCounted(e, PlanOf(doc'), stage')
        BY <1>2, <2>6
    <2> QED
        BY <1>1, <2>1, <2>5, <2>7, WorkSame
<1>8. CASE ~(d.summaries < d.plans)
    <2>1. \A e \in dirs' : ~Open(e)
        BY <1>1, <1>2, <1>5, <1>8
    <2>2. stage' = "verify"
        BY <1>1, <1>8
    <2> QED
        BY <1>1, <1>3, <2>1, <2>2, WorkNone
<1> QED
    BY <1>7, <1>8

LEMMA WorkVerify ==
    ASSUME BaseInv, WorkInv, Verify
    PROVE  WorkInv'
<1> DEFINE d == Find(dirs, at)
           new == [d EXCEPT !.verified = TRUE]
<1>1. /\ stage = "verify" /\ stage' = "complete"
      /\ dirs' = (dirs \ {d}) \cup {new} /\ UNCHANGED <<at, doubled>>
    BY DEF Verify, Step
<1> SUFFICES ASSUME ~doubled PROVE WorkInv'
    BY <1>1 DEF WorkInv
<1>2. dirs \in SUBSET DirRecs /\ at \in Num /\ at \in Numbers(dirs)
    BY <1>1 DEF BaseInv, TreeTypes, AtWork
<1>3. d \in dirs /\ d.num = at
    BY <1>2, FindIs
<1> HIDE DEF d
<1>4. new.num = at /\ new.plans = d.plans /\ new.summaries = d.summaries
    <2>1. d \in DirRecs
        BY <1>2, <1>3
    <2> QED
        BY <1>3, <2>1 DEF DirRecs
<1> HIDE DEF new
<1>5. Distinct(dirs) /\ \A e \in dirs : ~Open(e)
    BY <1>1 DEF WorkInv
<1>6. Distinct(dirs')
    BY <1>1, <1>3, <1>4, <1>5 DEF Distinct
<1>7. \A e \in dirs' : ~Open(e)
    BY <1>1, <1>3, <1>4, <1>5 DEF Open
<1> QED
    BY <1>1, <1>6, <1>7, WorkNone

LEMMA WorkPhaseComplete ==
    ASSUME WorkInv, PhaseComplete
    PROVE  WorkInv'
<1>1. stage = "complete" /\ stage' \in {"over", "plan"} /\ dirs' = dirs /\ doubled' = doubled
    BY DEF PhaseComplete
<1>2. CASE doubled
    BY <1>1, <1>2 DEF WorkInv
<1>3. CASE ~doubled
    <2>1. Distinct(dirs) /\ \A d \in dirs : ~Open(d)
        BY <1>1, <1>3 DEF WorkInv
    <2> QED
        BY <1>1, <2>1, WorkNone
<1> QED
    BY <1>2, <1>3

\* state sync writes the number of plans that is there already.
LEMMA WorkStateProgress ==
    ASSUME BaseInv, StatusInv, WorkInv, StateProgress
    PROVE  WorkInv'
<1>1. /\ UNCHANGED <<roadmap, dirs, at, stage, doubled>>
      /\ DOMAIN doc'.body = DOMAIN doc.body /\ doc'.bold = doc.bold
      /\ \A g \in DOMAIN doc.body \ {"Progress", "TotalPlans"} : doc'.body[g] = doc.body[g]
      /\ doc.bold => doc'.body["TotalPlans"] \in {doc.body["TotalPlans"], <<SyncPlans(dirs)>>}
    BY StateProgressIs DEF StateProgress
<1> SUFFICES ASSUME ~doubled PROVE WorkInv'
    BY <1>1 DEF WorkInv
<1>2. DOMAIN doc.body = IF doc.bold THEN BoldFields ELSE PlainFields
    BY DEF BaseInv, DocOK, IsDoc
<1>3. doc'.body["Status"] = doc.body["Status"]
    BY <1>1, <1>2 DEF BoldFields, PlainFields
<1>4. /\ dirs \in SUBSET DirRecs /\ Top \in Nat /\ \A d \in dirs : Below(d.num, Top)
    BY PlanningAssumption DEF BaseInv, TreeTypes, GivenInv, Top
<1>5. ASSUME NEW d \in dirs, Open(d), stage \in {"execute", "progress", "advance"}
      PROVE  PlanOf(doc') = PlanOf(doc)
    <2>1. PICK c \in Nat : PlanOf(doc) = <<c, d.plans>>
        BY <1>5 DEF WorkInv, PlanCounted
    <2>2. SyncPlans(dirs) = d.plans
        <3>1. PICK e \in dirs : Open(e) /\ SyncPlans(dirs) = e.plans
            BY <1>4, <1>5, SyncPlansIs
        <3>2. e = d
            BY <1>5, <3>1, OpenIsFound
        <3> QED
            BY <3>1, <3>2
    <2>3. CASE doc.bold
        <3>1. /\ Len(doc.body["CurrentPlan"]) = 1 /\ Len(doc.body["TotalPlans"]) = 1
              /\ doc.body["CurrentPlan"] \in Seq(Nat) /\ doc.body["TotalPlans"] \in Seq(Nat)
            BY <1>5, <2>3 DEF StatusInv, BaseInv, DocOK
        <3>2. PICK a \in Nat, b \in Nat : doc.body["CurrentPlan"] = <<a>> /\ doc.body["TotalPlans"] = <<b>>
            <4>1. \A t \in Seq(Nat) : Len(t) = 1 => t[1] \in Nat /\ t = <<t[1]>>
                <5> SUFFICES ASSUME NEW t \in Seq(Nat), Len(t) = 1 PROVE t[1] \in Nat /\ t = <<t[1]>>
                    OBVIOUS
                <5>1. t[1] \in Nat
                    BY ElementOfSeq
                <5>2. <<t[1]>> \in Seq(Nat) /\ Len(<<t[1]>>) = 1
                    BY <5>1
                <5>3. \A i \in 1 .. 1 : t[i] = <<t[1]>>[i]
                    OBVIOUS
                <5> QED
                    BY <5>1, <5>2, <5>3, SeqEqual
            <4> QED
                BY <3>1, <4>1
        <3>3. PlanOf(doc) = <<a, b>>
            <4>1. PlanOf(doc) = doc.body["CurrentPlan"] \o doc.body["TotalPlans"]
                BY <1>2, <2>3 DEF PlanOf, InBody, BoldFields
            <4> QED
                BY <3>2, <4>1, OneNumber
        <3>4. b = d.plans
            BY <2>1, <3>3
        <3>5. doc'.body["TotalPlans"] = doc.body["TotalPlans"] /\ doc'.body["CurrentPlan"] = doc.body["CurrentPlan"]
            BY <1>1, <1>2, <2>2, <2>3, <3>2, <3>4 DEF BoldFields
        <3> QED
            BY <1>1, <1>2, <2>3, <3>5 DEF PlanOf, InBody, BoldFields
    <2>4. CASE ~doc.bold
        BY <1>1, <1>2, <2>4 DEF PlanOf, InBody, PlainFields
    <2> QED
        BY <2>3, <2>4
<1> QED
    BY <1>1, <1>3, <1>5 DEF WorkInv, PlanCounted, Open, Distinct

\* A phase added is not open, and its number is new.
LEMMA WorkMore ==
    ASSUME WorkInv, NEW more, dirs' = dirs \cup more, UNCHANGED <<doc, doubled>>,
           \A d \in more : ~Open(d) /\ d.num \notin Numbers(dirs),
           \A d, e \in more : d.num = e.num => d = e,
           \/ UNCHANGED <<at, stage>>
           \/ (\A d \in dirs : ~Open(d)) /\ stage' = "plan"
    PROVE  WorkInv'
<1> SUFFICES ASSUME ~doubled PROVE WorkInv'
    BY DEF WorkInv
<1>1. Distinct(dirs')
    <2> SUFFICES ASSUME NEW x \in dirs', NEW y \in dirs', x.num = y.num PROVE x = y
        BY DEF Distinct
    <2>1. \A d \in dirs, e \in more : d.num # e.num
        BY DEF Numbers
    <2>2. CASE x \in dirs /\ y \in dirs
        BY <2>2 DEF WorkInv, Distinct
    <2> QED
        BY <2>1, <2>2
<1>2. \A d \in dirs' : Open(d) => d \in dirs
    OBVIOUS
<1>3. CASE UNCHANGED <<at, stage>>
    BY <1>1, <1>2, <1>3 DEF WorkInv, Open
<1>4. CASE (\A d \in dirs : ~Open(d)) /\ stage' = "plan"
    BY <1>1, <1>2, <1>4, WorkNone
<1> QED
    BY <1>3, <1>4

\* Nothing is open at the end of the milestone.
LEMMA NoneOpenAtEnd ==
    ASSUME BaseInv, WorkInv, ~doubled, stage = "over"
    PROVE  \A d \in dirs : ~Open(d)
BY OpenIsFound

LEMMA WorkPhaseAdd ==
    ASSUME FewPhases, BaseInv, WorkInv, PhaseAdd
    PROVE  WorkInv'
<1> DEFINE n == NextNumber(roadmap, dirs)
           e == Dir(<<n>>, FreshTitle)
<1>1. /\ dirs' = dirs \cup {e} /\ UNCHANGED <<doc, doubled>>
      /\ UNCHANGED <<at, stage>> \/ (stage = "over" /\ stage' = "plan")
    BY DEF PhaseAdd
<1>2. n \in Nat \ {0} /\ \A d \in dirs : Len(d.num) = 1 => d.num[1] < n
    BY AddIsFresh
<1> HIDE DEF n
<1>3. e.num = <<n>> /\ ~Open(e)
    BY DEF Dir, Open
<1> HIDE DEF e
<1>4. \A d \in dirs : d.num # <<n>>
    <2> SUFFICES ASSUME NEW d \in dirs, d.num = <<n>> PROVE FALSE
        OBVIOUS
    <2>1. Len(d.num) = 1 /\ d.num[1] = n
        OBVIOUS
    <2>2. d.num[1] < n
        BY <1>2, <2>1
    <2>3. n < n
        BY <2>1, <2>2
    <2> QED
        BY <1>2, <2>3
<1>5. CASE doubled
    BY <1>1, <1>5 DEF WorkInv
<1>6. CASE ~doubled
    <2>1. UNCHANGED <<at, stage>> \/ ((\A d \in dirs : ~Open(d)) /\ stage' = "plan")
        BY <1>1, <1>6, NoneOpenAtEnd
    <2> DEFINE more == {e}
    <2>2. /\ dirs' = dirs \cup more /\ \A d, f \in more : d.num = f.num => d = f
          /\ \A d \in more : ~Open(d) /\ d.num \notin Numbers(dirs)
        BY <1>1, <1>3, <1>4 DEF Numbers
    <2> HIDE DEF more
    <2> QED
        BY <1>1, <2>1, <2>2, WorkMore
<1> QED
    BY <1>5, <1>6

LEMMA WorkPhaseAddBatch ==
    ASSUME FewPhases, BaseInv, WorkInv, PhaseAddBatch
    PROVE  WorkInv'
<1> DEFINE n == NextNumber(roadmap, dirs)
           e1 == Dir(<<n>>, FreshTitle)
           e2 == Dir(<<n + 1>>, FreshTitle + 1)
<1>1. dirs' = dirs \cup {e1, e2} /\ UNCHANGED <<at, stage, doc, doubled>>
    BY DEF PhaseAddBatch
<1>2. n \in Nat \ {0} /\ \A d \in dirs : Len(d.num) = 1 => d.num[1] < n
    BY AddIsFresh
<1> HIDE DEF n
<1>3. e1.num = <<n>> /\ ~Open(e1) /\ e2.num = <<n + 1>> /\ ~Open(e2)
    BY DEF Dir, Open
<1> HIDE DEF e1, e2
<1>4. \A d \in dirs : d.num # <<n>> /\ d.num # <<n + 1>>
    <2> SUFFICES ASSUME NEW d \in dirs, d.num = <<n>> \/ d.num = <<n + 1>> PROVE FALSE
        OBVIOUS
    <2>1. Len(<<n>>) = 1 /\ <<n>>[1] = n /\ Len(<<n + 1>>) = 1 /\ <<n + 1>>[1] = n + 1
        OBVIOUS
    <2>2. Len(d.num) = 1 /\ (d.num[1] = n \/ d.num[1] = n + 1)
        BY <2>1
    <2> QED
        BY <1>2, <2>2
<1>5. e1.num # e2.num
    BY <1>2, <1>3
<1> DEFINE more == {e1, e2}
<1>6. /\ dirs' = dirs \cup more /\ \A d, f \in more : d.num = f.num => d = f
      /\ \A d \in more : ~Open(d) /\ d.num \notin Numbers(dirs)
    BY <1>1, <1>3, <1>4, <1>5 DEF Numbers
<1> HIDE DEF more
<1> QED
    BY <1>1, <1>6, WorkMore

LEMMA WorkPhaseInsert ==
    ASSUME BaseInv, WorkInv, NEW num \in Numbers(Headings(roadmap)), PhaseInsert(num)
    PROVE  WorkInv'
<1> DEFINE next == NextDecimal(roadmap, dirs, num)
           e == Dir(next, Top + 1)
<1>1. dirs' = dirs \cup {e} /\ next \notin Numbers(dirs) /\ UNCHANGED <<doc, at, stage, doubled>>
    BY PhaseInsertIs
<1> HIDE DEF next
<1>2. e.num = next /\ ~Open(e)
    BY DEF Dir, Open
<1> HIDE DEF e
<1> DEFINE more == {e}
<1>3. /\ dirs' = dirs \cup more /\ \A d, f \in more : d.num = f.num => d = f
      /\ \A d \in more : ~Open(d) /\ d.num \notin Numbers(dirs)
    BY <1>1, <1>2
<1> HIDE DEF more
<1> QED
    BY <1>1, <1>3, WorkMore

LEMMA WorkPhaseRemove ==
    ASSUME BaseInv, WorkInv, NEW num \in Numbers(Headings(roadmap)), NEW force \in BOOLEAN,
           PhaseRemove(num, force)
    PROVE  WorkInv'
<1> DEFINE x == Find(dirs, num)
<1>1. /\ num \in Num /\ dirs' = RemovedDirs(dirs, num)
      /\ at' = Renumbered(at, num) /\ stage' = stage /\ doubled' = (doubled \/ ~Distinct(dirs'))
      /\ doc' = Synced(RemovePhase(doc), OnDisk(roadmap', dirs'))
    BY PhaseRemoveIs
<1>2. dirs \in SUBSET DirRecs /\ DocOK(doc)
    BY DEF BaseInv, TreeTypes
<1> SUFFICES ASSUME ~doubled, Distinct(dirs') PROVE WorkInv'
    BY <1>1 DEF WorkInv
<1>3. \A e \in dirs' : \E d \in dirs \ {x} :
          /\ e.num = Renumbered(d.num, num) /\ e.title = d.title /\ e.plans = d.plans
          /\ e.summaries = d.summaries /\ e.verified = d.verified
    BY <1>1, <1>2, RemovedDirsAre
<1> HIDE DEF x
<1>4. doc'.body["Status"] = doc.body["Status"] /\ PlanOf(doc') = PlanOf(doc)
    <2> DEFINE new == RemovePhase(doc)
    <2>1. /\ DocOK(new) /\ DOMAIN new.body = DOMAIN doc.body
          /\ \A g \in DOMAIN doc.body \ {"Phase", "TotalPhases"} : new.body[g] = doc.body[g]
        BY <1>2, RemoveIs
    <2> HIDE DEF new
    <2>2. doc'.body = new.body
        BY <1>1, <2>1, SyncedIs DEF new
    <2>3. DOMAIN doc.body = IF doc.bold THEN BoldFields ELSE PlainFields
        BY <1>2 DEF DocOK, IsDoc
    <2> QED
        BY <2>1, <2>2, <2>3 DEF PlanOf, InBody, BoldFields, PlainFields
<1>5. ASSUME NEW e \in dirs', Open(e)
      PROVE  /\ e.num = at' /\ stage' \notin {"verify", "complete"}
             /\ stage' \in {"execute", "progress", "advance"} => PlanCounted(e, PlanOf(doc'), stage')
    <2>1. PICK d \in dirs : e.num = Renumbered(d.num, num) /\ e.plans = d.plans /\ e.summaries = d.summaries
        BY <1>3
    <2>2. Open(d)
        BY <1>5, <2>1 DEF Open
    <2>3. d.num = at /\ stage \notin {"verify", "complete"}
        BY <2>2 DEF WorkInv
    <2>4. stage \in {"execute", "progress", "advance"} => PlanCounted(d, PlanOf(doc), stage)
        BY <2>2 DEF WorkInv
    <2> QED
        BY <1>1, <1>4, <2>1, <2>3, <2>4 DEF PlanCounted
<1> QED
    BY <1>1, <1>4, <1>5 DEF WorkInv, Open

LEMMA WorkFewer ==
    ASSUME BaseInv, WorkInv, dirs' \subseteq dirs, stage = "over", stage' \in {"over", "plan"}, UNCHANGED doubled
    PROVE  WorkInv'
<1>1. CASE doubled
    BY <1>1 DEF WorkInv
<1>2. CASE ~doubled
    <2>1. Distinct(dirs')
        BY <1>2 DEF WorkInv, Distinct
    <2>2. \A d \in dirs' : ~Open(d)
        BY <1>2, NoneOpenAtEnd
    <2> QED
        BY <2>1, <2>2, WorkNone
<1> QED
    BY <1>1, <1>2

LEMMA WorkStep ==
    ASSUME FewPhases, Sound, WorkInv, [PlanNext]_planVars
    PROVE  WorkInv'
<1>1. BaseInv /\ StatusInv
    BY DEF Sound
<1>2. CASE UNCHANGED planVars
    BY <1>2 DEF planVars, WorkInv, Open, PlanCounted, Distinct
<1>3. CASE StatePlanned
    <2>1. stage' = "begin" /\ UNCHANGED <<dirs, at, doubled>>
        BY <1>3 DEF StatePlanned, Step
    <2> QED
        BY <2>1, WorkSame
<1>4. CASE RoadmapProgress
    <2>1. stage = "progress" /\ stage' = "advance" /\ UNCHANGED <<dirs, at, doubled, doc>>
        BY <1>4 DEF RoadmapProgress, Step
    <2> QED
        BY <2>1 DEF WorkInv, PlanCounted, Open
<1>5. CASE MilestoneComplete
    <2>1. dirs' \subseteq dirs /\ stage = "over" /\ stage' = "over" /\ doubled' = doubled
        BY <1>5 DEF MilestoneComplete
    <2> QED
        BY <1>1, <2>1, WorkFewer
<1>6. CASE PhasesClear
    <2>1. dirs' \subseteq dirs /\ stage = "over" /\ stage' = "over" /\ doubled' = doubled
        BY <1>6 DEF PhasesClear
    <2> QED
        BY <1>1, <2>1, WorkFewer
<1>7. ASSUME NEW reset \in BOOLEAN, NewMilestone(reset) PROVE WorkInv'
    <2>1. dirs' \subseteq dirs /\ stage = "over" /\ stage' = "plan" /\ doubled' = doubled
        BY <1>7 DEF NewMilestone
    <2> QED
        BY <1>1, <2>1, WorkFewer
<1> QED
    BY <1>1, <1>2, <1>3, <1>4, <1>5, <1>6, <1>7, WorkPlanPhase, WorkStateBegin, WorkExecutePlan,
       WorkStateAdvance, WorkVerify, WorkPhaseComplete, WorkStateProgress, WorkPhaseAdd,
       WorkPhaseAddBatch, WorkPhaseInsert, WorkPhaseRemove
       DEF PlanNext

\* What holds of the directories and of the work as long as numbers do not
\* reach the backlog.
LEMMA PlanPlaces ==
    ASSUME FewPhases
    PROVE  PlanSpec => [](Sound /\ PlacesInv /\ WorkInv)
<1>1. PlanInit => Sound /\ PlacesInv /\ WorkInv
    <2> SUFFICES ASSUME PlanInit PROVE Sound /\ PlacesInv /\ WorkInv
        OBVIOUS
    <2>1. dirs = {} /\ stage = "plan"
        BY DEF PlanInit
    <2> QED
        BY <2>1, SoundInit DEF PlacesInv, WorkInv, Distinct
<1>2. Sound /\ PlacesInv /\ WorkInv /\ [PlanNext]_planVars => (Sound /\ PlacesInv /\ WorkInv)'
    BY SoundStep, PlacesStep, WorkStep
<1> QED
    BY <1>1, <1>2, PTL DEF PlanSpec

\* Of the directories with one integer, the phase comes before its decimals.
LEMMA IntegerFirst ==
    ASSUME NEW set \in SUBSET DirRecs, NEW f \in set, Len(f.num) = 1,
           \A e \in set : e.num[1] = f.num[1], \A e \in set : e.num = f.num => e = f
    PROVE  FirstDir(set) = f
<1> DEFINE First(d) == \A e \in set : d = e \/ Before(d.num, e.num) \/ (d.num = e.num /\ d.title <= e.title)
<1>1. \A e \in set : e.num \in Num
    BY DEF DirRecs
<1>2. ASSUME NEW e \in set, e # f PROVE Before(f.num, e.num)
    <2>1. e.num \in Num /\ f.num \in Num /\ e.num # f.num /\ e.num[1] = f.num[1]
        BY <1>1, <1>2
    <2>2. Len(e.num) = 2
        BY <2>1, NumEqual, NumParts DEF Num, At
    <2>3. At(f.num, 2) = 0 /\ At(e.num, 2) \in Nat /\ At(e.num, 2) > 0 /\ f.num[1] \in Nat
        BY <2>1, <2>2, NumParts DEF Num, At
    <2> QED
        BY <2>1, <2>3, BeforeIs
<1>3. First(f)
    BY <1>2
<1>4. ASSUME NEW g \in set, First(g) PROVE g = f
    <2>1. g = f \/ Before(g.num, f.num) \/ g.num = f.num
        BY <1>4
    <2>2. g # f => ~Before(g.num, f.num)
        <3>1. g # f => Before(f.num, g.num)
            BY <1>2
        <3>2. g.num \in Num /\ f.num \in Num
            BY <1>1
        <3> QED
            BY <3>1, <3>2, BeforeOrders
    <2> QED
        BY <2>1, <2>2
<1>5. FirstDir(set) = CHOOSE d \in set : First(d)
    BY DEF FirstDir
<1> HIDE DEF First
<1> QED
    BY <1>3, <1>4, <1>5

\* The part of StatusTold about state validate.
LEMMA NoneVerified ==
    ASSUME Sound, PlacesInv, at # <<>> => doc.body["Phase"][1] = at /\ at \in Numbers(dirs)
    PROVE  "verified" \notin StateValidate(dirs, doc)
<1> SUFFICES ASSUME "verified" \in StateValidate(dirs, doc) PROVE FALSE
    OBVIOUS
<1> DEFINE d == ValidatedDir(dirs, doc)
           same == {e \in dirs : e.num[1] = doc.body["Phase"][1][1]}
<1>1. d # NoDir /\ doc.body["Status"] = "executing" /\ d.verified
    BY DEF StateValidate
<1>2. doc.bold /\ ~(Len(doc.body["Phase"][1]) > 1) /\ d = FirstDir(same)
    BY <1>1 DEF ValidatedDir
<1> HIDE DEF d
<1>3. stage \in {"execute", "progress", "advance"}
    BY <1>1, <1>2 DEF Sound, StatusInv
<1>4. /\ BaseInv /\ dirs \in SUBSET DirRecs /\ at \in Num /\ Len(at) = 1
      /\ same = {e \in dirs : e.num[1] = at[1]}
    <2>1. BaseInv /\ dirs \in SUBSET DirRecs /\ at \in Num
        BY <1>3 DEF Sound, BaseInv, TreeTypes
    <2>2. at # <<>> /\ (Len(at) = 1 \/ Len(at) = 2)
        BY <2>1, NumParts DEF Num
    <2>3. doc.body["Phase"][1] = at
        BY <2>2
    <2>4. Len(at) = 1
        <3>1. ~(Len(at) > 1)
            BY <1>2, <2>3, Zenon
        <3>2. 2 > 1
            OBVIOUS
        <3> QED
            BY <2>2, <3>1, <3>2, Zenon
    <2>5. same = {e \in dirs : e.num[1] = at[1]}
        BY <2>3
    <2> QED
        BY <2>1, <2>4, <2>5
<1>5. PICK f \in dirs : f.num = at
    BY <1>4, NumParts DEF Numbers
<1>6. f \in same /\ same \in SUBSET DirRecs /\ \A e \in same : e.num[1] = f.num[1]
    BY <1>4, <1>5
<1>7. \A e \in same : e.num = f.num => e = f
    BY <1>4, <1>5 DEF PlacesInv
<1> HIDE DEF same
<1>8. d = f
    BY <1>2, <1>4, <1>5, <1>6, <1>7, IntegerFirst
<1>9. stage = "complete"
    BY <1>1, <1>4, <1>5, <1>8, AtHandVerified
<1> QED
    BY <1>3, <1>9

\* STATE.md tells where the session is: executing while a plan is executed,
\* completed once the last phase was reported, and no phase that was verified
\* is said to be executing.
THEOREM PlanTellsStatus ==
    ASSUME FewPhases
    PROVE  PlanSpec => []StatusTold
<1>1. Sound /\ PlacesInv /\ WorkInv => StatusTold
    <2> SUFFICES ASSUME Sound, PlacesInv, WorkInv PROVE StatusTold
        OBVIOUS
    <2>1. DocOK(doc) /\ (closed => stage = "over")
        BY DEF Sound, BaseInv, TreeTypes
    <2>2. stage \in {"execute", "progress"} /\ ~doubled => StatusShown(doc) = "executing"
        <3> SUFFICES ASSUME stage \in {"execute", "progress"}, ~doubled PROVE StatusShown(doc) = "executing"
            OBVIOUS
        <3>1. Shown(doc)
            BY DEF Sound, StatusInv
        <3>2. doc.body["Status"] \in {"executing", "readyToExecute"}
            BY DEF WorkInv
        <3>3. doc.front.status = "executing"
            BY <3>1, <3>2, StatusWords DEF Shown
        <3> QED
            BY <3>3 DEF StatusShown
    <2>3. doc.bold /\ closed => StatusShown(doc) = "completed"
        <3> SUFFICES ASSUME doc.bold, closed PROVE StatusShown(doc) = "completed"
            OBVIOUS
        <3>1. Shown(doc) /\ doc.body["Status"] = "milestoneComplete"
            BY <2>1 DEF Sound, StatusInv
        <3>2. doc.front.status = "completed"
            BY <3>1, StatusWords DEF Shown
        <3> QED
            BY <3>2 DEF StatusShown
    <2> QED
        BY <2>2, <2>3, NoneVerified DEF StatusTold
<1>2. PlanSpec => [](Sound /\ PlacesInv /\ WorkInv)
    BY PlanPlaces
<1> QED
    BY <1>1, <1>2, PTL

-----------------------------------------------------------------------------
(* What adding, inserting and removing phases keep.                        *)

\* A directory that shares neither its number nor its title moves with the
\* phases after the one removed.
LEMMA MovedIs ==
    ASSUME BaseInv, NEW num \in Numbers(Headings(roadmap)), NEW force \in BOOLEAN, PhaseRemove(num, force),
           NEW d \in dirs, Lone(d), d.title \in {f.title : f \in dirs'}
    PROVE  d.num \in Num /\ d.num # num /\ Moved(d.title) = Renumbered(d.num, num)
<1> DEFINE x == Find(dirs, num)
<1>1. num \in Num /\ dirs' = RemovedDirs(dirs, num) /\ dirs \in SUBSET DirRecs
    BY PhaseRemoveIs DEF BaseInv, TreeTypes
<1>2. \A f \in dirs' : \E c \in dirs \ {x} : f.num = Renumbered(c.num, num) /\ f.title = c.title
    BY <1>1, RemovedDirsAre
<1>3. ASSUME NEW f \in dirs', f.title = d.title
      PROVE  d # x /\ f.num = Renumbered(d.num, num)
    <2>1. PICK c \in dirs \ {x} : f.num = Renumbered(c.num, num) /\ f.title = c.title
        BY <1>2
    <2>2. c = d
        BY <1>3, <2>1 DEF Lone
    <2> QED
        BY <2>1, <2>2
<1>4. PICK f \in dirs' : f.title = d.title
    OBVIOUS
<1>5. d # x
    BY <1>3, <1>4
<1>6. d.num # num
    <2> SUFFICES ASSUME d.num = num PROVE FALSE
        OBVIOUS
    <2>1. \A e \in dirs : e.num = d.num => e = d
        BY DEF Lone
    <2>2. Find(dirs, d.num) = d
        BY <1>1, <2>1, FindOnly
    <2> QED
        BY <1>5, <2>2
<1>7. (CHOOSE g \in dirs' : g.title = d.title).num = Renumbered(d.num, num)
    <2> DEFINE g == CHOOSE y \in dirs' : y.title = d.title
    <2>1. g \in dirs' /\ g.title = d.title
        BY <1>4
    <2> QED
        BY <1>3, <2>1
<1> QED
    BY <1>1, <1>6, <1>7 DEF Moved, DirRecs

\* Directories are renumbered in order.
LEMMA OrderStep ==
    ASSUME BaseInv
    PROVE  OrderKept
<1> SUFFICES ASSUME NEW num \in Numbers(Headings(roadmap)), NEW force \in BOOLEAN, PhaseRemove(num, force),
                    NEW d \in dirs, NEW e \in dirs, Before(d.num, e.num),
                    ~Under(d.num, num), ~Under(e.num, num), Lone(d), Lone(e),
                    {d.title, e.title} \subseteq {f.title : f \in dirs'}
             PROVE  Before(Moved(d.title), Moved(e.title))
    BY DEF OrderKept
<1>1. num \in Num
    BY PhaseRemoveIs
<1>2. /\ d.num \in Num /\ d.num # num /\ Moved(d.title) = Renumbered(d.num, num)
      /\ e.num \in Num /\ e.num # num /\ Moved(e.title) = Renumbered(e.num, num)
    BY MovedIs
<1> QED
    BY <1>1, <1>2, RenumberedOrder

\* Only plans of a phase without a heading are written to a shipped one.
LEMMA ShippedStep ==
    ASSUME BaseInv, [PlanNext]_planVars
    PROVE  ShippedFixed
<1>1. ASSUME NEW n \in 1 .. MaxPlans, PlanPhase(n) PROVE ShippedFixed
    BY <1>1, PlanPhaseIs DEF ShippedFixed
<1>2. CASE shipped \subseteq shipped'
    BY <1>2 DEF ShippedFixed
<1>3. CASE UNCHANGED planVars
    BY <1>2, <1>3 DEF planVars
<1>4. CASE \/ StatePlanned \/ StateBegin \/ ExecutePlan \/ RoadmapProgress \/ StateAdvance
           \/ Verify \/ PhaseComplete \/ StateProgress \/ PhaseAdd \/ PhaseAddBatch
    BY <1>2, <1>4 DEF StatePlanned, StateBegin, ExecutePlan, RoadmapProgress, StateAdvance, Verify,
       PhaseComplete, StateProgress, PhaseAdd, PhaseAddBatch
<1>5. CASE MilestoneComplete \/ PhasesClear \/ \E reset \in BOOLEAN : NewMilestone(reset)
    BY <1>2, <1>5 DEF MilestoneComplete, PhasesClear, NewMilestone
<1>6. ASSUME NEW num \in Numbers(Headings(roadmap)),
             PhaseInsert(num) \/ \E force \in BOOLEAN : PhaseRemove(num, force)
      PROVE  ShippedFixed
    BY <1>2, <1>6 DEF PhaseInsert, PhaseRemove
<1> QED
    BY <1>1, <1>3, <1>4, <1>5, <1>6 DEF PlanNext

\* A number given to a new phase is given to no other.
LEMMA FreshStep ==
    ASSUME FewPhases, BaseInv, [PlanNext]_planVars
    PROVE  FreshNumbers
<1> DEFINE New(p) == /\ p \notin Numbers(dirs)
                     /\ \A h \in Headings(roadmap) : h.num = p => Len(h.num) = 2 /\ ~h.padded
<1>1. edits \in Nat /\ Top \in Nat /\ FreshTitle = Top + 1
    BY PlanningAssumption DEF BaseInv, TreeTypes, FreshTitle, Top
<1>2. CASE edits' = edits
    <2>1. ~(edits' > edits)
        BY <1>1, <1>2
    <2> QED
        BY <2>1 DEF FreshNumbers
<1>3. CASE \A d \in dirs' \ dirs : New(d.num)
    BY <1>3 DEF FreshNumbers
<1>4. CASE UNCHANGED planVars
    BY <1>2, <1>4 DEF planVars
<1>5. CASE \/ StatePlanned \/ StateBegin \/ ExecutePlan \/ RoadmapProgress \/ StateAdvance
           \/ Verify \/ PhaseComplete \/ StateProgress \/ MilestoneComplete \/ PhasesClear
           \/ \E n \in 1 .. MaxPlans : PlanPhase(n)
    BY <1>2, <1>5 DEF StatePlanned, StateBegin, ExecutePlan, RoadmapProgress, StateAdvance, Verify,
       PhaseComplete, StateProgress, MilestoneComplete, PhasesClear, PlanPhase
<1>6. ASSUME PhaseAdd \/ PhaseAddBatch PROVE FreshNumbers
    <2> DEFINE n == NextNumber(roadmap, dirs)
    <2>1. \A d \in dirs' \ dirs : d.num = <<n>> \/ d.num = <<n + 1>>
        BY <1>6 DEF PhaseAdd, PhaseAddBatch, Dir
    <2>2. /\ n \in Nat \ {0} /\ \A d \in dirs : Len(d.num) = 1 => d.num[1] < n
          /\ \A h \in Headings(roadmap) : h.num[1] < n
        BY AddIsFresh
    <2> HIDE DEF n
    <2>3. ASSUME NEW k \in {n, n + 1} PROVE New(<<k>>)
        <3>1. k \in Nat /\ n <= k /\ n \in Nat
            BY <2>2
        <3>2. <<k>>[1] = k /\ Len(<<k>>) = 1
            OBVIOUS
        <3>3. ASSUME NEW d \in dirs, d.num = <<k>> PROVE FALSE
            <4>1. Len(d.num) = 1 /\ d.num[1] = k
                BY <3>2, <3>3
            <4>2. d.num[1] < n
                BY <2>2, <4>1
            <4>3. k < n
                BY <4>1, <4>2
            <4> QED
                BY <3>1, <4>3
        <3>4. ASSUME NEW h \in Headings(roadmap), h.num = <<k>> PROVE FALSE
            <4>1. h.num[1] = k
                BY <3>2, <3>4
            <4>2. k < n
                BY <2>2, <4>1
            <4> QED
                BY <3>1, <4>2
        <3> QED
            BY <3>3, <3>4 DEF Numbers
    <2>4. New(<<n>>) /\ New(<<n + 1>>)
        BY <2>3
    <2> HIDE DEF New
    <2> QED
        BY <1>3, <2>1, <2>4
<1>7. ASSUME NEW num \in Numbers(Headings(roadmap)), PhaseInsert(num) PROVE FreshNumbers
    <2> DEFINE next == NextDecimal(roadmap, dirs, num)
    <2>1. /\ dirs' = dirs \cup {Dir(next, Top + 1)} /\ Len(next) = 2 /\ next \notin Numbers(dirs)
          /\ \A h \in Headings(roadmap) : h.num = next => ~h.padded
        BY <1>7, PhaseInsertIs
    <2> HIDE DEF next
    <2>2. \A d \in dirs' \ dirs : d.num = next
        BY <2>1 DEF Dir
    <2> QED
        BY <1>3, <2>1, <2>2
<1>8. ASSUME NEW num \in Numbers(Headings(roadmap)), NEW force \in BOOLEAN, PhaseRemove(num, force)
      PROVE  FreshNumbers
    <2>1. dirs \in SUBSET DirRecs /\ \A d \in dirs : d.title <= Top /\ d.title \in Nat
        BY DEF BaseInv, TreeTypes, GivenInv, DirRecs
    <2>2. num \in Num /\ dirs' = RemovedDirs(dirs, num)
        BY <1>8, PhaseRemoveIs
    <2>3. \A e \in dirs' : \E d \in dirs : e.title = d.title
        <3>1. dirs \in SUBSET DirRecs
            BY <2>1
        <3>2. \A e \in RemovedDirs(dirs, num) : \E d \in dirs \ {Find(dirs, num)} :
                /\ e.num = Renumbered(d.num, num) /\ e.title = d.title /\ e.plans = d.plans
                /\ e.summaries = d.summaries /\ e.verified = d.verified
            BY <2>2, <3>1, RemovedDirsAre
        <3> QED
            BY <2>2, <3>2
    <2>4. \A e \in dirs' : ~(e.title >= FreshTitle)
        BY <1>1, <2>1, <2>3
    <2> QED
        BY <2>4 DEF FreshNumbers
<1>9. ASSUME NEW reset \in BOOLEAN, NewMilestone(reset) PROVE FreshNumbers
    <2>1. dirs' \subseteq dirs
        BY <1>9 DEF NewMilestone
    <2> QED
        BY <2>1 DEF FreshNumbers
<1> HIDE DEF New
<1> QED
    BY <1>4, <1>5, <1>6, <1>7, <1>8, <1>9 DEF PlanNext

\* Removing a phase keeps the order of the others, and only the plans of a
\* phase that lost its heading are written to a shipped directory; for any
\* numbers.
THEOREM PlanKeepsOrder == PlanSpec => [][OrderKept /\ ShippedFixed]_planVars
<1>1. Sound /\ [PlanNext]_planVars => [OrderKept /\ ShippedFixed]_planVars
    BY OrderStep, ShippedStep DEF Sound
<1> QED
    BY <1>1, PlanSound, PTL DEF PlanSpec

\* And the numbers that phase add, phase add-batch and phase insert give are
\* new, as long as they do not reach the backlog.
THEOREM PlanEditsSound ==
    ASSUME FewPhases
    PROVE  PlanSpec => EditsSound
<1>1. Sound /\ [PlanNext]_planVars => [FreshNumbers /\ OrderKept /\ ShippedFixed]_planVars
    BY FreshStep, OrderStep, ShippedStep DEF Sound
<1>2. PlanSpec => [][FreshNumbers /\ OrderKept /\ ShippedFixed]_planVars
    BY <1>1, PlanSound, PTL DEF PlanSpec
<1> QED
    BY <1>2 DEF EditsSound

-----------------------------------------------------------------------------
(* What the commands that read the plan tell.                              *)

\* Percentages are rounded: a whole is 100 percent, and with fewer than 200
\* parts nothing else is.
LEMMA DivIs ==
    ASSUME NEW x \in Nat, NEW m \in Nat \ {0}
    PROVE  x \div m \in Nat /\ m * (x \div m) <= x /\ x < m * (x \div m) + m
OBVIOUS

LEMMA TimesMore ==
    ASSUME NEW m \in Nat, NEW a \in Nat, NEW b \in Nat, a <= b
    PROVE  m * a <= m * b
OBVIOUS

LEMMA Rounded ==
    ASSUME NEW n \in Nat \ {0}, NEW k \in 0 .. n
    PROVE  LET q == (200 * k + n) \div (2 * n)
           IN  /\ q <= 100 /\ (k = n => q = 100) /\ (q = 100 /\ n < 200 => k = n)
               /\ q = Percent(k, n)
<1> DEFINE q == (200 * k + n) \div (2 * n)
<1>1. 200 * k + n \in Nat /\ 2 * n \in Nat \ {0} /\ n \in Nat /\ k \in Nat /\ k <= n
    OBVIOUS
<1>2. q \in Nat /\ (2 * n) * q <= 200 * k + n /\ 200 * k + n < (2 * n) * q + (2 * n)
    BY <1>1, DivIs
<1>3. Percent(k, n) = IF q > 100 THEN 100 ELSE q
    BY DEF Percent
<1> HIDE DEF q
<1>4. q <= 100
    <2> SUFFICES ASSUME ~(q <= 100) PROVE FALSE
        OBVIOUS
    <2>1. 101 <= q
        BY <1>2
    <2>2. (2 * n) * 101 <= (2 * n) * q
        BY <1>1, <1>2, <2>1, TimesMore
    <2> QED
        BY <1>1, <1>2, <2>2
<1>5. ASSUME k = n PROVE q = 100
    <2> SUFFICES ASSUME q <= 99 PROVE FALSE
        BY <1>2, <1>4
    <2>1. (2 * n) * q <= (2 * n) * 99
        BY <1>1, <1>2, TimesMore
    <2> QED
        BY <1>1, <1>2, <1>5, <2>1
<1>6. ASSUME q = 100, n < 200 PROVE k = n
    <2>1. 200 * n <= 200 * k + n
        BY <1>1, <1>2, <1>6
    <2> QED
        BY <1>1, <1>6, <2>1
<1>7. Percent(k, n) = q
    BY <1>2, <1>3, <1>4
<1> QED
    BY <1>4, <1>5, <1>6, <1>7 DEF q

\* As many numbers as members, while numbers are distinct.
LEMMA NumbersCount ==
    ASSUME NEW set, IsFiniteSet(set), Distinct(set)
    PROVE  IsFiniteSet(Numbers(set)) /\ Cardinality(Numbers(set)) = Cardinality(set)
<1> DEFINE f == [x \in set |-> x.num]
<1>1. f \in [set -> Numbers(set)] /\ \A n \in Numbers(set) : \E x \in set : f[x] = n
    BY DEF Numbers
<1>2. \A x, y \in set : f[x] = f[y] => x = y
    BY DEF Distinct
<1> HIDE DEF f
<1>3. f \in Surjection(set, Numbers(set)) /\ f \in Injection(set, Numbers(set))
    BY <1>1, <1>2, Fun_IsSurj, Fun_IsInj
<1> QED
    BY <1>3, FS_Surjection

LEMMA HeadingsCount ==
    ASSUME NEW r, NEW top, RoadOK(r, top)
    PROVE  IsFiniteSet(Headings(r)) /\ Cardinality(Headings(r)) = Len(r)
<1>1. r \in Seq(HeadingRecs) /\ \A i, j \in DOMAIN r : r[i].title = r[j].title => i = j
    BY DEF RoadOK
<1>2. DOMAIN r = 1 .. Len(r) /\ Len(r) \in Nat /\ r \in [1 .. Len(r) -> HeadingRecs]
    BY <1>1
<1>3. /\ \A i \in 1 .. Len(r) : r[i] \in Headings(r)
      /\ \A h \in Headings(r) : \E i \in 1 .. Len(r) : r[i] = h
    BY <1>1, <1>2, HeadingsTyped
<1>4. r \in [1 .. Len(r) -> Headings(r)]
    BY <1>2, <1>3
<1>5. \A i, j \in 1 .. Len(r) : r[i] = r[j] => i = j
    BY <1>1, <1>2
<1>6. r \in Surjection(1 .. Len(r), Headings(r)) /\ r \in Injection(1 .. Len(r), Headings(r))
    BY <1>3, <1>4, <1>5, Fun_IsSurj, Fun_IsInj
<1>7. IsFiniteSet(1 .. Len(r)) /\ Cardinality(1 .. Len(r)) = Len(r)
    <2>1. IsFiniteSet(1 .. Len(r)) /\ Cardinality(1 .. Len(r)) = IF 1 > Len(r) THEN 0 ELSE Len(r) - 1 + 1
        <3>1. 1 \in Int /\ Len(r) \in Int
            BY <1>2
        <3>2. \A a, b \in Int : IsFiniteSet(a .. b) /\ Cardinality(a .. b) = IF a > b THEN 0 ELSE b - a + 1
            BY FS_Interval
        <3> QED
            BY <3>1, <3>2
    <2> QED
        BY <1>2, <2>1
<1> QED
    BY <1>6, <1>7, FS_Surjection

\* The directories whose plans all have a summary; a phase at the end of the
\* milestone has one of them.
Done(set) == {d \in set : DirStatus(d) = "complete"}
AllDone == Numbers(Done(dirs)) = Numbers(Headings(roadmap))

Unduplicated == Distinct(dirs) /\ Distinct(Headings(roadmap)) /\ Numbers(dirs) \subseteq Numbers(Headings(roadmap))

LEMMA CleanListed ==
    ASSUME BaseInv, Unduplicated
    PROVE  /\ Listed(roadmap, dirs) = dirs /\ roadmap \in Seq(HeadingRecs) /\ dirs \in SUBSET DirRecs
           /\ \A d \in dirs : d.num \in Num /\ DirStatus(d) \in {"complete", "in_progress", "pending"}
           /\ \A h \in Headings(roadmap) : h.num \in Num
<1>1. roadmap \in Seq(HeadingRecs) /\ dirs \in SUBSET DirRecs
    BY DEF BaseInv, TreeTypes, GivenInv, RoadOK
<1>2. Listed(roadmap, dirs) = dirs
    BY DEF Unduplicated, Listed, InMilestone, Numbers
<1>3. \A d \in dirs : d.num \in Num /\ DirStatus(d) \in {"complete", "in_progress", "pending"}
    BY <1>1 DEF DirRecs, DirStatus
<1>4. \A h \in Headings(roadmap) : h.num \in Num
    BY <1>1, HeadingsTyped DEF HeadingRecs
<1> QED
    BY <1>1, <1>2, <1>3, <1>4

LEMMA FirstDirIn ==
    ASSUME NEW set \in SUBSET DirRecs, IsFiniteSet(set), set # {}
    PROVE  FirstDir(set) \in set
<1> DEFINE nums == Numbers(set)
<1>1. nums \in SUBSET Num /\ nums # {}
    BY DEF Numbers, DirRecs
<1>2. PICK p \in nums : \A q \in nums : p = q \/ Before(p, q)
    <2> HIDE DEF nums
    <2> QED
        BY <1>1, FirstNumber
<1> DEFINE titles == {d.title : d \in {e \in set : e.num = p}}
<1>3. titles \in SUBSET Nat /\ titles # {}
    BY <1>2 DEF Numbers, DirRecs
<1>4. Least(titles) \in titles /\ \A n \in titles : Least(titles) <= n
    <2> HIDE DEF titles
    <2> QED
        BY <1>3, LeastIs
<1>5. PICK d \in set : d.num = p /\ d.title = Least(titles)
    BY <1>4
<1>6. \A e \in set : d = e \/ Before(d.num, e.num) \/ (d.num = e.num /\ d.title <= e.title)
    BY <1>2, <1>4, <1>5 DEF Numbers
<1> QED
    BY <1>6 DEF FirstDir

\* init progress has no current and no next phase when all are done.
LEMMA ProgressTold ==
    ASSUME BaseInv, Unduplicated
    PROVE  ProgressCurrent(roadmap, dirs) = <<>> /\ ProgressNext(roadmap, dirs) = <<>> <=> AllDone
<1> DEFINE open == WithStatus(roadmap, dirs, "in_progress")
           pending == WithStatus(roadmap, dirs, "pending")
           bare == {i \in DOMAIN roadmap : roadmap[i].num \notin Numbers(Listed(roadmap, dirs))}
<1>1. /\ Listed(roadmap, dirs) = dirs /\ roadmap \in Seq(HeadingRecs) /\ dirs \in SUBSET DirRecs
      /\ \A d \in dirs : d.num \in Num /\ DirStatus(d) \in {"complete", "in_progress", "pending"}
      /\ \A h \in Headings(roadmap) : h.num \in Num
    BY CleanListed
<1>2. IsFiniteSet(dirs) /\ \A p \in Num : p # <<>>
    BY NumParts DEF BaseInv, TreeTypes
<1>3. /\ open = {d \in dirs : DirStatus(d) = "in_progress"}
      /\ pending = {d \in dirs : DirStatus(d) = "pending"}
      /\ bare = {i \in DOMAIN roadmap : roadmap[i].num \notin Numbers(dirs)}
    BY <1>1 DEF WithStatus
<1>4. ASSUME NEW set \in SUBSET dirs, set # {} PROVE FirstDir(set).num # <<>>
    <2>1. IsFiniteSet(set)
        BY <1>2, FS_Subset
    <2>2. FirstDir(set) \in set
        BY <1>1, <1>4, <2>1, FirstDirIn
    <2> QED
        BY <1>1, <1>2, <2>2
<1>5. bare # {} => roadmap[Least(bare)].num # <<>>
    <2> SUFFICES ASSUME bare # {} PROVE roadmap[Least(bare)].num # <<>>
        OBVIOUS
    <2>1. bare \in SUBSET Nat
        BY <1>1
    <2>2. Least(bare) \in bare
        <3> HIDE DEF bare
        <3> QED
            BY <2>1, LeastIs
    <2>3. Least(bare) \in DOMAIN roadmap
        BY <2>2
    <2> HIDE DEF bare
    <2> QED
        BY <1>1, <1>2, <2>3, HeadingsTyped
<1>6. ProgressCurrent(roadmap, dirs) = <<>> <=> open = {}
    <2>1. open \in SUBSET dirs
        BY <1>3
    <2> QED
        BY <1>4, <2>1 DEF ProgressCurrent
<1>7. ProgressCurrent(roadmap, dirs) = <<>> /\ ProgressNext(roadmap, dirs) = <<>>
          <=> open = {} /\ pending = {} /\ bare = {}
    <2>1. pending \in SUBSET dirs
        BY <1>3
    <2>2. ProgressNext(roadmap, dirs) =
              IF pending # {} THEN FirstDir(pending).num
              ELSE IF ProgressCurrent(roadmap, dirs) = <<>> /\ bare # {} THEN roadmap[Least(bare)].num
              ELSE <<>>
        BY DEF ProgressNext
    <2>3. pending # {} => FirstDir(pending).num # <<>>
        BY <1>4, <2>1
    <2> HIDE DEF pending, bare, open
    <2> QED
        BY <1>5, <1>6, <2>2, <2>3
<1>8. open = {} /\ pending = {} /\ bare = {} <=> AllDone
    <2>1. ASSUME open = {}, pending = {}, bare = {} PROVE AllDone
        <3>1. Done(dirs) = dirs
            BY <1>1, <1>3, <2>1 DEF Done
        <3>2. \A h \in Headings(roadmap) : h.num \in Numbers(dirs)
            BY <1>1, <1>3, <2>1, HeadingsTyped
        <3> QED
            BY <3>1, <3>2 DEF AllDone, Unduplicated, Numbers
    <2>2. ASSUME AllDone PROVE open = {} /\ pending = {} /\ bare = {}
        <3>1. \A d \in dirs : DirStatus(d) = "complete"
            <4> SUFFICES ASSUME NEW d \in dirs PROVE DirStatus(d) = "complete"
                OBVIOUS
            <4>1. d.num \in Numbers(Done(dirs))
                BY <2>2 DEF AllDone, Unduplicated, Numbers
            <4>2. PICK c \in dirs : DirStatus(c) = "complete" /\ c.num = d.num
                BY <4>1 DEF Numbers, Done
            <4>3. c = d
                BY <4>2 DEF Unduplicated, Distinct
            <4> QED
                BY <4>2, <4>3
        <3>2. \A i \in DOMAIN roadmap : roadmap[i].num \in Numbers(dirs)
            <4> SUFFICES ASSUME NEW i \in DOMAIN roadmap PROVE roadmap[i].num \in Numbers(dirs)
                OBVIOUS
            <4>1. roadmap[i].num \in Numbers(Headings(roadmap))
                BY <1>1, HeadingsTyped DEF Numbers
            <4> QED
                BY <2>2, <4>1 DEF AllDone, Numbers, Done
        <3> QED
            BY <1>3, <3>1, <3>2
    <2> QED
        BY <2>1, <2>2
<1> QED
    BY <1>7, <1>8

\* roadmap analyze has neither when all are done, as long as what is checked
\* off is done.
LEMMA AnalyzeTold ==
    ASSUME BaseInv, Tidy
    PROVE  CurrentPhase(roadmap, dirs) = <<>> /\ UpcomingPhase(roadmap, dirs) = <<>> <=> AllDone
<1> DEFINE Which(kinds) == {i \in DOMAIN roadmap : DiskStatus(roadmap[i], dirs) \in kinds}
<1>0. Unduplicated
    BY DEF Tidy, Unduplicated
<1>1. /\ roadmap \in Seq(HeadingRecs) /\ dirs \in SUBSET DirRecs
      /\ \A h \in Headings(roadmap) : h.num \in Num
      /\ \A i \in DOMAIN roadmap : roadmap[i] \in Headings(roadmap)
      /\ \A h \in Headings(roadmap) : \E i \in DOMAIN roadmap : h = roadmap[i]
    BY <1>0, CleanListed, HeadingsTyped
<1>2. ASSUME NEW kinds PROVE FirstWith(roadmap, dirs, kinds) = <<>> <=> Which(kinds) = {}
    <2>1. Which(kinds) # {} => roadmap[Least(Which(kinds))].num # <<>>
        <3> DEFINE found == Which(kinds)
        <3> SUFFICES ASSUME found # {} PROVE roadmap[Least(found)].num # <<>>
            OBVIOUS
        <3>1. found \in SUBSET Nat /\ found \subseteq DOMAIN roadmap
            BY <1>1
        <3> HIDE DEF found
        <3>2. Least(found) \in found
            BY <3>1, LeastIs
        <3>3. roadmap[Least(found)].num \in Num
            BY <1>1, <3>1, <3>2
        <3> QED
            BY <3>3, NumParts
    <2> QED
        BY <2>1 DEF FirstWith
<1>3. ASSUME NEW h \in Headings(roadmap)
      PROVE  /\ DiskStatus(h, dirs) \in {"complete", "no_directory", "partial", "planned", "empty"}
             /\ DiskStatus(h, dirs) = "complete" <=> h.num \in Numbers(Done(dirs))
    <2> DEFINE d == Find(dirs, h.num)
    <2>1. h.num \in Num /\ (h.done => DirStatus(d) = "complete")
        BY <1>1 DEF Tidy
    <2>2. DiskStatus(h, dirs) = "complete" <=> h.done \/ (d.plans > 0 /\ d.summaries >= d.plans)
        BY DEF DiskStatus
    <2>3. DirStatus(d) = "complete" <=> d.plans > 0 /\ d.summaries >= d.plans
        BY DEF DirStatus
    <2>4. ASSUME DirStatus(d) = "complete" PROVE h.num \in Numbers(Done(dirs))
        <3>1. d # NoDir
            BY <2>3, <2>4 DEF NoDir, Dir
        <3>2. d \in dirs /\ d.num = h.num
            BY <1>1, <2>1, <3>1, FindIs
        <3> QED
            BY <2>4, <3>2 DEF Done, Numbers
    <2>5. ASSUME h.num \in Numbers(Done(dirs)) PROVE DirStatus(d) = "complete"
        <3>1. PICK c \in dirs : DirStatus(c) = "complete" /\ c.num = h.num
            BY <2>5 DEF Done, Numbers
        <3>2. \A e \in dirs : e.num = c.num => e = c
            BY DEF Tidy, Distinct
        <3>3. d = c
            BY <1>1, <3>1, <3>2, FindOnly
        <3> QED
            BY <3>1, <3>3
    <2>6. DiskStatus(h, dirs) \in {"complete", "no_directory", "partial", "planned", "empty"}
        BY DEF DiskStatus
    <2> HIDE DEF d
    <2> QED
        BY <2>1, <2>2, <2>3, <2>4, <2>5, <2>6
<1>4. CurrentPhase(roadmap, dirs) = <<>> /\ UpcomingPhase(roadmap, dirs) = <<>>
          <=> \A i \in DOMAIN roadmap : DiskStatus(roadmap[i], dirs) = "complete"
    <2>1. /\ CurrentPhase(roadmap, dirs) = <<>> <=> Which({"planned", "partial"}) = {}
          /\ UpcomingPhase(roadmap, dirs) = <<>> <=> Which({"empty", "no_directory"}) = {}
        BY <1>2 DEF CurrentPhase, UpcomingPhase
    <2>2. \A i \in DOMAIN roadmap :
              DiskStatus(roadmap[i], dirs) \in {"complete", "no_directory", "partial", "planned", "empty"}
        BY <1>1, <1>3
    <2> QED
        BY <2>1, <2>2
<1>5. (\A i \in DOMAIN roadmap : DiskStatus(roadmap[i], dirs) = "complete")
          <=> \A h \in Headings(roadmap) : h.num \in Numbers(Done(dirs))
    BY <1>1, <1>3
<1>6. (\A h \in Headings(roadmap) : h.num \in Numbers(Done(dirs))) <=> AllDone
    <2>1. Numbers(Done(dirs)) \subseteq Numbers(Headings(roadmap))
        BY <1>0 DEF Unduplicated, Done, Numbers
    <2>2. (\A h \in Headings(roadmap) : h.num \in Numbers(Done(dirs)))
              <=> Numbers(Headings(roadmap)) \subseteq Numbers(Done(dirs))
        BY DEF Numbers
    <2> QED
        BY <2>1, <2>2 DEF AllDone
<1> QED
    BY <1>4, <1>5, <1>6

\* workstream progress counts the directories that are done, for the headings.
LEMMA StreamTold ==
    ASSUME BaseInv, Unduplicated, Len(roadmap) \in 1 .. 199
    PROVE  StreamPercent(roadmap, dirs) = 100 <=> AllDone
<1> DEFINE n == Len(roadmap)
           done == Done(dirs)
           k == Cardinality(done)
           all == Numbers(Headings(roadmap))
<1>1. RoadOK(roadmap, Top) /\ IsFiniteSet(dirs) /\ n \in Nat \ {0} /\ n < 200
    <2>1. \A m \in 1 .. 199 : m \in Nat \ {0} /\ m < 200
        OBVIOUS
    <2>2. n \in Nat \ {0} /\ n < 200
        BY <2>1, Zenon
    <2> HIDE DEF n
    <2> QED
        BY <2>2 DEF BaseInv, TreeTypes, GivenInv
<1>2. IsFiniteSet(all) /\ Cardinality(all) = n
    <2>1. IsFiniteSet(Headings(roadmap)) /\ Cardinality(Headings(roadmap)) = n
        BY <1>1, HeadingsCount
    <2> QED
        BY <2>1, NumbersCount DEF Unduplicated
<1>3. IsFiniteSet(done) /\ Distinct(done) /\ Numbers(done) \subseteq all
    <2>1. done \subseteq dirs
        BY DEF Done
    <2>2. IsFiniteSet(done)
        BY <1>1, <2>1, FS_Subset
    <2> QED
        BY <2>1, <2>2 DEF Unduplicated, Distinct, Numbers
<1>4. IsFiniteSet(Numbers(done)) /\ Cardinality(Numbers(done)) = k
    <2> HIDE DEF done
    <2> QED
        BY <1>3, NumbersCount
<1> HIDE DEF all
<1>5. k \in 0 .. n /\ (k = n <=> Numbers(done) = all)
    <2>1. Cardinality(Numbers(done)) <= Cardinality(all)
          /\ (Cardinality(all) = Cardinality(Numbers(done)) => all = Numbers(done))
        BY <1>2, <1>3, FS_Subset
    <2>2. k \in Nat /\ n \in Nat
        BY <1>1, <1>3, FS_CardinalityType
    <2>3. k <= n /\ (n = k => Numbers(done) = all) /\ (Numbers(done) = all => k = n)
        BY <1>2, <1>4, <2>1, Zenon
    <2> HIDE DEF k, n, done
    <2> QED
        BY <2>2, <2>3
<1>6. StreamPercent(roadmap, dirs) = (200 * k + n) \div (2 * n)
    <2>1. roadmap # <<>>
        BY <1>1
    <2> QED
        BY <2>1 DEF StreamPercent, Done
<1> HIDE DEF n, k
<1>7. (200 * k + n) \div (2 * n) = 100 <=> k = n
    BY <1>1, <1>5, Rounded
<1> QED
    BY <1>5, <1>6, <1>7 DEF AllDone, all

\* stats has a row for each heading; all of them complete means all done.
LEMMA StatsTold ==
    ASSUME BaseInv, Unduplicated, Len(roadmap) \in 1 .. 199, StatsPercent(roadmap, dirs) = 100
    PROVE  AllDone
<1> DEFINE rows == StatsRows(roadmap, dirs)
           all == Numbers(Headings(roadmap))
           complete == {num \in all : rows[num] = "Complete"}
           n == Len(roadmap)
           k == Cardinality(complete)
<1>1. RoadOK(roadmap, Top) /\ n \in Nat \ {0} /\ n < 200
    <2>1. \A m \in 1 .. 199 : m \in Nat \ {0} /\ m < 200
        OBVIOUS
    <2>2. n \in Nat \ {0} /\ n < 200
        BY <2>1, Zenon
    <2> HIDE DEF n
    <2> QED
        BY <2>2 DEF BaseInv, GivenInv
<1>2. Listed(roadmap, dirs) = dirs /\ dirs \in SUBSET DirRecs
    BY CleanListed
<1>3. DOMAIN rows = all
    BY <1>2 DEF StatsRows, Unduplicated
<1>4. IsFiniteSet(all) /\ Cardinality(all) = n
    <2>1. IsFiniteSet(Headings(roadmap)) /\ Cardinality(Headings(roadmap)) = n
        BY <1>1, HeadingsCount
    <2> QED
        BY <2>1, NumbersCount DEF Unduplicated
<1>5. ASSUME NEW num \in all, rows[num] = "Complete" PROVE num \in Numbers(Done(dirs))
    <2> DEFINE same == {d \in dirs : d.num = num}
               last == CHOOSE y \in same : \A e \in same : e.title <= y.title
               told == rows[num]
    <2>0. told = "Complete"
        BY <1>5
    <2>1. (same = {} => told = "Not Started") /\ (same # {} => told = WorkStatus(last))
        <3>1. told = IF same = {} THEN "Not Started" ELSE WorkStatus(last)
            BY <1>2, <1>3 DEF StatsRows
        <3> HIDE DEF told, last, same
        <3> QED
            BY <3>1, Zenon
    <2>2. PICK d \in dirs : d.num = num
        <3>1. same # {}
            <4> HIDE DEF told, last, same
            <4> QED
                BY <2>0, <2>1
        <3> QED
            BY <3>1
    <2>3. same = {d} /\ d.title \in Nat
        BY <1>2, <2>2 DEF Unduplicated, Distinct, DirRecs
    <2>4. last = d
        BY <2>3
    <2>5. WorkStatus(d) = "Complete"
        <3>1. same # {}
            BY <2>3
        <3> HIDE DEF told, last, same
        <3> QED
            BY <2>0, <2>1, <2>4, <3>1
    <2>6. d.plans \in Nat /\ d.summaries \in Nat
        BY <1>2 DEF DirRecs
    <2>7. d.plans # 0 /\ ~(d.summaries < d.plans)
        BY <2>5 DEF WorkStatus
    <2>8. DirStatus(d) = "complete"
        BY <2>6, <2>7 DEF DirStatus
    <2> QED
        BY <2>2, <2>8 DEF Done, Numbers
<1>6. k \in 0 .. n /\ (k = n => complete = all)
    <2>1. complete \subseteq all
        OBVIOUS
    <2> HIDE DEF complete, all
    <2>2. IsFiniteSet(complete) /\ k <= n /\ (n = k => all = complete)
        BY <1>4, <2>1, FS_Subset
    <2>3. k \in Nat
        BY <2>2, FS_CardinalityType
    <2> QED
        BY <1>1, <2>2, <2>3
<1>7. Percent(k, n) = 100
    <2>1. all # {}
        BY <1>1, <1>4, FS_EmptySet
    <2>2. StatsPercent(roadmap, dirs) = Percent(k, Cardinality(all))
        BY <1>3, <2>1 DEF StatsPercent
    <2> QED
        BY <1>4, <2>2
<1> HIDE DEF n, k
<1>8. k = n
    BY <1>1, <1>6, <1>7, Rounded
<1>9. all \subseteq Numbers(Done(dirs))
    BY <1>5, <1>6, <1>8
<1>10. Numbers(Done(dirs)) \subseteq Numbers(dirs)
    BY DEF Done, Numbers
<1> QED
    BY <1>9, <1>10 DEF AllDone, Unduplicated

\* A union of finitely many finite sets, one for each member.
LEMMA PlansFinite ==
    ASSUME NEW set \in SUBSET DirRecs, IsFiniteSet(set)
    PROVE  IsFiniteSet(UNION {{d} \X (1 .. d.plans) : d \in set})
<1> DEFINE f == [d \in set |-> {d} \X (1 .. d.plans)]
           parts == {{d} \X (1 .. d.plans) : d \in set}
<1>1. f \in [set -> parts] /\ \A t \in parts : \E d \in set : f[d] = t
    OBVIOUS
<1>2. \A d \in set : IsFiniteSet({d} \X (1 .. d.plans))
    <2> SUFFICES ASSUME NEW d \in set PROVE IsFiniteSet({d} \X (1 .. d.plans))
        OBVIOUS
    <2>1. 1 \in Int /\ d.plans \in Int
        BY DEF DirRecs
    <2>2. \A a, b \in Int : IsFiniteSet(a .. b)
        BY FS_Interval
    <2>3. IsFiniteSet(1 .. d.plans)
        BY <2>1, <2>2
    <2>4. IsFiniteSet({d})
        BY FS_Singleton
    <2> QED
        BY <2>3, <2>4, FS_Product
<1>3. \A t \in parts : IsFiniteSet(t)
    BY <1>2
<1> HIDE DEF f, parts
<1>4. IsFiniteSet(parts)
    BY <1>1, Fun_IsSurj, FS_Surjection
<1> QED
    BY <1>3, <1>4, FS_UNION DEF parts

\* progress renders 100 percent when all are done.
LEMMA RenderTold ==
    ASSUME BaseInv, Unduplicated, AllDone, Len(roadmap) \in 1 .. 199
    PROVE  RenderedPercent(dirs) = 100
<1>1. dirs \in SUBSET DirRecs /\ IsFiniteSet(dirs) /\ roadmap \in Seq(HeadingRecs)
    BY DEF BaseInv, TreeTypes, GivenInv, RoadOK
<1>2. \A d \in dirs : d.plans > 0 /\ d.summaries = d.plans
    <2> SUFFICES ASSUME NEW d \in dirs PROVE d.plans > 0 /\ d.summaries = d.plans
        OBVIOUS
    <2>1. d.num \in Numbers(Done(dirs))
        BY DEF AllDone, Unduplicated, Numbers
    <2>2. PICK c \in dirs : DirStatus(c) = "complete" /\ c.num = d.num
        BY <2>1 DEF Done, Numbers
    <2>3. c = d
        BY <2>2 DEF Unduplicated, Distinct
    <2>4. d.plans > 0 /\ d.summaries >= d.plans
        BY <2>2, <2>3 DEF DirStatus
    <2> QED
        BY <1>1, <2>4 DEF DirRecs
<1>3. Summaries(dirs) = Plans(dirs)
    <2>1. {{d} \X (1 .. d.summaries) : d \in dirs} = {{d} \X (1 .. d.plans) : d \in dirs}
        BY <1>2
    <2> QED
        BY <2>1 DEF Summaries, Plans
<1>4. PICK d \in dirs : TRUE
    <2>1. roadmap[1] \in Headings(roadmap)
        BY <1>1, HeadingsTyped
    <2>2. roadmap[1].num \in Numbers(Done(dirs))
        BY <2>1 DEF AllDone, Numbers
    <2> QED
        BY <2>2 DEF Done, Numbers
<1> DEFINE plans == UNION {{e} \X (1 .. e.plans) : e \in dirs}
<1>5. IsFiniteSet(plans) /\ <<d, 1>> \in plans
    <2>1. IsFiniteSet(plans)
        BY <1>1, PlansFinite
    <2>2. 1 \in 1 .. d.plans
        <3>1. d.plans \in Nat /\ d.plans > 0
            BY <1>1, <1>2, <1>4 DEF DirRecs
        <3> QED
            BY <3>1
    <2>3. <<d, 1>> \in {d} \X (1 .. d.plans)
        BY <2>2
    <2> QED
        BY <1>4, <2>1, <2>3
<1>6. Plans(dirs) = Cardinality(plans)
    BY DEF Plans
<1> HIDE DEF plans
<1>7. Plans(dirs) \in Nat \ {0}
    BY <1>5, <1>6, FS_CardinalityType, FS_EmptySet
<1>8. Percent(Plans(dirs), Plans(dirs)) = 100
    <2> DEFINE n == Plans(dirs)
    <2>1. n \in Nat \ {0} /\ n \in 0 .. n
        BY <1>7
    <2> HIDE DEF n
    <2>2. Percent(n, n) = 100
        BY <2>1, Rounded
    <2> QED
        BY <2>2 DEF n
<1> QED
    BY <1>3, <1>7, <1>8 DEF RenderedPercent

\* verify phase-completeness finds each phase complete when all are done.
LEMMA PhasesTold ==
    ASSUME BaseInv, Unduplicated, AllDone, NEW h \in Headings(roadmap)
    PROVE  PhaseIsComplete(dirs, shipped, h.num)
<1>1. dirs \in SUBSET DirRecs /\ h.num \in Num
    BY CleanListed
<1>2. h.num \in Numbers(Done(dirs))
    BY DEF AllDone, Numbers
<1>3. PICK c \in dirs : DirStatus(c) = "complete" /\ c.num = h.num
    BY <1>2 DEF Done, Numbers
<1>4. Find(dirs, h.num) = c
    <2>1. \A e \in dirs : e.num = c.num => e = c
        BY DEF Unduplicated, Distinct
    <2> QED
        BY <1>1, <1>3, <2>1, FindOnly
<1>5. c.summaries >= c.plans /\ c # NoDir
    <2>1. c.plans > 0 /\ c.summaries >= c.plans
        BY <1>3 DEF DirStatus
    <2> QED
        BY <2>1 DEF NoDir, Dir
<1> QED
    BY <1>4, <1>5 DEF PhaseIsComplete, Located

\* state json and progress count the same files.
LEMMA JsonTold ==
    ASSUME BaseInv, Unduplicated, Plans(dirs) > 0
    PROVE  StateJson(roadmap, dirs, doc).percent = RenderedPercent(dirs)
<1> DEFINE disk == OnDisk(roadmap, dirs)
<1>1. disk.plans = Plans(dirs) /\ disk.summaries = Summaries(dirs)
    <2>1. {d \in dirs : InMilestone(roadmap, d)} = dirs
        BY DEF Unduplicated, InMilestone, Numbers
    <2> QED
        BY <2>1 DEF OnDisk
<1> HIDE DEF disk
<1> DEFINE front == YamlBlock(doc.body, disk)
<1>2. front.percent = Percent(Summaries(dirs), Plans(dirs))
    BY <1>1 DEF YamlBlock
<1>3. front = [status |-> front.status, percent |-> front.percent, plans |-> front.plans,
               summaries |-> front.summaries]
    BY DEF YamlBlock
<1> HIDE DEF front
<1>4. \A x : [front EXCEPT !.status = x].percent = front.percent
    BY <1>3
<1>5. Synced(doc, disk).front.percent = front.percent
    <2>1. DocOK(doc)
        BY DEF BaseInv
    <2>2. Synced(doc, disk).front \in {front, [front EXCEPT !.status = doc.front.status]}
        BY <2>1 DEF Synced, front, DocOK, IsDoc
    <2> QED
        BY <1>4, <2>2
<1> QED
    BY <1>2, <1>5 DEF StateJson, RenderedPercent, disk

\* While every phase has an integer, a heading in either spelling is its own.
LEMMA WarningsTold ==
    ASSUME BaseInv
    PROVE  WarningsTrue
<1> SUFFICES ASSUME Distinct(dirs), Distinct(Headings(roadmap)),
                    \A x \in dirs \cup Headings(roadmap) : Len(x.num) = 1
             PROVE  /\ MissingOnDisk(roadmap, dirs) \cup UnknownOnDisk(roadmap, dirs) = {}
                          <=> Numbers(dirs) = Numbers(Headings(roadmap))
                    /\ W006(roadmap, dirs) = {h.num : h \in {g \in Headings(roadmap) : g.done}} \ Numbers(dirs)
                    /\ W007(roadmap, dirs) = Numbers(dirs) \ Numbers(Headings(roadmap))
    BY DEF WarningsTrue
<1>1. /\ roadmap \in Seq(HeadingRecs) /\ \A d \in dirs : d.num \in Num
      /\ \A h \in Headings(roadmap) : h.num \in Num /\ h.padded \in BOOLEAN
    <2>1. roadmap \in Seq(HeadingRecs) /\ dirs \in SUBSET DirRecs
        BY DEF BaseInv, TreeTypes, GivenInv, RoadOK
    <2>2. \A h \in Headings(roadmap) : h \in HeadingRecs
        BY <2>1, HeadingsTyped
    <2> QED
        BY <2>1, <2>2 DEF DirRecs, HeadingRecs
<1>2. \A x \in dirs \cup Headings(roadmap) : x.num = <<x.num[1]>>
    BY <1>1, NumParts
<1>3. ASSUME NEW d \in dirs
      PROVE  (Spelled(roadmap, d.num, TRUE) = 0 /\ Spelled(roadmap, <<d.num[1]>>, FALSE) = 0)
                 <=> d.num \notin Numbers(Headings(roadmap))
    <2>1. /\ Spelled(roadmap, d.num, TRUE) = 0
                 <=> \A h \in Headings(roadmap) : ~(h.num = d.num /\ h.padded = TRUE)
          /\ Spelled(roadmap, d.num, FALSE) = 0
                 <=> \A h \in Headings(roadmap) : ~(h.num = d.num /\ h.padded = FALSE)
        <3>1. \A num, p : Spelled(roadmap, num, p) = 0
                             <=> \A h \in Headings(roadmap) : ~(h.num = num /\ h.padded = p)
            BY <1>1, SpelledIs
        <3> QED
            BY <3>1, Zenon
    <2>2. <<d.num[1]>> = d.num
        BY <1>2
    <2> QED
        BY <1>1, <2>1, <2>2 DEF Numbers
<1>4. UnknownOnDisk(roadmap, dirs) = Numbers(dirs) \ Numbers(Headings(roadmap))
    BY <1>3 DEF UnknownOnDisk, Numbers
<1>5. MissingOnDisk(roadmap, dirs) = Numbers(Headings(roadmap)) \ Numbers(dirs)
    BY DEF MissingOnDisk, Numbers
<1>6. ASSUME NEW g \in Headings(roadmap)
      PROVE  (/\ ~(g.padded /\ g.num \in Numbers(dirs)) /\ <<g.num[1]>> \notin Numbers(dirs)
              /\ \A k \in Headings(roadmap) : k.num[1] = g.num[1] => k.done)
                 <=> g.done /\ g.num \notin Numbers(dirs)
    <2>1. g.num = <<g.num[1]>>
        BY <1>2
    <2>2. \A k \in Headings(roadmap) : k.num[1] = g.num[1] => k = g
        BY <1>2 DEF Distinct
    <2> QED
        BY <2>1, <2>2
<1>7. W006(roadmap, dirs) = {h.num : h \in {g \in Headings(roadmap) : g.done}} \ Numbers(dirs)
    <2> DEFINE warned == {g \in Headings(roadmap) :
                              /\ ~(g.padded /\ g.num \in Numbers(dirs)) /\ <<g.num[1]>> \notin Numbers(dirs)
                              /\ \A k \in Headings(roadmap) : k.num[1] = g.num[1] => k.done}
    <2>1. W006(roadmap, dirs) = {h.num : h \in warned}
        BY DEF W006
    <2>2. warned = {g \in Headings(roadmap) : g.done /\ g.num \notin Numbers(dirs)}
        BY <1>6
    <2> HIDE DEF warned
    <2> QED
        BY <2>1, <2>2
<1> QED
    BY <1>4, <1>5, <1>7 DEF W007

\* The commands that only read the plan agree with each other, and what they
\* warn of is so.
THEOREM PlanViewsAgree == PlanSpec => []ViewsSound
<1>1. Sound => ViewsSound
    <2> SUFFICES ASSUME BaseInv PROVE ViewsSound
        BY DEF Sound
    <2> SUFFICES ASSUME Tidy, Len(roadmap) \in 1 .. 199 PROVE ViewsAgree
        BY WarningsTold DEF ViewsSound, ViewsAgree
    <2>1. Unduplicated
        BY DEF Tidy, Unduplicated
    <2>2. AllDone <=> ProgressCurrent(roadmap, dirs) = <<>> /\ ProgressNext(roadmap, dirs) = <<>>
        BY <2>1, ProgressTold
    <2>3. AllDone <=> CurrentPhase(roadmap, dirs) = <<>> /\ UpcomingPhase(roadmap, dirs) = <<>>
        BY AnalyzeTold
    <2>4. AllDone <=> StreamPercent(roadmap, dirs) = 100
        BY <2>1, StreamTold
    <2>5. StatsPercent(roadmap, dirs) = 100 => AllDone
        BY <2>1, StatsTold
    <2>6. AllDone => /\ RenderedPercent(dirs) = 100
                     /\ \A h \in Headings(roadmap) : PhaseIsComplete(dirs, shipped, h.num)
        BY <2>1, RenderTold, PhasesTold
    <2>7. Plans(dirs) > 0 => StateJson(roadmap, dirs, doc).percent = RenderedPercent(dirs)
        BY <2>1, JsonTold
    <2> QED
        BY <2>2, <2>3, <2>4, <2>5, <2>6, <2>7 DEF ViewsAgree
<1> QED
    BY <1>1, PlanSound, PTL
=============================================================================
