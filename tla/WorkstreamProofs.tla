-------------------------- MODULE WorkstreamProofs --------------------------
(***************************************************************************)
(* The workstreams, for any number of sessions, names, commands and        *)
(* faults.  A step of one session changes which workstreams exist only     *)
(* when it makes or removes a directory, and no other pointer (Effect):    *)
(* that is SessionsApart.  That the files of the project are kept rests on *)
(* KeptInv: while one command moves files alone, what it still has to move *)
(* and has moved says in which of two places each file is, so that what it *)
(* removes at its end, or when it takes everything back, is empty.         *)
(***************************************************************************)
EXTENDS Workstreams, SequenceTheorems, TLAPS

\* The steps of the commands, and what their variables range over.
Labels == {"end", "create", "root", "migrate", "main", "look", "move", "restore", "make",
           "complete", "shelve", "unshelve"}
Some == Names \cup {NoName}
Runs == [at : Labels, name : Some, into : Some, todo : SUBSET Items, moved : SUBSET Items,
         kept : BOOLEAN, archive : Nat]
Dirs == [Items -> Nat]
Shelves == [name : Names, dir : Dirs]

\* The command of a session knows where it moves from and to.
RunOK(r) ==
    /\ r.at # "end" => runs > 0 /\ r.name \in Names
    /\ r.at \in {"look", "move", "restore"} => r.into \in Names
    /\ r.at \in {"shelve", "unshelve"} => r.archive \in 1 .. Len(archives)
    /\ r.at = "move" => r.todo # {}
    /\ r.at \in {"create", "root", "migrate", "main", "complete"} => r.moved = {}

StreamTypes ==
    /\ flat \in Dirs /\ streams \in [Names -> Dirs \cup {NoStream}] /\ archives \in Seq(Shelves)
    /\ pointer \in [Keyed -> Some] /\ shared \in Some
    /\ run \in [Sessions -> Runs] /\ runs \in Nat
    /\ \A s \in Sessions : RunOK(run[s])

\* What a step of s does to the workstreams that exist and to other pointers.
Effect(s) ==
    /\ \A t \in Keyed \ {s} : pointer'[t] = pointer[t]
    /\ \A n \in Names :
          \/ Exists(n)' <=> Exists(n)
          \/ Exists(n)' /\ run[s].at \in {"make", "main"}
          \/ ~Exists(n)' /\ run[s].at \in {"shelve", "restore"}

LEMMA NoStreamIsNone == NoStream \notin Dirs /\ Empty \in Dirs
<1>1. NoStream["phases"] = -1 /\ "phases" \in Items
    BY DEF NoStream, Items
<1>2. \A d \in Dirs : d["phases"] # -1
    BY <1>1 DEF Dirs
<1>3. Empty \in Dirs
    BY DEF Empty, Dirs
<1> QED
    BY <1>1, <1>2, <1>3

LEMMA FirstIsOne == ASSUME NEW items \in SUBSET Items, items # {} PROVE First(items) \in items
<1>1. Order[1] = "ROADMAP" /\ Order[2] = "STATE" /\ Order[3] = "phases"
    BY DEF Order
<1>2. \E n \in 1 .. 3 : Order[n] \in items /\ \A m \in 1 .. n - 1 : Order[m] \notin items
    <2>1. CASE "ROADMAP" \in items
        <3>1. 1 \in 1 .. 3 /\ \A m \in 1 .. 1 - 1 : FALSE
            OBVIOUS
        <3> QED
            BY <1>1, <2>1, <3>1
    <2>2. CASE "ROADMAP" \notin items /\ "STATE" \in items
        <3>1. 2 \in 1 .. 3 /\ \A m \in 1 .. 2 - 1 : m = 1
            OBVIOUS
        <3> QED
            BY <1>1, <2>2, <3>1
    <2>3. CASE items = {"phases"}
        <3>1. 3 \in 1 .. 3 /\ \A m \in 1 .. 3 - 1 : m = 1 \/ m = 2
            OBVIOUS
        <3> QED
            BY <1>1, <2>3, <3>1
    <2> QED
        BY <2>1, <2>2, <2>3 DEF Items
<1> QED
    BY <1>2 DEF First

LEMMA RunSet ==
    ASSUME StreamTypes, NEW s \in Sessions, NEW r \in Runs, run' = [run EXCEPT ![s] = r], RunOK(r)',
           runs' \in Nat, runs' >= runs, archives' \in Seq(Shelves), Len(archives') >= Len(archives),
           flat' \in Dirs, streams' \in [Names -> Dirs \cup {NoStream}],
           pointer' \in [Keyed -> Some], shared' \in Some
    PROVE  StreamTypes'
<1>1. run' \in [Sessions -> Runs] /\ run'[s] = r /\ \A t \in Sessions \ {s} : run'[t] = run[t]
    BY DEF StreamTypes
<1>2. Len(archives) \in Nat /\ Len(archives') \in Nat
    BY LenProperties DEF StreamTypes
<1>3. ASSUME NEW t \in Sessions \ {s} PROVE RunOK(run[t])'
    BY <1>1, <1>2, <1>3 DEF StreamTypes, RunOK
<1>4. RunOK(run[s])'
    BY <1>1 DEF RunOK
<1> QED
    BY <1>1, <1>3, <1>4 DEF StreamTypes

LEMMA PointIs ==
    ASSUME StreamTypes, NEW s \in Sessions, NEW n \in Some, Point(s, n)
    PROVE  /\ pointer' \in [Keyed -> Some] /\ shared' \in Some
           /\ \A t \in Keyed \ {s} : pointer'[t] = pointer[t]
BY DEF StreamTypes, Point

LEMMA ActiveIs ==
    ASSUME StreamTypes, NEW s \in Sessions
    PROVE  Active(s) \in Some /\ (Active(s) # NoName => Active(s) \in Names /\ Exists(Active(s)))
BY NameAssumption DEF StreamTypes, Active, PointerOf, Some

\* Every command starts with no file moved.
LEMMA LaunchedIs ==
    ASSUME StreamTypes, NEW s \in Sessions, NEW n \in Some, NEW l \in {"end", "create", "complete"},
           l # "end" => n \in Names,
           Launched(s, [NoRun EXCEPT !.at = l, !.name = n])
    PROVE  StreamTypes' /\ Effect(s)
<1>1. PICK r : r = [NoRun EXCEPT !.at = l, !.name = n]
    OBVIOUS
<1>2. r \in Runs /\ r.at = l /\ r.name = n /\ r.moved = {}
    BY <1>1 DEF NoRun, Runs, Labels, Some
<1>3. /\ run' = [run EXCEPT ![s] = r] /\ runs' = runs + 1 /\ Point(s, Active(s))
      /\ UNCHANGED <<flat, streams, archives>>
    BY <1>1 DEF Launched
<1>4. /\ pointer' \in [Keyed -> Some] /\ shared' \in Some
      /\ \A t \in Keyed \ {s} : pointer'[t] = pointer[t]
    BY <1>3, ActiveIs, PointIs
<1>5. runs' \in Nat /\ runs' > 0 /\ runs' >= runs
    BY <1>3 DEF StreamTypes
<1>6. RunOK(r)'
    BY <1>2, <1>5 DEF RunOK
<1>7. Len(archives') >= Len(archives)
    BY <1>3, LenProperties DEF StreamTypes
<1>8. StreamTypes'
    BY <1>2, <1>3, <1>4, <1>5, <1>6, <1>7, RunSet DEF StreamTypes
<1> QED
    BY <1>3, <1>4, <1>8 DEF Effect, Exists

\* A step that goes to label l and leaves directories and pointers alone.
LEMMA GoesIs ==
    ASSUME StreamTypes, NEW s \in Sessions, NEW l \in Labels, Goes(s, l),
           run[s].at # "end", l \notin {"move", "complete", "shelve", "look"},
           l = "restore" => run[s].at \in {"look", "move"},
           l = "unshelve" => run[s].at = "shelve",
           l \in {"create", "root", "migrate", "main"} => run[s].at \in {"create", "root", "migrate", "main"},
           UNCHANGED runs,
           flat' \in Dirs, streams' \in [Names -> Dirs \cup {NoStream}],
           archives' \in Seq(Shelves), Len(archives') = Len(archives),
           pointer' \in [Keyed -> Some], shared' \in Some
    PROVE  StreamTypes'
<1>1. PICK r : r = [run[s] EXCEPT !.at = l]
    OBVIOUS
<1>2. run[s] \in Runs /\ RunOK(run[s]) /\ runs \in Nat
    BY DEF StreamTypes
<1>3. /\ r \in Runs /\ r.at = l /\ r.name = run[s].name /\ r.into = run[s].into
      /\ r.moved = run[s].moved /\ r.archive = run[s].archive
    BY <1>1, <1>2 DEF Runs
<1>4. run' = [run EXCEPT ![s] = r]
    BY <1>1 DEF Goes
<1>5. RunOK(r)'
    BY <1>2, <1>3 DEF RunOK
<1>6. Len(archives') >= Len(archives)
    BY LenProperties DEF StreamTypes
<1>7. runs' \in Nat /\ runs' >= runs
    BY <1>2
<1> QED
    BY <1>3, <1>4, <1>5, <1>6, <1>7, RunSet

\* workstream set and set --clear.
LEMMA PointsKeep ==
    ASSUME StreamTypes, NEW s \in Sessions, (\E n \in Names : SetStream(s, n)) \/ ClearStream(s)
    PROVE  StreamTypes' /\ Effect(s)
<1>1. PICK n \in Some : Point(s, n)
    BY DEF SetStream, ClearStream, Some
<1>2. /\ pointer' \in [Keyed -> Some] /\ shared' \in Some
      /\ \A t \in Keyed \ {s} : pointer'[t] = pointer[t]
    BY <1>1, PointIs
<1>3. runs' = runs + 1 /\ UNCHANGED <<flat, streams, archives, run>>
    BY DEF SetStream, ClearStream
<1>4. \A t \in Sessions : RunOK(run[t])'
    BY <1>3 DEF StreamTypes, RunOK
<1>5. runs' \in Nat
    BY <1>3 DEF StreamTypes
<1>6. StreamTypes'
    BY <1>2, <1>3, <1>4, <1>5 DEF StreamTypes
<1> QED
    BY <1>2, <1>3, <1>6 DEF Effect, Exists

\* The steps of create that move nothing.
LEMMA CreateSteps ==
    ASSUME StreamTypes, NEW s \in Sessions, CreateBegins(s) \/ MakeRoot(s) \/ Migrate(s)
    PROVE  StreamTypes' /\ Effect(s)
<1>1. UNCHANGED <<flat, streams, archives, pointer, shared, runs>>
    BY DEF CreateBegins, MakeRoot, Migrate
<1>2. PICK l \in {"end", "make", "migrate", "root", "main"} : Goes(s, l)
    <2>1. CASE CreateBegins(s)
        BY <2>1 DEF CreateBegins
    <2>2. CASE MakeRoot(s)
        BY <2>2 DEF MakeRoot
    <2>3. CASE Migrate(s)
        BY <2>3 DEF Migrate
    <2> QED
        BY <2>1, <2>2, <2>3
<1>3. run[s].at \in {"create", "root", "migrate"}
    BY DEF CreateBegins, MakeRoot, Migrate
<1>4. l \in Labels
    BY <1>2 DEF Labels
<1>5. flat' \in Dirs /\ streams' \in [Names -> Dirs \cup {NoStream}] /\ archives' \in Seq(Shelves)
      /\ Len(archives') = Len(archives) /\ pointer' \in [Keyed -> Some] /\ shared' \in Some
    BY <1>1 DEF StreamTypes
<1>6. StreamTypes'
    BY <1>1, <1>2, <1>3, <1>4, <1>5, GoesIs
<1> QED
    BY <1>1, <1>6 DEF Effect, Exists

LEMMA MakeMainIs ==
    ASSUME StreamTypes, NEW s \in Sessions, MakeMain(s)
    PROVE  /\ StreamTypes' /\ Effect(s)
           /\ run' = [run EXCEPT ![s] = [run[s] EXCEPT !.at = "look", !.into = Main, !.todo = Items]]
           /\ ~Exists(Main) => streams'[Main] = Empty
           /\ \A n \in Names \ {Main} : streams'[n] = streams[n]
<1>1. PICK r : r = [run[s] EXCEPT !.at = "look", !.into = Main, !.todo = Items]
    OBVIOUS
<1>2. /\ run[s].at = "main" /\ run' = [run EXCEPT ![s] = r]
      /\ streams' = [streams EXCEPT ![Main] = IF Exists(Main) THEN streams[Main] ELSE Empty]
      /\ UNCHANGED <<flat, archives, pointer, shared, runs>>
    BY <1>1 DEF MakeMain
<1>3. run[s] \in Runs /\ RunOK(run[s]) /\ Main \in Names /\ runs \in Nat
    BY NameAssumption DEF StreamTypes
<1>4. r \in Runs /\ r.at = "look" /\ r.into = Main /\ r.name = run[s].name /\ r.moved = run[s].moved
    BY <1>1, <1>3 DEF Runs, Labels, Some
<1>5. RunOK(r)'
    BY <1>2, <1>3, <1>4 DEF RunOK
<1>6. /\ streams' \in [Names -> Dirs \cup {NoStream}]
      /\ streams'[Main] = (IF Exists(Main) THEN streams[Main] ELSE Empty)
      /\ \A n \in Names \ {Main} : streams'[n] = streams[n]
    BY <1>2, <1>3, NoStreamIsNone DEF StreamTypes
<1>7. /\ flat' \in Dirs /\ archives' \in Seq(Shelves) /\ Len(archives') >= Len(archives)
      /\ pointer' \in [Keyed -> Some] /\ shared' \in Some /\ runs' \in Nat /\ runs' >= runs
    BY <1>2, <1>3, LenProperties DEF StreamTypes
<1>8. StreamTypes'
    BY <1>2, <1>4, <1>5, <1>6, <1>7, RunSet
<1>9. Effect(s)
    <2>1. \A n \in Names : (Exists(n)' <=> Exists(n)) \/ Exists(n)'
        BY <1>6, NoStreamIsNone DEF Exists
    <2> QED
        BY <1>2, <2>1 DEF Effect
<1> QED
    BY <1>1, <1>2, <1>6, <1>8, <1>9

LEMMA LookIs ==
    ASSUME StreamTypes, NEW s \in Sessions, Look(s)
    PROVE  StreamTypes' /\ Effect(s)
<1>1. PICK r : /\ r = IF run[s].todo = {} THEN [run[s] EXCEPT !.at = "make"]
                      ELSE IF Holds(flat, First(run[s].todo)) THEN [run[s] EXCEPT !.at = "move"]
                      ELSE [run[s] EXCEPT !.todo = run[s].todo \ {First(run[s].todo)}]
               /\ run' = [run EXCEPT ![s] = r]
    BY DEF Look
<1>2. run[s].at = "look" /\ UNCHANGED <<flat, streams, archives, pointer, shared, runs>>
    BY DEF Look
<1>3. run[s] \in Runs /\ RunOK(run[s]) /\ runs \in Nat
    BY DEF StreamTypes
<1>4. r \in Runs /\ r.at \in {"make", "move", "look"} /\ r.into = run[s].into /\ r.name = run[s].name
      /\ (r.at = "move" => r.todo # {})
    BY <1>1, <1>2, <1>3 DEF Runs, Labels
<1>5. RunOK(r)'
    BY <1>2, <1>3, <1>4 DEF RunOK
<1>6. /\ flat' \in Dirs /\ archives' \in Seq(Shelves) /\ Len(archives') >= Len(archives)
      /\ streams' \in [Names -> Dirs \cup {NoStream}]
      /\ pointer' \in [Keyed -> Some] /\ shared' \in Some /\ runs' \in Nat /\ runs' >= runs
    BY <1>2, <1>3, LenProperties DEF StreamTypes
<1>7. StreamTypes'
    BY <1>1, <1>4, <1>5, <1>6, RunSet, Zenon
<1> QED
    BY <1>2, <1>7 DEF Effect, Exists

\* The item that is moved, and the two directories after it.
LEMMA MoveItemIs ==
    ASSUME StreamTypes, NEW s \in Sessions, NEW ok \in BOOLEAN, MoveItem(s, ok)
    PROVE  /\ StreamTypes' /\ Effect(s)
           /\ ~ok => UNCHANGED <<flat, streams>> /\ run' = [run EXCEPT ![s] = [run[s] EXCEPT !.at = "restore"]]
           /\ ok => \E i \in Items : 
                 /\ i \in run[s].todo /\ Holds(flat, i)
                 /\ run' = [run EXCEPT ![s] = [run[s] EXCEPT !.at = "look", !.todo = run[s].todo \ {i},
                                                             !.moved = run[s].moved \cup {i}]]
                 /\ streams' = [streams EXCEPT ![run[s].into] = [streams[run[s].into] EXCEPT ![i] = flat[i]]]
                 /\ flat' = [flat EXCEPT ![i] = 0]
<1>1. run[s].at = "move" /\ UNCHANGED <<archives, pointer, shared, runs>>
    BY DEF MoveItem
<1>2. run[s] \in Runs /\ RunOK(run[s]) /\ runs \in Nat
    BY DEF StreamTypes
<1>3. PICK i \in Items : i = First(run[s].todo) /\ i \in run[s].todo
    BY <1>1, <1>2, FirstIsOne DEF RunOK, Runs
<1>4. PICK m \in Names : m = run[s].into
    BY <1>1, <1>2 DEF RunOK
<1>5. /\ archives' \in Seq(Shelves) /\ Len(archives') >= Len(archives) /\ Len(archives') = Len(archives)
      /\ pointer' \in [Keyed -> Some] /\ shared' \in Some /\ runs' \in Nat /\ runs' >= runs
    BY <1>1, <1>2, LenProperties DEF StreamTypes
<1>6. CASE ~ok
    <2>1. UNCHANGED <<flat, streams>> /\ Goes(s, "restore")
        BY <1>6 DEF MoveItem
    <2>2. flat' \in Dirs /\ streams' \in [Names -> Dirs \cup {NoStream}] /\ "restore" \in Labels
        BY <2>1 DEF StreamTypes, Labels
    <2>3. StreamTypes'
        BY <1>1, <1>5, <2>1, <2>2, GoesIs
    <2> QED
        BY <1>1, <1>6, <2>1, <2>3, Zenon DEF Effect, Exists, Goes
<1>7. CASE ok
    <2>1. PICK r : r = [run[s] EXCEPT !.at = "look", !.todo = run[s].todo \ {i}, !.moved = run[s].moved \cup {i}]
        OBVIOUS
    <2>2. /\ run' = [run EXCEPT ![s] = r] /\ flat' = [flat EXCEPT ![i] = 0]
          /\ streams' = [streams EXCEPT ![m] = [streams[m] EXCEPT ![i] = flat[i]]]
          /\ Holds(flat, i) /\ Exists(m)
        BY <1>3, <1>4, <1>7, <2>1 DEF MoveItem
    <2>3. r \in Runs /\ r.at = "look" /\ r.into = m /\ r.name = run[s].name
        BY <1>2, <1>4, <2>1 DEF Runs, Labels
    <2>4. RunOK(r)'
        BY <1>1, <1>2, <2>3 DEF RunOK
    <2>5. streams[m] \in Dirs /\ flat \in Dirs /\ flat' \in Dirs
        BY <2>2 DEF StreamTypes, Exists, Dirs
    <2>6. [streams[m] EXCEPT ![i] = flat[i]] \in Dirs
        BY <2>5 DEF Dirs
    <2>7. streams' \in [Names -> Dirs \cup {NoStream}] /\ streams'[m] \in Dirs
          /\ \A n \in Names \ {m} : streams'[n] = streams[n]
        BY <2>2, <2>6 DEF StreamTypes
    <2>8. StreamTypes'
        BY <1>5, <2>2, <2>3, <2>4, <2>5, <2>7, RunSet
    <2>9. Effect(s)
        BY <1>1, <2>2, <2>7, NoStreamIsNone DEF Effect, Exists
    <2> QED
        BY <1>3, <1>4, <1>7, <2>1, <2>2, <2>8, <2>9, Zenon
<1> QED
    BY <1>6, <1>7, Zenon

LEMMA RestoreIs ==
    ASSUME StreamTypes, NEW s \in Sessions, NEW ok \in BOOLEAN, Restore(s, ok)
    PROVE  /\ StreamTypes' /\ Effect(s)
           /\ \E i \in Items :
                 /\ i \in run[s].moved
                 /\ run' = [run EXCEPT ![s] = [run[s] EXCEPT !.moved = run[s].moved \ {i}]]
                 /\ \/ /\ ok /\ Exists(run[s].into)
                       /\ flat' = [flat EXCEPT ![i] = streams[run[s].into][i]]
                       /\ streams' = [streams EXCEPT ![run[s].into] = [streams[run[s].into] EXCEPT ![i] = 0]]
                    \/ /\ ~ok /\ UNCHANGED <<flat, streams>>
                       /\ lost' = (lost \/ (Exists(run[s].into) /\ Holds(streams[run[s].into], i)))
<1>1. run[s].at = "restore" /\ run[s].moved # {} /\ UNCHANGED <<archives, pointer, shared, runs>>
    BY DEF Restore
<1>2. run[s] \in Runs /\ RunOK(run[s]) /\ runs \in Nat
    BY DEF StreamTypes
<1>3. PICK i \in Items : i = First(run[s].moved) /\ i \in run[s].moved
    BY <1>1, <1>2, FirstIsOne DEF Runs
<1>4. PICK m \in Names : m = run[s].into
    BY <1>1, <1>2 DEF RunOK
<1>5. /\ archives' \in Seq(Shelves) /\ Len(archives') >= Len(archives)
      /\ pointer' \in [Keyed -> Some] /\ shared' \in Some /\ runs' \in Nat /\ runs' >= runs
    BY <1>1, <1>2, LenProperties DEF StreamTypes
<1>6. PICK r : r = [run[s] EXCEPT !.moved = run[s].moved \ {i}]
    OBVIOUS
<1>7. run' = [run EXCEPT ![s] = r]
    BY <1>3, <1>6 DEF Restore
<1>8. r \in Runs /\ r.at = "restore" /\ r.into = m /\ r.name = run[s].name
    BY <1>1, <1>2, <1>4, <1>6 DEF Runs
<1>9. RunOK(r)'
    BY <1>1, <1>2, <1>8 DEF RunOK
<1>10. CASE ~ok
    <2>1. /\ UNCHANGED <<flat, streams>>
          /\ lost' = (lost \/ (Exists(m) /\ Holds(streams[m], i)))
        BY <1>3, <1>4, <1>10 DEF Restore
    <2>2. flat' \in Dirs /\ streams' \in [Names -> Dirs \cup {NoStream}]
        BY <2>1 DEF StreamTypes
    <2>3. StreamTypes'
        BY <1>5, <1>7, <1>8, <1>9, <2>2, RunSet
    <2> QED
        BY <1>1, <1>3, <1>4, <1>6, <1>7, <1>10, <2>1, <2>3 DEF Effect, Exists
<1>11. CASE ok
    <2>1. /\ flat' = [flat EXCEPT ![i] = streams[m][i]]
          /\ streams' = [streams EXCEPT ![m] = [streams[m] EXCEPT ![i] = 0]] /\ Exists(m)
        BY <1>3, <1>4, <1>11 DEF Restore
    <2>2. streams[m] \in Dirs /\ flat \in Dirs
        BY <2>1 DEF StreamTypes, Exists
    <2>3. [streams[m] EXCEPT ![i] = 0] \in Dirs /\ flat' \in Dirs
        BY <2>1, <2>2 DEF Dirs
    <2>4. streams' \in [Names -> Dirs \cup {NoStream}] /\ streams'[m] \in Dirs
          /\ \A n \in Names \ {m} : streams'[n] = streams[n]
        BY <2>1, <2>3 DEF StreamTypes
    <2>5. StreamTypes'
        BY <1>5, <1>7, <1>8, <1>9, <2>3, <2>4, RunSet
    <2>6. Effect(s)
        BY <1>1, <2>1, <2>4, NoStreamIsNone DEF Effect, Exists
    <2> QED
        BY <1>3, <1>4, <1>6, <1>7, <1>11, <2>1, <2>5, <2>6
<1> QED
    BY <1>10, <1>11

LEMMA UndoIs ==
    ASSUME StreamTypes, NEW s \in Sessions, Undo(s)
    PROVE  StreamTypes' /\ Effect(s)
<1>1. /\ run[s].at = "restore" /\ streams' = [streams EXCEPT ![run[s].into] = NoStream]
      /\ Goes(s, "end") /\ UNCHANGED <<flat, archives, pointer, shared, runs>>
    BY DEF Undo
<1>2. PICK m \in Names : m = run[s].into
    BY <1>1 DEF StreamTypes, RunOK
<1>3. streams' \in [Names -> Dirs \cup {NoStream}] /\ streams'[m] = NoStream
      /\ \A n \in Names \ {m} : streams'[n] = streams[n]
    BY <1>1, <1>2 DEF StreamTypes
<1>4. flat' \in Dirs /\ archives' \in Seq(Shelves) /\ Len(archives') = Len(archives)
      /\ pointer' \in [Keyed -> Some] /\ shared' \in Some /\ "end" \in Labels
    BY <1>1 DEF StreamTypes, Labels
<1>5. StreamTypes'
    BY <1>1, <1>3, <1>4, GoesIs
<1>6. \A n \in Names : (Exists(n)' <=> Exists(n)) \/ ~Exists(n)'
    BY <1>3 DEF Exists
<1> QED
    BY <1>1, <1>5, <1>6 DEF Effect

\* A directory that is made, or there already, keeps every item it holds; the
\* new ones are of no earlier project.
LEMMA MakeIs ==
    ASSUME StreamTypes, NEW s \in Sessions, Make(s)
    PROVE  /\ StreamTypes' /\ Effect(s)
           /\ run' = [run EXCEPT ![s] = [run[s] EXCEPT !.at = "end"]]
           /\ \A n \in Names : /\ Exists(n) => Exists(n)'
                               /\ \A i \in Items : streams'[n][i] = 1 <=> streams[n][i] = 1
<1>1. PICK n \in Names : n = run[s].name
    BY DEF Make, StreamTypes, RunOK
<1>2. PICK old : old = IF Exists(n) THEN streams[n] ELSE Empty
    OBVIOUS
<1>3. PICK state, phases : /\ state = IF Holds(old, "STATE") THEN old["STATE"] ELSE runs + 1
                           /\ phases = IF Holds(old, "phases") THEN old["phases"] ELSE runs + 1
    OBVIOUS
<1>4. PICK new : new = [old EXCEPT !["STATE"] = state, !["phases"] = phases]
    OBVIOUS
<1>5. /\ run[s].at = "make" /\ streams' = [streams EXCEPT ![n] = new]
      /\ Point(s, n) /\ Goes(s, "end") /\ UNCHANGED <<flat, archives, runs>>
    BY <1>1, <1>2, <1>3, <1>4 DEF Make
<1>6. old \in Dirs /\ runs \in Nat /\ runs > 0 /\ {"STATE", "phases"} \subseteq Items
    BY <1>2, <1>5, NoStreamIsNone DEF StreamTypes, RunOK, Exists, Items
<1>7. state \in Nat /\ phases \in Nat
    BY <1>3, <1>6 DEF Dirs
<1>8. new \in Dirs
    BY <1>4, <1>6, <1>7 DEF Dirs
<1>9. ASSUME NEW i \in Items PROVE new[i] = 1 <=> old[i] = 1
    <2>1. state = 1 <=> old["STATE"] = 1
        BY <1>3, <1>6 DEF Holds, Dirs
    <2>2. phases = 1 <=> old["phases"] = 1
        BY <1>3, <1>6 DEF Holds, Dirs
    <2>3. new[i] = IF i = "STATE" THEN state ELSE IF i = "phases" THEN phases ELSE old[i]
        BY <1>4, <1>6 DEF Dirs
    <2> QED
        BY <2>1, <2>2, <2>3
<1>10. \A i \in Items : old[i] = 1 <=> streams[n][i] = 1
    BY <1>2 DEF Exists, Empty, NoStream
<1>11. /\ streams' \in [Names -> Dirs \cup {NoStream}] /\ streams'[n] = new
       /\ \A k \in Names \ {n} : streams'[k] = streams[k]
    BY <1>5, <1>8 DEF StreamTypes
<1>12. /\ pointer' \in [Keyed -> Some] /\ shared' \in Some
       /\ \A t \in Keyed \ {s} : pointer'[t] = pointer[t]
    BY <1>5, PointIs DEF Some
<1>13. flat' \in Dirs /\ archives' \in Seq(Shelves) /\ Len(archives') = Len(archives) /\ "end" \in Labels
    BY <1>5 DEF StreamTypes, Labels
<1>14. StreamTypes'
    BY <1>5, <1>11, <1>12, <1>13, GoesIs
<1>15. \A k \in Names : k # n => (Exists(k)' <=> Exists(k))
    BY <1>11 DEF Exists
<1>16. Exists(n)'
    BY <1>8, <1>11, NoStreamIsNone DEF Exists
<1>17. Effect(s)
    BY <1>5, <1>12, <1>15, <1>16 DEF Effect
<1>18. run' = [run EXCEPT ![s] = [run[s] EXCEPT !.at = "end"]]
    BY <1>5 DEF Goes
<1> QED
    BY <1>9, <1>10, <1>11, <1>14, <1>15, <1>16, <1>17, <1>18

LEMMA CompleteIs ==
    ASSUME StreamTypes, NEW s \in Sessions, CompleteBegins(s)
    PROVE  /\ StreamTypes' /\ Effect(s)
           /\ UNCHANGED <<flat, streams>>
           /\ \/ archives' = archives /\ run' = [run EXCEPT ![s] = [run[s] EXCEPT !.at = "end"]] /\ UNCHANGED crossed
              \/ \E kept \in BOOLEAN :
                    /\ archives' = Append(archives, [name |-> run[s].name, dir |-> Empty])
                    /\ run' = [run EXCEPT ![s] = [run[s] EXCEPT !.at = "shelve", !.kept = kept,
                                   !.archive = Len(archives) + 1,
                                   !.todo = {i \in Items : Holds(streams[run[s].name], i)}]]
                    /\ Exists(run[s].name) /\ Crossing(s)
<1>1. run[s].at = "complete" /\ UNCHANGED <<flat, streams, runs>>
    BY DEF CompleteBegins
<1>2. run[s] \in Runs /\ RunOK(run[s]) /\ runs \in Nat
    BY DEF StreamTypes
<1>3. PICK n \in Names : n = run[s].name
    BY <1>1, <1>2 DEF RunOK
<1>4. flat' \in Dirs /\ streams' \in [Names -> Dirs \cup {NoStream}] /\ "end" \in Labels
      /\ runs' \in Nat /\ runs' >= runs
    BY <1>1, <1>2 DEF StreamTypes, Labels
<1>5. CASE ~Exists(n)
    <2>1. Goes(s, "end") /\ UNCHANGED <<archives, pointer, shared, crossed>>
        BY <1>3, <1>5 DEF CompleteBegins
    <2>2. archives' \in Seq(Shelves) /\ Len(archives') = Len(archives) /\ pointer' \in [Keyed -> Some] /\ shared' \in Some
        BY <2>1 DEF StreamTypes
    <2>3. StreamTypes'
        BY <1>1, <1>4, <2>1, <2>2, GoesIs
    <2> QED
        BY <1>1, <2>1, <2>3 DEF Effect, Exists, Goes
<1>6. CASE Exists(n)
    <2>1. PICK kept \in BOOLEAN : kept = (Active(s) = n)
        OBVIOUS
    <2>2. PICK held : held = {i \in Items : Holds(streams[n], i)}
        OBVIOUS
    <2>3. PICK r : r = [run[s] EXCEPT !.at = "shelve", !.kept = kept, !.archive = Len(archives) + 1, !.todo = held]
        OBVIOUS
    <2>4. /\ archives' = Append(archives, [name |-> n, dir |-> Empty])
          /\ run' = [run EXCEPT ![s] = r] /\ Crossing(s)
          /\ IF Active(s) = n THEN Point(s, NoName) ELSE Unpointed
        <3>1. archives' = Append(archives, [name |-> n, dir |-> Empty]) /\ Crossing(s)
            BY <1>3, <1>6, Zenon DEF CompleteBegins
        <3>2. run' = [run EXCEPT ![s] = r]
            <4>1. run' = [run EXCEPT ![s].at = "shelve", ![s].kept = (Active(s) = n),
                              ![s].archive = Len(archives) + 1,
                              ![s].todo = {i \in Items : Holds(streams[n], i)}]
                BY <1>3, <1>6, Zenon DEF CompleteBegins
            <4>2. run' = [run EXCEPT ![s].at = "shelve", ![s].kept = kept,
                              ![s].archive = Len(archives) + 1, ![s].todo = held]
                BY <2>1, <2>2, <4>1, Zenon
            <4> QED
                BY <2>3, <4>2
        <3>3. IF Active(s) = n THEN Point(s, NoName) ELSE Unpointed
            BY <1>3, <1>6, Zenon DEF CompleteBegins
        <3> QED
            BY <3>1, <3>2, <3>3
    <2>5. [name |-> n, dir |-> Empty] \in Shelves /\ Len(archives) \in Nat
        BY NoStreamIsNone, LenProperties DEF Shelves, StreamTypes
    <2>6. archives' \in Seq(Shelves) /\ Len(archives') = Len(archives) + 1
        BY <2>4, <2>5, AppendProperties DEF StreamTypes
    <2>7. r \in Runs /\ r.at = "shelve" /\ r.name = n /\ r.archive = Len(archives')
        <3>1. Len(archives) + 1 \in Nat /\ held \in SUBSET Items
            BY <2>2, <2>5
        <3>2. r \in Runs
            BY <1>2, <2>3, <3>1 DEF Runs, Labels
        <3>3. r.at = "shelve" /\ r.name = run[s].name /\ r.archive = Len(archives) + 1
            BY <1>2, <2>3 DEF Runs
        <3> QED
            BY <1>3, <2>6, <3>2, <3>3
    <2>8. RunOK(r)'
        BY <1>1, <1>2, <2>5, <2>6, <2>7 DEF RunOK
    <2>9. /\ pointer' \in [Keyed -> Some] /\ shared' \in Some
          /\ \A t \in Keyed \ {s} : pointer'[t] = pointer[t]
        <3>1. NoName \in Some
            BY DEF Some
        <3>2. CASE Point(s, NoName)
            BY <3>1, <3>2, PointIs
        <3>3. CASE Unpointed
            BY <3>3 DEF Unpointed, StreamTypes
        <3> QED
            BY <2>4, <3>2, <3>3
    <2>10. Len(archives') >= Len(archives)
        BY <2>5, <2>6
    <2>11. StreamTypes'
        BY <1>4, <2>4, <2>6, <2>7, <2>8, <2>9, <2>10, RunSet
    <2> QED
        BY <1>1, <1>3, <1>6, <2>2, <2>3, <2>4, <2>9, <2>11, Zenon DEF Effect, Exists
<1> QED
    BY <1>5, <1>6, Zenon

\* An archive with one item replaced.
LEMMA ArchiveSet ==
    ASSUME StreamTypes, NEW a \in 1 .. Len(archives), NEW dir \in Dirs,
           archives' = [archives EXCEPT ![a] = [archives[a] EXCEPT !.dir = dir]]
    PROVE  /\ archives' \in Seq(Shelves) /\ Len(archives') = Len(archives)
           /\ archives'[a].dir = dir
           /\ \A k \in 1 .. Len(archives) : k # a => archives'[k] = archives[k]
<1>1. archives \in Seq(Shelves) /\ archives[a] \in Shelves
    BY ElementOfSeq DEF StreamTypes
<1>2. PICK new : new = [archives[a] EXCEPT !.dir = dir]
    OBVIOUS
<1>3. new \in Shelves /\ new.dir = dir
    BY <1>1, <1>2 DEF Shelves
<1>4. archives' = [archives EXCEPT ![a] = new]
    BY <1>2
<1>5. /\ [archives EXCEPT ![a] = new] \in Seq(Shelves) /\ Len([archives EXCEPT ![a] = new]) = Len(archives)
      /\ \A k \in 1 .. Len(archives) : [archives EXCEPT ![a] = new][k] = IF k = a THEN new ELSE archives[k]
    BY <1>1, <1>3, ExceptSeq
<1> QED
    BY <1>3, <1>4, <1>5

LEMMA ShelveIs ==
    ASSUME StreamTypes, NEW s \in Sessions, NEW ok \in BOOLEAN, Shelve(s, ok)
    PROVE  /\ StreamTypes' /\ Effect(s) /\ UNCHANGED flat
           /\ ~ok => UNCHANGED <<archives, streams>> /\ run' = [run EXCEPT ![s] = [run[s] EXCEPT !.at = "unshelve"]]
           /\ ok => \E i \in Items :
                 /\ i \in run[s].todo /\ Exists(run[s].name) /\ Holds(streams[run[s].name], i)
                 /\ run' = [run EXCEPT ![s] = [run[s] EXCEPT !.todo = run[s].todo \ {i},
                                                             !.moved = run[s].moved \cup {i}]]
                 /\ archives'[run[s].archive].dir =
                        [archives[run[s].archive].dir EXCEPT ![i] = streams[run[s].name][i]]
                 /\ \A k \in 1 .. Len(archives) : k # run[s].archive => archives'[k] = archives[k]
                 /\ Len(archives') = Len(archives)
                 /\ streams' = [streams EXCEPT ![run[s].name] = [streams[run[s].name] EXCEPT ![i] = 0]]
<1>1. run[s].at = "shelve" /\ run[s].todo # {} /\ UNCHANGED <<flat, pointer, shared, runs>>
    BY DEF Shelve
<1>2. run[s] \in Runs /\ RunOK(run[s]) /\ runs \in Nat
    BY DEF StreamTypes
<1>3. PICK i \in Items : i = First(run[s].todo) /\ i \in run[s].todo
    BY <1>1, <1>2, FirstIsOne DEF Runs
<1>4. PICK n \in Names : n = run[s].name
    BY <1>1, <1>2 DEF RunOK
<1>5. PICK a \in 1 .. Len(archives) : a = run[s].archive
    BY <1>1, <1>2 DEF RunOK
<1>6. flat' \in Dirs /\ pointer' \in [Keyed -> Some] /\ shared' \in Some /\ runs' \in Nat /\ runs' >= runs
      /\ Len(archives) \in Nat
    BY <1>1, <1>2, LenProperties DEF StreamTypes
<1>7. CASE ~ok
    <2>1. UNCHANGED <<archives, streams>> /\ Goes(s, "unshelve") /\ "unshelve" \in Labels
        BY <1>7 DEF Shelve, Labels
    <2>2. archives' \in Seq(Shelves) /\ Len(archives') = Len(archives) /\ streams' \in [Names -> Dirs \cup {NoStream}]
        BY <2>1 DEF StreamTypes
    <2>3. StreamTypes'
        BY <1>1, <1>6, <2>1, <2>2, GoesIs
    <2> QED
        BY <1>1, <1>7, <2>1, <2>3, Zenon DEF Effect, Exists, Goes
<1>8. CASE ok
    <2>1. PICK r : r = [run[s] EXCEPT !.todo = run[s].todo \ {i}, !.moved = run[s].moved \cup {i}]
        OBVIOUS
    <2>2. /\ run' = [run EXCEPT ![s] = r] /\ Exists(n) /\ Holds(streams[n], i)
          /\ archives' = [archives EXCEPT ![a] = [archives[a] EXCEPT !.dir = [archives[a].dir EXCEPT ![i] = streams[n][i]]]]
          /\ streams' = [streams EXCEPT ![n] = [streams[n] EXCEPT ![i] = 0]]
        BY <1>3, <1>4, <1>5, <1>8, <2>1 DEF Shelve
    <2>3. r \in Runs /\ r.at = "shelve" /\ r.name = n /\ r.archive = a
        BY <1>1, <1>2, <1>4, <1>5, <2>1 DEF Runs
    <2>4. streams[n] \in Dirs /\ archives[a].dir \in Dirs
        <3>1. archives \in Seq(Shelves)
            BY DEF StreamTypes
        <3>2. archives[a] \in Shelves
            BY <3>1, ElementOfSeq
        <3> QED
            BY <2>2, <3>2 DEF StreamTypes, Exists, Shelves
    <2>5. PICK dir \in Dirs : dir = [archives[a].dir EXCEPT ![i] = streams[n][i]]
        BY <2>4 DEF Dirs
    <2>6. archives' = [archives EXCEPT ![a] = [archives[a] EXCEPT !.dir = dir]]
        BY <2>2, <2>5
    <2>7. /\ archives' \in Seq(Shelves) /\ Len(archives') = Len(archives) /\ archives'[a].dir = dir
          /\ \A k \in 1 .. Len(archives) : k # a => archives'[k] = archives[k]
        BY <2>6, ArchiveSet
    <2>8. [streams[n] EXCEPT ![i] = 0] \in Dirs
        BY <2>4 DEF Dirs
    <2>9. streams' \in [Names -> Dirs \cup {NoStream}] /\ streams'[n] \in Dirs
          /\ \A k \in Names \ {n} : streams'[k] = streams[k]
        BY <2>2, <2>8 DEF StreamTypes
    <2>10. RunOK(r)'
        BY <1>1, <1>2, <2>3, <2>7 DEF RunOK
    <2>11. StreamTypes'
        <3>1. Len(archives') >= Len(archives)
            BY <1>6, <2>7
        <3> QED
            BY <1>6, <2>2, <2>3, <2>7, <2>9, <2>10, <3>1, RunSet
    <2>12. Effect(s)
        BY <1>1, <2>2, <2>9, NoStreamIsNone DEF Effect, Exists
    <2> QED
        BY <1>1, <1>3, <1>4, <1>5, <1>8, <2>1, <2>2, <2>5, <2>7, <2>11, <2>12, Zenon
<1> QED
    BY <1>7, <1>8, Zenon

LEMMA UnshelveIs ==
    ASSUME StreamTypes, NEW s \in Sessions, NEW ok \in BOOLEAN, Unshelve(s, ok)
    PROVE  /\ StreamTypes' /\ Effect(s) /\ UNCHANGED flat
           /\ \E i \in Items :
                 /\ i \in run[s].moved
                 /\ run' = [run EXCEPT ![s] = [run[s] EXCEPT !.moved = run[s].moved \ {i}]]
                 /\ \/ ~ok /\ lost' /\ UNCHANGED <<archives, streams>>
                    \/ /\ ok /\ Exists(run[s].name)
                       /\ streams' = [streams EXCEPT ![run[s].name] =
                                         [streams[run[s].name] EXCEPT ![i] = archives[run[s].archive].dir[i]]]
                       /\ archives'[run[s].archive].dir = [archives[run[s].archive].dir EXCEPT ![i] = 0]
                       /\ \A k \in 1 .. Len(archives) : k # run[s].archive => archives'[k] = archives[k]
                       /\ Len(archives') = Len(archives)
<1>1. run[s].at = "unshelve" /\ run[s].moved # {} /\ UNCHANGED <<flat, pointer, shared, runs>>
    BY DEF Unshelve
<1>2. run[s] \in Runs /\ RunOK(run[s]) /\ runs \in Nat
    BY DEF StreamTypes
<1>3. PICK i \in Items : i = First(run[s].moved) /\ i \in run[s].moved
    BY <1>1, <1>2, FirstIsOne DEF Runs
<1>4. PICK n \in Names : n = run[s].name
    BY <1>1, <1>2 DEF RunOK
<1>5. PICK a \in 1 .. Len(archives) : a = run[s].archive
    BY <1>1, <1>2 DEF RunOK
<1>6. flat' \in Dirs /\ pointer' \in [Keyed -> Some] /\ shared' \in Some /\ runs' \in Nat /\ runs' >= runs
      /\ Len(archives) \in Nat
    BY <1>1, <1>2, LenProperties DEF StreamTypes
<1>7. PICK r : r = [run[s] EXCEPT !.moved = run[s].moved \ {i}]
    OBVIOUS
<1>8. run' = [run EXCEPT ![s] = r]
    BY <1>3, <1>7 DEF Unshelve
<1>9. r \in Runs /\ r.at = "unshelve" /\ r.name = n /\ r.archive = a
    BY <1>1, <1>2, <1>4, <1>5, <1>7 DEF Runs
<1>10. CASE ~ok
    <2>1. UNCHANGED <<archives, streams>> /\ lost'
        BY <1>10, Zenon DEF Unshelve
    <2>2. archives' \in Seq(Shelves) /\ Len(archives') >= Len(archives) /\ streams' \in [Names -> Dirs \cup {NoStream}]
        BY <1>6, <2>1 DEF StreamTypes
    <2>3. RunOK(r)'
        BY <1>1, <1>2, <1>9, <2>1 DEF RunOK
    <2>4. StreamTypes'
        BY <1>6, <1>8, <1>9, <2>2, <2>3, RunSet, Zenon
    <2> QED
        BY <1>1, <1>3, <1>7, <1>8, <1>10, <2>1, <2>4 DEF Effect, Exists
<1>11. CASE ok
    <2>2. /\ Exists(n)
          /\ archives' = [archives EXCEPT ![a] = [archives[a] EXCEPT !.dir = [archives[a].dir EXCEPT ![i] = 0]]]
          /\ streams' = [streams EXCEPT ![n] = [streams[n] EXCEPT ![i] = archives[a].dir[i]]]
        BY <1>3, <1>4, <1>5, <1>11 DEF Unshelve
    <2>4. streams[n] \in Dirs /\ archives[a].dir \in Dirs
        <3>1. archives \in Seq(Shelves)
            BY DEF StreamTypes
        <3>2. archives[a] \in Shelves
            BY <3>1, ElementOfSeq
        <3> QED
            BY <2>2, <3>2 DEF StreamTypes, Exists, Shelves
    <2>5. PICK dir \in Dirs : dir = [archives[a].dir EXCEPT ![i] = 0]
        BY <2>4 DEF Dirs
    <2>6. archives' = [archives EXCEPT ![a] = [archives[a] EXCEPT !.dir = dir]]
        BY <2>2, <2>5
    <2>7. /\ archives' \in Seq(Shelves) /\ Len(archives') = Len(archives) /\ archives'[a].dir = dir
          /\ \A k \in 1 .. Len(archives) : k # a => archives'[k] = archives[k]
        BY <2>6, ArchiveSet
    <2>8. [streams[n] EXCEPT ![i] = archives[a].dir[i]] \in Dirs
        BY <2>4 DEF Dirs
    <2>9. streams' \in [Names -> Dirs \cup {NoStream}] /\ streams'[n] \in Dirs
          /\ \A k \in Names \ {n} : streams'[k] = streams[k]
        BY <2>2, <2>8 DEF StreamTypes
    <2>10. RunOK(r)'
        BY <1>1, <1>2, <1>9, <2>7 DEF RunOK
    <2>11. StreamTypes'
        <3>1. Len(archives') >= Len(archives)
            BY <1>6, <2>7
        <3> QED
            BY <1>6, <1>8, <1>9, <2>7, <2>9, <2>10, <3>1, RunSet
    <2>12. Effect(s)
        BY <1>1, <2>2, <2>9, NoStreamIsNone DEF Effect, Exists
    <2> QED
        BY <1>1, <1>3, <1>4, <1>5, <1>7, <1>8, <1>11, <2>2, <2>5, <2>7, <2>11, <2>12, Zenon
<1> QED
    BY <1>10, <1>11

LEMMA UnarchiveIs ==
    ASSUME StreamTypes, NEW s \in Sessions, Unarchive(s)
    PROVE  /\ StreamTypes' /\ Effect(s) /\ UNCHANGED <<flat, streams>>
           /\ run' = [run EXCEPT ![s] = [run[s] EXCEPT !.at = "end"]]
           /\ archives'[run[s].archive].dir = Empty
           /\ \A k \in 1 .. Len(archives) : k # run[s].archive => archives'[k] = archives[k]
           /\ Len(archives') = Len(archives)
<1>1. run[s].at = "unshelve" /\ Goes(s, "end") /\ UNCHANGED <<flat, streams, runs>>
    BY DEF Unarchive
<1>2. PICK a \in 1 .. Len(archives) : a = run[s].archive
    BY <1>1 DEF StreamTypes, RunOK
<1>3. PICK dir \in Dirs : dir = Empty
    BY NoStreamIsNone
<1>4. archives' = [archives EXCEPT ![a] = [archives[a] EXCEPT !.dir = dir]]
    BY <1>2, <1>3 DEF Unarchive
<1>5. /\ archives' \in Seq(Shelves) /\ Len(archives') = Len(archives) /\ archives'[a].dir = dir
      /\ \A k \in 1 .. Len(archives) : k # a => archives'[k] = archives[k]
    BY <1>4, ArchiveSet
<1>6. /\ pointer' \in [Keyed -> Some] /\ shared' \in Some
      /\ \A t \in Keyed \ {s} : pointer'[t] = pointer[t]
    <2>1. CASE Point(s, run[s].name)
        <3>1. run[s].name \in Some
            BY DEF StreamTypes, Runs
        <3> QED
            BY <2>1, <3>1, PointIs
    <2>2. CASE Unpointed
        BY <2>2 DEF Unpointed, StreamTypes
    <2> QED
        BY <2>1, <2>2 DEF Unarchive
<1>7. flat' \in Dirs /\ streams' \in [Names -> Dirs \cup {NoStream}] /\ "end" \in Labels
    BY <1>1 DEF StreamTypes, Labels
<1>8. StreamTypes'
    BY <1>1, <1>5, <1>6, <1>7, GoesIs
<1> QED
    BY <1>1, <1>2, <1>3, <1>5, <1>6, <1>8 DEF Effect, Exists, Goes

\* Only an empty directory is removed.
LEMMA RetireIs ==
    ASSUME StreamTypes, NEW s \in Sessions, Retire(s)
    PROVE  /\ StreamTypes' /\ Effect(s) /\ UNCHANGED <<flat, archives>>
           /\ run' = [run EXCEPT ![s] = [run[s] EXCEPT !.at = "end"]]
           /\ \A n \in Names : \A i \in Items : streams'[n][i] = 1 <=> streams[n][i] = 1
<1>1. run[s].at = "shelve" /\ Goes(s, "end") /\ UNCHANGED <<flat, archives, pointer, shared, runs>>
    BY DEF Retire
<1>2. PICK n \in Names : n = run[s].name
    BY <1>1 DEF StreamTypes, RunOK
<1>3. \/ UNCHANGED streams
      \/ /\ streams' = [streams EXCEPT ![n] = NoStream]
         /\ streams[n] = NoStream \/ streams[n] = Empty
    BY <1>2 DEF Retire, Exists
<1>4. /\ \A k \in Names \ {n} : streams'[k] = streams[k]
      /\ streams'[n] = streams[n] \/ (streams'[n] = NoStream /\ (streams[n] = NoStream \/ streams[n] = Empty))
      /\ streams' \in [Names -> Dirs \cup {NoStream}]
    BY <1>3 DEF StreamTypes
<1>5. \A i \in Items : NoStream[i] # 1 /\ Empty[i] # 1
    BY DEF NoStream, Empty
<1>6. flat' \in Dirs /\ archives' \in Seq(Shelves) /\ Len(archives') = Len(archives)
      /\ pointer' \in [Keyed -> Some] /\ shared' \in Some /\ "end" \in Labels
    BY <1>1 DEF StreamTypes, Labels
<1>7. StreamTypes'
    BY <1>1, <1>4, <1>6, GoesIs
<1>8. \A k \in Names : (Exists(k)' <=> Exists(k)) \/ ~Exists(k)'
    BY <1>4 DEF Exists
<1>9. Effect(s)
    BY <1>1, <1>8 DEF Effect
<1>10. \A k \in Names : \A i \in Items : streams'[k][i] = 1 <=> streams[k][i] = 1
    BY <1>4, <1>5
<1> QED
    BY <1>1, <1>7, <1>9, <1>10 DEF Goes

LEMMA KillIs == ASSUME StreamTypes, NEW s \in Sessions, KillRun(s) PROVE StreamTypes' /\ Effect(s)
<1>1. run' = [run EXCEPT ![s] = NoRun] /\ UNCHANGED <<flat, streams, archives, pointer, shared, runs>>
    BY DEF KillRun
<1>2. NoRun \in Runs /\ NoRun.at = "end"
    BY DEF NoRun, Runs, Labels, Some
<1>3. RunOK(NoRun)'
    BY <1>2 DEF RunOK, NoRun
<1>4. /\ flat' \in Dirs /\ archives' \in Seq(Shelves) /\ Len(archives') >= Len(archives)
      /\ streams' \in [Names -> Dirs \cup {NoStream}]
      /\ pointer' \in [Keyed -> Some] /\ shared' \in Some /\ runs' \in Nat /\ runs' >= runs
    BY <1>1, LenProperties DEF StreamTypes
<1>5. StreamTypes'
    BY <1>1, <1>2, <1>3, <1>4, RunSet
<1> QED
    BY <1>1, <1>5 DEF Effect, Exists

LEMMA StreamInitTypes == StreamsInit => StreamTypes
<1> SUFFICES ASSUME StreamsInit PROVE StreamTypes
    OBVIOUS
<1>1. NoRun \in Runs /\ RunOK(NoRun)
    BY DEF NoRun, Runs, Labels, Some, RunOK
<1>2. /\ flat \in Dirs /\ streams \in [Names -> Dirs \cup {NoStream}]
      /\ pointer \in [Keyed -> Some] /\ shared \in Some
      /\ run \in [Sessions -> Runs] /\ runs \in Nat
    BY <1>1 DEF StreamsInit, Dirs, Some
<1>3. archives \in Seq(Shelves)
    BY EmptySeq DEF StreamsInit
<1>4. \A s \in Sessions : run[s] = NoRun
    BY Zenon DEF StreamsInit
<1> QED
    BY <1>1, <1>2, <1>3, <1>4 DEF StreamTypes

LEMMA StreamStepTypes ==
    ASSUME StreamTypes, NEW s \in Sessions, StreamStep(s)
    PROVE  StreamTypes' /\ Effect(s)
<1>1. ASSUME NEW n \in Names, Create(s, n) PROVE StreamTypes' /\ Effect(s)
    <2>1. PICK l : l = "create"
        OBVIOUS
    <2> QED
        BY <1>1, <2>1, LaunchedIs, Zenon DEF Create, Some
<1>2. ASSUME NEW n \in Names, Complete(s, n) PROVE StreamTypes' /\ Effect(s)
    <2>1. PICK l : l = "complete"
        OBVIOUS
    <2> QED
        BY <1>2, <2>1, LaunchedIs, Zenon DEF Complete, Some
<1>3. ASSUME OtherCommand(s) PROVE StreamTypes' /\ Effect(s)
    <2>1. PICK l, n : l = "end" /\ n = NoName
        OBVIOUS
    <2>2. NoRun = [NoRun EXCEPT !.at = l, !.name = n]
        <3>1. NoRun.at = "end" /\ NoRun.name = NoName
            BY DEF NoRun
        <3>2. [NoRun EXCEPT !.at = NoRun.at, !.name = NoRun.name] = NoRun
            BY Zenon DEF NoRun
        <3> QED
            BY <2>1, <3>1, <3>2
    <2> QED
        BY <1>3, <2>1, <2>2, LaunchedIs, Zenon DEF OtherCommand, Some
<1>4. ASSUME NEW ok \in BOOLEAN, MoveItem(s, ok) \/ Restore(s, ok) \/ Shelve(s, ok) \/ Unshelve(s, ok)
      PROVE  StreamTypes' /\ Effect(s)
    BY <1>4, MoveItemIs, RestoreIs, ShelveIs, UnshelveIs, Zenon
<1> QED
    BY Zenon, <1>1, <1>2, <1>3, <1>4, PointsKeep, CreateSteps, MakeMainIs, LookIs, UndoIs, MakeIs, CompleteIs,
       UnarchiveIs, RetireIs, KillIs DEF StreamStep

LEMMA StreamTypesHold == StreamsSpec => []StreamTypes
<1>1. StreamTypes /\ [StreamsNext]_streamVars => StreamTypes'
    <2> SUFFICES ASSUME StreamTypes, [StreamsNext]_streamVars PROVE StreamTypes'
        OBVIOUS
    <2>1. CASE UNCHANGED streamVars
        BY <2>1 DEF StreamTypes, RunOK, streamVars
    <2> QED
        BY <2>1, StreamStepTypes DEF StreamsNext
<1> QED
    BY <1>1, StreamInitTypes, PTL DEF StreamsSpec

\* Workstreams.SessionsApart: what one session does never moves another session
\* with a key to a different workstream, for any number of sessions and names.
THEOREM SessionsKeepApart == StreamsSpec => SessionsApart
<1>1. ASSUME StreamTypes, NEW t \in Keyed, Active(t)' # Active(t), NEW s \in Sessions \ {t}, StreamStep(s)
      PROVE  \/ Active(t) # NoName /\ Active(t)' = NoName /\ run[s].at \in {"shelve", "restore"}
             \/ Active(t) = NoName /\ Active(t)' = pointer[t] /\ run[s].at \in {"make", "main"}
    <2>1. pointer'[t] = pointer[t]
        BY <1>1, StreamStepTypes DEF Effect
    <2>2. CASE pointer[t] = NoName
        BY <1>1, <2>1, <2>2 DEF Active, PointerOf
    <2>3. CASE pointer[t] # NoName
        <3>1. PICK n \in Names : n = pointer[t]
            BY <1>1, <2>3 DEF StreamTypes, Some
        <3>2. /\ Active(t) = IF Exists(n) THEN n ELSE NoName
              /\ Active(t)' = IF Exists(n)' THEN n ELSE NoName
            BY <1>1, <2>1, <2>3, <3>1 DEF Active, PointerOf, Exists
        <3>3. n # NoName
            BY <2>3, <3>1
        <3>4. \/ Exists(n)' <=> Exists(n)
              \/ Exists(n)' /\ run[s].at \in {"make", "main"}
              \/ ~Exists(n)' /\ run[s].at \in {"shelve", "restore"}
            BY <1>1, StreamStepTypes DEF Effect
        <3> QED
            BY <1>1, <3>1, <3>2, <3>3, <3>4
    <2> QED
        BY <2>2, <2>3
<1>2. StreamTypes /\ [StreamsNext]_streamVars =>
          [\A t \in Keyed : Active(t)' # Active(t) =>
              \A s \in Sessions \ {t} : StreamStep(s) =>
                  \/ Active(t) # NoName /\ Active(t)' = NoName /\ run[s].at \in {"shelve", "restore"}
                  \/ Active(t) = NoName /\ Active(t)' = pointer[t] /\ run[s].at \in {"make", "main"}
          ]_streamVars
    BY <1>1
<1> QED
    BY <1>2, StreamTypesHold, PTL DEF StreamsSpec, SessionsApart

-----------------------------------------------------------------------------
(* The files of the project of the start. *)

Migrates(r) == r.at \in {"look", "move", "restore"}
Archives(r) == r.at \in {"shelve", "unshelve"}

\* A command that moves files knows which it has moved.
TrackedBy(r) ==
    /\ \A i \in Items : flat[i] \in {0, 1}
    /\ Migrates(r) => \A i \in Items :
          /\ Exists(r.into) /\ (i \in r.moved <=> streams[r.into][i] = 1)
          /\ i \in r.moved => flat[i] = 0
          /\ r.at # "restore" /\ i \notin r.todo /\ i \notin r.moved => flat[i] = 0
    /\ Archives(r) => \A i \in Items :
          /\ archives[r.archive].dir[i] = 1 => i \in r.moved
          /\ i \in r.moved => streams[r.name][i] # 1
          /\ r.at = "shelve" /\ i \in r.todo => i \notin r.moved

Somewhere(i) == \/ flat[i] = 1 \/ \E n \in Names : streams[n][i] = 1
                \/ \E k \in 1 .. Len(archives) : archives[k].dir[i] = 1

\* All of the first project, or nothing of it.
Whole(d) == \A i, j \in Items : d[i] = 1 => d[j] = 1

\* What is not moved is whole, and what is moved is split between two places.
SplitBy(r) ==
    /\ Migrates(r) \/ Whole(flat)
    /\ \A n \in Names :
          (Migrates(r) /\ r.into = n) \/ (Archives(r) /\ r.name = n) \/ Whole(streams[n])
    /\ \A k \in 1 .. Len(archives) : (Archives(r) /\ r.archive = k) \/ Whole(archives[k].dir)
    /\ Migrates(r) =>
          \/ \A i \in Items : i \in r.moved \/ flat[i] = 1
          \/ \A i \in Items : i \notin r.moved /\ flat[i] = 0
    /\ Archives(r) =>
          \/ \A i \in Items : /\ i \in r.moved => archives[r.archive].dir[i] = 1
                              /\ i \notin r.moved => streams[r.name][i] = 1
                              /\ r.at = "shelve" /\ i \notin r.moved => i \in r.todo
          \/ \A i \in Items : archives[r.archive].dir[i] # 1 /\ streams[r.name][i] # 1

\* At most one command moves files; what the others know does not matter.
KeptBy(r) ==
    /\ TrackedBy(r) /\ \A i \in Items : Somewhere(i)
    /\ ~killed => SplitBy(r)
KeptInv ==
    ~lost /\ ~crossed =>
        /\ \A s, t \in Sessions : Moving(s) /\ Moving(t) => s = t
        /\ \A s \in Sessions : Alone(s) => KeptBy(run[s])
        /\ (\A s \in Sessions : ~Moving(s)) => KeptBy(NoRun)

LEMMA MovesIs == ASSUME NEW s \in Sessions PROVE Moving(s) <=> Migrates(run[s]) \/ Archives(run[s])
BY DEF Moving, Migrates, Archives

\* Whoever moves no file knows nothing.
LEMMA IdleKeeps ==
    ASSUME NEW q, NEW r, ~Migrates(q), ~Archives(q), ~Migrates(r), ~Archives(r)
    PROVE  /\ KeptBy(q) => KeptBy(r)
           /\ KeptBy(q)' => KeptBy(r)'
<1>1. KeptBy(q) => KeptBy(r)
    BY DEF KeptBy, TrackedBy, SplitBy, Migrates, Archives
<1>2. KeptBy(q)' => KeptBy(r)'
    BY DEF KeptBy, TrackedBy, SplitBy, Migrates, Archives
<1> QED
    BY <1>1, <1>2

\* The one that moves files goes on, or stops.
LEMMA MoverKeeps ==
    ASSUME NEW s \in Sessions, Alone(s), NEW r, run' = [run EXCEPT ![s] = r],
           s \in DOMAIN run, KeptBy(r)'
    PROVE  KeptInv'
<1>1. \A t \in Sessions \ {s} : ~Moving(t)' /\ ~Migrates(run'[t]) /\ ~Archives(run'[t])
    BY DEF Alone, Moving, Migrates, Archives
<1>2. run'[s] = r
    OBVIOUS
<1>3. KeptBy(r)'
    OBVIOUS
<1>4. CASE Migrates(r) \/ Archives(r)
    <2>1. Moving(s)'
        BY <1>2, <1>4 DEF Moving, Migrates, Archives
    <2>2. \A t \in Sessions \ {s} : ~Alone(t)'
        BY <2>1 DEF Alone
    <2> QED
        BY <1>1, <1>2, <1>3, <2>1, <2>2 DEF KeptInv
<1>5. CASE ~(Migrates(r) \/ Archives(r))
    <2>1. ~Migrates(NoRun) /\ ~Archives(NoRun)
        BY DEF NoRun, Migrates, Archives
    <2>2. KeptBy(NoRun)'
        BY <1>3, <1>5, <2>1, IdleKeeps
    <2>3. ASSUME NEW t \in Sessions \ {s} PROVE KeptBy(run[t])'
        <3>1. PICK q : q = run'[t]
            OBVIOUS
        <3>2. ~Migrates(q) /\ ~Archives(q)
            BY <1>1, <3>1
        <3>3. KeptBy(q)'
            BY <1>3, <1>5, <3>2, IdleKeeps
        <3> QED
            BY <3>1, <3>3
    <2>4. ~Moving(s)'
        BY <1>2, <1>5 DEF Moving, Migrates, Archives
    <2> QED
        BY <1>1, <1>2, <1>3, <2>2, <2>3, <2>4 DEF KeptInv
<1> QED
    BY <1>4, <1>5

\* A step that moves nothing, of a command that does not move files.
LEMMA StillKeeps ==
    ASSUME KeptInv, NEW s \in Sessions, ~Moving(s), ~Moving(s)', \A t \in Sessions \ {s} : run'[t] = run[t],
           UNCHANGED <<flat, archives, lost, crossed>>, killed' <=> killed,
           \A n \in Names : /\ Exists(n) => Exists(n)'
                            /\ \A i \in Items : streams'[n][i] = 1 <=> streams[n][i] = 1,
           \A t \in Sessions : /\ Migrates(run[t]) => run[t].into \in Names
                               /\ Archives(run[t]) => run[t].name \in Names
    PROVE  KeptInv'
<1>1. ASSUME NEW r, KeptBy(r), Migrates(r) => r.into \in Names, Archives(r) => r.name \in Names PROVE KeptBy(r)'
    <2>1. TrackedBy(r)'
        BY <1>1 DEF KeptBy, TrackedBy, Migrates, Archives
    <2>2. \A i \in Items : Somewhere(i)'
        BY <1>1 DEF KeptBy, Somewhere
    <2>3. ASSUME ~killed PROVE SplitBy(r)'
        <3>1. SplitBy(r)
            BY <1>1, <2>3 DEF KeptBy
        <3>2. \A n \in Names : Whole(streams[n]) => Whole(streams[n])'
            BY DEF Whole
        <3>3. UNCHANGED Whole(flat) /\ \A k \in 1 .. Len(archives) : UNCHANGED Whole(archives[k].dir)
            BY DEF Whole
        <3> QED
            BY <1>1, <3>1, <3>2, <3>3 DEF SplitBy, Migrates, Archives
    <2> QED
        BY <2>1, <2>2, <2>3 DEF KeptBy
<1>2. \A t \in Sessions : (Moving(t)' <=> Moving(t)) /\ (Alone(t)' <=> Alone(t))
    BY DEF Alone, Moving
<1>3. SUFFICES ASSUME ~lost', ~crossed' PROVE KeptInv'
    BY DEF KeptInv
<1>4. KeptInv /\ ~lost /\ ~crossed
    BY <1>3
<1>5. ~Migrates(NoRun) /\ ~Archives(NoRun) /\ ~Migrates(run[s]) /\ ~Archives(run[s])
      /\ ~Migrates(run'[s]) /\ ~Archives(run'[s])
    BY DEF NoRun, Migrates, Archives, Moving
<1>6. ASSUME NEW t \in Sessions \ {s}, Alone(t) PROVE KeptBy(run[t])'
    <2>1. PICK r : r = run[t] /\ r = run'[t]
        OBVIOUS
    <2>2. KeptBy(r)'
        BY <1>1, <1>4, <1>6, <2>1 DEF KeptInv
    <2> QED
        BY <2>1, <2>2
<1>7. ASSUME Alone(s) PROVE KeptBy(run[s])'
    <2>1. PICK q, r : q = run[s] /\ r = run'[s]
        OBVIOUS
    <2>2. KeptBy(q)
        BY <1>4, <1>7, <2>1 DEF KeptInv
    <2>3. KeptBy(r)
        BY <1>5, <2>1, <2>2, IdleKeeps
    <2>4. KeptBy(r)'
        BY <1>1, <1>5, <2>1, <2>3
    <2> QED
        BY <2>1, <2>4
<1>8. ASSUME \A t \in Sessions : ~Moving(t) PROVE KeptBy(NoRun)'
    BY <1>1, <1>4, <1>5, <1>8 DEF KeptInv
<1> QED
    BY <1>2, <1>4, <1>6, <1>7, <1>8 DEF KeptInv

\* The states the lemmas below start from: s moves files, or begins to, alone.
LEMMA MoverGoesOn ==
    ASSUME StreamTypes, KeptInv, NEW s \in Sessions, Alone(s), ~lost, ~crossed
    PROVE  /\ KeptBy(run[s])
           /\ \A r : run' = [run EXCEPT ![s] = r] /\ KeptBy(r)' => KeptInv'
<1>1. KeptBy(run[s])
    BY DEF KeptInv
<1>2. s \in DOMAIN run
    BY DEF StreamTypes
<1>3. ASSUME NEW r, run' = [run EXCEPT ![s] = r], KeptBy(r)' PROVE KeptInv'
    BY <1>2, <1>3, MoverKeeps
<1> QED
    BY <1>1, <1>3

LEMMA MakeMainKeeps ==
    ASSUME StreamTypes, NEW s \in Sessions, KeptBy(run[s]), MakeMain(s), ~Exists(Main)
    PROVE  \E r : run' = [run EXCEPT ![s] = r] /\ KeptBy(r)'
<1>1. PICK r : r = [run[s] EXCEPT !.at = "look", !.into = Main, !.todo = Items]
    OBVIOUS
<1>2. /\ run' = [run EXCEPT ![s] = r] /\ streams'[Main] = Empty
      /\ \A n \in Names \ {Main} : streams'[n] = streams[n]
    BY <1>1, MakeMainIs, Zenon
<1>3. run[s].at = "main" /\ UNCHANGED <<flat, archives, killed>>
    BY DEF MakeMain
<1>4. run[s] \in Runs /\ run[s].moved = {} /\ Main \in Names
    BY <1>3, NameAssumption DEF StreamTypes, RunOK
<1>5. r.at = "look" /\ r.into = Main /\ r.todo = Items /\ r.moved = {}
    BY <1>1, <1>4 DEF Runs
<1>6. Migrates(r) /\ ~Archives(r) /\ ~Migrates(run[s]) /\ ~Archives(run[s])
    BY <1>3, <1>5 DEF Migrates, Archives
<1>7. Exists(Main)' /\ \A i \in Items : Empty[i] = 0 /\ streams[Main][i] = -1
    BY <1>2, <1>4, NoStreamIsNone DEF Exists, Empty, NoStream
<1>8. \A i \in Items : flat[i] \in {0, 1}
    BY DEF KeptBy, TrackedBy
<1>9. TrackedBy(r)'
    BY <1>2, <1>3, <1>5, <1>6, <1>7, <1>8 DEF TrackedBy
<1>10. \A i \in Items : Somewhere(i)'
    BY <1>2, <1>3, <1>7 DEF KeptBy, Somewhere
<1>11. ASSUME ~killed PROVE SplitBy(r)'
    <2>1. SplitBy(run[s])
        BY <1>11 DEF KeptBy
    <2>2. Whole(flat) /\ (\A n \in Names \ {Main} : Whole(streams[n])')
          /\ \A k \in 1 .. Len(archives) : Whole(archives[k].dir)
        BY <1>2, <1>6, <2>1 DEF SplitBy, Whole
    <2>3. (\A i \in Items : flat[i] = 1) \/ (\A i \in Items : flat[i] = 0)
        BY <1>8, <2>2 DEF Whole
    <2>4. \A k \in 1 .. Len(archives) : Whole(archives[k].dir)'
        BY <1>3, <2>2 DEF Whole
    <2> QED
        BY <1>3, <1>5, <1>6, <2>2, <2>3, <2>4 DEF SplitBy
<1> QED
    BY <1>2, <1>3, <1>9, <1>10, <1>11 DEF KeptBy

LEMMA LookKeeps ==
    ASSUME StreamTypes, NEW s \in Sessions, KeptBy(run[s]), Look(s)
    PROVE  \E r : run' = [run EXCEPT ![s] = r] /\ KeptBy(r)'
<1>1. PICK r : /\ r = IF run[s].todo = {} THEN [run[s] EXCEPT !.at = "make"]
                      ELSE IF Holds(flat, First(run[s].todo)) THEN [run[s] EXCEPT !.at = "move"]
                      ELSE [run[s] EXCEPT !.todo = run[s].todo \ {First(run[s].todo)}]
               /\ run' = [run EXCEPT ![s] = r]
    BY DEF Look
<1>2. run[s].at = "look" /\ UNCHANGED <<flat, streams, archives, killed>>
    BY DEF Look
<1>3. run[s] \in Runs /\ RunOK(run[s])
    BY DEF StreamTypes
<1>4. PICK m \in Names : m = run[s].into
    BY <1>2, <1>3 DEF RunOK
<1>5. r.moved = run[s].moved /\ r.into = m /\ r.at \in {"make", "move", "look"} /\ ~Archives(r)
    BY <1>1, <1>2, <1>3, <1>4 DEF Runs, Archives
<1>6. Migrates(run[s]) /\ ~Archives(run[s])
    BY <1>2 DEF Migrates, Archives
<1>7. \A i \in Items : /\ flat[i] \in {0, 1} /\ Exists(m) /\ (i \in r.moved <=> streams[m][i] = 1)
                       /\ i \in r.moved => flat[i] = 0
                       /\ i \notin run[s].todo /\ i \notin r.moved => flat[i] = 0
    BY <1>2, <1>4, <1>5, <1>6 DEF KeptBy, TrackedBy
<1>8. r.at = "make" => run[s].todo = {}
    BY <1>1, <1>2, <1>3 DEF Runs
<1>9. \A i \in Items : i \in run[s].todo /\ i \notin r.todo => flat[i] = 0
    <2>1. CASE run[s].todo = {}
        BY <2>1
    <2>2. CASE run[s].todo # {} /\ Holds(flat, First(run[s].todo))
        BY <1>1, <1>3, <2>2 DEF Runs
    <2>3. CASE run[s].todo # {} /\ ~Holds(flat, First(run[s].todo))
        <3>1. PICK i \in Items : i = First(run[s].todo)
            BY <1>3, <2>3, FirstIsOne DEF Runs
        <3>2. r.todo = run[s].todo \ {i} /\ ~Holds(flat, i)
            BY <1>1, <1>3, <2>3, <3>1 DEF Runs
        <3> QED
            BY <1>7, <3>2 DEF Holds
    <2> QED
        BY <2>1, <2>2, <2>3
<1>10. TrackedBy(r)'
    BY <1>2, <1>5, <1>7, <1>9 DEF TrackedBy, Exists
<1>11. \A i \in Items : Somewhere(i)'
    BY <1>2 DEF KeptBy, Somewhere
<1>12. ASSUME ~killed PROVE SplitBy(r)'
    <2>1. SplitBy(run[s])
        BY <1>12 DEF KeptBy
    <2>2. /\ \A n \in Names \ {m} : Whole(streams[n])
          /\ \A k \in 1 .. Len(archives) : Whole(archives[k].dir)
          /\ \/ \A i \in Items : i \in r.moved \/ flat[i] = 1
             \/ \A i \in Items : i \notin r.moved /\ flat[i] = 0
        BY <1>4, <1>5, <1>6, <2>1 DEF SplitBy
    <2>3. CASE r.at = "make"
        <3>1. Whole(flat) /\ Whole(streams[m]) /\ ~Migrates(r)
            BY <1>7, <1>8, <2>2, <2>3 DEF Whole, Migrates
        <3> QED
            BY <1>2, <1>5, <2>2, <3>1 DEF SplitBy, Whole
    <2>4. CASE r.at # "make"
        <3>1. Migrates(r)
            BY <1>5, <2>4 DEF Migrates
        <3>2. /\ \A n \in Names \ {m} : Whole(streams[n])'
              /\ \A k \in 1 .. Len(archives) : Whole(archives[k].dir)'
            BY <1>2, <2>2 DEF Whole
        <3> QED
            BY <1>2, <1>5, <2>2, <3>1, <3>2 DEF SplitBy
    <2> QED
        BY <2>3, <2>4
<1> QED
    BY <1>1, <1>2, <1>10, <1>11, <1>12 DEF KeptBy

LEMMA MoveItemKeeps ==
    ASSUME StreamTypes, NEW s \in Sessions, KeptBy(run[s]), NEW ok \in BOOLEAN, MoveItem(s, ok)
    PROVE  \E r : run' = [run EXCEPT ![s] = r] /\ KeptBy(r)'
<1>1. run[s].at = "move" /\ UNCHANGED <<archives, killed>>
    BY DEF MoveItem
<1>2. run[s] \in Runs /\ RunOK(run[s])
    BY DEF StreamTypes
<1>3. PICK m \in Names : m = run[s].into
    BY <1>1, <1>2 DEF RunOK
<1>4. Migrates(run[s]) /\ ~Archives(run[s])
    BY <1>1 DEF Migrates, Archives
<1>5. \A i \in Items : /\ flat[i] \in {0, 1} /\ Exists(m) /\ (i \in run[s].moved <=> streams[m][i] = 1)
                       /\ i \in run[s].moved => flat[i] = 0
                       /\ i \notin run[s].todo /\ i \notin run[s].moved => flat[i] = 0
    BY <1>1, <1>3, <1>4 DEF KeptBy, TrackedBy
<1>6. ~killed => /\ \A n \in Names \ {m} : Whole(streams[n])
                 /\ \A k \in 1 .. Len(archives) : Whole(archives[k].dir)
                 /\ \/ \A i \in Items : i \in run[s].moved \/ flat[i] = 1
                    \/ \A i \in Items : i \notin run[s].moved /\ flat[i] = 0
    BY <1>3, <1>4 DEF SplitBy, KeptBy
<1>7. CASE ~ok
    <2>1. PICK r : r = [run[s] EXCEPT !.at = "restore"] /\ run' = [run EXCEPT ![s] = r]
        BY <1>7, MoveItemIs, Zenon
    <2>2. UNCHANGED <<flat, streams>>
        BY <1>7, MoveItemIs, Zenon
    <2>3. r.moved = run[s].moved /\ r.into = m /\ r.at = "restore" /\ Migrates(r) /\ ~Archives(r)
        BY <1>2, <1>3, <2>1 DEF Runs, Migrates, Archives
    <2>4. TrackedBy(r)'
        BY <1>1, <1>5, <2>2, <2>3 DEF TrackedBy, Exists
    <2>5. \A i \in Items : Somewhere(i)'
        BY <1>1, <2>2 DEF KeptBy, Somewhere
    <2>6. ASSUME ~killed PROVE SplitBy(r)'
        <3>1. /\ \A n \in Names \ {m} : Whole(streams[n])'
              /\ \A k \in 1 .. Len(archives) : Whole(archives[k].dir)'
            BY <1>1, <1>6, <2>2, <2>6 DEF Whole
        <3> QED
            BY <1>1, <1>6, <2>2, <2>3, <2>6, <3>1 DEF SplitBy
    <2> QED
        BY <1>1, <2>1, <2>4, <2>5, <2>6 DEF KeptBy
<1>8. CASE ok
    <2>1. PICK i \in Items : 
              /\ i \in run[s].todo /\ Holds(flat, i)
              /\ run' = [run EXCEPT ![s] = [run[s] EXCEPT !.at = "look", !.todo = run[s].todo \ {i},
                                                          !.moved = run[s].moved \cup {i}]]
              /\ streams' = [streams EXCEPT ![run[s].into] = [streams[run[s].into] EXCEPT ![i] = flat[i]]]
              /\ flat' = [flat EXCEPT ![i] = 0]
        BY <1>8, MoveItemIs, Zenon
    <2>2. PICK r : r = [run[s] EXCEPT !.at = "look", !.todo = run[s].todo \ {i},
                                      !.moved = run[s].moved \cup {i}]
        OBVIOUS
    <2>3. /\ run' = [run EXCEPT ![s] = r] /\ r.at = "look" /\ r.into = m
          /\ r.todo = run[s].todo \ {i} /\ r.moved = run[s].moved \cup {i}
        BY <1>2, <1>3, <2>1, <2>2 DEF Runs
    <2>4. Migrates(r) /\ ~Archives(r)
        BY <2>3 DEF Migrates, Archives
    <2>5. flat[i] = 1
        BY <1>5, <2>1 DEF Holds
    <2>6. streams[m] \in Dirs /\ flat \in Dirs
        BY <1>5 DEF StreamTypes, Exists
    <2>7. PICK new : new = [streams[m] EXCEPT ![i] = 1]
        OBVIOUS
    <2>8. /\ streams' = [streams EXCEPT ![m] = new]
          /\ new \in Dirs /\ new[i] = 1 /\ \A j \in Items \ {i} : new[j] = streams[m][j]
          /\ flat'[i] = 0 /\ \A j \in Items \ {i} : flat'[j] = flat[j]
        BY <1>3, <2>1, <2>5, <2>6, <2>7 DEF Dirs
    <2>9. streams'[m] = new /\ \A n \in Names \ {m} : streams'[n] = streams[n]
        BY <2>8 DEF StreamTypes
    <2>10. Exists(m)'
        BY <2>8, <2>9, NoStreamIsNone DEF Exists
    <2>11. TrackedBy(r)'
        BY <1>5, <2>3, <2>4, <2>8, <2>9, <2>10 DEF TrackedBy
    <2>12. \A j \in Items : Somewhere(j)'
        <3>1. Somewhere(i)'
            BY <2>8, <2>9 DEF Somewhere
        <3>2. ASSUME NEW j \in Items \ {i} PROVE Somewhere(j)'
            BY <1>1, <2>8, <2>9 DEF Somewhere, KeptBy
        <3> QED
            BY <3>1, <3>2
    <2>13. ASSUME ~killed PROVE SplitBy(r)'
        <3>1. \A j \in Items : j \in r.moved \/ flat'[j] = 1
            BY <1>6, <2>3, <2>5, <2>8, <2>13
        <3>2. /\ \A n \in Names \ {m} : Whole(streams[n])'
              /\ \A k \in 1 .. Len(archives) : Whole(archives[k].dir)'
            BY <1>1, <1>6, <2>9, <2>13 DEF Whole
        <3> QED
            BY <1>1, <2>3, <2>4, <3>1, <3>2 DEF SplitBy
    <2> QED
        BY <1>1, <2>3, <2>11, <2>12, <2>13, Zenon DEF KeptBy
<1> QED
    BY <1>7, <1>8

\* A migration under way, into m, and an archiving, of n into the a-th archive.
Migrating(s, m) ==
    /\ m = run[s].into /\ ~Archives(run[s]) /\ streams[m] \in Dirs /\ flat \in Dirs /\ Exists(m)
    /\ \A i \in Items : /\ flat[i] \in {0, 1} /\ (i \in run[s].moved <=> streams[m][i] = 1)
                        /\ i \in run[s].moved => flat[i] = 0
    /\ ~killed => /\ \A n \in Names \ {m} : Whole(streams[n])
                  /\ \A k \in 1 .. Len(archives) : Whole(archives[k].dir)
                  /\ \/ \A i \in Items : i \in run[s].moved \/ flat[i] = 1
                     \/ \A i \in Items : i \notin run[s].moved /\ flat[i] = 0

Archiving(s, n, a) ==
    /\ n = run[s].name /\ a = run[s].archive /\ ~Migrates(run[s])
    /\ archives[a].dir \in Dirs
    /\ \A i \in Items : /\ flat[i] \in {0, 1}
                        /\ archives[a].dir[i] = 1 => i \in run[s].moved
                        /\ i \in run[s].moved => streams[n][i] # 1
                        /\ run[s].at = "shelve" /\ i \in run[s].todo => i \notin run[s].moved
    /\ ~killed =>
          /\ Whole(flat) /\ \A m \in Names \ {n} : Whole(streams[m])
          /\ \A k \in 1 .. Len(archives) : k # a => Whole(archives[k].dir)
          /\ \/ \A i \in Items : /\ i \in run[s].moved => archives[a].dir[i] = 1
                                 /\ i \notin run[s].moved => streams[n][i] = 1
                                 /\ run[s].at = "shelve" /\ i \notin run[s].moved => i \in run[s].todo
             \/ \A i \in Items : archives[a].dir[i] # 1 /\ streams[n][i] # 1

LEMMA MigrationKnows ==
    ASSUME StreamTypes, NEW s \in Sessions, KeptBy(run[s]), Migrates(run[s])
    PROVE  \E m \in Names : Migrating(s, m)
<1>1. PICK m \in Names : m = run[s].into
    BY DEF StreamTypes, RunOK, Migrates
<1>2. ~Archives(run[s])
    BY DEF Migrates, Archives
<1>3. /\ Exists(m)
      /\ \A i \in Items : /\ flat[i] \in {0, 1} /\ (i \in run[s].moved <=> streams[m][i] = 1)
                          /\ i \in run[s].moved => flat[i] = 0
    BY <1>1, NoStreamIsNone DEF KeptBy, TrackedBy, Items
<1>4. streams[m] \in Dirs /\ flat \in Dirs
    BY <1>3 DEF StreamTypes, Exists
<1>5. ~killed => /\ \A n \in Names \ {m} : Whole(streams[n])
                 /\ \A k \in 1 .. Len(archives) : Whole(archives[k].dir)
                 /\ \/ \A i \in Items : i \in run[s].moved \/ flat[i] = 1
                    \/ \A i \in Items : i \notin run[s].moved /\ flat[i] = 0
    BY <1>1, <1>2 DEF KeptBy, SplitBy
<1> QED
    BY <1>1, <1>2, <1>3, <1>4, <1>5 DEF Migrating

LEMMA RestoreKeeps ==
    ASSUME StreamTypes, NEW s \in Sessions, KeptBy(run[s]), NEW ok \in BOOLEAN, Restore(s, ok), ~lost'
    PROVE  \E r : run' = [run EXCEPT ![s] = r] /\ KeptBy(r)'
<1>1. run[s].at = "restore" /\ UNCHANGED <<archives, killed>>
    BY DEF Restore
<1>2. run[s] \in Runs
    BY DEF StreamTypes
<1>3. Migrates(run[s])
    BY <1>1 DEF Migrates
<1>4. PICK m \in Names : Migrating(s, m)
    BY <1>3, MigrationKnows
<1> USE DEF Migrating
<1>5. PICK i \in Items :
          /\ i \in run[s].moved
          /\ run' = [run EXCEPT ![s] = [run[s] EXCEPT !.moved = run[s].moved \ {i}]]
          /\ \/ /\ ok /\ Exists(run[s].into)
                /\ flat' = [flat EXCEPT ![i] = streams[run[s].into][i]]
                /\ streams' = [streams EXCEPT ![run[s].into] = [streams[run[s].into] EXCEPT ![i] = 0]]
             \/ /\ ~ok /\ UNCHANGED <<flat, streams>>
                /\ lost' = (lost \/ (Exists(run[s].into) /\ Holds(streams[run[s].into], i)))
    BY RestoreIs
<1>6. streams[m][i] = 1
    BY <1>4, <1>5
<1>7. /\ flat' = [flat EXCEPT ![i] = 1]
      /\ streams' = [streams EXCEPT ![m] = [streams[m] EXCEPT ![i] = 0]]
    <2>1. CASE ok
        BY <1>4, <1>5, <1>6, <2>1
    <2>2. CASE ~ok
        <3>1. Exists(run[s].into) /\ Holds(streams[run[s].into], i)
            BY <1>4, <1>6 DEF Holds
        <3> QED
            BY <1>5, <2>2, <3>1
    <2> QED
        BY <2>1, <2>2
<1>8. PICK r : r = [run[s] EXCEPT !.moved = run[s].moved \ {i}]
    OBVIOUS
<1>9. run' = [run EXCEPT ![s] = r] /\ r.at = "restore" /\ r.into = m /\ r.moved = run[s].moved \ {i}
    BY <1>1, <1>2, <1>4, <1>5, <1>8 DEF Runs
<1>10. Migrates(r) /\ ~Archives(r)
    BY <1>9 DEF Migrates, Archives
<1>11. PICK new : new = [streams[m] EXCEPT ![i] = 0]
    OBVIOUS
<1>12. /\ new \in Dirs /\ new[i] = 0 /\ \A j \in Items \ {i} : new[j] = streams[m][j]
       /\ flat'[i] = 1 /\ \A j \in Items \ {i} : flat'[j] = flat[j]
    BY <1>4, <1>7, <1>11 DEF Dirs
<1>13. streams'[m] = new /\ \A n \in Names \ {m} : streams'[n] = streams[n]
    BY <1>7, <1>11 DEF StreamTypes
<1>14. Exists(m)'
    BY <1>12, <1>13, NoStreamIsNone DEF Exists
<1>15. TrackedBy(r)'
    BY <1>4, <1>9, <1>10, <1>12, <1>13, <1>14 DEF TrackedBy
<1>16. \A j \in Items : Somewhere(j)'
    <2>1. Somewhere(i)'
        BY <1>12 DEF Somewhere
    <2>2. ASSUME NEW j \in Items \ {i} PROVE Somewhere(j)'
        BY <1>1, <1>12, <1>13 DEF Somewhere, KeptBy
    <2> QED
        BY <2>1, <2>2
<1>17. ASSUME ~killed PROVE SplitBy(r)'
    <2>1. \/ \A j \in Items : j \in r.moved \/ flat'[j] = 1
          \/ \A j \in Items : j \notin r.moved /\ flat'[j] = 0
        BY <1>4, <1>5, <1>9, <1>12, <1>17
    <2>2. /\ \A n \in Names \ {m} : Whole(streams[n])'
          /\ \A k \in 1 .. Len(archives) : Whole(archives[k].dir)'
        BY <1>1, <1>4, <1>13, <1>17 DEF Whole
    <2> QED
        BY <1>1, <1>9, <1>10, <2>1, <2>2 DEF SplitBy
<1> QED
    BY <1>1, <1>9, <1>15, <1>16, <1>17 DEF KeptBy

\* The directory that is removed holds none of it.
LEMMA UndoKeeps ==
    ASSUME StreamTypes, NEW s \in Sessions, KeptBy(run[s]), Undo(s)
    PROVE  \E r : run' = [run EXCEPT ![s] = r] /\ KeptBy(r)'
<1>1. /\ run[s].at = "restore" /\ run[s].moved = {} /\ UNCHANGED <<flat, archives, killed>>
      /\ streams' = [streams EXCEPT ![run[s].into] = NoStream]
    BY DEF Undo
<1>2. run[s] \in Runs
    BY DEF StreamTypes
<1>3. Migrates(run[s])
    BY <1>1 DEF Migrates
<1>4. PICK m \in Names : Migrating(s, m)
    BY <1>3, MigrationKnows
<1> USE DEF Migrating
<1>5. PICK r : r = [run[s] EXCEPT !.at = "end"]
    OBVIOUS
<1>6. run' = [run EXCEPT ![s] = r] /\ ~Migrates(r) /\ ~Archives(r)
    BY <1>2, <1>5 DEF Undo, Goes, Runs, Migrates, Archives
<1>7. streams'[m] = NoStream /\ \A n \in Names \ {m} : streams'[n] = streams[n]
    BY <1>1, <1>4 DEF StreamTypes
<1>8. \A i \in Items : NoStream[i] = -1 /\ streams[m][i] # 1
    BY <1>1, <1>4 DEF NoStream
<1>9. TrackedBy(r)'
    BY <1>1, <1>4, <1>6 DEF TrackedBy
<1>10. \A i \in Items : Somewhere(i)'
    BY <1>1, <1>7, <1>8 DEF KeptBy, Somewhere
<1>11. ASSUME ~killed PROVE SplitBy(r)'
    <2>1. Whole(flat)' /\ Whole(streams[m])'
        BY <1>1, <1>4, <1>7, <1>8, <1>11 DEF Whole
    <2>2. /\ \A n \in Names \ {m} : Whole(streams[n])'
          /\ \A k \in 1 .. Len(archives) : Whole(archives[k].dir)'
        BY <1>1, <1>4, <1>7, <1>11 DEF Whole
    <2> QED
        BY <1>1, <1>6, <2>1, <2>2 DEF SplitBy
<1> QED
    BY <1>1, <1>6, <1>9, <1>10, <1>11 DEF KeptBy

LEMMA CompleteKeeps ==
    ASSUME StreamTypes, NEW s \in Sessions, KeptBy(run[s]), CompleteBegins(s), archives' # archives
    PROVE  \E r : run' = [run EXCEPT ![s] = r] /\ KeptBy(r)'
<1>1. PICK kept \in BOOLEAN :
          /\ archives' = Append(archives, [name |-> run[s].name, dir |-> Empty])
          /\ run' = [run EXCEPT ![s] = [run[s] EXCEPT !.at = "shelve", !.kept = kept,
                         !.archive = Len(archives) + 1,
                         !.todo = {i \in Items : Holds(streams[run[s].name], i)}]]
    BY CompleteIs, Zenon
<1>2. run[s].at = "complete" /\ UNCHANGED <<flat, streams, killed>>
    BY DEF CompleteBegins
<1>3. run[s] \in Runs /\ RunOK(run[s]) /\ archives \in Seq(Shelves)
    BY DEF StreamTypes
<1>4. PICK n \in Names : n = run[s].name
    BY <1>2, <1>3 DEF RunOK
<1>5. PICK held, a : held = {i \in Items : Holds(streams[n], i)} /\ a = Len(archives) + 1
    OBVIOUS
<1>6. PICK r : r = [run[s] EXCEPT !.at = "shelve", !.kept = kept, !.archive = a, !.todo = held]
    OBVIOUS
<1>7. /\ run' = [run EXCEPT ![s] = r] /\ r.at = "shelve" /\ r.archive = a /\ r.todo = held
      /\ r.name = n /\ r.moved = {}
    BY <1>1, <1>2, <1>3, <1>4, <1>5, <1>6 DEF Runs, RunOK
<1>8. ~Migrates(r) /\ Archives(r) /\ ~Migrates(run[s]) /\ ~Archives(run[s])
    BY <1>2, <1>7 DEF Migrates, Archives
<1>9. Len(archives) \in Nat /\ [name |-> n, dir |-> Empty] \in Shelves
    BY <1>3, NoStreamIsNone, LenProperties DEF Shelves
<1>10. /\ Len(archives') = a /\ archives'[a].dir = Empty
       /\ \A k \in 1 .. Len(archives) : archives'[k] = archives[k]
    BY <1>1, <1>3, <1>4, <1>5, <1>9, AppendProperties
<1>11. \A i \in Items : Empty[i] = 0 /\ flat[i] \in {0, 1}
    BY DEF Empty, KeptBy, TrackedBy
<1>12. TrackedBy(r)'
    BY <1>2, <1>7, <1>8, <1>10, <1>11 DEF TrackedBy
<1>13. \A i \in Items : Somewhere(i)'
    BY <1>2, <1>5, <1>9, <1>10 DEF KeptBy, Somewhere
<1>14. ASSUME ~killed PROVE SplitBy(r)'
    <2>1. Whole(flat) /\ (\A m \in Names : Whole(streams[m])) /\ \A k \in 1 .. Len(archives) : Whole(archives[k].dir)
        BY <1>8, <1>14 DEF KeptBy, SplitBy
    <2>2. /\ Whole(flat)' /\ \A m \in Names : Whole(streams[m])'
        BY <1>2, <2>1 DEF Whole
    <2>3. \A k \in 1 .. Len(archives') : k # a => Whole(archives[k].dir)'
        BY <1>5, <1>9, <1>10, <2>1 DEF Whole
    <2>4. (\A i \in Items : streams[n][i] = 1 /\ i \in held) \/ (\A i \in Items : streams[n][i] # 1)
        BY <1>5, <2>1 DEF Whole, Holds
    <2>5. \A i \in Items : archives'[a].dir[i] = 0 /\ i \notin r.moved
        BY <1>7, <1>10, <1>11
    <2> QED
        BY <1>2, <1>7, <1>8, <2>2, <2>3, <2>4, <2>5 DEF SplitBy
<1> QED
    BY <1>2, <1>7, <1>12, <1>13, <1>14 DEF KeptBy

LEMMA ArchivingKnows ==
    ASSUME StreamTypes, NEW s \in Sessions, KeptBy(run[s]), Archives(run[s])
    PROVE  \E n \in Names, a \in 1 .. Len(archives) : Archiving(s, n, a)
<1>1. PICK n \in Names, a \in 1 .. Len(archives) : n = run[s].name /\ a = run[s].archive
    BY DEF StreamTypes, RunOK, Archives
<1>2. ~Migrates(run[s])
    BY DEF Migrates, Archives
<1>3. \A i \in Items : /\ flat[i] \in {0, 1}
                       /\ archives[a].dir[i] = 1 => i \in run[s].moved
                       /\ i \in run[s].moved => streams[n][i] # 1
                       /\ run[s].at = "shelve" /\ i \in run[s].todo => i \notin run[s].moved
    BY <1>1 DEF KeptBy, TrackedBy
<1>4. archives[a].dir \in Dirs
    <2>1. archives \in Seq(Shelves)
        BY DEF StreamTypes
    <2>2. archives[a] \in Shelves
        BY <2>1, ElementOfSeq
    <2> QED
        BY <2>2 DEF Shelves
<1>5. ~killed =>
         /\ Whole(flat) /\ \A m \in Names \ {n} : Whole(streams[m])
         /\ \A k \in 1 .. Len(archives) : k # a => Whole(archives[k].dir)
         /\ \/ \A i \in Items : /\ i \in run[s].moved => archives[a].dir[i] = 1
                                /\ i \notin run[s].moved => streams[n][i] = 1
                                /\ run[s].at = "shelve" /\ i \notin run[s].moved => i \in run[s].todo
            \/ \A i \in Items : archives[a].dir[i] # 1 /\ streams[n][i] # 1
    BY <1>1, <1>2 DEF KeptBy, SplitBy
<1> QED
    BY <1>1, <1>2, <1>3, <1>4, <1>5 DEF Archiving

LEMMA ShelveKeeps ==
    ASSUME StreamTypes, NEW s \in Sessions, KeptBy(run[s]), NEW ok \in BOOLEAN, Shelve(s, ok)
    PROVE  \E r : run' = [run EXCEPT ![s] = r] /\ KeptBy(r)'
<1>1. run[s].at = "shelve" /\ UNCHANGED <<flat, killed>>
    BY DEF Shelve
<1>2. run[s] \in Runs /\ Archives(run[s])
    BY <1>1 DEF StreamTypes, Archives
<1>3. PICK n \in Names, a \in 1 .. Len(archives) : Archiving(s, n, a)
    BY <1>2, ArchivingKnows
<1> USE DEF Archiving
<1>4. CASE ~ok
    <2>1. PICK r : r = [run[s] EXCEPT !.at = "unshelve"] /\ run' = [run EXCEPT ![s] = r]
        BY <1>4, ShelveIs, ZenonT(40)
    <2>2. UNCHANGED <<archives, streams>>
        BY <1>4, ShelveIs, ZenonT(40)
    <2>3. r.moved = run[s].moved /\ r.name = n /\ r.archive = a /\ r.at = "unshelve" /\ Archives(r) /\ ~Migrates(r)
        BY <1>2, <1>3, <2>1 DEF Runs, Migrates, Archives
    <2>4. TrackedBy(r)'
        BY <1>1, <1>3, <2>2, <2>3 DEF TrackedBy
    <2>5. \A i \in Items : Somewhere(i)'
        BY <1>1, <2>2 DEF KeptBy, Somewhere
    <2>6. ASSUME ~killed PROVE SplitBy(r)'
        <3>1. /\ Whole(flat)' /\ \A m \in Names \ {n} : Whole(streams[m])'
              /\ \A k \in 1 .. Len(archives) : k # a => Whole(archives[k].dir)'
            BY <1>1, <1>3, <2>2, <2>6 DEF Whole
        <3>2. \/ \A i \in Items : /\ i \in r.moved => archives'[a].dir[i] = 1
                                  /\ i \notin r.moved => streams'[n][i] = 1
              \/ \A i \in Items : archives'[a].dir[i] # 1 /\ streams'[n][i] # 1
            BY <1>3, <2>2, <2>3, <2>6
        <3> QED
            BY <2>2, <2>3, <3>1, <3>2 DEF SplitBy
    <2> QED
        BY <1>1, <2>1, <2>4, <2>5, <2>6, Zenon DEF KeptBy
<1>5. CASE ok
    <2>1. PICK i \in Items :
             /\ i \in run[s].todo /\ Exists(run[s].name) /\ Holds(streams[run[s].name], i)
             /\ run' = [run EXCEPT ![s] = [run[s] EXCEPT !.todo = run[s].todo \ {i},
                                                         !.moved = run[s].moved \cup {i}]]
             /\ archives'[run[s].archive].dir =
                    [archives[run[s].archive].dir EXCEPT ![i] = streams[run[s].name][i]]
             /\ \A k \in 1 .. Len(archives) : k # run[s].archive => archives'[k] = archives[k]
             /\ Len(archives') = Len(archives)
             /\ streams' = [streams EXCEPT ![run[s].name] = [streams[run[s].name] EXCEPT ![i] = 0]]
        BY <1>5, ShelveIs, Zenon
    <2>2. PICK r : r = [run[s] EXCEPT !.todo = run[s].todo \ {i}, !.moved = run[s].moved \cup {i}]
        OBVIOUS
    <2>3. /\ run' = [run EXCEPT ![s] = r] /\ r.at = "shelve" /\ r.name = n /\ r.archive = a
          /\ r.todo = run[s].todo \ {i} /\ r.moved = run[s].moved \cup {i}
        BY <1>1, <1>2, <1>3, <2>1, <2>2 DEF Runs
    <2>4. Archives(r) /\ ~Migrates(r)
        BY <2>3 DEF Migrates, Archives
    <2>5. streams[n] \in Dirs
        BY <1>3, <2>1 DEF StreamTypes, Exists
    <2>6. PICK new : new = [streams[n] EXCEPT ![i] = 0]
        OBVIOUS
    <2>7. PICK dir : dir = [archives[a].dir EXCEPT ![i] = streams[n][i]]
        OBVIOUS
    <2>8. /\ new[i] = 0 /\ \A j \in Items \ {i} : new[j] = streams[n][j]
          /\ dir[i] = streams[n][i] /\ \A j \in Items \ {i} : dir[j] = archives[a].dir[j]
        BY <1>3, <2>5, <2>6, <2>7 DEF Dirs
    <2>9. /\ streams'[n] = new /\ \A m \in Names \ {n} : streams'[m] = streams[m]
          /\ archives'[a].dir = dir /\ \A k \in 1 .. Len(archives) : k # a => archives'[k] = archives[k]
          /\ Len(archives') = Len(archives)
        BY <1>3, <2>1, <2>6, <2>7 DEF StreamTypes
    <2>10. i \notin run[s].moved /\ archives[a].dir[i] # 1
        BY <1>1, <1>3, <2>1
    <2>11. TrackedBy(r)'
        <3>1. ASSUME NEW j \in Items
              PROVE  /\ flat'[j] \in {0, 1}
                     /\ dir[j] = 1 => j \in r.moved
                     /\ j \in r.moved => new[j] # 1
                     /\ j \in r.todo => j \notin r.moved
            BY <1>1, <1>3, <2>3, <2>8
        <3> QED
            BY <2>3, <2>4, <2>9, <3>1 DEF TrackedBy
    <2>12. \A j \in Items : Somewhere(j)'
        <3>1. ASSUME NEW j \in Items \ {i} PROVE Somewhere(j)'
            <4>1. Somewhere(j)
                BY DEF KeptBy
            <4> QED
                <5>1. CASE flat[j] = 1
                    BY <1>1, <5>1 DEF Somewhere
                <5>2. ASSUME NEW m \in Names, streams[m][j] = 1 PROVE streams'[m][j] = 1
                    BY <2>8, <2>9, <5>2
                <5>3. ASSUME NEW k \in 1 .. Len(archives), archives[k].dir[j] = 1
                      PROVE  archives'[k].dir[j] = 1
                    BY <2>8, <2>9, <5>3
                <5> QED
                    BY <2>9, <4>1, <5>1, <5>2, <5>3 DEF Somewhere
        <3>2. Somewhere(i)'
            <4>1. Somewhere(i)
                BY DEF KeptBy
            <4> QED
                BY <1>1, <1>3, <2>8, <2>9, <2>10, <4>1 DEF Somewhere
        <3> QED
            BY <3>1, <3>2
    <2>13. ASSUME ~killed PROVE SplitBy(r)'
        <3>1. /\ Whole(flat)' /\ \A m \in Names \ {n} : Whole(streams[m])'
              /\ \A k \in 1 .. Len(archives) : k # a => Whole(archives[k].dir)'
            BY <1>1, <1>3, <2>9, <2>13 DEF Whole
        <3>2. \/ \A j \in Items : /\ j \in r.moved => dir[j] = 1
                                  /\ j \notin r.moved => new[j] = 1
                                  /\ j \notin r.moved => j \in r.todo
              \/ \A j \in Items : dir[j] # 1 /\ new[j] # 1
            <4>1. CASE \A j \in Items : /\ j \in run[s].moved => archives[a].dir[j] = 1
                                        /\ j \notin run[s].moved => streams[n][j] = 1
                                        /\ run[s].at = "shelve" /\ j \notin run[s].moved => j \in run[s].todo
                BY <1>1, <2>3, <2>8, <2>10, <4>1
            <4>2. CASE \A j \in Items : archives[a].dir[j] # 1 /\ streams[n][j] # 1
                BY <2>8, <4>2
            <4> QED
                BY <1>3, <2>13, <4>1, <4>2
        <3> QED
            BY <2>3, <2>4, <2>9, <3>1, <3>2 DEF SplitBy
    <2> QED
        BY <1>1, <2>3, <2>11, <2>12, <2>13, Zenon DEF KeptBy
<1> QED
    BY <1>4, <1>5

LEMMA UnshelveKeeps ==
    ASSUME StreamTypes, NEW s \in Sessions, KeptBy(run[s]), NEW ok \in BOOLEAN, Unshelve(s, ok), ~lost'
    PROVE  \E r : run' = [run EXCEPT ![s] = r] /\ KeptBy(r)'
<1>1. run[s].at = "unshelve" /\ UNCHANGED <<flat, killed>>
    BY DEF Unshelve
<1>2. run[s] \in Runs /\ Archives(run[s])
    BY <1>1 DEF StreamTypes, Archives
<1>3. PICK n \in Names, a \in 1 .. Len(archives) : Archiving(s, n, a)
    BY <1>2, ArchivingKnows
<1> USE DEF Archiving
<1>4. PICK i \in Items :
         /\ i \in run[s].moved
         /\ run' = [run EXCEPT ![s] = [run[s] EXCEPT !.moved = run[s].moved \ {i}]]
         /\ \/ ~ok /\ lost' /\ UNCHANGED <<archives, streams>>
            \/ /\ ok /\ Exists(run[s].name)
               /\ streams' = [streams EXCEPT ![run[s].name] =
                                 [streams[run[s].name] EXCEPT ![i] = archives[run[s].archive].dir[i]]]
               /\ archives'[run[s].archive].dir = [archives[run[s].archive].dir EXCEPT ![i] = 0]
               /\ \A k \in 1 .. Len(archives) : k # run[s].archive => archives'[k] = archives[k]
               /\ Len(archives') = Len(archives)
    BY UnshelveIs
<1>5. PICK r : r = [run[s] EXCEPT !.moved = run[s].moved \ {i}]
    OBVIOUS
<1>6. /\ run' = [run EXCEPT ![s] = r] /\ r.at = "unshelve" /\ r.name = n /\ r.archive = a
      /\ r.moved = run[s].moved \ {i}
    BY <1>1, <1>2, <1>3, <1>4, <1>5 DEF Runs
<1>7. Archives(r) /\ ~Migrates(r)
    BY <1>6 DEF Migrates, Archives
<1>8. streams[n] \in Dirs
    BY <1>3, <1>4 DEF StreamTypes, Exists
<1>9. PICK new : new = [streams[n] EXCEPT ![i] = archives[a].dir[i]]
    OBVIOUS
<1>10. PICK dir : dir = [archives[a].dir EXCEPT ![i] = 0]
    OBVIOUS
<1>11. /\ new[i] = archives[a].dir[i] /\ \A j \in Items \ {i} : new[j] = streams[n][j]
       /\ dir[i] = 0 /\ \A j \in Items \ {i} : dir[j] = archives[a].dir[j]
    BY <1>3, <1>8, <1>9, <1>10 DEF Dirs
<1>12. /\ streams'[n] = new /\ \A m \in Names \ {n} : streams'[m] = streams[m]
       /\ archives'[a].dir = dir /\ \A k \in 1 .. Len(archives) : k # a => archives'[k] = archives[k]
       /\ Len(archives') = Len(archives)
    BY <1>3, <1>4, <1>9, <1>10 DEF StreamTypes
<1>13. i \in run[s].moved /\ streams[n][i] # 1
    BY <1>3, <1>4
<1>14. TrackedBy(r)'
    <2>1. ASSUME NEW j \in Items
          PROVE  /\ flat'[j] \in {0, 1}
                 /\ dir[j] = 1 => j \in r.moved
                 /\ j \in r.moved => new[j] # 1
        BY <1>1, <1>3, <1>6, <1>11
    <2> QED
        BY <1>6, <1>7, <1>12, <2>1 DEF TrackedBy
<1>15. \A j \in Items : Somewhere(j)'
    <2>1. ASSUME NEW j \in Items \ {i} PROVE Somewhere(j)'
        <3>1. Somewhere(j)
            BY DEF KeptBy
        <3> QED
            BY <1>1, <1>3, <1>11, <1>12, <3>1 DEF Somewhere
    <2>2. Somewhere(i)'
        <3>1. Somewhere(i)
            BY DEF KeptBy
        <3> QED
            BY <1>1, <1>3, <1>11, <1>12, <1>13, <3>1 DEF Somewhere
    <2> QED
        BY <2>1, <2>2
<1>16. ASSUME ~killed PROVE SplitBy(r)'
    <2>1. /\ Whole(flat)' /\ \A m \in Names \ {n} : Whole(streams[m])'
          /\ \A k \in 1 .. Len(archives) : k # a => Whole(archives[k].dir)'
        BY <1>1, <1>3, <1>12, <1>16 DEF Whole
    <2>2. \/ \A j \in Items : /\ j \in r.moved => dir[j] = 1
                              /\ j \notin r.moved => new[j] = 1
          \/ \A j \in Items : dir[j] # 1 /\ new[j] # 1
        <3>1. CASE \A j \in Items : /\ j \in run[s].moved => archives[a].dir[j] = 1
                                    /\ j \notin run[s].moved => streams[n][j] = 1
            BY <1>6, <1>11, <1>13, <3>1
        <3>2. CASE \A j \in Items : archives[a].dir[j] # 1 /\ streams[n][j] # 1
            BY <1>11, <3>2
        <3> QED
            BY <1>3, <1>16, <3>1, <3>2
    <2> QED
        BY <1>6, <1>7, <1>12, <2>1, <2>2 DEF SplitBy
<1> QED
    BY <1>1, <1>6, <1>14, <1>15, <1>16 DEF KeptBy

\* The archive that is removed holds none of it.
LEMMA UnarchiveKeeps ==
    ASSUME StreamTypes, NEW s \in Sessions, KeptBy(run[s]), Unarchive(s)
    PROVE  \E r : run' = [run EXCEPT ![s] = r] /\ KeptBy(r)'
<1>1. run[s].at = "unshelve" /\ run[s].moved = {} /\ UNCHANGED <<flat, streams, killed>>
    BY DEF Unarchive
<1>2. run[s] \in Runs /\ Archives(run[s])
    BY <1>1 DEF StreamTypes, Archives
<1>3. PICK n \in Names, a \in 1 .. Len(archives) : Archiving(s, n, a)
    BY <1>2, ArchivingKnows
<1> USE DEF Archiving
<1>4. PICK r : r = [run[s] EXCEPT !.at = "end"]
    OBVIOUS
<1>5. run' = [run EXCEPT ![s] = r] /\ ~Migrates(r) /\ ~Archives(r)
    BY <1>2, <1>4, UnarchiveIs DEF Runs, Migrates, Archives
<1>6. /\ archives'[a].dir = Empty /\ Len(archives') = Len(archives)
      /\ \A k \in 1 .. Len(archives) : k # a => archives'[k] = archives[k]
    BY <1>3, UnarchiveIs
<1>7. \A i \in Items : Empty[i] = 0 /\ archives[a].dir[i] # 1
    BY <1>1, <1>3 DEF Empty
<1>8. TrackedBy(r)'
    BY <1>1, <1>3, <1>5 DEF TrackedBy
<1>9. ASSUME NEW i \in Items PROVE Somewhere(i)'
    <2>1. Somewhere(i)
        BY DEF KeptBy
    <2> QED
        BY <1>1, <1>6, <1>7, <2>1 DEF Somewhere
<1>10. ASSUME ~killed PROVE SplitBy(r)'
    <2>1. Whole(flat)' /\ \A m \in Names \ {n} : Whole(streams[m])'
        BY <1>1, <1>3, <1>10 DEF Whole
    <2>2. Whole(streams[n])'
        BY <1>1, <1>3, <1>10 DEF Whole
    <2>3. \A k \in 1 .. Len(archives) : Whole(archives[k].dir)'
        BY <1>3, <1>6, <1>7, <1>10 DEF Whole
    <2> QED
        BY <1>5, <1>6, <2>1, <2>2, <2>3 DEF SplitBy
<1> QED
    BY <1>1, <1>5, <1>8, <1>9, <1>10 DEF KeptBy

LEMMA RetireKeeps ==
    ASSUME StreamTypes, NEW s \in Sessions, KeptBy(run[s]), Retire(s)
    PROVE  \E r : run' = [run EXCEPT ![s] = r] /\ KeptBy(r)'
<1>1. run[s].at = "shelve" /\ run[s].todo = {} /\ UNCHANGED <<flat, archives, killed>>
    BY DEF Retire
<1>2. run[s] \in Runs /\ Archives(run[s])
    BY <1>1 DEF StreamTypes, Archives
<1>3. PICK n \in Names, a \in 1 .. Len(archives) : Archiving(s, n, a)
    BY <1>2, ArchivingKnows
<1> USE DEF Archiving
<1>4. PICK r : r = [run[s] EXCEPT !.at = "end"]
    OBVIOUS
<1>5. run' = [run EXCEPT ![s] = r] /\ ~Migrates(r) /\ ~Archives(r)
    BY <1>2, <1>4, RetireIs DEF Runs, Migrates, Archives
<1>6. \A m \in Names : \A i \in Items : streams'[m][i] = 1 <=> streams[m][i] = 1
    BY RetireIs
<1>7. TrackedBy(r)'
    BY <1>1, <1>3, <1>5 DEF TrackedBy
<1>8. ASSUME NEW i \in Items PROVE Somewhere(i)'
    <2>1. Somewhere(i)
        BY DEF KeptBy
    <2> QED
        BY <1>1, <1>6, <2>1 DEF Somewhere
<1>9. ASSUME ~killed PROVE SplitBy(r)'
    <2>1. Whole(flat)' /\ \A m \in Names \ {n} : Whole(streams[m])'
        BY <1>1, <1>3, <1>6, <1>9 DEF Whole
    <2>2. Whole(streams[n])' /\ Whole(archives[a].dir)'
        <3>1. \/ \A i \in Items : i \in run[s].moved /\ archives[a].dir[i] = 1
              \/ \A i \in Items : archives[a].dir[i] # 1 /\ streams[n][i] # 1
            BY <1>1, <1>3, <1>9
        <3> QED
            BY <1>1, <1>3, <1>6, <3>1 DEF Whole
    <2>3. \A k \in 1 .. Len(archives) : Whole(archives[k].dir)'
        BY <1>1, <1>3, <1>9, <2>2 DEF Whole
    <2> QED
        BY <1>1, <1>5, <2>1, <2>2, <2>3 DEF SplitBy
<1> QED
    BY <1>1, <1>5, <1>7, <1>8, <1>9 DEF KeptBy

\* After a kill only the tracking is left.
LEMMA KillKeeps ==
    ASSUME StreamTypes, NEW s \in Sessions, KeptBy(run[s]), KillRun(s), Moving(s)
    PROVE  \E r : run' = [run EXCEPT ![s] = r] /\ KeptBy(r)'
<1>1. run' = [run EXCEPT ![s] = NoRun] /\ killed' /\ UNCHANGED <<flat, streams, archives>>
    BY DEF KillRun
<1>2. PICK r : r = NoRun
    OBVIOUS
<1>3. ~Migrates(r) /\ ~Archives(r)
    BY <1>2 DEF NoRun, Migrates, Archives
<1>4. KeptBy(r)'
    BY <1>1, <1>3 DEF KeptBy, TrackedBy, Somewhere
<1> QED
    BY <1>1, <1>2, <1>4

LEMMA MoverStepKeeps ==
    ASSUME StreamTypes, KeptInv, NEW s \in Sessions, ~lost', ~crossed',
           \/ MakeMain(s) \/ Look(s) \/ Undo(s) \/ Unarchive(s) \/ Retire(s)
           \/ CompleteBegins(s) /\ archives' # archives
           \/ \E ok \in BOOLEAN : MoveItem(s, ok) \/ Restore(s, ok) \/ Shelve(s, ok) \/ Unshelve(s, ok)
    PROVE  KeptInv'
<1>1. Alone(s) /\ ~crossed
    <2>1. CASE CompleteBegins(s) /\ archives' # archives
        <3>1. Crossing(s)
            BY <2>1, CompleteIs, Zenon
        <3> QED
            BY <3>1 DEF Crossing
    <2>2. CASE ~CompleteBegins(s)
        BY <2>2, Zenon DEF MakeMain, Look, Undo, Unarchive, Retire, MoveItem, Restore, Shelve, Unshelve, Crossing
    <2> QED
        BY <2>1, <2>2, Zenon DEF CompleteBegins, MakeMain, Look, Undo, Unarchive, Retire, MoveItem, Restore,
           Shelve, Unshelve
<1>2. ~lost
    BY Zenon DEF CompleteBegins, MakeMain, Look, Undo, Unarchive, Retire, MoveItem, Restore, Shelve, Unshelve
<1>3. KeptBy(run[s])
    BY <1>1, <1>2 DEF KeptInv
<1>4. \E r : run' = [run EXCEPT ![s] = r] /\ KeptBy(r)'
    <2>1. CASE MakeMain(s)
        <3>1. ~Exists(Main)
            BY <2>1 DEF MakeMain
        <3> QED
            BY <1>3, <2>1, <3>1, MakeMainKeeps
    <2>2. CASE CompleteBegins(s) /\ archives' # archives
        BY <1>3, <2>2, CompleteKeeps
    <2>3. ASSUME NEW ok \in BOOLEAN, MoveItem(s, ok) \/ Restore(s, ok) \/ Shelve(s, ok) \/ Unshelve(s, ok)
          PROVE  \E r : run' = [run EXCEPT ![s] = r] /\ KeptBy(r)'
        BY <1>3, <2>3, MoveItemKeeps, RestoreKeeps, ShelveKeeps, UnshelveKeeps
    <2> QED
        BY <1>3, <2>1, <2>2, <2>3, LookKeeps, UndoKeeps, UnarchiveKeeps, RetireKeeps
<1> QED
    BY <1>1, <1>2, <1>4, MoverGoesOn

LEMMA OtherStepKeeps ==
    ASSUME StreamTypes, KeptInv, NEW s \in Sessions,
           \/ \E n \in Names : Create(s, n) \/ Complete(s, n) \/ SetStream(s, n)
           \/ ClearStream(s) \/ OtherCommand(s) \/ CreateBegins(s) \/ MakeRoot(s) \/ Migrate(s) \/ Make(s)
           \/ CompleteBegins(s) /\ archives' = archives
           \/ KillRun(s) /\ ~Moving(s)
    PROVE  KeptInv'
<1>1. UNCHANGED <<flat, archives, lost>>
    BY Zenon DEF Create, Complete, OtherCommand, Launched, SetStream, ClearStream, CreateBegins, MakeRoot, Migrate,
       Make, CompleteBegins, KillRun
<1>2. UNCHANGED crossed /\ (killed' <=> killed)
    <2>1. CASE CompleteBegins(s) /\ archives' = archives
        <3>1. archives \in Seq(Shelves)
            BY DEF StreamTypes
        <3>2. [name |-> run[s].name, dir |-> Empty] \in Shelves
            <4>1. run[s].at = "complete"
                BY <2>1 DEF CompleteBegins
            <4> QED
                BY <4>1, NoStreamIsNone DEF StreamTypes, RunOK, Shelves
        <3>3. archives' # Append(archives, [name |-> run[s].name, dir |-> Empty])
            BY <2>1, <3>1, <3>2, AppendProperties, LenProperties
        <3> QED
            BY <2>1, <3>3, CompleteIs, Zenon DEF CompleteBegins
    <2>2. CASE KillRun(s) /\ ~Moving(s)
        BY <2>2, Zenon DEF KillRun
    <2>3. CASE \/ \E n \in Names : Create(s, n) \/ Complete(s, n) \/ SetStream(s, n)
               \/ ClearStream(s) \/ OtherCommand(s) \/ CreateBegins(s) \/ MakeRoot(s) \/ Migrate(s) \/ Make(s)
        <3>1. UNCHANGED <<crossed, killed>>
            BY <2>3, Zenon DEF Create, Complete, OtherCommand, Launched, SetStream, ClearStream, CreateBegins,
               MakeRoot, Migrate, Make
        <3> QED
            BY <3>1
    <2> QED
        BY <2>1, <2>2, <2>3
<1>3. \A n \in Names : /\ Exists(n) => Exists(n)'
                       /\ \A i \in Items : streams'[n][i] = 1 <=> streams[n][i] = 1
    <2>1. CASE Make(s)
        BY <2>1, MakeIs
    <2>2. CASE ~Make(s)
        <3>1. UNCHANGED streams
            BY <2>2, Zenon DEF Create, Complete, OtherCommand, Launched, SetStream, ClearStream, CreateBegins,
               MakeRoot, Migrate, CompleteBegins, KillRun
        <3> QED
            BY <3>1 DEF Exists
    <2> QED
        BY <2>1, <2>2
<1>4. ~Moving(s) /\ ~Moving(s)' /\ \A t \in Sessions \ {s} : run'[t] = run[t]
    <2>1. run \in [Sessions -> Runs]
        BY DEF StreamTypes
    <2>2. ~Moving(s)
        BY Zenon DEF Create, Complete, OtherCommand, Launched, SetStream, ClearStream, CreateBegins, MakeRoot,
           Migrate, Make, CompleteBegins, Moving
    <2>3. \/ UNCHANGED run
          \/ \E r \in Runs : /\ run' = [run EXCEPT ![s] = r]
                             /\ r.at \in {"create", "complete", "end", "make", "migrate", "root", "main"}
        <3>1. ASSUME NEW n \in Names, Create(s, n) \/ Complete(s, n) \/ SetStream(s, n)
              PROVE  \/ UNCHANGED run
                     \/ \E r \in Runs : /\ run' = [run EXCEPT ![s] = r]
                                        /\ r.at \in {"create", "complete", "end"}
            <4>1. [NoRun EXCEPT !.at = "create", !.name = n] \in Runs
                BY DEF NoRun, Runs, Labels, Some
            <4>2. [NoRun EXCEPT !.at = "complete", !.name = n] \in Runs
                BY DEF NoRun, Runs, Labels, Some
            <4>3. [NoRun EXCEPT !.at = "create", !.name = n].at = "create"
                BY DEF NoRun
            <4>4. [NoRun EXCEPT !.at = "complete", !.name = n].at = "complete"
                BY DEF NoRun
            <4> QED
                BY <3>1, <4>1, <4>2, <4>3, <4>4, Zenon DEF Create, Complete, SetStream, Launched
        <3>2. CASE OtherCommand(s) \/ (KillRun(s) /\ ~Moving(s))
            <4>1. NoRun \in Runs /\ NoRun.at = "end"
                BY DEF NoRun, Runs, Labels, Some
            <4> QED
                BY <3>2, <4>1 DEF OtherCommand, Launched, KillRun
        <3>3. ASSUME NEW l \in {"end", "make", "migrate", "root", "main"}, Goes(s, l)
              PROVE  \E r \in Runs : run' = [run EXCEPT ![s] = r] /\ r.at = l
            <4>1. PICK r : r = [run[s] EXCEPT !.at = l]
                OBVIOUS
            <4>2. r \in Runs /\ r.at = l
                BY <2>1, <4>1 DEF Runs, Labels
            <4> QED
                BY <3>3, <4>1, <4>2 DEF Goes
        <3>4. CASE CreateBegins(s) \/ MakeRoot(s) \/ Migrate(s) \/ Make(s)
            <4>1. \E l \in {"end", "make", "migrate", "root", "main"} : Goes(s, l)
                BY <3>4 DEF CreateBegins, MakeRoot, Migrate, Make
            <4> QED
                BY <3>3, <4>1
        <3>5. CASE CompleteBegins(s) /\ archives' = archives
            <4>1. archives \in Seq(Shelves) /\ run[s].at = "complete"
                BY <3>5 DEF StreamTypes, CompleteBegins
            <4>2. [name |-> run[s].name, dir |-> Empty] \in Shelves
                BY <4>1, NoStreamIsNone DEF StreamTypes, RunOK, Shelves
            <4>3. archives' # Append(archives, [name |-> run[s].name, dir |-> Empty])
                BY <3>5, <4>1, <4>2, AppendProperties, LenProperties
            <4>4. Goes(s, "end")
                BY <3>5, <4>3 DEF CompleteBegins
            <4> QED
                BY <3>3, <4>4
        <3>6. CASE ClearStream(s)
            BY <3>6 DEF ClearStream
        <3> QED
            BY <3>1, <3>2, <3>4, <3>5, <3>6
    <2> QED
        BY <2>1, <2>2, <2>3 DEF Moving
<1>5. \A t \in Sessions : /\ Migrates(run[t]) => run[t].into \in Names
                          /\ Archives(run[t]) => run[t].name \in Names
    BY DEF StreamTypes, RunOK, Migrates, Archives
<1> QED
    BY <1>1, <1>2, <1>3, <1>4, <1>5, StillKeeps

LEMMA StreamStepKeeps ==
    ASSUME StreamTypes, KeptInv, NEW s \in Sessions, StreamStep(s)
    PROVE  KeptInv'
<1>1. SUFFICES ASSUME ~lost', ~crossed' PROVE KeptInv'
    BY DEF KeptInv
<1>2. CASE KillRun(s) /\ Moving(s)
    <2>1. Alone(s) /\ ~lost /\ ~crossed
        <3>1. UNCHANGED <<lost, crossed>>
            BY <1>2 DEF KillRun
        <3> QED
            BY <1>1, <1>2, <3>1 DEF KeptInv, Alone
    <2> QED
        BY <1>2, <2>1, KillKeeps, MoverGoesOn
<1>3. CASE ~(KillRun(s) /\ Moving(s))
    BY <1>1, <1>3, MoverStepKeeps, OtherStepKeeps DEF StreamStep
<1> QED
    BY <1>2, <1>3

LEMMA StreamInitKeeps == StreamsInit => KeptInv
<1> SUFFICES ASSUME StreamsInit PROVE KeptInv
    OBVIOUS
<1>1. \A s \in Sessions : run[s] = NoRun /\ ~Moving(s)
    BY Zenon DEF StreamsInit, Moving, NoRun
<1>2. ~Migrates(NoRun) /\ ~Archives(NoRun)
    BY DEF NoRun, Migrates, Archives
<1>3. archives = <<>> /\ Len(archives) = 0 /\ \A i \in Items : flat[i] = 1
    BY DEF StreamsInit
<1>4. \A n \in Names : \A i \in Items : streams[n][i] = -1
    BY DEF StreamsInit, NoStream
<1>5. KeptBy(NoRun)
    BY <1>2, <1>3, <1>4 DEF KeptBy, TrackedBy, SplitBy, Somewhere, Whole
<1> QED
    BY <1>1, <1>5 DEF KeptInv

LEMMA KeptHolds == StreamsSpec => []KeptInv
<1>1. StreamTypes /\ KeptInv /\ [StreamsNext]_streamVars => KeptInv'
    <2> SUFFICES ASSUME StreamTypes, KeptInv, [StreamsNext]_streamVars PROVE KeptInv'
        OBVIOUS
    <2>1. CASE UNCHANGED streamVars
        BY <2>1 DEF KeptInv, KeptBy, TrackedBy, SplitBy, Somewhere, Whole, Moving, Alone, Exists, streamVars
    <2> QED
        BY <2>1, StreamStepKeeps DEF StreamsNext
<1> QED
    BY <1>1, StreamTypesHold, StreamInitKeeps, PTL DEF StreamsSpec

\* Workstreams.StreamsKeepWork: the project's own files are somewhere, and all in
\* one directory while nothing is moved, for any number of sessions, commands and
\* faults, unless a file could not be moved back or two commands moved files at
\* once, or into one directory.
THEOREM WorkIsNotLost == StreamsSpec => []StreamsKeepWork
<1>1. ASSUME KeptInv, StreamTypes, NEW i \in Items, Somewhere(i) PROVE \E d \in Places : d[i] = 1
    <2>1. DOMAIN archives = 1 .. Len(archives)
        BY <1>1 DEF StreamTypes
    <2> QED
        BY <1>1, <2>1 DEF Somewhere, Places
<1>2. ASSUME KeptInv, StreamTypes, ~lost, ~crossed PROVE \E r : KeptBy(r)
    <2>1. CASE \E s \in Sessions : Moving(s)
        <3>1. PICK s \in Sessions : Moving(s)
            BY <2>1
        <3>2. Alone(s)
            BY <1>2, <3>1 DEF KeptInv, Alone
        <3> QED
            BY <1>2, <3>2 DEF KeptInv
    <2> QED
        BY <1>2, <2>1 DEF KeptInv
<1>3. KeptInv /\ StreamTypes => WorkIsKept
    BY <1>1, <1>2 DEF WorkIsKept, KeptBy
<1>4. ASSUME KeptInv, StreamTypes, ~lost, ~crossed, ~killed, \A s \in Sessions : ~Moving(s),
             NEW d \in Places, NEW i \in Items, d[i] = 1, NEW j \in Items
      PROVE  d[j] = 1
    <2>1. ~Migrates(NoRun) /\ ~Archives(NoRun)
        BY DEF NoRun, Migrates, Archives
    <2>2. SplitBy(NoRun)
        BY <1>4 DEF KeptInv, KeptBy
    <2>3. Whole(flat) /\ (\A n \in Names : Whole(streams[n])) /\ \A k \in 1 .. Len(archives) : Whole(archives[k].dir)
        BY <2>1, <2>2 DEF SplitBy
    <2>4. DOMAIN archives = 1 .. Len(archives)
        BY <1>4 DEF StreamTypes
    <2>5. Whole(d)
        BY <1>4, <2>3, <2>4 DEF Places
    <2> QED
        BY <1>4, <2>5 DEF Whole
<1>5. KeptInv /\ StreamTypes => WorkIsTogether
    BY <1>4 DEF WorkIsTogether
<1>6. KeptInv /\ StreamTypes => StreamsKeepWork
    BY <1>3, <1>5 DEF StreamsKeepWork
<1> QED
    BY <1>6, KeptHolds, StreamTypesHold, PTL

-----------------------------------------------------------------------------
(* What the type invariant of the model asks for besides: no item is from   *)
(* a run that did not happen, and workstreams/ is there as long as one of   *)
(* the workstreams is.                                                      *)

Low(d) == \A i \in Items : d[i] <= runs + 1
LowInv ==
    /\ Low(flat) /\ \A n \in Names : Low(streams[n])
    /\ \A k \in 1 .. Len(archives) : Low(archives[k].dir)
RootInv == \A n \in Names : Exists(n) => wsRoot
LimitsInv == LowInv /\ RootInv /\ runs <= MaxRuns /\ faults \in 0 .. MaxFaults

LEMMA CountersLimited ==
    ASSUME StreamTypes, LimitsInv, NEW s \in Sessions, StreamStep(s)
    PROVE  runs' <= MaxRuns /\ runs' >= runs /\ faults' \in 0 .. MaxFaults
<1> USE RunAssumption DEF LimitsInv, StreamTypes
<1>1. ASSUME NEW n \in Names, Create(s, n) \/ Complete(s, n) \/ SetStream(s, n)
      PROVE  runs' <= MaxRuns /\ runs' >= runs /\ faults' \in 0 .. MaxFaults
    BY <1>1 DEF Create, Complete, SetStream, Launched
<1>2. CASE ClearStream(s) \/ OtherCommand(s)
    BY <1>2 DEF ClearStream, OtherCommand, Launched
<1>3. CASE CreateBegins(s) \/ MakeRoot(s) \/ Migrate(s) \/ MakeMain(s) \/ Look(s)
    BY <1>3 DEF CreateBegins, MakeRoot, Migrate, MakeMain, Look
<1>4. CASE Undo(s) \/ Make(s) \/ CompleteBegins(s) \/ Unarchive(s) \/ Retire(s)
    BY <1>4 DEF Undo, Make, CompleteBegins, Unarchive, Retire
<1>5. ASSUME NEW ok \in BOOLEAN, MoveItem(s, ok) \/ Restore(s, ok) \/ Shelve(s, ok) \/ Unshelve(s, ok)
      PROVE  runs' <= MaxRuns /\ runs' >= runs /\ faults' \in 0 .. MaxFaults
    <2>1. runs' = runs
        BY <1>5 DEF MoveItem, Restore, Shelve, Unshelve
    <2>2. faults' = faults \/ (faults' = faults + 1 /\ faults < MaxFaults)
        BY <1>5 DEF MoveItem, Restore, Shelve, Unshelve
    <2> QED
        BY <2>1, <2>2
<1>6. CASE KillRun(s)
    BY <1>6 DEF KillRun
<1> QED
    BY <1>1, <1>2, <1>3, <1>4, <1>5, <1>6 DEF StreamStep

\* The directory workstreams/ goes with the last of them.
LEMMA RootStep ==
    ASSUME StreamTypes, RootInv, NEW s \in Sessions, StreamStep(s)
    PROVE  RootInv'
<1>1. \A n \in Names : \/ Exists(n)' <=> Exists(n)
                       \/ Exists(n)' /\ run[s].at \in {"make", "main"}
                       \/ ~Exists(n)'
    BY StreamStepTypes DEF Effect
<1>2. CASE wsRoot'
    BY <1>2 DEF RootInv
<1>3. CASE wsRoot' = wsRoot /\ run[s].at \notin {"make", "main"}
    BY <1>1, <1>3 DEF RootInv
<1>4. ASSUME Undo(s) \/ Retire(s) PROVE RootInv'
    <2>1. PICK n : \/ streams' = [streams EXCEPT ![n] = NoStream] /\ (Others(n) => wsRoot')
                   \/ wsRoot'
        <3>1. CASE Undo(s)
            BY <3>1 DEF Undo
        <3>2. CASE Retire(s)
            <4> DEFINE gone == Exists(run[s].name) => streams[run[s].name] = Empty
            <4>1. /\ wsRoot' = (Others(run[s].name) \/ ~gone)
                  /\ gone => streams' = [streams EXCEPT ![run[s].name] = NoStream]
                BY <3>2 DEF Retire
            <4>2. CASE ~gone
                BY <4>1, <4>2
            <4>3. CASE gone
                <5>1. Others(run[s].name) => wsRoot'
                    BY <4>1, <4>3
                <5>2. streams' = [streams EXCEPT ![run[s].name] = NoStream]
                    BY <4>1, <4>3
                <5> QED
                    BY <5>1, <5>2
            <4> QED
                BY <4>2, <4>3
        <3> QED
            BY <1>4, <3>1, <3>2
    <2>2. CASE streams' = [streams EXCEPT ![n] = NoStream] /\ (Others(n) => wsRoot')
        <3>1. \A m \in Names : Exists(m)' => m # n /\ Exists(m)
            BY <2>2 DEF Exists, StreamTypes
        <3> QED
            BY <2>2, <3>1 DEF Others, RootInv
    <2> QED
        BY <1>2, <2>1, <2>2
<1>5. ASSUME NEW n \in Names, Create(s, n) \/ Complete(s, n) \/ SetStream(s, n) PROVE RootInv'
    BY <1>3, <1>5 DEF Create, Complete, SetStream, Launched
<1>6. CASE ClearStream(s) \/ OtherCommand(s)
    BY <1>3, <1>6 DEF ClearStream, OtherCommand, Launched
<1>7. CASE CreateBegins(s) \/ MakeRoot(s) \/ Migrate(s) \/ Look(s)
    BY <1>2, <1>3, <1>7 DEF CreateBegins, MakeRoot, Migrate, Look
<1>8. CASE MakeMain(s) \/ Make(s)
    BY <1>2, <1>8 DEF MakeMain, Make
<1>9. CASE CompleteBegins(s) \/ Unarchive(s)
    BY <1>3, <1>9 DEF CompleteBegins, Unarchive
<1>10. ASSUME NEW ok \in BOOLEAN, MoveItem(s, ok) \/ Restore(s, ok) \/ Shelve(s, ok) \/ Unshelve(s, ok)
       PROVE  RootInv'
    <2>1. CASE MoveItem(s, ok)
        BY <1>3, <2>1, Zenon DEF MoveItem
    <2>2. CASE Restore(s, ok)
        BY <1>3, <2>2, Zenon DEF Restore
    <2>3. CASE Shelve(s, ok)
        BY <1>3, <2>3, Zenon DEF Shelve
    <2>4. CASE Unshelve(s, ok)
        BY <1>3, <2>4, Zenon DEF Unshelve
    <2> QED
        BY <1>10, <2>1, <2>2, <2>3, <2>4
<1>11. CASE KillRun(s)
    <2>1. UNCHANGED <<wsRoot, streams>>
        BY <1>11 DEF KillRun
    <2> QED
        BY <2>1 DEF RootInv, Exists
<1> QED
    BY <1>4, <1>5, <1>6, <1>7, <1>8, <1>9, <1>10, <1>11 DEF StreamStep

\* Every item is where it was, moved, gone or made by the run at work.
LEMMA LowStep ==
    ASSUME StreamTypes, LimitsInv, NEW s \in Sessions, StreamStep(s)
    PROVE  LowInv'
<1> DEFINE r == run[s]
<1>1. /\ runs \in Nat /\ runs' \in Nat /\ runs' >= runs
      /\ StreamTypes' /\ Len(archives) \in Nat /\ Len(archives') \in Nat
    <2>1. runs' \in Nat /\ StreamTypes' /\ runs \in Nat
        BY StreamStepTypes DEF StreamTypes
    <2> QED
        BY <2>1, CountersLimited, LenProperties DEF StreamTypes
<1>2. /\ flat \in [Items -> Int] /\ \A n \in Names : streams[n] \in [Items -> Int]
      /\ \A k \in 1 .. Len(archives) : archives[k].dir \in [Items -> Int]
      /\ r \in Runs
    <2>1. Dirs \cup {NoStream} \subseteq [Items -> Int]
        BY DEF Dirs, NoStream
    <2>2. \A k \in 1 .. Len(archives) : archives[k] \in Shelves
        BY ElementOfSeq DEF StreamTypes
    <2> QED
        BY <2>1, <2>2 DEF StreamTypes, Shelves
<1>3. LowInv
    BY DEF LimitsInv
<1>4. \A d \in [Items -> Int] : Low(d) => Low(d)'
    <2> SUFFICES ASSUME NEW d \in [Items -> Int], Low(d), NEW i \in Items PROVE d[i] <= runs' + 1
        BY DEF Low
    <2>1. d[i] \in Int /\ d[i] <= runs + 1
        BY DEF Low
    <2> QED
        BY <1>1, <2>1
<1>a. ASSUME UNCHANGED flat PROVE Low(flat)'
    <2>1. Low(flat)
        BY <1>3 DEF LowInv
    <2>2. \A i \in Items : flat[i] <= runs' + 1
        BY <1>2, <1>4, <2>1 DEF Low
    <2> QED
        BY <1>a, <2>2 DEF Low
<1>b. ASSUME NEW n \in Names, streams'[n] = streams[n] PROVE Low(streams[n])'
    <2>1. Low(streams[n])
        BY <1>3 DEF LowInv
    <2>2. \A i \in Items : streams[n][i] <= runs' + 1
        BY <1>2, <1>4, <2>1 DEF Low
    <2> QED
        BY <1>b, <2>2 DEF Low
<1>c. ASSUME NEW k \in 1 .. Len(archives), archives'[k] = archives[k] PROVE Low(archives[k].dir)'
    <2>1. Low(archives[k].dir)
        BY <1>3 DEF LowInv
    <2>2. \A i \in Items : archives[k].dir[i] <= runs' + 1
        BY <1>2, <1>4, <2>1 DEF Low
    <2> QED
        BY <1>c, <2>2 DEF Low
<1>d. \A d \in [Items -> Int], i \in Items, v \in Int :
          Low(d)' /\ v <= runs' + 1 => \A j \in Items : [d EXCEPT ![i] = v][j] <= runs' + 1
    BY DEF Low
<1>e. \A i \in Items : /\ flat[i] \in Int /\ flat[i] <= runs' + 1
                       /\ \A n \in Names : streams[n][i] \in Int /\ streams[n][i] <= runs' + 1
                       /\ \A k \in 1 .. Len(archives) :
                             archives[k].dir[i] \in Int /\ archives[k].dir[i] <= runs' + 1
    BY <1>2, <1>3, <1>4 DEF LowInv, Low
<1>f. ASSUME UNCHANGED <<flat, streams, archives>> PROVE LowInv'
    BY <1>a, <1>b, <1>c, <1>f DEF LowInv
<1>g. ASSUME NEW n \in Names, NEW d \in [Items -> Int], \A i \in Items : d[i] <= runs' + 1,
             streams' = [streams EXCEPT ![n] = d], UNCHANGED <<flat, archives>>
      PROVE  LowInv'
    <2>1. streams'[n] = d /\ \A m \in Names \ {n} : streams'[m] = streams[m]
        BY <1>g DEF StreamTypes
    <2>2. Low(streams[n])'
        BY <1>g, <2>1 DEF Low
    <2> QED
        BY <1>a, <1>b, <1>c, <1>g, <2>1, <2>2 DEF LowInv
<1>h. Empty \in [Items -> Int] /\ NoStream \in [Items -> Int]
      /\ \A i \in Items : Empty[i] <= runs' + 1 /\ NoStream[i] <= runs' + 1
    <2>1. \A i \in Items : Empty[i] = 0 /\ NoStream[i] \in Int /\ NoStream[i] <= 0
        BY DEF Empty, NoStream
    <2>2. runs' \in Nat
        BY <1>1
    <2>3. Empty \in [Items -> Int] /\ NoStream \in [Items -> Int]
        BY DEF Empty, NoStream
    <2> QED
        BY <2>1, <2>2, <2>3
<1>i. /\ r.at \in {"look", "move", "restore"} => r.into \in Names
      /\ (r.at # "end" => r.name \in Names)
      /\ (r.at \in {"shelve", "unshelve"} => r.archive \in 1 .. Len(archives))
    BY DEF StreamTypes, RunOK
<1>j. ASSUME NEW n \in Names, NEW d, streams' = [streams EXCEPT ![n] = d],
              \A i \in Items : d[i] <= runs' + 1
       PROVE  \A m \in Names : Low(streams[m])'
    <2>1. streams'[n] = d /\ \A m \in Names \ {n} : streams'[m] = streams[m]
        BY <1>j DEF StreamTypes
    <2>2. Low(streams[n])'
        BY <1>j, <2>1 DEF Low
    <2> QED
        BY <1>b, <2>1, <2>2
<1>k. ASSUME NEW a \in 1 .. Len(archives), NEW d, archives'[a].dir = d, Len(archives') = Len(archives),
              \A i \in Items : d[i] <= runs' + 1,
              \A k \in 1 .. Len(archives) : k # a => archives'[k] = archives[k],
              UNCHANGED flat, \A n \in Names : Low(streams[n])'
       PROVE  LowInv'
    <2>1. Low(archives[a].dir)'
        BY <1>k DEF Low
    <2>2. \A k \in 1 .. Len(archives') : Low(archives[k].dir)'
        <3> SUFFICES ASSUME NEW k \in 1 .. Len(archives') PROVE Low(archives[k].dir)'
            OBVIOUS
        <3>1. CASE k = a
            BY <2>1, <3>1
        <3>2. CASE k # a
            BY <1>k, <1>c, <3>2
        <3> QED
            BY <3>1, <3>2
    <2> QED
        BY <1>k, <1>a, <2>2 DEF LowInv
<1>5. ASSUME NEW n \in Names, Create(s, n) \/ Complete(s, n) \/ SetStream(s, n) PROVE LowInv'
    BY <1>5, <1>f DEF Create, Complete, SetStream, Launched
<1>6. CASE ClearStream(s) \/ OtherCommand(s)
    BY <1>6, <1>f DEF ClearStream, OtherCommand, Launched
<1>7. CASE CreateBegins(s) \/ MakeRoot(s) \/ Migrate(s) \/ Look(s) \/ KillRun(s)
    BY <1>7, <1>f DEF CreateBegins, MakeRoot, Migrate, Look, KillRun
<1>8. CASE MakeMain(s)
    <2>1. UNCHANGED <<flat, archives>>
        BY <1>8 DEF MakeMain
    <2>2. streams' = [streams EXCEPT ![Main] = IF Exists(Main) THEN streams[Main] ELSE Empty]
        BY <1>8 DEF MakeMain
    <2>3. PICK d : d = IF Exists(Main) THEN streams[Main] ELSE Empty
        OBVIOUS
    <2>4. d \in [Items -> Int] /\ \A i \in Items : d[i] <= runs' + 1
        BY <1>2, <1>e, <1>h, <2>3, NameAssumption
    <2> QED
        BY <1>g, <2>1, <2>2, <2>3, <2>4, NameAssumption
<1>9. CASE Undo(s) \/ Retire(s)
    <2>1. UNCHANGED <<flat, archives>> /\ r.at \in {"restore", "shelve"}
        BY <1>9 DEF Undo, Retire
    <2>2. PICK n \in Names : streams' = streams \/ streams' = [streams EXCEPT ![n] = NoStream]
        <3>1. CASE Undo(s)
            <4>1. streams' = [streams EXCEPT ![r.into] = NoStream] /\ r.at = "restore"
                BY <3>1 DEF Undo
            <4> QED
                BY <1>i, <4>1
        <3>2. CASE Retire(s)
            <4>1. /\ streams' = streams \/ streams' = [streams EXCEPT ![r.name] = NoStream]
                  /\ r.at = "shelve"
                BY <3>2 DEF Retire
            <4> QED
                BY <1>i, <4>1
        <3> QED
            BY <1>9, <3>1, <3>2
    <2> QED
        BY <1>f, <1>g, <1>h, <2>1, <2>2
<1>10. CASE Make(s)
    <2> DEFINE n == run[s].name
               old == IF Exists(n) THEN streams[n] ELSE Empty
               new(i) == IF Holds(old, i) THEN old[i] ELSE runs + 1
    <2>1. /\ UNCHANGED <<flat, archives, runs>> /\ n \in Names
          /\ streams' = [streams EXCEPT ![n] = [old EXCEPT !["STATE"] = new("STATE"),
                                                           !["phases"] = new("phases")]]
        <3>1. r.at = "make" /\ n \in Names
            BY <1>10, <1>i DEF Make
        <3>2. UNCHANGED <<flat, archives, runs>>
            BY <1>10 DEF Make
        <3>3. streams' = [streams EXCEPT ![n] = [old EXCEPT !["STATE"] = new("STATE"),
                                                            !["phases"] = new("phases")]]
            BY <1>10, Zenon DEF Make
        <3> QED
            BY <3>1, <3>2, <3>3, Zenon
    <2>2. old \in [Items -> Int] /\ \A i \in Items : old[i] <= runs + 1
        BY <1>2, <1>e, <1>h, <2>1
    <2> HIDE DEF old
    <2>3. \A i \in Items : new(i) \in Int /\ new(i) <= runs + 1
        BY <1>1, <2>2
    <2>4. "STATE" \in Items /\ "phases" \in Items
        BY DEF Items
    <2>5. PICK u, v : u = new("STATE") /\ v = new("phases")
        OBVIOUS
    <2>6. u \in Int /\ v \in Int /\ u <= runs + 1 /\ v <= runs + 1
        BY <2>3, <2>4, <2>5
    <2> HIDE DEF old, new
    <2>7. PICK d : d = [old EXCEPT !["STATE"] = u, !["phases"] = v]
        OBVIOUS
    <2>8. d \in [Items -> Int] /\ \A i \in Items : d[i] <= runs + 1
        BY <2>2, <2>4, <2>6, <2>7
    <2> QED
        BY <1>g, <2>1, <2>5, <2>7, <2>8
<1>11. ASSUME NEW ok \in BOOLEAN, MoveItem(s, ok) PROVE LowInv'
    <2>1. UNCHANGED archives /\ r.into \in Names
        BY <1>11, <1>i DEF MoveItem
    <2>2. CASE ~ok
        <3>1. UNCHANGED <<flat, streams>>
            BY <1>11, <2>2, MoveItemIs, Zenon
        <3> QED
            BY <1>f, <2>1, <3>1
    <2>3. CASE ok
        <3>1. PICK i \in Items :
                  /\ streams' = [streams EXCEPT ![r.into] = [streams[r.into] EXCEPT ![i] = flat[i]]]
                  /\ flat' = [flat EXCEPT ![i] = 0]
            BY <1>11, <2>3, MoveItemIs, Zenon
        <3>2. PICK d : d = [streams[r.into] EXCEPT ![i] = flat[i]]
            OBVIOUS
        <3>3. \A j \in Items : d[j] <= runs' + 1
            BY <1>2, <1>e, <2>1, <3>2
        <3>a. streams' = [streams EXCEPT ![r.into] = d]
            BY <3>1, <3>2, Zenon
        <3>4. \A n \in Names : Low(streams[n])'
            BY <1>j, <2>1, <3>3, <3>a
        <3>5. \A j \in Items : flat'[j] <= runs' + 1
            BY <1>1, <1>2, <1>e, <3>1
        <3>6. Low(flat)'
            BY <3>5 DEF Low
        <3> QED
            BY <1>c, <2>1, <3>4, <3>6 DEF LowInv
    <2> QED
        BY <2>2, <2>3
<1>12. ASSUME NEW ok \in BOOLEAN, Restore(s, ok) PROVE LowInv'
    <2>1. UNCHANGED archives /\ r.into \in Names
        BY <1>12, <1>i DEF Restore
    <2>2. PICK i \in Items :
              \/ /\ flat' = [flat EXCEPT ![i] = streams[r.into][i]]
                 /\ streams' = [streams EXCEPT ![r.into] = [streams[r.into] EXCEPT ![i] = 0]]
              \/ UNCHANGED <<flat, streams>>
        BY <1>12, RestoreIs
    <2>3. CASE UNCHANGED <<flat, streams>>
        BY <1>f, <2>1, <2>3
    <2>4. CASE /\ flat' = [flat EXCEPT ![i] = streams[r.into][i]]
               /\ streams' = [streams EXCEPT ![r.into] = [streams[r.into] EXCEPT ![i] = 0]]
        <3>1. PICK d : d = [streams[r.into] EXCEPT ![i] = 0]
            OBVIOUS
        <3>2. \A j \in Items : d[j] <= runs' + 1
            BY <1>1, <1>2, <1>e, <2>1, <3>1
        <3>a. streams' = [streams EXCEPT ![r.into] = d]
            BY <2>4, <3>1, Zenon
        <3>3. \A n \in Names : Low(streams[n])'
            BY <1>j, <2>1, <3>2, <3>a
        <3>4. \A j \in Items : flat'[j] <= runs' + 1
            BY <1>2, <1>e, <2>1, <2>4
        <3>5. Low(flat)'
            BY <3>4 DEF Low
        <3> QED
            BY <1>c, <2>1, <3>3, <3>5 DEF LowInv
    <2> QED
        BY <2>2, <2>3, <2>4
<1>13. CASE CompleteBegins(s)
    <2>1. UNCHANGED <<flat, streams>>
        BY <1>13, CompleteIs, Zenon
    <2>2. CASE archives' = archives
        BY <1>f, <2>1, <2>2
    <2>3. CASE archives' = Append(archives, [name |-> run[s].name, dir |-> Empty])
        <3>1. PICK shelf : shelf = [name |-> run[s].name, dir |-> Empty]
            OBVIOUS
        <3>2. archives' = Append(archives, shelf) /\ shelf.dir = Empty /\ archives \in Seq(Shelves)
            BY <2>3, <3>1 DEF StreamTypes
        <3>3. /\ Len(archives') = Len(archives) + 1 /\ archives'[Len(archives) + 1] = shelf
              /\ \A k \in 1 .. Len(archives) : archives'[k] = archives[k]
            BY <3>2
        <3>4. ASSUME NEW k \in 1 .. Len(archives') PROVE Low(archives[k].dir)'
            <4>1. CASE k \in 1 .. Len(archives)
                BY <1>c, <3>3, <4>1
            <4>2. CASE k = Len(archives) + 1
                BY <1>h, <3>2, <3>3, <4>2 DEF Low
            <4> QED
                BY <1>1, <3>3, <4>1, <4>2
        <3> QED
            BY <1>a, <1>b, <2>1, <3>4 DEF LowInv
    <2> QED
        BY <1>13, <2>2, <2>3, CompleteIs, Zenon
<1>14. ASSUME NEW ok \in BOOLEAN, Shelve(s, ok) PROVE LowInv'
    <2>1. UNCHANGED flat /\ r.name \in Names /\ r.archive \in 1 .. Len(archives)
        BY <1>14, <1>i DEF Shelve
    <2>2. CASE ~ok
        <3>1. UNCHANGED <<archives, streams>>
            BY <1>14, <2>2, ShelveIs, Zenon
        <3> QED
            BY <1>f, <2>1, <3>1
    <2>3. CASE ok
        <3>1. PICK i \in Items :
                  /\ archives'[r.archive].dir = [archives[r.archive].dir EXCEPT ![i] = streams[r.name][i]]
                  /\ \A k \in 1 .. Len(archives) : k # r.archive => archives'[k] = archives[k]
                  /\ Len(archives') = Len(archives)
                  /\ streams' = [streams EXCEPT ![r.name] = [streams[r.name] EXCEPT ![i] = 0]]
            BY <1>14, <2>3, ShelveIs, Zenon
        <3>2. PICK d, e : /\ d = [archives[r.archive].dir EXCEPT ![i] = streams[r.name][i]]
                          /\ e = [streams[r.name] EXCEPT ![i] = 0]
            OBVIOUS
        <3>a. /\ streams[r.name] \in [Items -> Int] /\ archives[r.archive].dir \in [Items -> Int]
              /\ \A j \in Items : /\ streams[r.name][j] <= runs' + 1
                                  /\ archives[r.archive].dir[j] <= runs' + 1
            BY <1>2, <1>e, <2>1
        <3>3. \A j \in Items : d[j] <= runs' + 1
            BY <3>2, <3>a
        <3>4. \A j \in Items : e[j] <= runs' + 1
            <4>1. runs' \in Nat
                BY <1>1
            <4>2. e[i] = 0 /\ \A j \in Items \ {i} : e[j] = streams[r.name][j]
                BY <3>2, <3>a
            <4> QED
                BY <3>a, <4>1, <4>2
        <3> QED
            BY <1>k, <1>j, <2>1, <3>1, <3>2, <3>3, <3>4
    <2> QED
        BY <2>2, <2>3
<1>15. ASSUME NEW ok \in BOOLEAN, Unshelve(s, ok) PROVE LowInv'
    <2>1. UNCHANGED flat /\ r.name \in Names /\ r.archive \in 1 .. Len(archives)
        BY <1>15, <1>i DEF Unshelve
    <2>2. PICK i \in Items :
              \/ UNCHANGED <<archives, streams>>
              \/ /\ streams' = [streams EXCEPT ![r.name] =
                                   [streams[r.name] EXCEPT ![i] = archives[r.archive].dir[i]]]
                 /\ archives'[r.archive].dir = [archives[r.archive].dir EXCEPT ![i] = 0]
                 /\ \A k \in 1 .. Len(archives) : k # r.archive => archives'[k] = archives[k]
                 /\ Len(archives') = Len(archives)
        BY <1>15, UnshelveIs
    <2>3. CASE UNCHANGED <<archives, streams>>
        BY <1>f, <2>1, <2>3
    <2>4. CASE ~UNCHANGED <<archives, streams>>
        <3>1. PICK d, e : /\ d = [archives[r.archive].dir EXCEPT ![i] = 0]
                          /\ e = [streams[r.name] EXCEPT ![i] = archives[r.archive].dir[i]]
            OBVIOUS
        <3>a. /\ streams[r.name] \in [Items -> Int] /\ archives[r.archive].dir \in [Items -> Int]
              /\ \A j \in Items : /\ streams[r.name][j] <= runs' + 1
                                  /\ archives[r.archive].dir[j] <= runs' + 1
            BY <1>2, <1>e, <2>1
        <3>b. /\ d[i] = 0 /\ \A j \in Items \ {i} : d[j] = archives[r.archive].dir[j]
              /\ e[i] = archives[r.archive].dir[i] /\ \A j \in Items \ {i} : e[j] = streams[r.name][j]
            BY <3>1, <3>a
        <3>c. runs' \in Nat
            BY <1>1
        <3>2. \A j \in Items : d[j] <= runs' + 1 /\ e[j] <= runs' + 1
            BY <3>a, <3>b, <3>c
        <3> QED
            BY <1>k, <1>j, <2>1, <2>2, <2>4, <3>1, <3>2
    <2> QED
        BY <2>3, <2>4
<1>16. CASE Unarchive(s)
    <2>1. r.archive \in 1 .. Len(archives)
        BY <1>16, <1>i DEF Unarchive
    <2>2. /\ UNCHANGED <<flat, streams>> /\ archives'[r.archive].dir = Empty
          /\ \A k \in 1 .. Len(archives) : k # r.archive => archives'[k] = archives[k]
          /\ Len(archives') = Len(archives)
        BY <1>16, UnarchiveIs
    <2> QED
        BY <1>k, <1>b, <1>h, <2>1, <2>2
<1> QED
    BY <1>5, <1>6, <1>7, <1>8, <1>9, <1>10, <1>11, <1>12, <1>13, <1>14, <1>15, <1>16 DEF StreamStep

LEMMA LimitsStep == StreamTypes /\ LimitsInv /\ [StreamsNext]_streamVars => LimitsInv'
<1>1. ASSUME StreamTypes, LimitsInv, NEW s \in Sessions, StreamStep(s) PROVE LimitsInv'
    BY <1>1, CountersLimited, RootStep, LowStep DEF LimitsInv
<1>2. ASSUME LimitsInv, UNCHANGED streamVars PROVE LimitsInv'
    BY <1>2 DEF LimitsInv, LowInv, Low, RootInv, Exists, streamVars
<1> QED
    BY <1>1, <1>2 DEF StreamsNext

\* Nothing in any directory is from a run that never was, and no workstream is
\* left without the directory that shows that there are workstreams, whatever
\* fails or is killed.
THEOREM StreamsTyped == StreamsSpec => []StreamsTypeOK
<1>1. StreamsInit => LimitsInv
    <2> SUFFICES ASSUME StreamsInit PROVE LimitsInv
        OBVIOUS
    <2>1. LowInv
        BY DEF StreamsInit, LowInv, Low, NoStream
    <2>2. RootInv
        BY DEF StreamsInit, RootInv, Exists
    <2> QED
        BY <2>1, <2>2, RunAssumption DEF StreamsInit, LimitsInv
<1>2. StreamTypes /\ LimitsInv => StreamsTypeOK
    <2> SUFFICES ASSUME StreamTypes, LimitsInv PROVE StreamsTypeOK
        OBVIOUS
    <2>1. runs \in 0 .. MaxRuns /\ faults \in 0 .. MaxFaults
        BY RunAssumption DEF StreamTypes, LimitsInv
    <2>2. \A d \in Places : d \in Dirs \cup {NoStream} /\ Low(d)
        <3>1. \A k \in DOMAIN archives : archives[k].dir \in Dirs /\ Low(archives[k].dir)
            <4>1. archives \in Seq(Shelves) /\ DOMAIN archives = 1 .. Len(archives)
                BY DEF StreamTypes
            <4>2. \A k \in 1 .. Len(archives) : archives[k] \in Shelves
                BY <4>1, ElementOfSeq
            <4> QED
                BY <4>1, <4>2 DEF LimitsInv, LowInv, Shelves
        <3> QED
            BY <3>1 DEF Places, StreamTypes, LimitsInv, LowInv
    <2>3. ASSUME NEW d \in Places, NEW i \in Items PROVE d[i] \in -1 .. MaxRuns + 1
        <3>1. d[i] \in Nat \cup {-1} /\ d[i] <= runs + 1
            BY <2>2 DEF Dirs, NoStream, Low
        <3> QED
            BY <2>1, <3>1, RunAssumption
    <2> QED
        BY <2>1, <2>3 DEF StreamsTypeOK, LimitsInv, RootInv
<1>3. StreamsInit /\ [][StreamsNext]_streamVars /\ []StreamTypes => []LimitsInv
    BY <1>1, LimitsStep, PTL
<1> QED
    BY <1>2, <1>3, StreamTypesHold, PTL DEF StreamsSpec
=============================================================================
