--------------------------- MODULE RetrievalProofs ---------------------------
(***************************************************************************)
(* What is found and what is shown, for any number of searches, instances, *)
(* readers and records, and whatever fails or dies: the full-text indexes  *)
(* (LexicalIndex), the generations of hybrid search (SourceGenerations),   *)
(* and the passages that a reader is shown (EffectiveReads).               *)
(***************************************************************************)
EXTENDS AccountProofs, SequenceTheorems

-----------------------------------------------------------------------------
(* Full-text indexes *)

IndexFiles == [identity : {"none", "other", "current"}, through : Nat,
               passages : [Indexes!Records -> Nat]]

Searches == [pc : {"start", "entered", "opened", "behind", "ready"} \cup Indexes!Over,
             cutoff : Nat, peeked : Nat, answer : [Indexes!Records -> Nat]]

\* An index of the current identity holds what is logged up to its cursor.
UpToCursor(f) ==
    file[f].identity = "current" =>
        /\ file[f].through <= Len(log)
        /\ file[f].passages = Indexes!Changed(f, 0, file[f].through)

\* A search that is under way holds its instance's lock until its index is as far as its
\* cutoff, and the index stays that far as long as the instance is open.
OnItsWay(c) ==
    /\ call[c].pc \in {"entered", "opened", "behind"} =>
           holder[InstanceOf[c]] = c /\ InstanceOf[c] \notin closed
    /\ call[c].pc \in {"opened", "behind"} => FileOf[c] \in handle[InstanceOf[c]]
    /\ call[c].pc = "ready" /\ InstanceOf[c] \notin closed =>
           /\ FileOf[c] \in handle[InstanceOf[c]]
           /\ call[c].cutoff <= file[FileOf[c]].through
    /\ call[c].pc \notin {"start", "failed"} => call[c].cutoff <= Len(log)
    /\ call[c].pc = "found" =>
           \E n \in call[c].cutoff .. Len(log) : call[c].answer = Indexes!Changed(FileOf[c], 0, n)

IndexesInv ==
    /\ Indexes!TypeOK
    /\ \A f \in Indexes!Files : UpToCursor(f)
    /\ \A f \in Indexes!Files, i \in Instances : f \in handle[i] => file[f].identity = "current"
    /\ \A i \in closed : handle[i] = {}
    /\ \A c \in Calls : OnItsWay(c)

LEMMA IndexType ==
    Indexes!TypeOK <=> /\ log \in Seq(Indexes!Kinds) /\ Len(log) <= MaxLog
                       /\ file \in [Indexes!Files -> IndexFiles]
                       /\ handle \in [Instances -> SUBSET Indexes!Files]
                       /\ closed \subseteq Instances
                       /\ holder \in [Instances -> Calls \cup {Indexes!Nobody}]
                       /\ call \in [Calls -> Searches]
                       /\ trouble \in 0 .. MaxErrors
BY DEF Indexes!TypeOK, IndexFiles, Searches

\* What is logged up to a place in the log does not change when the log grows.
LEMMA ChangedStands ==
    ASSUME log \in Seq(Indexes!Kinds), NEW kind \in Indexes!Kinds, log' = Append(log, kind),
           NEW f, NEW n \in Nat, n <= Len(log)
    PROVE  Indexes!Changed(f, 0, n)' = Indexes!Changed(f, 0, n)
<1>1. \A k \in 1 .. n : log'[k] = log[k]
    OBVIOUS
<1> QED
    BY <1>1 DEF Indexes!Changed, Indexes!Indexed, Indexes!Records

\* What lies between two cursors, added to what lies before them.
LEMMA ChangedJoins ==
    ASSUME NEW f, NEW k \in Nat, NEW n \in Nat
    PROVE  Indexes!With(Indexes!Changed(f, 0, k), Indexes!Changed(f, k, n)) = Indexes!Changed(f, 0, IF n > k THEN n ELSE k)
BY DEF Indexes!With, Indexes!Changed, Indexes!Records

LEMMA ChangedType ==
    ASSUME NEW f, NEW k \in Nat, NEW n \in Nat
    PROVE  Indexes!Changed(f, k, n) \in [Indexes!Records -> Nat]
BY DEF Indexes!Changed, Indexes!Records

LEMMA IndexesInit ==
    ASSUME Indexes!CallsAssumption
    PROVE  Indexes!Init => IndexesInv
<1> SUFFICES ASSUME Indexes!Init PROVE IndexesInv
    OBVIOUS
<1>1. Indexes!Missing \in IndexFiles /\ Indexes!Foreign \in IndexFiles
    BY DEF Indexes!Missing, Indexes!Foreign, Indexes!Nothing, IndexFiles
<1>2. file \in [Indexes!Files -> IndexFiles] /\ \A f \in Indexes!Files : file[f].identity # "current"
    BY <1>1 DEF Indexes!Init, Indexes!Missing, Indexes!Foreign
<1>3. call \in [Calls -> Searches] /\ \A c \in Calls : call[c].pc = "start"
    BY DEF Indexes!Init, Searches, Indexes!Nothing
<1>4. /\ log = <<>> /\ trouble = 0 /\ closed = {} /\ \A i \in Instances : handle[i] = {}
      /\ handle \in [Instances -> SUBSET Indexes!Files] /\ holder \in [Instances -> Calls \cup {Indexes!Nobody}]
    BY DEF Indexes!Init
<1>5. Indexes!TypeOK
    <2>1. trouble \in 0 .. MaxErrors
        BY <1>4 DEF Indexes!CallsAssumption
    <2>2. log \in Seq(Indexes!Kinds) /\ Len(log) <= MaxLog
        BY <1>4 DEF Indexes!CallsAssumption
    <2> QED
        BY <1>2, <1>3, <1>4, <2>1, <2>2, IndexType
<1> QED
    BY <1>2, <1>3, <1>4, <1>5 DEF IndexesInv, UpToCursor, OnItsWay

\* A search that a step of another leaves alone.
LEMMA OthersGoOn ==
    ASSUME NEW d \in Calls, OnItsWay(d), call'[d] = call[d], UNCHANGED <<log, closed>>,
           holder[InstanceOf[d]] = d => holder'[InstanceOf[d]] = d,
           FileOf[d] \in handle[InstanceOf[d]] =>
               /\ FileOf[d] \in handle'[InstanceOf[d]]
               /\ call[d].cutoff <= file[FileOf[d]].through =>
                      call[d].cutoff <= file'[FileOf[d]].through
    PROVE  OnItsWay(d)'
<1>1. ASSUME NEW n \in call[d].cutoff .. Len(log),
             call[d].answer = Indexes!Changed(FileOf[d], 0, n)
      PROVE  /\ n \in call'[d].cutoff .. Len(log')
             /\ call'[d].answer = Indexes!Changed(FileOf[d], 0, n)'
    BY <1>1 DEF Indexes!Changed, Indexes!Indexed
<1> QED
    BY <1>1 DEF OnItsWay

\* The facts that every step of a search starts from.
LEMMA IndexFacts ==
    ASSUME Indexes!CallsAssumption, IndexesInv, NEW c \in Calls
    PROVE  /\ log \in Seq(Indexes!Kinds) /\ Len(log) \in Nat /\ MaxErrors \in Nat
           /\ file \in [Indexes!Files -> IndexFiles] /\ handle \in [Instances -> SUBSET Indexes!Files]
           /\ closed \subseteq Instances /\ holder \in [Instances -> Calls \cup {Indexes!Nobody}]
           /\ call \in [Calls -> Searches] /\ trouble \in 0 .. MaxErrors
           /\ InstanceOf[c] \in Instances /\ FileOf[c] \in Indexes!Files
           /\ \A f \in Indexes!Files, i \in Instances : f \in handle[i] => file[f].identity = "current"
           /\ OnItsWay(c)
BY IndexType DEF Indexes!CallsAssumption, IndexesInv

\* A step that leaves the log and the index files alone keeps what the indexes hold.
LEMMA FilesStand ==
    ASSUME IndexesInv, UNCHANGED <<log, file>>
    PROVE  \A f \in Indexes!Files : UpToCursor(f)'
BY DEF IndexesInv, UpToCursor, Indexes!Changed, Indexes!Indexed

LEMMA PublishStep ==
    ASSUME Indexes!CallsAssumption, IndexesInv, Indexes!Publish
    PROVE  IndexesInv'
<1>1. PICK kind \in Indexes!Kinds : log' = Append(log, kind)
    BY DEF Indexes!Publish
<1>2. /\ log \in Seq(Indexes!Kinds) /\ Len(log) \in Nat /\ Len(log) < MaxLog /\ MaxLog \in Nat
      /\ UNCHANGED <<file, handle, closed, holder, call, trouble>>
    BY IndexType DEF Indexes!Publish, IndexesInv, Indexes!CallsAssumption
<1>3. log' \in Seq(Indexes!Kinds) /\ Len(log') = Len(log) + 1
    BY <1>1, <1>2
<1>4. Indexes!TypeOK'
    BY <1>2, <1>3 DEF IndexesInv, Indexes!TypeOK
<1>5. \A f \in Indexes!Files : UpToCursor(f)'
    <2> SUFFICES ASSUME NEW f \in Indexes!Files, file[f].identity = "current"
                 PROVE  /\ file[f].through <= Len(log')
                        /\ file[f].passages = Indexes!Changed(f, 0, file[f].through)'
        BY <1>2 DEF UpToCursor
    <2>1. file[f].through \in Nat
        BY IndexType DEF IndexesInv, IndexFiles
    <2>2. file[f].through <= Len(log) /\ file[f].passages = Indexes!Changed(f, 0, file[f].through)
        BY DEF IndexesInv, UpToCursor
    <2>3. PICK n \in Nat : n = file[f].through
        BY <2>1
    <2>4. Indexes!Changed(f, 0, n)' = Indexes!Changed(f, 0, n)
        BY <1>1, <1>2, <2>2, <2>3, ChangedStands
    <2>5. file'[f].through = n
        BY <1>2, <2>3
    <2>6. file[f].passages = Indexes!Changed(f, 0, n)'
        BY <2>2, <2>3, <2>4
    <2> QED
        BY <1>2, <1>3, <2>1, <2>2, <2>5, <2>6 DEF Indexes!Changed
<1>6. \A d \in Calls : OnItsWay(d)'
    <2> SUFFICES ASSUME NEW d \in Calls PROVE OnItsWay(d)'
        OBVIOUS
    <2>1. call[d].cutoff \in Nat /\ OnItsWay(d)
        BY IndexType DEF IndexesInv, Searches
    <2>2. ASSUME NEW n \in call[d].cutoff .. Len(log),
                 call[d].answer = Indexes!Changed(FileOf[d], 0, n)
          PROVE  /\ n \in call'[d].cutoff .. Len(log')
                 /\ call'[d].answer = Indexes!Changed(FileOf[d], 0, n)'
        BY <1>1, <1>2, <1>3, <2>1, <2>2, ChangedStands
    <2> QED
        BY <1>2, <1>3, <2>1, <2>2 DEF OnItsWay
<1> QED
    BY <1>2, <1>4, <1>5, <1>6 DEF IndexesInv

\* A step of one search that leaves the indexes alone and the other searches their locks.
LEMMA SearchMoves ==
    ASSUME Indexes!CallsAssumption, IndexesInv, NEW c \in Calls,
           UNCHANGED <<log, file, handle, closed>>,
           call' \in [Calls -> Searches], \A d \in Calls : d # c => call'[d] = call[d],
           holder' \in [Instances -> Calls \cup {Indexes!Nobody}],
           \A d \in Calls : d # c /\ holder[InstanceOf[d]] = d => holder'[InstanceOf[d]] = d,
           trouble' \in 0 .. MaxErrors, OnItsWay(c)'
    PROVE  IndexesInv'
<1>1. Indexes!TypeOK'
    BY DEF IndexesInv, Indexes!TypeOK, Searches
<1>2. \A d \in Calls : OnItsWay(d)'
    BY OthersGoOn DEF IndexesInv
<1> QED
    BY <1>1, <1>2, FilesStand DEF IndexesInv

LEMMA EnterStep ==
    ASSUME Indexes!CallsAssumption, IndexesInv, NEW c \in Calls, Indexes!Enter(c)
    PROVE  IndexesInv'
<1>1. UNCHANGED <<log, file, handle, closed, trouble>> /\ holder[InstanceOf[c]] = Indexes!Nobody
    BY DEF Indexes!Enter
<1>2. CASE InstanceOf[c] \in closed
    <2>1. call' = [call EXCEPT ![c].pc = "failed"] /\ UNCHANGED holder /\ call[c].pc = "start"
        BY <1>2 DEF Indexes!Enter, Indexes!Goto
    <2>2. call' \in [Calls -> Searches] /\ \A d \in Calls : d # c => call'[d] = call[d]
        BY <2>1, IndexFacts DEF Searches, Indexes!Over
    <2>3. call'[c].pc = "failed"
        BY <2>1, IndexFacts DEF Searches
    <2> QED
        BY <1>1, <2>1, <2>2, <2>3, IndexFacts, SearchMoves DEF OnItsWay
<1>3. CASE InstanceOf[c] \notin closed
    <2>1. /\ call' = [call EXCEPT ![c].pc = "entered", ![c].cutoff = Len(log)]
          /\ holder' = [holder EXCEPT ![InstanceOf[c]] = c]
        BY <1>3 DEF Indexes!Enter
    <2>2. call' \in [Calls -> Searches] /\ \A d \in Calls : d # c => call'[d] = call[d]
        BY <2>1, IndexFacts DEF Searches, Indexes!Over
    <2>3. /\ holder' \in [Instances -> Calls \cup {Indexes!Nobody}]
          /\ \A d \in Calls : d # c /\ holder[InstanceOf[d]] = d => holder'[InstanceOf[d]] = d
        BY <1>1, <2>1, IndexFacts DEF Indexes!CallsAssumption
    <2>4. call'[c].pc = "entered" /\ call'[c].cutoff = Len(log) /\ holder'[InstanceOf[c]] = c
        BY <2>1, IndexFacts DEF Searches
    <2>5. OnItsWay(c)'
        BY <1>1, <1>3, <2>4, IndexFacts DEF OnItsWay
    <2> QED
        BY <1>1, <2>2, <2>3, <2>5, IndexFacts, SearchMoves
<1> QED
    BY <1>2, <1>3

LEMMA OpenIndexStep ==
    ASSUME Indexes!CallsAssumption, IndexesInv, NEW c \in Calls, Indexes!OpenIndex(c)
    PROVE  IndexesInv'
<1> DEFINE i == InstanceOf[c]  f == FileOf[c]
<1>1. /\ UNCHANGED <<log, closed, holder, trouble>> /\ call[c].pc = "entered"
      /\ call' = [call EXCEPT ![c].pc = "opened"] /\ handle' = [handle EXCEPT ![i] = @ \cup {f}]
    BY DEF Indexes!OpenIndex, Indexes!Goto
<1>2. /\ holder[i] = c /\ i \notin closed
      /\ call[c].cutoff <= Len(log)
    BY <1>1, IndexFacts DEF OnItsWay
<1>3. call' \in [Calls -> Searches] /\ \A d \in Calls : d # c => call'[d] = call[d]
    BY <1>1, IndexFacts DEF Searches
<1>4. call'[c].pc = "opened" /\ call'[c].cutoff = call[c].cutoff
    BY <1>1, IndexFacts DEF Searches
<1>5. /\ handle' \in [Instances -> SUBSET Indexes!Files] /\ f \in handle'[i]
      /\ \A j \in Instances : handle[j] \subseteq handle'[j] /\ (j # i => handle'[j] = handle[j])
      /\ \A j \in Instances, g \in Indexes!Files : g # f /\ g \in handle'[j] => g \in handle[j]
    BY <1>1, IndexFacts
<1>6. /\ file' \in [Indexes!Files -> IndexFiles]
      /\ \A g \in Indexes!Files : g # f \/ file[g].identity = "current" => file'[g] = file[g]
      /\ file[f].identity # "current" =>
             file'[f] = [identity |-> "current", through |-> 0, passages |-> Indexes!Nothing]
      /\ file'[f].identity = "current"
    <2>1. CASE file[f].identity = "current"
        <3>1. file' = file
            BY <2>1 DEF Indexes!OpenIndex
        <3> QED
            BY <2>1, <3>1, IndexFacts
    <2>2. CASE file[f].identity # "current"
        <3>1. f \notin handle[i]
            BY <2>2, IndexFacts
        <3>2. file' = [file EXCEPT ![f] = [Indexes!Missing EXCEPT !.identity = "current"]]
            BY <2>2, <3>1 DEF Indexes!OpenIndex
        <3>3. [Indexes!Missing EXCEPT !.identity = "current"] =
                  [identity |-> "current", through |-> 0, passages |-> Indexes!Nothing]
            BY DEF Indexes!Missing
        <3>4. [identity |-> "current", through |-> 0, passages |-> Indexes!Nothing] \in IndexFiles
            BY DEF IndexFiles, Indexes!Nothing
        <3> QED
            BY <2>2, <3>2, <3>3, <3>4, IndexFacts
    <2> QED
        BY <2>1, <2>2
<1>7. Indexes!TypeOK'
    BY <1>1, <1>3, <1>5, <1>6 DEF IndexesInv, Indexes!TypeOK, IndexFiles, Searches
<1>8. \A g \in Indexes!Files : UpToCursor(g)'
    <2> SUFFICES ASSUME NEW g \in Indexes!Files PROVE UpToCursor(g)'
        OBVIOUS
    <2>1. CASE g = f /\ file[f].identity # "current"
        <3>1. Indexes!Nothing = Indexes!Changed(g, 0, 0)'
            BY DEF Indexes!Nothing, Indexes!Changed
        <3> QED
            BY <1>1, <1>6, <2>1, <3>1, IndexFacts DEF UpToCursor, Indexes!Changed
    <2>2. CASE g # f \/ file[f].identity = "current"
        BY <1>1, <1>6, <2>2 DEF IndexesInv, UpToCursor, Indexes!Changed, Indexes!Indexed
    <2> QED
        BY <2>1, <2>2
<1>9. \A d \in Calls : OnItsWay(d)'
    <2>1. OnItsWay(c)'
        BY <1>1, <1>2, <1>4, <1>5 DEF OnItsWay
    <2>2. ASSUME NEW d \in Calls, d # c PROVE OnItsWay(d)'
        <3>1. FileOf[d] \in handle[InstanceOf[d]] =>
                  FileOf[d] \in handle'[InstanceOf[d]] /\ file'[FileOf[d]] = file[FileOf[d]]
            BY <1>5, <1>6, <2>2, IndexFacts
        <3> QED
            BY <1>1, <1>3, <2>2, <3>1, IndexFacts, OthersGoOn
    <2> QED
        BY <2>1, <2>2
<1>10. \A g \in Indexes!Files, j \in Instances : g \in handle'[j] => file'[g].identity = "current"
    BY <1>5, <1>6, IndexFacts
<1>11. \A j \in closed' : handle'[j] = {}
    BY <1>1, <1>2, <1>5, IndexFacts DEF IndexesInv
<1> QED
    BY <1>7, <1>8, <1>9, <1>10, <1>11 DEF IndexesInv

\* What holds when a search gives up its lock, or keeps it.
LEMMA ReleaseStands ==
    ASSUME Indexes!CallsAssumption, IndexesInv, NEW c \in Calls, holder[InstanceOf[c]] = c,
           Indexes!Release(c) \/ UNCHANGED holder
    PROVE  /\ holder' \in [Instances -> Calls \cup {Indexes!Nobody}]
           /\ \A d \in Calls : d # c /\ holder[InstanceOf[d]] = d => holder'[InstanceOf[d]] = d
BY IndexFacts DEF Indexes!Release

LEMMA PeekStep ==
    ASSUME Indexes!CallsAssumption, IndexesInv, NEW c \in Calls, Indexes!Peek(c)
    PROVE  IndexesInv'
<1> DEFINE through == file[FileOf[c]].through
           step == IF call[c].cutoff <= through THEN "ready" ELSE "behind"
<1>1. /\ UNCHANGED <<log, file, handle, closed, trouble>> /\ call[c].pc = "opened"
      /\ call' = [call EXCEPT ![c].peeked = through, ![c].pc = step]
      /\ call[c].cutoff <= through => Indexes!Release(c)
      /\ ~ (call[c].cutoff <= through) => UNCHANGED holder
    BY DEF Indexes!Peek
<1>2. /\ holder[InstanceOf[c]] = c /\ InstanceOf[c] \notin closed
      /\ FileOf[c] \in handle[InstanceOf[c]] /\ call[c].cutoff <= Len(log)
    BY <1>1, IndexFacts DEF OnItsWay
<1>3. call' \in [Calls -> Searches] /\ \A d \in Calls : d # c => call'[d] = call[d]
    BY <1>1, IndexFacts DEF Searches, IndexFiles
<1>4. call'[c].pc = step /\ call'[c].cutoff = call[c].cutoff
    BY <1>1, IndexFacts DEF Searches
<1>5. OnItsWay(c)'
    BY <1>1, <1>2, <1>4, IndexFacts DEF OnItsWay
<1> QED
    BY <1>1, <1>2, <1>3, <1>5, ReleaseStands, IndexFacts, SearchMoves

LEMMA SearchStep ==
    ASSUME Indexes!CallsAssumption, IndexesInv, NEW c \in Calls, Indexes!Search(c)
    PROVE  IndexesInv'
<1> DEFINE f == FileOf[c]
<1>1. UNCHANGED <<log, file, handle, closed, holder, trouble>> /\ call[c].pc = "ready"
    BY DEF Indexes!Search
<1>2. CASE f \in handle[InstanceOf[c]]
    <2>1. call' = [call EXCEPT ![c].pc = "found", ![c].answer = file[f].passages]
        BY <1>2 DEF Indexes!Search
    <2>2. call' \in [Calls -> Searches] /\ \A d \in Calls : d # c => call'[d] = call[d]
        BY <2>1, IndexFacts DEF Searches, IndexFiles, Indexes!Over
    <2>3. /\ call'[c].pc = "found" /\ call'[c].cutoff = call[c].cutoff
          /\ call'[c].answer = file[f].passages
        BY <2>1, IndexFacts DEF Searches
    <2>4. InstanceOf[c] \notin closed
        BY <1>2 DEF IndexesInv
    <2>5. call[c].cutoff <= file[f].through /\ call[c].cutoff <= Len(log)
        BY <1>1, <2>4, IndexFacts DEF OnItsWay
    <2>6. file[f].through <= Len(log) /\ file[f].passages = Indexes!Changed(f, 0, file[f].through)
        BY <1>2, IndexFacts DEF IndexesInv, UpToCursor
    <2>7. file[f].through \in Nat /\ call[c].cutoff \in Nat
        BY IndexFacts DEF IndexFiles, Searches
    <2>8. PICK n \in call[c].cutoff .. Len(log) : call'[c].answer = Indexes!Changed(f, 0, n)
        BY <2>3, <2>5, <2>6, <2>7, IndexFacts
    <2>9. Indexes!Changed(f, 0, n)' = Indexes!Changed(f, 0, n)
        BY <1>1 DEF Indexes!Changed, Indexes!Indexed
    <2>10. OnItsWay(c)'
        BY <1>1, <2>3, <2>5, <2>8, <2>9 DEF OnItsWay
    <2> QED
        BY <1>1, <2>2, <2>10, IndexFacts, SearchMoves
<1>3. CASE f \notin handle[InstanceOf[c]]
    <2>1. call' = [call EXCEPT ![c].pc = "failed"]
        BY <1>3 DEF Indexes!Search, Indexes!Goto
    <2>2. call' \in [Calls -> Searches] /\ \A d \in Calls : d # c => call'[d] = call[d]
        BY <2>1, IndexFacts DEF Searches, Indexes!Over
    <2>3. call'[c].pc = "failed"
        BY <2>1, IndexFacts DEF Searches
    <2> QED
        BY <1>1, <2>2, <2>3, IndexFacts, SearchMoves DEF OnItsWay
<1> QED
    BY <1>2, <1>3

LEMMA FailStep ==
    ASSUME Indexes!CallsAssumption, IndexesInv, NEW c \in Calls, Indexes!Fail(c)
    PROVE  IndexesInv'
<1>1. /\ UNCHANGED <<log, file, handle, closed>> /\ holder[InstanceOf[c]] = c /\ Indexes!Release(c)
      /\ call' = [call EXCEPT ![c].pc = "failed"]
      /\ trouble < MaxErrors /\ trouble' = trouble + 1
    BY DEF Indexes!Fail, Indexes!Holds, Indexes!Goto
<1>2. call' \in [Calls -> Searches] /\ \A d \in Calls : d # c => call'[d] = call[d]
    BY <1>1, IndexFacts DEF Searches, Indexes!Over
<1>3. call'[c].pc = "failed" /\ trouble' \in 0 .. MaxErrors
    BY <1>1, IndexFacts DEF Searches
<1>4. OnItsWay(c)'
    BY <1>3 DEF OnItsWay
<1> QED
    BY <1>1, <1>2, <1>3, <1>4, ReleaseStands, SearchMoves

LEMMA RefreshStep ==
    ASSUME Indexes!CallsAssumption, IndexesInv, NEW c \in Calls, Indexes!Refresh(c)
    PROVE  IndexesInv'
<1> DEFINE f == FileOf[c]
<1>1. /\ UNCHANGED <<log, handle, closed, trouble>> /\ call[c].pc = "behind" /\ Indexes!Release(c)
      /\ call' = [call EXCEPT ![c].pc = "ready"]
    BY DEF Indexes!Refresh, Indexes!Goto
<1>2. PICK k \in Nat, n \in Nat : k = file[f].through /\ n = call[c].cutoff
    BY IndexFacts DEF IndexFiles, Searches
<1>3. file' = [file EXCEPT ![f].passages = Indexes!With(@, Indexes!Changed(f, k, n)),
                           ![f].through = IF n > @ THEN n ELSE @]
    BY <1>2 DEF Indexes!Refresh
<1>4. /\ holder[InstanceOf[c]] = c /\ InstanceOf[c] \notin closed
      /\ f \in handle[InstanceOf[c]] /\ n <= Len(log)
    BY <1>1, <1>2, IndexFacts DEF OnItsWay
<1>5. /\ file[f].identity = "current" /\ k <= Len(log)
      /\ file[f].passages = Indexes!Changed(f, 0, k)
    BY <1>2, <1>4, IndexFacts DEF IndexesInv, UpToCursor
<1>6. PICK m \in Nat : m = IF n > k THEN n ELSE k
    OBVIOUS
<1>7. Indexes!With(Indexes!Changed(f, 0, k), Indexes!Changed(f, k, n)) = Indexes!Changed(f, 0, m)
    BY <1>6, ChangedJoins
<1>8. Indexes!Changed(f, 0, m) \in [Indexes!Records -> Nat]
    BY ChangedType
<1>9. /\ \A g \in Indexes!Files : g # f => file'[g] = file[g]
      /\ file'[f].identity = "current" /\ file'[f].through = m
      /\ file'[f].passages = Indexes!Changed(f, 0, m)
    BY <1>2, <1>3, <1>5, <1>6, <1>7, IndexFacts DEF IndexFiles
<1>10. file' \in [Indexes!Files -> IndexFiles]
    <2>1. file' = [file EXCEPT ![f] = [@ EXCEPT !.passages = Indexes!Changed(f, 0, m), !.through = m]]
        BY <1>2, <1>3, <1>5, <1>6, <1>7, IndexFacts DEF IndexFiles
    <2>2. [file[f] EXCEPT !.passages = Indexes!Changed(f, 0, m), !.through = m] \in IndexFiles
        BY <1>8, IndexFacts DEF IndexFiles
    <2> QED
        BY <2>1, <2>2, IndexFacts
<1>11. call' \in [Calls -> Searches] /\ \A d \in Calls : d # c => call'[d] = call[d]
    BY <1>1, IndexFacts DEF Searches
<1>12. call'[c].pc = "ready" /\ call'[c].cutoff = n
    BY <1>1, <1>2, IndexFacts DEF Searches
<1>13. /\ holder' \in [Instances -> Calls \cup {Indexes!Nobody}]
       /\ \A d \in Calls : d # c /\ holder[InstanceOf[d]] = d => holder'[InstanceOf[d]] = d
    BY <1>1, <1>4, ReleaseStands
<1>14. Indexes!TypeOK'
    BY <1>1, <1>10, <1>11, <1>13 DEF IndexesInv, Indexes!TypeOK, IndexFiles, Searches
<1>15. \A g \in Indexes!Files : UpToCursor(g)'
    <2> SUFFICES ASSUME NEW g \in Indexes!Files PROVE UpToCursor(g)'
        OBVIOUS
    <2>1. CASE g = f
        <3>1. m <= Len(log')
            BY <1>1, <1>4, <1>5, <1>6
        <3>2. Indexes!Changed(f, 0, m)' = Indexes!Changed(f, 0, m)
            BY <1>1 DEF Indexes!Changed, Indexes!Indexed
        <3>3. file'[f].passages = Indexes!Changed(f, 0, m)'
            BY <1>9, <3>2
        <3> QED
            BY <1>9, <2>1, <3>1, <3>3 DEF UpToCursor, Indexes!Changed
    <2>2. CASE g # f
        <3>1. file'[g] = file[g] /\ UpToCursor(g)
            BY <1>9, <2>2 DEF IndexesInv
        <3> QED
            BY <1>1, <3>1 DEF UpToCursor, Indexes!Changed, Indexes!Indexed
    <2> QED
        BY <2>1, <2>2
<1>16. \A d \in Calls : OnItsWay(d)'
    <2>1. OnItsWay(c)'
        BY <1>1, <1>4, <1>6, <1>9, <1>12 DEF OnItsWay
    <2>2. ASSUME NEW d \in Calls, d # c PROVE OnItsWay(d)'
        <3>1. file[FileOf[d]].through \in Nat /\ call[d].cutoff \in Nat
            BY <2>2, IndexFacts DEF IndexFiles, Searches
        <3>2. call[d].cutoff <= file[FileOf[d]].through =>
                  call[d].cutoff <= file'[FileOf[d]].through
            <4>1. CASE FileOf[d] = f
                BY <1>2, <1>6, <1>9, <3>1, <4>1
            <4>2. CASE FileOf[d] # f
                BY <1>9, <2>2, <4>2, IndexFacts
            <4> QED
                BY <4>1, <4>2
        <3> QED
            BY <1>1, <1>11, <1>13, <2>2, <3>2, IndexFacts, OthersGoOn
    <2> QED
        BY <2>1, <2>2
<1>17. \A g \in Indexes!Files, j \in Instances : g \in handle'[j] => file'[g].identity = "current"
    BY <1>1, <1>9, IndexFacts
<1> QED
    BY <1>1, <1>14, <1>15, <1>16, <1>17 DEF IndexesInv

LEMMA CloseStep ==
    ASSUME Indexes!CallsAssumption, IndexesInv, NEW i \in Instances, Indexes!Close(i)
    PROVE  IndexesInv'
<1>1. /\ UNCHANGED <<log, file, holder, call, trouble>> /\ holder[i] = Indexes!Nobody
      /\ closed' = closed \cup {i} /\ handle' = [handle EXCEPT ![i] = {}]
    BY DEF Indexes!Close
<1>2. Indexes!TypeOK'
    BY <1>1 DEF IndexesInv, Indexes!TypeOK
<1>3. \A d \in Calls : OnItsWay(d)'
    <2> SUFFICES ASSUME NEW d \in Calls PROVE OnItsWay(d)'
        OBVIOUS
    <2>1. CASE InstanceOf[d] # i
        <3>1. handle'[InstanceOf[d]] = handle[InstanceOf[d]]
            BY <1>1, <2>1, IndexFacts
        <3>2. ASSUME NEW n \in call[d].cutoff .. Len(log),
                     call[d].answer = Indexes!Changed(FileOf[d], 0, n)
              PROVE  call'[d].answer = Indexes!Changed(FileOf[d], 0, n)'
            BY <1>1, <3>2 DEF Indexes!Changed, Indexes!Indexed
        <3> QED
            BY <1>1, <2>1, <3>1, <3>2, IndexFacts DEF OnItsWay
    <2>2. CASE InstanceOf[d] = i
        <3>1. call[d].pc \notin {"entered", "opened", "behind"}
            BY <1>1, <2>2, IndexFacts DEF OnItsWay, Indexes!CallsAssumption
        <3>2. ASSUME NEW n \in call[d].cutoff .. Len(log),
                     call[d].answer = Indexes!Changed(FileOf[d], 0, n)
              PROVE  call'[d].answer = Indexes!Changed(FileOf[d], 0, n)'
            BY <1>1, <3>2 DEF Indexes!Changed, Indexes!Indexed
        <3> QED
            BY <1>1, <2>2, <3>1, <3>2, IndexFacts DEF OnItsWay
    <2> QED
        BY <2>1, <2>2
<1>4. \A j \in closed' : handle'[j] = {}
    BY <1>1 DEF IndexesInv, Indexes!TypeOK
<1>5. \A g \in Indexes!Files, j \in Instances : g \in handle'[j] => file'[g].identity = "current"
    BY <1>1 DEF IndexesInv, Indexes!TypeOK
<1> QED
    BY <1>1, <1>2, <1>3, <1>4, <1>5, FilesStand DEF IndexesInv

LEMMA CrashStep ==
    ASSUME Indexes!CallsAssumption, IndexesInv, NEW i \in Instances, Indexes!Crash(i)
    PROVE  IndexesInv'
<1>1. /\ UNCHANGED <<log, file>> /\ trouble < MaxErrors /\ trouble' = trouble + 1
      /\ closed' = closed \cup {i} /\ handle' = [handle EXCEPT ![i] = {}]
      /\ holder' = [holder EXCEPT ![i] = Indexes!Nobody]
    BY DEF Indexes!Crash
<1>2. call' = [c \in Calls |-> IF InstanceOf[c] = i /\ call[c].pc \notin Indexes!Over
                               THEN [call[c] EXCEPT !.pc = "failed"] ELSE call[c]]
    BY DEF Indexes!Crash
<1>3. call' \in [Calls -> Searches]
    <2>1. \A c \in Calls : call[c] \in Searches /\ [call[c] EXCEPT !.pc = "failed"] \in Searches
        BY IndexFacts DEF Searches, Indexes!Over
    <2> QED
        BY <1>2, <2>1
<1>4. /\ \A d \in Calls : InstanceOf[d] # i => call'[d] = call[d]
      /\ \A d \in Calls : InstanceOf[d] = i =>
             (call'[d] = call[d] /\ call[d].pc \in Indexes!Over) \/ call'[d].pc = "failed"
    <2>1. \A c \in Calls : [call[c] EXCEPT !.pc = "failed"].pc = "failed"
        BY IndexFacts DEF Searches
    <2> QED
        BY <1>2, <2>1
<1>5. Indexes!TypeOK'
    <2>1. trouble' \in 0 .. MaxErrors
        BY <1>1 DEF IndexesInv, Indexes!TypeOK, Indexes!CallsAssumption
    <2>2. /\ handle' \in [Instances -> SUBSET Indexes!Files] /\ closed' \subseteq Instances
          /\ holder' \in [Instances -> Calls \cup {Indexes!Nobody}]
        BY <1>1 DEF IndexesInv, Indexes!TypeOK
    <2> QED
        BY <1>1, <1>3, <2>1, <2>2 DEF IndexesInv, Indexes!TypeOK, Searches
<1>6. \A d \in Calls : OnItsWay(d)'
    <2> SUFFICES ASSUME NEW d \in Calls PROVE OnItsWay(d)'
        OBVIOUS
    <2>0. ASSUME NEW n \in call[d].cutoff .. Len(log), call'[d] = call[d],
                 call[d].answer = Indexes!Changed(FileOf[d], 0, n)
          PROVE  call'[d].answer = Indexes!Changed(FileOf[d], 0, n)'
        BY <1>1, <2>0 DEF Indexes!Changed, Indexes!Indexed
    <2>1. CASE InstanceOf[d] # i
        <3>1. /\ handle'[InstanceOf[d]] = handle[InstanceOf[d]]
              /\ holder'[InstanceOf[d]] = holder[InstanceOf[d]]
            BY <1>1, <2>1, IndexFacts
        <3> QED
            BY <1>1, <1>4, <2>0, <2>1, <3>1, IndexFacts DEF OnItsWay
    <2>2. CASE InstanceOf[d] = i
        BY <1>1, <1>4, <2>0, <2>2, IndexFacts DEF OnItsWay, Indexes!Over
    <2> QED
        BY <2>1, <2>2
<1>7. \A j \in closed' : handle'[j] = {}
    BY <1>1 DEF IndexesInv, Indexes!TypeOK
<1>8. \A g \in Indexes!Files, j \in Instances : g \in handle'[j] => file'[g].identity = "current"
    BY <1>1 DEF IndexesInv, Indexes!TypeOK
<1> QED
    BY <1>1, <1>5, <1>6, <1>7, <1>8, FilesStand DEF IndexesInv

LEMMA DiscardStep ==
    ASSUME Indexes!CallsAssumption, IndexesInv, NEW f \in Indexes!Files, Indexes!Discard(f)
    PROVE  IndexesInv'
<1>1. /\ UNCHANGED <<log, handle, closed, holder, call>>
      /\ trouble < MaxErrors /\ trouble' = trouble + 1
      /\ \A i \in Instances : f \notin handle[i]
      /\ file' = [file EXCEPT ![f] = Indexes!Missing]
    BY DEF Indexes!Discard
<1>2. Indexes!Missing \in IndexFiles /\ Indexes!Missing.identity = "none"
    BY DEF Indexes!Missing, Indexes!Nothing, IndexFiles
<1>3. /\ file' \in [Indexes!Files -> IndexFiles] /\ file'[f].identity = "none"
      /\ \A g \in Indexes!Files : g # f => file'[g] = file[g]
    BY <1>1, <1>2 DEF IndexesInv, Indexes!TypeOK, IndexFiles
<1>4. Indexes!TypeOK'
    <2>1. trouble' \in 0 .. MaxErrors
        BY <1>1 DEF IndexesInv, Indexes!TypeOK, Indexes!CallsAssumption
    <2> QED
        BY <1>1, <1>3, <2>1 DEF IndexesInv, Indexes!TypeOK, IndexFiles
<1>5. \A g \in Indexes!Files : UpToCursor(g)'
    <2> SUFFICES ASSUME NEW g \in Indexes!Files, g # f PROVE UpToCursor(g)'
        BY <1>3 DEF UpToCursor
    <2> QED
        BY <1>1, <1>3 DEF IndexesInv, UpToCursor, Indexes!Changed, Indexes!Indexed
<1>6. \A d \in Calls : OnItsWay(d)'
    <2> SUFFICES ASSUME NEW d \in Calls PROVE OnItsWay(d)'
        OBVIOUS
    <2>1. FileOf[d] \in handle[InstanceOf[d]] => file'[FileOf[d]] = file[FileOf[d]]
        BY <1>1, <1>3, IndexFacts
    <2> QED
        BY <1>1, <2>1, IndexFacts, OthersGoOn
<1>7. \A g \in Indexes!Files, j \in Instances : g \in handle'[j] => file'[g].identity = "current"
    BY <1>1, <1>3 DEF IndexesInv
<1> QED
    BY <1>1, <1>4, <1>5, <1>6, <1>7 DEF IndexesInv

LEMMA IndexesStep ==
    ASSUME Indexes!CallsAssumption, IndexesInv, [Indexes!Next]_(Indexes!vars)
    PROVE  IndexesInv'
<1>1. CASE UNCHANGED Indexes!vars
    <2>1. UNCHANGED <<log, file, handle, closed, holder, call, trouble>>
        BY <1>1 DEF Indexes!vars
    <2>2. Indexes!TypeOK'
        BY <2>1 DEF IndexesInv, Indexes!TypeOK
    <2>3. \A d \in Calls : OnItsWay(d)'
        BY <2>1, OthersGoOn DEF IndexesInv
    <2> QED
        BY <2>1, <2>2, <2>3, FilesStand DEF IndexesInv
<1> QED
    BY <1>1, PublishStep, EnterStep, OpenIndexStep, PeekStep, RefreshStep, SearchStep, FailStep,
       CloseStep, CrashStep, DiscardStep DEF Indexes!Next, Indexes!Step

-----------------------------------------------------------------------------
\* The invariant holds of the component by itself, and of this part among the others.
LEMMA IndexesAlways ==
    /\ Indexes!Spec => []IndexesInv
    /\ Spec => [](part = "indexes" => IndexesInv)
<1> DEFINE Here == part = "indexes" => IndexesInv
<1>1. Indexes!Init => IndexesInv
    BY PartsAssumption, IndexesInit
<1>2. IndexesInv /\ [Indexes!Next]_(Indexes!vars) => IndexesInv'
    BY PartsAssumption, IndexesStep
<1>3. Init => Here
    BY <1>1 DEF Init
<1>4. Here /\ [Next]_vars => Here'
    <2>1. CASE UNCHANGED vars
        BY <1>2, <2>1 DEF vars, indexVars, Indexes!vars
    <2>2. CASE Next
        <3>1. part' = part
            BY <2>2 DEF Next, NotBlobs, NotPaths, NotIndexes, NotGenerations, NotReads, NotCosts,
               NotRuns
        <3>2. part = "indexes" => Indexes!Next
            BY <2>2 DEF Next
        <3> QED
            BY <1>2, <3>1, <3>2
    <2> QED
        BY <2>1, <2>2
<1> HIDE DEF Here
<1>5. Indexes!Spec => []IndexesInv
    BY <1>1, <1>2, PTL DEF Indexes!Spec
<1>6. Spec => []Here
    BY <1>3, <1>4, PTL DEF Spec
<1> QED
    BY <1>5, <1>6 DEF Here

\* An index that somebody has open holds every record up to its cursor exactly once, and its
\* cursor never leads the log, whoever refreshed, failed or died (lexical.py, refresh).
THEOREM IndexesAreExact ==
    /\ Indexes!Spec => [](Indexes!TypeOK /\ Indexes!IndexExact)
    /\ Spec => []IndexExact
<1>1. IndexesInv => Indexes!TypeOK /\ Indexes!IndexExact
    BY DEF IndexesInv, UpToCursor, Indexes!IndexExact
<1>2. (part = "indexes" => IndexesInv) => IndexExact
    BY <1>1 DEF IndexExact
<1> QED
    BY <1>1, <1>2, IndexesAlways, PTL

\* A search that answers has seen everything that was published when its call took the
\* workspace's lock, and nothing that is not published (workspace.py, _lexical_index).
THEOREM SearchesAreFresh ==
    /\ Indexes!Spec => []Indexes!SearchIsFresh
    /\ Spec => []SearchIsFresh
<1>1. IndexesInv => Indexes!SearchIsFresh
    BY DEF IndexesInv, OnItsWay, Indexes!SearchIsFresh
<1>2. (part = "indexes" => IndexesInv) => SearchIsFresh
    BY <1>1 DEF SearchIsFresh
<1> QED
    BY <1>1, <1>2, IndexesAlways, PTL

-----------------------------------------------------------------------------
(* Generations of hybrid search *)

Snapshots == 1 .. MaxLog
Entries == [plaid : {"none", "partial", "complete"}, ready : BOOLEAN]
HybridSearches == [pc : {"start", "prepare", "preparing", "search", "searching"} \cup Generations!Over,
                   cutoff : 0 .. MaxLog, hits : 0 .. MaxLog]
Containers == [pc : {"idle", "load", "build", "save", "reply"}, n : 0 .. MaxLog,
               caller : Calls \cup {Generations!Nobody}, cached : 0 .. MaxLog]
UnderWay == {"prepare", "preparing", "search", "searching"}

\* What workspace.json calls ready has its whole PLAID index, in the preparing container's
\* view and in what is committed, which never has more than the view.
EntryWhole(n) ==
    /\ view[n].ready /\ Generations!Large(n) => view[n].plaid = "complete"
    /\ volume[n].ready /\ Generations!Large(n) => volume[n].plaid = "complete"
    /\ volume[n].plaid = "complete" => view[n].plaid = "complete"
    /\ volume[n].ready => view[n].ready

\* A search under way holds its client's lock, so nobody else prepares for that client: from
\* the reply to its end the client's generation is the search's own.
SearchFits(c) ==
    /\ search[c].pc \in UnderWay => lock[ClientOf[c]] = c /\ search[c].cutoff \in Snapshots
    /\ search[c].pc \in {"search", "searching"} => prepared[ClientOf[c]] = search[c].cutoff
    /\ search[c].pc = "found" => search[c].hits = search[c].cutoff
    /\ search[c].pc = "start" => search[c].cutoff = 0 /\ search[c].hits = 0

\* A container at work serves its caller's snapshot, if that still waits.
Serves(container, waiting) ==
    container.pc # "idle" =>
        /\ container.n \in Snapshots /\ container.caller \in Calls
        /\ search[container.caller].pc = waiting => search[container.caller].cutoff = container.n

\* What the preparing container has loaded, and what it is about to declare ready, is whole.
PreparerKnows ==
    /\ preparer.cached # 0 /\ Generations!Large(preparer.cached) => view[preparer.cached].plaid = "complete"
    /\ preparer.pc = "save" /\ Generations!Large(preparer.n) => view[preparer.n].plaid = "complete"
    /\ preparer.pc = "reply" => view[preparer.n].ready

GenerationTypes ==
    /\ published \in 0 .. MaxLog /\ prepared \in [Clients -> 0 .. MaxLog]
    /\ lock \in [Clients -> Calls \cup {Generations!Nobody}] /\ search \in [Calls -> HybridSearches]
    /\ volume \in [Snapshots -> Entries] /\ view \in [Snapshots -> Entries]
    /\ preparer \in Containers /\ searcher \in Containers
    /\ trouble \in 0 .. MaxTrouble

GenerationsInv ==
    /\ GenerationTypes
    /\ \A n \in Snapshots : EntryWhole(n)
    /\ \A i \in Clients : prepared[i] # 0 => volume[prepared[i]].ready
    /\ \A c \in Calls : SearchFits(c)
    /\ Serves(preparer, "preparing") /\ PreparerKnows
    /\ Serves(searcher, "searching")

LEMMA GenerationsTyped == Generations!TypeOK <=> GenerationTypes
BY DEF Generations!TypeOK, GenerationTypes, HybridSearches, Containers, Entries, Snapshots, Generations!Snapshots

LEMMA GenerationsInit ==
    ASSUME Generations!GenerationsAssumption
    PROVE  Generations!Init => GenerationsInv
<1> SUFFICES ASSUME Generations!Init PROVE GenerationsInv
    OBVIOUS
<1>1. MaxLog \in Nat /\ MaxTrouble \in Nat
    BY DEF Generations!GenerationsAssumption
<1>2. preparer = Generations!Idle /\ searcher = Generations!Idle /\ Generations!Idle.pc = "idle" /\ Generations!Idle.cached = 0
    BY DEF Generations!Init, Generations!Idle
<1>3. Generations!Idle \in Containers
    BY <1>1 DEF Generations!Idle, Containers
<1>4. volume \in [Snapshots -> Entries] /\ view = volume
    BY DEF Generations!Init, Generations!Absent, Entries, Snapshots, Generations!Snapshots
<1>5. \A n \in Snapshots : ~ volume[n].ready /\ volume[n].plaid = "none"
    BY DEF Generations!Init, Generations!Absent, Snapshots, Generations!Snapshots
<1>6. search = [c \in Calls |-> [pc |-> "start", cutoff |-> 0, hits |-> 0]]
    BY DEF Generations!Init
<1>7. search \in [Calls -> HybridSearches]
    BY <1>1, <1>6 DEF HybridSearches
<1>8. \A c \in Calls : SearchFits(c)
    BY <1>6 DEF SearchFits, UnderWay
<1>9. /\ published = 0 /\ trouble = 0 /\ prepared = [i \in Clients |-> 0]
      /\ lock \in [Clients -> Calls \cup {Generations!Nobody}]
    BY DEF Generations!Init
<1>10. GenerationTypes
    BY <1>1, <1>2, <1>3, <1>4, <1>7, <1>9 DEF GenerationTypes
<1> QED
    BY <1>2, <1>4, <1>5, <1>8, <1>9, <1>10 DEF GenerationsInv, EntryWhole, Serves, PreparerKnows

-----------------------------------------------------------------------------
\* What every step that ends or moves searches must leave true for the rest of the state:
\* those that still wait for a container have their cutoff as before.
SearchesGoOn ==
    /\ search' \in [Calls -> HybridSearches] /\ lock' \in [Clients -> Calls \cup {Generations!Nobody}]
    /\ \A d \in Calls :
        /\ SearchFits(d)'
        /\ search'[d].pc \in {"preparing", "searching"} =>
               search'[d].pc = search[d].pc /\ search'[d].cutoff = search[d].cutoff

LEMMA SearchesStay ==
    ASSUME GenerationsInv, UNCHANGED <<search, lock, prepared>>
    PROVE  SearchesGoOn
BY DEF GenerationsInv, GenerationTypes, SearchesGoOn, SearchFits

LEMMA LeaveFits ==
    ASSUME Generations!GenerationsAssumption, GenerationsInv, NEW c \in Calls,
           lock[ClientOf[c]] = c, UNCHANGED prepared,
           NEW outcome \in {"failed", "refused"}, Generations!Leave(c, outcome)
    PROVE  SearchesGoOn
<1>1. /\ search \in [Calls -> HybridSearches] /\ lock \in [Clients -> Calls \cup {Generations!Nobody}]
      /\ ClientOf \in [Calls -> Clients] /\ Generations!Nobody \notin Calls
    BY DEF GenerationsInv, GenerationTypes, Generations!GenerationsAssumption
<1>2. /\ search' = [search EXCEPT ![c].pc = outcome]
      /\ lock' = [lock EXCEPT ![ClientOf[c]] = Generations!Nobody]
    BY DEF Generations!Leave, Generations!Goto
<1>3. /\ search' \in [Calls -> HybridSearches] /\ search'[c].pc = outcome
      /\ \A d \in Calls : d # c => search'[d] = search[d]
    BY <1>1, <1>2 DEF HybridSearches, Generations!Over
<1>4. /\ lock' \in [Clients -> Calls \cup {Generations!Nobody}]
      /\ \A d \in Calls : d # c /\ lock[ClientOf[d]] = d => lock'[ClientOf[d]] = d
    BY <1>1, <1>2
<1>5. SearchFits(c)'
    BY <1>3 DEF SearchFits, UnderWay
<1>6. \A d \in Calls : d # c => SearchFits(d)'
    BY <1>3, <1>4 DEF GenerationsInv, SearchFits
<1> QED
    BY <1>3, <1>4, <1>5, <1>6 DEF SearchesGoOn

LEMMA AnswerFits ==
    ASSUME Generations!GenerationsAssumption, GenerationsInv, NEW c \in Calls, UNCHANGED prepared,
           NEW waiting \in {"preparing", "searching"}, NEW outcome \in {"failed", "refused"},
           Generations!Answer(c, waiting, outcome)
    PROVE  SearchesGoOn
<1>1. CASE search[c].pc = waiting
    <2>1. c # Generations!Nobody /\ lock[ClientOf[c]] = c
        BY <1>1 DEF GenerationsInv, SearchFits, UnderWay, Generations!GenerationsAssumption
    <2> QED
        BY <1>1, <2>1, LeaveFits DEF Generations!Answer
<1>2. CASE search[c].pc # waiting
    BY <1>2, SearchesStay DEF Generations!Answer
<1> QED
    BY <1>1, <1>2

\* A step that ends or moves searches and does no more than that.
LEMMA SearchesMove ==
    ASSUME GenerationsInv, SearchesGoOn, published' \in 0 .. MaxLog,
           UNCHANGED <<prepared, volume, view, preparer, searcher>>, trouble' \in 0 .. MaxTrouble
    PROVE  GenerationsInv'
<1>1. GenerationTypes'
    BY DEF GenerationsInv, GenerationTypes, SearchesGoOn
<1>2. (Serves(preparer, "preparing") /\ Serves(searcher, "searching") /\ PreparerKnows)'
    BY DEF GenerationsInv, Serves, SearchesGoOn, PreparerKnows
<1> QED
    BY <1>1, <1>2 DEF GenerationsInv, SearchesGoOn, EntryWhole

\* A step that moves the containers too, but writes nothing.
LEMMA ContainersMove ==
    ASSUME GenerationsInv, SearchesGoOn, UNCHANGED <<published, prepared, volume, view>>,
           preparer' \in Containers, searcher' \in Containers,
           (Serves(preparer, "preparing") /\ PreparerKnows /\ Serves(searcher, "searching"))',
           trouble' \in 0 .. MaxTrouble
    PROVE  GenerationsInv'
<1>1. GenerationTypes'
    BY DEF GenerationsInv, GenerationTypes, SearchesGoOn
<1> QED
    BY <1>1 DEF GenerationsInv, SearchesGoOn, EntryWhole

\* A container that a step leaves alone serves as before.
LEMMA ServesStay ==
    ASSUME GenerationsInv, SearchesGoOn
    PROVE  /\ UNCHANGED preparer => Serves(preparer, "preparing")'
           /\ UNCHANGED searcher => Serves(searcher, "searching")'
BY DEF GenerationsInv, Serves, SearchesGoOn

\* The container goes idle, and keeps or loses its warm index.
LEMMA PreparerRests ==
    ASSUME Generations!GenerationsAssumption, GenerationsInv, UNCHANGED view,
           \/ preparer' = Generations!Idle
           \/ preparer' = [preparer EXCEPT !.pc = "idle", !.n = 0, !.caller = Generations!Nobody]
    PROVE  preparer' \in Containers /\ (Serves(preparer, "preparing") /\ PreparerKnows)'
<1>1. preparer \in Containers /\ MaxLog \in Nat /\ 0 \in 0 .. MaxLog
    BY DEF GenerationsInv, GenerationTypes, Generations!GenerationsAssumption
<1>2. /\ preparer' \in Containers /\ preparer'.pc = "idle"
      /\ preparer'.cached = 0 \/ preparer'.cached = preparer.cached
    <2>1. CASE preparer' = Generations!Idle
        BY <1>1, <2>1 DEF Containers, Generations!Idle
    <2>2. CASE preparer' = [preparer EXCEPT !.pc = "idle", !.n = 0, !.caller = Generations!Nobody]
        BY <1>1, <2>2 DEF Containers
    <2> QED
        BY <2>1, <2>2
<1> QED
    BY <1>2 DEF GenerationsInv, Serves, PreparerKnows

LEMMA SearcherRests ==
    ASSUME Generations!GenerationsAssumption, GenerationsInv,
           \/ searcher' = Generations!Idle
           \/ searcher' = [searcher EXCEPT !.pc = "idle", !.n = 0, !.caller = Generations!Nobody]
    PROVE  searcher' \in Containers /\ Serves(searcher, "searching")'
<1>1. searcher \in Containers /\ MaxLog \in Nat /\ 0 \in 0 .. MaxLog
    BY DEF GenerationsInv, GenerationTypes, Generations!GenerationsAssumption
<1>2. searcher' \in Containers /\ searcher'.pc = "idle"
    <2>1. CASE searcher' = Generations!Idle
        BY <1>1, <2>1 DEF Containers, Generations!Idle
    <2>2. CASE searcher' = [searcher EXCEPT !.pc = "idle", !.n = 0, !.caller = Generations!Nobody]
        BY <1>1, <2>2 DEF Containers
    <2> QED
        BY <2>1, <2>2
<1> QED
    BY <1>2 DEF Serves

-----------------------------------------------------------------------------
(* The client's steps *)

LEMMA PublishSourceStep ==
    ASSUME Generations!GenerationsAssumption, GenerationsInv, Generations!Publish
    PROVE  GenerationsInv'
<1>1. published' \in 0 .. MaxLog
    BY DEF Generations!Publish, GenerationsInv, GenerationTypes, Generations!GenerationsAssumption
<1> QED
    BY <1>1, SearchesStay, SearchesMove DEF Generations!Publish, GenerationsInv, GenerationTypes

LEMMA EnterHybridStep ==
    ASSUME Generations!GenerationsAssumption, GenerationsInv, NEW c \in Calls, Generations!Enter(c)
    PROVE  GenerationsInv'
<1>1. /\ search \in [Calls -> HybridSearches] /\ lock \in [Clients -> Calls \cup {Generations!Nobody}]
      /\ ClientOf \in [Calls -> Clients] /\ Generations!Nobody \notin Calls
      /\ published \in 0 .. MaxLog /\ trouble \in 0 .. MaxTrouble /\ MaxLog \in Nat
    BY DEF GenerationsInv, GenerationTypes, Generations!GenerationsAssumption
<1>2. /\ search[c].pc = "start" /\ lock[ClientOf[c]] = Generations!Nobody
      /\ UNCHANGED <<published, prepared, volume, view, preparer, searcher, trouble>>
    BY DEF Generations!Enter
<1>3. CASE published = 0
    <2>1. search' = [search EXCEPT ![c].pc = "found"] /\ UNCHANGED lock
        BY <1>3 DEF Generations!Enter, Generations!Goto
    <2>2. /\ search' \in [Calls -> HybridSearches]
          /\ \A d \in Calls : d # c => search'[d] = search[d]
        BY <1>1, <2>1 DEF HybridSearches, Generations!Over
    <2>3. /\ search'[c].pc = "found" /\ search'[c].cutoff = search[c].cutoff
          /\ search'[c].hits = search[c].hits
        BY <1>1, <2>1 DEF HybridSearches
    <2>4. search[c].cutoff = 0 /\ search[c].hits = 0
        BY <1>2 DEF GenerationsInv, SearchFits
    <2>5. SearchFits(c)'
        BY <2>3, <2>4 DEF SearchFits, UnderWay
    <2>6. SearchesGoOn
        BY <1>1, <1>2, <2>1, <2>2, <2>3, <2>5 DEF SearchesGoOn, GenerationsInv, SearchFits
    <2> QED
        BY <1>1, <1>2, <2>6, SearchesMove
<1>4. CASE published # 0
    <2> DEFINE step == IF prepared[ClientOf[c]] # published THEN "prepare" ELSE "search"
    <2>1. /\ search' = [search EXCEPT ![c].cutoff = published, ![c].pc = step]
          /\ lock' = [lock EXCEPT ![ClientOf[c]] = c]
        BY <1>4 DEF Generations!Enter
    <2>2. /\ search' \in [Calls -> HybridSearches]
          /\ \A d \in Calls : d # c => search'[d] = search[d]
        BY <1>1, <2>1 DEF HybridSearches
    <2>3. search'[c].pc = step /\ search'[c].cutoff = published
        BY <1>1, <2>1 DEF HybridSearches
    <2>4. /\ lock' \in [Clients -> Calls \cup {Generations!Nobody}] /\ lock'[ClientOf[c]] = c
          /\ \A d \in Calls : d # c /\ lock[ClientOf[d]] = d => lock'[ClientOf[d]] = d
        BY <1>1, <1>2, <2>1
    <2>5. SearchFits(c)'
        BY <1>1, <1>2, <1>4, <2>3, <2>4 DEF SearchFits, UnderWay, Snapshots
    <2>6. \A d \in Calls : d # c => SearchFits(d)'
        BY <1>2, <2>2, <2>4 DEF GenerationsInv, SearchFits
    <2>7. SearchesGoOn
        BY <2>2, <2>3, <2>4, <2>5, <2>6 DEF SearchesGoOn
    <2> QED
        BY <1>1, <1>2, <2>7, SearchesMove
<1> QED
    BY <1>3, <1>4

LEMMA CancelStep ==
    ASSUME Generations!GenerationsAssumption, GenerationsInv, NEW c \in Calls, Generations!Cancel(c)
    PROVE  GenerationsInv'
<1>1. /\ lock[ClientOf[c]] = c /\ Generations!Leave(c, "failed")
      /\ UNCHANGED <<published, prepared, volume, view, preparer, searcher>>
    BY DEF Generations!Cancel
<1>2. trouble' \in 0 .. MaxTrouble /\ published \in 0 .. MaxLog
    BY DEF Generations!Cancel, GenerationsInv, GenerationTypes, Generations!GenerationsAssumption
<1> QED
    BY <1>1, <1>2, LeaveFits, SearchesMove

\* A search goes on to its container without any change to its lock.
LEMMA GotoFits ==
    ASSUME GenerationsInv, NEW c \in Calls, UNCHANGED <<lock, prepared>>,
           \/ search[c].pc = "prepare" /\ Generations!Goto(c, "preparing")
           \/ search[c].pc = "search" /\ Generations!Goto(c, "searching")
    PROVE  /\ search' \in [Calls -> HybridSearches]
           /\ lock' \in [Clients -> Calls \cup {Generations!Nobody}]
           /\ \A d \in Calls : SearchFits(d)'
           /\ \A d \in Calls : search'[d].cutoff = search[d].cutoff
           /\ \A d \in Calls : d # c => search'[d] = search[d]
           /\ search'[c].pc = (IF search[c].pc = "prepare" THEN "preparing" ELSE "searching")
<1>1. search \in [Calls -> HybridSearches] /\ lock \in [Clients -> Calls \cup {Generations!Nobody}]
    BY DEF GenerationsInv, GenerationTypes
<1>2. /\ search' \in [Calls -> HybridSearches]
      /\ \A d \in Calls : d # c => search'[d] = search[d]
    BY <1>1 DEF Generations!Goto, HybridSearches
<1>3. /\ search'[c].pc = (IF search[c].pc = "prepare" THEN "preparing" ELSE "searching")
      /\ search'[c].cutoff = search[c].cutoff
    BY <1>1 DEF Generations!Goto, HybridSearches
<1>4. SearchFits(c)'
    BY <1>3 DEF GenerationsInv, SearchFits, UnderWay
<1>5. \A d \in Calls : d # c => SearchFits(d)'
    BY <1>2 DEF GenerationsInv, SearchFits
<1> QED
    BY <1>1, <1>2, <1>3, <1>4, <1>5

LEMMA StartPrepareStep ==
    ASSUME Generations!GenerationsAssumption, GenerationsInv, NEW c \in Calls, Generations!StartPrepare(c)
    PROVE  GenerationsInv'
<1> DEFINE n == search[c].cutoff
<1>1. /\ search[c].pc = "prepare" /\ preparer.pc = "idle" /\ Generations!Goto(c, "preparing")
      /\ UNCHANGED <<published, prepared, lock, volume, view, searcher, trouble>>
      /\ preparer' = [preparer EXCEPT !.pc = IF view[n].ready THEN "reply" ELSE "load",
                                      !.n = n, !.caller = c]
    BY DEF Generations!StartPrepare
<1>2. preparer \in Containers /\ searcher \in Containers /\ n \in Snapshots /\ MaxLog \in Nat
    BY <1>1 DEF GenerationsInv, GenerationTypes, SearchFits, UnderWay, Generations!GenerationsAssumption
<1>3. preparer' \in Containers
    <2>1. PICK step \in {"reply", "load"} :
              preparer' = [preparer EXCEPT !.pc = step, !.n = n, !.caller = c]
        BY <1>1
    <2> QED
        <3>1. n \in 0 .. MaxLog
            BY <1>2 DEF Snapshots
        <3> HIDE DEF n
        <3> QED
            BY <1>2, <2>1, <3>1 DEF Containers
<1>4. /\ preparer'.pc = (IF view[n].ready THEN "reply" ELSE "load") /\ preparer'.n = n
      /\ preparer'.caller = c /\ preparer'.cached = preparer.cached
    BY <1>1, <1>2 DEF Containers
<1>5. /\ search' \in [Calls -> HybridSearches] /\ lock' \in [Clients -> Calls \cup {Generations!Nobody}]
      /\ \A d \in Calls : SearchFits(d)' /\ search'[d].cutoff = search[d].cutoff
      /\ \A d \in Calls : d # c => search'[d] = search[d]
      /\ search'[c].pc = "preparing"
    BY <1>1, GotoFits
<1>6. Serves(preparer, "preparing")'
    BY <1>2, <1>4, <1>5 DEF Serves
<1>7. PreparerKnows'
    BY <1>1, <1>4 DEF GenerationsInv, PreparerKnows
<1>8. Serves(searcher, "searching")'
    BY <1>1, <1>5 DEF GenerationsInv, Serves
<1>9. GenerationTypes'
    BY <1>1, <1>2, <1>3, <1>5 DEF GenerationsInv, GenerationTypes
<1> QED
    BY <1>1, <1>5, <1>6, <1>7, <1>8, <1>9 DEF GenerationsInv, EntryWhole

LEMMA StartSearchStep ==
    ASSUME Generations!GenerationsAssumption, GenerationsInv, NEW c \in Calls, Generations!StartSearch(c)
    PROVE  GenerationsInv'
<1> DEFINE n == prepared[ClientOf[c]]
<1>1. /\ search[c].pc = "search" /\ lock[ClientOf[c]] = c
      /\ UNCHANGED <<published, prepared, volume, view, preparer, trouble>>
    BY DEF Generations!StartSearch, GenerationsInv, SearchFits, UnderWay
<1>2. preparer \in Containers /\ searcher \in Containers /\ n \in Snapshots /\ MaxLog \in Nat
      /\ n = search[c].cutoff /\ published \in 0 .. MaxLog /\ trouble \in 0 .. MaxTrouble
    BY <1>1 DEF GenerationsInv, GenerationTypes, SearchFits, UnderWay, Generations!GenerationsAssumption
<1>3. CASE /\ searcher' = [pc |-> "reply", n |-> n, caller |-> c, cached |-> n]
           /\ Generations!Goto(c, "searching") /\ UNCHANGED lock
    <2>1. /\ searcher' \in Containers /\ searcher'.n = n /\ searcher'.caller = c
        BY <1>2, <1>3 DEF Containers, Snapshots
    <2>2. /\ search' \in [Calls -> HybridSearches] /\ lock' \in [Clients -> Calls \cup {Generations!Nobody}]
          /\ \A d \in Calls : SearchFits(d)' /\ search'[d].cutoff = search[d].cutoff
          /\ \A d \in Calls : d # c => search'[d] = search[d]
          /\ search'[c].pc = "searching"
        BY <1>1, <1>3, GotoFits
    <2>3. Serves(searcher, "searching")'
        BY <1>2, <2>1, <2>2 DEF Serves
    <2>4. (Serves(preparer, "preparing") /\ PreparerKnows)'
        BY <1>1, <2>2 DEF GenerationsInv, Serves, PreparerKnows
    <2>5. GenerationTypes'
        BY <1>1, <1>2, <2>1, <2>2 DEF GenerationsInv, GenerationTypes
    <2> QED
        BY <1>1, <2>2, <2>3, <2>4, <2>5 DEF GenerationsInv, EntryWhole
<1>4. CASE Generations!Leave(c, "failed") /\ UNCHANGED searcher
    BY <1>1, <1>2, <1>4, LeaveFits, SearchesMove
<1> QED
    BY <1>3, <1>4 DEF Generations!StartSearch

-----------------------------------------------------------------------------
(* The containers' steps *)

\* The preparing container's warm index, and what it is at work on.
LEMMA PreparerFacts ==
    ASSUME Generations!GenerationsAssumption, GenerationsInv, preparer.pc # "idle"
    PROVE  /\ preparer \in Containers /\ preparer.n \in Snapshots /\ preparer.caller \in Calls
           /\ search[preparer.caller].pc = "preparing" =>
                  search[preparer.caller].cutoff = preparer.n
           /\ view \in [Snapshots -> Entries] /\ MaxLog \in Nat /\ trouble \in 0 .. MaxTrouble
           /\ MaxTrouble \in Nat
BY DEF GenerationsInv, GenerationTypes, Serves, Generations!GenerationsAssumption

LEMMA LoadIndexStep ==
    ASSUME Generations!GenerationsAssumption, GenerationsInv, Generations!Load
    PROVE  GenerationsInv'
<1> DEFINE n == preparer.n
<1>1. /\ preparer.pc = "load"
      /\ UNCHANGED <<published, prepared, volume, view, searcher, trouble>>
    BY DEF Generations!Load
<1>2. CASE /\ preparer.cached = n \/ ~ Generations!Large(n) \/ view[n].plaid = "complete"
           /\ preparer' = [preparer EXCEPT !.pc = "save", !.cached = n]
           /\ UNCHANGED <<view, search, lock>>
    <2>1. preparer' \in Containers
        BY <1>1, <1>2, PreparerFacts DEF Containers, Snapshots
    <2>2. /\ preparer'.pc = "save" /\ preparer'.n = n /\ preparer'.cached = n
          /\ preparer'.caller = preparer.caller
        BY <1>1, <1>2, PreparerFacts DEF Containers
    <2>3. SearchesGoOn
        BY <1>1, <1>2, SearchesStay
    <2>4. Generations!Large(n) => view[n].plaid = "complete"
        BY <1>1, <1>2, PreparerFacts DEF GenerationsInv, PreparerKnows, Snapshots
    <2>5. PreparerKnows'
        BY <1>1, <2>2, <2>4 DEF PreparerKnows, Generations!Large
    <2>6. Serves(preparer, "preparing")'
        BY <1>1, <1>2, <2>2, PreparerFacts DEF Serves
    <2> QED
        <3>1. searcher' \in Containers /\ trouble' \in 0 .. MaxTrouble
            BY <1>1 DEF GenerationsInv, GenerationTypes
        <3>2. Serves(searcher, "searching")'
            BY <1>1, <2>3, ServesStay
        <3> QED
            BY <1>1, <1>2, <2>1, <2>3, <2>5, <2>6, <3>1, <3>2, ContainersMove
<1>3. CASE /\ preparer' = Generations!Idle /\ UNCHANGED view
           /\ Generations!Answer(preparer.caller, "preparing", "refused")
    <2>1. SearchesGoOn
        BY <1>1, <1>3, PreparerFacts, AnswerFits
    <2> QED
        BY <1>1, <1>3, <2>1, PreparerFacts, PreparerRests, ServesStay, ContainersMove
           DEF GenerationsInv, GenerationTypes
<1>4. CASE /\ Generations!Large(n)
           /\ preparer' = [preparer EXCEPT !.pc = "build", !.cached = 0]
           /\ UNCHANGED <<view, search, lock>>
    <2>1. preparer' \in Containers
        <3>1. preparer \in Containers /\ 0 \in 0 .. MaxLog
            BY <1>1, PreparerFacts
        <3> QED
            BY <1>4, <3>1 DEF Containers
    <2>2. /\ preparer'.pc = "build" /\ preparer'.n = n /\ preparer'.cached = 0
          /\ preparer'.caller = preparer.caller
        BY <1>1, <1>4, PreparerFacts DEF Containers
    <2>3. SearchesGoOn
        BY <1>1, <1>4, SearchesStay
    <2>4. PreparerKnows'
        BY <2>2 DEF PreparerKnows
    <2>5. Serves(preparer, "preparing")'
        BY <1>1, <1>4, <2>2, PreparerFacts DEF Serves
    <2> QED
        <3>1. searcher' \in Containers /\ trouble' \in 0 .. MaxTrouble
            BY <1>1 DEF GenerationsInv, GenerationTypes
        <3>2. Serves(searcher, "searching")'
            BY <1>1, <2>3, ServesStay
        <3> QED
            BY <1>1, <1>4, <2>1, <2>3, <2>4, <2>5, <3>1, <3>2, ContainersMove
<1> QED
    BY <1>2, <1>3, <1>4 DEF Generations!Load

\* A step of the preparing container that writes into its view.
LEMMA ViewMoves ==
    ASSUME GenerationsInv, UNCHANGED <<published, prepared, lock, search, volume, searcher, trouble>>,
           preparer' \in Containers, view' \in [Snapshots -> Entries],
           \A n \in Snapshots : EntryWhole(n)',
           (Serves(preparer, "preparing") /\ PreparerKnows)'
    PROVE  GenerationsInv'
<1>1. SearchesGoOn
    BY SearchesStay
<1>2. GenerationTypes'
    BY DEF GenerationsInv, GenerationTypes
<1> QED
    BY <1>1, <1>2, ServesStay DEF GenerationsInv, SearchesGoOn

LEMMA MakeIndexStep ==
    ASSUME Generations!GenerationsAssumption, GenerationsInv, Generations!MakeIndex
    PROVE  GenerationsInv'
<1> DEFINE n == preparer.n
<1>1. /\ preparer.pc = "build" /\ view[n].plaid = "none"
      /\ view' = [view EXCEPT ![n].plaid = "partial"]
      /\ UNCHANGED <<published, prepared, lock, search, volume, preparer, searcher, trouble>>
    BY DEF Generations!MakeIndex
<1>2. /\ view' \in [Snapshots -> Entries]
      /\ \A m \in Snapshots : m # n => view'[m] = view[m]
      /\ view'[n].plaid = "partial" /\ view'[n].ready = view[n].ready
    BY <1>1, PreparerFacts DEF Entries
<1>3. \A m \in Snapshots : /\ view[m].plaid = "complete" => view'[m].plaid = "complete"
                           /\ view'[m].ready = view[m].ready
    BY <1>1, <1>2
<1>4. \A m \in Snapshots : EntryWhole(m)'
    BY <1>1, <1>3 DEF GenerationsInv, EntryWhole, Generations!Large
<1>5. PreparerKnows'
    BY <1>1, <1>3 DEF GenerationsInv, GenerationTypes, Containers, Snapshots, PreparerKnows, Generations!Large
<1>6. Serves(preparer, "preparing")'
    BY <1>1 DEF GenerationsInv, Serves
<1> QED
    BY <1>1, <1>2, <1>4, <1>5, <1>6, ViewMoves DEF GenerationsInv, GenerationTypes

LEMMA FinishBuildStep ==
    ASSUME Generations!GenerationsAssumption, GenerationsInv, Generations!FinishBuild
    PROVE  GenerationsInv'
<1> DEFINE n == preparer.n
<1>1. /\ preparer.pc = "build" /\ view' = [view EXCEPT ![n].plaid = "complete"]
      /\ preparer' = [preparer EXCEPT !.pc = "save", !.cached = n]
      /\ UNCHANGED <<published, prepared, lock, search, volume, searcher, trouble>>
    BY DEF Generations!FinishBuild
<1>2. /\ view' \in [Snapshots -> Entries] /\ n \in Snapshots
      /\ \A m \in Snapshots : m # n => view'[m] = view[m]
      /\ view'[n].plaid = "complete" /\ view'[n].ready = view[n].ready
    BY <1>1, PreparerFacts DEF Entries
<1>3. /\ preparer' \in Containers /\ preparer'.pc = "save" /\ preparer'.n = n
      /\ preparer'.cached = n /\ preparer'.caller = preparer.caller
    BY <1>1, PreparerFacts DEF Containers, Snapshots
<1>4. \A m \in Snapshots : /\ view[m].plaid = "complete" => view'[m].plaid = "complete"
                           /\ view'[m].ready = view[m].ready
    BY <1>2
<1>5. \A m \in Snapshots : EntryWhole(m)'
    BY <1>1, <1>4 DEF GenerationsInv, EntryWhole, Generations!Large
<1>6. PreparerKnows'
    BY <1>2, <1>3 DEF PreparerKnows
<1>7. Serves(preparer, "preparing")'
    BY <1>1, <1>3, PreparerFacts DEF Serves
<1> QED
    BY <1>1, <1>2, <1>3, <1>5, <1>6, <1>7, ViewMoves

LEMMA SaveGenerationStep ==
    ASSUME Generations!GenerationsAssumption, GenerationsInv, Generations!SaveGeneration
    PROVE  GenerationsInv'
<1> DEFINE n == preparer.n
<1>1. /\ preparer.pc = "save" /\ view' = [view EXCEPT ![n].ready = TRUE]
      /\ preparer' = [preparer EXCEPT !.pc = "reply"]
      /\ UNCHANGED <<published, prepared, lock, search, volume, searcher, trouble>>
    BY DEF Generations!SaveGeneration
<1>2. /\ view' \in [Snapshots -> Entries] /\ n \in Snapshots
      /\ \A m \in Snapshots : m # n => view'[m] = view[m]
      /\ view'[n].plaid = view[n].plaid /\ view'[n].ready
    BY <1>1, PreparerFacts DEF Entries
<1>3. /\ preparer' \in Containers /\ preparer'.pc = "reply" /\ preparer'.n = n
      /\ preparer'.cached = preparer.cached /\ preparer'.caller = preparer.caller
    BY <1>1, PreparerFacts DEF Containers
<1>4. Generations!Large(n) => view[n].plaid = "complete"
    BY <1>1 DEF GenerationsInv, PreparerKnows
<1>5. \A m \in Snapshots : EntryWhole(m)'
    BY <1>1, <1>2, <1>4 DEF GenerationsInv, EntryWhole, Generations!Large
<1>6. PreparerKnows'
    BY <1>1, <1>2, <1>3, PreparerFacts
       DEF GenerationsInv, PreparerKnows, Generations!Large, Containers, Snapshots
<1>7. Serves(preparer, "preparing")'
    BY <1>1, <1>3, PreparerFacts DEF Serves
<1> QED
    BY <1>1, <1>2, <1>3, <1>5, <1>6, <1>7, ViewMoves

\* The preparing container stops, or loses its request, and its caller is told.
LEMMA PreparerStops ==
    ASSUME Generations!GenerationsAssumption, GenerationsInv, preparer.pc # "idle",
           \/ preparer' = Generations!Idle
           \/ preparer' = [preparer EXCEPT !.pc = "idle", !.n = 0, !.caller = Generations!Nobody],
           NEW outcome \in {"failed", "refused"},
           Generations!Answer(preparer.caller, "preparing", outcome), trouble' \in 0 .. MaxTrouble,
           UNCHANGED <<published, prepared, volume, view, searcher>>
    PROVE  GenerationsInv'
<1>1. SearchesGoOn
    BY PreparerFacts, AnswerFits
<1>2. preparer' \in Containers /\ (Serves(preparer, "preparing") /\ PreparerKnows)'
    BY PreparerRests
<1>3. searcher' \in Containers /\ Serves(searcher, "searching")'
    BY <1>1, ServesStay DEF GenerationsInv, GenerationTypes
<1> QED
    BY <1>1, <1>2, <1>3, ContainersMove

\* The searching container stops, or loses its request, and its caller is told.
LEMMA SearcherStops ==
    ASSUME Generations!GenerationsAssumption, GenerationsInv, searcher.pc # "idle",
           \/ searcher' = Generations!Idle
           \/ searcher' = [searcher EXCEPT !.pc = "idle", !.n = 0, !.caller = Generations!Nobody],
           Generations!Answer(searcher.caller, "searching", "failed"), trouble' \in 0 .. MaxTrouble,
           UNCHANGED <<published, prepared, volume, view, preparer>>
    PROVE  GenerationsInv'
<1>1. searcher.caller \in Calls
    BY DEF GenerationsInv, Serves
<1>2. SearchesGoOn
    BY <1>1, AnswerFits
<1>3. searcher' \in Containers /\ Serves(searcher, "searching")'
    BY SearcherRests
<1>4. preparer' \in Containers /\ (Serves(preparer, "preparing") /\ PreparerKnows)'
    BY <1>2, ServesStay DEF GenerationsInv, GenerationTypes, PreparerKnows
<1> QED
    BY <1>2, <1>3, <1>4, ContainersMove

\* One more trouble is still within its bound.
LEMMA TroubleCounts ==
    ASSUME Generations!GenerationsAssumption, GenerationsInv, trouble < MaxTrouble, trouble' = trouble + 1
    PROVE  trouble' \in 0 .. MaxTrouble
BY DEF GenerationsInv, GenerationTypes, Generations!GenerationsAssumption

LEMMA PrepareEndsStep ==
    ASSUME Generations!GenerationsAssumption, GenerationsInv, Generations!RefusePins \/ Generations!PrepareFails
    PROVE  GenerationsInv'
<1>1. CASE Generations!RefusePins
    <2>1. preparer.pc # "idle"
        BY <1>1 DEF Generations!RefusePins
    <2> QED
        BY <1>1, <2>1, TroubleCounts, PreparerStops DEF Generations!RefusePins
<1>2. CASE Generations!PrepareFails
    <2>1. preparer.pc # "idle"
        BY <1>2 DEF Generations!PrepareFails
    <2> QED
        BY <1>2, <2>1, TroubleCounts, PreparerStops DEF Generations!PrepareFails
<1> QED
    BY <1>1, <1>2

LEMMA SearchFailsStep ==
    ASSUME Generations!GenerationsAssumption, GenerationsInv, Generations!SearchFails
    PROVE  GenerationsInv'
<1>1. searcher.pc # "idle"
    BY DEF Generations!SearchFails
<1> QED
    BY <1>1, TroubleCounts, SearcherStops DEF Generations!SearchFails

LEMMA FinishSearchStep ==
    ASSUME Generations!GenerationsAssumption, GenerationsInv, Generations!FinishSearch
    PROVE  GenerationsInv'
<1> SUFFICES ASSUME NEW c, c = searcher.caller PROVE GenerationsInv'
    OBVIOUS
<1>1. /\ searcher.pc = "reply"
      /\ searcher' = [searcher EXCEPT !.pc = "idle", !.n = 0, !.caller = Generations!Nobody]
      /\ UNCHANGED <<published, prepared, volume, view, preparer, trouble>>
    BY DEF Generations!FinishSearch
<1>2. /\ searcher.n \in Snapshots /\ c \in Calls
      /\ search[c].pc = "searching" => search[c].cutoff = searcher.n
      /\ search \in [Calls -> HybridSearches] /\ lock \in [Clients -> Calls \cup {Generations!Nobody}]
      /\ ClientOf \in [Calls -> Clients] /\ trouble \in 0 .. MaxTrouble
    BY <1>1 DEF GenerationsInv, GenerationTypes, Serves, Generations!GenerationsAssumption
<1>3. SearchesGoOn
    <2>1. CASE search[c].pc = "searching"
        <3>1. /\ search' = [search EXCEPT ![c].pc = "found", ![c].hits = searcher.n]
              /\ lock' = [lock EXCEPT ![ClientOf[c]] = Generations!Nobody] /\ lock[ClientOf[c]] = c
            BY <1>2, <2>1 DEF Generations!FinishSearch, GenerationsInv, SearchFits, UnderWay
        <3>2. searcher.n \in 0 .. MaxLog
            BY DEF GenerationsInv, GenerationTypes, Containers
        <3>3. /\ search' \in [Calls -> HybridSearches]
              /\ \A d \in Calls : d # c => search'[d] = search[d]
            BY <1>2, <3>1, <3>2 DEF HybridSearches, Generations!Over
        <3>4. /\ search'[c].pc = "found" /\ search'[c].hits = searcher.n
              /\ search'[c].cutoff = search[c].cutoff
            BY <1>2, <3>1 DEF HybridSearches
        <3>5. /\ lock' \in [Clients -> Calls \cup {Generations!Nobody}]
              /\ \A d \in Calls : d # c /\ lock[ClientOf[d]] = d => lock'[ClientOf[d]] = d
            BY <1>2, <3>1
        <3>6. SearchFits(c)'
            BY <1>2, <2>1, <3>4 DEF SearchFits, UnderWay
        <3>7. \A d \in Calls : d # c => SearchFits(d)'
            BY <1>1, <3>3, <3>5 DEF GenerationsInv, SearchFits
        <3> QED
            BY <3>3, <3>4, <3>5, <3>6, <3>7 DEF SearchesGoOn
    <2>2. CASE search[c].pc # "searching"
        BY <1>1, <2>2, SearchesStay DEF Generations!FinishSearch
    <2> QED
        BY <2>1, <2>2
<1>4. searcher' \in Containers /\ Serves(searcher, "searching")'
    BY <1>1, SearcherRests
<1>5. preparer' \in Containers /\ (Serves(preparer, "preparing") /\ PreparerKnows)'
    BY <1>1, <1>3, ServesStay DEF GenerationsInv, GenerationTypes, PreparerKnows
<1> QED
    BY <1>1, <1>2, <1>3, <1>4, <1>5, ContainersMove

\* What the preparing container sees becomes what is committed.
LEMMA CommitFits ==
    ASSUME GenerationsInv, volume' = view, UNCHANGED <<view, prepared>>
    PROVE  /\ volume' \in [Snapshots -> Entries]
           /\ \A n \in Snapshots : EntryWhole(n)'
           /\ \A i \in Clients : prepared'[i] # 0 => volume'[prepared'[i]].ready
<1>1. \A i \in Clients : prepared[i] # 0 => prepared[i] \in Snapshots
    BY DEF GenerationsInv, GenerationTypes, Snapshots
<1> QED
    BY <1>1 DEF GenerationsInv, GenerationTypes, EntryWhole, Generations!Large

LEMMA CommitAndReplyStep ==
    ASSUME Generations!GenerationsAssumption, GenerationsInv, Generations!CommitAndReply
    PROVE  GenerationsInv'
<1> SUFFICES ASSUME NEW c, NEW n, c = preparer.caller, n = preparer.n PROVE GenerationsInv'
    OBVIOUS
<1>1. /\ preparer.pc = "reply" /\ volume' = view
      /\ preparer' = [preparer EXCEPT !.pc = "idle", !.n = 0, !.caller = Generations!Nobody]
      /\ UNCHANGED <<published, lock, view, searcher, trouble>>
    BY DEF Generations!CommitAndReply, Generations!Reply
<1>2. /\ n \in Snapshots /\ c \in Calls /\ view[n].ready
      /\ search[c].pc = "preparing" => search[c].cutoff = n
      /\ search \in [Calls -> HybridSearches] /\ lock \in [Clients -> Calls \cup {Generations!Nobody}]
      /\ prepared \in [Clients -> 0 .. MaxLog] /\ ClientOf \in [Calls -> Clients]
    BY <1>1 DEF GenerationsInv, GenerationTypes, Serves, PreparerKnows, Generations!GenerationsAssumption
<1>3. preparer' \in Containers /\ (Serves(preparer, "preparing") /\ PreparerKnows)'
    BY <1>1, PreparerRests
<1>4. CASE search[c].pc = "preparing"
    <2>1. /\ prepared' = [prepared EXCEPT ![ClientOf[c]] = n]
          /\ search' = [search EXCEPT ![c].pc = "search"] /\ lock[ClientOf[c]] = c
        BY <1>2, <1>4 DEF Generations!CommitAndReply, Generations!Reply, Generations!Goto, GenerationsInv, SearchFits, UnderWay
    <2>2. /\ search' \in [Calls -> HybridSearches] /\ search'[c].pc = "search"
          /\ search'[c].cutoff = n
          /\ \A d \in Calls : d # c => search'[d] = search[d]
        BY <1>2, <1>4, <2>1 DEF HybridSearches
    <2>3. n \in 0 .. MaxLog
        BY <1>2 DEF Snapshots
    <2>4. /\ prepared' \in [Clients -> 0 .. MaxLog] /\ prepared'[ClientOf[c]] = n
          /\ \A i \in Clients : i # ClientOf[c] => prepared'[i] = prepared[i]
        BY <1>2, <2>1, <2>3
    <2>5. SearchFits(c)'
        BY <1>1, <1>2, <2>1, <2>2, <2>4 DEF SearchFits
    <2>6. ASSUME NEW d \in Calls, d # c PROVE SearchFits(d)'
        <3>1. search[d].pc \in UnderWay => ClientOf[d] # ClientOf[c]
            BY <2>1, <2>6 DEF GenerationsInv, SearchFits
        <3>2. SearchFits(d) /\ search'[d] = search[d] /\ ClientOf[d] \in Clients
            BY <1>2, <2>2, <2>6 DEF GenerationsInv
        <3> QED
            BY <1>1, <2>4, <3>1, <3>2 DEF SearchFits, UnderWay
    <2>7. SearchesGoOn
        BY <1>1, <1>2, <2>2, <2>5, <2>6 DEF SearchesGoOn
    <2>8. \A i \in Clients : prepared'[i] # 0 => volume'[prepared'[i]].ready
        <3>1. ASSUME NEW i \in Clients, i # ClientOf[c], prepared[i] # 0
              PROVE  view[prepared[i]].ready
            <4>1. prepared[i] \in Snapshots
                BY <1>2, <3>1 DEF Snapshots
            <4> QED
                BY <3>1, <4>1 DEF GenerationsInv, EntryWhole
        <3> QED
            BY <1>1, <1>2, <2>4, <3>1
    <2>9. \A m \in Snapshots : EntryWhole(m)'
        BY <1>1 DEF GenerationsInv, EntryWhole, Generations!Large
    <2>10. GenerationTypes'
        BY <1>1, <1>3, <2>4, <2>7 DEF GenerationsInv, GenerationTypes, SearchesGoOn
    <2> QED
        BY <1>1, <1>3, <2>7, <2>8, <2>9, <2>10, ServesStay DEF GenerationsInv, SearchesGoOn
<1>5. CASE search[c].pc # "preparing"
    <2>1. UNCHANGED <<prepared, search>>
        BY <1>5 DEF Generations!CommitAndReply, Generations!Reply
    <2>2. SearchesGoOn
        BY <1>1, <2>1, SearchesStay
    <2>3. GenerationTypes'
        BY <1>1, <1>3, <2>1 DEF GenerationsInv, GenerationTypes
    <2> QED
        BY <1>1, <1>3, <2>1, <2>2, <2>3, CommitFits, ServesStay DEF GenerationsInv, SearchesGoOn
<1> QED
    BY <1>4, <1>5

LEMMA BackgroundCommitStep ==
    ASSUME Generations!GenerationsAssumption, GenerationsInv, Generations!BackgroundCommit
    PROVE  GenerationsInv'
<1>1. /\ volume' = view
      /\ UNCHANGED <<published, prepared, lock, search, view, preparer, searcher, trouble>>
    BY DEF Generations!BackgroundCommit
<1>2. SearchesGoOn
    BY <1>1, SearchesStay
<1>3. GenerationTypes' /\ PreparerKnows'
    BY <1>1 DEF GenerationsInv, GenerationTypes, PreparerKnows
<1> QED
    BY <1>1, <1>2, <1>3, CommitFits, ServesStay DEF GenerationsInv, SearchesGoOn

LEMMA ScaleDownStep ==
    ASSUME Generations!GenerationsAssumption, GenerationsInv, Generations!ScaleDown
    PROVE  GenerationsInv'
<1>1. CASE /\ preparer' = Generations!Idle /\ volume' = view
           /\ UNCHANGED <<published, prepared, lock, search, view, searcher, trouble>>
    <2>1. SearchesGoOn
        BY <1>1, SearchesStay
    <2>2. preparer' \in Containers /\ (Serves(preparer, "preparing") /\ PreparerKnows)'
        BY <1>1, PreparerRests
    <2>3. GenerationTypes'
        BY <1>1, <2>2 DEF GenerationsInv, GenerationTypes
    <2> QED
        BY <1>1, <2>1, <2>2, <2>3, CommitFits, ServesStay DEF GenerationsInv, SearchesGoOn
<1>2. CASE /\ searcher' = Generations!Idle
           /\ UNCHANGED <<published, prepared, lock, search, volume, view, preparer, trouble>>
    <2>1. SearchesGoOn
        BY <1>2, SearchesStay
    <2>2. searcher' \in Containers /\ Serves(searcher, "searching")'
        BY <1>2, SearcherRests
    <2>3. preparer' \in Containers /\ (Serves(preparer, "preparing") /\ PreparerKnows)'
        BY <1>2, <2>1, ServesStay DEF GenerationsInv, GenerationTypes, PreparerKnows
    <2>4. trouble' \in 0 .. MaxTrouble
        BY <1>2 DEF GenerationsInv, GenerationTypes
    <2> QED
        BY <1>2, <2>1, <2>2, <2>3, <2>4, ContainersMove
<1> QED
    BY <1>1, <1>2 DEF Generations!ScaleDown

LEMMA KillStep ==
    ASSUME Generations!GenerationsAssumption, GenerationsInv, Generations!Kill
    PROVE  GenerationsInv'
<1>1. trouble' \in 0 .. MaxTrouble /\ UNCHANGED <<published, prepared, volume>>
    BY TroubleCounts DEF Generations!Kill
<1>2. CASE /\ preparer.pc # "idle" /\ preparer' = Generations!Idle /\ view' = volume
           /\ Generations!Answer(preparer.caller, "preparing", "failed") /\ UNCHANGED searcher
    <2>1. SearchesGoOn
        BY <1>1, <1>2, PreparerFacts, AnswerFits
    <2>2. Generations!Idle \in Containers /\ Generations!Idle.pc = "idle" /\ Generations!Idle.cached = 0
        <3>1. 0 \in 0 .. MaxLog
            BY DEF Generations!GenerationsAssumption
        <3> QED
            BY <3>1 DEF Generations!Idle, Containers
    <2>3. (Serves(preparer, "preparing") /\ PreparerKnows)'
        BY <1>2, <2>2 DEF Serves, PreparerKnows
    <2>4. Serves(searcher, "searching")'
        BY <1>2, <2>1, ServesStay
    <2>5. \A n \in Snapshots : EntryWhole(n)'
        BY <1>1, <1>2 DEF GenerationsInv, EntryWhole, Generations!Large
    <2>6. GenerationTypes'
        BY <1>1, <1>2, <2>1, <2>2 DEF GenerationsInv, GenerationTypes, SearchesGoOn
    <2>7. \A i \in Clients : prepared'[i] # 0 => volume'[prepared'[i]].ready
        BY <1>1 DEF GenerationsInv
    <2> QED
        BY <2>1, <2>3, <2>4, <2>5, <2>6, <2>7 DEF GenerationsInv, SearchesGoOn
<1>3. CASE /\ searcher.pc # "idle" /\ searcher' = Generations!Idle
           /\ Generations!Answer(searcher.caller, "searching", "failed") /\ UNCHANGED <<preparer, view>>
    BY <1>1, <1>3, SearcherStops
<1> QED
    BY <1>2, <1>3 DEF Generations!Kill

LEMMA GenerationsStep ==
    ASSUME Generations!GenerationsAssumption, GenerationsInv, [Generations!Next]_(Generations!vars)
    PROVE  GenerationsInv'
<1>1. CASE UNCHANGED Generations!vars
    <2>1. UNCHANGED <<published, prepared, lock, search, volume, view, preparer, searcher, trouble>>
        BY <1>1 DEF Generations!vars
    <2>2. trouble' \in 0 .. MaxTrouble /\ published' \in 0 .. MaxLog
        BY <2>1 DEF GenerationsInv, GenerationTypes
    <2> QED
        BY <2>1, <2>2, SearchesStay, SearchesMove
<1> QED
    BY <1>1, PublishSourceStep, EnterHybridStep, CancelStep, StartPrepareStep, StartSearchStep,
       LoadIndexStep, MakeIndexStep, FinishBuildStep, SaveGenerationStep, CommitAndReplyStep,
       PrepareEndsStep, FinishSearchStep, SearchFailsStep, BackgroundCommitStep, ScaleDownStep,
       KillStep DEF Generations!Next

-----------------------------------------------------------------------------
\* The invariant holds of the component by itself, and of this part among the others.
LEMMA GenerationsAlways ==
    /\ Generations!Spec => []GenerationsInv
    /\ Spec => [](part = "generations" => GenerationsInv)
<1> DEFINE Here == part = "generations" => GenerationsInv
<1>1. Generations!Init => GenerationsInv
    BY PartsAssumption, GenerationsInit
<1>2. GenerationsInv /\ [Generations!Next]_(Generations!vars) => GenerationsInv'
    BY PartsAssumption, GenerationsStep
<1>3. Init => Here
    BY <1>1 DEF Init
<1>4. Here /\ [Next]_vars => Here'
    <2>1. CASE UNCHANGED vars
        BY <1>2, <2>1 DEF vars, generationVars, Generations!vars
    <2>2. CASE Next
        <3>1. part' = part
            BY <2>2 DEF Next, NotBlobs, NotPaths, NotIndexes, NotGenerations, NotReads, NotCosts,
               NotRuns
        <3>2. part = "generations" => Generations!Next
            BY <2>2 DEF Next
        <3> QED
            BY <1>2, <3>1, <3>2
    <2> QED
        BY <2>1, <2>2
<1> HIDE DEF Here
<1>5. Generations!Spec => []GenerationsInv
    BY <1>1, <1>2, PTL DEF Generations!Spec
<1>6. Spec => []Here
    BY <1>3, <1>4, PTL DEF Spec
<1> QED
    BY <1>5, <1>6 DEF Here

\* A search answers from the generation of exactly the records that were committed when it
\* took the lock, whatever was cancelled, failed or killed before (node-search.md:148).
THEOREM HitsStayCurrent ==
    /\ Generations!Spec => []Generations!HitsAreCurrent
    /\ Spec => []HitsAreCurrent
<1>1. GenerationsInv => Generations!HitsAreCurrent
    BY DEF GenerationsInv, SearchFits, Generations!HitsAreCurrent
<1>2. (part = "generations" => GenerationsInv) => HitsAreCurrent
    BY <1>1 DEF HitsAreCurrent
<1> QED
    BY <1>1, <1>2, GenerationsAlways, PTL

\* What a client has prepared, and whatever workspace.json calls ready, is whole on the volume
\* that the other container sees, after any background commit or kill (live.py, prepare).
THEOREM GenerationsStayWhole ==
    /\ Generations!Spec => [](Generations!TypeOK /\ Generations!GenerationsWhole)
    /\ Spec => []GenerationsWhole
<1>1. GenerationsInv => Generations!TypeOK /\ Generations!GenerationsWhole
    BY GenerationsTyped DEF GenerationsInv, EntryWhole, Generations!GenerationsWhole, Snapshots, Generations!Snapshots
<1>2. (part = "generations" => GenerationsInv) => GenerationsWhole
    BY <1>1 DEF GenerationsWhole
<1> QED
    BY <1>1, <1>2, GenerationsAlways, PTL

-----------------------------------------------------------------------------
(* What a reader is shown: numbers *)

LEMMA LeastNumber ==
    ASSUME NEW S \in SUBSET Nat, S # {}
    PROVE  /\ Reads!Min(S) \in S
           /\ \A n \in S : Reads!Min(S) <= n
<1>1. \A x, y \in Nat : x < y => <<x, y>> \in OpToRel(<, Nat)
    BY DEF OpToRel
<1>2. PICK m \in S : \A n \in S : ~ (<<n, m>> \in OpToRel(<, Nat))
    BY NatLessThanWellFounded, WFMin
<1>3. ASSUME NEW n \in S PROVE m <= n
    <2>1. m \in Nat /\ n \in Nat /\ ~ (n < m)
        BY <1>1, <1>2
    <2> QED
        BY <2>1
<1> QED
    BY <1>3 DEF Reads!Min

LEMMA GreatestNumber ==
    ASSUME NEW S \in SUBSET Nat, NEW bound \in Nat, \A n \in S : n <= bound, S # {}
    PROVE  \E m \in S : \A n \in S : n <= m
<1> DEFINE below == {bound - n : n \in S}
           least == Reads!Min(below)
<1>1. below \in SUBSET Nat /\ below # {}
    <2>1. \A n \in S : bound - n \in Nat
        OBVIOUS
    <2> QED
        BY <2>1
<1>2. least \in below /\ \A d \in below : least <= d
    <2> HIDE DEF below
    <2> QED
        BY <1>1, LeastNumber
<1>3. PICK m \in S : least = bound - m
    BY <1>2
<1>4. ASSUME NEW n \in S PROVE n <= m
    <2>1. bound - m <= bound - n
        BY <1>2, <1>3
    <2> QED
        BY <2>1
<1> QED
    BY <1>4

LEMMA OfTwo ==
    ASSUME NEW a \in Nat, NEW b \in Nat
    PROVE  /\ Reads!Min({a, b}) = IF a <= b THEN a ELSE b
           /\ Reads!Max({a, b}) = IF a <= b THEN b ELSE a
<1>1. \A x \in {a, b} : (\A y \in {a, b} : x <= y) <=> x = IF a <= b THEN a ELSE b
    OBVIOUS
<1>2. \A x \in {a, b} : (\A y \in {a, b} : x >= y) <=> x = IF a <= b THEN b ELSE a
    OBVIOUS
<1> QED
    BY <1>1, <1>2 DEF Reads!Min, Reads!Max

\* Every number of a set has its own place among them.
LEMMA NthFits ==
    ASSUME NEW S \in SUBSET Nat, IsFiniteSet(S)
    PROVE  /\ Cardinality(S) \in Nat
           /\ \A k \in 1 .. Cardinality(S) : Reads!Nth(S, k) \in S
           /\ \A x \in S : \E k \in 1 .. Cardinality(S) : Reads!Nth(S, k) = x
           /\ \A k, j \in 1 .. Cardinality(S) : Reads!Nth(S, k) = Reads!Nth(S, j) => k = j
<1> DEFINE Below(x) == {y \in S : y < x}
           rank == [x \in S |-> Cardinality(Below(x))]
           top == Cardinality(S) - 1
<1>1. Cardinality(S) \in Nat
    BY FS_CardinalityType
<1>2. ASSUME NEW x \in S
      PROVE  rank[x] \in 0 .. top
    <2>1. IsFiniteSet(S \ {x}) /\ Cardinality(S \ {x}) = top
        BY FS_RemoveElement
    <2>2. Below(x) \in SUBSET (S \ {x})
        OBVIOUS
    <2>3. IsFiniteSet(Below(x)) /\ Cardinality(Below(x)) <= top
        BY <2>1, <2>2, FS_Subset
    <2>4. Cardinality(Below(x)) \in Nat
        BY <2>3, FS_CardinalityType
    <2> QED
        BY <1>1, <2>3, <2>4
<1>3. ASSUME NEW x \in S, NEW y \in S, x < y
      PROVE  rank[x] < rank[y]
    <2>1. IsFiniteSet(Below(y)) /\ IsFiniteSet(Below(x))
        BY FS_Subset
    <2>2. Below(x) \cup {x} \in SUBSET Below(y) /\ x \notin Below(x)
        <3>1. \A z \in S : z < x => z < y
            BY <1>3
        <3>2. ~ (x < x) /\ x \in Below(y)
            BY <1>3
        <3>3. Below(x) \subseteq Below(y)
            BY <3>1
        <3> QED
            BY <3>2, <3>3
    <2>3. Cardinality(Below(x) \cup {x}) = Cardinality(Below(x)) + 1
        BY <2>1, <2>2, FS_AddElement
    <2>4. Cardinality(Below(x) \cup {x}) <= Cardinality(Below(y))
        BY <2>1, <2>2, FS_Subset
    <2>5. Cardinality(Below(x)) \in Nat /\ Cardinality(Below(y)) \in Nat
        BY <2>1, FS_CardinalityType
    <2> QED
        BY <2>3, <2>4, <2>5
<1>4. \A x, y \in S : rank[x] = rank[y] => x = y
    <2>1. ASSUME NEW x \in S, NEW y \in S, x # y PROVE rank[x] # rank[y]
        <3>1. x < y \/ y < x
            BY <2>1
        <3>2. rank[x] \in Int /\ rank[y] \in Int
            BY <1>2
        <3> HIDE DEF rank
        <3> QED
            BY <1>3, <3>1, <3>2
    <2> HIDE DEF rank
    <2> QED
        BY <2>1
<1>5. ASSUME NEW i \in 0 .. top PROVE \E x \in S : rank[x] = i
    <2>1. rank \in Injection(S, 0 .. top)
        <3>1. rank \in [S -> 0 .. top]
            BY <1>2
        <3> HIDE DEF rank
        <3> QED
            BY <1>4, <3>1 DEF Injection, IsInjective
    <2>2. IsFiniteSet(0 .. top) /\ Cardinality(0 .. top) = Cardinality(S)
        BY <1>1, FS_Interval
    <2>3. rank \in Surjection(S, 0 .. top)
        <3> HIDE DEF rank
        <3> QED
            BY <2>1, <2>2, FS_Injection
    <2> HIDE DEF rank
    <2> QED
        BY <2>3 DEF Surjection
<1>6. ASSUME NEW k \in 1 .. Cardinality(S)
      PROVE  /\ Reads!Nth(S, k) \in S /\ rank[Reads!Nth(S, k)] = k - 1
             /\ \A x \in S : rank[x] = k - 1 => Reads!Nth(S, k) = x
    <2>1. \A x \in S : Reads!Cardinality({y \in S : y < x}) = rank[x]
        BY SizesAgree
    <2>2. k - 1 \in 0 .. top
        BY <1>1
    <2>3. \E x \in S : rank[x] = k - 1
        <3> HIDE DEF rank
        <3> QED
            BY <1>5, <2>2
    <2>4. Reads!Nth(S, k) = CHOOSE x \in S : Reads!Cardinality({y \in S : y < x}) = k - 1
        BY DEF Reads!Nth
    <2>5. Reads!Nth(S, k) \in S /\ Reads!Cardinality({y \in S : y < Reads!Nth(S, k)}) = k - 1
        <3> HIDE DEF rank
        <3> QED
            BY <2>1, <2>3, <2>4
    <2> HIDE DEF rank
    <2> QED
        BY <1>4, <2>1, <2>5
<1>7. ASSUME NEW x \in S PROVE \E k \in 1 .. Cardinality(S) : Reads!Nth(S, k) = x
    <2>1. rank[x] \in 0 .. top
        BY <1>2
    <2>2. rank[x] + 1 \in 1 .. Cardinality(S) /\ rank[x] = (rank[x] + 1) - 1
        BY <1>1, <2>1
    <2> HIDE DEF rank
    <2> QED
        BY <1>6, <2>2
<1>8. ASSUME NEW k \in 1 .. Cardinality(S), NEW j \in 1 .. Cardinality(S),
             Reads!Nth(S, k) = Reads!Nth(S, j)
      PROVE  k = j
    <2>1. rank[Reads!Nth(S, k)] = k - 1 /\ rank[Reads!Nth(S, j)] = j - 1
        BY <1>6
    <2> HIDE DEF rank
    <2> QED
        BY <1>1, <1>8, <2>1
<1> QED
    BY <1>1, <1>6, <1>7, <1>8

-----------------------------------------------------------------------------
(* What a reader is shown: one passage *)

Views == UNION {[D -> Reads!Statuses] : D \in SUBSET Amendments}
Links == [entry : Amendments, view : Views]
Pieces == [kind : {"read", "text", "confirmed", "note", "blocked"}, ref : Reads!References,
           path : SUBSET Reads!References, chain : Seq(Links), view : Views]

\* The steps of Span by name.
Bounds(ref, held) ==
    {ref.lo, ref.hi}
        \cup {Reads!Max({ref.lo, SubjectOf[a].lo}) : a \in Reads!Applicable(ref, held)}
        \cup {Reads!Min({ref.hi, SubjectOf[a].hi}) : a \in Reads!Applicable(ref, held)}
CutAt(ref, held, lo) ==
    [ref EXCEPT !.lo = lo, !.hi = Reads!Min({b \in Bounds(ref, held) : b > lo})]
OnCut(ref, held, lo) ==
    {a \in Reads!Applicable(ref, held) : Reads!Overlaps(SubjectOf[a], CutAt(ref, held, lo))}
SegmentAt(ref, item, held, lo) ==
    CASE OnCut(ref, held, lo) = {} -> Reads!Piece("text", CutAt(ref, held, lo), {}, item.chain, held)
      [] Reads!Cardinality(OnCut(ref, held, lo)) > 1 ->
             Reads!Blocked(CutAt(ref, held, lo), item, held)
      [] OTHER -> Reads!Replacement(CHOOSE a \in OnCut(ref, held, lo) : TRUE, CutAt(ref, held, lo),
                                    Reads!Applicable(ref, held), item, held)
Starts(ref, held) ==
    {lo \in Bounds(ref, held) \ {ref.hi} :
        Reads!Cardinality(OnCut(ref, held, lo)) = 1 =>
            \A b \in Bounds(ref, held) : b < lo => OnCut(ref, held, b) # OnCut(ref, held, lo)}
WholeIn(held) == \E a \in Reads!PatchesIn(held) : SubjectOf[a].kind = "node"

LEMMA SpanParts ==
    ASSUME NEW ref, NEW item, NEW held
    PROVE  Reads!Span(ref, item, held) =
               IF WholeIn(held) THEN <<Reads!Blocked(ref, item, held)>>
               ELSE [k \in 1 .. Reads!Cardinality(Starts(ref, held)) |->
                         SegmentAt(ref, item, held, Reads!Nth(Starts(ref, held), k))]
BY Zenon DEF Reads!Span, WholeIn, Starts, SegmentAt, OnCut, CutAt, Bounds

LEMMA RefFits ==
    ASSUME NEW ref \in Reads!References
    PROVE  /\ ref.lo \in Nat /\ ref.hi \in Nat /\ ref.lo < ref.hi /\ ref.hi <= Length
           /\ ref.kind \in {"span", "node", "note"} /\ ref.node \in Nodes
           /\ ref = [kind |-> ref.kind, node |-> ref.node, lo |-> ref.lo, hi |-> ref.hi]
BY PartsAssumption DEF Reads!References, Reads!ReadsAssumption

LEMMA SubjectFits ==
    ASSUME NEW held \in Views, NEW a \in Reads!PatchesIn(held)
    PROVE  /\ a \in Amendments
           /\ SubjectOf[a] \in Reads!References /\ TargetOf[a] \in Reads!References
           /\ SubjectOf[a].lo \in Nat /\ SubjectOf[a].hi \in Nat
           /\ SubjectOf[a].lo < SubjectOf[a].hi
<1>1. a \in Amendments
    BY DEF Views, Reads!PatchesIn
<1>2. SubjectOf[a] \in Reads!References /\ TargetOf[a] \in Reads!References
    BY <1>1, PartsAssumption DEF Reads!ReadsAssumption
<1> QED
    BY <1>1, <1>2, RefFits

LEMMA BoundsFit ==
    ASSUME NEW ref \in Reads!References, NEW held \in Views
    PROVE  /\ Bounds(ref, held) \in SUBSET Nat
           /\ \A b \in Bounds(ref, held) : ref.lo <= b /\ b <= ref.hi
           /\ ref.lo \in Bounds(ref, held) /\ ref.hi \in Bounds(ref, held)
           /\ \A a \in Reads!Applicable(ref, held) :
                  /\ SubjectOf[a].lo <= ref.lo \/ SubjectOf[a].lo \in Bounds(ref, held)
                  /\ SubjectOf[a].hi >= ref.hi \/ SubjectOf[a].hi \in Bounds(ref, held)
<1>1. ref.lo \in Nat /\ ref.hi \in Nat /\ ref.lo < ref.hi
    BY RefFits
<1>2. ASSUME NEW a \in Reads!Applicable(ref, held)
      PROVE  /\ Reads!Max({ref.lo, SubjectOf[a].lo}) \in Nat
             /\ ref.lo <= Reads!Max({ref.lo, SubjectOf[a].lo})
             /\ Reads!Max({ref.lo, SubjectOf[a].lo}) <= ref.hi
             /\ Reads!Min({ref.hi, SubjectOf[a].hi}) \in Nat
             /\ ref.lo <= Reads!Min({ref.hi, SubjectOf[a].hi})
             /\ Reads!Min({ref.hi, SubjectOf[a].hi}) <= ref.hi
             /\ SubjectOf[a].lo <= ref.lo \/ SubjectOf[a].lo = Reads!Max({ref.lo, SubjectOf[a].lo})
             /\ SubjectOf[a].hi >= ref.hi \/ SubjectOf[a].hi = Reads!Min({ref.hi, SubjectOf[a].hi})
    <2>1. /\ SubjectOf[a].lo \in Nat /\ SubjectOf[a].hi \in Nat
          /\ SubjectOf[a].lo < ref.hi /\ SubjectOf[a].hi > ref.lo
        BY SubjectFits DEF Reads!Applicable, Reads!Overlaps
    <2>2. /\ Reads!Max({ref.lo, SubjectOf[a].lo}) =
                 IF ref.lo <= SubjectOf[a].lo THEN SubjectOf[a].lo ELSE ref.lo
          /\ Reads!Min({ref.hi, SubjectOf[a].hi}) =
                 IF ref.hi <= SubjectOf[a].hi THEN ref.hi ELSE SubjectOf[a].hi
        BY <1>1, <2>1, OfTwo
    <2> QED
        BY <1>1, <2>1, <2>2
<1>3. ASSUME NEW b \in Bounds(ref, held) PROVE b \in Nat /\ ref.lo <= b /\ b <= ref.hi
    <2>1. \/ b = ref.lo
          \/ b = ref.hi
          \/ \E a \in Reads!Applicable(ref, held) : b = Reads!Max({ref.lo, SubjectOf[a].lo})
          \/ \E a \in Reads!Applicable(ref, held) : b = Reads!Min({ref.hi, SubjectOf[a].hi})
        BY DEF Bounds
    <2>2. CASE b = ref.lo \/ b = ref.hi
        BY <1>1, <2>2
    <2>3. CASE \E a \in Reads!Applicable(ref, held) :
                   \/ b = Reads!Max({ref.lo, SubjectOf[a].lo})
                   \/ b = Reads!Min({ref.hi, SubjectOf[a].hi})
        BY <1>2, <2>3
    <2> QED
        BY <2>1, <2>2, <2>3
<1> QED
    BY <1>2, <1>3 DEF Bounds

LEMMA CutFits ==
    ASSUME NEW ref \in Reads!References, NEW held \in Views, NEW lo \in Bounds(ref, held) \ {ref.hi}
    PROVE  /\ CutAt(ref, held, lo) \in Reads!References
           /\ CutAt(ref, held, lo).kind = ref.kind
           /\ CutAt(ref, held, lo).lo = lo /\ lo \in Nat /\ ref.lo <= lo
           /\ CutAt(ref, held, lo).hi \in Nat
           /\ lo < CutAt(ref, held, lo).hi /\ CutAt(ref, held, lo).hi <= ref.hi
           /\ \A b \in Bounds(ref, held) : b <= lo \/ CutAt(ref, held, lo).hi <= b
<1> DEFINE above == {b \in Bounds(ref, held) : b > lo}
           hi == Reads!Min(above)
<1>1. /\ ref.lo \in Nat /\ ref.hi \in Nat /\ ref.lo < ref.hi /\ ref.hi <= Length
      /\ ref.kind \in {"span", "node", "note"} /\ ref.node \in Nodes
      /\ ref = [kind |-> ref.kind, node |-> ref.node, lo |-> ref.lo, hi |-> ref.hi]
    BY RefFits
<1>2. lo \in Nat /\ ref.lo <= lo /\ lo < ref.hi
    BY <1>1, BoundsFit
<1>3. above \in SUBSET Nat /\ ref.hi \in above
    BY <1>2, BoundsFit
<1>4. hi \in above /\ \A b \in above : hi <= b
    <2> HIDE DEF above
    <2> QED
        BY <1>3, LeastNumber
<1>5. hi \in Nat /\ lo < hi /\ hi <= ref.hi
    BY <1>2, <1>3, <1>4, BoundsFit
<1>6. \A b \in Bounds(ref, held) : b <= lo \/ hi <= b
    <2>1. \A b \in Bounds(ref, held) : b \in Nat
        BY BoundsFit
    <2> QED
        BY <1>2, <1>4, <2>1
<1>7. CutAt(ref, held, lo) = [kind |-> ref.kind, node |-> ref.node, lo |-> lo, hi |-> hi]
    <2>1. CutAt(ref, held, lo) = [ref EXCEPT !.lo = lo, !.hi = hi]
        BY Zenon DEF CutAt
    <2> HIDE DEF hi
    <2> QED
        BY <1>1, <2>1
<1> HIDE DEF hi
<1>8. hi \in 0 .. Length /\ lo \in 0 .. Length
    BY <1>1, <1>2, <1>5, PartsAssumption DEF Reads!ReadsAssumption
<1> QED
    BY <1>1, <1>2, <1>5, <1>6, <1>7, <1>8 DEF Reads!References

\* A cut that no amendment is on has no covered position.
LEMMA CutIsClear ==
    ASSUME NEW ref \in Reads!References, NEW held \in Views, ~ WholeIn(held),
           NEW lo \in Bounds(ref, held) \ {ref.hi}, OnCut(ref, held, lo) = {},
           NEW position \in Reads!Positions(CutAt(ref, held, lo))
    PROVE  ~ Reads!Covered(held, position)
<1>1. /\ position \in Int /\ lo <= position /\ position < CutAt(ref, held, lo).hi
      /\ ref.lo <= position /\ position < ref.hi
      /\ CutAt(ref, held, lo).lo = lo /\ lo \in Nat /\ CutAt(ref, held, lo).hi \in Nat
      /\ ref.lo \in Nat /\ ref.hi \in Nat
    BY CutFits, RefFits DEF Reads!Positions
<1>2. ASSUME NEW a \in Reads!PatchesIn(held), position \in Reads!Positions(SubjectOf[a])
      PROVE  FALSE
    <2>1. /\ SubjectOf[a].lo \in Nat /\ SubjectOf[a].hi \in Nat
          /\ SubjectOf[a].lo <= position /\ position < SubjectOf[a].hi
        BY <1>2, SubjectFits DEF Reads!Positions
    <2>2. Reads!Overlaps(SubjectOf[a], ref) /\ Reads!Overlaps(SubjectOf[a], CutAt(ref, held, lo))
        BY <1>1, <2>1 DEF Reads!Overlaps
    <2> QED
        BY <2>2 DEF Reads!Applicable, OnCut
<1> QED
    BY <1>2 DEF Reads!Covered, WholeIn

\* An amendment on a cut covers all of it.
LEMMA CutIsWhole ==
    ASSUME NEW ref \in Reads!References, NEW held \in Views,
           NEW lo \in Bounds(ref, held) \ {ref.hi}, OnCut(ref, held, lo) # {},
           NEW position \in Reads!Positions(CutAt(ref, held, lo))
    PROVE  Reads!Covered(held, position)
<1>1. /\ position \in Int /\ lo <= position /\ position < CutAt(ref, held, lo).hi
      /\ ref.lo <= lo /\ CutAt(ref, held, lo).hi <= ref.hi
      /\ CutAt(ref, held, lo).lo = lo /\ lo \in Nat /\ CutAt(ref, held, lo).hi \in Nat
      /\ ref.lo \in Nat /\ ref.hi \in Nat
      /\ \A b \in Bounds(ref, held) : b <= lo \/ CutAt(ref, held, lo).hi <= b
    BY CutFits, RefFits DEF Reads!Positions
<1>2. PICK a \in OnCut(ref, held, lo) : TRUE
    OBVIOUS
<1>3. /\ a \in Reads!Applicable(ref, held) /\ a \in Reads!PatchesIn(held)
      /\ SubjectOf[a].lo < CutAt(ref, held, lo).hi /\ SubjectOf[a].hi > lo
    BY <1>1, <1>2 DEF OnCut, Reads!Applicable, Reads!Overlaps
<1>4. SubjectOf[a].lo \in Nat /\ SubjectOf[a].hi \in Nat
    BY <1>3, SubjectFits
<1>5. SubjectOf[a].lo <= lo
    BY <1>1, <1>3, <1>4, BoundsFit
<1>6. CutAt(ref, held, lo).hi <= SubjectOf[a].hi
    BY <1>1, <1>3, <1>4, BoundsFit
<1>7. position \in Reads!Positions(SubjectOf[a])
    BY <1>1, <1>4, <1>5, <1>6 DEF Reads!Positions
<1> QED
    BY <1>3, <1>7 DEF Reads!Covered

\* Every position is on one cut.
LEMMA CutFound ==
    ASSUME NEW ref \in Reads!References, NEW held \in Views, NEW position \in Reads!Positions(ref)
    PROVE  \E lo \in Bounds(ref, held) \ {ref.hi} : position \in Reads!Positions(CutAt(ref, held, lo))
<1> DEFINE upTo == {b \in Bounds(ref, held) : b <= position}
<1>1. /\ position \in Nat /\ ref.lo <= position /\ position < ref.hi
      /\ ref.lo \in Nat /\ ref.hi \in Nat
    BY RefFits DEF Reads!Positions
<1>2. upTo \in SUBSET Nat /\ ref.lo \in upTo /\ \A b \in upTo : b <= position
    BY <1>1, BoundsFit
<1>3. PICK lo \in upTo : \A b \in upTo : b <= lo
    <2> HIDE DEF upTo
    <2> QED
        BY <1>1, <1>2, GreatestNumber
<1>4. lo \in Bounds(ref, held) \ {ref.hi} /\ lo <= position
    BY <1>1, <1>3
<1>5. /\ CutAt(ref, held, lo).lo = lo /\ lo \in Nat
      /\ CutAt(ref, held, lo).hi \in Nat /\ lo < CutAt(ref, held, lo).hi
    BY <1>4, CutFits
<1>6. CutAt(ref, held, lo).hi \in Bounds(ref, held)
    <2> DEFINE above == {b \in Bounds(ref, held) : b > lo}
    <2>1. above \in SUBSET Nat /\ ref.hi \in above
        BY <1>1, <1>4, BoundsFit
    <2>2. Reads!Min(above) \in above
        <3> HIDE DEF above
        <3> QED
            BY <2>1, LeastNumber
    <2>3. CutAt(ref, held, lo).hi = Reads!Min(above)
        BY RefFits DEF CutAt
    <2> QED
        BY <2>2, <2>3
<1>7. position < CutAt(ref, held, lo).hi
    BY <1>1, <1>3, <1>5, <1>6
<1> QED
    BY <1>1, <1>4, <1>5, <1>7 DEF Reads!Positions

LEMMA CutOnce ==
    ASSUME NEW ref \in Reads!References, NEW held \in Views,
           NEW lo \in Bounds(ref, held) \ {ref.hi}, NEW other \in Bounds(ref, held) \ {ref.hi},
           NEW position,
           position \in Reads!Positions(CutAt(ref, held, lo)),
           position \in Reads!Positions(CutAt(ref, held, other))
    PROVE  lo = other
<1>1. /\ lo \in Nat /\ CutAt(ref, held, lo).lo = lo /\ CutAt(ref, held, lo).hi \in Nat
      /\ \A b \in Bounds(ref, held) : b <= lo \/ CutAt(ref, held, lo).hi <= b
    BY CutFits
<1>2. /\ other \in Nat /\ CutAt(ref, held, other).lo = other /\ CutAt(ref, held, other).hi \in Nat
      /\ \A b \in Bounds(ref, held) : b <= other \/ CutAt(ref, held, other).hi <= b
    BY CutFits
<1>3. /\ position \in Int /\ lo <= position /\ position < CutAt(ref, held, lo).hi
      /\ other <= position /\ position < CutAt(ref, held, other).hi
    BY <1>1, <1>2 DEF Reads!Positions
<1>4. other <= lo /\ lo <= other
    BY <1>1, <1>2, <1>3
<1> QED
    BY <1>1, <1>2, <1>4

-----------------------------------------------------------------------------
(* What a reader is shown: the pieces of one node *)

\* What pieces read from an item, with a view, promise: a text is the item's own and nothing
\* in it is amended; what is to be read next has an amendment that led there.
Fits(pieces, item) ==
    /\ pieces \in Seq(Pieces)
    /\ \A i \in DOMAIN pieces :
           /\ pieces[i].kind = "read" => pieces[i].chain # <<>>
           /\ pieces[i].kind = "text" =>
                  /\ pieces[i].chain = item.chain
                  /\ \A position \in Reads!Positions(pieces[i].ref) :
                         ~ Reads!Covered(pieces[i].view, position)

TextAt(pieces, position) ==
    {i \in DOMAIN pieces : /\ pieces[i].kind = "text" /\ pieces[i].chain = <<>>
                           /\ position \in Reads!Positions(pieces[i].ref)}

\* Every position is there once, or amended and not there.
Exact(pieces, ref, held) ==
    \A position \in Reads!Positions(ref) :
        /\ Reads!Covered(held, position) => TextAt(pieces, position) = {}
        /\ ~ Reads!Covered(held, position) => \E i : TextAt(pieces, position) = {i}

LEMMA PieceFits ==
    ASSUME NEW kind \in {"read", "text", "confirmed", "note", "blocked"},
           NEW ref \in Reads!References, NEW path \in SUBSET Reads!References,
           NEW chain \in Seq(Links), NEW held \in Views
    PROVE  /\ Reads!Piece(kind, ref, path, chain, held) \in Pieces
           /\ Reads!Piece(kind, ref, path, chain, held).kind = kind
           /\ Reads!Piece(kind, ref, path, chain, held).ref = ref
           /\ Reads!Piece(kind, ref, path, chain, held).path = path
           /\ Reads!Piece(kind, ref, path, chain, held).chain = chain
           /\ Reads!Piece(kind, ref, path, chain, held).view = held
BY DEF Reads!Piece, Pieces

LEMMA BlockedFits ==
    ASSUME NEW ref \in Reads!References, NEW item \in Pieces, NEW held \in Views
    PROVE  /\ Reads!Blocked(ref, item, held) \in Pieces
           /\ Reads!Blocked(ref, item, held).kind = "blocked"
<1>1. item.chain \in Seq(Links) /\ {} \in SUBSET Reads!References
    BY DEF Pieces
<1> QED
    BY <1>1, PieceFits DEF Reads!Blocked

LEMMA ReplacementFits ==
    ASSUME NEW held \in Views, NEW a \in Reads!PatchesIn(held), NEW ref \in Reads!References,
           NEW applicable, NEW item \in Pieces
    PROVE  /\ Reads!Replacement(a, ref, applicable, item, held) \in Pieces
           /\ Reads!Replacement(a, ref, applicable, item, held).kind # "text"
           /\ Reads!Replacement(a, ref, applicable, item, held).kind = "read" =>
                  Reads!Replacement(a, ref, applicable, item, held).chain # <<>>
<1> DEFINE chain == Append(item.chain, [entry |-> a, view |-> held])
           found == Reads!Replacement(a, ref, applicable, item, held)
<1>1. chain \in Seq(Links) /\ chain # <<>>
    BY SubjectFits DEF Pieces, Links
<1>2. /\ TargetOf[a] \in Reads!References /\ {} \in SUBSET Reads!References
      /\ item.path \cup {item.ref} \in SUBSET Reads!References
    BY SubjectFits DEF Pieces
<1>3. \/ found = Reads!Blocked(ref, item, held)
      \/ found = Reads!Piece("confirmed", ref, {}, chain, held)
      \/ found = Reads!Piece("read", TargetOf[a], item.path \cup {item.ref}, chain, held)
    <2> DEFINE stuck == \/ held[a] = "unresolved"
                        \/ Reads!Disputed(a, applicable)
                        \/ TargetOf[a].kind = "node" /\ ref.kind # "node"
    <2>1. found =
              IF stuck THEN Reads!Blocked(ref, item, held)
              ELSE IF TargetOf[a] = SubjectOf[a] THEN Reads!Piece("confirmed", ref, {}, chain, held)
              ELSE Reads!Piece("read", TargetOf[a], item.path \cup {item.ref}, chain, held)
        BY Zenon DEF Reads!Replacement
    <2> HIDE DEF found, stuck, chain
    <2> QED
        BY <2>1
<1> HIDE DEF chain, found
<1>4. found \in Pieces /\ found.kind # "text" /\ (found.kind = "read" => found.chain # <<>>)
    <2>1. CASE found = Reads!Blocked(ref, item, held)
        BY <2>1, BlockedFits
    <2>2. CASE found = Reads!Piece("confirmed", ref, {}, chain, held)
        BY <1>1, <1>2, <2>2, PieceFits
    <2>3. CASE found = Reads!Piece("read", TargetOf[a], item.path \cup {item.ref}, chain, held)
        BY <1>1, <1>2, <2>3, PieceFits
    <2> QED
        BY <1>3, <2>1, <2>2, <2>3
<1> QED
    BY <1>4 DEF found

LEMMA SegmentFits ==
    ASSUME NEW ref \in Reads!References, NEW item \in Pieces, NEW held \in Views,
           NEW lo \in Bounds(ref, held) \ {ref.hi}
    PROVE  /\ SegmentAt(ref, item, held, lo) \in Pieces
           /\ SegmentAt(ref, item, held, lo).kind = "text" <=> OnCut(ref, held, lo) = {}
           /\ SegmentAt(ref, item, held, lo).kind = "text" =>
                  /\ SegmentAt(ref, item, held, lo).chain = item.chain
                  /\ SegmentAt(ref, item, held, lo).view = held
                  /\ SegmentAt(ref, item, held, lo).ref = CutAt(ref, held, lo)
           /\ SegmentAt(ref, item, held, lo).kind = "read" =>
                  SegmentAt(ref, item, held, lo).chain # <<>>
<1>1. /\ CutAt(ref, held, lo) \in Reads!References
      /\ item.chain \in Seq(Links) /\ {} \in SUBSET Reads!References
    BY CutFits DEF Pieces
<1>2. CASE OnCut(ref, held, lo) = {}
    <2>1. SegmentAt(ref, item, held, lo) =
              Reads!Piece("text", CutAt(ref, held, lo), {}, item.chain, held)
        <3>1. Reads!Cardinality({}) = 0
            BY SizesAgree, FS_EmptySet
        <3>2. ~ (Reads!Cardinality(OnCut(ref, held, lo)) > 1)
            BY <1>2, <3>1
        <3> QED
            BY <1>2, <3>2 DEF SegmentAt
    <2> QED
        BY <1>1, <1>2, <2>1, PieceFits
<1>3. CASE OnCut(ref, held, lo) # {}
    <2> DEFINE a == CHOOSE a \in OnCut(ref, held, lo) : TRUE
    <2>1. a \in OnCut(ref, held, lo)
        BY <1>3
    <2>2. a \in Reads!PatchesIn(held)
        BY <2>1 DEF OnCut, Reads!Applicable
    <2>3. \/ SegmentAt(ref, item, held, lo) = Reads!Blocked(CutAt(ref, held, lo), item, held)
          \/ SegmentAt(ref, item, held, lo) =
                 Reads!Replacement(a, CutAt(ref, held, lo), Reads!Applicable(ref, held), item, held)
        <3>1. SegmentAt(ref, item, held, lo) =
                  CASE OnCut(ref, held, lo) = {} ->
                           Reads!Piece("text", CutAt(ref, held, lo), {}, item.chain, held)
                    [] Reads!Cardinality(OnCut(ref, held, lo)) > 1 ->
                           Reads!Blocked(CutAt(ref, held, lo), item, held)
                    [] OTHER -> Reads!Replacement(a, CutAt(ref, held, lo),
                                                  Reads!Applicable(ref, held), item, held)
            BY Zenon DEF SegmentAt
        <3> HIDE DEF a
        <3> QED
            BY <1>3, <3>1
    <2> HIDE DEF a
    <2> QED
        BY <1>1, <1>3, <2>2, <2>3, BlockedFits, ReplacementFits
<1> QED
    BY <1>2, <1>3

LEMMA StartsFit ==
    ASSUME NEW ref \in Reads!References, NEW held \in Views
    PROVE  /\ Starts(ref, held) \in SUBSET Nat /\ IsFiniteSet(Starts(ref, held))
           /\ Starts(ref, held) \subseteq Bounds(ref, held) \ {ref.hi}
           /\ \A lo \in Bounds(ref, held) \ {ref.hi} :
                  OnCut(ref, held, lo) = {} => lo \in Starts(ref, held)
<1>1. Starts(ref, held) \subseteq Bounds(ref, held) \ {ref.hi}
    BY DEF Starts
<1>2. ref.lo \in Nat /\ ref.hi \in Nat /\ Bounds(ref, held) \in SUBSET (ref.lo .. ref.hi)
    BY RefFits, BoundsFit
<1>3. IsFiniteSet(ref.lo .. ref.hi)
    BY <1>2, FS_Interval
<1>4. Starts(ref, held) \in SUBSET (ref.lo .. ref.hi)
    BY <1>1, <1>2
<1>5. IsFiniteSet(Starts(ref, held))
    BY <1>3, <1>4, FS_Subset
<1>6. Reads!Cardinality({}) # 1
    BY SizesAgree, FS_EmptySet
<1>7. Starts(ref, held) \in SUBSET Nat
    BY <1>1, BoundsFit
<1>8. \A lo \in Bounds(ref, held) \ {ref.hi} :
          OnCut(ref, held, lo) = {} => lo \in Starts(ref, held)
    BY <1>6 DEF Starts
<1> QED
    BY <1>1, <1>5, <1>7, <1>8

\* One piece that shows nothing.
LEMMA OnePiece ==
    ASSUME NEW item, NEW piece \in Pieces, piece.kind # "text",
           piece.kind = "read" => piece.chain # <<>>
    PROVE  /\ Fits(<<piece>>, item)
           /\ \A position : TextAt(<<piece>>, position) = {}
BY DEF Fits, TextAt

LEMMA SpanFits ==
    ASSUME NEW ref \in Reads!References, NEW item \in Pieces, NEW held \in Views
    PROVE  /\ Fits(Reads!Span(ref, item, held), item)
           /\ item.chain = <<>> => Exact(Reads!Span(ref, item, held), ref, held)
<1> DEFINE pieces == Reads!Span(ref, item, held)
           size == Cardinality(Starts(ref, held))
           Start(k) == Reads!Nth(Starts(ref, held), k)
<1>1. CASE WholeIn(held)
    <2>1. pieces = <<Reads!Blocked(ref, item, held)>>
        BY <1>1, SpanParts
    <2>2. Reads!Blocked(ref, item, held) \in Pieces /\ Reads!Blocked(ref, item, held).kind = "blocked"
        BY BlockedFits
    <2>3. Fits(pieces, item) /\ \A position : TextAt(pieces, position) = {}
        BY <2>1, <2>2, OnePiece
    <2>4. \A position : Reads!Covered(held, position)
        BY <1>1 DEF WholeIn, Reads!Covered
    <2> QED
        BY <2>3, <2>4 DEF Exact
<1>2. CASE ~ WholeIn(held)
    <2>1. pieces = [k \in 1 .. size |-> SegmentAt(ref, item, held, Start(k))]
        <3>1. Reads!Cardinality(Starts(ref, held)) = size
            BY SizesAgree
        <3> QED
            BY <1>2, <3>1, SpanParts
    <2>2. /\ size \in Nat
          /\ \A k \in 1 .. size : Start(k) \in Bounds(ref, held) \ {ref.hi}
          /\ \A lo \in Bounds(ref, held) \ {ref.hi} :
                 OnCut(ref, held, lo) = {} => \E k \in 1 .. size : Start(k) = lo
          /\ \A k, j \in 1 .. size : Start(k) = Start(j) => k = j
        BY StartsFit, NthFits
    <2> HIDE DEF size, Start
    <2>3. /\ DOMAIN pieces = 1 .. size
          /\ \A k \in 1 .. size : pieces[k] = SegmentAt(ref, item, held, Start(k))
        BY <2>1
    <2> HIDE DEF pieces
    <2>4. \A k \in 1 .. size : SegmentAt(ref, item, held, Start(k)) \in Pieces
        BY <2>2, SegmentFits
    <2>5. pieces \in Seq(Pieces)
        BY <2>1, <2>2, <2>4, IsASeq
    <2>6. ASSUME NEW k \in 1 .. size
          PROVE  /\ pieces[k].kind = "text" => OnCut(ref, held, Start(k)) = {}
                 /\ OnCut(ref, held, Start(k)) = {} => pieces[k].kind = "text"
                 /\ pieces[k].kind = "read" => pieces[k].chain # <<>>
                 /\ pieces[k].kind = "text" =>
                        /\ pieces[k].chain = item.chain /\ pieces[k].view = held
                        /\ pieces[k].ref = CutAt(ref, held, Start(k))
        BY <2>2, <2>3, SegmentFits
    <2>7. Fits(pieces, item)
        <3>1. ASSUME NEW k \in 1 .. size, pieces[k].kind = "text",
                     NEW position \in Reads!Positions(pieces[k].ref)
              PROVE  ~ Reads!Covered(pieces[k].view, position)
            BY <1>2, <2>2, <2>6, <3>1, CutIsClear
        <3> QED
            BY <2>3, <2>5, <2>6, <3>1 DEF Fits
    <2>8. ASSUME item.chain = <<>>, NEW position \in Reads!Positions(ref)
          PROVE  /\ Reads!Covered(held, position) => TextAt(pieces, position) = {}
                 /\ ~ Reads!Covered(held, position) => \E i : TextAt(pieces, position) = {i}
        <3>1. ASSUME NEW k \in TextAt(pieces, position)
              PROVE  /\ k \in 1 .. size /\ ~ Reads!Covered(held, position)
                     /\ position \in Reads!Positions(CutAt(ref, held, Start(k)))
            <4>1. /\ k \in 1 .. size /\ pieces[k].kind = "text"
                  /\ position \in Reads!Positions(pieces[k].ref)
                BY <2>3, <3>1 DEF TextAt
            <4> QED
                BY <1>2, <2>2, <2>6, <4>1, CutIsClear
        <3>2. ASSUME ~ Reads!Covered(held, position)
              PROVE  \E i : TextAt(pieces, position) = {i}
            <4>1. PICK lo \in Bounds(ref, held) \ {ref.hi} :
                      position \in Reads!Positions(CutAt(ref, held, lo))
                BY CutFound
            <4>2. OnCut(ref, held, lo) = {}
                BY <3>2, <4>1, CutIsWhole
            <4>3. PICK k \in 1 .. size : Start(k) = lo
                BY <2>2, <4>2
            <4>4. k \in TextAt(pieces, position)
                BY <2>3, <2>6, <2>8, <4>1, <4>2, <4>3 DEF TextAt
            <4>5. ASSUME NEW j \in TextAt(pieces, position) PROVE j = k
                <5>1. Start(j) = lo
                    BY <2>2, <3>1, <4>1, CutOnce
                <5> QED
                    BY <2>2, <3>1, <4>3, <5>1
            <4> QED
                BY <4>4, <4>5
        <3> QED
            BY <3>1, <3>2
    <2>9. item.chain = <<>> => Exact(pieces, ref, held)
        BY <2>8 DEF Exact
    <2> QED
        BY <2>7, <2>9 DEF pieces
<1> QED
    BY <1>1, <1>2

LEMMA WholeNodeFits ==
    ASSUME NEW ref \in Reads!References, NEW item \in Pieces, NEW held \in Views
    PROVE  /\ Fits(Reads!WholeNode(ref, item, held), item)
           /\ item.chain = <<>> => Exact(Reads!WholeNode(ref, item, held), ref, held)
<1> DEFINE whole == {a \in Reads!PatchesIn(held) : SubjectOf[a].kind = "node"}
           pieces == Reads!WholeNode(ref, item, held)
<1>1. CASE whole = {}
    <2>1. PICK span : span = [ref EXCEPT !.kind = "span"]
        OBVIOUS
    <2>2. pieces = Reads!Span(span, item, held)
        BY <1>1, <2>1 DEF Reads!WholeNode
    <2>3. span \in Reads!References /\ span.lo = ref.lo /\ span.hi = ref.hi
        BY <2>1 DEF Reads!References
    <2>4. Reads!Positions(span) = Reads!Positions(ref)
        BY <2>3 DEF Reads!Positions
    <2> HIDE DEF pieces
    <2>5. Fits(pieces, item) /\ (item.chain = <<>> => Exact(pieces, span, held))
        BY <2>2, <2>3, SpanFits
    <2>6. Exact(pieces, span, held) => Exact(pieces, ref, held)
        BY <2>4 DEF Exact
    <2> QED
        BY <2>5, <2>6 DEF pieces
<1>2. CASE whole # {}
    <2> DEFINE a == CHOOSE a \in whole : TRUE
    <2>1. a \in Reads!PatchesIn(held)
        BY <1>2
    <2>2. \/ pieces = <<Reads!Blocked(ref, item, held)>>
          \/ pieces = <<Reads!Replacement(a, ref, {}, item, held)>>
        BY <1>2 DEF Reads!WholeNode
    <2> HIDE DEF a, pieces
    <2>3. Fits(pieces, item) /\ \A position : TextAt(pieces, position) = {}
        <3>1. /\ Reads!Blocked(ref, item, held) \in Pieces
              /\ Reads!Blocked(ref, item, held).kind = "blocked"
            BY BlockedFits
        <3>2. /\ Reads!Replacement(a, ref, {}, item, held) \in Pieces
              /\ Reads!Replacement(a, ref, {}, item, held).kind # "text"
              /\ Reads!Replacement(a, ref, {}, item, held).kind = "read" =>
                     Reads!Replacement(a, ref, {}, item, held).chain # <<>>
            BY <2>1, ReplacementFits
        <3>3. PICK piece \in Pieces :
                  /\ pieces = <<piece>> /\ piece.kind # "text"
                  /\ piece.kind = "read" => piece.chain # <<>>
            BY <2>2, <3>1, <3>2
        <3> QED
            BY <3>3, OnePiece
    <2>4. \A position : Reads!Covered(held, position)
        BY <1>2 DEF Reads!Covered
    <2>5. Exact(pieces, ref, held)
        BY <2>3, <2>4 DEF Exact
    <2> QED
        BY <2>3, <2>5 DEF pieces
<1> QED
    BY <1>1, <1>2

LEMMA SegmentsFit ==
    ASSUME NEW item \in Pieces, NEW held \in Views
    PROVE  /\ Fits(Reads!Segments(item, held), item)
           /\ item.chain = <<>> /\ item.path = {} /\ item.ref.kind # "note" =>
                  Exact(Reads!Segments(item, held), item.ref, held)
<1> DEFINE pieces == Reads!Segments(item, held)
           stuck == item.ref \in item.path \/ Reads!Cardinality(item.path) >= MaxHops
<1>1. /\ item.ref \in Reads!References /\ item.ref.kind \in {"span", "node", "note"}
      /\ item.chain \in Seq(Links) /\ {} \in SUBSET Reads!References
    <2>1. item.ref \in Reads!References
        BY DEF Pieces
    <2> QED
        BY <2>1, RefFits DEF Pieces
<1>2. item.path = {} => ~ stuck
    <2>1. Reads!Cardinality({}) = 0 /\ MaxHops \in Nat \ {0}
        BY SizesAgree, FS_EmptySet, PartsAssumption DEF Reads!ReadsAssumption
    <2> QED
        BY <2>1
<1>3. CASE stuck
    <2>1. pieces = <<Reads!Blocked(item.ref, item, held)>>
        BY <1>3 DEF Reads!Segments
    <2> HIDE DEF pieces, stuck
    <2>2. Fits(pieces, item)
        BY <1>1, <2>1, BlockedFits, OnePiece
    <2> QED
        BY <1>2, <1>3, <2>2 DEF pieces
<1>4. CASE ~ stuck
    <2>1. /\ item.ref.kind = "note" =>
                 pieces = <<Reads!Piece("note", item.ref, {}, item.chain, held)>>
          /\ item.ref.kind = "node" => pieces = Reads!WholeNode(item.ref, item, held)
          /\ item.ref.kind = "span" => pieces = Reads!Span(item.ref, item, held)
        BY <1>4 DEF Reads!Segments
    <2> HIDE DEF pieces, stuck
    <2>2. CASE item.ref.kind = "note"
        <3>1. /\ Reads!Piece("note", item.ref, {}, item.chain, held) \in Pieces
              /\ Reads!Piece("note", item.ref, {}, item.chain, held).kind = "note"
            BY <1>1, PieceFits
        <3>2. Fits(pieces, item)
            BY <2>1, <2>2, <3>1, OnePiece
        <3> QED
            BY <2>2, <3>2 DEF pieces
    <2>3. CASE item.ref.kind = "node"
        <3>1. pieces = Reads!WholeNode(item.ref, item, held)
            BY <2>1, <2>3
        <3>2. Fits(pieces, item) /\ (item.chain = <<>> => Exact(pieces, item.ref, held))
            BY <1>1, <3>1, WholeNodeFits
        <3> QED
            BY <3>2 DEF pieces
    <2>4. CASE item.ref.kind = "span"
        <3>1. pieces = Reads!Span(item.ref, item, held)
            BY <2>1, <2>4
        <3>2. Fits(pieces, item) /\ (item.chain = <<>> => Exact(pieces, item.ref, held))
            BY <1>1, <3>1, SpanFits
        <3> QED
            BY <3>2 DEF pieces
    <2> QED
        BY <1>1, <2>2, <2>3, <2>4
<1> QED
    BY <1>3, <1>4

-----------------------------------------------------------------------------
(* What a reader is shown: its work *)

ReaderRecs == [pc : {"idle", "reading", "fetched", "done", "failed"}, asked : Seq(Reads!References),
               fetched : Views, top : Views, work : Seq(Pieces)]

LeftIn(work) == {i \in DOMAIN work : work[i].kind = "read"}

\* A reader of one passage has not begun, or has each position once unless it was amended when
\* the passage was opened; what is left to read is behind an amendment.
OpenedOrNot(s) ==
    \/ s.work = <<Reads!Piece("read", s.asked[1], {}, <<>>, Reads!NoView)>>
    \/ /\ \A i \in LeftIn(s.work) : s.work[i].chain # <<>>
       /\ Exact(s.work, s.asked[1], s.top)

OnePassage(s) == Len(s.asked) = 1 /\ s.asked[1].kind # "note"

ReaderFits(s) ==
    /\ s.pc = "fetched" => LeftIn(s.work) # {}
    /\ s.pc = "done" => LeftIn(s.work) = {}
    /\ \A i \in DOMAIN s.work :
           s.work[i].kind = "text" =>
               \A position \in Reads!Positions(s.work[i].ref) :
                   ~ Reads!Covered(s.work[i].view, position)
    /\ s.pc \in {"reading", "fetched", "done"} /\ OnePassage(s) => OpenedOrNot(s)

ReadersInv ==
    /\ journal \in [Amendments -> Reads!Statuses] /\ DOMAIN states \subseteq Nodes
    /\ changes \in 0 .. MaxChanges /\ trouble \in 0 .. MaxErrors
    /\ reader \in [Readers -> ReaderRecs]
    /\ \A r \in Readers : ReaderFits(reader[r])

\* A sequence with other pieces in place of the i-th.
Replaces(after, work, i, pieces) ==
    /\ after \in Seq(Pieces) /\ Len(after) = Len(work) - 1 + Len(pieces)
    /\ \A k \in 1 .. i - 1 : after[k] = work[k]
    /\ \A k \in 1 .. Len(pieces) : after[i - 1 + k] = pieces[k]
    /\ \A k \in i + 1 .. Len(work) : after[k - 1 + Len(pieces)] = work[k]

LEMMA Splice ==
    ASSUME NEW work \in Seq(Pieces), NEW i \in 1 .. Len(work), NEW pieces \in Seq(Pieces)
    PROVE  Replaces(SubSeq(work, 1, i - 1) \o pieces \o SubSeq(work, i + 1, Len(work)),
                    work, i, pieces)
<1> SUFFICES ASSUME NEW after,
                    after = SubSeq(work, 1, i - 1) \o pieces \o SubSeq(work, i + 1, Len(work))
             PROVE  Replaces(after, work, i, pieces)
    OBVIOUS
<1> DEFINE head == SubSeq(work, 1, i - 1)
           tail == SubSeq(work, i + 1, Len(work))
           most == head \o pieces
<1>1. Len(work) \in Nat /\ \A k \in 1 .. Len(work) : work[k] \in Pieces
    BY LenProperties, ElementOfSeq
<1>2. /\ head \in Seq(Pieces) /\ Len(head) = i - 1
      /\ \A k \in 1 .. i - 1 : head[k] = work[k]
    <2>1. \A k \in 1 .. i - 1 : work[k] \in Pieces
        BY <1>1
    <2> QED
        BY <1>1, <2>1, SubSeqProperties
<1>3. /\ tail \in Seq(Pieces) /\ Len(tail) = Len(work) - i
      /\ \A k \in 1 .. Len(work) - i : tail[k] = work[i + k]
    <2>1. \A k \in i + 1 .. Len(work) : work[k] \in Pieces
        BY <1>1
    <2> QED
        BY <1>1, <2>1, SubSeqProperties
<1>4. Len(pieces) \in Nat
    BY LenProperties
<1> HIDE DEF head, tail
<1>5. /\ most \in Seq(Pieces) /\ Len(most) = i - 1 + Len(pieces)
      /\ \A k \in 1 .. Len(most) : most[k] = IF k <= i - 1 THEN head[k] ELSE pieces[k - (i - 1)]
    BY <1>2, ConcatProperties
<1>6. /\ after \in Seq(Pieces) /\ Len(after) = Len(most) + Len(tail)
      /\ \A k \in 1 .. Len(after) : after[k] = IF k <= Len(most) THEN most[k] ELSE tail[k - Len(most)]
    <2>1. after = most \o tail
        BY DEF head, tail
    <2> HIDE DEF most
    <2>2. most \in Seq(Pieces) /\ tail \in Seq(Pieces)
        BY <1>3, <1>5
    <2>3. /\ most \o tail \in Seq(Pieces) /\ Len(most \o tail) = Len(most) + Len(tail)
          /\ \A k \in 1 .. Len(most) + Len(tail) :
                 (most \o tail)[k] = IF k <= Len(most) THEN most[k] ELSE tail[k - Len(most)]
        BY <2>2, ConcatProperties
    <2> QED
        BY <2>1, <2>3
<1> HIDE DEF most
<1> DEFINE n == Len(pieces)
           m == Len(most)
           all == Len(after)
           size == Len(work)
<1>7. /\ n \in Nat /\ size \in Nat /\ i \in 1 .. size /\ m = i - 1 + n /\ Len(tail) = size - i
      /\ all = m + (size - i) /\ all = size - 1 + n
    <2>1. Len(tail) = size - i /\ m = i - 1 + n /\ all = m + Len(tail)
        BY <1>3, <1>5, <1>6
    <2>2. n \in Nat /\ size \in Nat /\ i \in 1 .. size
        BY <1>1, <1>4
    <2> HIDE DEF n, m, all, size
    <2> QED
        BY <2>1, <2>2
<1>8. /\ \A k \in 1 .. i - 1 : head[k] = work[k]
      /\ \A k \in 1 .. size - i : tail[k] = work[i + k]
      /\ \A k \in 1 .. m : most[k] = IF k <= i - 1 THEN head[k] ELSE pieces[k - (i - 1)]
      /\ \A k \in 1 .. all : after[k] = IF k <= m THEN most[k] ELSE tail[k - m]
    BY <1>2, <1>3, <1>5, <1>6
<1>9. after \in Seq(Pieces)
    BY <1>6
<1> HIDE DEF n, m, all, size
<1>10. ASSUME NEW k \in 1 .. i - 1 PROVE after[k] = work[k]
    <2>1. k \in 1 .. all /\ k \in 1 .. m /\ k <= m /\ k <= i - 1
        BY <1>7
    <2> QED
        BY <1>8, <2>1
<1>11. ASSUME NEW k \in 1 .. n PROVE after[i - 1 + k] = pieces[k]
    <2>1. /\ i - 1 + k \in 1 .. all /\ i - 1 + k \in 1 .. m /\ i - 1 + k <= m
          /\ ~ (i - 1 + k <= i - 1) /\ (i - 1 + k) - (i - 1) = k
        BY <1>7
    <2> QED
        BY <1>8, <2>1
<1>12. ASSUME NEW k \in i + 1 .. size PROVE after[k - 1 + n] = work[k]
    <2>1. /\ k - 1 + n \in 1 .. all /\ ~ (k - 1 + n <= m) /\ (k - 1 + n) - m = k - i
          /\ k - i \in 1 .. size - i /\ i + (k - i) = k
        BY <1>7
    <2> QED
        BY <1>8, <2>1
<1> QED
    BY <1>7, <1>9, <1>10, <1>11, <1>12 DEF Replaces, n, all, size

StillShown(after, work, position) ==
    /\ TextAt(work, position) = {} => TextAt(after, position) = {}
    /\ (\E k : TextAt(work, position) = {k}) => \E k : TextAt(after, position) = {k}

\* A piece that has to be read gives way to others that do not show the passage itself: it is
\* shown where it was shown before.
LEMMA SpliceShows ==
    ASSUME NEW work \in Seq(Pieces), NEW i \in LeftIn(work), NEW pieces \in Seq(Pieces), NEW after,
           Replaces(after, work, i, pieces), NEW position, TextAt(pieces, position) = {}
    PROVE  StillShown(after, work, position)
<1> DEFINE n == Len(pieces)
           all == Len(after)
           size == Len(work)
           New(k) == IF k < i THEN k ELSE k - 1 + n
<1>1. /\ size \in Nat /\ DOMAIN work = 1 .. size /\ n \in Nat /\ DOMAIN pieces = 1 .. n
      /\ i \in 1 .. size /\ work[i].kind = "read"
    BY LenProperties DEF LeftIn
<1>2. /\ all = size - 1 + n
      /\ \A k \in 1 .. i - 1 : after[k] = work[k]
      /\ \A k \in 1 .. n : after[i - 1 + k] = pieces[k]
      /\ \A k \in i + 1 .. size : after[k - 1 + n] = work[k]
    BY DEF Replaces
<1>3. all \in Nat /\ DOMAIN after = 1 .. all
    BY LenProperties DEF Replaces
<1> HIDE DEF n, all, size
<1>4. ASSUME NEW k \in TextAt(after, position)
      PROVE  \E j \in TextAt(work, position) : k = New(j)
    <2>1. /\ k \in 1 .. all /\ after[k].kind = "text" /\ after[k].chain = <<>>
          /\ position \in Reads!Positions(after[k].ref)
        BY <1>3, <1>4 DEF TextAt
    <2>2. CASE k < i
        <3>1. New(k) = k /\ k \in 1 .. i - 1 /\ k \in 1 .. size
            BY <1>1, <2>1, <2>2
        <3> HIDE DEF New
        <3>2. k \in TextAt(work, position)
            BY <1>1, <1>2, <2>1, <3>1 DEF TextAt
        <3> QED
            BY <3>1, <3>2
    <2>3. CASE k >= i /\ k < i + n
        <3> DEFINE j == k - i + 1
        <3>1. j \in 1 .. n /\ i - 1 + j = k
            BY <1>1, <2>1, <2>3
        <3> HIDE DEF j
        <3>2. after[k] = pieces[j]
            BY <1>2, <3>1
        <3> QED
            BY <1>1, <2>1, <3>1, <3>2 DEF TextAt
    <2>4. CASE k >= i + n
        <3> DEFINE j == k - n + 1
        <3>1. j \in i + 1 .. size /\ j \in 1 .. size /\ j - 1 + n = k /\ ~ (j < i)
            BY <1>1, <1>2, <2>1, <2>4
        <3> HIDE DEF j
        <3>2. after[k] = work[j] /\ New(j) = k
            BY <1>2, <3>1
        <3> HIDE DEF New
        <3>3. j \in TextAt(work, position)
            BY <1>1, <2>1, <3>1, <3>2 DEF TextAt
        <3> QED
            BY <3>2, <3>3
    <2> HIDE DEF New
    <2> QED
        BY <1>1, <2>1, <2>2, <2>3, <2>4
<1>5. ASSUME NEW k \in TextAt(work, position)
      PROVE  New(k) \in TextAt(after, position)
    <2>1. /\ k \in 1 .. size /\ work[k].kind = "text" /\ work[k].chain = <<>>
          /\ position \in Reads!Positions(work[k].ref) /\ k # i
        BY <1>1, <1>5 DEF TextAt
    <2>2. CASE k < i
        <3>1. New(k) = k /\ k \in 1 .. all /\ k \in 1 .. i - 1
            BY <1>1, <1>2, <2>1, <2>2
        <3> HIDE DEF New
        <3> QED
            BY <1>2, <1>3, <2>1, <3>1 DEF TextAt
    <2>3. CASE k > i
        <3>1. New(k) = k - 1 + n /\ k - 1 + n \in 1 .. all /\ k \in i + 1 .. size
            BY <1>1, <1>2, <2>1, <2>3
        <3>2. after[New(k)] = work[k] /\ New(k) \in 1 .. all
            BY <1>2, <3>1
        <3> HIDE DEF New
        <3> QED
            BY <1>3, <2>1, <3>2 DEF TextAt
    <2>4. k < i \/ k > i
        BY <1>1, <2>1
    <2> HIDE DEF New
    <2> QED
        BY <2>2, <2>3, <2>4
<1> HIDE DEF New
<1>6. ASSUME NEW k, TextAt(work, position) = {k}
      PROVE  TextAt(after, position) = {New(k)}
    BY <1>4, <1>5, <1>6
<1> QED
    BY <1>4, <1>6 DEF StillShown

LEMMA NoViewFits == Reads!NoView \in Views
<1>1. Reads!NoView \in [{} -> Reads!Statuses]
    BY DEF Reads!NoView
<1> QED
    BY <1>1 DEF Views

\* The piece that is next is resolved: it gives way to what its node's journal made of it.
LEMMA ResolveFits ==
    ASSUME NEW s \in ReaderRecs, ReaderFits(s), s.pc \in {"reading", "fetched"},
           NEW i \in LeftIn(s.work), NEW pieces, Fits(pieces, s.work[i]),
           NEW fetched \in Views, NEW top \in Views, s.work[i].chain # <<>> => top = s.top,
           s.work[i].chain = <<>> /\ s.work[i].path = {} /\ s.work[i].ref.kind # "note" =>
               Exact(pieces, s.work[i].ref, top),
           NEW work, Replaces(work, s.work, i, pieces),
           NEW t, t = [s EXCEPT !.pc = "reading", !.fetched = fetched, !.top = top, !.work = work]
    PROVE  t \in ReaderRecs /\ ReaderFits(t)
<1>1. /\ s.work \in Seq(Pieces) /\ work \in Seq(Pieces) /\ pieces \in Seq(Pieces)
      /\ s.asked \in Seq(Reads!References)
      /\ DOMAIN s.work = 1 .. Len(s.work) /\ DOMAIN work = 1 .. Len(work)
      /\ DOMAIN pieces = 1 .. Len(pieces)
      /\ Len(s.work) \in Nat /\ Len(work) \in Nat /\ Len(pieces) \in Nat
    BY LenProperties DEF ReaderRecs, Replaces, Fits
<1>2. /\ t.pc = "reading" /\ t.asked = s.asked /\ t.fetched = fetched /\ t.top = top
      /\ t.work = work /\ t \in ReaderRecs
    BY <1>1 DEF ReaderRecs
<1>3. ASSUME NEW k \in DOMAIN work
      PROVE  \/ \E j \in DOMAIN s.work : j # i /\ work[k] = s.work[j]
             \/ \E j \in DOMAIN pieces : work[k] = pieces[j]
    <2>1. k \in 1 .. Len(s.work) - 1 + Len(pieces) /\ i \in 1 .. Len(s.work)
        BY <1>1 DEF Replaces, LeftIn
    <2>2. CASE k < i
        <3>1. k \in 1 .. i - 1 /\ k \in 1 .. Len(s.work) /\ k # i
            BY <1>1, <2>1, <2>2
        <3> QED
            BY <1>1, <3>1 DEF Replaces
    <2>3. CASE k >= i /\ k < i + Len(pieces)
        <3> DEFINE j == k - i + 1
        <3>1. j \in 1 .. Len(pieces) /\ i - 1 + j = k
            BY <1>1, <2>1, <2>3
        <3> HIDE DEF j
        <3> QED
            BY <1>1, <3>1 DEF Replaces
    <2>4. CASE k >= i + Len(pieces)
        <3> DEFINE j == k - Len(pieces) + 1
        <3>1. /\ j \in i + 1 .. Len(s.work) /\ j \in 1 .. Len(s.work) /\ j # i
              /\ j - 1 + Len(pieces) = k
            BY <1>1, <2>1, <2>4
        <3> HIDE DEF j
        <3> QED
            BY <1>1, <3>1 DEF Replaces
    <2> QED
        BY <1>1, <2>1, <2>2, <2>3, <2>4
<1>4. ASSUME NEW k \in DOMAIN work, work[k].kind = "text",
             NEW position \in Reads!Positions(work[k].ref)
      PROVE  ~ Reads!Covered(work[k].view, position)
    BY <1>3, <1>4 DEF ReaderFits, Fits
<1>5. ASSUME OnePassage(s) PROVE OpenedOrNot(t)
    <2>1. OpenedOrNot(s)
        BY <1>5 DEF ReaderFits
    <2>2. CASE s.work = <<Reads!Piece("read", s.asked[1], {}, <<>>, Reads!NoView)>>
        <3>1. s.asked[1] \in Reads!References
            BY <1>1, <1>5 DEF OnePassage
        <3>2. /\ i = 1 /\ Len(s.work) = 1
              /\ s.work[i].ref = s.asked[1] /\ s.work[i].path = {} /\ s.work[i].chain = <<>>
            BY <2>2 DEF LeftIn, Reads!Piece
        <3>3. /\ Len(work) = Len(pieces)
              /\ \A k \in 1 .. Len(pieces) : work[k] = pieces[k]
            <4>1. Len(work) = Len(pieces)
                BY <1>1, <3>2 DEF Replaces
            <4>2. \A k \in 1 .. Len(pieces) : i - 1 + k = k
                BY <1>1, <3>2
            <4> QED
                BY <4>1, <4>2 DEF Replaces
        <3>4. work = pieces
            BY <1>1, <3>3, SeqEqual
        <3>5. Exact(work, t.asked[1], t.top)
            BY <1>2, <1>5, <3>2, <3>4 DEF OnePassage
        <3>6. \A k \in LeftIn(work) : work[k].chain # <<>>
            BY <3>4 DEF LeftIn, Fits
        <3> QED
            BY <1>2, <3>5, <3>6 DEF OpenedOrNot
    <2>3. CASE /\ \A k \in LeftIn(s.work) : s.work[k].chain # <<>>
               /\ Exact(s.work, s.asked[1], s.top)
        <3>1. s.work[i].chain # <<>> /\ top = s.top
            BY <2>3
        <3>2. \A k \in LeftIn(work) : work[k].chain # <<>>
            BY <1>3, <2>3 DEF LeftIn, Fits
        <3>3. \A position : TextAt(pieces, position) = {}
            BY <3>1 DEF TextAt, Fits
        <3>4. ASSUME NEW position PROVE StillShown(work, s.work, position)
            BY <1>1, <3>3, SpliceShows
        <3>5. Exact(work, s.asked[1], s.top)
            BY <2>3, <3>4 DEF Exact, StillShown
        <3> QED
            BY <1>2, <3>1, <3>2, <3>5 DEF OpenedOrNot
    <2> QED
        BY <2>1, <2>2, <2>3 DEF OpenedOrNot
<1>6. OnePassage(t) <=> OnePassage(s)
    BY <1>2 DEF OnePassage
<1> QED
    BY <1>2, <1>4, <1>5, <1>6 DEF ReaderFits

\* One reader goes on.
LEMMA ReaderGoes ==
    ASSUME ReadersInv, NEW r \in Readers, NEW s \in ReaderRecs, ReaderFits(s),
           reader' = [reader EXCEPT ![r] = s]
    PROVE  reader' \in [Readers -> ReaderRecs] /\ \A q \in Readers : ReaderFits(reader'[q])
BY DEF ReadersInv

LEMMA NextPiece ==
    ASSUME ReadersInv, NEW r \in Readers, Reads!Unread(r) # {}
    PROVE  /\ reader[r] \in ReaderRecs /\ ReaderFits(reader[r])
           /\ Reads!Following(r) \in LeftIn(reader[r].work)
           /\ Reads!Following(r) \in 1 .. Len(reader[r].work)
           /\ Reads!Item(r) = reader[r].work[Reads!Following(r)] /\ Reads!Item(r) \in Pieces
           /\ \A pieces \in Seq(Pieces) :
                  Replaces(Reads!Spliced(r, pieces), reader[r].work, Reads!Following(r), pieces)
<1>1. reader[r] \in ReaderRecs /\ ReaderFits(reader[r]) /\ reader[r].work \in Seq(Pieces)
    BY DEF ReadersInv, ReaderRecs
<1>2. /\ DOMAIN reader[r].work = 1 .. Len(reader[r].work) /\ Len(reader[r].work) \in Nat
      /\ \A k \in 1 .. Len(reader[r].work) : reader[r].work[k] \in Pieces
    BY <1>1, LenProperties, ElementOfSeq
<1>3. Reads!Unread(r) = LeftIn(reader[r].work)
    BY DEF Reads!Unread, LeftIn
<1>4. Reads!Unread(r) \in SUBSET Nat
    BY <1>2, <1>3 DEF LeftIn
<1>5. Reads!Following(r) \in Reads!Unread(r)
    BY <1>4, LeastNumber DEF Reads!Following
<1>6. Reads!Following(r) \in 1 .. Len(reader[r].work)
    BY <1>2, <1>3, <1>5 DEF LeftIn
<1>7. ASSUME NEW pieces \in Seq(Pieces)
      PROVE  Replaces(Reads!Spliced(r, pieces), reader[r].work, Reads!Following(r), pieces)
    BY <1>1, <1>6, Splice DEF Reads!Spliced
<1> QED
    BY <1>1, <1>2, <1>3, <1>5, <1>6, <1>7 DEF Reads!Item

LEMMA AskFits ==
    ASSUME ReadersInv, NEW r \in Readers, Reads!Ask(r)
    PROVE  ReadersInv'
<1>1. /\ reader \in [Readers -> ReaderRecs] /\ reader[r] \in ReaderRecs
      /\ UNCHANGED <<journal, states, changes, trouble>>
    BY DEF ReadersInv, Reads!Ask
<1>2. PICK request \in Requests :
          reader' = [reader EXCEPT ![r].pc = "reading", ![r].asked = request,
              ![r].work = [i \in DOMAIN request |->
                               Reads!Piece("read", request[i], {}, <<>>, Reads!NoView)]]
    BY DEF Reads!Ask
<1> DEFINE First(i) == Reads!Piece("read", request[i], {}, <<>>, Reads!NoView)
           work == [i \in DOMAIN request |-> First(i)]
<1>3. /\ request \in Seq(Reads!References) /\ Len(request) \in Nat
      /\ DOMAIN request = 1 .. Len(request)
    BY PartsAssumption, LenProperties DEF Reads!ReadsAssumption
<1>4. ASSUME NEW i \in 1 .. Len(request) PROVE First(i) \in Pieces /\ First(i).kind = "read"
    <2>1. request[i] \in Reads!References /\ <<>> \in Seq(Links) /\ {} \in SUBSET Reads!References
        BY <1>3, ElementOfSeq
    <2>2. /\ Reads!Piece("read", request[i], {}, <<>>, Reads!NoView) \in Pieces
          /\ Reads!Piece("read", request[i], {}, <<>>, Reads!NoView).kind = "read"
        BY <2>1, NoViewFits DEF Reads!Piece, Pieces
    <2> QED
        BY <2>2
<1>5. /\ work = [i \in 1 .. Len(request) |-> First(i)]
      /\ \A i \in 1 .. Len(request) : work[i] = First(i)
    BY <1>3
<1> HIDE DEF First
<1>6. /\ work \in Seq(Pieces) /\ Len(work) = Len(request) /\ DOMAIN work = 1 .. Len(request)
      /\ \A i \in DOMAIN work : work[i].kind = "read"
    BY <1>3, <1>4, <1>5
<1>7. PICK s : s = [reader[r] EXCEPT !.pc = "reading", !.asked = request, !.work = work]
    OBVIOUS
<1>8. reader' = [reader EXCEPT ![r] = s]
    BY <1>1, <1>2, <1>7 DEF First
<1> HIDE DEF work
<1>9. s \in ReaderRecs /\ s.pc = "reading" /\ s.asked = request /\ s.work = work
    BY <1>1, <1>3, <1>6, <1>7 DEF ReaderRecs
<1>10. ASSUME Len(request) = 1 PROVE work = <<First(1)>>
    <2>1. First(1) \in Pieces /\ work[1] = First(1)
        BY <1>3, <1>4, <1>5, <1>10
    <2>2. <<First(1)>> \in Seq(Pieces) /\ Len(<<First(1)>>) = 1 /\ <<First(1)>>[1] = First(1)
        BY <2>1
    <2>3. \A i \in 1 .. 1 : i = 1
        OBVIOUS
    <2> QED
        BY <1>6, <1>10, <2>1, <2>2, <2>3, SeqEqual
<1>11. ReaderFits(s)
    BY <1>6, <1>9, <1>10 DEF ReaderFits, OnePassage, OpenedOrNot, First
<1> QED
    BY <1>1, <1>8, <1>9, <1>11, ReaderGoes DEF ReadersInv

LEMMA FetchFits ==
    ASSUME ReadersInv, NEW r \in Readers, Reads!Fetch(r)
    PROVE  ReadersInv'
<1> DEFINE fetched == Reads!ViewOf(Reads!Item(r).ref.node)
<1>1. /\ reader \in [Readers -> ReaderRecs] /\ reader[r] \in ReaderRecs /\ ReaderFits(reader[r])
      /\ UNCHANGED <<journal, states, changes, trouble>>
      /\ reader[r].pc = "reading" /\ LeftIn(reader[r].work) # {}
      /\ reader' = [reader EXCEPT ![r].pc = "fetched", ![r].fetched = fetched]
    BY DEF ReadersInv, Reads!Fetch, Reads!Unread, LeftIn
<1>2. fetched \in Views
    <2>1. Reads!Entries(Reads!Item(r).ref.node) \subseteq Amendments
        BY DEF Reads!Entries
    <2>2. fetched \in [Reads!Entries(Reads!Item(r).ref.node) -> Reads!Statuses]
        BY <2>1 DEF Reads!ViewOf, ReadersInv
    <2> QED
        BY <2>1, <2>2 DEF Views
<1> HIDE DEF fetched
<1>3. PICK s : s = [reader[r] EXCEPT !.pc = "fetched", !.fetched = fetched]
    OBVIOUS
<1>4. reader' = [reader EXCEPT ![r] = s]
    BY <1>1, <1>3
<1>5. /\ s \in ReaderRecs /\ s.pc = "fetched" /\ s.work = reader[r].work
      /\ s.asked = reader[r].asked /\ s.top = reader[r].top
    BY <1>1, <1>2, <1>3 DEF ReaderRecs
<1>6. ReaderFits(s)
    BY <1>1, <1>5 DEF ReaderFits, OnePassage, OpenedOrNot
<1> QED
    BY <1>1, <1>4, <1>5, <1>6, ReaderGoes DEF ReadersInv

\* A reader that stops has nothing more to show.
LEMMA StopFits ==
    ASSUME ReadersInv, NEW r \in Readers, NEW end \in {"failed", "done"},
           end = "done" => reader[r].pc = "reading" /\ Reads!Unread(r) = {},
           reader' = [reader EXCEPT ![r].pc = end]
    PROVE  reader' \in [Readers -> ReaderRecs] /\ \A q \in Readers : ReaderFits(reader'[q])
<1>1. /\ reader \in [Readers -> ReaderRecs] /\ reader[r] \in ReaderRecs /\ ReaderFits(reader[r])
    BY DEF ReadersInv
<1>2. PICK s : s = [reader[r] EXCEPT !.pc = end]
    OBVIOUS
<1>3. reader' = [reader EXCEPT ![r] = s]
    BY <1>1, <1>2
<1>4. /\ s \in ReaderRecs /\ s.pc = end /\ s.work = reader[r].work
      /\ s.asked = reader[r].asked /\ s.top = reader[r].top
    BY <1>1, <1>2 DEF ReaderRecs
<1>5. ReaderFits(s)
    BY <1>1, <1>4 DEF ReaderFits, OnePassage, OpenedOrNot, Reads!Unread, LeftIn
<1> QED
    BY <1>3, <1>4, <1>5, ReaderGoes

LEMMA InstallFits ==
    ASSUME ReadersInv, NEW r \in Readers, Reads!Install(r)
    PROVE  ReadersInv'
<1> DEFINE item == Reads!Item(r)
           fetched == reader[r].fetched
           total == bytes - Reads!Loaded(item.ref.node) + Reads!Size(fetched)
           pieces == Reads!Segments(item, fetched)
           top == IF item.chain = <<>> THEN fetched ELSE reader[r].top
           work == Reads!Spliced(r, pieces)
<1>1. /\ reader \in [Readers -> ReaderRecs] /\ reader[r] \in ReaderRecs /\ ReaderFits(reader[r])
      /\ UNCHANGED <<journal, changes, trouble>> /\ reader[r].pc = "fetched"
    BY DEF ReadersInv, Reads!Install, Reads!Installed
<1>2. Reads!Unread(r) # {}
    BY <1>1 DEF ReaderFits, Reads!Unread, LeftIn
<1>3. /\ Reads!Following(r) \in LeftIn(reader[r].work)
      /\ item = reader[r].work[Reads!Following(r)] /\ item \in Pieces
      /\ \A p \in Seq(Pieces) :
             Replaces(Reads!Spliced(r, p), reader[r].work, Reads!Following(r), p)
    BY <1>2, NextPiece
<1>4. fetched \in Views /\ reader[r].top \in Views
    BY <1>1 DEF ReaderRecs
<1>5. /\ Fits(pieces, item)
      /\ item.chain = <<>> /\ item.path = {} /\ item.ref.kind # "note" =>
             Exact(pieces, item.ref, fetched)
    BY <1>3, <1>4, SegmentsFit
<1>6. CASE total > MaxTotal
    <2>1. reader' = [reader EXCEPT ![r].pc = "failed"] /\ UNCHANGED states
        BY <1>6 DEF Reads!Install, Reads!Installed
    <2>2. reader' \in [Readers -> ReaderRecs] /\ \A q \in Readers : ReaderFits(reader'[q])
        BY <2>1, StopFits
    <2> QED
        BY <1>1, <2>1, <2>2 DEF ReadersInv
<1>7. CASE ~ (total > MaxTotal)
    <2>1. /\ states' = [n \in DOMAIN states \cup {item.ref.node} |->
                            IF n = item.ref.node THEN fetched ELSE states[n]]
          /\ reader' = [reader EXCEPT ![r] = [reader[r] EXCEPT
                 !.pc = "reading", !.fetched = Reads!NoView, !.top = top, !.work = work]]
        <3>1. Reads!Installed(r, total)
            BY DEF Reads!Install
        <3> HIDE DEF total
        <3> QED
            BY <1>1, <1>7, <3>1 DEF Reads!Installed
    <2>2. PICK s : s = [reader[r] EXCEPT !.pc = "reading", !.fetched = Reads!NoView, !.top = top,
                                         !.work = work]
        OBVIOUS
    <2>3. /\ top \in Views /\ (item.chain # <<>> => top = reader[r].top)
          /\ item.chain = <<>> => top = fetched
        BY <1>4
    <2>4. pieces \in Seq(Pieces)
        BY <1>5 DEF Fits
    <2> HIDE DEF pieces, top, item, fetched, total
    <2>5. Replaces(work, reader[r].work, Reads!Following(r), pieces)
        BY <1>3, <2>4
    <2>6. item.chain = <<>> /\ item.path = {} /\ item.ref.kind # "note" =>
              Exact(pieces, item.ref, top)
        BY <1>5, <2>3
    <2> HIDE DEF work
    <2>7. s \in ReaderRecs /\ ReaderFits(s)
        BY <1>1, <1>3, <1>5, <2>2, <2>3, <2>5, <2>6, NoViewFits, ResolveFits
    <2>8. reader' \in [Readers -> ReaderRecs] /\ \A q \in Readers : ReaderFits(reader'[q])
        BY <2>1, <2>2, <2>7, ReaderGoes
    <2>9. DOMAIN states' \subseteq Nodes
        <3>1. item.ref.node \in Nodes
            BY <1>3, RefFits DEF Pieces
        <3> QED
            BY <2>1, <3>1 DEF ReadersInv
    <2> QED
        BY <1>1, <2>8, <2>9 DEF ReadersInv
<1> QED
    BY <1>6, <1>7

LEMMA ReadFailsFits ==
    ASSUME ReadersInv, NEW r \in Readers, Reads!ReadFails(r)
    PROVE  ReadersInv'
<1> DEFINE item == Reads!Item(r)
           gone == Reads!Blocked(item.ref, item, item.view)
           pieces == <<gone>>
           work == Reads!Spliced(r, pieces)
<1>1. /\ reader \in [Readers -> ReaderRecs] /\ reader[r] \in ReaderRecs /\ ReaderFits(reader[r])
      /\ UNCHANGED <<journal, states, changes>> /\ reader[r].pc = "reading"
      /\ Reads!Unread(r) # {}
    BY DEF ReadersInv, Reads!ReadFails
<1>2. trouble' \in 0 .. MaxErrors
    BY PartsAssumption DEF Reads!ReadFails, ReadersInv, Reads!ReadsAssumption
<1>3. /\ Reads!Following(r) \in LeftIn(reader[r].work)
      /\ item = reader[r].work[Reads!Following(r)] /\ item \in Pieces
      /\ \A p \in Seq(Pieces) :
             Replaces(Reads!Spliced(r, p), reader[r].work, Reads!Following(r), p)
    BY <1>1, NextPiece
<1>4. CASE item.chain = <<>>
    <2>1. reader' = [reader EXCEPT ![r].pc = "failed"]
        BY <1>4 DEF Reads!ReadFails
    <2>2. reader' \in [Readers -> ReaderRecs] /\ \A q \in Readers : ReaderFits(reader'[q])
        BY <2>1, StopFits
    <2> QED
        BY <1>1, <1>2, <2>2 DEF ReadersInv
<1>5. CASE item.chain # <<>>
    <2>1. reader' = [reader EXCEPT ![r].work = work]
        BY <1>5 DEF Reads!ReadFails
    <2>2. item.ref \in Reads!References /\ item.view \in Views
        BY <1>3 DEF Pieces
    <2>3. gone \in Pieces /\ gone.kind = "blocked"
        BY <1>3, <2>2, BlockedFits
    <2>4. Fits(pieces, item)
        <3> HIDE DEF gone, item
        <3> QED
            BY <2>3, OnePiece
    <2>5. pieces \in Seq(Pieces)
        BY <2>4 DEF Fits
    <2> HIDE DEF pieces, item
    <2>6. Replaces(work, reader[r].work, Reads!Following(r), pieces)
        BY <1>3, <2>5
    <2> HIDE DEF work
    <2>7. PICK s : s = [reader[r] EXCEPT !.pc = "reading", !.fetched = reader[r].fetched,
                                         !.top = reader[r].top, !.work = work]
        OBVIOUS
    <2>8. reader' = [reader EXCEPT ![r] = s]
        BY <1>1, <2>1, <2>7 DEF ReaderRecs
    <2>9. reader[r].fetched \in Views /\ reader[r].top \in Views
        BY <1>1 DEF ReaderRecs
    <2>10. s \in ReaderRecs /\ ReaderFits(s)
        BY <1>1, <1>3, <1>5, <2>4, <2>6, <2>7, <2>9, ResolveFits
    <2>11. reader' \in [Readers -> ReaderRecs] /\ \A q \in Readers : ReaderFits(reader'[q])
        BY <2>8, <2>10, ReaderGoes
    <2> QED
        BY <1>1, <1>2, <2>11 DEF ReadersInv
<1> QED
    BY <1>4, <1>5

LEMMA ReadersStep ==
    ASSUME ReadersInv, [Reads!Next]_(Reads!vars)
    PROVE  ReadersInv'
<1>1. ASSUME NEW r \in Readers, Reads!Finish(r) PROVE ReadersInv'
    <2>1. /\ reader' = [reader EXCEPT ![r].pc = "done"] /\ reader[r].pc = "reading"
          /\ Reads!Unread(r) = {} /\ UNCHANGED <<journal, states, changes, trouble>>
        BY <1>1 DEF Reads!Finish
    <2>2. reader' \in [Readers -> ReaderRecs] /\ \A q \in Readers : ReaderFits(reader'[q])
        BY <2>1, StopFits
    <2> QED
        BY <2>1, <2>2 DEF ReadersInv
<1>2. CASE Reads!Amend
    <2>1. /\ UNCHANGED <<states, reader, trouble>> /\ changes' = changes + 1
          /\ changes < MaxChanges
        BY <1>2 DEF Reads!Amend
    <2>2. journal' \in [Amendments -> Reads!Statuses]
        BY <1>2 DEF Reads!Amend, ReadersInv
    <2>3. changes' \in 0 .. MaxChanges
        BY <2>1, PartsAssumption DEF ReadersInv, Reads!ReadsAssumption
    <2> QED
        BY <2>1, <2>2, <2>3 DEF ReadersInv
<1>3. CASE UNCHANGED Reads!vars
    BY <1>3 DEF ReadersInv, Reads!vars
<1> QED
    BY <1>1, <1>2, <1>3, AskFits, FetchFits, InstallFits, ReadFailsFits DEF Reads!Next

LEMMA ReadersInit ==
    ASSUME Reads!Init
    PROVE  ReadersInv
<1>1. journal \in [Amendments -> Reads!Statuses]
    BY DEF Reads!Init, Reads!Statuses
<1>2. DOMAIN states = {} /\ changes = 0 /\ trouble = 0
    BY DEF Reads!Init
<1>3. changes \in 0 .. MaxChanges /\ trouble \in 0 .. MaxErrors
    BY <1>2, PartsAssumption DEF Reads!ReadsAssumption
<1> DEFINE s == [pc |-> "idle", asked |-> <<>>, fetched |-> Reads!NoView, top |-> Reads!NoView,
                 work |-> <<>>]
<1>4. s \in ReaderRecs
    BY NoViewFits DEF ReaderRecs
<1>5. ReaderFits(s)
    BY DEF ReaderFits
<1>6. reader = [r \in Readers |-> s]
    BY DEF Reads!Init
<1> HIDE DEF s
<1> QED
    BY <1>1, <1>2, <1>3, <1>4, <1>5, <1>6 DEF ReadersInv

\* What readers hold says what they show.
LEMMA ReadersShow ==
    ASSUME BytesInv, ReadersInv
    PROVE  Reads!TypeOK /\ Reads!ReadsAreEffective
<1>1. Reads!TypeOK
    <2>1. bytes \in Nat
        BY PartsAssumption, SizesNat
    <2>2. ASSUME NEW r \in Readers
          PROVE  /\ reader[r].pc \in {"idle", "reading", "fetched", "done", "failed"}
                 /\ \A i \in DOMAIN reader[r].work :
                        /\ reader[r].work[i].kind \in {"read", "text", "confirmed", "note", "blocked"}
                        /\ reader[r].work[i].ref \in Reads!References
        <3>1. reader[r] \in ReaderRecs /\ reader[r].work \in Seq(Pieces)
            BY DEF ReadersInv, ReaderRecs
        <3>2. \A i \in DOMAIN reader[r].work : reader[r].work[i] \in Pieces
            BY <3>1, LenProperties, ElementOfSeq
        <3> QED
            BY <3>1, <3>2 DEF ReaderRecs, Pieces
    <2> QED
        BY <2>1, <2>2 DEF Reads!TypeOK, ReadersInv
<1>2. ASSUME NEW r \in Readers, reader[r].pc = "done", Len(reader[r].asked) = 1,
             reader[r].asked[1].kind # "note", NEW position \in Reads!Positions(reader[r].asked[1])
      PROVE  Reads!Cardinality(Reads!Shown(r, position)) =
                 IF Reads!Covered(reader[r].top, position) THEN 0 ELSE 1
    <2>1. ReaderFits(reader[r]) /\ reader[r] \in ReaderRecs
        BY DEF ReadersInv
    <2>2. OpenedOrNot(reader[r]) /\ LeftIn(reader[r].work) = {}
        BY <1>2, <2>1 DEF ReaderFits, OnePassage
    <2>3. reader[r].work # <<Reads!Piece("read", reader[r].asked[1], {}, <<>>, Reads!NoView)>>
        BY <2>2 DEF LeftIn, Reads!Piece
    <2>4. Exact(reader[r].work, reader[r].asked[1], reader[r].top)
        BY <2>2, <2>3 DEF OpenedOrNot
    <2>5. Reads!Shown(r, position) = TextAt(reader[r].work, position)
        BY DEF Reads!Shown, TextAt
    <2>6. CASE Reads!Covered(reader[r].top, position)
        <3>1. Reads!Shown(r, position) = {}
            BY <1>2, <2>4, <2>5, <2>6 DEF Exact
        <3>2. Reads!Cardinality({}) = 0
            BY SizesAgree, FS_EmptySet
        <3> QED
            BY <2>6, <3>1, <3>2
    <2>7. CASE ~ Reads!Covered(reader[r].top, position)
        <3>1. PICK i : Reads!Shown(r, position) = {i}
            BY <1>2, <2>4, <2>5, <2>7 DEF Exact
        <3>2. Reads!Cardinality({i}) = 1
            BY SizesAgree, FS_Singleton
        <3> QED
            BY <2>7, <3>1, <3>2
    <2> QED
        BY <2>6, <2>7
<1>3. ASSUME NEW r \in Readers, NEW i \in DOMAIN reader[r].work, reader[r].work[i].kind = "text",
             NEW position \in Reads!Positions(reader[r].work[i].ref)
      PROVE  ~ Reads!Covered(reader[r].work[i].view, position)
    BY <1>3 DEF ReadersInv, ReaderFits
<1> QED
    BY <1>1, <1>2, <1>3 DEF Reads!ReadsAreEffective

LEMMA ReadersAlways ==
    /\ Reads!Spec => []ReadersInv
    /\ Spec => [](part = "reads" => ReadersInv)
<1> DEFINE Here == part = "reads" => ReadersInv
<1>1. Reads!Init => ReadersInv
    BY ReadersInit
<1>2. ReadersInv /\ [Reads!Next]_(Reads!vars) => ReadersInv'
    BY ReadersStep
<1>3. Init => Here
    BY <1>1 DEF Init
<1>4. Here /\ [Next]_vars => Here'
    <2>1. CASE UNCHANGED vars
        BY <1>2, <2>1 DEF vars, readVars, Reads!vars
    <2>2. CASE Next
        <3>1. part' = part
            BY <2>2 DEF Next, NotBlobs, NotPaths, NotIndexes, NotGenerations, NotReads, NotCosts,
               NotRuns
        <3>2. part = "reads" => Reads!Next
            BY <2>2 DEF Next
        <3> QED
            BY <1>2, <3>1, <3>2
    <2> QED
        BY <2>1, <2>2
<1> HIDE DEF Here
<1>5. Reads!Spec => []ReadersInv
    BY <1>1, <1>2, PTL DEF Reads!Spec
<1>6. Spec => []Here
    BY <1>3, <1>4, PTL DEF Spec
<1> QED
    BY <1>5, <1>6 DEF Here

\* A read shows every requested character that no amendment covers exactly once, and never one
\* that an applicable or unresolved amendment covers, at any hop, whatever is appended between
\* its loads and however its readers interleave (query.py, _span).
THEOREM ReadsStayEffective ==
    /\ Reads!Spec => [](Reads!TypeOK /\ Reads!ReadsAreEffective)
    /\ Spec => []ReadsAreEffective
<1>1. BytesInv /\ ReadersInv => Reads!TypeOK /\ Reads!ReadsAreEffective
    BY ReadersShow
<1>2. (part = "reads" => BytesInv) /\ (part = "reads" => ReadersInv) => ReadsAreEffective
    BY <1>1 DEF ReadsAreEffective
<1> QED
    BY <1>1, <1>2, BytesAlways, ReadersAlways, PTL
=============================================================================
