---------------------------- MODULE LexicalIndex ----------------------------
(***************************************************************************)
(* storage/lexical.py and Workspace._lexical_index: full-text indexes in   *)
(* databases of their own, which follow the workspace's change log by a    *)
(* cursor.  The two databases commit separately, several Workspace objects *)
(* (in one process or in several) share the index files, and a search runs *)
(* after the call that refreshed has given up the workspace's lock.        *)
(*                                                                         *)
(* A record is known by its place in the log; that it is cut into passages *)
(* of bounded width is left out.  An index is a bag of records: it could   *)
(* hold one twice; the order of its rows, which breaks ties between equal  *)
(* scores, is left out with the ranking.                                   *)
(***************************************************************************)
EXTENDS Naturals, Sequences

CONSTANTS
    Instances,   \* Workspace objects over one database path
    Calls,       \* searches, each for one evidence handle
    InstanceOf,  \* the object each call uses
    FileOf,      \* the index it needs: sources and journals, or journals only
    MaxLog,      \* bound: records published
    MaxTrouble   \* bound: errors, deaths and removals of index files

Files == {"evidence", "journals"}

Kinds == {"source", "turn", "note", "pointer"}

Nobody == "nobody"

CallsAssumption ==
    /\ InstanceOf \in [Calls -> Instances]
    /\ FileOf \in [Calls -> Files]
    /\ Nobody \notin Calls
    /\ MaxLog \in Nat /\ MaxTrouble \in Nat

VARIABLES
    log,      \* _index_changes: the kind of every record, in order of publication
    file,     \* the index databases
    handle,   \* the indexes each instance has opened (_lexical_indexes)
    closed,   \* the instances that were closed, or whose process died
    holder,   \* who holds each instance's _lock
    call,     \* the progress of each call
    trouble   \* counts towards MaxTrouble

vars == <<log, file, handle, closed, holder, call, trouble>>

Over == {"found", "failed"}

Records == 1 .. MaxLog
Nothing == [n \in Records |-> 0]

\* A database that has no index_info table, and one that another version built.
Missing == [identity |-> "none", through |-> 0, passages |-> Nothing]
Foreign == [identity |-> "other", through |-> 1,
            passages |-> [n \in Records |-> IF n = 1 THEN 2 ELSE 0]]

TypeOK ==
    /\ log \in Seq(Kinds) /\ Len(log) <= MaxLog
    /\ file \in [Files -> [identity : {"none", "other", "current"}, through : Nat,
                           passages : [Records -> Nat]]]
    /\ handle \in [Instances -> SUBSET Files]
    /\ closed \subseteq Instances
    /\ holder \in [Instances -> Calls \cup {Nobody}]
    /\ call \in [Calls -> [pc : {"start", "entered", "opened", "behind", "ready"} \cup Over,
                           cutoff : Nat, peeked : Nat, answer : [Records -> Nat]]]
    /\ trouble \in 0 .. MaxTrouble

Init ==
    /\ log = <<>>
    /\ file \in [Files -> {Missing, Foreign}]
    /\ handle = [i \in Instances |-> {}]
    /\ closed = {}
    /\ holder = [i \in Instances |-> Nobody]
    /\ call = [c \in Calls |-> [pc |-> "start", cutoff |-> 0, peeked |-> 0, answer |-> Nothing]]
    /\ trouble = 0

\* What an index holds of a record: the journals' index skips the sources, and a journal
\* entry whose value is a reference has no text.
Indexed(kind, f) == kind = "note" \/ (f = "evidence" /\ kind # "pointer")

\* The records of _changed_records(after, cutoff) that f holds, each once.
Changed(f, after, cutoff) ==
    [n \in Records |-> IF n \in after + 1 .. cutoff /\ Indexed(log[n], f) THEN 1 ELSE 0]

\* An index's rows and those inserted into it.
With(rows, inserted) == [n \in Records |-> rows[n] + inserted[n]]

Holds(c) == holder[InstanceOf[c]] = c
Release(c) == holder' = [holder EXCEPT ![InstanceOf[c]] = Nobody]
Goto(c, step) == call' = [call EXCEPT ![c].pc = step]

-----------------------------------------------------------------------------
(* The workspace *)

\* External: a publication commits and logs its record (EvidenceStore, Journal).
Publish ==
    /\ Len(log) < MaxLog
    /\ \E kind \in Kinds : log' = Append(log, kind)
    /\ UNCHANGED <<file, handle, closed, holder, call, trouble>>

\* Workspace._run: the lock, then the cutoff.
Enter(c) ==
    LET i == InstanceOf[c] IN
    /\ call[c].pc = "start" /\ holder[i] = Nobody
    /\ IF i \in closed
       THEN Goto(c, "failed") /\ UNCHANGED holder
       ELSE /\ call' = [call EXCEPT ![c].pc = "entered", ![c].cutoff = Len(log)]
            /\ holder' = [holder EXCEPT ![i] = c]
    /\ UNCHANGED <<log, file, handle, closed, trouble>>

\* Mutant: an index is taken as it is found, whoever built it.
OpenAnything(c) ==
    LET i == InstanceOf[c]  f == FileOf[c] IN
    /\ call[c].pc = "entered"
    /\ handle' = [handle EXCEPT ![i] = @ \cup {f}]
    /\ file' = IF f \in handle[i] \/ file[f].identity # "none" THEN file
               ELSE [file EXCEPT ![f] = [Missing EXCEPT !.identity = "current"]]
    /\ Goto(c, "opened")
    /\ UNCHANGED <<log, closed, holder, trouble>>

\* LexicalIndex.__init__, once per instance and index: in one transaction, an index with
\* another identity is dropped and created anew with its cursor at the beginning.
OpenIndex(c) ==
    LET i == InstanceOf[c]  f == FileOf[c] IN
    /\ call[c].pc = "entered"
    /\ handle' = [handle EXCEPT ![i] = @ \cup {f}]
    /\ file' = IF f \in handle[i] \/ file[f].identity = "current" THEN file
               ELSE [file EXCEPT ![f] = [Missing EXCEPT !.identity = "current"]]
    /\ Goto(c, "opened")
    /\ UNCHANGED <<log, closed, holder, trouble>>

\* refresh reads the cursor and returns at once if the index is as far as the cutoff.
Peek(c) ==
    LET through == file[FileOf[c]].through IN
    /\ call[c].pc = "opened"
    /\ call' = [call EXCEPT ![c].peeked = through,
                            ![c].pc = IF call[c].cutoff <= through THEN "ready" ELSE "behind"]
    /\ IF call[c].cutoff <= through THEN Release(c) ELSE UNCHANGED holder
    /\ UNCHANGED <<log, file, handle, closed, trouble>>

\* Mutant: the cursor is not read again under the index's write lock.
RefreshFromPeeked(c) ==
    LET f == FileOf[c]  cutoff == call[c].cutoff IN
    /\ call[c].pc = "behind"
    /\ file' = [file EXCEPT
           ![f].passages = With(@, Changed(f, call[c].peeked, cutoff)),
           ![f].through = IF cutoff > @ THEN cutoff ELSE @]
    /\ Goto(c, "ready") /\ Release(c)
    /\ UNCHANGED <<log, handle, closed, trouble>>

\* The transaction of refresh, under the index's write lock: the cursor is read again,
\* what lies between it and the cutoff is added, the cursor moves, all or nothing.
Refresh(c) ==
    LET f == FileOf[c]  cutoff == call[c].cutoff IN
    /\ call[c].pc = "behind"
    /\ file' = [file EXCEPT
           ![f].passages = With(@, Changed(f, file[f].through, cutoff)),
           ![f].through = IF cutoff > @ THEN cutoff ELSE @]
    /\ Goto(c, "ready") /\ Release(c)
    /\ UNCHANGED <<log, handle, closed, trouble>>

\* LexicalIndex.search, without the workspace's lock: other calls may have refreshed
\* since, and Workspace.close may have closed the index.
Search(c) ==
    /\ call[c].pc = "ready"
    /\ IF FileOf[c] \in handle[InstanceOf[c]]
       THEN call' = [call EXCEPT ![c].pc = "found", ![c].answer = file[FileOf[c]].passages]
       ELSE Goto(c, "failed")
    /\ UNCHANGED <<log, file, handle, closed, holder, trouble>>

-----------------------------------------------------------------------------
(* Ends and failures *)

\* Any error while the index is opened or refreshed (a blob that is missing, a busy
\* database): the index's transaction rolls back, the lock is released.
Fail(c) ==
    /\ Holds(c) /\ trouble < MaxTrouble
    /\ Goto(c, "failed") /\ Release(c)
    /\ trouble' = trouble + 1
    /\ UNCHANGED <<log, file, handle, closed>>

\* Workspace.close closes its indexes, under the lock.
Close(i) ==
    /\ i \notin closed /\ holder[i] = Nobody
    /\ closed' = closed \cup {i}
    /\ handle' = [handle EXCEPT ![i] = {}]
    /\ UNCHANGED <<log, file, holder, call, trouble>>

\* The process dies: what its calls had not committed is gone.
Crash(i) ==
    /\ i \notin closed /\ trouble < MaxTrouble
    /\ closed' = closed \cup {i}
    /\ handle' = [handle EXCEPT ![i] = {}]
    /\ holder' = [holder EXCEPT ![i] = Nobody]
    /\ call' = [c \in Calls |-> IF InstanceOf[c] = i /\ call[c].pc \notin Over
                                THEN [call[c] EXCEPT !.pc = "failed"] ELSE call[c]]
    /\ trouble' = trouble + 1
    /\ UNCHANGED <<log, file>>

\* External: the operator removes a derived index while nobody has it open.
Discard(f) ==
    /\ trouble < MaxTrouble /\ file[f] # Missing
    /\ \A i \in Instances : f \notin handle[i]
    /\ file' = [file EXCEPT ![f] = Missing]
    /\ trouble' = trouble + 1
    /\ UNCHANGED <<log, handle, closed, holder, call>>

Step(c) == Enter(c) \/ OpenIndex(c) \/ Peek(c) \/ Refresh(c) \/ Search(c)

Next ==
    \/ Publish
    \/ \E c \in Calls : Step(c) \/ Fail(c)
    \/ \E i \in Instances : Close(i) \/ Crash(i)
    \/ \E f \in Files : Discard(f)

Spec == Init /\ [][Next]_vars

-----------------------------------------------------------------------------
(* Properties *)

\* An index that somebody has open holds every record up to its cursor exactly once,
\* and its cursor never leads the log (lexical.py, refresh): whoever refreshed,
\* from whatever cutoff, and whatever failed or died in between.
IndexExact ==
    \A f \in Files : (\E i \in Instances : f \in handle[i]) =>
        /\ file[f].identity = "current"
        /\ file[f].through <= Len(log)
        /\ file[f].passages = Changed(f, 0, file[f].through)

\* A search that answers has seen everything that was published when its call took the
\* workspace's lock, and nothing that is not published (workspace.py, _lexical_index).
SearchIsFresh ==
    \A c \in Calls : call[c].pc = "found" =>
        \E n \in call[c].cutoff .. Len(log) : call[c].answer = Changed(FileOf[c], 0, n)
==============================================================================
