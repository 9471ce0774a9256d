--------------------------- MODULE EvidenceStore ---------------------------
(***************************************************************************)
(* The storage layer of llgm: Workspace.ingest and append_conversation     *)
(* over a content-addressed blob store and one SQLite database.            *)
(*                                                                         *)
(* A call is one storage operation: asyncio.to_thread runs it on a worker  *)
(* thread under the lock of its Workspace instance.  Several instances (in *)
(* one process or several) share the database, whose BEGIN IMMEDIATE lets  *)
(* one writer in.  A caller that stops waiting does not stop its thread; a *)
(* process may die between any two steps.  Blobs live outside the          *)
(* transaction: they are put first and stay when it is rolled back.        *)
(***************************************************************************)
EXTENDS StoreTypes, FiniteSets

CONSTANTS
    Calls,        \* storage operations in flight (worker threads)
    Instances,    \* Workspace objects
    InstanceOf,   \* the Workspace object each call runs on
    MaxCalls,     \* bound: calls ever made
    MaxTrouble    \* bound: process deaths and storage errors

ASSUME CallsAssumption ==
    /\ InstanceOf \in [Calls -> Instances]
    /\ None \notin Calls
    /\ {MaxCalls, MaxTrouble} \subseteq Nat

VARIABLES
    blobs,     \* contents durable in the blob store
    sources,   \* table sources: node -> its base record, or None
    turns,     \* table source_turns, in sequence order
    pointer,   \* table conversations: conversation -> active node, or None
    memo,      \* table idempotency: slot -> [fp, node], or None
    changes,   \* table _index_changes, in sequence order
    writer,    \* the call holding SQLite's write lock, or None
    lock,      \* instance -> the call holding Workspace._lock, or None
    closed,    \* instance -> Workspace._closed
    pc,        \* where each call's thread is
    request,   \* what each call was asked
    stored,    \* how many payload blobs each call has put
    target,    \* the node each call has decided to write, or None
    result,    \* what each finished call will report
    waiting,   \* whether the caller still awaits the call
    acks,      \* every answer a caller has received
    made,      \* calls made so far (bounded by MaxCalls)
    trouble    \* deaths and errors so far (bounded by MaxTrouble)

tables == <<sources, turns, pointer, memo, changes>>
threads == <<pc, request, stored, target, result, waiting>>
used == <<made, trouble>>
vars == <<blobs, tables, writer, lock, closed, threads, acks, used>>

Steps == {"idle", "queued", "blobs", "begin", "base", "commit", "done"}

TypeOK ==
    /\ blobs \subseteq Contents
    /\ sources \in [Nodes -> Contents \cup {None}]
    /\ turns \in Seq(TurnType)
    /\ pointer \in [Conversations -> Nodes \cup {None}]
    /\ memo \in [Slots -> MemoType \cup {None}]
    /\ changes \in Seq([kind : {"source"}, record : Nodes]
                       \cup [kind : {"turn"}, record : Nat])
    /\ writer \in Calls \cup {None}
    /\ lock \in [Instances -> Calls \cup {None}]
    /\ closed \in [Instances -> BOOLEAN]
    /\ pc \in [Calls -> Steps]
    /\ request \in [Calls -> Requests \cup {None}]
    /\ stored \in [Calls -> Nat]
    /\ target \in [Calls -> Nodes \cup {None}]
    /\ result \in [Calls -> AckType \cup {None}]
    /\ waiting \in [Calls -> BOOLEAN]
    /\ acks \subseteq AckType
    /\ made \in Nat /\ trouble \in Nat

Init ==
    /\ blobs = {}
    /\ sources = [n \in Nodes |-> None]
    /\ turns = << >>
    /\ pointer = [v \in Conversations |-> None]
    /\ memo = [s \in Slots |-> None]
    /\ changes = << >>
    /\ writer = None
    /\ lock = [i \in Instances |-> None]
    /\ closed = [i \in Instances |-> FALSE]
    /\ pc = [c \in Calls |-> "idle"]
    /\ request = [c \in Calls |-> None]
    /\ stored = [c \in Calls |-> 0]
    /\ target = [c \in Calls |-> None]
    /\ result = [c \in Calls |-> None]
    /\ waiting = [c \in Calls |-> FALSE]
    /\ acks = {}
    /\ made = 0 /\ trouble = 0

-----------------------------------------------------------------------------
(* Reading the tables.                                                     *)

Req(c) == request[c]
Lock(c) == lock[InstanceOf[c]]

(* The blobs put before the transaction: the whole import, or each turn.   *)
Payload(r) == IF r.op = "ingest" THEN <<r.base>> ELSE r.texts

Prior(r) == IF r.key = None THEN None ELSE memo[Slot(r)]

(* Mutant: a retry key is looked up without comparing fingerprints.        *)
KeyConflictNever(r) == FALSE

(* Workspace._retry raises for a key recorded with other content.          *)
KeyConflict(r) == Prior(r) # None /\ Prior(r).fp # Fingerprint(r)

(* Mutants: one of the two refusals of a transaction body is forgotten.    *)
RefusedMissingOnly(r) ==
    Prior(r) = None /\ r.node # None /\ r.op = "append" /\ sources[r.node] = None

RefusedOtherContentOnly(r) ==
    /\ Prior(r) = None /\ r.node # None
    /\ r.op = "ingest" /\ sources[r.node] \notin {None, r.base}

(* The transaction body raises: an immutable node with other content, or   *)
(* an append to a node that does not exist.                                *)
Refused(r) ==
    /\ Prior(r) = None
    /\ r.node # None
    /\ \/ r.op = "ingest" /\ sources[r.node] \notin {None, r.base}
       \/ r.op = "append" /\ sources[r.node] = None

(* Mutant: a missing node identity is not replaced by a fresh one.         *)
TargetsWithoutUuid(r) == {r.node}

(* The nodes a transaction may write: the caller's, or a fresh uuid.       *)
Targets(r) ==
    IF r.node # None
      THEN {r.node}
      ELSE {n \in Nodes \ ImportIds : sources[n] = None}

(* The transaction inserts a source row for its target.                    *)
Creates(r, n) == IF r.op = "ingest" THEN sources[n] = None ELSE r.node = None

(* Mutant: an append that creates its topic does not log the source.       *)
SourceChangeImportsOnly(r, n) ==
    IF r.op = "ingest" /\ Creates(r, n)
      THEN <<[kind |-> "source", record |-> n]>> ELSE << >>

SourceChange(r, n) ==
    IF Creates(r, n) THEN <<[kind |-> "source", record |-> n]>> ELSE << >>

TurnChanges(r) ==
    [i \in 1 .. Len(r.texts) |-> [kind |-> "turn", record |-> Len(turns) + i]]

(* Mutant: a new topic's base record is left for after the COMMIT.         *)
AfterBeginNoBase(r) == "commit"

(* A new topic's base record is put inside the transaction.                *)
AfterBegin(r) == IF r.op = "append" /\ r.node = None THEN "base" ELSE "commit"

-----------------------------------------------------------------------------
(* The thread of a call.                                                   *)

(* Mutant: an exception leaves the transaction open.                       *)
LeaveWithoutRollback(c, outcome) ==
    /\ pc' = [pc EXCEPT ![c] = "done"]
    /\ result' = [result EXCEPT ![c] = outcome]
    /\ lock' = [lock EXCEPT ![InstanceOf[c]] = None]
    /\ writer' = IF writer = c /\ outcome # None THEN None ELSE writer
    /\ UNCHANGED <<request, stored, target, waiting, closed, acks>>

(* The worker thread leaves its instance lock, and its transaction if it   *)
(* has one, and hands outcome to the event loop (None: an exception).      *)
Leave(c, outcome) ==
    /\ pc' = [pc EXCEPT ![c] = "done"]
    /\ result' = [result EXCEPT ![c] = outcome]
    /\ lock' = [lock EXCEPT ![InstanceOf[c]] = None]
    /\ writer' = IF writer = c THEN None ELSE writer
    /\ UNCHANGED <<request, stored, target, waiting, closed, acks>>

Goto(c, step) ==
    /\ pc' = [pc EXCEPT ![c] = step]
    /\ UNCHANGED <<lock, closed, request, result, waiting, acks>>

(* The locals of threads that are over, and of their callers, are gone.    *)
Forget(over) ==
    /\ pc' = [c \in Calls |-> IF c \in over THEN "idle" ELSE pc[c]]
    /\ request' = [c \in Calls |-> IF c \in over THEN None ELSE request[c]]
    /\ stored' = [c \in Calls |-> IF c \in over THEN 0 ELSE stored[c]]
    /\ target' = [c \in Calls |-> IF c \in over THEN None ELSE target[c]]
    /\ result' = [c \in Calls |-> IF c \in over THEN None ELSE result[c]]
    /\ waiting' = [c \in Calls |-> waiting[c] /\ c \notin over]

(* A caller awaits Workspace._run: the operation is given to a thread.     *)
Call(c, r) ==
    /\ pc[c] = "idle"
    /\ made < MaxCalls
    /\ made' = made + 1
    /\ UNCHANGED trouble
    /\ pc' = [pc EXCEPT ![c] = "queued"]
    /\ request' = [request EXCEPT ![c] = r]
    /\ waiting' = [waiting EXCEPT ![c] = TRUE]
    /\ UNCHANGED <<blobs, tables, writer, lock, closed, stored, target, result, acks>>

(* The thread takes the instance lock and opens the connection.            *)
Acquire(c) ==
    /\ pc[c] = "queued"
    /\ Lock(c) = None
    /\ ~closed[InstanceOf[c]]
    /\ lock' = [lock EXCEPT ![InstanceOf[c]] = c]
    /\ pc' = [pc EXCEPT ![c] = "blobs"]
    /\ UNCHANGED <<blobs, tables, writer, closed, request, stored, target,
                   result, waiting, acks, used>>

(* _ensure_open refuses a closed instance.                                 *)
RefuseClosed(c) ==
    /\ pc[c] = "queued"
    /\ Lock(c) = None
    /\ closed[InstanceOf[c]]
    /\ Leave(c, None)
    /\ UNCHANGED <<blobs, tables, used>>

(* One BlobStore.put: the content is durable when it returns.              *)
PutBlob(c) ==
    /\ pc[c] = "blobs"
    /\ blobs' = blobs \cup {Payload(Req(c))[stored[c] + 1]}
    /\ stored' = [stored EXCEPT ![c] = @ + 1]
    /\ Goto(c, IF stored[c] + 1 = Len(Payload(Req(c))) THEN "begin" ELSE "blobs")
    /\ UNCHANGED <<tables, writer, target, used>>

(* Mutant: the pointer is moved before the retry row is looked up.         *)
ReplayMovesPointer(c) ==
    /\ pc[c] = "begin" /\ writer = None
    /\ Prior(Req(c)) # None /\ ~KeyConflict(Req(c))
    /\ pointer' = [pointer EXCEPT ![Req(c).conv] = Prior(Req(c)).node]
    /\ Leave(c, [request |-> Req(c), node |-> Prior(Req(c)).node, created |-> FALSE])
    /\ UNCHANGED <<blobs, sources, turns, memo, changes, used>>

(* BEGIN IMMEDIATE, and the retry row of this key already there: the empty *)
(* transaction commits and the recorded result is returned.                *)
Replay(c) ==
    /\ pc[c] = "begin" /\ writer = None
    /\ Prior(Req(c)) # None /\ ~KeyConflict(Req(c))
    /\ Leave(c, [request |-> Req(c), node |-> Prior(Req(c)).node, created |-> FALSE])
    /\ UNCHANGED <<blobs, tables, used>>

(* BEGIN IMMEDIATE, and the body raises before it writes: ROLLBACK.        *)
Reject(c) ==
    /\ pc[c] = "begin" /\ writer = None
    /\ KeyConflict(Req(c)) \/ Refused(Req(c))
    /\ Leave(c, None)
    /\ UNCHANGED <<blobs, tables, used>>

(* Mutant: a deferred BEGIN reads the tables before it excludes writers.   *)
BeginDeferred(c) ==
    /\ pc[c] = "begin"
    /\ Prior(Req(c)) = None /\ ~Refused(Req(c))
    /\ writer' = c
    /\ \E n \in Targets(Req(c)) : target' = [target EXCEPT ![c] = n]
    /\ Goto(c, AfterBegin(Req(c)))
    /\ UNCHANGED <<blobs, tables, stored, used>>

(* BEGIN IMMEDIATE, and the body decides what to write.  From here to the  *)
(* COMMIT no other call writes.                                            *)
Begin(c) ==
    /\ pc[c] = "begin" /\ writer = None
    /\ Prior(Req(c)) = None /\ ~Refused(Req(c))
    /\ writer' = c
    /\ \E n \in Targets(Req(c)) : target' = [target EXCEPT ![c] = n]
    /\ Goto(c, AfterBegin(Req(c)))
    /\ UNCHANGED <<blobs, tables, stored, used>>

(* The put of that base record.                                            *)
PutBase(c) ==
    /\ pc[c] = "base"
    /\ blobs' = blobs \cup {Req(c).base}
    /\ Goto(c, "commit")
    /\ UNCHANGED <<tables, writer, stored, target, used>>

(* COMMIT: source row, turn rows, index changes, pointer and retry row     *)
(* become visible together.                                                *)
Commit(c) ==
    LET r == Req(c)
        n == target[c]
    IN  /\ pc[c] = "commit"
        /\ sources' = IF Creates(r, n) THEN [sources EXCEPT ![n] = r.base] ELSE sources
        /\ turns' = turns \o Batch(r, n, turns)
        /\ pointer' = IF r.op = "append" THEN [pointer EXCEPT ![r.conv] = n] ELSE pointer
        /\ memo' = Recorded(memo, r, n)
        /\ changes' = changes \o SourceChange(r, n) \o TurnChanges(r)
        /\ Leave(c, [request |-> r, node |-> n, created |-> Creates(r, n)])
        /\ UNCHANGED <<blobs, used>>

(* A blob put, SQLite (disk full, 30 s busy timeout) or the COMMIT raises: *)
(* the transaction, if begun, is rolled back and the blobs stay.           *)
Fault(c) ==
    /\ pc[c] \in {"blobs", "begin", "base", "commit"}
    /\ trouble < MaxTrouble
    /\ trouble' = trouble + 1
    /\ UNCHANGED made
    /\ Leave(c, None)
    /\ UNCHANGED <<blobs, tables>>

(* The event loop resumes the caller, if it still waits.                   *)
Deliver(c) ==
    /\ pc[c] = "done"
    /\ acks' = IF waiting[c] /\ result[c] # None THEN acks \cup {result[c]} ELSE acks
    /\ Forget({c})
    /\ UNCHANGED <<blobs, tables, writer, lock, closed, used>>

-----------------------------------------------------------------------------
(* The environment of a call.                                              *)

(* The awaiting task is cancelled or its timeout fires.  A thread that has *)
(* started goes on; one still in the executor's queue never starts.        *)
Cancel(c) ==
    /\ pc[c] # "idle" /\ waiting[c]
    /\ \/ /\ waiting' = [waiting EXCEPT ![c] = FALSE]
          /\ UNCHANGED <<pc, request, stored, target, result>>
       \/ pc[c] = "queued" /\ Forget({c})
    /\ UNCHANGED <<blobs, tables, writer, lock, closed, acks, used>>

(* Workspace.close waits for the lock; later calls are refused.            *)
Close(i) ==
    /\ lock[i] = None /\ ~closed[i]
    /\ closed' = [closed EXCEPT ![i] = TRUE]
    /\ UNCHANGED <<blobs, tables, writer, lock, threads, acks, used>>

(* The process of instance i dies and is started again: its threads and    *)
(* their uncommitted transaction are gone, tables and blobs stay.          *)
Crash(i) ==
    LET mine == {c \in Calls : InstanceOf[c] = i}
    IN  /\ trouble < MaxTrouble
        /\ trouble' = trouble + 1
        /\ UNCHANGED made
        /\ Forget(mine)
        /\ lock' = [lock EXCEPT ![i] = None]
        /\ closed' = [closed EXCEPT ![i] = FALSE]
        /\ writer' = IF writer \in mine THEN None ELSE writer
        /\ UNCHANGED <<blobs, tables, acks>>

-----------------------------------------------------------------------------
Thread(c) ==
    \/ Acquire(c) \/ RefuseClosed(c) \/ PutBlob(c) \/ Replay(c) \/ Reject(c)
    \/ Begin(c) \/ PutBase(c) \/ Commit(c) \/ Deliver(c)

Next ==
    \/ \E c \in Calls, r \in Requests : Call(c, r)
    \/ \E c \in Calls : Thread(c) \/ Fault(c) \/ Cancel(c)
    \/ \E i \in Instances : Close(i) \/ Crash(i)

Spec == Init /\ [][Next]_vars

(* A runnable thread is eventually scheduled.  Weak fairness is enough: the *)
(* calls are finitely many, so a contended lock is in the end left free.   *)
FairSpec == Spec /\ \A c \in Calls : WF_vars(Thread(c))

-----------------------------------------------------------------------------
(* Every visible record can be read: its blobs were durable before the row *)
(* that names them was committed (workspace.py, ingest; conversation.py,   *)
(* append_conversation).                                                   *)
VisibleBlobsDurable ==
    /\ \A n \in Nodes : sources[n] # None => sources[n] \in blobs
    /\ \A i \in 1 .. Len(turns) : turns[i].text \in blobs

(* A keyed append takes effect at most once, whatever was retried, lost,   *)
(* cancelled or still running in another thread or instance: the batches   *)
(* that carry its turns are one.  It speaks of texts that only one key     *)
(* uses, so that two batches with that text are two effects of that key.   *)
AppliedOnce ==
    LET Users(t) == {r \in Requests : \E i \in 1 .. Len(r.texts) : r.texts[i] = t}
        Own(t) == \E k \in Keys : \A r \in Users(t) : r.key = k
    IN  \A i, j \in 1 .. Len(turns) :
          turns[i].text = turns[j].text /\ Own(turns[i].text)
            => turns[i].batch = turns[j].batch

(* Callers that use one key of one operation are all told the same node    *)
(* and were all asking for the same content, and the table still says so.  *)
AnswersAgree ==
    \A a, b \in acks :
      a.request.key # None /\ Slot(a.request) = Slot(b.request) =>
        /\ a.node = b.node
        /\ Fingerprint(a.request) = Fingerprint(b.request)

(* Whatever a caller was told is published stays visible, across crashes,  *)
(* rollbacks and closes.                                                   *)
AnsweredIsVisible ==
    \A a \in acks : Visible(a.request, a.node, sources, turns)

(* Answers are true for good, and what they answer has happened once.      *)
AnswersHold == AnswersAgree /\ AnsweredIsVisible /\ AppliedOnce

(* The change log names every committed record exactly once, turns in      *)
(* their order, and a turn only after the source record of its node: an    *)
(* index that follows it by a cursor misses nothing.                       *)
ChangeLogComplete ==
    LET At(kind) == {i \in 1 .. Len(changes) : changes[i].kind = kind}
    IN  /\ \A n \in Nodes :
             Cardinality({i \in At("source") : changes[i].record = n})
               = IF sources[n] = None THEN 0 ELSE 1
        /\ \A i, j \in At("turn") : i < j => changes[i].record < changes[j].record
        /\ {changes[i].record : i \in At("turn")} = 1 .. Len(turns)
        /\ \A i \in At("turn") : \E j \in At("source") :
             j < i /\ changes[j].record = turns[changes[i].record].node

(* The active topic of a conversation always names a published node, and   *)
(* one whose history holds turns.                                          *)
PointerNamesTopic ==
    \A v \in Conversations :
      pointer[v] # None =>
        /\ sources[pointer[v]] # None
        /\ \E i \in 1 .. Len(turns) : turns[i].node = pointer[v]

(* Published evidence is never changed, reordered or withdrawn, and a      *)
(* recorded retry result is final.                                         *)
HistoryOnlyGrows ==
    [][/\ \A n \in Nodes : sources[n] # None => sources'[n] = sources[n]
       /\ Len(turns) <= Len(turns')
       /\ \A i \in 1 .. Len(turns) : turns'[i] = turns[i]
       /\ \A s \in Slots : memo[s] # None => memo'[s] = memo[s]]_vars

(* The pointer moves only together with turns appended to the node it      *)
(* moves to: a retry answered from the table does not move it back.        *)
PointerMovesWithTurns ==
    [][\A v \in Conversations :
         pointer'[v] # pointer[v] =>
           /\ Len(turns') > Len(turns)
           /\ turns'[Len(turns')].node = pointer'[v]]_vars

(* The layer implements the log of atomic, at-most-once publications.      *)
Log == INSTANCE PublicationLog
LogSpec == Log!Spec

(* Every call ends, with a result or an exception: a thread waits for the  *)
(* write lock while it holds its instance lock, and no failure, rollback   *)
(* or death leaves either lock behind.                                     *)
EveryCallReturns ==
    \A c \in Calls : pc[c] # "idle" ~> pc[c] = "idle"
=============================================================================
