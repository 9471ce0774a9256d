------------------------------ MODULE Journal ------------------------------
(***************************************************************************)
(* The journals of a workspace: append_journal and compact_journal over    *)
(* the tables journal_entries (the history), _journal_operational (the     *)
(* entries readers are given), idempotency and _index_changes.             *)
(*                                                                         *)
(* A transaction holds SQLite's write lock from its first read to its      *)
(* COMMIT (EvidenceStore), so it is one step here, and one that raises     *)
(* changes nothing.  A request may be served at any time, long after its   *)
(* caller looked at the journal, late for a caller who has gone, and again *)
(* when it is retried: also while its first thread still waits.            *)
(***************************************************************************)
EXTENDS JournalAlgebra, Sequences

CONSTANTS
    Nodes,       \* published nodes
    Keys,        \* idempotency keys
    Requests,    \* what callers ask for
    MaxEntries   \* bound: entries in one journal

(* expected is the length the caller believes the journal to have, or None. *)
RequestType ==
    [node : Nodes, key : Keys \cup {None}, expected : Nat \cup {None}, is : ContentType]

ASSUME JournalAssumption ==
    /\ Requests \subseteq RequestType
    /\ \A r \in Requests : r.is.kind = "correction" => r.is.target # 0
    /\ None \notin Requests /\ None \notin Keys /\ None \notin Nat
    /\ MaxEntries \in Nat

VARIABLES
    history,      \* node -> the contents appended, in order
    operational,  \* node -> the numbers of the entries readers are given
    memo,         \* key -> [request, seq] of the append recorded for it, or None
    changes,      \* the journal rows of the index change log, in order
    acks          \* the answers given to callers

vars == <<history, operational, memo, changes, acks>>

MemoType == [request : Requests, seq : Nat \ {0}]

ASSUME JournalMemoAssumption == None \notin MemoType

TypeOK ==
    /\ history \in [Nodes -> Seq(ContentType)]
    /\ operational \in [Nodes -> SUBSET Nat]
    /\ memo \in [Keys -> MemoType \cup {None}]
    /\ changes \in Seq([node : Nodes, seq : Nat])
    /\ acks \subseteq MemoType

Init ==
    /\ history = [n \in Nodes |-> << >>]
    /\ operational = [n \in Nodes |-> {}]
    /\ memo = [k \in Keys |-> None]
    /\ changes = << >>
    /\ acks = {}

-----------------------------------------------------------------------------
Numbered(h, numbers) == {Entry(n, h[n]) : n \in numbers}

Entries(h) == Numbered(h, 1 .. Len(h))

Numbers(E) == {e.seq : e \in E}

Prior(r) == IF r.key = None THEN None ELSE memo[r.key]

(* Mutant: a retry is recognized by its key alone.                         *)
ConflictNever(r) == FALSE

(* The key was used for another request: for other content, or the same    *)
(* content with another expected sequence.                                 *)
Conflict(r) == Prior(r) # None /\ Prior(r).request # r

(* Mutant: the expected sequence is not compared.                          *)
StaleNever(r) == FALSE

(* The journal is not as long as the caller believes.                      *)
Stale(r) == r.expected # None /\ r.expected # Len(history[r.node])

(* Mutant: a correction may name an entry that is not there yet.           *)
ResolvesAlways(r) == TRUE

(* The subject is there; a JournalRef names an entry of the node.          *)
Resolves(r) == r.is.target <= Len(history[r.node])

(* Mutant: a correction is reconciled with the operational rows, too.      *)
ReconciledFromRows(h, rows, content) ==
    Numbers(Compact(Numbered(h, rows)))

(* _reconcile_journal: a correction looks at the whole history again, for  *)
(* it may concern an entry that was archived; any other append looks at    *)
(* the operational rows only.                                              *)
Reconciled(h, rows, content) ==
    Numbers(Compact(IF content.kind = "correction" THEN Entries(h) ELSE Numbered(h, rows)))

(* Mutant: the retry row has the sequence found, not the one given.        *)
RecordedFound(r, seq) ==
    IF r.key = None THEN memo ELSE [memo EXCEPT ![r.key] = [request |-> r, seq |-> seq - 1]]

(* The table idempotency with the result of r.                             *)
Recorded(r, seq) ==
    IF r.key = None THEN memo ELSE [memo EXCEPT ![r.key] = [request |-> r, seq |-> seq]]

(* Mutant: only the first entry of a journal is logged for the index.      *)
LoggedFirst(n, seq) ==
    IF seq = 1 THEN Append(changes, [node |-> n, seq |-> seq]) ELSE changes

Logged(n, seq) == Append(changes, [node |-> n, seq |-> seq])

(* The answer is given, whether or not its caller is still there.          *)
Answer(r, seq) == acks' = acks \cup {[request |-> r, seq |-> seq]}

-----------------------------------------------------------------------------
(* The key is recorded for this request: the recorded entry is returned.   *)
Replay(r) ==
    /\ Prior(r) # None /\ ~Conflict(r)
    /\ Answer(r, Prior(r).seq)
    /\ UNCHANGED <<history, operational, memo, changes>>

(* The entry, its index change, the operational rows and the retry row.    *)
AppendEntry(r) ==
    LET n == r.node
        h == Append(history[n], r.is)
    IN  /\ Prior(r) = None /\ Resolves(r) /\ ~Stale(r)
        /\ Len(h) <= MaxEntries
        /\ history' = [history EXCEPT ![n] = h]
        /\ operational' = [operational EXCEPT ![n] = Reconciled(h, @ \cup {Len(h)}, r.is)]
        /\ memo' = Recorded(r, Len(h))
        /\ changes' = Logged(n, Len(h))
        /\ Answer(r, Len(h))

(* compact_journal rebuilds the operational rows from the history.  If     *)
(* they are more than its caller allows, the transaction is rolled back.   *)
CompactJournal(n) ==
    /\ operational' = [operational EXCEPT ![n] = Numbers(Compact(Entries(history[n])))]
    /\ UNCHANGED <<history, memo, changes, acks>>

Next ==
    \/ \E r \in Requests : Replay(r) \/ AppendEntry(r)
    \/ \E n \in Nodes : CompactJournal(n)

Spec == Init /\ [][Next]_vars

-----------------------------------------------------------------------------
(* The rows kept by one append after another are those that compaction of  *)
(* the whole history gives: nothing is archived too early, and what a      *)
(* correction needs again comes back (workspace.py, _reconcile_journal).   *)
OperationalExact ==
    \A n \in Nodes : operational[n] = Numbers(Compact(Entries(history[n])))

(* A reader who is given the operational rows learns what the history      *)
(* says, for every scope and instant: the same active facts, proposals and *)
(* conflicts, and what is unresolved, except entries that an overwrite     *)
(* would replace that is just as unresolved (workspace.py,                 *)
(* operational_journal, "or fail before silently omitting any required     *)
(* record").                                                               *)
CompactionSound ==
    \A n \in {m \in Nodes : operational[m] # 1 .. Len(history[m])}, q \in Queries :
      LET given == Numbered(history[n], operational[n])
          full == Interpretation(Entries(history[n]), q)
          seen == Interpretation(given, q)
      IN  /\ seen.active = full.active
          /\ seen.proposed = full.proposed
          /\ seen.conflicts = full.conflicts
          /\ seen.unresolved = full.unresolved \cap given
          /\ \A e \in full.unresolved \ given : \E o \in seen.unresolved :
               o.is.kind = "overwrite" /\ Slot(o) = Slot(e) /\ e.seq < o.seq

(* Retraction is an inverse: when the only retraction of an applicable     *)
(* correction applies, everything else means what it would mean if neither *)
(* had been written (evidence.py, "an inactive correction no longer        *)
(* changes its own target").                                               *)
RetractionUndoes ==
    \A n \in Nodes, q \in Queries :
      LET all == Entries(history[n])
          full == Interpretation(all, q)
          Retracts(undo, c) ==
            /\ Edits(undo, c, q) /\ undo.is.relation = "retract"
            /\ Correcting(c, q)
            /\ \A e \in all \ {undo} : e.is.target \notin {c.seq, undo.seq}
      IN  \A undo \in full.active, c \in full.inactive :
            Retracts(undo, c) =>
              LET without == Interpretation(all \ {c, undo}, q)
              IN  /\ full.active = without.active \cup {undo}
                  /\ full.inactive = without.inactive \cup {c}
                  /\ full.conflicts = without.conflicts

(* An entry that is no correction only ever replaces: it makes active      *)
(* entries of its own slot inactive and changes the meaning of no other    *)
(* (evidence.py, interpret_journal).                                       *)
AppendIsLocal ==
    [][\A n \in Nodes, q \in Queries :
         LET before == Entries(history[n])
             after == Entries(history'[n])
             was == Interpretation(before, q)
             is == Interpretation(after, q)
             replaced == was.active \ is.active
         IN  \A new \in after \ before :
               new.is.kind # "correction" =>
                 /\ is.unresolved \cap before = was.unresolved
                 /\ is.active \cap before \subseteq was.active
                 /\ is.inactive \cap before = was.inactive \cup replaced
                 /\ \A e \in replaced : Slot(e) = Slot(new)]_history

(* A request with a key is appended at most once, and every caller who     *)
(* made it is told the one entry, whatever was appended in between.        *)
AnswersAgree ==
    /\ \A a \in acks :
         history[a.request.node][a.seq] = a.request.is
    /\ \A a, b \in acks :
         a.request.key # None /\ a.request.key = b.request.key =>
           a = b /\ memo[a.request.key] = a

(* Who appends to the journal he has read appends right after it: nobody   *)
(* who was told so has had another entry slipped in before his own.        *)
NothingSlippedIn ==
    \A a \in acks : a.request.expected # None => a.seq = a.request.expected + 1

(* What callers are told of their appends is true of the history.          *)
CallersAgree == AnswersAgree /\ NothingSlippedIn

(* A JournalRef never names its own entry or a later one.                  *)
TargetsEarlier ==
    \A n \in Nodes : \A i \in 1 .. Len(history[n]) : history[n][i].target < i

(* The index change log names every entry of every journal once, and       *)
(* those of one journal in order.                                          *)
ChangesComplete ==
    /\ {changes[i] : i \in 1 .. Len(changes)}
         = UNION {[node : {n}, seq : 1 .. Len(history[n])] : n \in Nodes}
    /\ \A i, j \in 1 .. Len(changes) :
         i < j /\ changes[i].node = changes[j].node => changes[i].seq < changes[j].seq
=============================================================================
