---------------------------- MODULE EffectiveReads ----------------------------
(***************************************************************************)
(* memory/query.py: QueryEvidence reads a source passage as the journals   *)
(* amend it.  A read follows replacements from node to node; at each node  *)
(* it loads the whole operational journal again, so an append between two  *)
(* hops is seen by the second.  Readers of one handle share its byte       *)
(* account.                                                                *)
(*                                                                         *)
(* Every node has one turn of Length characters, and a text is known by    *)
(* its coordinates.  What an active or unresolved entry is comes from the  *)
(* interpretation of the journal (JournalAlgebra); here it is a status.    *)
(***************************************************************************)
EXTENDS Totals, FiniteSetsExt, Sequences

CONSTANTS
    Nodes,
    Length,      \* of every turn
    Amendments,  \* journal entries that replace a source passage, or confirm it
    SubjectOf, TargetOf,  \* the reference each is about, and the one it puts there
    Readers,
    Requests,    \* sequences of references: one read, or the passages of a hit
    MaxHops,     \* max_amendment_hops
    MaxTotal,    \* max_total_journal_bytes, in entries
    MaxChanges,  \* bound: journal appends during the reads
    MaxTrouble   \* bound: reads that fail

\* A turn's span, a whole node, or the inline text of an entry.
References ==
    {ref \in [kind : {"span", "node", "note"}, node : Nodes, lo : 0 .. Length, hi : 0 .. Length] :
        ref.lo < ref.hi}

ReadsAssumption ==
    /\ IsFiniteSet(Amendments)
    /\ SubjectOf \in [Amendments -> References] /\ TargetOf \in [Amendments -> References]
    /\ \A a \in Amendments : SubjectOf[a].kind # "note"
    /\ Requests \subseteq Seq(References)
    /\ {Length, MaxHops} \subseteq Nat \ {0} /\ {MaxTotal, MaxChanges, MaxTrouble} \subseteq Nat

VARIABLES
    journal,  \* the status of every entry; absent before it is appended
    states,   \* per node: the journal the handle has loaded last (_states)
    bytes,    \* _journal_bytes
    reader,   \* per reader: pc, what it has fetched, and its work
    changes, trouble

vars == <<journal, states, bytes, reader, changes, trouble>>

Statuses == {"absent", "active", "unresolved", "inactive"}
Entries(node) == {a \in Amendments : SubjectOf[a].node = node}

\* What a reader has of one node: its entries with their status.
ViewOf(node) == [a \in Entries(node) |-> journal[a]]
NoView == [a \in {} |-> "absent"]
Size(view) == Cardinality({a \in DOMAIN view : view[a] # "absent"})

\* _patches: the entries of a view that amend a source.
PatchesIn(view) == {a \in DOMAIN view : view[a] \in {"active", "unresolved"}}

\* One piece of work, still to be read or already a segment of the answer.  chain: the
\* amendments that led there, each with the view it was taken from.
Piece(kind, ref, path, chain, view) ==
    [kind |-> kind, ref |-> ref, path |-> path, chain |-> chain, view |-> view]

TypeOK ==
    /\ journal \in [Amendments -> Statuses]
    /\ DOMAIN states \subseteq Nodes
    /\ bytes \in Nat
    /\ \A r \in Readers :
           /\ reader[r].pc \in {"idle", "reading", "fetched", "done", "failed"}
           /\ \A i \in DOMAIN reader[r].work :
                  /\ reader[r].work[i].kind \in {"read", "text", "confirmed", "note", "blocked"}
                  /\ reader[r].work[i].ref \in References
    /\ changes \in 0 .. MaxChanges /\ trouble \in 0 .. MaxTrouble

Init ==
    /\ journal \in [Amendments -> {"absent", "active", "unresolved"}]
    /\ states = [n \in {} |-> NoView] /\ bytes = 0
    /\ reader = [r \in Readers |->
           [pc |-> "idle", asked |-> <<>>, fetched |-> NoView, top |-> NoView, work |-> <<>>]]
    /\ changes = 0 /\ trouble = 0

-----------------------------------------------------------------------------
(* Which text a reference stands for *)

\* Mutant: a passage that ends where another begins is taken to meet it.
Touches(a, b) == a.lo <= b.hi /\ a.hi >= b.lo

Overlaps(a, b) == a.lo < b.hi /\ a.hi > b.lo

\* The amendments of a span, and those among them that overlap another of them.
Applicable(ref, view) == {a \in PatchesIn(view) : Overlaps(SubjectOf[a], ref)}
Disputed(a, applicable) ==
    \E other \in applicable \ {a} : Overlaps(SubjectOf[other], SubjectOf[a])

Blocked(ref, item, view) == Piece("blocked", ref, {}, item.chain, view)

\* _replacement: the target of amendment a in place of ref.
Replacement(a, ref, applicable, item, view) ==
    LET chain == Append(item.chain, [entry |-> a, view |-> view])
        target == TargetOf[a]
    IN IF \/ view[a] = "unresolved"
          \/ Disputed(a, applicable)
          \/ target.kind = "node" /\ ref.kind # "node"
       THEN Blocked(ref, item, view)
       ELSE IF target = SubjectOf[a] THEN Piece("confirmed", ref, {}, chain, view)
       ELSE Piece("read", target, item.path \cup {item.ref}, chain, view)

\* The k-th smallest number of a set.
Nth(numbers, k) == CHOOSE x \in numbers : Cardinality({y \in numbers : y < x}) = k - 1

\* _span: the range is cut at the bounds of its amendments.  What none covers is original
\* text; an amendment replaces the first piece it covers alone, once.
Span(ref, item, view) ==
    LET applicable == Applicable(ref, view)
        bounds == {ref.lo, ref.hi}
                    \cup {Max({ref.lo, SubjectOf[a].lo}) : a \in applicable}
                    \cup {Min({ref.hi, SubjectOf[a].hi}) : a \in applicable}
        Cut(lo) == [ref EXCEPT !.lo = lo, !.hi = Min({b \in bounds : b > lo})]
        On(lo) == {a \in applicable : Overlaps(SubjectOf[a], Cut(lo))}
        Segment(lo) ==
            CASE On(lo) = {} -> Piece("text", Cut(lo), {}, item.chain, view)
              [] Cardinality(On(lo)) > 1 -> Blocked(Cut(lo), item, view)
              [] OTHER -> Replacement(CHOOSE a \in On(lo) : TRUE, Cut(lo), applicable, item, view)
        starts == {lo \in bounds \ {ref.hi} :
                      Cardinality(On(lo)) = 1 => \A b \in bounds : b < lo => On(b) # On(lo)}
    IN IF \E a \in PatchesIn(view) : SubjectOf[a].kind = "node"
       THEN <<Blocked(ref, item, view)>>
       ELSE [k \in 1 .. Cardinality(starts) |-> Segment(Nth(starts, k))]

\* A whole node: its whole-node amendment if that is the only one, else its turns.
WholeNode(ref, item, view) ==
    LET whole == {a \in PatchesIn(view) : SubjectOf[a].kind = "node"} IN
    IF whole = {} THEN Span([ref EXCEPT !.kind = "span"], item, view)
    ELSE IF Cardinality(PatchesIn(view)) # 1 THEN <<Blocked(ref, item, view)>>
    ELSE <<Replacement(CHOOSE a \in whole : TRUE, ref, {}, item, view)>>

\* _read_segments: a cycle or too many hops end in a blocked segment.
Segments(item, view) ==
    LET ref == item.ref IN
    IF ref \in item.path \/ Cardinality(item.path) >= MaxHops THEN <<Blocked(ref, item, view)>>
    ELSE CASE ref.kind = "note" -> <<Piece("note", ref, {}, item.chain, view)>>
           [] ref.kind = "node" -> WholeNode(ref, item, view)
           [] ref.kind = "span" -> Span(ref, item, view)

-----------------------------------------------------------------------------
(* Readers *)

\* Work is done in order: the first piece that is still to be read is next.
Unread(r) == {i \in DOMAIN reader[r].work : reader[r].work[i].kind = "read"}
Following(r) == Min(Unread(r))
Item(r) == reader[r].work[Following(r)]

\* The work with one piece replaced by what it turned out to be.
Spliced(r, pieces) ==
    LET work == reader[r].work  i == Following(r) IN
    SubSeq(work, 1, i - 1) \o pieces \o SubSeq(work, i + 1, Len(work))

\* read_segments, or search with the passages it was handed.
Ask(r) ==
    /\ reader[r].pc = "idle"
    /\ \E request \in Requests :
           reader' = [reader EXCEPT ![r].pc = "reading", ![r].asked = request,
               ![r].work = [i \in DOMAIN request |-> Piece("read", request[i], {}, <<>>, NoView)]]
    /\ UNCHANGED <<journal, states, bytes, changes, trouble>>

\* initialize_node awaits the operational journal.
Fetch(r) ==
    /\ reader[r].pc = "reading" /\ Unread(r) # {}
    /\ reader' = [reader EXCEPT ![r].pc = "fetched", ![r].fetched = ViewOf(Item(r).ref.node)]
    /\ UNCHANGED <<journal, states, bytes, changes, trouble>>

\* The reader goes on with its own view; the handle keeps it, in place of the one before.
Installed(r, total) ==
    LET item == Item(r)  view == reader[r].fetched IN
    /\ reader[r].pc = "fetched"
    /\ IF total > MaxTotal
       THEN reader' = [reader EXCEPT ![r].pc = "failed"] /\ UNCHANGED <<states, bytes>>
       ELSE /\ states' = [n \in DOMAIN states \cup {item.ref.node} |->
                              IF n = item.ref.node THEN view ELSE states[n]]
            /\ bytes' = total
            /\ reader' = [reader EXCEPT ![r] =
                   [@ EXCEPT !.pc = "reading", !.fetched = NoView,
                             !.top = IF item.chain = <<>> THEN view ELSE reader[r].top,
                             !.work = Spliced(r, Segments(item, view))]]
    /\ UNCHANGED <<journal, changes, trouble>>

Loaded(node) == IF node \in DOMAIN states THEN Size(states[node]) ELSE 0

\* Mutant: what the handle held of the node before is counted on.
InstallOnTop(r) == Installed(r, bytes + Size(reader[r].fetched))

Install(r) == Installed(r, bytes - Loaded(Item(r).ref.node) + Size(reader[r].fetched))

\* A reference that cannot be resolved (its blob is missing): the amendment that led there
\* is reported as unavailable; without one the read raises.
ReadFails(r) ==
    /\ reader[r].pc = "reading" /\ Unread(r) # {} /\ trouble < MaxTrouble
    /\ reader' =
           IF Item(r).chain = <<>> THEN [reader EXCEPT ![r].pc = "failed"]
           ELSE [reader EXCEPT ![r].work =
                     Spliced(r, <<Blocked(Item(r).ref, Item(r), Item(r).view)>>)]
    /\ trouble' = trouble + 1
    /\ UNCHANGED <<journal, states, bytes, changes>>

Finish(r) ==
    /\ reader[r].pc = "reading" /\ Unread(r) = {}
    /\ reader' = [reader EXCEPT ![r].pc = "done"]
    /\ UNCHANGED <<journal, states, bytes, changes, trouble>>

\* External: an append to a journal (Journal) adds an entry, or changes how others read.
Amend ==
    /\ changes < MaxChanges
    /\ \E a \in Amendments :
           \E status \in Statuses \ {"absent", journal[a]} :
               journal' = [journal EXCEPT ![a] = status]
    /\ changes' = changes + 1
    /\ UNCHANGED <<states, bytes, reader, trouble>>

Next ==
    \/ \E r \in Readers : Ask(r) \/ Fetch(r) \/ Install(r) \/ ReadFails(r) \/ Finish(r)
    \/ Amend

Spec == Init /\ [][Next]_vars

-----------------------------------------------------------------------------
(* Properties *)

Positions(ref) == ref.lo .. ref.hi - 1

Covered(view, position) ==
    \E a \in PatchesIn(view) :
        SubjectOf[a].kind = "node" \/ position \in Positions(SubjectOf[a])

\* Where the answer shows the requested text itself.
Shown(r, position) ==
    {i \in DOMAIN reader[r].work :
        LET segment == reader[r].work[i] IN
        /\ segment.kind = "text" /\ segment.chain = <<>>
        /\ position \in Positions(segment.ref)}

\* A read shows every requested character that no amendment covers exactly once, and
\* never one that an applicable or unresolved amendment covers, at any hop, whatever was
\* appended meanwhile (query.py, _span: no stale text beside its amendment).
ReadsAreEffective ==
    \A r \in Readers :
        /\ \A i \in DOMAIN reader[r].work :
               LET segment == reader[r].work[i] IN
               segment.kind = "text" =>
                   \A position \in Positions(segment.ref) : ~ Covered(segment.view, position)
        /\ reader[r].pc = "done" /\ Len(reader[r].asked) = 1 /\ reader[r].asked[1].kind # "note" =>
               \A position \in Positions(reader[r].asked[1]) :
                   Cardinality(Shown(r, position)) =
                       IF Covered(reader[r].top, position) THEN 0 ELSE 1

\* The handle's byte account is what it holds, however its readers interleave, and within
\* its allowance (query.py, initialize_node).
BytesAccounted ==
    /\ bytes = Total([n \in DOMAIN states |-> Size(states[n])], DOMAIN states)
    /\ bytes <= MaxTotal

\* query.py:283: of two amendments whose passages overlap, neither may replace anything,
\* not even through a part of its passage that the other leaves alone.
OverlapsAreBlocked ==
    \A r \in Readers : \A i \in DOMAIN reader[r].work :
        LET chain == reader[r].work[i].chain IN
        \A j \in DOMAIN chain : ~ Disputed(chain[j].entry, PatchesIn(chain[j].view))
==============================================================================
