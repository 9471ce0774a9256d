--------------------------- MODULE JournalAlgebra ---------------------------
(***************************************************************************)
(* What a node's journal means, and which of its entries a reader must be  *)
(* given.  An entry asserts, overwrites or corrects; it applies in a scope *)
(* and for an interval of time, or its applicability is not understood.    *)
(*                                                                         *)
(* Everything here is about the journal of one node: an entry is known by  *)
(* its sequence number, a JournalRef by the number of the entry it names.  *)
(* Legacy entries that a migration has classified as edges are left out.   *)
(***************************************************************************)
EXTENDS Integers, FiniteSets

CONSTANTS
    Subjects,      \* what entries are about: the node or spans of its source
    Values,        \* what entries say
    ScopeKeys,     \* the names in a scope
    ScopeValues,   \* their values
    Instants,      \* instants of validity and of queries
    None

ASSUME AlgebraAssumption ==
    /\ Instants \subseteq Int
    /\ None \notin Instants /\ None \notin ScopeValues /\ None \notin Subjects

Kinds == {"assertion", "overwrite", "correction"}

(* "suggests" stands for the three proposal relations, "value" for the     *)
(* single-valued ones, "note" for any other.                               *)
Relations == {"retract", "supersedes", "suggests", "value", "note"}

Scopes == [ScopeKeys -> ScopeValues \cup {None}]

(* What a caller writes.  target is the entry named by a JournalRef, 0 for *)
(* another subject; known is FALSE for unknown applicability selectors.    *)
ContentType ==
    [kind : Kinds, relation : Relations, subject : Subjects, target : Nat,
     value : Values, scope : Scopes, from : Instants \cup {None},
     until : Instants \cup {None}, known : BOOLEAN]

-----------------------------------------------------------------------------
(* Compaction (workspace.py, _compact_entries).                            *)

(* A set of entries E: pairs of a number and what is written under it.     *)
Entry(n, content) == [seq |-> n, is |-> content]

Slot(e) == <<e.is.subject, e.is.target, e.is.relation, e.is.scope>>

Applies(e) == <<e.is.scope, e.is.from, e.is.until>>

(* Mutant: corrections protect nothing.                                    *)
ProtectedNever(s, E) == FALSE

(* Slots that a correction touches are kept whole.                         *)
Protected(s, E) ==
    \E c, t \in E : c.is.kind = "correction" /\ c.is.target = t.seq /\ Slot(t) = s

Compactable(e, E) ==
    /\ e.is.kind \in {"assertion", "overwrite"}
    /\ ~Protected(Slot(e), E)
    /\ e.is.relation # "suggests"
    /\ e.is.known

(* A later overwrite of the slot with exactly this applicability.          *)
Dominated(e, E) ==
    /\ Compactable(e, E)
    /\ \E o \in E :
         /\ o.is.kind = "overwrite" /\ Compactable(o, E)
         /\ Slot(o) = Slot(e) /\ Applies(o) = Applies(e) /\ e.seq < o.seq

Compact(E) == {e \in E : ~Dominated(e, E)}

-----------------------------------------------------------------------------
(* Interpretation (evidence.py, interpret_journal; time.py).               *)

Queries == [scope : Scopes, asOf : Instants \cup {None}]

Mismatch(e, q) ==
    \E k \in ScopeKeys :
      /\ None \notin {e.is.scope[k], q.scope[k]}
      /\ e.is.scope[k] # q.scope[k]

Unscoped(e, q) == \E k \in ScopeKeys : e.is.scope[k] # None /\ q.scope[k] = None

Outside(e, q) ==
    /\ q.asOf # None
    /\ \/ e.is.from # None /\ q.asOf < e.is.from
       \/ e.is.until # None /\ q.asOf >= e.is.until

Timeless(e) == e.is.from = None /\ e.is.until = None

(* match_applicability.                                                    *)
Match(e, q) ==
    IF e.is.known /\ (Mismatch(e, q) \/ Outside(e, q)) THEN "inactive"
    ELSE IF ~e.is.known \/ Unscoped(e, q) \/ (q.asOf = None /\ ~Timeless(e))
      THEN "unresolved"
      ELSE "active"

(* Whether an entry applies; a suggestion establishes nothing.             *)
Applicable(e, q) ==
    IF Match(e, q) = "active" /\ e.is.relation = "suggests" THEN "proposed" ELSE Match(e, q)

Correcting(e, q) == e.is.kind = "correction" /\ Applicable(e, q) = "active"

(* A correction that means something: it retracts or supersedes an earlier *)
(* entry, and says since when if the query is about an instant.            *)
Edits(c, t, q) ==
    /\ Correcting(c, q)
    /\ c.is.relation \in {"retract", "supersedes"}
    /\ c.is.target = t.seq /\ t.seq < c.seq
    /\ q.asOf # None => c.is.from # None

(* A correction may be retracted but not replaced.                         *)
Ambiguous(c, t) == t.is.kind = "correction" /\ c.is.relation # "retract"

(* The status of each entry before corrections take effect.                *)
Checked(e, E, q) ==
    IF \/ \E c \in E : Edits(c, e, q) /\ Ambiguous(c, e)
       \/ Correcting(e, q) /\ ~\E t \in E : Edits(e, t, q) /\ ~Ambiguous(e, t)
      THEN "unresolved"
      ELSE Applicable(e, q)

(* Mutant: corrections of an entry count even when they are retracted.     *)
StandingUnretracted(E, base, links) ==
    {e \in base : Cardinality({c \in base : <<c, e>> \in links}) # 1}

(* The entries of base that their own corrections leave active.  A newer   *)
(* entry is decided first: a retracted correction has no effect on what it *)
(* corrects.                                                               *)
Standing(E, base, links) ==
    LET last == CHOOSE m \in {0} \cup {e.seq : e \in E} : \A e \in E : e.seq <= m
        From[n \in 1 .. last + 1] ==
          IF n > last
            THEN {}
            ELSE LET newer == From[n + 1]
                 IN  newer \cup
                     {e \in base : /\ e.seq = n
                                  /\ Cardinality({c \in newer : <<c, e>> \in links}) # 1}
    IN  From[1]

(* Mutant: an overwrite replaces in every scope.                           *)
ReplacedUnscoped(settled) ==
    {e \in settled :
       /\ e.is.kind # "correction"
       /\ \E o \in settled : /\ o.is.kind = "overwrite" /\ e.seq < o.seq
                             /\ o.is.subject = e.is.subject
                             /\ o.is.relation = e.is.relation}

(* The latest active overwrite of a slot replaces what was there before.   *)
Replaced(settled) ==
    {e \in settled :
       /\ e.is.kind # "correction"
       /\ \E o \in settled : o.is.kind = "overwrite" /\ Slot(o) = Slot(e) /\ e.seq < o.seq}

(* Different values for one single-valued slot.                            *)
Disagreements(active) ==
    LET valued == {e \in active : e.is.relation = "value"}
    IN  {g \in {{e \in valued : Slot(e) = Slot(x)} : x \in valued} :
           \E x, y \in g : x.is.value # y.is.value}

(* The JournalInterpretation of entries E for a query q.                   *)
Interpretation(E, q) ==
    LET checked == [e \in E |-> Checked(e, E, q)]
        Are(status) == {e \in E : checked[e] = status}
        base == Are("active")
        links == {p \in E \X E : Edits(p[1], p[2], q) /\ ~Ambiguous(p[1], p[2])}
        standing == Standing(E, base, links)
        Live(t) == {c \in standing : <<c, t>> \in links}
        fallen == UNION {Live(t) : t \in Are("inactive")}
        disputed == UNION {Live(t) : t \in Are("unresolved") \cup Are("proposed")}
        rivals == {g \in {Live(t) : t \in base} : Cardinality(g) > 1}
        settled == standing \ (fallen \cup disputed \cup UNION rivals)
        replaced == Replaced(settled)
        active == settled \ replaced
    IN  [active     |-> active,
         inactive   |-> Are("inactive") \cup (base \ standing) \cup fallen \cup replaced,
         proposed   |-> Are("proposed"),
         unresolved |-> Are("unresolved") \cup disputed \cup UNION rivals,
         conflicts  |-> rivals \cup Disagreements(active)]
=============================================================================
