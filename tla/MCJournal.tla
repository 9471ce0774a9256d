----------------------------- MODULE MCJournal -----------------------------
(***************************************************************************)
(* A small journal for TLC: entries of every kind, scope and interval,     *)
(* corrections of corrections, and a key used with two expected lengths.   *)
(***************************************************************************)
EXTENDS Journal

CONSTANTS n1, k1, env, prod, test, span, v1, v2

MCNoScope == [k \in ScopeKeys |-> None]
MCProd == [k \in ScopeKeys |-> prod]

Content(kind, relation, target, value, scope, from) ==
    [kind |-> kind, relation |-> relation, subject |-> span, target |-> target,
     value |-> value, scope |-> scope, from |-> from, until |-> None, known |-> TRUE]

Ask(key, expected, content) ==
    [node |-> n1, key |-> key, expected |-> expected, is |-> content]

Overwrite == Content("overwrite", "value", 0, v1, MCNoScope, None)

Writes ==
    { Content("assertion", "value", 0, v2, MCNoScope, None),
      Overwrite,
      [Overwrite EXCEPT !.from = 1],
      [Overwrite EXCEPT !.scope = MCProd, !.value = v2, !.until = 1],
      [Overwrite EXCEPT !.relation = "suggests"] }

Corrections ==
    { Content("correction", relation, t, v1, MCNoScope, 1) :
        relation \in {"retract", "supersedes"}, t \in 1 .. MaxEntries - 1 }

(* An entry whose applicability is not understood, twice under one key.    *)
Keyed == { Ask(k1, expected, [Overwrite EXCEPT !.known = FALSE]) : expected \in {None, 1} }

MCRequests == {Ask(None, None, c) : c \in Writes \cup Corrections} \cup Keyed
=============================================================================
