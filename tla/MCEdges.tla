------------------------------ MODULE MCEdges ------------------------------
(***************************************************************************)
(* Three nodes, two overlapping maintenance passes whose model proposes    *)
(* one or two links from a node, and users who publish one of these        *)
(* relations by hand, in two scopes, and withdraw edges.                   *)
(***************************************************************************)
EXTENDS Edges, TLC

CONSTANTS a, b, c, always, prod, span, other, m1, m2, ann, host, k1, p1, p2

Link(source, target, support, model) ==
    [source |-> source, target |-> target, scope |-> always,
     provenance |-> [by |-> host, support |-> support, model |-> model],
     withdrawal |-> None]

MCProposals ==
    { <<Link(a, b, span, m1)>>, <<Link(a, b, span, m2)>>, <<Link(a, b, other, m1)>>,
      <<Link(a, c, span, m1), Link(a, b, span, m1)>>,
      <<Link(b, a, span, m1)>> }

MCSelections == {<<a>>, <<b, a>>}

ByAnn == [by |-> ann, support |-> span, model |-> None]

PublishReq(key, scope) ==
    [op |-> "edge", key |-> key,
     edge |-> [source |-> a, target |-> b, scope |-> scope, provenance |-> ByAnn,
               withdrawal |-> None]]

WithdrawReq(key, id, support) ==
    [op |-> "withdraw_edge", key |-> key, id |-> id,
     provenance |-> [ByAnn EXCEPT !.support = support]]

(* One key is used for two publications and for a withdrawal.              *)
MCUserRequests ==
    { PublishReq(None, always), PublishReq(k1, always), PublishReq(k1, prod),
      WithdrawReq(k1, 1, span), WithdrawReq(None, 1, other) }

Interchangeable == Permutations({p1, p2})

MCModeOf == [p \in {p1, p2} |-> "validated"]
=============================================================================
