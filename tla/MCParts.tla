-------------------------------- MODULE MCParts --------------------------------
(***************************************************************************)
(* Small instances of the components that Parts puts side by side.         *)
(***************************************************************************)
EXTENDS Parts, Sequences

\* Two puts of one content, one of another in the same directory.
MCDigestOf == [p1 |-> "d", p2 |-> "d", p3 |-> "e"]
MCShardOf == [d |-> "ab", e |-> "ab"]

\* Two first openers, and a conversion of either old format.
MCFormat == [c2 |-> 2, c3 |-> 3]

\* Two searches of the evidence index through two instances, one of the journals'.
MCInstanceOf == [s |-> "i", t |-> "j", u |-> "i"]
MCFileOf == [s |-> "evidence", t |-> "evidence", u |-> "journals"]

\* Two hybrid searches through one client, a third through another; the second record
\* makes the snapshot large.
MCClientOf == [s |-> "a", t |-> "b", u |-> "a"]

\* Two native calls and a framework's; the cap admits them all, the window two tokens.
MCTokens == [s |-> 2, t |-> 1, u |-> 1]
MCCost == [s |-> 2, t |-> 1, u |-> 1]

Passage(n, l, h) == [kind |-> "span", node |-> n, lo |-> l, hi |-> h]
Node(n) == [kind |-> "node", node |-> n, lo |-> 0, hi |-> 3]
Text(n) == [kind |-> "note", node |-> n, lo |-> 0, hi |-> 1]

\* Overlapping passages of one node, one leading to the other node and one to a text; there
\* a passage and a whole-node amendment that lead back.
MCSubjectOf ==
    [p |-> Passage("a", 0, 2), q |-> Passage("a", 1, 3), r |-> Passage("b", 0, 2), s |-> Node("b")]
MCTargetOf ==
    [p |-> Passage("b", 1, 3), q |-> Text("a"), r |-> Passage("a", 0, 1), s |-> Node("a")]
MCRequests ==
    {<<Passage("a", 0, 3)>>, <<Passage("a", 0, 1)>>, <<Passage("b", 0, 1), Passage("a", 2, 3)>>}

\* Two attempts of one case and one of another, with a call in each case.
MCTrials == 1 .. 3
MCCaseOf == <<1, 1, 2>>
MCTrialOf == [c |-> 1, d |-> 3]
==============================================================================
