--------------------------- MODULE MCConversations ---------------------------
(***************************************************************************)
(* Small instances of Conversations: one chat, two applications over one   *)
(* Workspace.  Either two answers, an import and a read-only answer run    *)
(* (Serial), and nobody goes away; or an answer, a keyed import, its retry *)
(* through the other application and its key used again for other text,    *)
(* one of which may be abandoned.  A behaviour is one of either: the calls *)
(* of the other are over before it starts.                                 *)
(***************************************************************************)
EXTENDS Conversations

CONSTANTS ask1, ask2, imp, look, ask, key, again, other,
          app1, app2, chat, n1, n2, n3, k1, base, u1, u2, u3, a1, a2

Serial == {ask1, ask2, imp, look}
Keyed == {key, again, other}

MCNodes == {n1, n2, n3}
MCContents == {base, u1, u2, u3, a1, a2}
MCTasks == Serial \cup Keyed \cup {ask}

MCKind == [t \in Tasks |->
             IF t = look THEN "read" ELSE IF t \in Keyed \cup {imp} THEN "ingest" ELSE "answer"]
MCConvOf == [t \in Tasks |-> chat]
MCKeyOf == [t \in Tasks |-> IF t \in Keyed THEN k1 ELSE None]
MCUserText == [t \in Tasks |->
    IF t \in {ask1, ask, look} THEN u1 ELSE IF t \in {imp, key, again} THEN u2 ELSE u3]
MCReplyText == [t \in Tasks |-> IF t = ask2 THEN a2 ELSE a1]
MCAppOf == [t \in Tasks |-> IF t \in {ask2, again} THEN app2 ELSE app1]

MCRequests ==
    {Request([owner |-> t, role |-> role, node |-> n, seen |-> None]) :
       t \in Tasks, role \in {"user", "assistant"}, n \in Nodes \cup {None}}

-----------------------------------------------------------------------------
\* The calls that are made, and how many of them may still be abandoned.
Starting(calls, left) ==
    /\ pc = [t \in Tasks |-> IF t \in calls THEN "start" ELSE "done"]
    /\ abandoned = MaxAbandoned - left

MCInit ==
    /\ Log!Init
    /\ past = << >> /\ ops = {} /\ attempted = {}
    /\ convLock = None /\ maintLock = [a \in Apps |-> None]
    /\ seen = [t \in Tasks |-> None] /\ source = seen /\ outcome = seen
    /\ trouble = 0
    /\ Starting(Serial, 0) \/ Starting(Keyed \cup {ask}, MaxAbandoned)

MCSpec == MCInit /\ [][Next]_vars
==============================================================================
