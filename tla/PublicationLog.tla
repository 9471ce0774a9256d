--------------------------- MODULE PublicationLog ---------------------------
(***************************************************************************)
(* What a workspace promises its callers: publications are atomic, happen  *)
(* one at a time and at most once for each key, and an answer is given     *)
(* only for a publication that stays.  There are no threads, locks, blobs, *)
(* transactions or crashes here; EvidenceStore shows that the storage code *)
(* with all of them implements this specification.                         *)
(***************************************************************************)
EXTENDS StoreTypes

VARIABLES
    sources,   \* node -> its immutable base record, or None
    turns,     \* every appended turn, in order of publication
    pointer,   \* conversation -> its active node, or None
    memo,      \* operation and key -> the recorded result, or None
    acks       \* every answer given to a caller

vars == <<sources, turns, pointer, memo, acks>>

Init ==
    /\ sources = [n \in Nodes |-> None]
    /\ turns = << >>
    /\ pointer = [v \in Conversations |-> None]
    /\ memo = [s \in Slots |-> None]
    /\ acks = {}

(* A key that was recorded is never published under again.                 *)
Unused(r) == r.key # None => memo[Slot(r)] = None

(* An exact import: a new immutable node, or a node that already has       *)
(* exactly this content.                                                   *)
Import(r, n) ==
    /\ r.op = "ingest" /\ Unused(r)
    /\ n = r.node \/ r.node = None
    /\ sources[n] \in {None, r.base}
    /\ sources' = [sources EXCEPT ![n] = r.base]
    /\ memo' = Recorded(memo, r, n)
    /\ UNCHANGED <<turns, pointer>>

(* An append: all its turns at once, with the conversation's pointer.      *)
AppendTurns(r, n) ==
    /\ r.op = "append" /\ Unused(r)
    /\ IF r.node = None
         THEN sources[n] = None /\ sources' = [sources EXCEPT ![n] = r.base]
         ELSE n = r.node /\ sources[n] # None /\ sources' = sources
    /\ turns' = turns \o Batch(r, n, turns)
    /\ pointer' = [pointer EXCEPT ![r.conv] = n]
    /\ memo' = Recorded(memo, r, n)

Publish(r, n) ==
    /\ Import(r, n) \/ AppendTurns(r, n)
    /\ UNCHANGED acks

(* An answer is about a publication that is there, and for a key it is the *)
(* recorded one.  It may come late, more than once, or never.              *)
Answer(r, n, created) ==
    /\ Visible(r, n, sources, turns)
    /\ r.key # None => memo[Slot(r)] = [fp |-> Fingerprint(r), node |-> n]
    /\ acks' = acks \cup {[request |-> r, node |-> n, created |-> created]}
    /\ UNCHANGED <<sources, turns, pointer, memo>>

Next == \E r \in Requests, n \in Nodes :
            Publish(r, n) \/ \E created \in BOOLEAN : Answer(r, n, created)

Spec == Init /\ [][Next]_vars
=============================================================================
