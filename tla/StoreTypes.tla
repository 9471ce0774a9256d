----------------------------- MODULE StoreTypes -----------------------------
(***************************************************************************)
(* The vocabulary that the abstract log of publications (PublicationLog)   *)
(* and the storage layer that implements it (EvidenceStore) share: what a  *)
(* caller may ask a Workspace to publish, and what it is told.             *)
(*                                                                         *)
(* A digest is modelled by the content it addresses: SHA-256 is taken as   *)
(* injective.  A node identity is a member of Nodes; ImportIds are those   *)
(* a caller chooses for an exact import, the others stand for uuid4().hex. *)
(***************************************************************************)
EXTENDS Naturals, Sequences

CONSTANTS
    Nodes,          \* node identities
    ImportIds,      \* the identities callers choose themselves
    Conversations,  \* conversation identities
    Contents,       \* byte strings: encoded base sources and turn texts
    Keys,           \* idempotency keys
    Requests,       \* the requests callers make
    None            \* no key, no node, no content, no stored retry

ASSUME NoneAssumption ==
    /\ None \notin Nodes
    /\ None \notin Contents
    /\ None \notin Keys
    /\ None \notin Requests

Ops == {"ingest", "append"}

(***************************************************************************)
(* One call of Workspace.ingest or Workspace.append_conversation.  base is *)
(* the encoded source record (for an append, of the node it may create),   *)
(* texts are the turns an append adds, node is the identity the caller     *)
(* supplied or None.                                                       *)
(***************************************************************************)
RequestType ==
    [op : Ops, key : Keys \cup {None}, node : Nodes \cup {None},
     conv : Conversations, base : Contents, texts : Seq(Contents)]

ASSUME RequestsAssumption ==
    /\ Requests \subseteq RequestType
    /\ \A r \in Requests : r.op = "append" => r.texts # << >>
    /\ \A r \in Requests : r.op = "ingest" => r.node \in ImportIds \cup {None} /\ r.texts = << >>
    /\ ImportIds \subseteq Nodes

(***************************************************************************)
(* The retry fingerprint.  An import covers its node identity; an append   *)
(* does not: routing may pick another node when the call is repeated.      *)
(***************************************************************************)
Fingerprint(r) ==
    IF r.op = "ingest" THEN <<r.node, r.base>> ELSE <<r.conv, r.base, r.texts>>

Fingerprints == {Fingerprint(r) : r \in Requests}

(* The idempotency table: one row for each operation and key.              *)
Slots == Ops \X Keys

Slot(r) == <<r.op, r.key>>

MemoType == [fp : Fingerprints, node : Nodes]

ASSUME MemoAssumption == None \notin MemoType

TurnType == [node : Nodes, text : Contents, batch : Nat]

AckType == [request : Requests, node : Nodes, created : BOOLEAN]

(* The rows one append adds: all its turns share one fresh batch prefix.   *)
Batch(r, n, before) ==
    [i \in 1 .. Len(r.texts) |->
        [node |-> n, text |-> r.texts[i], batch |-> Len(before)]]

(* What request r asked for is visible on node n.                          *)
Visible(r, n, sources, turns) ==
    IF r.op = "ingest"
      THEN sources[n] = r.base
      ELSE /\ sources[n] # None
           /\ \E before \in 0 .. Len(turns) - Len(r.texts) :
                 \A i \in 1 .. Len(r.texts) :
                   /\ turns[before + i].node = n
                   /\ turns[before + i].text = r.texts[i]

(* Mutant: an append does not record its retry row.                        *)
RecordedImportsOnly(memo, r, n) ==
    IF r.key = None \/ r.op = "append"
      THEN memo
      ELSE [memo EXCEPT ![Slot(r)] = [fp |-> Fingerprint(r), node |-> n]]

(* The idempotency table after the row for r has been recorded.            *)
Recorded(memo, r, n) ==
    IF r.key = None
      THEN memo
      ELSE [memo EXCEPT ![Slot(r)] = [fp |-> Fingerprint(r), node |-> n]]
=============================================================================
