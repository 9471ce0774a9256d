-------------------------- MODULE MCEvidenceStore --------------------------
(***************************************************************************)
(* A small workspace for TLC: two Workspace instances over one database,   *)
(* a keyed append that is retried with another routing decision and with   *)
(* other content, imports that agree and disagree, and an append without a *)
(* key.                                                                    *)
(***************************************************************************)
EXTENDS EvidenceStore

CONSTANTS c1, c2, i1, i2, k1, k2, chat, note, fresh1, fresh2, x, y, z

MCCalls == {c1, c2}
MCInstances == {i1, i2}
MCInstanceOf == [c \in MCCalls |-> IF c = c2 THEN i2 ELSE i1]
MCNodes == {note, fresh1, fresh2}
MCImportIds == {note}
MCContents == {x, y, z}
MCKeys == {k1, k2}

AppendReq(key, node, texts) ==
    [op |-> "append", key |-> key, node |-> node, conv |-> chat, base |-> z, texts |-> texts]

ImportReq(key, node, base) ==
    [op |-> "ingest", key |-> key, node |-> node, conv |-> chat, base |-> base, texts |-> << >>]

MCRequests ==
    { AppendReq(k1, None, <<x, y>>),    \* a new topic
      AppendReq(k1, note, <<x, y>>),    \* the same turns, routed elsewhere
      AppendReq(k1, fresh1, <<z>>),     \* the key used again for other turns
      AppendReq(None, note, <<z>>),     \* no key, to an imported node
      ImportReq(k2, note, x),
      ImportReq(k1, note, y) }          \* the same identity, other content
============================================================================
