------------------------ MODULE EvidenceStoreProofs ------------------------
(***************************************************************************)
(* What EvidenceStore guarantees for any number of calls, instances,       *)
(* requests, crashes and errors.                                           *)
(*                                                                         *)
(* The argument: a thread inside its transaction is the writer, so what it *)
(* read at BEGIN still holds at COMMIT; every payload blob of a thread past *)
(* its puts is durable, and blobs are never removed; so what COMMIT makes  *)
(* visible is readable and is what the request asked for, and since the    *)
(* tables only grow, it stays visible.                                     *)
(***************************************************************************)
EXTENDS EvidenceStore, FiniteSetTheorems, SequenceTheorems, TLAPS

InTransaction(c) == pc[c] \in {"base", "commit"}

(* SQLite's write lock is held by the thread inside its transaction.       *)
WriterInv ==
    \A c \in Calls : InTransaction(c) <=> writer = c

(* An answer, given or about to be, tells the truth about the tables.      *)
Justified(a) ==
    /\ Visible(a.request, a.node, sources, turns)
    /\ a.request.key # None =>
         memo[Slot(a.request)] = [fp |-> Fingerprint(a.request), node |-> a.node]

(* What a thread knows at each of its steps.                               *)
LocalsOK(c) ==
    /\ pc[c] # "idle" => request[c] \in Requests
    /\ pc[c] \in {"idle", "queued"} => stored[c] = 0
    /\ pc[c] = "blobs" =>
         /\ stored[c] < Len(Payload(Req(c)))
         /\ \A i \in 1 .. stored[c] : Payload(Req(c))[i] \in blobs

PayloadOK(c) ==
    pc[c] \in {"begin", "base", "commit"} =>
      \A i \in 1 .. Len(Payload(Req(c))) : Payload(Req(c))[i] \in blobs

PlanOK(c) ==
    /\ InTransaction(c) =>
         /\ Prior(Req(c)) = None
         /\ ~Refused(Req(c))
         /\ target[c] \in Targets(Req(c))
    /\ pc[c] = "base" => Req(c).op = "append"
    /\ pc[c] = "commit" /\ Req(c).op = "append" /\ Req(c).node = None =>
         Req(c).base \in blobs

ResultOK(c) == pc[c] = "done" /\ result[c] # None => Justified(result[c])

ThreadsInv ==
    \A c \in Calls : LocalsOK(c) /\ PayloadOK(c) /\ PlanOK(c) /\ ResultOK(c)

(* A recorded retry row is about a publication that is visible, for every  *)
(* request that it answers.                                                *)
MemoInv ==
    \A r \in Requests :
      r.key # None /\ memo[Slot(r)] # None /\ memo[Slot(r)].fp = Fingerprint(r)
        => Visible(r, memo[Slot(r)].node, sources, turns)

AcksInv == \A a \in acks : Justified(a)

Inv ==
    /\ TypeOK
    /\ WriterInv
    /\ ThreadsInv
    /\ MemoInv
    /\ AcksInv
    /\ VisibleBlobsDurable
    /\ PointerNamesTopic
-----------------------------------------------------------------------------
(* Facts about the operators.                                              *)

LEMMA RequestFacts ==
    ASSUME NEW r \in Requests
    PROVE  /\ r \in RequestType
           /\ r # None
           /\ Payload(r) \in Seq(Contents)
           /\ Len(Payload(r)) > 0
           /\ r.op = "append" => r.texts # << >> /\ Len(r.texts) > 0
           /\ Fingerprint(r) \in Fingerprints
           /\ r.key # None => Slot(r) \in Slots
<1>1. /\ r \in RequestType
      /\ r # None
      /\ r.op = "append" => r.texts # << >>
  BY RequestsAssumption, NoneAssumption
<1>2. /\ r.texts \in Seq(Contents)
      /\ r.base \in Contents
      /\ r.op \in Ops
      /\ r.key \in Keys \cup {None}
  BY <1>1 DEF RequestType
<1>3. r.op = "append" => Len(r.texts) > 0
  BY <1>1, <1>2
<1>4. Payload(r) \in Seq(Contents) /\ Len(Payload(r)) > 0
  <2>1. CASE r.op = "ingest"
    <3>1. Payload(r) = <<r.base>>
      BY <2>1 DEF Payload
    <3> QED  BY <3>1, <1>2
  <2>2. CASE r.op # "ingest"
    BY <2>2, <1>2, <1>3 DEF Payload, Ops
  <2> QED  BY <2>1, <2>2
<1>5. Fingerprint(r) \in Fingerprints
  BY DEF Fingerprints
<1>6. r.key # None => Slot(r) \in Slots
  BY <1>2 DEF Slot, Slots
<1> QED  BY <1>1, <1>3, <1>4, <1>5, <1>6

(* The turns of an append come after all earlier ones, and are its texts.  *)
LEMMA BatchFacts ==
    ASSUME NEW r \in Requests, NEW n \in Nodes, NEW s \in Seq(TurnType)
    PROVE  /\ s \o Batch(r, n, s) \in Seq(TurnType)
           /\ Len(s \o Batch(r, n, s)) = Len(s) + Len(r.texts)
           /\ \A i \in 1 .. Len(s) : (s \o Batch(r, n, s))[i] = s[i]
           /\ \A i \in 1 .. Len(r.texts) :
                (s \o Batch(r, n, s))[Len(s) + i]
                  = [node |-> n, text |-> r.texts[i], batch |-> Len(s)]
<1> DEFINE b == Batch(r, n, s)
<1>1. r.texts \in Seq(Contents)
  BY RequestFacts DEF RequestType
<1>2. /\ Len(s) \in Nat
      /\ Len(r.texts) \in Nat
      /\ \A i \in 1 .. Len(r.texts) : r.texts[i] \in Contents
  BY <1>1
<1>3. b \in [1 .. Len(r.texts) -> TurnType]
  BY <1>2 DEF Batch, TurnType
<1>4. b \in Seq(TurnType) /\ Len(b) = Len(r.texts)
  BY <1>2, <1>3
<1>5. \A i \in 1 .. Len(r.texts) :
        b[i] = [node |-> n, text |-> r.texts[i], batch |-> Len(s)]
  BY DEF Batch
<1> HIDE DEF b
<1>6. /\ s \o b \in Seq(TurnType)
      /\ Len(s \o b) = Len(s) + Len(b)
      /\ \A i \in 1 .. Len(s) : (s \o b)[i] = s[i]
      /\ \A i \in 1 .. Len(b) : (s \o b)[Len(s) + i] = b[i]
  BY <1>4, <1>2
<1> QED  BY <1>4, <1>5, <1>6 DEF b

(* A publication that is visible stays visible while the tables grow.      *)
LEMMA VisibleStable ==
    ASSUME NEW r \in Requests, NEW n \in Nodes, TypeOK, TypeOK',
           \A m \in Nodes : sources[m] # None => sources'[m] = sources[m],
           Len(turns) <= Len(turns'),
           \A i \in 1 .. Len(turns) : turns'[i] = turns[i],
           Visible(r, n, sources, turns)
    PROVE  Visible(r, n, sources', turns')
<1>1. r \in RequestType
  BY RequestFacts
<1>2. CASE r.op = "ingest"
  BY <1>1, <1>2, NoneAssumption DEF Visible, RequestType
<1>3. CASE r.op # "ingest"
  <2>1. /\ Len(turns) \in Nat
        /\ Len(turns') \in Nat
        /\ Len(r.texts) \in Nat
    BY <1>1 DEF TypeOK, RequestType
  <2>2. PICK before \in 0 .. Len(turns) - Len(r.texts) :
          \A i \in 1 .. Len(r.texts) :
            /\ turns[before + i].node = n
            /\ turns[before + i].text = r.texts[i]
    BY <1>3 DEF Visible
  <2>3. \A i \in 1 .. Len(r.texts) : turns'[before + i] = turns[before + i]
    BY <2>1
  <2>4. before \in 0 .. Len(turns') - Len(r.texts)
    BY <2>1
  <2>5. sources'[n] # None
    BY <1>3 DEF Visible
  <2>6. \A i \in 1 .. Len(r.texts) :
          /\ turns'[before + i].node = n
          /\ turns'[before + i].text = r.texts[i]
    BY <2>2, <2>3
  <2>7. \E b \in 0 .. Len(turns') - Len(r.texts) :
          \A i \in 1 .. Len(r.texts) :
            /\ turns'[b + i].node = n
            /\ turns'[b + i].text = r.texts[i]
    BY <2>4, <2>6
  <2> QED  BY <1>3, <2>5, <2>7 DEF Visible
<1> QED  BY <1>2, <1>3

-----------------------------------------------------------------------------
(* Type correctness.                                                       *)

LEMMA ForgetType ==
    ASSUME NEW over, TypeOK, Forget(over)
    PROVE  /\ pc' \in [Calls -> Steps]
           /\ request' \in [Calls -> Requests \cup {None}]
           /\ stored' \in [Calls -> Nat]
           /\ target' \in [Calls -> Nodes \cup {None}]
           /\ result' \in [Calls -> AckType \cup {None}]
           /\ waiting' \in [Calls -> BOOLEAN]
BY DEF TypeOK, Forget, Steps

LEMMA LeaveType ==
    ASSUME NEW c \in Calls, NEW outcome \in AckType \cup {None}, TypeOK,
           Leave(c, outcome)
    PROVE  /\ pc' \in [Calls -> Steps]
           /\ result' \in [Calls -> AckType \cup {None}]
           /\ lock' \in [Instances -> Calls \cup {None}]
           /\ writer' \in Calls \cup {None}
           /\ UNCHANGED <<request, stored, target, waiting, closed, acks>>
BY DEF TypeOK, Leave, Steps

LEMMA PriorType ==
    ASSUME NEW r \in Requests, TypeOK
    PROVE  /\ Prior(r) \in MemoType \cup {None}
           /\ Prior(r) # None => r.key # None /\ Prior(r) = memo[Slot(r)]
BY RequestFacts DEF TypeOK, Prior

(* What COMMIT writes has the type of the tables.                          *)
LEMMA CommitType ==
    ASSUME NEW c \in Calls, TypeOK, ThreadsInv, Commit(c)
    PROVE  TypeOK'
<1> DEFINE r == Req(c)
           n == target[c]
<1>1. pc[c] = "commit" /\ r \in Requests
  BY DEF Commit, ThreadsInv, LocalsOK, Req
<1>2. /\ r \in RequestType
      /\ Fingerprint(r) \in Fingerprints
      /\ r.key # None => Slot(r) \in Slots
      /\ r.base \in Contents
      /\ r.conv \in Conversations
      /\ r.texts \in Seq(Contents)
  <2>1. r \in RequestType
    BY <1>1, RequestFacts
  <2> QED  BY <1>1, <2>1, RequestFacts DEF RequestType
<1>3. n \in Nodes
  <2>1. target[c] \in Targets(r)
    BY <1>1 DEF ThreadsInv, PlanOK, InTransaction
  <2>2. r.node \in Nodes \cup {None}
    BY <1>2 DEF RequestType
  <2> QED  BY <2>1, <2>2 DEF Targets
<1>4. turns' \in Seq(TurnType)
  BY <1>1, <1>3, BatchFacts DEF Commit, TypeOK
<1>5. sources' \in [Nodes -> Contents \cup {None}]
  BY <1>2, <1>3 DEF Commit, TypeOK
<1>6. pointer' \in [Conversations -> Nodes \cup {None}]
  BY <1>2, <1>3 DEF Commit, TypeOK
<1>7. memo' \in [Slots -> MemoType \cup {None}]
  BY <1>2, <1>3 DEF Commit, TypeOK, Recorded, MemoType
<1>8. changes' \in Seq([kind : {"source"}, record : Nodes]
                       \cup [kind : {"turn"}, record : Nat])
  <2> DEFINE C == [kind : {"source"}, record : Nodes] \cup [kind : {"turn"}, record : Nat]
  <2>1. SourceChange(r, n) \in Seq(C)
    <3> DEFINE change == [kind |-> "source", record |-> n]
    <3>1. change \in C
      BY <1>3
    <3> HIDE DEF C, change
    <3>2. <<change>> \in Seq(C) /\ << >> \in Seq(C)
      BY <3>1
    <3>3. SourceChange(r, n) \in {<<change>>, << >>}
      BY DEF SourceChange, change
    <3> QED  BY <3>2, <3>3
  <2>2. TurnChanges(r) \in Seq(C)
    <3>1. Len(r.texts) \in Nat /\ Len(turns) \in Nat
      BY <1>2 DEF TypeOK
    <3>2. TurnChanges(r) \in [1 .. Len(r.texts) -> C]
      BY <3>1 DEF TurnChanges
    <3> HIDE DEF C
    <3>3. \A k \in Nat : \A f \in [1 .. k -> C] : f \in Seq(C)
      OBVIOUS
    <3> QED  BY <3>1, <3>2, <3>3
  <2>3. changes \in Seq(C)
    BY DEF TypeOK
  <2>4. changes' = changes \o SourceChange(r, n) \o TurnChanges(r)
    BY DEF Commit
  <2> HIDE DEF C
  <2>5. changes' \in Seq(C)
    BY <2>1, <2>2, <2>3, <2>4
  <2> QED  BY <2>5 DEF C
<1>9. [request |-> r, node |-> n, created |-> Creates(r, n)] \in AckType
  BY <1>1, <1>3 DEF AckType, Creates
<1>10. Leave(c, [request |-> r, node |-> n, created |-> Creates(r, n)])
       /\ UNCHANGED <<blobs, used>>
  BY DEF Commit
<1> HIDE DEF r, n
<1>11. /\ pc' \in [Calls -> Steps]
       /\ result' \in [Calls -> AckType \cup {None}]
       /\ lock' \in [Instances -> Calls \cup {None}]
       /\ writer' \in Calls \cup {None}
       /\ UNCHANGED <<request, stored, target, waiting, closed, acks>>
  BY <1>9, <1>10, LeaveType
<1> QED  BY <1>4, <1>5, <1>6, <1>7, <1>8, <1>10, <1>11 DEF TypeOK, used

LEMMA TypeStep ==
    ASSUME TypeOK, ThreadsInv, [Next]_vars
    PROVE  TypeOK'
<1>1. ASSUME NEW c \in Calls, NEW r \in Requests, Call(c, r)
      PROVE  TypeOK'
  BY <1>1 DEF Call, TypeOK, tables, used, Steps
<1>2. ASSUME NEW c \in Calls, Acquire(c)
      PROVE  TypeOK'
  BY <1>2 DEF Acquire, TypeOK, tables, used, Steps
<1>3. ASSUME NEW c \in Calls, RefuseClosed(c)
      PROVE  TypeOK'
  BY <1>3, LeaveType DEF RefuseClosed, TypeOK, tables, used
<1>4. ASSUME NEW c \in Calls, PutBlob(c)
      PROVE  TypeOK'
  <2>1. request[c] \in Requests /\ stored[c] \in Nat
    BY <1>4 DEF PutBlob, ThreadsInv, LocalsOK, TypeOK
  <2>2. stored[c] + 1 \in 1 .. Len(Payload(Req(c)))
    BY <1>4, <2>1, RequestFacts DEF PutBlob, ThreadsInv, LocalsOK, Req
  <2>3. Payload(Req(c))[stored[c] + 1] \in Contents
    BY <2>1, <2>2, RequestFacts DEF Req
  <2> QED  BY <1>4, <2>3 DEF PutBlob, Goto, TypeOK, tables, used, Steps
<1>5. ASSUME NEW c \in Calls, Replay(c)
      PROVE  TypeOK'
  <2> DEFINE out == [request |-> Req(c), node |-> Prior(Req(c)).node, created |-> FALSE]
  <2>1. Req(c) \in Requests
    BY <1>5 DEF Replay, ThreadsInv, LocalsOK, Req
  <2>2. out \in AckType
    BY <1>5, <2>1, PriorType DEF Replay, AckType, MemoType
  <2> HIDE DEF out
  <2>3. Leave(c, out) /\ UNCHANGED <<blobs, tables, used>>
    BY <1>5 DEF Replay, out
  <2> QED  BY <2>2, <2>3, LeaveType DEF TypeOK, tables, used
<1>6. ASSUME NEW c \in Calls, Reject(c)
      PROVE  TypeOK'
  BY <1>6, LeaveType DEF Reject, TypeOK, tables, used
<1>7. ASSUME NEW c \in Calls, Begin(c)
      PROVE  TypeOK'
  <2>1. Req(c) \in RequestType
    BY <1>7, RequestFacts DEF Begin, ThreadsInv, LocalsOK, Req
  <2>2. Targets(Req(c)) \subseteq Nodes
    BY <2>1 DEF Targets, RequestType
  <2> QED
    BY <1>7, <2>2 DEF Begin, Goto, AfterBegin, TypeOK, tables, used, Steps
<1>8. ASSUME NEW c \in Calls, PutBase(c)
      PROVE  TypeOK'
  <2>1. Req(c).base \in Contents
    BY <1>8, RequestFacts DEF PutBase, ThreadsInv, LocalsOK, Req, RequestType
  <2> QED  BY <1>8, <2>1 DEF PutBase, Goto, TypeOK, tables, used, Steps
<1>9. ASSUME NEW c \in Calls, Commit(c)
      PROVE  TypeOK'
  BY <1>9, CommitType
<1>10. ASSUME NEW c \in Calls, Deliver(c)
       PROVE  TypeOK'
  <2>1. acks' \subseteq AckType
    BY <1>10 DEF Deliver, TypeOK
  <2> QED  BY <1>10, <2>1, ForgetType DEF Deliver, TypeOK, tables, used
<1>11. ASSUME NEW c \in Calls, Fault(c)
       PROVE  TypeOK'
  <2>1. made' \in Nat /\ trouble' \in Nat
    BY <1>11 DEF Fault, TypeOK
  <2>2. Leave(c, None) /\ UNCHANGED <<blobs, tables>>
    BY <1>11 DEF Fault
  <2> QED  BY <2>1, <2>2, LeaveType DEF TypeOK, tables
<1>12. ASSUME NEW c \in Calls, Cancel(c)
       PROVE  TypeOK'
  <2>1. CASE Forget({c})
    BY <1>12, <2>1, ForgetType DEF Cancel, TypeOK, tables, used
  <2>2. CASE ~Forget({c})
    BY <1>12, <2>2 DEF Cancel, TypeOK, tables, used
  <2> QED  BY <2>1, <2>2
<1>13. ASSUME NEW i \in Instances, Close(i)
       PROVE  TypeOK'
  BY <1>13 DEF Close, TypeOK, tables, used, threads
<1>14. ASSUME NEW i \in Instances, Crash(i)
       PROVE  TypeOK'
  <2>1. PICK mine : Forget(mine)
    BY <1>14 DEF Crash
  <2>2. made' \in Nat /\ trouble' \in Nat
    BY <1>14 DEF Crash, TypeOK
  <2>3. /\ lock' \in [Instances -> Calls \cup {None}]
        /\ closed' \in [Instances -> BOOLEAN]
        /\ writer' \in Calls \cup {None}
        /\ UNCHANGED <<blobs, tables, acks>>
    BY <1>14 DEF Crash, TypeOK
  <2> QED  BY <2>1, <2>2, <2>3, ForgetType DEF TypeOK, tables
<1>15. CASE UNCHANGED vars
  BY <1>15 DEF vars, tables, threads, used, TypeOK
<1> QED
  BY <1>1, <1>2, <1>3, <1>4, <1>5, <1>6, <1>7, <1>8, <1>9, <1>10, <1>11,
     <1>12, <1>13, <1>14, <1>15 DEF Next, Thread

-----------------------------------------------------------------------------
(* The write lock.                                                         *)

LEMMA WriterStep ==
    ASSUME TypeOK, WriterInv, [Next]_vars
    PROVE  WriterInv'
<1> USE DEF WriterInv, InTransaction, TypeOK
<1>1. ASSUME NEW c \in Calls, NEW r \in Requests, Call(c, r)
      PROVE  WriterInv'
  BY <1>1 DEF Call
<1>2. ASSUME NEW c \in Calls, Acquire(c)
      PROVE  WriterInv'
  BY <1>2 DEF Acquire
<1>3. ASSUME NEW c \in Calls, NEW outcome, Leave(c, outcome)
      PROVE  WriterInv'
  BY <1>3, CallsAssumption DEF Leave
<1>4. ASSUME NEW c \in Calls, PutBlob(c)
      PROVE  WriterInv'
  BY <1>4 DEF PutBlob, Goto
<1>5. ASSUME NEW c \in Calls, Begin(c)
      PROVE  WriterInv'
  BY <1>5, CallsAssumption DEF Begin, Goto, AfterBegin
<1>6. ASSUME NEW c \in Calls, PutBase(c)
      PROVE  WriterInv'
  BY <1>6 DEF PutBase, Goto
<1>7. ASSUME NEW c \in Calls, Deliver(c)
      PROVE  WriterInv'
  BY <1>7 DEF Deliver, Forget
<1>8. ASSUME NEW c \in Calls, Cancel(c)
      PROVE  WriterInv'
  BY <1>8 DEF Cancel, Forget
<1>9. ASSUME NEW i \in Instances, Close(i)
      PROVE  WriterInv'
  BY <1>9 DEF Close, threads
<1>10. ASSUME NEW i \in Instances, Crash(i)
       PROVE  WriterInv'
  BY <1>10, CallsAssumption DEF Crash, Forget
<1>11. CASE UNCHANGED vars
  BY <1>11 DEF vars, threads
<1> QED
  BY <1>1, <1>2, <1>3, <1>4, <1>5, <1>6, <1>7, <1>8, <1>9, <1>10, <1>11
  DEF Next, Thread, RefuseClosed, Replay, Reject, Commit, Fault

-----------------------------------------------------------------------------
(* Steps that leave the tables alone.                                      *)

Quiet == UNCHANGED tables /\ blobs \subseteq blobs'

LEMMA QuietTables ==
    ASSUME Quiet, MemoInv, VisibleBlobsDurable, PointerNamesTopic
    PROVE  /\ MemoInv' /\ VisibleBlobsDurable' /\ PointerNamesTopic'
           /\ \A a : Justified(a) => Justified(a)'
<1> USE DEF Quiet, tables
<1>1. MemoInv'
  BY DEF MemoInv
<1>2. VisibleBlobsDurable'
  BY DEF VisibleBlobsDurable
<1>3. PointerNamesTopic'
  BY DEF PointerNamesTopic
<1>4. \A a : Justified(a) => Justified(a)'
  BY DEF Justified
<1> QED  BY <1>1, <1>2, <1>3, <1>4

(* A thread that does not move keeps what it knows.                        *)
Still(d) ==
    /\ pc'[d] = pc[d] /\ request'[d] = request[d] /\ stored'[d] = stored[d]
    /\ target'[d] = target[d] /\ result'[d] = result[d]

ThreadOK(d) == LocalsOK(d) /\ PayloadOK(d) /\ PlanOK(d) /\ ResultOK(d)

LEMMA StillThread ==
    ASSUME NEW d \in Calls, Quiet, ThreadOK(d), Still(d)
    PROVE  ThreadOK(d)'
<1> USE DEF Quiet, tables, Still, ThreadOK
<1>1. LocalsOK(d)'
  BY DEF LocalsOK, Req
<1>2. PayloadOK(d)'
  BY DEF PayloadOK, Req
<1>3. PlanOK(d)'
  BY DEF PlanOK, InTransaction, Req, Prior, Refused, Targets
<1>4. ResultOK(d)'
  BY DEF ResultOK, Justified
<1> QED  BY <1>1, <1>2, <1>3, <1>4

(* A thread that is over, or has just handed out an outcome, owes little.  *)
LEMMA OverThread ==
    ASSUME NEW d \in Calls, TypeOK', pc'[d] = "idle", stored'[d] = 0
    PROVE  ThreadOK(d)'
BY DEF ThreadOK, LocalsOK, PayloadOK, PlanOK, ResultOK, InTransaction

LEMMA LeaveThread ==
    ASSUME NEW c \in Calls, NEW outcome, TypeOK, ThreadsInv, Leave(c, outcome),
           pc[c] # "idle", outcome # None => Justified(outcome)'
    PROVE  /\ ThreadOK(c)'
           /\ \A d \in Calls \ {c} : Still(d)
<1>1. /\ pc'[c] = "done" /\ result'[c] = outcome
      /\ request'[c] = request[c]
  BY DEF Leave, TypeOK
<1>2. \A d \in Calls \ {c} : Still(d)
  BY DEF Leave, TypeOK, Still
<1>3. request[c] \in Requests
  BY DEF ThreadsInv, LocalsOK
<1>4. LocalsOK(c)' /\ PayloadOK(c)' /\ PlanOK(c)'
  BY <1>1, <1>3 DEF LocalsOK, PayloadOK, PlanOK, InTransaction
<1>5. ResultOK(c)'
  BY <1>1 DEF ResultOK, Justified
<1> QED  BY <1>2, <1>4, <1>5 DEF ThreadOK

LEMMA ForgetThreads ==
    ASSUME NEW over, TypeOK, TypeOK', ThreadsInv, Forget(over), Quiet
    PROVE  ThreadsInv'
<1> SUFFICES ASSUME NEW d \in Calls PROVE ThreadOK(d)'
  BY DEF ThreadsInv, ThreadOK
<1>1. CASE d \in over
  BY <1>1, OverThread DEF Forget
<1>2. CASE d \notin over
  <2>1. Still(d)
    BY <1>2 DEF Forget, Still
  <2> QED  BY <2>1, StillThread DEF ThreadsInv, ThreadOK
<1> QED  BY <1>1, <1>2

(* One thread moves, without touching the tables.                          *)
LEMMA OneThread ==
    ASSUME NEW c \in Calls, ThreadsInv, Quiet, ThreadOK(c)',
           \A d \in Calls \ {c} : Still(d)
    PROVE  ThreadsInv'
BY StillThread DEF ThreadsInv, ThreadOK

-----------------------------------------------------------------------------
(* The COMMIT.                                                             *)

LEMMA CommitFacts ==
    ASSUME NEW c \in Calls, TypeOK, ThreadsInv, Commit(c)
    PROVE  /\ pc[c] = "commit"
           /\ Req(c) \in Requests
           /\ Req(c) \in RequestType
           /\ target[c] \in Nodes
           /\ target[c] \in Targets(Req(c))
           /\ Prior(Req(c)) = None
           /\ ~Refused(Req(c))
<1>1. pc[c] = "commit" /\ Req(c) \in Requests
  BY DEF Commit, ThreadsInv, LocalsOK, Req
<1>2. Req(c) \in RequestType
  BY <1>1, RequestFacts
<1>3. /\ target[c] \in Targets(Req(c))
      /\ Prior(Req(c)) = None
      /\ ~Refused(Req(c))
  BY <1>1 DEF ThreadsInv, PlanOK, InTransaction
<1>4. target[c] \in Nodes
  BY <1>2, <1>3 DEF Targets, RequestType
<1> QED  BY <1>1, <1>2, <1>3, <1>4

(* The tables only grow, and every source but a created one stays.         *)
LEMMA CommitGrows ==
    ASSUME NEW c \in Calls, TypeOK, ThreadsInv, Commit(c)
    PROVE  /\ \A m \in Nodes : sources[m] # None => sources'[m] = sources[m]
           /\ \A m \in Nodes :
                sources'[m] # sources[m] => m = target[c] /\ sources'[m] = Req(c).base
           /\ Len(turns') = Len(turns) + Len(Req(c).texts)
           /\ Len(turns) <= Len(turns')
           /\ \A i \in 1 .. Len(turns) : turns'[i] = turns[i]
           /\ \A i \in 1 .. Len(Req(c).texts) :
                turns'[Len(turns) + i] =
                  [node |-> target[c], text |-> Req(c).texts[i], batch |-> Len(turns)]
           /\ \A s \in Slots : memo[s] # None => memo'[s] = memo[s]
<1> DEFINE r == Req(c)
           n == target[c]
<1>1. /\ r \in Requests /\ r \in RequestType /\ n \in Nodes
      /\ n \in Targets(r) /\ Prior(r) = None /\ ~Refused(r)
  BY CommitFacts
<1>2. Creates(r, n) => sources[n] = None
  BY <1>1 DEF Creates, Targets
<1>3. sources' = IF Creates(r, n) THEN [sources EXCEPT ![n] = r.base] ELSE sources
  BY DEF Commit
<1>4. turns' = turns \o Batch(r, n, turns)
  BY DEF Commit
<1>5. memo' = Recorded(memo, r, n)
  BY DEF Commit
<1> HIDE DEF r, n
<1>6. /\ \A m \in Nodes : sources[m] # None => sources'[m] = sources[m]
      /\ \A m \in Nodes : sources'[m] # sources[m] => m = n /\ sources'[m] = r.base
  <2>0. sources \in [Nodes -> Contents \cup {None}]
    BY DEF TypeOK
  <2>1. CASE Creates(r, n)
    <3>1. sources' = [sources EXCEPT ![n] = r.base] /\ sources[n] = None
      BY <1>2, <1>3, <2>1
    <3> QED  BY <2>0, <2>1, <3>1
  <2>2. CASE ~Creates(r, n)
    BY <1>3, <2>2
  <2> QED  BY <2>1, <2>2
<1>7. turns \in Seq(TurnType) /\ Len(turns) \in Nat /\ Len(r.texts) \in Nat
  BY <1>1 DEF TypeOK, RequestType
<1>8. /\ Len(turns') = Len(turns) + Len(r.texts)
      /\ \A i \in 1 .. Len(turns) : turns'[i] = turns[i]
      /\ \A i \in 1 .. Len(r.texts) :
           turns'[Len(turns) + i] =
             [node |-> n, text |-> r.texts[i], batch |-> Len(turns)]
  BY <1>1, <1>4, <1>7, BatchFacts
<1>9. \A s \in Slots : memo[s] # None => memo'[s] = memo[s]
  BY <1>1, <1>5 DEF Recorded, Prior, TypeOK
<1>10. Len(turns) <= Len(turns')
  BY <1>7, <1>8
<1> QED  BY <1>6, <1>8, <1>9, <1>10 DEF r, n

(* What the committing request asked for becomes visible.                  *)
LEMMA CommitVisible ==
    ASSUME NEW c \in Calls, TypeOK, ThreadsInv, Commit(c)
    PROVE  /\ sources'[target[c]] # None
           /\ Visible(Req(c), target[c], sources', turns')
<1> DEFINE r == Req(c)
           n == target[c]
<1>1. /\ r \in Requests /\ r \in RequestType /\ n \in Nodes
      /\ n \in Targets(r) /\ Prior(r) = None /\ ~Refused(r)
  BY CommitFacts
<1>2. sources' = IF Creates(r, n) THEN [sources EXCEPT ![n] = r.base] ELSE sources
  BY DEF Commit
<1>3. r.base \in Contents /\ r.base # None
  BY <1>1, NoneAssumption DEF RequestType
<1>4. /\ Len(turns') = Len(turns) + Len(r.texts)
      /\ \A i \in 1 .. Len(r.texts) :
           turns'[Len(turns) + i] =
             [node |-> n, text |-> r.texts[i], batch |-> Len(turns)]
  BY CommitGrows
<1> HIDE DEF r, n
<1>5. CASE r.op = "ingest"
  <2>1. sources'[n] = r.base
    BY <1>1, <1>2, <1>3, <1>5 DEF Creates, Refused, Targets, TypeOK
  <2> QED  BY <2>1, <1>3, <1>5 DEF Visible, r, n
<1>6. CASE r.op # "ingest"
  <2>1. r.op = "append"
    BY <1>6, <1>1 DEF RequestType, Ops
  <2>2. sources'[n] # None
    BY <1>1, <1>2, <1>3, <2>1 DEF Creates, Refused, Targets, TypeOK
  <2>3. Len(turns) \in Nat /\ Len(r.texts) \in Nat
    BY <1>1 DEF TypeOK, RequestType
  <2>4. Len(turns) \in 0 .. Len(turns') - Len(r.texts)
    BY <2>3, <1>4
  <2>5. \A i \in 1 .. Len(r.texts) :
          turns'[Len(turns) + i].node = n /\ turns'[Len(turns) + i].text = r.texts[i]
    <3> TAKE i \in 1 .. Len(r.texts)
    <3>1. turns'[Len(turns) + i] =
            [node |-> n, text |-> r.texts[i], batch |-> Len(turns)]
      BY <1>4
    <3> QED  BY <3>1
  <2>6. Visible(r, n, sources', turns')
    BY <1>6, <2>2, <2>4, <2>5 DEF Visible
  <2> QED  BY <2>2, <2>6 DEF r, n
<1> QED  BY <1>5, <1>6

(* Requests with one slot and one fingerprint ask for the same thing.      *)
LEMMA SameFingerprint ==
    ASSUME NEW r \in Requests, NEW q \in Requests, NEW n, NEW s, NEW t,
           Slot(q) = Slot(r), Fingerprint(q) = Fingerprint(r), Visible(r, n, s, t)
    PROVE  Visible(q, n, s, t)
<1>1. q.op = r.op
  BY DEF Slot
<1>2. CASE r.op = "ingest"
  <2>1. q.base = r.base
    BY <1>1, <1>2 DEF Fingerprint
  <2> QED  BY <1>1, <1>2, <2>1 DEF Visible
<1>3. CASE r.op # "ingest"
  <2>1. q.texts = r.texts
    BY <1>1, <1>3 DEF Fingerprint
  <2> QED  BY <1>1, <1>3, <2>1 DEF Visible
<1> QED  BY <1>2, <1>3

LEMMA CommitMemo ==
    ASSUME NEW c \in Calls, TypeOK, TypeOK', ThreadsInv, MemoInv, Commit(c)
    PROVE  /\ MemoInv'
           /\ Req(c).key # None =>
                memo'[Slot(Req(c))] = [fp |-> Fingerprint(Req(c)), node |-> target[c]]
<1> DEFINE r == Req(c)
           n == target[c]
<1>1. r \in Requests /\ n \in Nodes /\ Prior(r) = None
  BY CommitFacts
<1>2. memo' = Recorded(memo, r, n)
  BY DEF Commit
<1>3. Visible(r, n, sources', turns')
  BY CommitVisible
<1> HIDE DEF r, n
<1>4. r.key # None => memo'[Slot(r)] = [fp |-> Fingerprint(r), node |-> n]
  BY <1>1, <1>2, RequestFacts DEF Recorded, TypeOK
<1>5. \A s \in Slots : (s = Slot(r) /\ r.key # None) \/ memo'[s] = memo[s]
  BY <1>1, <1>2 DEF Recorded, TypeOK
<1>6. SUFFICES ASSUME NEW q \in Requests, q.key # None, memo'[Slot(q)] # None,
                      memo'[Slot(q)].fp = Fingerprint(q)
               PROVE  Visible(q, memo'[Slot(q)].node, sources', turns')
  BY <1>4 DEF MemoInv, r, n
<1>7. Slot(q) \in Slots
  BY <1>6, RequestFacts
<1>8. CASE Slot(q) = Slot(r) /\ r.key # None
  <2>1. memo'[Slot(q)].fp = Fingerprint(r) /\ memo'[Slot(q)].node = n
    BY <1>4, <1>8
  <2>2. Fingerprint(q) = Fingerprint(r)
    BY <1>6, <2>1
  <2>3. Visible(q, n, sources', turns')
    BY <1>1, <1>3, <1>8, <2>2, SameFingerprint
  <2> QED  BY <2>1, <2>3
<1>9. CASE memo'[Slot(q)] = memo[Slot(q)]
  <2>1. memo[Slot(q)].node \in Nodes
    BY <1>6, <1>7, <1>9 DEF TypeOK, MemoType
  <2>2. Visible(q, memo[Slot(q)].node, sources, turns)
    BY <1>6, <1>9 DEF MemoInv
  <2>3. Visible(q, memo[Slot(q)].node, sources', turns')
    BY <2>1, <2>2, CommitGrows, VisibleStable
  <2> QED  BY <1>9, <2>3
<1> QED  BY <1>5, <1>7, <1>8, <1>9

(* An answer that was true before a COMMIT is true after it.               *)
LEMMA CommitJustified ==
    ASSUME NEW c \in Calls, TypeOK, TypeOK', ThreadsInv, Commit(c),
           NEW a \in AckType, Justified(a)
    PROVE  Justified(a)'
<1>1. a.request \in Requests /\ a.node \in Nodes
  BY DEF AckType
<1>2. Visible(a.request, a.node, sources', turns')
  BY <1>1, CommitGrows, VisibleStable DEF Justified
<1>3. a.request.key # None =>
        memo'[Slot(a.request)] = [fp |-> Fingerprint(a.request), node |-> a.node]
  <2> HAVE a.request.key # None
  <2>1. memo[Slot(a.request)] = [fp |-> Fingerprint(a.request), node |-> a.node]
    BY DEF Justified
  <2>2. Slot(a.request) \in Slots
    BY <1>1, RequestFacts
  <2>3. memo[Slot(a.request)] # None
    <3>1. memo[Slot(a.request)].node = a.node
      BY <2>1
    <3>2. Fingerprint(a.request) \in Fingerprints
      BY <1>1, RequestFacts
    <3>3. memo[Slot(a.request)] \in MemoType
      BY <1>1, <2>1, <3>2 DEF MemoType
    <3> QED  BY <3>3, MemoAssumption
  <2> QED  BY <2>1, <2>2, <2>3, CommitGrows
<1> QED  BY <1>2, <1>3 DEF Justified

LEMMA CommitBlobs ==
    ASSUME NEW c \in Calls, TypeOK, ThreadsInv, VisibleBlobsDurable, Commit(c)
    PROVE  VisibleBlobsDurable'
<1> DEFINE r == Req(c)
<1>1. /\ r \in Requests /\ r \in RequestType /\ pc[c] = "commit"
      /\ target[c] \in Targets(r) /\ ~Refused(r) /\ Prior(r) = None
  BY CommitFacts
<1>2. \A i \in 1 .. Len(Payload(r)) : Payload(r)[i] \in blobs
  BY <1>1 DEF ThreadsInv, PayloadOK
<1>3. r.op = "append" /\ r.node = None => r.base \in blobs
  BY <1>1 DEF ThreadsInv, PlanOK
<1>4. blobs' = blobs
  BY DEF Commit
<1>5. Creates(r, target[c]) => r.base \in blobs
  <2>1. CASE r.op = "ingest"
    BY <1>2, <2>1 DEF Payload
  <2>2. CASE r.op # "ingest"
    <3>1. r.op = "append"
      BY <1>1, <2>2 DEF RequestType, Ops
    <3>2. Creates(r, target[c]) => r.node = None
      BY <2>2 DEF Creates
    <3> QED  BY <1>3, <3>1, <3>2
  <2> QED  BY <2>1, <2>2
<1>6. sources' = IF Creates(r, target[c])
                   THEN [sources EXCEPT ![target[c]] = r.base] ELSE sources
  BY DEF Commit
<1>7. \A n \in Nodes : sources'[n] # None => sources'[n] \in blobs'
  <2>1. CASE Creates(r, target[c])
    <3>1. sources' = [sources EXCEPT ![target[c]] = r.base] /\ r.base \in blobs
      BY <1>5, <1>6, <2>1
    <3>2. sources \in [Nodes -> Contents \cup {None}]
      BY DEF TypeOK
    <3>3. \A n \in Nodes : sources[n] # None => sources[n] \in blobs
      BY DEF VisibleBlobsDurable
    <3> HIDE DEF r
    <3> QED  BY <1>4, <3>1, <3>2, <3>3
  <2>2. CASE ~Creates(r, target[c])
    BY <1>4, <1>6, <2>2 DEF VisibleBlobsDurable
  <2> QED  BY <2>1, <2>2
<1>8. \A i \in 1 .. Len(turns') : turns'[i].text \in blobs'
  <2> TAKE i \in 1 .. Len(turns')
  <2>0. Len(turns) \in Nat /\ Len(r.texts) \in Nat
    BY <1>1 DEF TypeOK, RequestType
  <2>1. Len(turns') = Len(turns) + Len(r.texts)
    BY CommitGrows
  <2>2. CASE i \in 1 .. Len(turns)
    BY <1>4, <2>2, CommitGrows DEF VisibleBlobsDurable
  <2>3. CASE i \notin 1 .. Len(turns)
    <3>1. PICK j \in 1 .. Len(r.texts) : i = Len(turns) + j
      <4>1. i - Len(turns) \in 1 .. Len(r.texts) /\ i = Len(turns) + (i - Len(turns))
        BY <2>0, <2>1, <2>3
      <4> QED  BY <4>1
    <3>2. turns'[i] = [node |-> target[c], text |-> r.texts[j], batch |-> Len(turns)]
      BY <3>1, CommitGrows
    <3>3. turns'[i].text = r.texts[j]
      BY <3>2
    <3>4. r.op = "append"
      <4>1. CASE r.op = "ingest"
        <5>1. r.texts = << >> /\ Len(r.texts) = 0
          BY <1>1, <4>1, RequestsAssumption
        <5> QED  BY <3>1, <5>1
      <4> QED  BY <4>1, <1>1 DEF RequestType, Ops
    <3>5. r.texts[j] \in blobs
      BY <1>2, <3>1, <3>4 DEF Payload
    <3> QED  BY <1>4, <3>3, <3>5
  <2> QED  BY <2>2, <2>3
<1> QED  BY <1>7, <1>8 DEF VisibleBlobsDurable

LEMMA CommitPointer ==
    ASSUME NEW c \in Calls, TypeOK, ThreadsInv, PointerNamesTopic, Commit(c)
    PROVE  PointerNamesTopic'
<1> DEFINE r == Req(c)
           n == target[c]
<1>1. r \in Requests /\ r \in RequestType /\ n \in Nodes
  BY CommitFacts
<1>2. pointer' = IF r.op = "append" THEN [pointer EXCEPT ![r.conv] = n] ELSE pointer
  BY DEF Commit
<1>3. sources'[n] # None
  BY CommitVisible
<1>4. Len(turns) \in Nat /\ Len(r.texts) \in Nat
  BY <1>1 DEF TypeOK, RequestType
<1>5. /\ Len(turns') = Len(turns) + Len(r.texts)
      /\ \A i \in 1 .. Len(turns) : turns'[i] = turns[i]
      /\ \A i \in 1 .. Len(r.texts) :
           turns'[Len(turns) + i] =
             [node |-> n, text |-> r.texts[i], batch |-> Len(turns)]
  BY CommitGrows
<1> HIDE DEF r, n
<1>6. r.op = "append" => \E i \in 1 .. Len(turns') : turns'[i].node = n
  <2> HAVE r.op = "append"
  <2>1. Len(r.texts) > 0
    BY <1>1, RequestFacts
  <2>2. Len(turns) + 1 \in 1 .. Len(turns')
    BY <1>4, <1>5, <2>1
  <2>3. turns'[Len(turns) + 1] =
          [node |-> n, text |-> r.texts[1], batch |-> Len(turns)]
    BY <1>4, <1>5, <2>1
  <2>4. turns'[Len(turns) + 1].node = n
    BY <2>3
  <2> QED  BY <2>2, <2>4
<1>7. SUFFICES ASSUME NEW v \in Conversations, pointer'[v] # None
               PROVE  /\ sources'[pointer'[v]] # None
                      /\ \E i \in 1 .. Len(turns') : turns'[i].node = pointer'[v]
  BY DEF PointerNamesTopic
<1>8. CASE pointer'[v] = pointer[v]
  <2>1. pointer[v] \in Nodes
    BY <1>7, <1>8 DEF TypeOK
  <2>2. /\ sources[pointer[v]] # None
        /\ \E i \in 1 .. Len(turns) : turns[i].node = pointer[v]
    BY <1>7, <1>8 DEF PointerNamesTopic
  <2>3. sources'[pointer[v]] # None
    BY <2>1, <2>2, CommitGrows
  <2>4. PICK i \in 1 .. Len(turns) : turns[i].node = pointer[v]
    BY <2>2
  <2>5. i \in 1 .. Len(turns') /\ turns'[i].node = pointer[v]
    BY <1>4, <1>5, <2>4
  <2> QED  BY <1>8, <2>3, <2>5
<1>9. CASE pointer'[v] # pointer[v]
  <2>1. r.op = "append" /\ pointer'[v] = n
    BY <1>2, <1>9 DEF TypeOK
  <2> QED  BY <1>3, <1>6, <2>1 DEF n
<1> QED  BY <1>8, <1>9

LEMMA CommitThreads ==
    ASSUME NEW c \in Calls, TypeOK, TypeOK', WriterInv, ThreadsInv, MemoInv, Commit(c)
    PROVE  ThreadsInv'
<1> DEFINE r == Req(c)
           out == [request |-> r, node |-> target[c], created |-> Creates(r, target[c])]
<1>1. Leave(c, out) /\ pc[c] = "commit" /\ blobs' = blobs
  BY DEF Commit
<1>2. PICK o : o = out
  OBVIOUS
<1>3. o.request = r /\ o.node = target[c]
  BY <1>2
<1> HIDE DEF out
<1>4. Justified(o)'
  BY <1>3, CommitVisible, CommitMemo DEF Justified
<1>6. ThreadOK(c)' /\ \A d \in Calls \ {c} : Still(d)
  BY <1>1, <1>2, <1>4, LeaveThread
<1>5. ASSUME NEW d \in Calls \ {c}
      PROVE  ThreadOK(d)'
  <2>1. Still(d) /\ ThreadOK(d)
    BY <1>6 DEF ThreadsInv, ThreadOK
  <2>2. ~InTransaction(d)
    BY <1>1 DEF WriterInv, InTransaction
  <2>3. LocalsOK(d)' /\ PayloadOK(d)'
    BY <1>1, <2>1 DEF Still, ThreadOK, LocalsOK, PayloadOK, Req
  <2>4. PlanOK(d)'
    BY <2>1, <2>2 DEF Still, PlanOK, InTransaction
  <2>5. ResultOK(d)'
    <3> SUFFICES ASSUME pc[d] = "done", result[d] # None PROVE Justified(result[d])'
      BY <2>1 DEF ResultOK, Still, Justified
    <3>1. PICK a \in AckType : a = result[d]
      BY DEF TypeOK
    <3>2. Justified(a)
      BY <2>1, <3>1 DEF ThreadOK, ResultOK
    <3>3. Justified(a)'
      BY <3>2, CommitJustified
    <3>4. result'[d] = a
      BY <2>1, <3>1 DEF Still
    <3> QED  BY <3>3, <3>4 DEF Justified
  <2> QED  BY <2>3, <2>4, <2>5 DEF ThreadOK
<1> QED  BY <1>5, <1>6 DEF ThreadsInv, ThreadOK

-----------------------------------------------------------------------------
(* Every other step of a thread.                                           *)

LEMMA ThreadsStep ==
    ASSUME Inv, TypeOK', [Next]_vars
    PROVE  ThreadsInv'
<1> USE DEF Inv
<1>1. ASSUME NEW c \in Calls, NEW r \in Requests, Call(c, r)
      PROVE  ThreadsInv'
  <2>1. Quiet /\ \A d \in Calls \ {c} : Still(d)
    BY <1>1 DEF Call, Quiet, Still, TypeOK
  <2>2. pc'[c] = "queued" /\ request'[c] = r /\ stored'[c] = 0
    BY <1>1 DEF Call, TypeOK, ThreadsInv, LocalsOK
  <2>3. ThreadOK(c)'
    BY <2>2 DEF ThreadOK, LocalsOK, PayloadOK, PlanOK, ResultOK, InTransaction
  <2> QED  BY <2>1, <2>3, OneThread
<1>2. ASSUME NEW c \in Calls, Acquire(c)
      PROVE  ThreadsInv'
  <2>1. Quiet /\ \A d \in Calls \ {c} : Still(d)
    BY <1>2 DEF Acquire, Quiet, Still, TypeOK
  <2>2. /\ pc'[c] = "blobs" /\ request'[c] = request[c] /\ stored'[c] = 0
        /\ request[c] \in Requests
    BY <1>2 DEF Acquire, TypeOK, ThreadsInv, LocalsOK
  <2>3. LocalsOK(c)'
    BY <2>2, RequestFacts DEF LocalsOK, Req
  <2>4. ThreadOK(c)'
    BY <2>2, <2>3 DEF ThreadOK, PayloadOK, PlanOK, ResultOK, InTransaction
  <2> QED  BY <2>1, <2>4, OneThread
<1>3. ASSUME NEW c \in Calls, NEW outcome, Leave(c, outcome), Quiet, pc[c] # "idle",
             outcome # None => Justified(outcome)'
      PROVE  ThreadsInv'
  BY <1>3, LeaveThread, OneThread
<1>4. ASSUME NEW c \in Calls, PutBlob(c)
      PROVE  ThreadsInv'
  <2> DEFINE p == Payload(Req(c))
             k == stored[c] + 1
  <2>1. Quiet /\ \A d \in Calls \ {c} : Still(d)
    BY <1>4 DEF PutBlob, Goto, Quiet, Still, TypeOK
  <2>2. /\ request'[c] = request[c] /\ request[c] \in Requests
        /\ stored[c] \in Nat /\ stored[c] < Len(p)
        /\ \A i \in 1 .. stored[c] : p[i] \in blobs
    BY <1>4 DEF PutBlob, Goto, ThreadsInv, LocalsOK, TypeOK
  <2>3. /\ stored'[c] = k /\ p[k] \in blobs' /\ blobs \subseteq blobs'
        /\ pc'[c] = IF k = Len(p) THEN "begin" ELSE "blobs"
    BY <1>4 DEF PutBlob, Goto, TypeOK
  <2>4. Len(p) \in Nat
    BY <2>2, RequestFacts DEF Req
  <2>5. Payload(Req(c))' = p
    BY <2>2 DEF Req
  <2> HIDE DEF p
  <2>6. \A i \in 1 .. k : p[i] \in blobs'
    BY <2>2, <2>3
  <2>7. LocalsOK(c)'
    BY <2>2, <2>3, <2>4, <2>5, <2>6 DEF LocalsOK
  <2>8. PayloadOK(c)'
    BY <2>3, <2>5, <2>6 DEF PayloadOK
  <2>9. ThreadOK(c)'
    BY <2>3, <2>7, <2>8 DEF ThreadOK, PlanOK, ResultOK, InTransaction
  <2> QED  BY <2>1, <2>9, OneThread
<1>5. ASSUME NEW c \in Calls, Replay(c)
      PROVE  ThreadsInv'
  <2> DEFINE r == Req(c)
  <2>1. r \in Requests /\ Prior(r) # None /\ ~KeyConflict(r) /\ pc[c] = "begin"
    BY <1>5 DEF Replay, ThreadsInv, LocalsOK, Req
  <2>2. r.key # None /\ Prior(r) = memo[Slot(r)] /\ memo[Slot(r)] \in MemoType
    BY <2>1, PriorType
  <2>3. memo[Slot(r)].fp = Fingerprint(r)
    BY <2>1, <2>2 DEF KeyConflict
  <2>4. Visible(r, memo[Slot(r)].node, sources, turns)
    BY <2>1, <2>2, <2>3 DEF MemoInv
  <2>5. memo[Slot(r)] = [fp |-> Fingerprint(r), node |-> memo[Slot(r)].node]
    BY <2>2, <2>3 DEF MemoType
  <2>6. PICK o : o = [request |-> r, node |-> Prior(r).node, created |-> FALSE]
    OBVIOUS
  <2>7. Leave(c, o) /\ Quiet
    BY <1>5, <2>6 DEF Replay, Quiet
  <2>8. o.request = r /\ o.node = memo[Slot(r)].node
    BY <2>2, <2>6
  <2> HIDE DEF r
  <2>9. Justified(o)
    BY <2>4, <2>5, <2>8 DEF Justified
  <2>10. Justified(o)'
    BY <2>7, <2>9 DEF Justified, Quiet, tables
  <2> QED  BY <1>3, <2>1, <2>7, <2>10
<1>6. ASSUME NEW c \in Calls, Begin(c)
      PROVE  ThreadsInv'
  <2> DEFINE r == Req(c)
  <2>1. Quiet /\ \A d \in Calls \ {c} : Still(d)
    BY <1>6 DEF Begin, Goto, Quiet, Still, TypeOK
  <2>2. /\ request'[c] = request[c] /\ request[c] \in Requests
        /\ Prior(r) = None /\ ~Refused(r) /\ target'[c] \in Targets(r)
        /\ pc[c] = "begin" /\ pc'[c] = AfterBegin(r)
    BY <1>6 DEF Begin, Goto, ThreadsInv, LocalsOK, TypeOK
  <2>3. tables' = tables /\ blobs' = blobs
    BY <1>6 DEF Begin
  <2>4. r \in RequestType
    BY <2>2, RequestFacts DEF Req
  <2>5. LocalsOK(c)' /\ ResultOK(c)'
    BY <2>2 DEF LocalsOK, ResultOK, AfterBegin
  <2>6. PayloadOK(c)'
    BY <2>2, <2>3 DEF PayloadOK, ThreadsInv, Req
  <2>7. PlanOK(c)'
    <3>1. Req(c)' = r
      BY <2>2 DEF Req
    <3>2. Prior(Req(c))' = None /\ ~Refused(Req(c))' /\ target'[c] \in Targets(Req(c))'
      BY <2>2, <2>3, <3>1 DEF tables, Prior, Refused, Targets
    <3>3. pc'[c] = "base" => r.op = "append"
      BY <2>2 DEF AfterBegin
    <3>4. pc'[c] = "commit" => ~(r.op = "append" /\ r.node = None)
      BY <2>2 DEF AfterBegin
    <3> QED  BY <3>1, <3>2, <3>3, <3>4 DEF PlanOK
  <2>8. ThreadOK(c)'
    BY <2>5, <2>6, <2>7 DEF ThreadOK
  <2> QED  BY <2>1, <2>8, OneThread
<1>7. ASSUME NEW c \in Calls, PutBase(c)
      PROVE  ThreadsInv'
  <2>1. Quiet /\ \A d \in Calls \ {c} : Still(d)
    BY <1>7 DEF PutBase, Goto, Quiet, Still, TypeOK
  <2>2. /\ request'[c] = request[c] /\ request[c] \in Requests
        /\ pc[c] = "base" /\ pc'[c] = "commit" /\ target'[c] = target[c]
        /\ blobs \subseteq blobs' /\ Req(c).base \in blobs'
    BY <1>7 DEF PutBase, Goto, ThreadsInv, LocalsOK, TypeOK
  <2>3. tables' = tables
    BY <1>7 DEF PutBase
  <2>4. LocalsOK(c)' /\ ResultOK(c)'
    BY <2>2 DEF LocalsOK, ResultOK
  <2>5. PayloadOK(c)'
    BY <2>2 DEF PayloadOK, ThreadsInv, Req
  <2>6. PlanOK(c)'
    BY <2>2, <2>3 DEF PlanOK, ThreadsInv, InTransaction, Req, tables, Prior, Refused, Targets
  <2>7. ThreadOK(c)'
    BY <2>4, <2>5, <2>6 DEF ThreadOK
  <2> QED  BY <2>1, <2>7, OneThread
<1>8. ASSUME NEW c \in Calls, Commit(c)
      PROVE  ThreadsInv'
  BY <1>8, CommitThreads
<1>9. ASSUME NEW c \in Calls, Deliver(c)
      PROVE  ThreadsInv'
  BY <1>9, ForgetThreads DEF Deliver, Quiet
<1>10. ASSUME NEW c \in Calls, Cancel(c)
       PROVE  ThreadsInv'
  <2>1. Quiet
    BY <1>10 DEF Cancel, Quiet
  <2>2. CASE Forget({c})
    BY <2>1, <2>2, ForgetThreads
  <2>3. CASE UNCHANGED <<pc, request, stored, target, result>>
    <3>1. \A d \in Calls : Still(d)
      BY <2>3 DEF Still
    <3> QED  BY <2>1, <3>1, StillThread DEF ThreadsInv, ThreadOK
  <2> QED  BY <1>10, <2>2, <2>3 DEF Cancel
<1>11. CASE UNCHANGED <<blobs, tables, threads>>
  <2>1. Quiet /\ \A d \in Calls : Still(d)
    BY <1>11 DEF Quiet, Still, threads
  <2> QED  BY <2>1, StillThread DEF ThreadsInv, ThreadOK
<1>12. ASSUME NEW i \in Instances, Crash(i)
       PROVE  ThreadsInv'
  BY <1>12, ForgetThreads DEF Crash, Quiet
<1>13. ASSUME NEW c \in Calls, RefuseClosed(c) \/ Reject(c) \/ Fault(c)
       PROVE  ThreadsInv'
  <2>1. Leave(c, None) /\ Quiet /\ pc[c] # "idle"
    BY <1>13 DEF RefuseClosed, Reject, Fault, Quiet
  <2> QED  BY <1>3, <2>1
<1> QED
  BY <1>1, <1>2, <1>4, <1>5, <1>6, <1>7, <1>8, <1>9, <1>10, <1>11, <1>12, <1>13
  DEF Next, Thread, Close, vars, used

-----------------------------------------------------------------------------
(* Every step is a COMMIT, the delivery of an outcome, or shows nothing.   *)
LEMMA StepKinds ==
    ASSUME [Next]_vars
    PROVE  \/ \E c \in Calls : Commit(c)
           \/ \E c \in Calls : Deliver(c)
           \/ Quiet /\ acks' = acks
<1> USE DEF Quiet, Leave, Goto, tables
<1>1. ASSUME NEW c \in Calls, Thread(c)
      PROVE  Commit(c) \/ Deliver(c) \/ (Quiet /\ acks' = acks)
  BY <1>1 DEF Thread, Acquire, RefuseClosed, PutBlob, Replay, Reject, Begin, PutBase
<1>2. ASSUME NEW c \in Calls, Fault(c) \/ Cancel(c) \/ \E r \in Requests : Call(c, r)
      PROVE  Quiet /\ acks' = acks
  BY <1>2 DEF Fault, Cancel, Call
<1>3. ASSUME NEW i \in Instances, Close(i) \/ Crash(i)
      PROVE  Quiet /\ acks' = acks
  BY <1>3 DEF Close, Crash
<1>4. CASE UNCHANGED vars
  BY <1>4 DEF vars
<1> QED  BY <1>1, <1>2, <1>3, <1>4 DEF Next

LEMMA DeliverAcks ==
    ASSUME NEW c \in Calls, TypeOK, ThreadsInv, Deliver(c)
    PROVE  \/ acks' = acks
           \/ \E a \in AckType : Justified(a) /\ acks' = acks \cup {a}
BY DEF Deliver, ThreadsInv, ResultOK, TypeOK

LEMMA InvInit == Init => Inv
<1> SUFFICES ASSUME Init PROVE Inv
  OBVIOUS
<1> USE DEF Init
<1>1. TypeOK
  <2>1. /\ turns \in Seq(TurnType)
        /\ changes \in Seq([kind : {"source"}, record : Nodes]
                            \cup [kind : {"turn"}, record : Nat])
    OBVIOUS
  <2> QED  BY <2>1 DEF TypeOK, Steps
<1>2. WriterInv
  BY CallsAssumption DEF WriterInv, InTransaction
<1>3. ThreadsInv
  BY DEF ThreadsInv, LocalsOK, PayloadOK, PlanOK, ResultOK, InTransaction
<1>4. MemoInv
  BY RequestFacts DEF MemoInv
<1>5. AcksInv /\ VisibleBlobsDurable /\ PointerNamesTopic
  BY DEF AcksInv, VisibleBlobsDurable, PointerNamesTopic
<1> QED  BY <1>1, <1>2, <1>3, <1>4, <1>5 DEF Inv

LEMMA InvStep == Inv /\ [Next]_vars => Inv'
<1> SUFFICES ASSUME Inv, [Next]_vars PROVE Inv'
  OBVIOUS
<1> USE DEF Inv
<1>1. TypeOK'
  BY TypeStep
<1>2. WriterInv'
  BY WriterStep
<1>3. ThreadsInv'
  BY <1>1, ThreadsStep
<1>4. MemoInv' /\ VisibleBlobsDurable' /\ PointerNamesTopic' /\ AcksInv'
  <2>1. ASSUME NEW c \in Calls, Commit(c)
        PROVE  MemoInv' /\ VisibleBlobsDurable' /\ PointerNamesTopic' /\ AcksInv'
    <3>1. MemoInv' /\ VisibleBlobsDurable' /\ PointerNamesTopic'
      BY <1>1, <2>1, CommitMemo, CommitBlobs, CommitPointer
    <3>2. acks' = acks
      BY <2>1 DEF Commit, Leave
    <3>3. \A a \in acks : Justified(a)'
      <4> TAKE a \in acks
      <4> QED  BY <1>1, <2>1, CommitJustified DEF AcksInv, TypeOK
    <3> QED  BY <3>1, <3>2, <3>3 DEF AcksInv, Justified
  <2>2. ASSUME NEW c \in Calls, Deliver(c)
        PROVE  MemoInv' /\ VisibleBlobsDurable' /\ PointerNamesTopic' /\ AcksInv'
    <3>1. Quiet
      BY <2>2 DEF Deliver, Quiet
    <3>2. \A a \in acks' : Justified(a)
      BY <2>2, DeliverAcks DEF AcksInv
    <3>3. AcksInv'
      BY <3>1, <3>2 DEF AcksInv, Justified, Quiet, tables
    <3> QED  BY <3>1, <3>3, QuietTables
  <2>3. CASE Quiet /\ acks' = acks
    <3>1. AcksInv'
      BY <2>3 DEF AcksInv, Justified, Quiet, tables
    <3> QED  BY <2>3, <3>1, QuietTables
  <2> QED  BY <2>1, <2>2, <2>3, StepKinds
<1> QED  BY <1>1, <1>2, <1>3, <1>4

-----------------------------------------------------------------------------
(* Type correctness of the storage layer: every table, thread local and    *)
(* answer keeps its type in every reachable state.                         *)
THEOREM TypeCorrect == Spec => []TypeOK
<1>1. Spec => []Inv
  BY InvInit, InvStep, PTL DEF Spec
<1>2. Inv => TypeOK
  BY DEF Inv
<1> QED  BY <1>1, <1>2, PTL

(* Every record a reader can see has its bytes in the blob store, whatever *)
(* crashed or was rolled back: blobs are put before the COMMIT.            *)
THEOREM BlobsDurable == Spec => []VisibleBlobsDurable
<1>1. Spec => []Inv
  BY InvInit, InvStep, PTL DEF Spec
<1>2. Inv => VisibleBlobsDurable
  BY DEF Inv
<1> QED  BY <1>1, <1>2, PTL

(* The active topic of every conversation is a published node with turns.  *)
THEOREM PointersValid == Spec => []PointerNamesTopic
<1>1. Spec => []Inv
  BY InvInit, InvStep, PTL DEF Spec
<1>2. Inv => PointerNamesTopic
  BY DEF Inv
<1> QED  BY <1>1, <1>2, PTL

(* What any caller was told is published is visible ever after.            *)
THEOREM AnswersStayVisible == Spec => []AnsweredIsVisible
<1>1. Spec => []Inv
  BY InvInit, InvStep, PTL DEF Spec
<1>2. Inv => AnsweredIsVisible
  BY DEF Inv, AcksInv, Justified, AnsweredIsVisible
<1> QED  BY <1>1, <1>2, PTL

(* Retries with one idempotency key, from any thread, instance or process, *)
(* all learn the same node and all carried the same content.               *)
THEOREM RetriesAgree == Spec => []AnswersAgree
<1>1. Spec => []Inv
  BY InvInit, InvStep, PTL DEF Spec
<1>2. Inv => AnswersAgree
  <2> SUFFICES ASSUME Inv, NEW a \in acks, NEW b \in acks,
                      a.request.key # None, Slot(a.request) = Slot(b.request)
               PROVE  a.node = b.node /\ Fingerprint(a.request) = Fingerprint(b.request)
    BY DEF AnswersAgree
  <2>1. b.request.key # None
    BY DEF Slot
  <2>2. /\ memo[Slot(a.request)] = [fp |-> Fingerprint(a.request), node |-> a.node]
        /\ memo[Slot(b.request)] = [fp |-> Fingerprint(b.request), node |-> b.node]
    BY <2>1 DEF Inv, AcksInv, Justified
  <2>3. /\ memo[Slot(a.request)].fp = Fingerprint(a.request)
        /\ memo[Slot(a.request)].node = a.node
        /\ memo[Slot(a.request)].fp = Fingerprint(b.request)
        /\ memo[Slot(a.request)].node = b.node
    BY <2>2
  <2> QED  BY <2>3
<1> QED  BY <1>1, <1>2, PTL

-----------------------------------------------------------------------------
(* Effects.                                                                *)

(* Only requests with key k carry text t.                                  *)
Owned(k, t) ==
    \A r \in Requests : (\E i \in 1 .. Len(r.texts) : r.texts[i] = t) => r.key = k

(* A turn whose text belongs to one key was published under that key, once. *)
EffectsInv ==
    /\ \A i \in 1 .. Len(turns), k \in Keys :
         Owned(k, turns[i].text) => memo[<<"append", k>>] # None
    /\ \A i, j \in 1 .. Len(turns), k \in Keys :
         turns[i].text = turns[j].text /\ Owned(k, turns[i].text)
           => turns[i].batch = turns[j].batch

LEMMA CommitEffects ==
    ASSUME NEW c \in Calls, TypeOK, ThreadsInv, EffectsInv, Commit(c)
    PROVE  EffectsInv'
<1> DEFINE r == Req(c)
           old == 1 .. Len(turns)
           Fresh(j) == \E i \in 1 .. Len(r.texts) :
                         turns'[j] = [node |-> target[c], text |-> r.texts[i],
                                      batch |-> Len(turns)]
<1>1. r \in Requests /\ r \in RequestType /\ Prior(r) = None
  BY CommitFacts
<1>2. /\ Len(turns) \in Nat /\ Len(r.texts) \in Nat
      /\ Len(turns') = Len(turns) + Len(r.texts)
      /\ \A j \in old : turns'[j] = turns[j]
      /\ \A i \in 1 .. Len(r.texts) :
           turns'[Len(turns) + i] =
             [node |-> target[c], text |-> r.texts[i], batch |-> Len(turns)]
      /\ \A s \in Slots : memo[s] # None => memo'[s] = memo[s]
  <2>1. turns \in Seq(TurnType) /\ r.texts \in Seq(Contents)
    BY <1>1 DEF TypeOK, RequestType
  <2>2. Len(turns) \in Nat /\ Len(r.texts) \in Nat
    BY <2>1
  <2> QED
    BY <2>2, CommitGrows
<1>3. memo' = Recorded(memo, r, target[c])
  BY DEF Commit
<1>4. \A j \in 1 .. Len(turns') : j \in old \/ Fresh(j)
  <2> TAKE j \in 1 .. Len(turns')
  <2>1. CASE j <= Len(turns)
    BY <1>2, <2>1
  <2>2. CASE j > Len(turns)
    <3>1. j - Len(turns) \in 1 .. Len(r.texts) /\ j = Len(turns) + (j - Len(turns))
      BY <1>2, <2>2
    <3> QED
      BY <1>2, <3>1
  <2> QED
    BY <1>2, <2>1, <2>2
<1>5. ASSUME NEW k \in Keys, NEW j \in 1 .. Len(turns'), Fresh(j), Owned(k, turns'[j].text)
      PROVE  /\ memo[<<"append", k>>] = None /\ memo'[<<"append", k>>] # None
             /\ turns'[j].batch = Len(turns)
  <2>1. PICK i \in 1 .. Len(r.texts) :
          turns'[j] = [node |-> target[c], text |-> r.texts[i], batch |-> Len(turns)]
    BY <1>5
  <2>2. r.key = k /\ k # None
    BY <1>1, <1>5, <2>1, NoneAssumption DEF Owned
  <2>3. r.op = "append"
    <3>1. r.texts # << >>
      BY <1>2, <2>1
    <3> QED
      BY <1>1, <3>1, RequestsAssumption DEF RequestType, Ops
  <2>4. Slot(r) = <<"append", k>> /\ Slot(r) \in Slots
    BY <2>2, <2>3 DEF Slot, Slots, Ops
  <2>5. memo[Slot(r)] = None
    BY <1>1, <2>2 DEF Prior
  <2>6. memo'[Slot(r)] = [fp |-> Fingerprint(r), node |-> target[c]]
    BY <1>3, <2>2, <2>4 DEF Recorded, TypeOK
  <2>7. memo'[Slot(r)] # None
    <3>1. [fp |-> Fingerprint(r), node |-> target[c]] \in MemoType
      BY CommitFacts, RequestFacts DEF MemoType
    <3> QED
      BY <2>6, <3>1, MemoAssumption
  <2> QED
    BY <2>1, <2>4, <2>5, <2>7
<1> HIDE DEF Fresh, r
<1>6. \A k \in Keys : <<"append", k>> \in Slots
  BY DEF Slots, Ops
<1>7. ASSUME NEW i \in 1 .. Len(turns'), NEW k \in Keys, Owned(k, turns'[i].text)
      PROVE  memo'[<<"append", k>>] # None
  BY <1>2, <1>4, <1>5, <1>6, <1>7 DEF EffectsInv
<1>8. ASSUME NEW i \in 1 .. Len(turns'), NEW j \in 1 .. Len(turns'), NEW k \in Keys,
             turns'[i].text = turns'[j].text, Owned(k, turns'[i].text)
      PROVE  turns'[i].batch = turns'[j].batch
  <2>1. CASE i \in old /\ j \in old
    BY <1>2, <1>8, <2>1 DEF EffectsInv
  <2>2. CASE Fresh(i) /\ Fresh(j)
    BY <1>5, <1>8, <2>2
  <2>3. CASE i \in old /\ Fresh(j)
    BY <1>2, <1>5, <1>8, <2>3 DEF EffectsInv
  <2>4. CASE Fresh(i) /\ j \in old
    <3>1. memo[<<"append", k>>] = None /\ turns'[j] = turns[j]
      BY <1>2, <1>5, <1>8, <2>4
    <3>2. Owned(k, turns[j].text)
      BY <1>8, <3>1
    <3> QED
      BY <2>4, <3>1, <3>2 DEF EffectsInv
  <2> QED
    BY <1>4, <2>1, <2>2, <2>3, <2>4
<1> QED
  BY <1>7, <1>8 DEF EffectsInv, Owned

LEMMA EffectsStep == Inv /\ EffectsInv /\ [Next]_vars => EffectsInv'
<1> SUFFICES ASSUME Inv, EffectsInv, [Next]_vars PROVE EffectsInv'
  OBVIOUS
<1>1. ASSUME NEW c \in Calls, Commit(c) PROVE EffectsInv'
  BY <1>1, CommitEffects DEF Inv
<1>2. ASSUME UNCHANGED tables PROVE EffectsInv'
  BY <1>2 DEF tables, EffectsInv, Owned
<1> QED  BY <1>1, <1>2, StepKinds DEF Quiet, Deliver

(* A keyed append takes effect at most once, whatever is retried, lost,    *)
(* cancelled or still running elsewhere (workspace.py, _retry and          *)
(* _record_retry, in the transaction that publishes).                      *)
THEOREM EffectsOnce == Spec => []AppliedOnce
<1>1. Spec => []Inv
  BY InvInit, InvStep, PTL DEF Spec
<1>2. Init => EffectsInv
  BY DEF Init, EffectsInv
<1>3. EffectsInv => AppliedOnce
  <2> SUFFICES ASSUME EffectsInv, NEW i \in 1 .. Len(turns), NEW j \in 1 .. Len(turns),
                      turns[i].text = turns[j].text, NEW k \in Keys,
                      \A r \in {q \in Requests :
                                 \E p \in 1 .. Len(q.texts) : q.texts[p] = turns[i].text} :
                        r.key = k
               PROVE  turns[i].batch = turns[j].batch
    BY DEF AppliedOnce
  <2>1. Owned(k, turns[i].text)
    BY DEF Owned
  <2> QED
    BY <2>1 DEF EffectsInv
<1> QED  BY <1>1, <1>2, <1>3, EffectsStep, PTL DEF Spec

(* Answers agree, stay true, and what they answer has happened once.       *)
THEOREM AnswersStand == Spec => []AnswersHold
<1>1. AnswersAgree /\ AnsweredIsVisible /\ AppliedOnce => AnswersHold
  BY DEF AnswersHold
<1> QED  BY <1>1, RetriesAgree, AnswersStayVisible, EffectsOnce, PTL

-----------------------------------------------------------------------------
(* The change log.                                                         *)

Logged(kind, i) == i \in 1 .. Len(changes) /\ changes[i].kind = kind

(* ChangeLogComplete without counting: a record is logged where it is      *)
(* published, once, and a turn behind its node.                            *)
ChangesInv ==
    /\ \A n \in Nodes : sources[n] # None <=> \E i : Logged("source", i) /\ changes[i].record = n
    /\ \A i, j : Logged("source", i) /\ Logged("source", j)
                   /\ changes[i].record = changes[j].record => i = j
    /\ \A i, j : Logged("turn", i) /\ Logged("turn", j) /\ i < j
                   => changes[i].record < changes[j].record
    /\ \A i : Logged("turn", i) => changes[i].record \in 1 .. Len(turns)
    /\ \A p \in 1 .. Len(turns) : \E i : Logged("turn", i) /\ changes[i].record = p
    /\ \A i : Logged("turn", i) =>
         \E j : Logged("source", j) /\ j < i /\ changes[j].record = turns[changes[i].record].node

(* The rows that a COMMIT adds to the log: at most one source, then the    *)
(* turns of the batch.                                                     *)
LEMMA CommitLogs ==
    ASSUME NEW c \in Calls, TypeOK, ThreadsInv, Commit(c)
    PROVE  \E d \in {0, 1} :
             /\ d = 1 <=> Creates(Req(c), target[c])
             /\ Len(changes') = Len(changes) + d + Len(Req(c).texts)
             /\ \A i \in 1 .. Len(changes) : changes'[i] = changes[i]
             /\ d = 1 => changes'[Len(changes) + 1] = [kind |-> "source", record |-> target[c]]
             /\ \A p \in 1 .. Len(Req(c).texts) :
                  changes'[Len(changes) + d + p] = [kind |-> "turn", record |-> Len(turns) + p]
<1> DEFINE r == Req(c)
           n == target[c]
           first == SourceChange(r, n)
           rows == TurnChanges(r)
           m == Len(r.texts)
           d == IF Creates(r, n) THEN 1 ELSE 0
           Rows == [kind : {"source"}, record : Nodes] \cup [kind : {"turn"}, record : Nat]
<1>1. r \in RequestType /\ n \in Nodes
  BY CommitFacts
<1>2. changes' = (changes \o first) \o rows
  BY DEF Commit
<1>3. m \in Nat /\ Len(turns) \in Nat
  BY <1>1 DEF RequestType, TypeOK
<1>4. /\ rows \in Seq(Rows)
      /\ Len(rows) = m
      /\ \A p \in 1 .. m : rows[p] = [kind |-> "turn", record |-> Len(turns) + p]
  <2> HIDE DEF r
  <2>1. rows = [p \in 1 .. m |-> [kind |-> "turn", record |-> Len(turns) + p]]
    BY DEF TurnChanges
  <2>2. \A p \in 1 .. m : [kind |-> "turn", record |-> Len(turns) + p] \in Rows
    BY <1>3
  <2> HIDE DEF rows, m, Rows
  <2>3. rows \in [1 .. m -> Rows]
    BY <2>1, <2>2
  <2>4. rows \in Seq(Rows) /\ Len(rows) = m
    BY <1>3, <2>3
  <2> QED  BY <2>1, <2>4
<1>5. /\ first \in Seq(Rows)
      /\ Len(first) = d
      /\ d = 1 => first[1] = [kind |-> "source", record |-> n]
  <2>1. CASE Creates(r, n)
    <3>1. first = <<[kind |-> "source", record |-> n]>>
      BY <2>1 DEF SourceChange
    <3>2. [kind |-> "source", record |-> n] \in Rows
      BY <1>1
    <3> HIDE DEF first, Rows
    <3> QED  BY <2>1, <3>1, <3>2
  <2>2. CASE ~ Creates(r, n)
    <3>1. first = << >>
      BY <2>2 DEF SourceChange
    <3> HIDE DEF first, Rows
    <3> QED  BY <2>2, <3>1
  <2> QED  BY <2>1, <2>2
<1>6. changes \in Seq(Rows) /\ Len(changes) \in Nat
  BY DEF TypeOK
<1>7. d \in {0, 1} /\ (d = 1 <=> Creates(r, n))
  OBVIOUS
<1> HIDE DEF first, rows, r, n, Rows, m, d
<1>8. /\ changes \o first \in Seq(Rows)
      /\ Len(changes \o first) = Len(changes) + d
      /\ \A i \in 1 .. Len(changes) : (changes \o first)[i] = changes[i]
      /\ d = 1 => (changes \o first)[Len(changes) + 1] = first[1]
  BY <1>5, <1>6, <1>7
<1>9. /\ Len(changes') = Len(changes) + d + m
      /\ \A i \in 1 .. Len(changes) + d : changes'[i] = (changes \o first)[i]
      /\ \A p \in 1 .. m : changes'[Len(changes) + d + p] = rows[p]
  <2> DEFINE base == changes \o first
  <2>1. /\ base \in Seq(Rows) /\ Len(base) = Len(changes) + d
        /\ changes' = base \o rows
    BY <1>2, <1>8
  <2> HIDE DEF base
  <2>2. /\ Len(changes') = Len(base) + m
        /\ \A i \in 1 .. Len(base) : changes'[i] = base[i]
        /\ \A p \in 1 .. m : changes'[Len(base) + p] = rows[p]
    <3>1. Len(base) \in Nat /\ Len(rows) = m
      BY <1>4, <2>1
    <3>2. /\ Len(changes') = Len(base) + m
          /\ \A i \in 1 .. Len(base) + m :
               changes'[i] = IF i <= Len(base) THEN base[i] ELSE rows[i - Len(base)]
      <4>1. rows \in Seq(Rows) /\ base \in Seq(Rows)
        BY <1>4, <2>1
      <4> DEFINE all == base \o rows
      <4>2. /\ Len(all) = Len(base) + Len(rows)
            /\ \A i \in 1 .. Len(base) + Len(rows) :
                 all[i] = IF i <= Len(base) THEN base[i] ELSE rows[i - Len(base)]
        BY <4>1, ConcatProperties
      <4>3. changes' = all
        BY <2>1
      <4> HIDE DEF all
      <4> QED  BY <3>1, <4>2, <4>3
    <3>3. ASSUME NEW p \in 1 .. m PROVE changes'[Len(base) + p] = rows[p]
      BY <1>3, <3>1, <3>2
    <3> QED  BY <1>3, <3>1, <3>2, <3>3
  <2> QED  BY <1>6, <1>7, <2>1, <2>2 DEF base
<1>10. /\ \A i \in 1 .. Len(changes) : changes'[i] = changes[i]
       /\ d = 1 => changes'[Len(changes) + 1] = [kind |-> "source", record |-> n]
       /\ \A p \in 1 .. m :
            changes'[Len(changes) + d + p] = [kind |-> "turn", record |-> Len(turns) + p]
  <2>1. /\ 1 .. Len(changes) \subseteq 1 .. Len(changes) + d
        /\ d = 1 => Len(changes) + 1 \in 1 .. Len(changes) + d
    BY <1>6, <1>7
  <2> QED  BY <1>4, <1>5, <1>8, <1>9, <2>1
<1> QED  BY <1>7, <1>9, <1>10 DEF m, r, n

LEMMA CommitChanges ==
    ASSUME NEW c \in Calls, TypeOK, ThreadsInv, ChangesInv, Commit(c)
    PROVE  ChangesInv'
<1> DEFINE r == Req(c)
           n == target[c]
           m == Len(r.texts)
           t == Len(turns)
           l == Len(changes)
<1>1. /\ r \in Requests /\ r \in RequestType /\ n \in Nodes
      /\ n \in Targets(r) /\ Prior(r) = None /\ ~Refused(r)
  BY CommitFacts
<1>2. PICK d \in {0, 1} :
             /\ d = 1 <=> Creates(r, n)
             /\ Len(changes') = l + d + m
             /\ \A i \in 1 .. l : changes'[i] = changes[i]
             /\ d = 1 => changes'[l + 1] = [kind |-> "source", record |-> n]
             /\ \A p \in 1 .. m : changes'[l + d + p] = [kind |-> "turn", record |-> t + p]
  BY CommitLogs
<1>3. /\ m \in Nat /\ t \in Nat /\ l \in Nat /\ r.base # None
  BY <1>1, NoneAssumption DEF RequestType, TypeOK
<1>4. /\ Len(turns') = t + m
      /\ \A i \in 1 .. t : turns'[i] = turns[i]
      /\ \A p \in 1 .. m : turns'[t + p].node = n
  <2>1. /\ Len(turns') = t + m
        /\ \A i \in 1 .. t : turns'[i] = turns[i]
        /\ \A p \in 1 .. m :
             turns'[t + p] = [node |-> n, text |-> r.texts[p], batch |-> t]
    BY CommitGrows
  <2> HIDE DEF r, n, m, t
  <2>2. ASSUME NEW p \in 1 .. m PROVE turns'[t + p].node = n
    <3>1. turns'[t + p] = [node |-> n, text |-> r.texts[p], batch |-> t]
      BY <2>1
    <3> QED  BY <3>1
  <2> QED  BY <2>1, <2>2
<1>5. /\ d = 1 => sources[n] = None
      /\ sources'[n] # None
      /\ d = 0 => sources[n] # None
      /\ \A k \in Nodes \ {n} : sources'[k] = sources[k]
  <2>1. sources' = IF Creates(r, n) THEN [sources EXCEPT ![n] = r.base] ELSE sources
    BY DEF Commit
  <2>2. sources \in [Nodes -> Contents \cup {None}]
    BY DEF TypeOK
  <2>3. d = 1 => sources[n] = None
    BY <1>1, <1>2 DEF Creates, Targets
  <2>4. d = 0 => sources[n] # None
    <3>1. CASE r.op = "ingest"
      BY <1>2, <3>1 DEF Creates
    <3>2. CASE r.op # "ingest"
      BY <1>1, <1>2, <3>2 DEF Creates, Targets, Refused, RequestType, Ops
    <3> QED  BY <3>1, <3>2
  <2> HIDE DEF r, n
  <2> QED  BY <1>1, <1>2, <1>3, <2>1, <2>2, <2>3, <2>4
<1> HIDE DEF r, n, m, t, l
<1>5a. \A p \in 1 .. m : changes'[l + d + p].record = t + p
  <2> SUFFICES ASSUME NEW p \in 1 .. m PROVE changes'[l + d + p].record = t + p
    OBVIOUS
  <2>1. changes'[l + d + p] = [kind |-> "turn", record |-> t + p]
    BY <1>2
  <2> QED  BY <2>1
<1>6. \A i : Logged("source", i)' <=> Logged("source", i) \/ (d = 1 /\ i = l + 1)
  <2> SUFFICES ASSUME NEW i
               PROVE  Logged("source", i)' <=> Logged("source", i) \/ (d = 1 /\ i = l + 1)
    OBVIOUS
  <2>1. CASE i \in 1 .. l
    BY <1>2, <1>3, <2>1 DEF Logged, l
  <2>2. CASE i \in Nat /\ i > l + d /\ i <= l + d + m
    <3>1. PICK p \in 1 .. m : i = l + d + p
      <4>1. i - l - d \in 1 .. m /\ i = l + d + (i - l - d)
        BY <1>3, <2>2
      <4> QED  BY <4>1
    <3>2. changes'[i] = [kind |-> "turn", record |-> t + p]
      BY <1>2, <3>1
    <3>3. changes'[i].kind = "turn"
      BY <3>2
    <3> QED  BY <1>3, <2>2, <3>3 DEF Logged, l
  <2>3. CASE d = 1 /\ i = l + 1
    BY <1>2, <1>3, <2>3 DEF Logged, l
  <2>4. CASE i \notin 1 .. l + d + m
    BY <1>2, <1>3, <2>4 DEF Logged, l
  <2> QED  BY <1>3, <2>1, <2>2, <2>3, <2>4
<1>7. \A i : Logged("turn", i)' <=> Logged("turn", i) \/ \E p \in 1 .. m : i = l + d + p
  <2> SUFFICES ASSUME NEW i
               PROVE  Logged("turn", i)' <=> Logged("turn", i) \/ \E p \in 1 .. m : i = l + d + p
    OBVIOUS
  <2>1. CASE i \in 1 .. l
    BY <1>2, <1>3, <2>1 DEF Logged, l
  <2>2. CASE i \in Nat /\ i > l + d /\ i <= l + d + m
    <3>1. PICK p \in 1 .. m : i = l + d + p
      <4>1. i - l - d \in 1 .. m /\ i = l + d + (i - l - d)
        BY <1>3, <2>2
      <4> QED  BY <4>1
    <3>2. changes'[i] = [kind |-> "turn", record |-> t + p]
      BY <1>2, <3>1
    <3>3. changes'[i].kind = "turn"
      BY <3>2
    <3> QED  BY <1>2, <1>3, <2>2, <3>1, <3>3 DEF Logged
  <2>3. CASE d = 1 /\ i = l + 1
    BY <1>2, <1>3, <2>3 DEF Logged, l
  <2>4. CASE i \notin 1 .. l + d + m
    BY <1>2, <1>3, <2>4 DEF Logged, l
  <2> QED  BY <1>3, <2>1, <2>2, <2>3, <2>4
<1>8. \A i : Logged("source", i) \/ Logged("turn", i) =>
             i \in Nat /\ i <= l /\ changes'[i] = changes[i]
  BY <1>2, <1>3 DEF Logged, l
<1>9. \A k \in Nodes :
        sources'[k] # None <=> \E i : Logged("source", i)' /\ changes'[i].record = k
  <2> SUFFICES ASSUME NEW k \in Nodes
               PROVE  sources'[k] # None
                        <=> \E i : Logged("source", i)' /\ changes'[i].record = k
    OBVIOUS
  <2>0. sources[k] # None <=> \E i : Logged("source", i) /\ changes[i].record = k
    BY DEF ChangesInv
  <2>1. CASE k = n
    <3>1. CASE d = 1
      <4>1. \A i : i = l + 1 => Logged("source", i)' /\ changes'[i].record = k
        BY <1>2, <1>6, <2>1, <3>1
      <4>2. \E i : Logged("source", i)' /\ changes'[i].record = k
        BY <4>1
      <4> QED  BY <1>5, <2>1, <4>2
    <3>2. CASE d = 0
      <4>1. PICK i : Logged("source", i) /\ changes[i].record = k
        BY <1>5, <2>0, <2>1, <3>2
      <4>2. Logged("source", i)' /\ changes'[i].record = k
        BY <1>6, <1>8, <4>1
      <4> QED  BY <1>5, <2>1, <4>2
    <3> QED  BY <3>1, <3>2
  <2>2. CASE k # n
    <3>1. sources'[k] = sources[k]
      BY <1>5, <2>2
    <3>2. \A i : Logged("source", i) /\ changes[i].record = k
                   <=> Logged("source", i)' /\ changes'[i].record = k
      BY <1>2, <1>6, <1>8, <2>2
    <3> QED  BY <2>0, <3>1, <3>2
  <2> QED  BY <2>1, <2>2
<1>10. \A i, j : Logged("source", i)' /\ Logged("source", j)'
                   /\ changes'[i].record = changes'[j].record => i = j
  <2>1. d = 1 => \A i : Logged("source", i) => changes[i].record # n
    BY <1>1, <1>5 DEF ChangesInv
  <2> QED  BY <1>2, <1>6, <1>8, <2>1 DEF ChangesInv
<1>11. \A i : Logged("turn", i) => changes[i].record \in 1 .. t
  BY DEF ChangesInv, t
<1>12. \A i, j : Logged("turn", i)' /\ Logged("turn", j)' /\ i < j
                   => changes'[i].record < changes'[j].record
  <2> SUFFICES ASSUME NEW i, NEW j, Logged("turn", i)', Logged("turn", j)', i < j
               PROVE  changes'[i].record < changes'[j].record
    OBVIOUS
  <2>1. CASE Logged("turn", i) /\ Logged("turn", j)
    BY <1>8, <2>1 DEF ChangesInv
  <2>2. CASE Logged("turn", i) /\ \E p \in 1 .. m : j = l + d + p
    <3>1. PICK p \in 1 .. m : j = l + d + p
      BY <2>2
    <3>2. changes'[j].record = t + p
      BY <1>5a, <3>1
    <3>3. changes'[i].record \in 1 .. t
      BY <1>8, <1>11, <2>2
    <3> QED  BY <1>3, <3>2, <3>3
  <2>3. CASE (\E p \in 1 .. m : i = l + d + p) /\ Logged("turn", j)
    BY <1>3, <1>8, <2>3
  <2>4. CASE (\E p \in 1 .. m : i = l + d + p) /\ (\E p \in 1 .. m : j = l + d + p)
    <3>1. PICK p \in 1 .. m, q \in 1 .. m : i = l + d + p /\ j = l + d + q
      BY <2>4
    <3>2. changes'[i].record = t + p /\ changes'[j].record = t + q
      BY <1>5a, <3>1
    <3> QED  BY <1>3, <3>1, <3>2
  <2> QED  BY <1>7, <2>1, <2>2, <2>3, <2>4
<1>13. \A i : Logged("turn", i)' => changes'[i].record \in 1 .. Len(turns')
  <2> SUFFICES ASSUME NEW i, Logged("turn", i)'
               PROVE  changes'[i].record \in 1 .. t + m
    BY <1>4
  <2>1. CASE Logged("turn", i)
    BY <1>3, <1>8, <1>11, <2>1
  <2>2. CASE \E p \in 1 .. m : i = l + d + p
    <3>1. PICK p \in 1 .. m : i = l + d + p
      BY <2>2
    <3>2. changes'[i].record = t + p
      BY <1>5a, <3>1
    <3> QED  BY <1>3, <3>2
  <2> QED  BY <1>7, <2>1, <2>2
<1>14. \A p \in 1 .. Len(turns') : \E i : Logged("turn", i)' /\ changes'[i].record = p
  <2> SUFFICES ASSUME NEW p \in 1 .. t + m
               PROVE  \E i : Logged("turn", i)' /\ changes'[i].record = p
    BY <1>4
  <2>1. CASE p <= t
    <3>1. PICK i : Logged("turn", i) /\ changes[i].record = p
      BY <1>3, <2>1 DEF ChangesInv, t
    <3> QED  BY <1>7, <1>8, <3>1
  <2>2. CASE p > t
    <3>1. PICK q \in 1 .. m : p = t + q
      <4>1. p - t \in 1 .. m /\ p = t + (p - t)
        BY <1>3, <2>2
      <4> QED  BY <4>1
    <3>2. \A i : i = l + d + q => Logged("turn", i)' /\ changes'[i].record = p
      BY <1>7, <1>5a, <3>1
    <3> QED  BY <3>2
  <2> QED  BY <1>3, <2>1, <2>2
<1>15. \A i : Logged("turn", i)' =>
         \E j : Logged("source", j)' /\ j < i /\ changes'[j].record = turns'[changes'[i].record].node
  <2> SUFFICES ASSUME NEW i, Logged("turn", i)'
               PROVE  \E j : /\ Logged("source", j)' /\ j < i
                             /\ changes'[j].record = turns'[changes'[i].record].node
    OBVIOUS
  <2>1. CASE Logged("turn", i)
    <3>1. PICK j : Logged("source", j) /\ j < i /\ changes[j].record = turns[changes[i].record].node
      BY <2>1 DEF ChangesInv
    <3>2. turns'[changes[i].record] = turns[changes[i].record]
      BY <1>4, <1>11, <2>1
    <3> QED  BY <1>6, <1>8, <2>1, <3>1, <3>2
  <2>2. ASSUME NEW p \in 1 .. m, i = l + d + p
        PROVE  \E j : /\ Logged("source", j)' /\ j < i
                      /\ changes'[j].record = turns'[changes'[i].record].node
    <3>1. turns'[changes'[i].record].node = n
      <4>1. changes'[i] = [kind |-> "turn", record |-> t + p]
        BY <1>2, <2>2
      <4>2. changes'[i].record = t + p
        BY <4>1
      <4> QED  BY <1>4, <4>2
    <3>2. PICK j : Logged("source", j)' /\ changes'[j].record = n
      BY <1>1, <1>5, <1>9
    <3>3. j < i
      BY <1>2, <1>3, <1>6, <1>8, <2>2, <3>2
    <3> QED  BY <3>1, <3>2, <3>3
  <2> QED  BY <1>7, <2>1, <2>2
<1> QED  BY <1>9, <1>10, <1>12, <1>13, <1>14, <1>15 DEF ChangesInv

LEMMA ChangesStep == Inv /\ ChangesInv /\ [Next]_vars => ChangesInv'
<1> SUFFICES ASSUME Inv, ChangesInv, [Next]_vars PROVE ChangesInv'
  OBVIOUS
<1>1. ASSUME NEW c \in Calls, Commit(c) PROVE ChangesInv'
  BY <1>1, CommitChanges DEF Inv
<1>2. ASSUME UNCHANGED tables PROVE ChangesInv'
  BY <1>2 DEF tables, ChangesInv, Logged
<1> QED  BY <1>1, <1>2, StepKinds DEF Inv, Quiet, Deliver

(* The change log names every committed record exactly once, turns in      *)
(* their order and behind the record of their node, whatever failed or     *)
(* died: an index that follows it by a cursor misses nothing.              *)
THEOREM NothingUnlogged == Spec => []ChangeLogComplete
<1>1. Spec => []Inv
  BY InvInit, InvStep, PTL DEF Spec
<1>2. Init => ChangesInv
  BY DEF Init, ChangesInv, Logged
<1>3. Inv /\ ChangesInv => ChangeLogComplete
  <2> SUFFICES ASSUME Inv, ChangesInv PROVE ChangeLogComplete
    OBVIOUS
  <2> DEFINE At(kind) == {i \in 1 .. Len(changes) : changes[i].kind = kind}
  <2>1. \A kind, i : i \in At(kind) <=> Logged(kind, i)
    BY DEF Logged
  <2>2. ASSUME NEW n \in Nodes
        PROVE  Cardinality({i \in At("source") : changes[i].record = n})
                 = IF sources[n] = None THEN 0 ELSE 1
    <3> DEFINE rows == {i \in At("source") : changes[i].record = n}
    <3>1. CASE sources[n] = None
      <4>1. rows = {}
        BY <2>1, <2>2, <3>1 DEF ChangesInv
      <4> QED  BY <3>1, <4>1, FS_EmptySet
    <3>2. CASE sources[n] # None
      <4>1. PICK i : Logged("source", i) /\ changes[i].record = n
        BY <2>2, <3>2 DEF ChangesInv
      <4>2. rows = {i}
        BY <2>1, <4>1 DEF ChangesInv
      <4> QED  BY <3>2, <4>2, FS_Singleton
    <3> QED  BY <3>1, <3>2
  <2>3. \A i, j \in At("turn") : i < j => changes[i].record < changes[j].record
    BY <2>1 DEF ChangesInv
  <2>4. {changes[i].record : i \in At("turn")} = 1 .. Len(turns)
    BY <2>1 DEF ChangesInv
  <2>5. \A i \in At("turn") : \E j \in At("source") :
          j < i /\ changes[j].record = turns[changes[i].record].node
    BY <2>1 DEF ChangesInv
  <2> HIDE DEF At
  <2> QED  BY <2>2, <2>3, <2>4, <2>5 DEF ChangeLogComplete, At
<1> QED  BY <1>1, <1>2, <1>3, ChangesStep, PTL DEF Spec

(* No step changes, reorders or withdraws a published source, turn or      *)
(* retry result.                                                           *)
THEOREM HistoryGrows == Spec => HistoryOnlyGrows
<1> DEFINE Grows ==
             /\ \A n \in Nodes : sources[n] # None => sources'[n] = sources[n]
             /\ Len(turns) <= Len(turns')
             /\ \A i \in 1 .. Len(turns) : turns'[i] = turns[i]
             /\ \A s \in Slots : memo[s] # None => memo'[s] = memo[s]
<1>1. Spec => []Inv
  BY InvInit, InvStep, PTL DEF Spec
<1>2. Inv /\ [Next]_vars => [Grows]_vars
  <2> SUFFICES ASSUME Inv, [Next]_vars PROVE Grows
    OBVIOUS
  <2>1. ASSUME NEW c \in Calls, Commit(c) PROVE Grows
    BY <2>1, CommitGrows DEF Inv
  <2>2. Len(turns) \in Nat
    BY DEF Inv, TypeOK
  <2>3. ASSUME UNCHANGED tables PROVE Grows
    BY <2>2, <2>3 DEF tables
  <2> QED  BY <2>1, <2>3, StepKinds DEF Quiet, Deliver
<1> QED  BY <1>1, <1>2, PTL DEF Spec, HistoryOnlyGrows

-----------------------------------------------------------------------------
(* Refinement.                                                             *)

(* The log is instantiated with the same vocabulary.                       *)
LEMMA SameVocabulary ==
    ASSUME NEW r, NEW n, NEW s, NEW t, NEW m
    PROVE  /\ Log!Slots = Slots
           /\ Log!Slot(r) = Slot(r)
           /\ Log!Fingerprint(r) = Fingerprint(r)
           /\ Log!Batch(r, n, t) = Batch(r, n, t)
           /\ Log!Recorded(m, r, n) = Recorded(m, r, n)
           /\ Log!Visible(r, n, s, t) <=> Visible(r, n, s, t)
<1>1. Log!Slots = Slots /\ Log!Slot(r) = Slot(r)
  BY DEF Log!Slots, Slots, Log!Slot, Slot, Log!Ops, Ops
<1>2. Log!Fingerprint(r) = Fingerprint(r)
  BY DEF Log!Fingerprint, Fingerprint
<1>3. Log!Batch(r, n, t) = Batch(r, n, t)
  BY DEF Log!Batch, Batch
<1>4. Log!Recorded(m, r, n) = Recorded(m, r, n)
  BY <1>1, <1>2 DEF Log!Recorded, Recorded
<1>5. Log!Visible(r, n, s, t) <=> Visible(r, n, s, t)
  BY DEF Log!Visible, Visible
<1> QED  BY <1>1, <1>2, <1>3, <1>4, <1>5

LEMMA CommitPublishes ==
    ASSUME NEW c \in Calls, TypeOK, ThreadsInv, Commit(c)
    PROVE  Log!Publish(Req(c), target[c])
<1> DEFINE r == Req(c)
           n == target[c]
<1>1. /\ r \in Requests /\ r \in RequestType /\ n \in Nodes
      /\ n \in Targets(r) /\ Prior(r) = None /\ ~Refused(r)
  BY CommitFacts
<1>2. /\ sources' = IF Creates(r, n) THEN [sources EXCEPT ![n] = r.base] ELSE sources
      /\ turns' = turns \o Batch(r, n, turns)
      /\ pointer' = IF r.op = "append" THEN [pointer EXCEPT ![r.conv] = n] ELSE pointer
      /\ memo' = Recorded(memo, r, n)
      /\ acks' = acks
  BY DEF Commit, Leave
<1> HIDE DEF r, n
<1>3. Log!Unused(r)
  BY <1>1, SameVocabulary DEF Log!Unused, Prior
<1>4. n = r.node \/ r.node = None
  BY <1>1 DEF Targets
<1>5. sources \in [Nodes -> Contents \cup {None}] /\ turns \in Seq(TurnType)
  BY DEF TypeOK
<1>6. CASE r.op = "ingest"
  <2>1. sources[n] \in {None, r.base}
    BY <1>1, <1>6 DEF Targets, Refused
  <2>2. sources' = [sources EXCEPT ![n] = r.base]
    <3>1. CASE sources[n] = None
      BY <1>2, <1>6, <3>1 DEF Creates
    <3>2. CASE sources[n] # None
      <4>1. sources' = sources /\ sources[n] = r.base
        BY <1>2, <1>6, <2>1, <3>2 DEF Creates
      <4> QED  BY <1>5, <4>1
    <3> QED  BY <3>1, <3>2
  <2>3. turns' = turns
    <3>1. r.texts = << >>
      BY <1>1, <1>6, RequestsAssumption
    <3>2. Batch(r, n, turns) = << >>
      BY <3>1 DEF Batch
    <3> QED  BY <1>2, <1>5, <3>2
  <2>4. Log!Import(r, n)
    BY <1>2, <1>3, <1>4, <1>6, <2>1, <2>2, <2>3, SameVocabulary
    DEF Log!Import
  <2> QED  BY <1>2, <2>4 DEF Log!Publish, r, n
<1>7. CASE r.op # "ingest"
  <2>1. r.op = "append"
    BY <1>1, <1>7 DEF RequestType, Ops
  <2>2. IF r.node = None
          THEN sources[n] = None /\ sources' = [sources EXCEPT ![n] = r.base]
          ELSE n = r.node /\ sources[n] # None /\ sources' = sources
    BY <1>1, <1>2, <1>4, <2>1 DEF Creates, Targets, Refused
  <2>3. Log!AppendTurns(r, n)
    BY <1>2, <1>3, <2>1, <2>2, SameVocabulary DEF Log!AppendTurns
  <2> QED  BY <1>2, <2>3 DEF Log!Publish, r, n
<1> QED  BY <1>6, <1>7

(* The storage layer, with its threads, locks, blobs, transactions, lost   *)
(* replies and crashes, implements the log of atomic publications.         *)
THEOREM ImplementsLog == Spec => LogSpec
<1>1. Spec => []Inv
  BY InvInit, InvStep, PTL DEF Spec
<1>2. Init => Log!Init
  BY SameVocabulary DEF Init, Log!Init
<1>3. Inv /\ [Next]_vars => [Log!Next]_(Log!vars)
  <2> SUFFICES ASSUME Inv, [Next]_vars PROVE [Log!Next]_(Log!vars)
    OBVIOUS
  <2>1. ASSUME NEW c \in Calls, Commit(c) PROVE Log!Next
    <3>1. Req(c) \in Requests /\ target[c] \in Nodes
      BY <2>1, CommitFacts DEF Inv
    <3>2. Log!Publish(Req(c), target[c])
      BY <2>1, CommitPublishes DEF Inv
    <3> QED  BY <3>1, <3>2 DEF Log!Next
  <2>2. ASSUME NEW c \in Calls, Deliver(c) PROVE [Log!Next]_(Log!vars)
    <3>1. UNCHANGED tables
      BY <2>2 DEF Deliver
    <3>2. CASE acks' = acks
      BY <3>1, <3>2 DEF tables, Log!vars
    <3>3. ASSUME NEW a \in AckType, Justified(a), acks' = acks \cup {a}
          PROVE  Log!Next
      <4>1. a.request \in Requests /\ a.node \in Nodes /\ a.created \in BOOLEAN
        BY DEF AckType
      <4>2. a = [request |-> a.request, node |-> a.node, created |-> a.created]
        BY DEF AckType
      <4>3. Log!Answer(a.request, a.node, a.created)
        BY <3>1, <3>3, <4>2, SameVocabulary DEF Log!Answer, Justified, tables
      <4> QED  BY <4>1, <4>3 DEF Log!Next
    <3> QED  BY <2>2, <3>2, <3>3, DeliverAcks DEF Inv
  <2>3. CASE Quiet /\ acks' = acks
    BY <2>3 DEF Quiet, tables, Log!vars
  <2> QED  BY <2>1, <2>2, <2>3, StepKinds
<1> QED  BY <1>1, <1>2, <1>3, PTL DEF Spec, LogSpec, Log!Spec
=============================================================================
