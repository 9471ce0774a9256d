------------------------ MODULE ConversationsProofs ------------------------
(***************************************************************************)
(* What Conversations guarantees for any number of calls, applications and *)
(* conversations, abandoned calls, storage errors and restarts.            *)
(*                                                                         *)
(* The argument: a call is in the conversation lock exactly at the steps   *)
(* of LockInv; an append is made once and only by a call that has not gone *)
(* on without it; so what is stored was asked for once, a reply is behind  *)
(* its question, and a retry row names a stored turn.  As long as no call  *)
(* is abandoned, every append on a thread is awaited by a call that holds  *)
(* the lock, so the active topic a call has read cannot move, and nobody's *)
(* turn comes between a question and its reply (CalmInv).                  *)
(***************************************************************************)
EXTENDS Conversations, SequenceTheorems, TLAPS

(* Before a call has gone on from _remember, and from storing its reply.   *)
Early == {"start", "check", "active", "route", "store"}
Replying == Early \cup {"generate", "storeReply"}

(* The calls that hold the conversation lock.                              *)
Holding(t) ==
    \/ pc[t] \in {"check", "active", "route", "store", "storeReply"}
    \/ Kind[t] = "answer" /\ pc[t] \in {"generate", "maintLock", "maintain"}

LockInv == \A t \in Tasks : Holding(t) <=> convLock = t

(* Where a call can be, and what it has got there.                         *)
PhaseOK(t) ==
    /\ pc[t] = "check" => KeyOf[t] # None
    /\ pc[t] = "generate" => Kind[t] # "ingest"
    /\ pc[t] = "storeReply" => Kind[t] = "answer"
    /\ Kind[t] = "read" => pc[t] \in {"start", "generate", "done"} /\ source[t] = None
    /\ outcome[t] # None => pc[t] = "done"
    /\ pc[t] \in Early => source[t] = None
    /\ pc[t] \in {"generate", "storeReply", "maintLock", "maintain"} /\ Kind[t] # "read"
         => source[t] # None
    /\ outcome[t] = "returned" /\ Kind[t] = "ingest" =>
         source[t] # None /\ source[t].node \in attempted

PhaseInv == \A t \in Tasks : PhaseOK(t)

(* An append that waits for its thread was made by a call that is still    *)
(* there, or has ended.                                                    *)
OpOK(op) ==
    /\ Kind[op.owner] # "read"
    /\ op.role = "user" => pc[op.owner] \in {"store", "done"} /\ source[op.owner] = None
    /\ op.role = "assistant" =>
         /\ Kind[op.owner] = "answer" /\ pc[op.owner] \in {"storeReply", "done"}
         /\ source[op.owner] # None /\ op.node = source[op.owner].node
    /\ \A o \in ops : o.owner = op.owner /\ o.role = op.role => o = op

OpsInv == \A op \in ops : OpOK(op)

Control == TypeOK /\ LockInv /\ PhaseInv /\ OpsInv

Places == 1 .. Len(turns)
Own(i, t, role) == i \in Places /\ past[i].owner = t /\ past[i].role = role

(* What is stored was appended once, by a call that has gone on since.     *)
TurnsInv ==
    /\ Len(past) = Len(turns)
    /\ \A op \in ops, i \in Places : ~ Own(i, op.owner, op.role)
    /\ \A i, j \in Places : past[i].owner = past[j].owner /\ past[i].role = past[j].role => i = j
    /\ \A t \in Tasks, i \in Places : Own(i, t, "user") =>
         /\ turns[i].text = UserText[t]
         /\ pc[t] \notin Early
    /\ \A t \in Tasks, i \in Places : Own(i, t, "assistant") =>
         /\ pc[t] \notin Replying
         /\ \E j \in 1 .. i - 1 : Own(j, t, "user") /\ turns[j].node = turns[i].node

(* A call that has got past _remember has its turn stored where it goes on.*)
SourcesInv ==
    \A t \in Tasks : source[t] # None =>
      /\ \E i \in Places : turns[i].node = source[t].node /\ turns[i].text = UserText[t]
      /\ Kind[t] = "answer" =>
           \E i \in Places : Own(i, t, "user") /\ turns[i].node = source[t].node

(* The retry row of a key, and the turn that was stored with it.           *)
RowOf(k) == memo[<<"append", k>>]
MemoInv ==
    \A k \in Keys :
      /\ RowOf(k) = None =>
           \A t \in Tasks, i \in Places : KeyOf[t] = k => ~ Own(i, t, "user")
      /\ RowOf(k) # None =>
           \E i \in Places :
             /\ turns[i].node = RowOf(k).node
             /\ RowOf(k).fp[3] = <<turns[i].text>>

Tables == TurnsInv /\ MemoInv /\ KeyedOnce /\ PointerIsLatest

Inv == Control /\ Tables /\ SourcesInv

(* As long as nobody is abandoned.                                         *)
LastOf(t, j) == \A i \in Places : ConvOf[past[i].owner] = ConvOf[t] => i <= j

CalmInv ==
    /\ \A op \in ops : Awaited(op)
    /\ \A t \in Tasks : pc[t] \in {"route", "store"} => seen[t] = pointer[ConvOf[t]]
    /\ \A op \in ops : op.role = "user" => op.seen = seen[op.owner]
    /\ \A t \in Tasks : pc[t] \in {"generate", "storeReply"} /\ Kind[t] = "answer" =>
         \E j \in Places : Own(j, t, "user") /\ LastOf(t, j)
    /\ RoutedOnCurrentTopic /\ ExchangesAdjacent

QuietInv == NoneAbandoned => CalmInv

-----------------------------------------------------------------------------
TextOf(op) == IF op.role = "user" THEN UserText[op.owner] ELSE ReplyText[op.owner]

Row(op, n, before) == [node |-> n, text |-> TextOf(op), batch |-> Len(before)]

Entry(op) == [owner |-> op.owner, role |-> op.role, seen |-> op.seen]

(* What a request of a call asks for.                                      *)
LEMMA RequestFields ==
    ASSUME NEW op \in OpType
    PROVE  /\ Request(op) \in Requests
           /\ Request(op).op = "append"
           /\ Request(op).key = IF op.role = "user" THEN KeyOf[op.owner] ELSE None
           /\ Request(op).node = op.node
           /\ Request(op).conv = ConvOf[op.owner]
           /\ Request(op).base = Base
           /\ Request(op).texts = <<TextOf(op)>>
           /\ Slot(Request(op)) = <<"append", Request(op).key>>
           /\ Fingerprint(Request(op)) = <<ConvOf[op.owner], Base, <<TextOf(op)>>>>
           /\ Fingerprint(Request(op)) \in Fingerprints
<1> DEFINE r == Request(op)
<1>1. r = [op |-> "append",
           key |-> IF op.role = "user" THEN KeyOf[op.owner] ELSE None,
           node |-> op.node, conv |-> ConvOf[op.owner], base |-> Base,
           texts |-> <<TextOf(op)>>]
  BY DEF Request, TextOf
<1>2. r \in Requests BY RequestsMade
<1> HIDE DEF r
<1>3. /\ r.op = "append" /\ r.node = op.node /\ r.conv = ConvOf[op.owner]
      /\ r.base = Base /\ r.texts = <<TextOf(op)>>
      /\ r.key = IF op.role = "user" THEN KeyOf[op.owner] ELSE None
  BY <1>1
<1>4. Slot(r) = <<"append", r.key>> BY <1>3 DEF Slot
<1>5. Fingerprint(r) = <<ConvOf[op.owner], Base, <<TextOf(op)>>>> BY <1>3 DEF Fingerprint
<1>6. Fingerprint(r) \in Fingerprints BY <1>2 DEF Fingerprints
<1> USE DEF r
<1> QED BY <1>2, <1>3, <1>4, <1>5, <1>6

(* What an append adds to a sequence.                                      *)
LEMMA AppendOne ==
    ASSUME NEW S, NEW s \in Seq(S), NEW x \in S
    PROVE  /\ Append(s, x) \in Seq(S)
           /\ Len(Append(s, x)) = Len(s) + 1
           /\ \A i \in 1 .. Len(s) : Append(s, x)[i] = s[i]
           /\ Append(s, x)[Len(s) + 1] = x
           /\ s \o <<x>> = Append(s, x)
<1> QED BY AppendProperties, AppendIsConcat

(* A committed append stores one turn, moves the pointer of its            *)
(* conversation and records its key.                                       *)
LEMMA AttachStores ==
    ASSUME TypeOK, NEW op \in ops, NEW n \in Nodes, Attach(op, n)
    PROVE  /\ turns' = Append(turns, Row(op, n, turns))
           /\ past' = Append(past, Entry(op))
           /\ Row(op, n, turns) \in TurnType
           /\ Entry(op) \in [owner : Tasks, role : {"user", "assistant"}, seen : Nodes \cup {None}]
           /\ op.node # None => n = op.node
           /\ pointer' = [pointer EXCEPT ![ConvOf[op.owner]] = n]
           /\ sources' \in [Nodes -> Contents \cup {None}]
<1> DEFINE r == Request(op)
<1>1. op \in OpType BY DEF TypeOK
<1>2. r.texts = <<TextOf(op)>> BY <1>1, RequestFields
<1>3. TextOf(op) \in Contents BY <1>1, TasksAssumption DEF TextOf, OpType
<1>4. Row(op, n, turns) \in TurnType
  <2>1. Len(turns) \in Nat BY LenProperties DEF TypeOK
  <2> QED BY <2>1, <1>3 DEF Row, TurnType
<1>5. Entry(op) \in [owner : Tasks, role : {"user", "assistant"}, seen : Nodes \cup {None}]
  BY <1>1 DEF Entry, OpType
<1>6. Batch(r, n, turns) = <<Row(op, n, turns)>>
  <2>1. Len(r.texts) = 1 /\ r.texts[1] = TextOf(op) BY <1>2
  <2>2. Batch(r, n, turns) =
          [i \in 1 .. 1 |-> [node |-> n, text |-> r.texts[i], batch |-> Len(turns)]]
    BY <2>1 DEF Batch
  <2>3. \A i \in 1 .. 1 : [node |-> n, text |-> r.texts[i], batch |-> Len(turns)]
                           = Row(op, n, turns)
    BY <2>1 DEF Row
  <2> HIDE DEF r
  <2>4. <<Row(op, n, turns)>> = [i \in 1 .. 1 |-> Row(op, n, turns)] OBVIOUS
  <2> QED BY <2>2, <2>3, <2>4
<1>7. turns' = turns \o Batch(r, n, turns)
  BY DEF Attach, Log!AppendTurns, Batch, Log!Batch
<1>8. turns' = Append(turns, Row(op, n, turns))
  BY <1>4, <1>6, <1>7, AppendOne DEF TypeOK
<1>9. past' = Append(past, Entry(op)) BY DEF Attach, Entry
<1>10. r.node = op.node /\ r.conv = ConvOf[op.owner] /\ r.base = Base
  BY <1>1, RequestFields
<1>11. op.node # None => n = op.node BY <1>10 DEF Attach, Log!AppendTurns
<1>12. pointer' = [pointer EXCEPT ![ConvOf[op.owner]] = n]
  BY <1>10 DEF Attach, Log!AppendTurns
<1>13. sources' \in [Nodes -> Contents \cup {None}]
  <2>1. sources' = [sources EXCEPT ![n] = Base] \/ sources' = sources
    BY <1>10 DEF Attach, Log!AppendTurns
  <2>2. Base \in Contents BY TasksAssumption
  <2>3. sources \in [Nodes -> Contents \cup {None}] BY DEF TypeOK
  <2> QED BY <2>1, <2>2, <2>3
<1> QED BY <1>4, <1>5, <1>8, <1>9, <1>11, <1>12, <1>13

(* The key of an import is recorded when its turn is stored; nothing else  *)
(* is.                                                                     *)
LEMMA AttachRecords ==
    ASSUME TypeOK, NEW op \in ops, NEW n \in Nodes, Attach(op, n),
           NEW k, k = Request(op).key
    PROVE  /\ k = None => memo' = memo
           /\ k # None =>
                /\ k \in Keys /\ op.role = "user" /\ KeyOf[op.owner] = k
                /\ memo[<<"append", k>>] = None
                /\ memo' = [memo EXCEPT ![<<"append", k>>] =
                              [fp |-> Fingerprint(Request(op)), node |-> n]]
                /\ <<"append", k>> \in Slots
           /\ memo' \in [Slots -> MemoType \cup {None}]
<1>1. op \in OpType BY DEF TypeOK
<1> DEFINE r == Request(op)
<1>2. /\ Slot(r) = <<"append", k>> /\ Fingerprint(r) \in Fingerprints
      /\ k = IF op.role = "user" THEN KeyOf[op.owner] ELSE None
  BY <1>1, RequestFields
<1>3. memo' = Recorded(memo, r, n) /\ Log!Unused(r)
  BY DEF Attach, Log!AppendTurns, Recorded, Log!Recorded, Slot, Log!Slot, Fingerprint, Log!Fingerprint, Log!Unused
<1> HIDE DEF r
<1>4. r.key = k BY DEF r
<1>5. k = None => memo' = memo BY <1>3, <1>4 DEF Recorded
<1>6. ASSUME k # None
      PROVE  /\ k \in Keys /\ op.role = "user" /\ KeyOf[op.owner] = k
             /\ memo[<<"append", k>>] = None
             /\ memo' = [memo EXCEPT ![<<"append", k>>] = [fp |-> Fingerprint(r), node |-> n]]
             /\ <<"append", k>> \in Slots
  <2>1. op.role = "user" /\ KeyOf[op.owner] = k /\ op.owner \in Tasks
    BY <1>1, <1>2, <1>6 DEF OpType
  <2>2. k \in Keys BY <2>1, <1>6, TasksAssumption
  <2>3. <<"append", k>> \in Slots BY <2>2 DEF Slots, Ops
  <2>4. memo[<<"append", k>>] = None BY <1>2, <1>3, <1>4, <1>6 DEF Log!Unused, Log!Slot, Slot
  <2>5. memo' = [memo EXCEPT ![<<"append", k>>] = [fp |-> Fingerprint(r), node |-> n]]
    BY <1>2, <1>3, <1>4, <1>6 DEF Recorded
  <2> QED BY <2>1, <2>2, <2>3, <2>4, <2>5
<1>7. memo' \in [Slots -> MemoType \cup {None}]
  <2>1. CASE k = None BY <2>1, <1>5 DEF TypeOK
  <2>2. CASE k # None
    <3>1. [fp |-> Fingerprint(r), node |-> n] \in MemoType BY <1>2 DEF MemoType
    <3> QED BY <3>1, <2>2, <1>6 DEF TypeOK
  <2> QED BY <2>1, <2>2
<1> USE DEF r
<1> QED BY <1>5, <1>6, <1>7

-----------------------------------------------------------------------------
(* A call ends: its locks are free, and what it is told is true.           *)
LEMMA EndControl ==
    ASSUME Control, NEW t \in Tasks, NEW how \in Outcomes, End(t, how),
           pc[t] # "start", UNCHANGED <<seen, source>>, ops' \subseteq ops,
           attempted \subseteq attempted',
           how = "returned" /\ Kind[t] = "ingest" =>
             source[t] # None /\ source[t].node \in attempted'
    PROVE  /\ LockInv' /\ PhaseInv' /\ OpsInv'
           /\ convLock' \in Tasks \cup {None}
           /\ maintLock' \in [Apps -> Tasks \cup {None}]
           /\ pc' \in [Tasks -> Steps] /\ outcome' \in [Tasks -> Outcomes]
<1> USE TasksAssumption DEF Control
<1>1. /\ pc \in [Tasks -> Steps] /\ outcome \in [Tasks -> Outcomes]
      /\ convLock \in Tasks \cup {None} /\ maintLock \in [Apps -> Tasks \cup {None}]
  BY DEF TypeOK
<1>2. /\ pc' = [pc EXCEPT ![t] = "done"] /\ outcome' = [outcome EXCEPT ![t] = how]
      /\ convLock' = IF convLock = t THEN None ELSE convLock
      /\ maintLock' = [a \in Apps |-> IF maintLock[a] = t THEN None ELSE maintLock[a]]
  BY DEF End, Goto, FreeLocks
<1>3. LockInv' BY <1>1, <1>2 DEF LockInv, Holding
<1>4. PhaseInv'
  <2> SUFFICES ASSUME NEW u \in Tasks PROVE PhaseOK(u)'
    BY DEF PhaseInv
  <2>1. PhaseOK(u) BY DEF PhaseInv
  <2> QED BY <1>1, <1>2, <2>1 DEF PhaseOK, Early
<1>5. OpsInv'
  <2> SUFFICES ASSUME NEW op \in ops' PROVE OpOK(op)'
    BY DEF OpsInv
  <2>1. op \in ops /\ op.owner \in Tasks BY DEF TypeOK, OpType
  <2>2. OpOK(op) BY <2>1 DEF OpsInv
  <2> QED BY <1>1, <1>2, <2>1, <2>2 DEF OpOK
<1>6. pc' \in [Tasks -> Steps] BY <1>1, <1>2 DEF Steps
<1> QED BY <1>1, <1>2, <1>3, <1>4, <1>5, <1>6

(* A call goes on from _remember with a node.                              *)
LEMMA RememberedControl ==
    ASSUME Control, NEW t \in Tasks, NEW n \in Nodes, NEW created \in BOOLEAN,
           Remembered(t, n, created), pc[t] \in {"check", "store"}, Kind[t] # "read",
           UNCHANGED <<outcome, attempted>>, ops' \subseteq ops,
           \A op \in ops' : op.role = "user" => op.owner # t
    PROVE  /\ LockInv' /\ PhaseInv' /\ OpsInv'
           /\ convLock' \in Tasks \cup {None}
           /\ pc' \in [Tasks -> Steps]
           /\ source' \in [Tasks -> [node : Nodes, created : BOOLEAN] \cup {None}]
           /\ source'[t] # None /\ source'[t].node = n
<1> USE TasksAssumption DEF Control
<1> DEFINE got == [node |-> n, created |-> created]
<1>1. /\ pc \in [Tasks -> Steps] /\ convLock \in Tasks \cup {None}
      /\ source \in [Tasks -> [node : Nodes, created : BOOLEAN] \cup {None}]
  BY DEF TypeOK
<1>2. got \in [node : Nodes, created : BOOLEAN] /\ got # None /\ got.node = n OBVIOUS
<1>3. /\ source' = [source EXCEPT ![t] = got]
      /\ pc' = [pc EXCEPT ![t] = IF Kind[t] = "answer" THEN "generate" ELSE "maintLock"]
      /\ convLock' = IF Kind[t] = "answer" THEN convLock ELSE None
  BY DEF Remembered, Goto
<1> HIDE DEF got
<1>4. convLock' \in Tasks \cup {None} BY <1>1, <1>3
<1>5. pc' \in [Tasks -> Steps] BY <1>1, <1>3 DEF Steps
<1>6. source' \in [Tasks -> [node : Nodes, created : BOOLEAN] \cup {None}] BY <1>1, <1>2, <1>3
<1>7. source'[t] # None /\ source'[t].node = n BY <1>1, <1>2, <1>3
<1>8. LockInv' BY <1>1, <1>3 DEF LockInv, Holding
<1>9. PhaseInv'
  <2> SUFFICES ASSUME NEW u \in Tasks PROVE PhaseOK(u)'
    BY DEF PhaseInv
  <2>1. PhaseOK(u) BY DEF PhaseInv
  <2> QED BY <1>1, <1>2, <1>3, <2>1 DEF PhaseOK, Early
<1>10. OpsInv'
  <2> SUFFICES ASSUME NEW op \in ops' PROVE OpOK(op)'
    BY DEF OpsInv
  <2>1. op \in ops /\ op.owner \in Tasks /\ op.role \in {"user", "assistant"} BY DEF TypeOK, OpType
  <2>2. OpOK(op) BY <2>1 DEF OpsInv
  <2>3. op.owner # t BY <2>1, <2>2 DEF OpOK
  <2> QED BY <1>1, <1>3, <2>1, <2>2, <2>3 DEF OpOK
<1> QED BY <1>4, <1>5, <1>6, <1>7, <1>8, <1>9, <1>10

(* A call takes a step and hands at most one append to a thread.           *)
LEMMA StepOps ==
    ASSUME Control, NEW t \in Tasks, NEW step \in Steps, Goto(t, step),
           UNCHANGED source, pc[t] \notin {"store", "storeReply", "done"},
           NEW made \in SUBSET OpType, ops' = ops \cup made,
           \A op \in made : /\ op.owner = t /\ Kind[t] # "read"
                            /\ op.role = "user" => step = "store" /\ source[t] = None
                            /\ op.role = "assistant" =>
                                 /\ Kind[t] = "answer" /\ step = "storeReply"
                                 /\ source[t] # None /\ op.node = source[t].node,
           \A op1, op2 \in made : op1 = op2
    PROVE  OpsInv'
<1>1. pc \in [Tasks -> Steps] /\ pc' = [pc EXCEPT ![t] = step]
  BY DEF Control, TypeOK, Goto
<1>2. \A op \in ops : op.owner \in Tasks /\ op.role \in {"user", "assistant"} /\ op.owner # t
  <2> SUFFICES ASSUME NEW op \in ops
               PROVE  op.owner \in Tasks /\ op.role \in {"user", "assistant"} /\ op.owner # t
    OBVIOUS
  <2>1. op.owner \in Tasks /\ op.role \in {"user", "assistant"} BY DEF Control, TypeOK, OpType
  <2>2. OpOK(op) BY DEF Control, OpsInv
  <2> QED BY <2>1, <2>2 DEF OpOK
<1> SUFFICES ASSUME NEW op \in ops' PROVE OpOK(op)'
  BY DEF OpsInv
<1>3. CASE op \in ops
  <2>1. OpOK(op) BY <1>3 DEF Control, OpsInv
  <2> QED BY <1>1, <1>2, <1>3, <2>1 DEF OpOK
<1>4. CASE op \in made
  BY <1>1, <1>2, <1>4 DEF OpOK, OpType
<1> QED BY <1>3, <1>4

(* The same for a step that hands nothing to a thread.                     *)
LEMMA SilentOps ==
    ASSUME Control, NEW t \in Tasks, NEW step \in Steps, Goto(t, step),
           UNCHANGED <<source, ops>>, pc[t] \notin {"store", "storeReply", "done"}
    PROVE  OpsInv'
<1> DEFINE made == {}
<1>1. made \in SUBSET OpType /\ ops' = ops \cup made OBVIOUS
<1>2. \A op \in made : FALSE OBVIOUS
<1> HIDE DEF made
<1> QED BY <1>1, <1>2, StepOps

(* What a worker thread's result does to the call that awaits it.          *)
LEMMA ResumeControl ==
    ASSUME Control, NEW op \in ops, NEW n \in Nodes, NEW created \in BOOLEAN,
           Resume(op, n, created), ops' = ops \ {op}, UNCHANGED <<seen, attempted>>
    PROVE  /\ LockInv' /\ PhaseInv' /\ OpsInv'
           /\ convLock' \in Tasks \cup {None}
           /\ maintLock' \in [Apps -> Tasks \cup {None}]
           /\ pc' \in [Tasks -> Steps] /\ outcome' \in [Tasks -> Outcomes]
           /\ source' \in [Tasks -> [node : Nodes, created : BOOLEAN] \cup {None}]
<1> USE TasksAssumption
<1>1. /\ pc \in [Tasks -> Steps] /\ outcome \in [Tasks -> Outcomes]
      /\ source \in [Tasks -> [node : Nodes, created : BOOLEAN] \cup {None}]
      /\ convLock \in Tasks \cup {None} /\ maintLock \in [Apps -> Tasks \cup {None}]
  BY DEF Control, TypeOK
<1>2. op.owner \in Tasks /\ op.role \in {"user", "assistant"} BY DEF Control, TypeOK, OpType
<1>3. OpOK(op) BY DEF Control, OpsInv
<1>4. CASE ~Awaited(op)
  <2>1. UNCHANGED <<pc, source, convLock, maintLock, outcome>> BY <1>4 DEF Resume
  <2>2. LockInv' BY <2>1 DEF Control, LockInv, Holding
  <2>3. PhaseInv' BY <2>1 DEF Control, PhaseInv, PhaseOK
  <2>4. OpsInv' BY <2>1 DEF Control, OpsInv, OpOK
  <2> QED BY <1>1, <2>1, <2>2, <2>3, <2>4
<1>5. CASE Awaited(op) /\ op.role = "user"
  <2>1. Remembered(op.owner, n, created) /\ UNCHANGED <<maintLock, outcome>>
    BY <1>5 DEF Resume
  <2>2. \A o \in ops' : o.role = "user" => o.owner # op.owner
    BY <1>3, <1>5 DEF OpOK
  <2>3. pc[op.owner] = "store" BY <1>5 DEF Awaited
  <2> QED BY <1>1, <1>2, <1>3, <2>1, <2>2, <2>3, RememberedControl DEF OpOK
<1>6. CASE Awaited(op) /\ op.role = "assistant"
  <2>1. AfterReply(op.owner) /\ UNCHANGED source BY <1>6 DEF Resume
  <2>2. pc[op.owner] = "storeReply" /\ Kind[op.owner] = "answer" /\ source[op.owner] # None
    BY <1>3, <1>6 DEF Awaited, OpOK
  <2>3. CASE source[op.owner].created
    <3>1. Goto(op.owner, "maintLock") /\ UNCHANGED <<convLock, maintLock, outcome>>
      BY <2>1, <2>3 DEF AfterReply
    <3>2. pc' = [pc EXCEPT ![op.owner] = "maintLock"] BY <3>1 DEF Goto
    <3>3. LockInv' BY <1>1, <1>2, <2>2, <3>1, <3>2 DEF Control, LockInv, Holding
    <3>4. PhaseInv'
      <4> SUFFICES ASSUME NEW u \in Tasks PROVE PhaseOK(u)'
        BY DEF PhaseInv
      <4>1. PhaseOK(u) BY DEF Control, PhaseInv
      <4> QED BY <1>1, <1>2, <2>1, <2>2, <3>1, <3>2, <4>1 DEF PhaseOK, Early
    <3>5. OpsInv'
      <4> SUFFICES ASSUME NEW o \in ops' PROVE OpOK(o)'
        BY DEF OpsInv
      <4>1. OpOK(o) /\ o \in ops /\ o # op BY DEF Control, OpsInv
      <4>2. o.owner \in Tasks /\ o.role \in {"user", "assistant"} BY <4>1 DEF Control, TypeOK, OpType
      <4>3. o.owner # op.owner BY <1>3, <1>6, <2>2, <4>1, <4>2 DEF OpOK
      <4> QED BY <1>1, <1>2, <2>1, <3>2, <4>1, <4>2, <4>3 DEF OpOK
    <3> QED BY <1>1, <2>1, <3>1, <3>2, <3>3, <3>4, <3>5 DEF Steps
  <2>4. CASE ~source[op.owner].created
    <3>1. End(op.owner, "returned") BY <2>1, <2>4 DEF AfterReply
    <3> QED BY <1>1, <1>2, <2>1, <2>2, <3>1, EndControl DEF Outcomes
  <2> QED BY <2>3, <2>4
<1> QED BY <1>2, <1>4, <1>5, <1>6

-----------------------------------------------------------------------------
(* The control invariants, action by action.                               *)
LEMMA EnterControl ==
    ASSUME Control, NEW t \in Tasks, Enter(t)
    PROVE  Control'
<1> DEFINE step == IF KeyOf[t] = None THEN "active" ELSE "check"
<1>1. /\ pc[t] = "start" /\ Kind[t] # "read" /\ convLock = None /\ convLock' = t
      /\ Goto(t, step)
      /\ UNCHANGED <<tables, past, maintLock, seen, source, ops, attempted, outcome, bounds>>
  BY DEF Enter
<1>2. pc \in [Tasks -> Steps] /\ pc' = [pc EXCEPT ![t] = step] /\ step \in Steps
  BY <1>1 DEF Control, TypeOK, Goto, Steps
<1>3. PhaseInv'
  <2> SUFFICES ASSUME NEW u \in Tasks PROVE PhaseOK(u)'
    BY DEF PhaseInv
  <2>1. PhaseOK(u) BY DEF Control, PhaseInv
  <2> QED BY <1>1, <1>2, <2>1 DEF PhaseOK, Early
<1>4. LockInv'
  BY <1>1, <1>2, TasksAssumption DEF Control, LockInv, Holding
<1>5. OpsInv'
  <2> HIDE DEF step
  <2> QED BY <1>1, <1>2, SilentOps
<1>6. pc' \in [Tasks -> Steps] BY <1>2
<1> QED BY <1>1, <1>3, <1>4, <1>5, <1>6 DEF Control, TypeOK, tables, bounds

LEMMA CheckRetryControl ==
    ASSUME Control, NEW t \in Tasks, CheckRetry(t)
    PROVE  Control'
<1> DEFINE asked == [owner |-> t, role |-> "user", node |-> None, seen |-> None]
           r == Request(asked)
           prior == memo[Slot(r)]
<1>1. pc[t] = "check" /\ UNCHANGED <<tables, past, seen, ops, attempted, bounds>>
  BY DEF CheckRetry
<1>2. KeyOf[t] # None /\ Kind[t] = "ingest" /\ KeyOf[t] \in Keys
  BY <1>1, TasksAssumption DEF Control, PhaseInv, PhaseOK
<1>3. Slot(r) = <<"append", KeyOf[t]>> /\ Slot(r) \in Slots
  <2>1. asked \in OpType BY DEF OpType
  <2>2. r.key = KeyOf[t] /\ Slot(r) = <<"append", r.key>> BY <2>1, RequestFields
  <2> QED BY <1>2, <2>2 DEF Slots, Ops
<1>4. prior \in MemoType \cup {None} BY <1>3 DEF Control, TypeOK
<1>5. \A op \in ops : op.owner # t
  BY <1>1 DEF Control, OpsInv, OpOK, TypeOK, OpType
<1>6. CASE prior = None
  <2>1. Goto(t, "active") /\ UNCHANGED <<convLock, maintLock, source, outcome>>
    BY <1>6 DEF CheckRetry
  <2>2. pc \in [Tasks -> Steps] /\ pc' = [pc EXCEPT ![t] = "active"] /\ "active" \in Steps
    BY <2>1 DEF Control, TypeOK, Goto, Steps
  <2>3. PhaseInv'
    <3> SUFFICES ASSUME NEW u \in Tasks PROVE PhaseOK(u)'
      BY DEF PhaseInv
    <3>1. PhaseOK(u) BY DEF Control, PhaseInv
    <3> QED BY <1>1, <2>1, <2>2, <3>1 DEF PhaseOK, Early
  <2>4. LockInv'
    BY <1>1, <2>1, <2>2, TasksAssumption DEF Control, LockInv, Holding
  <2>5. OpsInv' BY <1>1, <2>1, <2>2, SilentOps
  <2> QED BY <1>1, <2>1, <2>2, <2>3, <2>4, <2>5 DEF Control, TypeOK, tables, bounds
<1>7. CASE prior # None /\ prior.fp = Fingerprint(r)
  <2>1. Remembered(t, prior.node, FALSE) /\ UNCHANGED <<maintLock, outcome>>
    BY <1>7 DEF CheckRetry
  <2>2. prior.node \in Nodes BY <1>4, <1>7 DEF MemoType
  <2>3. /\ LockInv' /\ PhaseInv' /\ OpsInv'
        /\ convLock' \in Tasks \cup {None}
        /\ pc' \in [Tasks -> Steps]
        /\ source' \in [Tasks -> [node : Nodes, created : BOOLEAN] \cup {None}]
    <3> HIDE DEF prior, r
    <3> QED BY <1>1, <1>2, <1>5, <2>1, <2>2, RememberedControl
  <2> QED BY <1>1, <2>1, <2>3 DEF Control, TypeOK, tables, bounds
<1>8. CASE prior # None /\ prior.fp # Fingerprint(r)
  <2>1. End(t, "raised") /\ UNCHANGED source BY <1>8 DEF CheckRetry
  <2>2. LockInv' /\ PhaseInv' /\ OpsInv' /\ convLock' \in Tasks \cup {None}
        /\ maintLock' \in [Apps -> Tasks \cup {None}]
        /\ pc' \in [Tasks -> Steps] /\ outcome' \in [Tasks -> Outcomes]
    BY <1>1, <2>1, EndControl DEF Outcomes
  <2> QED BY <1>1, <2>1, <2>2 DEF Control, TypeOK, tables, bounds
<1> QED BY <1>6, <1>7, <1>8

(* A call that hands an append to a thread, or not, and stays in the lock. *)
LEMMA SubmitControl ==
    ASSUME Control, NEW t \in Tasks, NEW role \in {"user", "assistant"},
           NEW n \in Nodes \cup {None}, NEW basis \in Nodes \cup {None},
           Submit(t, role, n, basis), Goto(t, IF role = "user" THEN "store" ELSE "storeReply"),
           UNCHANGED <<source, outcome, attempted, convLock>>,
           IF role = "user"
             THEN pc[t] \in {"active", "route"}
             ELSE pc[t] = "generate" /\ Kind[t] = "answer" /\ n = source[t].node
    PROVE  LockInv' /\ PhaseInv' /\ OpsInv' /\ pc' \in [Tasks -> Steps] /\ ops' \subseteq OpType
<1> DEFINE made == {[owner |-> t, role |-> role, node |-> n, seen |-> basis]}
           step == IF role = "user" THEN "store" ELSE "storeReply"
<1>1. made \in SUBSET OpType BY DEF OpType
<1>2. ops' = ops \cup made BY DEF Submit
<1>3. pc \in [Tasks -> Steps] /\ pc' = [pc EXCEPT ![t] = step] /\ step \in Steps
  BY DEF Control, TypeOK, Goto, Steps
<1>4. PhaseOK(t) BY DEF Control, PhaseInv
<1>5. Kind[t] # "read" BY <1>4 DEF PhaseOK, Early
<1>6. LockInv'
  BY <1>3 DEF Control, LockInv, Holding
<1>7. \A op \in made : /\ op.owner = t /\ Kind[t] # "read"
                       /\ op.role = "user" => step = "store" /\ source[t] = None
                       /\ op.role = "assistant" =>
                            /\ Kind[t] = "answer" /\ step = "storeReply"
                            /\ source[t] # None /\ op.node = source[t].node
  BY <1>4, <1>5 DEF PhaseOK, Early
<1>8. \A op1, op2 \in made : op1 = op2 OBVIOUS
<1>9. PhaseInv'
  <2> SUFFICES ASSUME NEW u \in Tasks PROVE PhaseOK(u)'
    BY DEF PhaseInv
  <2>1. PhaseOK(u) BY DEF Control, PhaseInv
  <2> QED BY <1>3, <1>4, <2>1 DEF PhaseOK, Early
<1>10. Goto(t, step) BY DEF Goto
<1>11. ops' \subseteq OpType BY <1>1, <1>2 DEF Control, TypeOK
<1>12. pc[t] \notin {"store", "storeReply", "done"} OBVIOUS
<1>13. OpsInv'
  <2> HIDE DEF made, step
  <2> QED BY <1>1, <1>2, <1>3, <1>7, <1>8, <1>10, <1>12, StepOps
<1>14. pc' \in [Tasks -> Steps] BY <1>3
<1> QED BY <1>6, <1>9, <1>11, <1>13, <1>14

LEMMA RouteFailsControl ==
    ASSUME Control, NEW t \in Tasks, RouteFails(t)
    PROVE  Control'
<1>1. End(t, "raised") /\ UNCHANGED <<tables, past, seen, source, ops, attempted, bounds>>
  BY DEF RouteFails
<1>2. pc[t] # "start" BY DEF RouteFails
<1>3. LockInv' /\ PhaseInv' /\ OpsInv' /\ convLock' \in Tasks \cup {None}
      /\ maintLock' \in [Apps -> Tasks \cup {None}]
      /\ pc' \in [Tasks -> Steps] /\ outcome' \in [Tasks -> Outcomes]
  BY <1>1, <1>2, EndControl DEF Outcomes
<1> QED BY <1>1, <1>3 DEF Control, TypeOK, tables, bounds

LEMMA GenerateFailsControl ==
    ASSUME Control, NEW t \in Tasks, GenerateFails(t)
    PROVE  Control'
<1>1. End(t, "raised") /\ UNCHANGED <<tables, past, seen, source, ops, attempted, bounds>>
  BY DEF GenerateFails
<1>2. pc[t] # "start" BY DEF GenerateFails
<1>3. LockInv' /\ PhaseInv' /\ OpsInv' /\ convLock' \in Tasks \cup {None}
      /\ maintLock' \in [Apps -> Tasks \cup {None}]
      /\ pc' \in [Tasks -> Steps] /\ outcome' \in [Tasks -> Outcomes]
  BY <1>1, <1>2, EndControl DEF Outcomes
<1> QED BY <1>1, <1>3 DEF Control, TypeOK, tables, bounds

LEMMA ReadActiveControl ==
    ASSUME Control, NEW t \in Tasks, ReadActive(t)
    PROVE  Control'
<1>1. /\ pc[t] = "active" /\ pointer[ConvOf[t]] \in Nodes \cup {None}
      /\ seen' = [seen EXCEPT ![t] = pointer[ConvOf[t]]]
      /\ UNCHANGED <<tables, past, convLock, maintLock, source, attempted, outcome, bounds>>
  BY TasksAssumption DEF ReadActive, Control, TypeOK
<1>2. CASE RoutingMode = "disabled"
  <2>1. Goto(t, "store") /\ Submit(t, "user", pointer[ConvOf[t]], pointer[ConvOf[t]])
    BY <1>2 DEF ReadActive
  <2>2. LockInv' /\ PhaseInv' /\ OpsInv' /\ pc' \in [Tasks -> Steps] /\ ops' \subseteq OpType
    BY <1>1, <2>1, SubmitControl
  <2> QED BY <1>1, <2>2 DEF Control, TypeOK, tables, bounds
<1>3. CASE RoutingMode # "disabled"
  <2>1. Goto(t, "route") /\ UNCHANGED ops BY <1>3 DEF ReadActive
  <2>2. pc \in [Tasks -> Steps] /\ pc' = [pc EXCEPT ![t] = "route"] /\ "route" \in Steps
    BY <2>1 DEF Control, TypeOK, Goto, Steps
  <2>3. PhaseInv'
    <3> SUFFICES ASSUME NEW u \in Tasks PROVE PhaseOK(u)'
      BY DEF PhaseInv
    <3>1. PhaseOK(u) BY DEF Control, PhaseInv
    <3> QED BY <1>1, <2>1, <2>2, <3>1 DEF PhaseOK, Early
  <2>4. LockInv' BY <1>1, <2>2 DEF Control, LockInv, Holding
  <2>5. OpsInv' BY <1>1, <2>1, <2>2, SilentOps
  <2> QED BY <1>1, <2>1, <2>2, <2>3, <2>4, <2>5 DEF Control, TypeOK, tables, bounds
<1> QED BY <1>2, <1>3

LEMMA DecideControl ==
    ASSUME Control, NEW t \in Tasks, Decide(t)
    PROVE  Control'
<1>1. /\ pc[t] = "route" /\ Goto(t, "store") /\ seen[t] \in Nodes \cup {None}
      /\ UNCHANGED <<tables, past, seen, convLock, maintLock, source, attempted, outcome, bounds>>
  BY DEF Decide, Control, TypeOK
<1>2. PICK n \in Nodes \cup {None} : Submit(t, "user", n, seen[t])
  BY DEF Decide, Published
<1>3. LockInv' /\ PhaseInv' /\ OpsInv' /\ pc' \in [Tasks -> Steps] /\ ops' \subseteq OpType
  BY <1>1, <1>2, SubmitControl
<1> QED BY <1>1, <1>3 DEF Control, TypeOK, tables, bounds

LEMMA GenerateTextControl ==
    ASSUME Control, NEW t \in Tasks, Kind[t] = "answer", GenerateText(t)
    PROVE  Control'
<1>1. /\ pc[t] = "generate" /\ Goto(t, "storeReply") /\ seen[t] \in Nodes \cup {None}
      /\ Submit(t, "assistant", source[t].node, seen[t])
      /\ UNCHANGED <<tables, past, seen, convLock, maintLock, source, attempted, outcome, bounds>>
  BY DEF GenerateText, Control, TypeOK
<1>2. source[t] # None BY <1>1 DEF Control, PhaseInv, PhaseOK
<1>3. source[t].node \in Nodes BY <1>2 DEF Control, TypeOK
<1>4. LockInv' /\ PhaseInv' /\ OpsInv' /\ pc' \in [Tasks -> Steps] /\ ops' \subseteq OpType
  BY <1>1, <1>3, SubmitControl
<1> QED BY <1>1, <1>4 DEF Control, TypeOK, tables, bounds

(* After the reply, the call organizes under the lock, or ends.            *)
LEMMA AfterReplyControl ==
    ASSUME Control, NEW t \in Tasks, Kind[t] = "answer", pc[t] = "generate", AfterReply(t),
           UNCHANGED <<tables, past, seen, source, ops, attempted, bounds>>
    PROVE  Control'
<1>1. CASE source[t].created
  <2>1. Goto(t, "maintLock") /\ UNCHANGED <<convLock, maintLock, outcome>>
    BY <1>1 DEF AfterReply
  <2>2. pc \in [Tasks -> Steps] /\ pc' = [pc EXCEPT ![t] = "maintLock"] /\ "maintLock" \in Steps
    BY <2>1 DEF Control, TypeOK, Goto, Steps
  <2>3. PhaseInv'
    <3> SUFFICES ASSUME NEW u \in Tasks PROVE PhaseOK(u)'
      BY DEF PhaseInv
    <3>1. PhaseOK(u) /\ PhaseOK(t) BY DEF Control, PhaseInv
    <3> QED BY <1>1, <2>1, <2>2, <3>1 DEF PhaseOK, Early
  <2>4. LockInv' BY <2>1, <2>2 DEF Control, LockInv, Holding
  <2>5. OpsInv' BY <2>1, <2>2, SilentOps
  <2> QED BY <2>1, <2>2, <2>3, <2>4, <2>5 DEF Control, TypeOK, tables, bounds
<1>2. CASE ~source[t].created
  <2>1. End(t, "returned") BY <1>2 DEF AfterReply
  <2>2. LockInv' /\ PhaseInv' /\ OpsInv' /\ convLock' \in Tasks \cup {None}
        /\ maintLock' \in [Apps -> Tasks \cup {None}]
        /\ pc' \in [Tasks -> Steps] /\ outcome' \in [Tasks -> Outcomes]
    BY <2>1, EndControl DEF Outcomes
  <2> QED BY <2>2 DEF Control, TypeOK, tables, bounds
<1> QED BY <1>1, <1>2

LEMMA StartMaintenanceControl ==
    ASSUME Control, NEW t \in Tasks, StartMaintenance(t)
    PROVE  Control'
<1>1. /\ pc[t] = "maintLock" /\ maintLock' = [maintLock EXCEPT ![AppOf[t]] = t]
      /\ Goto(t, "maintain")
      /\ UNCHANGED <<tables, past, convLock, seen, source, ops, attempted, outcome, bounds>>
  BY DEF StartMaintenance
<1>2. pc \in [Tasks -> Steps] /\ pc' = [pc EXCEPT ![t] = "maintain"] /\ "maintain" \in Steps
  BY <1>1 DEF Control, TypeOK, Goto, Steps
<1>3. PhaseInv'
  <2> SUFFICES ASSUME NEW u \in Tasks PROVE PhaseOK(u)'
    BY DEF PhaseInv
  <2>1. PhaseOK(u) BY DEF Control, PhaseInv
  <2> QED BY <1>1, <1>2, <2>1 DEF PhaseOK, Early
<1>4. LockInv' BY <1>1, <1>2 DEF Control, LockInv, Holding
<1>5. OpsInv' BY <1>1, <1>2, SilentOps
<1>6. maintLock' \in [Apps -> Tasks \cup {None}] BY <1>1 DEF Control, TypeOK
<1> QED BY <1>1, <1>2, <1>3, <1>4, <1>5, <1>6 DEF Control, TypeOK, tables, bounds

LEMMA MaintainControl ==
    ASSUME Control, NEW t \in Tasks, Maintain(t)
    PROVE  Control'
<1>1. /\ pc[t] = "maintain" /\ End(t, "returned")
      /\ attempted' = attempted \cup {source[t].node}
      /\ UNCHANGED <<tables, past, seen, source, ops, bounds>>
  BY DEF Maintain
<1>2. source[t] # None
  <2>1. PhaseOK(t) BY DEF Control, PhaseInv
  <2> QED BY <1>1, <2>1 DEF PhaseOK
<1>3. attempted' \subseteq Nodes BY <1>1, <1>2 DEF Control, TypeOK
<1>4. LockInv' /\ PhaseInv' /\ OpsInv' /\ convLock' \in Tasks \cup {None}
      /\ maintLock' \in [Apps -> Tasks \cup {None}]
      /\ pc' \in [Tasks -> Steps] /\ outcome' \in [Tasks -> Outcomes]
  BY <1>1, <1>2, EndControl DEF Outcomes
<1> QED BY <1>1, <1>3, <1>4 DEF Control, TypeOK, tables, bounds

LEMMA StartReadControl ==
    ASSUME Control, NEW t \in Tasks, StartRead(t)
    PROVE  Control'
<1>1. /\ pc[t] = "start" /\ Kind[t] = "read" /\ pointer[ConvOf[t]] \in Nodes \cup {None}
      /\ seen' = [seen EXCEPT ![t] = pointer[ConvOf[t]]]
      /\ Goto(t, "generate")
      /\ UNCHANGED <<tables, past, convLock, maintLock, source, ops, attempted, outcome, bounds>>
  BY TasksAssumption DEF StartRead, Control, TypeOK
<1>2. pc \in [Tasks -> Steps] /\ pc' = [pc EXCEPT ![t] = "generate"] /\ "generate" \in Steps
  BY <1>1 DEF Control, TypeOK, Goto, Steps
<1>3. PhaseInv'
  <2> SUFFICES ASSUME NEW u \in Tasks PROVE PhaseOK(u)'
    BY DEF PhaseInv
  <2>1. PhaseOK(u) BY DEF Control, PhaseInv
  <2> QED BY <1>1, <1>2, <2>1 DEF PhaseOK, Early
<1>4. LockInv' BY <1>1, <1>2 DEF Control, LockInv, Holding
<1>5. OpsInv' BY <1>1, <1>2, SilentOps
<1> QED BY <1>1, <1>2, <1>3, <1>4, <1>5 DEF Control, TypeOK, tables, bounds

LEMMA EndReadControl ==
    ASSUME Control, NEW t \in Tasks, EndRead(t)
    PROVE  Control'
<1>1. /\ pc[t] = "generate" /\ Kind[t] = "read"
      /\ UNCHANGED <<tables, past, seen, source, ops, attempted, bounds>>
  BY DEF EndRead
<1>2. PICK how \in {"returned", "raised"} : End(t, how) BY DEF EndRead
<1>3. LockInv' /\ PhaseInv' /\ OpsInv' /\ convLock' \in Tasks \cup {None}
      /\ maintLock' \in [Apps -> Tasks \cup {None}]
      /\ pc' \in [Tasks -> Steps] /\ outcome' \in [Tasks -> Outcomes]
  BY <1>1, <1>2, EndControl DEF Outcomes
<1> QED BY <1>1, <1>3 DEF Control, TypeOK, tables, bounds

LEMMA AbandonControl ==
    ASSUME Control, NEW t \in Tasks, Abandon(t)
    PROVE  Control'
<1>1. /\ pc[t] # "start" /\ End(t, "abandoned") /\ abandoned' = abandoned + 1
      /\ ops' \subseteq ops
      /\ UNCHANGED <<tables, past, seen, source, attempted, trouble>>
  BY DEF Abandon
<1>2. LockInv' /\ PhaseInv' /\ OpsInv' /\ convLock' \in Tasks \cup {None}
      /\ maintLock' \in [Apps -> Tasks \cup {None}]
      /\ pc' \in [Tasks -> Steps] /\ outcome' \in [Tasks -> Outcomes]
  BY <1>1, EndControl DEF Outcomes
<1> QED BY <1>1, <1>2 DEF Control, TypeOK, tables

LEMMA StorageFailsControl ==
    ASSUME Control, NEW op \in ops, StorageFails(op)
    PROVE  Control'
<1>1. /\ trouble' = trouble + 1 /\ ops' = ops \ {op}
      /\ UNCHANGED <<tables, past, seen, source, attempted, abandoned>>
  BY DEF StorageFails
<1>2. CASE Awaited(op)
  <2>1. End(op.owner, "raised") /\ op.owner \in Tasks /\ pc[op.owner] # "start"
    BY <1>2 DEF StorageFails, Awaited, Control, TypeOK, OpType
  <2>2. LockInv' /\ PhaseInv' /\ OpsInv' /\ convLock' \in Tasks \cup {None}
        /\ maintLock' \in [Apps -> Tasks \cup {None}]
        /\ pc' \in [Tasks -> Steps] /\ outcome' \in [Tasks -> Outcomes]
    BY <1>1, <2>1, EndControl DEF Outcomes
  <2> QED BY <1>1, <2>2 DEF Control, TypeOK, tables
<1>3. CASE ~Awaited(op)
  <2>1. UNCHANGED <<pc, outcome, convLock, maintLock>> BY <1>3 DEF StorageFails
  <2>2. LockInv' BY <2>1 DEF Control, LockInv, Holding
  <2>3. PhaseInv' BY <1>1, <2>1 DEF Control, PhaseInv, PhaseOK
  <2>4. OpsInv' BY <1>1, <2>1 DEF Control, OpsInv, OpOK
  <2> QED BY <1>1, <2>1, <2>2, <2>3, <2>4 DEF Control, TypeOK, tables
<1> QED BY <1>2, <1>3

LEMMA CrashControl ==
    ASSUME Control, Crash
    PROVE  Control'
<1>1. /\ trouble' = trouble + 1 /\ convLock' = None /\ ops' = {}
      /\ maintLock' = [a \in Apps |-> None]
      /\ UNCHANGED <<tables, past, seen, source, attempted, abandoned>>
  BY DEF Crash
<1>2. /\ pc' = [t \in Tasks |-> IF pc[t] = "start" THEN "start" ELSE "done"]
      /\ outcome' = [t \in Tasks |->
                       IF pc[t] \in {"start", "done"} THEN outcome[t] ELSE "died"]
  BY DEF Crash
<1>3. LockInv' BY <1>1, <1>2, TasksAssumption DEF LockInv, Holding
<1>4. PhaseInv'
  <2> SUFFICES ASSUME NEW u \in Tasks PROVE PhaseOK(u)'
    BY DEF PhaseInv
  <2>1. PhaseOK(u) BY DEF Control, PhaseInv
  <2> QED BY <1>1, <1>2, <2>1 DEF PhaseOK, Early
<1>5. OpsInv' BY <1>1 DEF OpsInv
<1>6. pc' \in [Tasks -> Steps] /\ outcome' \in [Tasks -> Outcomes]
  BY <1>2 DEF Control, TypeOK, Steps, Outcomes
<1> QED BY <1>1, <1>3, <1>4, <1>5, <1>6 DEF Control, TypeOK, tables

LEMMA RepeatControl ==
    ASSUME Control, NEW op \in ops, Repeat(op)
    PROVE  Control'
<1> DEFINE r == Request(op)
           prior == memo[Slot(r)]
<1>1. /\ r.key # None /\ prior # None /\ ops' = ops \ {op}
      /\ UNCHANGED <<tables, past, seen, attempted, bounds>>
  BY DEF Repeat
<1>2. prior.node \in Nodes
  <2>1. op \in OpType BY DEF Control, TypeOK
  <2>2. r.key \in Keys BY <1>1, <2>1, RequestFields, TasksAssumption DEF OpType
  <2>3. Slot(r) \in Slots BY <2>1, <2>2, RequestFields DEF Slots, Ops
  <2>4. prior \in MemoType BY <1>1, <2>3 DEF Control, TypeOK
  <2> QED BY <2>4 DEF MemoType
<1>3. CASE prior.fp = Fingerprint(r)
  <2>1. Resume(op, prior.node, FALSE) BY <1>3 DEF Repeat
  <2> HIDE DEF prior, r
  <2> QED BY <1>1, <1>2, <2>1, ResumeControl DEF Control, TypeOK, tables, bounds
<1>4. CASE prior.fp # Fingerprint(r) /\ Awaited(op)
  <2>1. End(op.owner, "raised") /\ UNCHANGED source /\ op.owner \in Tasks
        /\ pc[op.owner] # "start"
    BY <1>4 DEF Repeat, Awaited, Control, TypeOK, OpType
  <2>2. LockInv' /\ PhaseInv' /\ OpsInv' /\ convLock' \in Tasks \cup {None}
        /\ maintLock' \in [Apps -> Tasks \cup {None}]
        /\ pc' \in [Tasks -> Steps] /\ outcome' \in [Tasks -> Outcomes]
    BY <1>1, <2>1, EndControl DEF Outcomes
  <2> QED BY <1>1, <2>1, <2>2 DEF Control, TypeOK, tables, bounds
<1>5. CASE prior.fp # Fingerprint(r) /\ ~Awaited(op)
  <2>1. UNCHANGED <<pc, source, convLock, maintLock, outcome>> BY <1>5 DEF Repeat
  <2>2. LockInv' BY <2>1 DEF Control, LockInv, Holding
  <2>3. PhaseInv' BY <1>1, <2>1 DEF Control, PhaseInv, PhaseOK
  <2>4. OpsInv' BY <1>1, <2>1 DEF Control, OpsInv, OpOK
  <2> QED BY <1>1, <2>1, <2>2, <2>3, <2>4 DEF Control, TypeOK, tables, bounds
<1> QED BY <1>3, <1>4, <1>5

LEMMA AttachControl ==
    ASSUME Control, NEW op \in ops, NEW n \in Nodes, Attach(op, n)
    PROVE  Control'
<1>1. TypeOK BY DEF Control
<1>2. /\ ops' = ops \ {op} /\ Resume(op, n, op.node = None)
      /\ UNCHANGED <<seen, attempted, bounds>>
  BY DEF Attach
<1>3. /\ LockInv' /\ PhaseInv' /\ OpsInv'
      /\ convLock' \in Tasks \cup {None}
      /\ maintLock' \in [Apps -> Tasks \cup {None}]
      /\ pc' \in [Tasks -> Steps] /\ outcome' \in [Tasks -> Outcomes]
      /\ source' \in [Tasks -> [node : Nodes, created : BOOLEAN] \cup {None}]
  <2>1. (op.node = None) \in BOOLEAN OBVIOUS
  <2> QED BY <1>2, <2>1, ResumeControl
<1>4. /\ turns' = Append(turns, Row(op, n, turns)) /\ past' = Append(past, Entry(op))
      /\ Row(op, n, turns) \in TurnType
      /\ Entry(op) \in [owner : Tasks, role : {"user", "assistant"}, seen : Nodes \cup {None}]
      /\ pointer' = [pointer EXCEPT ![ConvOf[op.owner]] = n]
      /\ sources' \in [Nodes -> Contents \cup {None}]
  BY <1>1, AttachStores
<1>5. turns' \in Seq(TurnType)
  <2>1. turns \in Seq(TurnType) BY <1>1 DEF TypeOK
  <2> QED BY <1>4, <2>1, AppendProperties
<1>6. past' \in Seq([owner : Tasks, role : {"user", "assistant"}, seen : Nodes \cup {None}])
  <2>1. past \in Seq([owner : Tasks, role : {"user", "assistant"}, seen : Nodes \cup {None}])
    BY <1>1 DEF TypeOK
  <2> QED BY <1>4, <2>1, AppendProperties
<1>7. pointer' \in [Conversations -> Nodes \cup {None}]
  <2>1. pointer \in [Conversations -> Nodes \cup {None}] BY <1>1 DEF TypeOK
  <2> QED BY <1>4, <2>1
<1>8. memo' \in [Slots -> MemoType \cup {None}] BY <1>1, AttachRecords
<1> QED BY <1>1, <1>2, <1>3, <1>4, <1>5, <1>6, <1>7, <1>8 DEF Control, TypeOK, bounds

LEMMA ControlStep ==
    ASSUME Control, [Next]_vars
    PROVE  Control'
<1>1. ASSUME NEW t \in Tasks, Call(t) PROVE Control'
  <2>1. CASE Kind[t] = "answer" /\ GenerateNothing(t)
    BY <2>1, AfterReplyControl DEF GenerateNothing
  <2> QED BY <1>1, <2>1, EnterControl, CheckRetryControl, ReadActiveControl, DecideControl,
             RouteFailsControl, GenerateTextControl, GenerateFailsControl,
             StartMaintenanceControl, MaintainControl, StartReadControl, EndReadControl
          DEF Call
<1>2. ASSUME NEW t \in Tasks, Abandon(t) PROVE Control' BY <1>2, AbandonControl
<1>3. ASSUME NEW op \in ops, Repeat(op) PROVE Control' BY <1>3, RepeatControl
<1>4. ASSUME NEW op \in ops, NEW n \in Nodes, Attach(op, n) PROVE Control'
  BY <1>4, AttachControl
<1>5. ASSUME NEW op \in ops, StorageFails(op) PROVE Control' BY <1>5, StorageFailsControl
<1>6. CASE Crash BY <1>6, CrashControl
<1>7. CASE UNCHANGED vars
  <2>1. TypeOK' BY <1>7 DEF Control, TypeOK, vars, tables
  <2>2. LockInv' BY <1>7 DEF Control, LockInv, Holding, vars
  <2>3. PhaseInv' BY <1>7 DEF Control, PhaseInv, PhaseOK, vars
  <2>4. OpsInv' BY <1>7 DEF Control, OpsInv, OpOK, vars
  <2> QED BY <2>1, <2>2, <2>3, <2>4 DEF Control
<1> QED BY <1>1, <1>2, <1>3, <1>4, <1>5, <1>6, <1>7 DEF Next, Thread

-----------------------------------------------------------------------------
(* No call goes back to before its _remember, or before its reply.         *)
Forward ==
    \A t \in Tasks : /\ pc[t] \notin Early => pc'[t] \notin Early
                     /\ pc[t] \notin Replying => pc'[t] \notin Replying

LEMMA GotoForward ==
    ASSUME Control, NEW t \in Tasks, NEW step, Goto(t, step),
           pc[t] \in Early \/ step \notin Early,
           pc[t] \in Replying \/ step \notin Replying
    PROVE  Forward
<1>1. pc' = [pc EXCEPT ![t] = step] /\ pc \in [Tasks -> Steps]
  BY DEF Goto, Control, TypeOK
<1> QED BY <1>1 DEF Forward

LEMMA EndForward ==
    ASSUME Control, NEW t \in Tasks, NEW how, End(t, how)
    PROVE  Forward
<1>1. pc' = [pc EXCEPT ![t] = "done"] /\ pc \in [Tasks -> Steps]
  BY DEF End, Goto, Control, TypeOK
<1> QED BY <1>1 DEF Forward, Early, Replying

LEMMA CallForward ==
    ASSUME Control, NEW t \in Tasks, Call(t) \/ Abandon(t)
    PROVE  Forward /\ UNCHANGED <<tables, past>>
<1>0. Early \subseteq Replying /\ {"start", "check", "active", "route"} \subseteq Early
      /\ "generate" \in Replying /\ "generate" \notin Early /\ "storeReply" \notin Early
      /\ "maintLock" \notin Replying /\ "maintain" \notin Replying
  BY DEF Early, Replying
<1>1. CASE Enter(t)
  <2>1. Goto(t, IF KeyOf[t] = None THEN "active" ELSE "check") /\ pc[t] \in Early
    BY <1>0, <1>1 DEF Enter
  <2> QED BY <1>0, <1>1, <2>1, GotoForward DEF Enter
<1>2. CASE CheckRetry(t)
  <2>1. pc[t] \in Early /\ UNCHANGED <<tables, past>> BY <1>0, <1>2 DEF CheckRetry
  <2>2. PICK step : Goto(t, step)
    BY <1>2 DEF CheckRetry, Remembered, End
  <2> QED BY <1>0, <2>1, <2>2, GotoForward
<1>3. CASE ReadActive(t)
  <2>1. PICK step : Goto(t, step) BY <1>3 DEF ReadActive
  <2>2. pc[t] \in Early BY <1>0, <1>3 DEF ReadActive
  <2> QED BY <1>0, <1>3, <2>1, <2>2, GotoForward DEF ReadActive
<1>4. CASE Decide(t)
  <2>1. Goto(t, "store") /\ pc[t] \in Early BY <1>0, <1>4 DEF Decide
  <2> QED BY <1>0, <1>4, <2>1, GotoForward DEF Decide
<1>5. CASE RouteFails(t) BY <1>5, EndForward DEF RouteFails
<1>6. CASE GenerateText(t)
  <2>1. Goto(t, "storeReply") /\ pc[t] = "generate" BY <1>6 DEF GenerateText
  <2> QED BY <1>0, <1>6, <2>1, GotoForward DEF GenerateText
<1>7. CASE GenerateNothing(t)
  <2>1. Goto(t, "maintLock") \/ End(t, "returned") BY <1>7 DEF GenerateNothing, AfterReply
  <2>2. CASE Goto(t, "maintLock")
    <3>1. Forward BY <1>0, <2>2, GotoForward
    <3> QED BY <1>7, <3>1 DEF GenerateNothing
  <2>3. CASE End(t, "returned")
    <3>1. Forward BY <2>3, EndForward
    <3> QED BY <1>7, <3>1 DEF GenerateNothing
  <2> QED BY <2>1, <2>2, <2>3
<1>8. CASE GenerateFails(t) BY <1>8, EndForward DEF GenerateFails
<1>9. CASE StartMaintenance(t)
  <2>1. Goto(t, "maintain") BY <1>9 DEF StartMaintenance
  <2> QED BY <1>0, <1>9, <2>1, GotoForward DEF StartMaintenance
<1>10. CASE Maintain(t) BY <1>10, EndForward DEF Maintain
<1>11. CASE StartRead(t)
  <2>1. Goto(t, "generate") /\ pc[t] \in Early BY <1>0, <1>11 DEF StartRead
  <2> QED BY <1>0, <1>11, <2>1, GotoForward DEF StartRead
<1>12. CASE EndRead(t) BY <1>12, EndForward DEF EndRead
<1>13. CASE Abandon(t) BY <1>13, EndForward DEF Abandon
<1> QED BY <1>1, <1>2, <1>3, <1>4, <1>5, <1>6, <1>7, <1>8, <1>9, <1>10, <1>11, <1>12, <1>13
        DEF Call

LEMMA ResumeForward ==
    ASSUME Control, NEW op \in ops, NEW n, NEW created, Resume(op, n, created)
    PROVE  Forward
<1>1. op.owner \in Tasks /\ OpOK(op) /\ op.role \in {"user", "assistant"}
  BY DEF Control, OpsInv, TypeOK, OpType
<1>2. CASE ~Awaited(op) BY <1>2 DEF Resume, Forward
<1>3. CASE Awaited(op) /\ op.role = "user"
  <2>1. pc[op.owner] = "store" BY <1>3 DEF Awaited
  <2>2. Goto(op.owner, IF Kind[op.owner] = "answer" THEN "generate" ELSE "maintLock")
    BY <1>3 DEF Resume, Remembered
  <2>3. pc[op.owner] \in Early /\ pc[op.owner] \in Replying BY <2>1 DEF Replying, Early
  <2> QED BY <1>1, <2>2, <2>3, GotoForward
<1>4. CASE Awaited(op) /\ op.role = "assistant"
  <2>1. Goto(op.owner, "maintLock") \/ End(op.owner, "returned")
    BY <1>4 DEF Resume, AfterReply
  <2>2. "maintLock" \notin Replying /\ "maintLock" \notin Early BY DEF Replying, Early
  <2>3. CASE Goto(op.owner, "maintLock") BY <1>1, <2>2, <2>3, GotoForward
  <2>4. CASE End(op.owner, "returned") BY <1>1, <2>4, EndForward
  <2> QED BY <2>1, <2>3, <2>4
<1> QED BY <1>1, <1>2, <1>3, <1>4

-----------------------------------------------------------------------------
(* A step that stores nothing leaves what is known of the tables.          *)
LEMMA QuietTables ==
    ASSUME Tables, Forward, UNCHANGED <<tables, past>>,
           \A op \in ops' : op \in ops \/ \A i \in Places : ~ Own(i, op.owner, op.role)
    PROVE  Tables'
<1>1. UNCHANGED <<turns, past, pointer, memo>> BY DEF tables
<1>2. TurnsInv'
  <2>1. Places' = Places BY <1>1 DEF Places
  <2>2. \A i, t, role : Own(i, t, role)' <=> Own(i, t, role)
    BY <1>1, <2>1 DEF Own
  <2>3. \A op \in ops', i \in Places : ~ Own(i, op.owner, op.role) BY DEF Tables, TurnsInv
  <2> QED BY <1>1, <2>1, <2>2, <2>3 DEF Tables, TurnsInv, Own, Forward
<1>3. MemoInv'
  <2>1. Places' = Places BY <1>1 DEF Places
  <2>2. \A i, t, role : Own(i, t, role)' <=> Own(i, t, role)
    BY <1>1, <2>1 DEF Own
  <2>3. \A k \in Keys : RowOf(k)' = RowOf(k) BY <1>1 DEF RowOf
  <2> QED BY <1>1, <2>1, <2>2, <2>3 DEF Tables, MemoInv
<1>4. KeyedOnce' BY <1>1 DEF Tables, KeyedOnce
<1>5. PointerIsLatest' BY <1>1 DEF Tables, PointerIsLatest
<1> QED BY <1>2, <1>3, <1>4, <1>5 DEF Tables

(* Where a committed append puts its turn.                                 *)
LEMMA AttachPlaces ==
    ASSUME Control, Tables, NEW op \in ops, NEW n \in Nodes, Attach(op, n),
           NEW new, new = Len(turns) + 1
    PROVE  /\ new \in Nat /\ new \notin Places /\ Places' = Places \cup {new}
           /\ \A i \in Places : i \in Nat /\ i < new
           /\ Len(past') = Len(turns') /\ Places' = 1 .. Len(turns') /\ Places = 1 .. Len(turns)
           /\ Places' = 1 .. new
           /\ \A i \in Places : turns'[i] = turns[i] /\ past'[i] = past[i]
           /\ turns'[new].node = n /\ turns'[new].text = TextOf(op)
           /\ past'[new].owner = op.owner /\ past'[new].role = op.role /\ past'[new].seen = op.seen
           /\ \A i \in Places : \A t, role : Own(i, t, role)' <=> Own(i, t, role)
           /\ \A t, role : Own(new, t, role)' <=> (t = op.owner /\ role = op.role)
<1>1. TypeOK BY DEF Control
<1> DEFINE PT == [owner : Tasks, role : {"user", "assistant"}, seen : Nodes \cup {None}]
           row == Row(op, n, turns)
           entry == Entry(op)
<1>2. turns \in Seq(TurnType) /\ past \in Seq(PT) /\ Len(past) = Len(turns) /\ Len(turns) \in Nat
  <2>1. turns \in Seq(TurnType) /\ past \in Seq(PT) BY <1>1 DEF TypeOK
  <2>2. Len(turns) \in Nat BY <2>1, LenProperties
  <2> QED BY <2>1, <2>2 DEF Tables, TurnsInv
<1>3. turns' = Append(turns, row) /\ past' = Append(past, entry) /\ row \in TurnType /\ entry \in PT
  BY <1>1, AttachStores
<1>4. row.node = n /\ row.text = TextOf(op) BY DEF Row
<1>5. entry.owner = op.owner /\ entry.role = op.role /\ entry.seen = op.seen BY DEF Entry
<1> HIDE DEF PT, row, entry
<1>6. /\ Len(turns') = new /\ turns'[new] = row /\ \A i \in 1 .. Len(turns) : turns'[i] = turns[i]
  BY <1>2, <1>3, AppendOne
<1>7. /\ Len(past') = new /\ past'[new] = entry /\ \A i \in 1 .. Len(turns) : past'[i] = past[i]
  BY <1>2, <1>3, AppendOne
<1>8. /\ new \in Nat /\ new \notin Places /\ Places' = Places \cup {new}
      /\ \A i \in Places : i \in Nat /\ i < new
      /\ Places' = 1 .. Len(turns') /\ Places = 1 .. Len(turns) /\ Places' = 1 .. new
  BY <1>2, <1>6 DEF Places
<1>9. \A i \in Places : turns'[i] = turns[i] /\ past'[i] = past[i] BY <1>6, <1>7 DEF Places
<1>10. \A i \in Places : \A t, role : Own(i, t, role)' <=> Own(i, t, role)
  BY <1>8, <1>9 DEF Own
<1>11. \A t, role : Own(new, t, role)' <=> (t = op.owner /\ role = op.role)
  BY <1>5, <1>7, <1>8 DEF Own
<1> QED BY <1>4, <1>5, <1>6, <1>7, <1>8, <1>9, <1>10, <1>11

(* After its append, a call has gone on.                                   *)
LEMMA ResumedFrom ==
    ASSUME Control, NEW op \in ops, NEW n, NEW created, Resume(op, n, created)
    PROVE  /\ op.role = "user" => pc'[op.owner] \notin Early
           /\ op.role = "assistant" => pc'[op.owner] \notin Replying
<1>1. op.owner \in Tasks /\ OpOK(op) /\ op.role \in {"user", "assistant"} /\ pc \in [Tasks -> Steps]
  BY DEF Control, OpsInv, TypeOK, OpType
<1>2. CASE ~Awaited(op)
  BY <1>1, <1>2 DEF Resume, Awaited, OpOK, Early, Replying
<1>3. CASE Awaited(op)
  BY <1>1, <1>3 DEF Resume, Remembered, AfterReply, End, Goto, Early, Replying
<1> QED BY <1>2, <1>3

LEMMA AttachTables ==
    ASSUME Control, Tables, SourcesInv, NEW op \in ops, NEW n \in Nodes, Attach(op, n), Control'
    PROVE  Tables'
<1> SUFFICES ASSUME NEW new, new = Len(turns) + 1, NEW k, k = Request(op).key
             PROVE  Tables'
  OBVIOUS
<1>1. /\ new \notin Places /\ Places' = Places \cup {new} /\ Places' = 1 .. new
      /\ \A i \in Places : i \in Nat /\ i < new
      /\ Places = 1 .. Len(turns) /\ Places' = 1 .. Len(turns') /\ new \in Nat
      /\ Len(past') = Len(turns')
      /\ \A i \in Places : turns'[i] = turns[i] /\ past'[i] = past[i]
      /\ turns'[new].node = n /\ turns'[new].text = TextOf(op)
      /\ past'[new].owner = op.owner /\ past'[new].role = op.role
      /\ \A i \in Places : \A t, role : Own(i, t, role)' <=> Own(i, t, role)
      /\ \A t, role : Own(new, t, role)' <=> (t = op.owner /\ role = op.role)
  BY AttachPlaces
<1>2. /\ op \in OpType /\ op.owner \in Tasks /\ op.role \in {"user", "assistant"} /\ OpOK(op)
  BY DEF Control, TypeOK, OpType, OpsInv
<1>3. /\ k = None => memo' = memo
      /\ k # None => /\ k \in Keys /\ op.role = "user" /\ KeyOf[op.owner] = k
                     /\ memo[<<"append", k>>] = None
                     /\ memo' = [memo EXCEPT ![<<"append", k>>] =
                                   [fp |-> Fingerprint(Request(op)), node |-> n]]
                     /\ <<"append", k>> \in Slots
  BY AttachRecords DEF Control
<1>4. /\ Fingerprint(Request(op)) = <<ConvOf[op.owner], Base, <<TextOf(op)>>>>
      /\ k = IF op.role = "user" THEN KeyOf[op.owner] ELSE None
  BY <1>2, RequestFields
<1>5. /\ op.node # None => n = op.node
      /\ pointer' = [pointer EXCEPT ![ConvOf[op.owner]] = n]
  BY AttachStores DEF Control
<1>6. /\ ops' = ops \ {op} /\ Resume(op, n, op.node = None) BY DEF Attach
<1>7. Forward BY <1>6, ResumeForward
<1>14. op.role = "user" => pc'[op.owner] \notin Early
  BY <1>2, <1>6, ResumedFrom DEF OpOK
<1>15. op.role = "assistant" => pc'[op.owner] \notin Replying
  BY <1>2, <1>6, ResumedFrom DEF OpOK
<1>8. memo \in [Slots -> MemoType \cup {None}] /\ pointer \in [Conversations -> Nodes \cup {None}]
  BY DEF Control, TypeOK
<1>9. TurnsInv BY DEF Tables
<1>10. TurnsInv'
  <2>1. \A o \in ops', i \in Places' : ~ Own(i, o.owner, o.role)'
    <3> SUFFICES ASSUME NEW o \in ops', NEW i \in Places', Own(i, o.owner, o.role)' PROVE FALSE
      OBVIOUS
    <3>1. o \in ops /\ o # op BY <1>6
    <3>2. CASE i \in Places
      <4>1. Own(i, o.owner, o.role) BY <1>1, <3>2
      <4> QED BY <1>9, <3>1, <3>2, <4>1 DEF TurnsInv
    <3>3. CASE i = new
      <4>1. o.owner = op.owner /\ o.role = op.role BY <1>1, <3>3
      <4> QED BY <1>2, <3>1, <4>1 DEF OpOK
    <3> QED BY <1>1, <3>2, <3>3
  <2>2. \A i, j \in Places' : past'[i].owner = past'[j].owner /\ past'[i].role = past'[j].role => i = j
    <3>1. \A i \in Places : ~ (past[i].owner = op.owner /\ past[i].role = op.role)
      BY <1>9 DEF TurnsInv, Own
    <3> QED BY <1>1, <1>9, <3>1 DEF TurnsInv
  <2>3. \A t \in Tasks, i \in Places' : Own(i, t, "user")' =>
          turns'[i].text = UserText[t] /\ pc'[t] \notin Early
    <3> SUFFICES ASSUME NEW t \in Tasks, NEW i \in Places', Own(i, t, "user")'
                 PROVE  turns'[i].text = UserText[t] /\ pc'[t] \notin Early
      OBVIOUS
    <3>1. CASE i \in Places
      <4>1. Own(i, t, "user") /\ turns'[i] = turns[i] BY <1>1, <3>1
      <4> QED BY <1>7, <1>9, <3>1, <4>1 DEF TurnsInv, Forward
    <3>2. CASE i = new
      <4>1. t = op.owner /\ op.role = "user" BY <1>1, <3>2
      <4>2. pc'[t] \notin Early BY <1>14, <4>1
      <4> QED BY <1>1, <3>2, <4>1, <4>2 DEF TextOf
    <3> QED BY <1>1, <3>1, <3>2
  <2>4. \A t \in Tasks, i \in Places' : Own(i, t, "assistant")' =>
          /\ pc'[t] \notin Replying
          /\ \E j \in 1 .. i - 1 : Own(j, t, "user")' /\ turns'[j].node = turns'[i].node
    <3> SUFFICES ASSUME NEW t \in Tasks, NEW i \in Places', Own(i, t, "assistant")'
                 PROVE  /\ pc'[t] \notin Replying
                        /\ \E j \in 1 .. i - 1 : Own(j, t, "user")' /\ turns'[j].node = turns'[i].node
      OBVIOUS
    <3>1. CASE i \in Places
      <4>1. Own(i, t, "assistant") /\ turns'[i] = turns[i] /\ i \in Nat BY <1>1, <3>1
      <4>2. pc'[t] \notin Replying BY <1>7, <1>9, <3>1, <4>1 DEF TurnsInv, Forward
      <4>3. PICK j \in 1 .. i - 1 : Own(j, t, "user") /\ turns[j].node = turns[i].node
        BY <1>9, <3>1, <4>1 DEF TurnsInv
      <4>4. j \in Places BY <4>3 DEF Own
      <4>5. Own(j, t, "user")' /\ turns'[j] = turns[j] BY <1>1, <4>3, <4>4
      <4> QED BY <4>1, <4>2, <4>3, <4>5
    <3>2. CASE i = new
      <4>1. t = op.owner /\ op.role = "assistant" BY <1>1, <3>2
      <4>2. Kind[t] = "answer" /\ source[t] # None /\ op.node = source[t].node
        BY <1>2, <4>1 DEF OpOK
      <4>3. PICK j \in Places : Own(j, t, "user") /\ turns[j].node = source[t].node
        BY <4>2 DEF SourcesInv
      <4>4. source[t].node \in Nodes BY <4>2 DEF Control, TypeOK
      <4>5. turns'[new].node = source[t].node
        BY <1>1, <1>5, <4>2, <4>4, NoneAssumption
      <4>6. Own(j, t, "user")' /\ turns'[j] = turns[j] /\ j \in 1 .. new - 1
        BY <1>1, <4>3
      <4>7. pc'[t] \notin Replying BY <1>15, <4>1
      <4> QED BY <3>2, <4>3, <4>5, <4>6, <4>7
    <3> QED BY <1>1, <3>1, <3>2
  <2> QED BY <1>1, <2>1, <2>2, <2>3, <2>4 DEF TurnsInv
<1>11. MemoInv'
  <2> SUFFICES ASSUME NEW kk \in Keys
               PROVE  /\ memo'[<<"append", kk>>] = None =>
                           \A t \in Tasks, i \in Places' : KeyOf[t] = kk => ~ Own(i, t, "user")'
                      /\ memo'[<<"append", kk>>] # None =>
                           \E i \in Places' :
                             /\ turns'[i].node = memo'[<<"append", kk>>].node
                             /\ memo'[<<"append", kk>>].fp[3] = <<turns'[i].text>>
    BY DEF MemoInv, RowOf
  <2>1. <<"append", kk>> \in Slots /\ kk # None BY NoneAssumption DEF Slots, Ops
  <2>2. CASE k = kk
    <3>1. memo'[<<"append", kk>>] = [fp |-> Fingerprint(Request(op)), node |-> n]
      BY <1>3, <1>8, <2>1, <2>2
    <3>2. memo'[<<"append", kk>>] # None
      <4>1. [fp |-> Fingerprint(Request(op)), node |-> n] \in MemoType
        BY <1>2, RequestFields DEF MemoType
      <4> QED BY <3>1, <4>1, MemoAssumption
    <3>3. memo'[<<"append", kk>>].node = n /\ memo'[<<"append", kk>>].fp[3] = <<TextOf(op)>>
      BY <1>4, <3>1
    <3> QED BY <1>1, <3>2, <3>3
  <2>3. CASE k # kk
    <3>1. memo'[<<"append", kk>>] = memo[<<"append", kk>>]
      BY <1>3, <1>8, <2>1, <2>3
    <3>2. ASSUME memo[<<"append", kk>>] = None, NEW t \in Tasks, NEW i \in Places',
                 KeyOf[t] = kk, Own(i, t, "user")'
          PROVE FALSE
      <4>1. \A j \in Places : ~ Own(j, t, "user") BY <3>2 DEF Tables, MemoInv, RowOf
      <4>2. i = new /\ t = op.owner /\ op.role = "user" BY <1>1, <3>2, <4>1
      <4> QED BY <1>4, <2>3, <3>2, <4>2
    <3>3. ASSUME memo[<<"append", kk>>] # None
          PROVE  \E i \in Places' : /\ turns'[i].node = memo[<<"append", kk>>].node
                                     /\ memo[<<"append", kk>>].fp[3] = <<turns'[i].text>>
      <4>1. PICK i \in Places : /\ turns[i].node = memo[<<"append", kk>>].node
                                /\ memo[<<"append", kk>>].fp[3] = <<turns[i].text>>
        BY <3>3 DEF Tables, MemoInv, RowOf
      <4> QED BY <1>1, <4>1
    <3> QED BY <3>1, <3>2, <3>3
  <2> QED BY <2>2, <2>3
<1>12. KeyedOnce'
  <2>1. KeyedOnce BY DEF Tables
  <2>2. ASSUME op.role = "user", KeyOf[op.owner] # None, NEW i \in Places,
               past[i].role = "user", KeyOf[past[i].owner] = KeyOf[op.owner]
        PROVE  FALSE
    <3>1. k = KeyOf[op.owner] /\ k \in Keys BY <1>3, <1>4, <2>2
    <3>2. RowOf(k) = None BY <1>3, <2>2, <3>1 DEF RowOf
    <3>3. past[i].owner \in Tasks
      <4>1. past \in Seq([owner : Tasks, role : {"user", "assistant"}, seen : Nodes \cup {None}])
        BY DEF Control, TypeOK
      <4>2. i \in 1 .. Len(past) BY <1>1, <1>9, <2>2 DEF TurnsInv
      <4>3. past[i] \in [owner : Tasks, role : {"user", "assistant"}, seen : Nodes \cup {None}]
        BY <4>1, <4>2, ElementOfSeq
      <4> QED BY <4>3
    <3>4. Own(i, past[i].owner, "user") BY <2>2 DEF Own
    <3> QED BY <2>2, <3>1, <3>2, <3>3, <3>4 DEF Tables, MemoInv
  <2> QED BY <1>1, <2>1, <2>2 DEF KeyedOnce
<1>13. PointerIsLatest'
  <2>1. PointerIsLatest BY DEF Tables
  <2> SUFFICES ASSUME NEW v \in Conversations
               PROVE  LET mine1 == {i \in Places' : ConvOf[past'[i].owner] = v}
                      IN  IF mine1 = {}
                            THEN pointer'[v] = None
                            ELSE \E i \in mine1 : (\A j \in mine1 : j <= i) /\ pointer'[v] = turns'[i].node
    BY <1>1 DEF PointerIsLatest
  <2> SUFFICES ASSUME NEW mine, mine = {i \in Places : ConvOf[past[i].owner] = v},
                      NEW mine1, mine1 = {i \in Places' : ConvOf[past'[i].owner] = v}
               PROVE  IF mine1 = {}
                        THEN pointer'[v] = None
                        ELSE \E i \in mine1 : (\A j \in mine1 : j <= i) /\ pointer'[v] = turns'[i].node
    OBVIOUS
  <2>2. IF mine = {}
          THEN pointer[v] = None
          ELSE \E i \in mine : (\A j \in mine : j <= i) /\ pointer[v] = turns[i].node
    BY <1>1, <2>1 DEF PointerIsLatest
  <2>3. CASE ConvOf[op.owner] = v
    <3>1. new \in mine1 /\ \A j \in mine1 : j <= new BY <1>1, <2>3
    <3>2. pointer'[v] = n BY <1>5, <1>8, <2>3
    <3> QED BY <1>1, <3>1, <3>2
  <2>4. CASE ConvOf[op.owner] # v
    <3>1. mine1 = mine BY <1>1, <2>4
    <3>2. pointer'[v] = pointer[v] BY <1>5, <1>8, <2>4
    <3> QED BY <1>1, <2>2, <3>1, <3>2
  <2> QED BY <2>3, <2>4
<1> QED BY <1>10, <1>11, <1>12, <1>13 DEF Tables

-----------------------------------------------------------------------------
(* What a call knows of where its turn is.                                 *)
Placed(t, node) == \E i \in Places : turns[i].node = node /\ turns[i].text = UserText[t]

OwnPlaced(t, node) == \E i \in Places : Own(i, t, "user") /\ turns[i].node = node

LEMMA SourcesKept ==
    ASSUME SourcesInv, UNCHANGED <<tables, past, source>>
    PROVE  SourcesInv'
<1>1. UNCHANGED <<turns, past, source>> BY DEF tables
<1>2. Places' = Places BY <1>1 DEF Places
<1>3. \A i, t, role : Own(i, t, role)' <=> Own(i, t, role) BY <1>1, <1>2 DEF Own
<1> QED BY <1>1, <1>2, <1>3 DEF SourcesInv

(* A retry answered from the table names a node that holds its turn.       *)
LEMMA RetryPlaced ==
    ASSUME Control, Tables, NEW op \in OpType, Request(op).key # None,
           memo[Slot(Request(op))] # None,
           memo[Slot(Request(op))].fp = Fingerprint(Request(op))
    PROVE  /\ op.role = "user" /\ Kind[op.owner] = "ingest"
           /\ memo[Slot(Request(op))].node \in Nodes
           /\ Placed(op.owner, memo[Slot(Request(op))].node)
<1> SUFFICES ASSUME NEW k, k = Request(op).key, NEW row, row = memo[<<"append", k>>]
             PROVE  /\ op.role = "user" /\ Kind[op.owner] = "ingest"
                    /\ row.node \in Nodes /\ Placed(op.owner, row.node)
  BY RequestFields
<1>1. /\ k = IF op.role = "user" THEN KeyOf[op.owner] ELSE None
      /\ row = memo[Slot(Request(op))]
      /\ Fingerprint(Request(op)) = <<ConvOf[op.owner], Base, <<TextOf(op)>>>>
  BY RequestFields
<1>2. op.role = "user" /\ k = KeyOf[op.owner] /\ op.owner \in Tasks BY <1>1 DEF OpType
<1>3. Kind[op.owner] = "ingest" /\ k \in Keys BY <1>2, TasksAssumption
<1>4. row # None /\ row.fp = <<ConvOf[op.owner], Base, <<TextOf(op)>>>> BY <1>1
<1>5. PICK i \in Places : turns[i].node = row.node /\ row.fp[3] = <<turns[i].text>>
  BY <1>3, <1>4 DEF Tables, MemoInv, RowOf
<1>6. turns[i].text = TextOf(op)
  <2>1. row.fp[3] = <<TextOf(op)>> BY <1>4
  <2> QED BY <1>5, <2>1
<1>7. row.node \in Nodes
  <2>1. row \in MemoType BY <1>3, <1>4 DEF Control, TypeOK, Slots, Ops
  <2> QED BY <2>1 DEF MemoType
<1> QED BY <1>2, <1>3, <1>5, <1>6, <1>7 DEF Placed, TextOf

(* A call that learns where its turn is learns the truth.                  *)
LEMMA SourcesGained ==
    ASSUME Control, SourcesInv, UNCHANGED <<tables, past>>, NEW t \in Tasks, NEW n \in Nodes,
           NEW created \in BOOLEAN, source' = [source EXCEPT ![t] = [node |-> n, created |-> created]],
           Placed(t, n), Kind[t] # "answer"
    PROVE  SourcesInv'
<1>1. UNCHANGED <<turns, past>> BY DEF tables
<1>2. Places' = Places BY <1>1 DEF Places
<1>3. \A i, u, role : Own(i, u, role)' <=> Own(i, u, role) BY <1>1, <1>2 DEF Own
<1>4. source'[t].node = n /\ \A u \in Tasks \ {t} : source'[u] = source[u]
  BY DEF Control, TypeOK
<1>5. \E i \in Places : turns[i].node = n /\ turns[i].text = UserText[t] BY DEF Placed
<1> SUFFICES ASSUME NEW u \in Tasks, source'[u] # None
             PROVE  /\ \E i \in Places : turns[i].node = source'[u].node /\ turns[i].text = UserText[u]
                    /\ Kind[u] = "answer" =>
                         \E i \in Places : Own(i, u, "user") /\ turns[i].node = source'[u].node
  BY <1>1, <1>2, <1>3 DEF SourcesInv
<1>6. CASE u = t BY <1>4, <1>5, <1>6
<1>7. CASE u # t BY <1>4, <1>7 DEF SourcesInv
<1> QED BY <1>6, <1>7

LEMMA AttachSources ==
    ASSUME Control, Tables, SourcesInv, NEW op \in ops, NEW n \in Nodes, Attach(op, n)
    PROVE  SourcesInv'
<1> SUFFICES ASSUME NEW new, new = Len(turns) + 1
             PROVE  SourcesInv'
  OBVIOUS
<1>1. /\ Places' = Places \cup {new}
      /\ \A i \in Places : turns'[i] = turns[i]
      /\ turns'[new].node = n /\ turns'[new].text = TextOf(op)
      /\ \A i \in Places : \A t, role : Own(i, t, role)' <=> Own(i, t, role)
      /\ \A t, role : Own(new, t, role)' <=> (t = op.owner /\ role = op.role)
  BY AttachPlaces
<1>2. Resume(op, n, op.node = None) /\ op.owner \in Tasks
  BY DEF Attach, Control, TypeOK, OpType
<1>3. source \in [Tasks -> [node : Nodes, created : BOOLEAN] \cup {None}] BY DEF Control, TypeOK
<1>4. \/ source' = source
      \/ /\ op.role = "user"
         /\ source' = [source EXCEPT ![op.owner] = [node |-> n, created |-> (op.node = None)]]
  BY <1>2 DEF Resume, Remembered
<1> SUFFICES ASSUME NEW u \in Tasks, source'[u] # None
             PROVE  /\ \E i \in Places' : turns'[i].node = source'[u].node /\ turns'[i].text = UserText[u]
                    /\ Kind[u] = "answer" =>
                         \E i \in Places' : Own(i, u, "user")' /\ turns'[i].node = source'[u].node
  BY DEF SourcesInv
<1>5. CASE source'[u] = source[u]
  <2>1. PICK i \in Places : turns[i].node = source[u].node /\ turns[i].text = UserText[u]
    BY <1>5 DEF SourcesInv
  <2>2. ASSUME Kind[u] = "answer"
        PROVE  \E j \in Places' : Own(j, u, "user")' /\ turns'[j].node = source'[u].node
    <3>1. PICK j \in Places : Own(j, u, "user") /\ turns[j].node = source[u].node
      BY <1>5, <2>2 DEF SourcesInv
    <3>2. Own(j, u, "user")' /\ turns'[j] = turns[j] /\ j \in Places' BY <1>1, <3>1
    <3> QED BY <1>5, <3>1, <3>2
  <2> QED BY <1>1, <1>5, <2>1, <2>2
<1>6. CASE source'[u] # source[u]
  <2>1. u = op.owner /\ op.role = "user" /\ source'[u].node = n BY <1>3, <1>4, <1>6
  <2>2. Own(new, u, "user")' BY <1>1, <2>1
  <2> QED BY <1>1, <2>1, <2>2 DEF TextOf
<1> QED BY <1>5, <1>6

-----------------------------------------------------------------------------
LEMMA InvInit ==
    ASSUME Init
    PROVE  Inv
<1>1. /\ sources = [n \in Nodes |-> None] /\ turns = << >>
      /\ pointer = [v \in Conversations |-> None] /\ memo = [s \in Slots |-> None]
  BY DEF Init, Log!Init, Slots, Log!Slots, Ops, Log!Ops
<1>2. past = << >> /\ Places = {} BY <1>1 DEF Init, Places
<1>3. TypeOK
  <2>1. turns \in Seq(TurnType)
        /\ past \in Seq([owner : Tasks, role : {"user", "assistant"}, seen : Nodes \cup {None}])
    BY <1>1, <1>2
  <2> QED BY <1>1, <2>1 DEF Init, TypeOK, Steps, Outcomes
<1>4. LockInv BY TasksAssumption DEF Init, LockInv, Holding
<1>5. PhaseInv BY TasksAssumption DEF Init, PhaseInv, PhaseOK, Early
<1>6. OpsInv BY DEF Init, OpsInv
<1>7. TurnsInv BY <1>1, <1>2 DEF Init, TurnsInv
<1>8. MemoInv BY <1>1, <1>2 DEF MemoInv, RowOf, Slots, Ops
<1>9. KeyedOnce BY <1>1 DEF KeyedOnce
<1>10. PointerIsLatest BY <1>1 DEF PointerIsLatest
<1>11. SourcesInv BY DEF Init, SourcesInv
<1> QED BY <1>3, <1>4, <1>5, <1>6, <1>7, <1>8, <1>9, <1>10, <1>11 DEF Inv, Control, Tables

(* An append handed to a thread is the first of its call in its role.      *)
LEMMA CallTables ==
    ASSUME Inv, NEW t \in Tasks, Call(t) \/ Abandon(t)
    PROVE  Tables'
<1>1. Forward /\ UNCHANGED <<tables, past>> BY CallForward DEF Inv
<1>2. TurnsInv BY DEF Inv, Tables
<1>3. ASSUME NEW role, NEW n, NEW basis, Submit(t, role, n, basis),
             \/ role = "user" /\ pc[t] \in Early
             \/ role = "assistant" /\ pc[t] \in Replying
      PROVE  \A op \in ops' : op \in ops \/ \A i \in Places : ~ Own(i, op.owner, op.role)
  <2> SUFFICES ASSUME NEW op \in ops', op \notin ops
               PROVE  \A i \in Places : ~ Own(i, op.owner, op.role)
    OBVIOUS
  <2>1. op.owner = t /\ op.role = role BY <1>3 DEF Submit
  <2> QED BY <1>2, <1>3, <2>1 DEF TurnsInv
<1>4. CASE ops' \subseteq ops BY <1>1, <1>4, QuietTables DEF Inv
<1>5. CASE \E role, n, basis :
             /\ Submit(t, role, n, basis)
             /\ \/ role = "user" /\ pc[t] \in Early
                \/ role = "assistant" /\ pc[t] \in Replying
  <2>1. PICK role, n, basis :
             /\ Submit(t, role, n, basis)
             /\ \/ role = "user" /\ pc[t] \in Early
                \/ role = "assistant" /\ pc[t] \in Replying
    BY <1>5
  <2>2. \A op \in ops' : op \in ops \/ \A i \in Places : ~ Own(i, op.owner, op.role)
    BY <1>3, <2>1
  <2> QED BY <1>1, <2>2, QuietTables DEF Inv
<1>6. ops' \subseteq ops \/ \E role, n, basis :
             /\ Submit(t, role, n, basis)
             /\ \/ role = "user" /\ pc[t] \in Early
                \/ role = "assistant" /\ pc[t] \in Replying
  <2>1. CASE ReadActive(t) BY <2>1 DEF ReadActive, Early
  <2>2. CASE Decide(t) BY <2>2 DEF Decide, Early
  <2>3. CASE GenerateText(t) BY <2>3 DEF GenerateText, Replying
  <2>4. CASE ~ ReadActive(t) /\ ~ Decide(t) /\ ~ GenerateText(t)
    BY <2>4 DEF Call, Enter, CheckRetry, RouteFails, GenerateNothing, GenerateFails,
                StartMaintenance, Maintain, StartRead, EndRead, Abandon
  <2> QED BY <2>1, <2>2, <2>3, <2>4
<1> QED BY <1>4, <1>5, <1>6

LEMMA CallSources ==
    ASSUME Inv, NEW t \in Tasks, Call(t) \/ Abandon(t)
    PROVE  SourcesInv'
<1>1. UNCHANGED <<tables, past>> BY CallForward DEF Inv
<1>2. CASE UNCHANGED source BY <1>1, <1>2, SourcesKept DEF Inv
<1>3. CASE CheckRetry(t) /\ source' # source
  <2> DEFINE asked == [owner |-> t, role |-> "user", node |-> None, seen |-> None]
             r == Request(asked)
             prior == memo[Slot(r)]
  <2>1. prior # None /\ prior.fp = Fingerprint(r) /\ Remembered(t, prior.node, FALSE) /\ pc[t] = "check"
    BY <1>3 DEF CheckRetry
  <2>2. asked \in OpType /\ asked.owner = t /\ asked.role = "user" BY DEF OpType
  <2>3. KeyOf[t] # None BY <2>1 DEF Inv, Control, PhaseInv, PhaseOK
  <2>4. r.key # None
    <3> HIDE DEF asked
    <3> QED BY <2>2, <2>3, RequestFields
  <2>5. Kind[t] = "ingest" /\ prior.node \in Nodes /\ Placed(t, prior.node)
    <3> HIDE DEF asked
    <3> QED BY <2>1, <2>2, <2>4, RetryPlaced DEF Inv
  <2>6. source' = [source EXCEPT ![t] = [node |-> prior.node, created |-> FALSE]]
    BY <2>1 DEF Remembered
  <2> HIDE DEF prior, r, asked
  <2> QED BY <1>1, <2>5, <2>6, SourcesGained DEF Inv
<1>4. UNCHANGED source \/ CheckRetry(t)
  BY DEF Call, Enter, ReadActive, Decide, RouteFails, GenerateText, GenerateNothing, GenerateFails,
         StartMaintenance, Maintain, StartRead, EndRead, Abandon
<1> QED BY <1>2, <1>3, <1>4

LEMMA RepeatStep ==
    ASSUME Inv, NEW op \in ops, Repeat(op)
    PROVE  Tables' /\ SourcesInv'
<1> SUFFICES ASSUME NEW r, r = Request(op), NEW prior, prior = memo[Slot(r)]
             PROVE  Tables' /\ SourcesInv'
  OBVIOUS
<1>1. /\ r.key # None /\ prior # None /\ ops' = ops \ {op} /\ UNCHANGED <<tables, past>>
  BY DEF Repeat
<1>2. op.owner \in Tasks /\ op \in OpType BY DEF Inv, Control, TypeOK, OpType
<1>3. CASE prior.fp = Fingerprint(r)
  <2>1. Resume(op, prior.node, FALSE) BY <1>3 DEF Repeat
  <2>2. Forward BY <2>1, ResumeForward DEF Inv
  <2>3. Tables' BY <1>1, <2>2, QuietTables DEF Inv
  <2>4. /\ op.role = "user" /\ Kind[op.owner] = "ingest" /\ prior.node \in Nodes
        /\ Placed(op.owner, prior.node)
    BY <1>1, <1>2, <1>3, RetryPlaced DEF Inv
  <2>5. CASE UNCHANGED source BY <1>1, <2>3, <2>5, SourcesKept DEF Inv
  <2>6. CASE source' # source
    <3>1. source' = [source EXCEPT ![op.owner] = [node |-> prior.node, created |-> FALSE]]
      BY <2>1, <2>4, <2>6 DEF Resume, Remembered
    <3>2. SourcesInv' BY <1>1, <1>2, <2>4, <3>1, SourcesGained DEF Inv
    <3> QED BY <2>3, <3>2
  <2> QED BY <2>3, <2>5, <2>6
<1>4. CASE prior.fp # Fingerprint(r)
  <2>1. UNCHANGED source BY <1>4 DEF Repeat
  <2>2. Forward
    <3>1. CASE Awaited(op) BY <1>2, <1>4, <3>1, EndForward DEF Repeat, Inv
    <3>2. CASE ~Awaited(op) BY <1>4, <3>2 DEF Repeat, Forward
    <3> QED BY <3>1, <3>2
  <2> QED BY <1>1, <2>1, <2>2, QuietTables, SourcesKept DEF Inv
<1> QED BY <1>3, <1>4

LEMMA InvStep ==
    ASSUME Inv, [Next]_vars
    PROVE  Inv'
<1>1. Control' BY ControlStep DEF Inv
<1>2. ASSUME NEW t \in Tasks, Call(t) \/ Abandon(t) PROVE Tables' /\ SourcesInv'
  BY <1>2, CallTables, CallSources
<1>3. ASSUME NEW op \in ops, Repeat(op) PROVE Tables' /\ SourcesInv'
  BY <1>3, RepeatStep
<1>4. ASSUME NEW op \in ops, NEW n \in Nodes, Attach(op, n) PROVE Tables' /\ SourcesInv'
  BY <1>1, <1>4, AttachTables, AttachSources DEF Inv
<1>5. ASSUME NEW op \in ops, StorageFails(op) PROVE Tables' /\ SourcesInv'
  <2>1. UNCHANGED <<tables, past, source>> /\ ops' = ops \ {op} BY <1>5 DEF StorageFails
  <2>2. op.owner \in Tasks BY DEF Inv, Control, TypeOK, OpType
  <2>3. Forward
    <3>1. CASE Awaited(op) BY <1>5, <2>2, <3>1, EndForward DEF StorageFails, Inv
    <3>2. CASE ~Awaited(op) BY <1>5, <3>2 DEF StorageFails, Forward
    <3> QED BY <3>1, <3>2
  <2> QED BY <2>1, <2>3, QuietTables, SourcesKept DEF Inv
<1>6. ASSUME Crash PROVE Tables' /\ SourcesInv'
  <2>1. UNCHANGED <<tables, past, source>> /\ ops' = {} BY <1>6 DEF Crash
  <2>2. Forward BY <1>6 DEF Crash, Forward, Early, Replying
  <2>3. \A op \in ops' : op \in ops BY <2>1
  <2>4. Tables' BY <2>1, <2>2, <2>3, QuietTables DEF Inv
  <2> QED BY <2>1, <2>4, SourcesKept DEF Inv
<1>7. ASSUME UNCHANGED vars PROVE Tables' /\ SourcesInv'
  <2>1. UNCHANGED <<tables, past, source>> /\ ops' = ops /\ pc' = pc BY <1>7 DEF vars
  <2>2. Forward BY <2>1 DEF Forward
  <2>3. Tables' BY <2>1, <2>2, QuietTables DEF Inv
  <2> QED BY <2>1, <2>3, SourcesKept DEF Inv
<1>8. Tables' /\ SourcesInv'
  BY <1>2, <1>3, <1>4, <1>5, <1>6, <1>7 DEF Next, Thread
<1> QED BY <1>1, <1>8 DEF Inv

THEOREM Invariance == Spec => []Inv
<1>1. Init => Inv BY InvInit
<1>2. Inv /\ [Next]_vars => Inv' BY InvStep
<1> QED BY <1>1, <1>2, PTL DEF Spec

-----------------------------------------------------------------------------
(* Whatever is abandoned, fails or dies: each reply is stored once, behind *)
(* its question in the question's topic, and the active topic is that of   *)
(* the last turn (llgm.py, answer; conversation.py, the pointer row).      *)
THEOREM TopicsStand == Spec => []StoredInTopic
<1>1. Inv => StoredInTopic
  <2> SUFFICES ASSUME Inv PROVE ReplyInTopic
    BY DEF StoredInTopic, Inv, Control, Tables
  <2>1. TurnsInv BY DEF Inv, Tables
  <2> SUFFICES ASSUME NEW i \in 1 .. Len(turns), past[i].role = "assistant"
               PROVE  /\ \E j \in 1 .. i - 1 :
                           /\ past[j].owner = past[i].owner /\ past[j].role = "user"
                           /\ turns[j].node = turns[i].node
                      /\ \A j \in 1 .. Len(turns) :
                           past[j].owner = past[i].owner /\ past[j].role = "assistant" => j = i
    BY DEF ReplyInTopic
  <2>2. past[i].owner \in Tasks
    <3>1. past \in Seq([owner : Tasks, role : {"user", "assistant"}, seen : Nodes \cup {None}])
      BY DEF Inv, Control, TypeOK
    <3>2. i \in 1 .. Len(past) BY <2>1 DEF TurnsInv
    <3>3. past[i] \in [owner : Tasks, role : {"user", "assistant"}, seen : Nodes \cup {None}]
      BY <3>1, <3>2, ElementOfSeq
    <3> QED BY <3>3
  <2>3. Own(i, past[i].owner, "assistant") BY DEF Own, Places
  <2> QED BY <2>1, <2>2, <2>3 DEF TurnsInv, Own, Places
<1> QED BY <1>1, Invariance, PTL

(* Incoming turns with one key are stored once, however often an import is *)
(* repeated, timed out or overtaken by its own late append (llgm.py,       *)
(* _remember; the retry row).                                              *)
THEOREM KeysStoreOnce == Spec => []KeyedOnce
<1>1. Inv => KeyedOnce BY DEF Inv, Tables
<1> QED BY <1>1, Invariance, PTL

(* A call that has got past _remember has its turn stored on the node it   *)
(* goes on with, and an import that returned has had its node organized    *)
(* (llgm.py, _remember and ingest).                                        *)
THEOREM RememberedStands == Spec => []RememberedIsKept
<1>1. Inv => RememberedIsKept
  <2> SUFFICES ASSUME Inv PROVE RememberedIsStored /\ ImportIsMaintained
    BY DEF RememberedIsKept
  <2>1. RememberedIsStored BY DEF Inv, SourcesInv, RememberedIsStored, Places
  <2>2. ImportIsMaintained BY DEF Inv, Control, PhaseInv, PhaseOK, ImportIsMaintained
  <2> QED BY <2>1, <2>2
<1> QED BY <1>1, Invariance, PTL

-----------------------------------------------------------------------------
(* The last turn before a turn.                                            *)
Latest(S) == IF S = {} THEN 0 ELSE CHOOSE j \in S : \A k \in S : k <= j

LEMMA LatestIs ==
    ASSUME NEW S \in SUBSET Nat, NEW j \in S, \A k \in S : k <= j
    PROVE  Latest(S) = j
<1>1. S # {} OBVIOUS
<1>2. \E i \in S : \A k \in S : k <= i OBVIOUS
<1>3. /\ (CHOOSE i \in S : \A k \in S : k <= i) \in S
      /\ \A k \in S : k <= (CHOOSE i \in S : \A k2 \in S : k2 <= i)
  BY <1>2
<1>4. Latest(S) \in S /\ \A k \in S : k <= Latest(S) BY <1>1, <1>3 DEF Latest
<1>5. Latest(S) \in Nat /\ j \in Nat BY <1>4
<1>6. Latest(S) <= j /\ j <= Latest(S) BY <1>4
<1> QED BY <1>5, <1>6

BeforeInv == \A i \in Places : Before(i) = 0 \/ Before(i) \in 1 .. i - 1

(* What a committed append is behind: the turn that the pointer names.     *)
LEMMA AttachBefore ==
    ASSUME Control, Tables, NEW op \in ops, NEW n \in Nodes, Attach(op, n),
           NEW new, new = Len(turns) + 1, NEW v, v = ConvOf[op.owner]
    PROVE  /\ \A i \in Places : Before(i)' = Before(i)
           /\ \/ /\ pointer[v] = None /\ Before(new)' = 0
                 /\ \A i \in Places : ConvOf[past[i].owner] # v
              \/ \E last \in Places :
                   /\ Before(new)' = last /\ pointer[v] = turns[last].node
                   /\ ConvOf[past[last].owner] = v
                   /\ \A i \in Places : ConvOf[past[i].owner] = v => i <= last
<1>1. /\ Places' = 1 .. new /\ Places = 1 .. Len(turns) /\ new \in Nat
      /\ \A i \in Places : i \in Nat /\ i < new
      /\ \A i \in Places : turns'[i] = turns[i] /\ past'[i] = past[i]
      /\ past'[new].owner = op.owner
  BY AttachPlaces
<1>2. Len(turns) \in Nat BY LenProperties DEF Control, TypeOK
<1>3. ASSUME NEW i \in Places PROVE Before(i)' = Before(i)
  <2>1. {j \in 1 .. i - 1 : ConvOf[past'[i].owner] = ConvOf[past'[j].owner]}
          = {j \in 1 .. i - 1 : ConvOf[past[i].owner] = ConvOf[past[j].owner]}
    BY <1>1, <1>2
  <2>2. Before(i)' = Latest({j \in 1 .. i - 1 : ConvOf[past'[i].owner] = ConvOf[past'[j].owner]})
    BY DEF Before, SameConversation, Latest
  <2>3. Before(i) = Latest({j \in 1 .. i - 1 : ConvOf[past[i].owner] = ConvOf[past[j].owner]})
    BY DEF Before, SameConversation, Latest
  <2> QED BY <2>1, <2>2, <2>3
<1> DEFINE mine == {i \in 1 .. Len(turns) : ConvOf[past[i].owner] = v}
<1>4. Before(new)' = Latest(mine)
  <2>1. {j \in 1 .. new - 1 : ConvOf[past'[new].owner] = ConvOf[past'[j].owner]} = mine
    BY <1>1, <1>2
  <2>2. Before(new)' = Latest({j \in 1 .. new - 1 : ConvOf[past'[new].owner] = ConvOf[past'[j].owner]})
    BY DEF Before, SameConversation, Latest
  <2> QED BY <2>1, <2>2
<1>5. v \in Conversations
  BY TasksAssumption DEF Control, TypeOK, OpType
<1>6. IF mine = {}
        THEN pointer[v] = None
        ELSE \E i \in mine : (\A j \in mine : j <= i) /\ pointer[v] = turns[i].node
  BY <1>5 DEF Tables, PointerIsLatest
<1>7. CASE mine = {}
  <2>1. Latest(mine) = 0 BY <1>7 DEF Latest
  <2>2. \A i \in Places : ConvOf[past[i].owner] # v BY <1>1, <1>7
  <2> QED BY <1>3, <1>4, <1>6, <1>7, <2>1, <2>2
<1>8. CASE mine # {}
  <2>1. PICK last \in mine : (\A j \in mine : j <= last) /\ pointer[v] = turns[last].node
    BY <1>6, <1>8
  <2>2. mine \in SUBSET Nat BY <1>2
  <2>3. last \in Places /\ ConvOf[past[last].owner] = v
        /\ \A i \in Places : ConvOf[past[i].owner] = v => i <= last
    BY <1>1, <2>1
  <2> HIDE DEF mine
  <2>4. Latest(mine) = last BY <2>1, <2>2, LatestIs
  <2> QED BY <1>3, <1>4, <2>1, <2>3, <2>4
<1> QED BY <1>7, <1>8

LEMMA BeforeStep ==
    ASSUME Inv, BeforeInv, [Next]_vars
    PROVE  BeforeInv'
<1>1. CASE UNCHANGED <<tables, past>>
  <2>1. UNCHANGED <<turns, past>> BY <1>1 DEF tables
  <2> QED BY <2>1 DEF BeforeInv, Before, SameConversation, Places
<1>2. ASSUME NEW op \in ops, NEW n \in Nodes, Attach(op, n) PROVE BeforeInv'
  <2> SUFFICES ASSUME NEW new, new = Len(turns) + 1, NEW v, v = ConvOf[op.owner] PROVE BeforeInv'
    OBVIOUS
  <2>1. /\ Places' = Places \cup {new} /\ Places' = 1 .. new /\ new \in Nat
        /\ Places = 1 .. Len(turns) /\ \A i \in Places : i \in Nat /\ i < new
    BY <1>2, AttachPlaces DEF Inv
  <2>2. \A i \in Places : Before(i)' = Before(i)
    BY <1>2, AttachBefore DEF Inv
  <2>3. Before(new)' = 0 \/ Before(new)' \in Places
    BY <1>2, AttachBefore DEF Inv
  <2>4. ASSUME NEW i \in Places' PROVE Before(i)' = 0 \/ Before(i)' \in 1 .. i - 1
    <3>1. CASE i \in Places BY <2>2, <3>1 DEF BeforeInv
    <3>2. CASE i = new BY <2>1, <2>3, <3>2
    <3> QED BY <2>1, <3>1, <3>2
  <2> QED BY <2>4 DEF BeforeInv
<1>3. \/ UNCHANGED <<tables, past>>
      \/ \E op \in ops, n \in Nodes : Attach(op, n)
  <2>1. \A t \in Tasks : Call(t) \/ Abandon(t) => UNCHANGED <<tables, past>>
    BY CallForward DEF Inv
  <2> QED BY <2>1 DEF Next, Thread, Repeat, StorageFails, Crash, vars
<1> QED BY <1>1, <1>2, <1>3

-----------------------------------------------------------------------------
(* As long as no call is abandoned: a step of a call that stores nothing.  *)
LEMMA CalmTables ==
    ASSUME CalmInv, UNCHANGED <<tables, past>>
    PROVE  /\ RoutedOnCurrentTopic' /\ ExchangesAdjacent'
           /\ \A t \in Tasks, j \in Places : LastOf(t, j)' <=> LastOf(t, j)
           /\ \A i, t, role : Own(i, t, role)' <=> Own(i, t, role)
           /\ Places' = Places /\ pointer' = pointer
<1>1. UNCHANGED <<turns, past, pointer>> BY DEF tables
<1>2. Places' = Places BY <1>1 DEF Places
<1>3. \A i : Before(i)' = Before(i) BY <1>1 DEF Before, SameConversation
<1>4. RoutedOnCurrentTopic' BY <1>1, <1>3 DEF CalmInv, RoutedOnCurrentTopic
<1>5. ExchangesAdjacent' BY <1>1, <1>3 DEF CalmInv, ExchangesAdjacent
<1>6. \A t \in Tasks, j \in Places : LastOf(t, j)' <=> LastOf(t, j) BY <1>1, <1>2 DEF LastOf
<1>7. \A i, t, role : Own(i, t, role)' <=> Own(i, t, role) BY <1>1, <1>2 DEF Own
<1> QED BY <1>1, <1>2, <1>4, <1>5, <1>6, <1>7

LEMMA CalmCall ==
    ASSUME Inv, CalmInv, NEW t \in Tasks, NEW step, Goto(t, step),
           pc[t] \notin {"store", "storeReply"}, UNCHANGED <<tables, past>>,
           \A u \in Tasks : u # t => seen'[u] = seen[u],
           step \in {"route", "store"} => seen'[t] = pointer[ConvOf[t]],
           Kind[t] = "answer" /\ step \in {"generate", "storeReply"} => pc[t] = "generate",
           \A op \in ops' :
             \/ op \in ops
             \/ /\ op.owner = t
                /\ op.role = "user" => step = "store" /\ op.seen = seen'[t]
                /\ op.role # "user" => step = "storeReply"
    PROVE  CalmInv'
<1>1. /\ RoutedOnCurrentTopic' /\ ExchangesAdjacent' /\ Places' = Places /\ pointer' = pointer
      /\ \A u \in Tasks, j \in Places : LastOf(u, j)' <=> LastOf(u, j)
      /\ \A i, u, role : Own(i, u, role)' <=> Own(i, u, role)
  BY CalmTables
<1>2. pc' = [pc EXCEPT ![t] = step] /\ pc \in [Tasks -> Steps] BY DEF Goto, Inv, Control, TypeOK
<1>3. \A op \in ops : Awaited(op) /\ op.owner \in Tasks /\ op.owner # t
  BY DEF CalmInv, Awaited, Inv, Control, TypeOK, OpType
<1>4. \A op \in ops' : Awaited(op)' BY <1>2, <1>3 DEF Awaited
<1>5. \A u \in Tasks : pc'[u] \in {"route", "store"} => seen'[u] = pointer'[ConvOf[u]]
  BY <1>1, <1>2 DEF CalmInv
<1>6. \A op \in ops' : op.role = "user" => op.seen = seen'[op.owner]
  BY <1>3 DEF CalmInv
<1>7. ASSUME NEW u \in Tasks, pc'[u] \in {"generate", "storeReply"}, Kind[u] = "answer"
      PROVE  \E j \in Places : Own(j, u, "user")' /\ LastOf(u, j)'
  <2>1. pc[u] \in {"generate", "storeReply"} BY <1>2, <1>7
  <2>2. PICK j \in Places : Own(j, u, "user") /\ LastOf(u, j) BY <1>7, <2>1 DEF CalmInv
  <2> QED BY <1>1, <2>2
<1> QED BY <1>1, <1>4, <1>5, <1>6, <1>7 DEF CalmInv

(* Only one append of a call that waits is on a thread.                    *)
LEMMA CalmAlone ==
    ASSUME Inv, CalmInv, NEW op \in ops
    PROVE  \A o \in ops \ {op} : Awaited(o) /\ o.owner \in Tasks /\ o.owner # op.owner
<1> SUFFICES ASSUME NEW o \in ops, o # op
             PROVE  Awaited(o) /\ o.owner \in Tasks /\ o.owner # op.owner
  OBVIOUS
<1>1. Awaited(o) /\ Awaited(op) BY DEF CalmInv
<1>2. o.owner \in Tasks /\ o.role \in {"user", "assistant"} /\ op.role \in {"user", "assistant"}
  BY DEF Inv, Control, TypeOK, OpType
<1>3. OpOK(op) BY DEF Inv, Control, OpsInv
<1> QED BY <1>1, <1>2, <1>3 DEF Awaited, OpOK

(* A step of a thread that stores nothing: its call goes on, or ends.      *)
LEMMA CalmThread ==
    ASSUME Inv, CalmInv, NEW op \in ops, ops' = ops \ {op},
           NEW step, Goto(op.owner, step), step \notin {"route", "store", "generate", "storeReply"},
           UNCHANGED <<tables, past, seen>>
    PROVE  CalmInv'
<1>1. /\ RoutedOnCurrentTopic' /\ ExchangesAdjacent' /\ Places' = Places /\ pointer' = pointer
      /\ \A u \in Tasks, j \in Places : LastOf(u, j)' <=> LastOf(u, j)
      /\ \A i, u, role : Own(i, u, role)' <=> Own(i, u, role)
  BY CalmTables
<1>2. pc' = [pc EXCEPT ![op.owner] = step] /\ pc \in [Tasks -> Steps] /\ op.owner \in Tasks
  BY DEF Goto, Inv, Control, TypeOK, OpType
<1>3. \A o \in ops' : Awaited(o) /\ o.owner \in Tasks /\ o.owner # op.owner
  BY CalmAlone
<1>4. \A o \in ops' : Awaited(o)' BY <1>2, <1>3 DEF Awaited
<1>5. \A u \in Tasks : pc'[u] \in {"route", "store"} => seen'[u] = pointer'[ConvOf[u]]
  BY <1>1, <1>2 DEF CalmInv
<1>6. \A o \in ops' : o.role = "user" => o.seen = seen'[o.owner] BY DEF CalmInv
<1>7. ASSUME NEW u \in Tasks, pc'[u] \in {"generate", "storeReply"}, Kind[u] = "answer"
      PROVE  \E j \in Places : Own(j, u, "user")' /\ LastOf(u, j)'
  <2>1. pc[u] \in {"generate", "storeReply"} BY <1>2, <1>7
  <2>2. PICK j \in Places : Own(j, u, "user") /\ LastOf(u, j) BY <1>7, <2>1 DEF CalmInv
  <2> QED BY <1>1, <2>2
<1> QED BY <1>1, <1>4, <1>5, <1>6, <1>7 DEF CalmInv

(* A committed append: its call holds the lock, so nobody else has read    *)
(* the pointer that moves, and nobody else is between its two turns.       *)
LEMMA CalmAttach ==
    ASSUME Inv, BeforeInv, CalmInv, NEW op \in ops, NEW n \in Nodes, Attach(op, n)
    PROVE  CalmInv'
<1> SUFFICES ASSUME NEW new, new = Len(turns) + 1, NEW v, v = ConvOf[op.owner], NEW t, t = op.owner
             PROVE  CalmInv'
  OBVIOUS
<1>1. /\ Places' = Places \cup {new} /\ new \notin Places /\ new \in Nat
      /\ Places = 1 .. Len(turns) /\ Places' = 1 .. Len(turns')
      /\ \A i \in Places : i \in Nat /\ i < new
      /\ \A i \in Places : turns'[i] = turns[i] /\ past'[i] = past[i]
      /\ past'[new].owner = t /\ past'[new].role = op.role /\ past'[new].seen = op.seen
      /\ \A i \in Places : \A u, role : Own(i, u, role)' <=> Own(i, u, role)
      /\ \A u, role : Own(new, u, role)' <=> (u = t /\ role = op.role)
  BY AttachPlaces DEF Inv
<1>2. /\ \A i \in Places : Before(i)' = Before(i)
      /\ \/ /\ pointer[v] = None /\ Before(new)' = 0
            /\ \A i \in Places : ConvOf[past[i].owner] # v
         \/ \E last \in Places :
              /\ Before(new)' = last /\ pointer[v] = turns[last].node
              /\ ConvOf[past[last].owner] = v
              /\ \A i \in Places : ConvOf[past[i].owner] = v => i <= last
  BY AttachBefore DEF Inv
<1>3. /\ t \in Tasks /\ op.role \in {"user", "assistant"} /\ OpOK(op) /\ Awaited(op)
      /\ pc \in [Tasks -> Steps]
  BY DEF Inv, Control, TypeOK, OpType, OpsInv, CalmInv
<1>4. UNCHANGED seen /\ ops' = ops \ {op} /\ Resume(op, n, op.node = None) BY DEF Attach
<1>5. PICK step \in Steps :
        /\ pc' = [pc EXCEPT ![t] = step] /\ step \notin {"route", "store", "storeReply"}
        /\ op.role = "assistant" => step # "generate"
  <2>1. CASE op.role = "user"
    <3>1. Remembered(t, n, op.node = None) BY <1>3, <1>4, <2>1 DEF Resume
    <3> QED BY <2>1, <3>1 DEF Remembered, Goto, Steps
  <2>2. CASE op.role = "assistant"
    <3>1. AfterReply(t) BY <1>3, <1>4, <2>2 DEF Resume
    <3> QED BY <2>2, <3>1 DEF AfterReply, End, Goto, Steps
  <2> QED BY <1>3, <2>1, <2>2
<1>6. \A o \in ops' : Awaited(o) /\ o.owner \in Tasks /\ o.owner # t
  BY <1>4, CalmAlone
<1>7. \A u \in Tasks : Holding(u) => u = t
  <2>1. Holding(t) BY <1>3 DEF Awaited, Holding
  <2> QED BY <1>3, <2>1 DEF Inv, Control, LockInv
<1>8. \A o \in ops' : Awaited(o)' BY <1>5, <1>6 DEF Awaited
<1>9. \A u \in Tasks : pc'[u] \notin {"route", "store"}
  BY <1>3, <1>5, <1>7 DEF Holding
<1>10. \A o \in ops' : o.role = "user" => o.seen = seen'[o.owner] BY <1>4 DEF CalmInv
<1>11. ASSUME NEW u \in Tasks, pc'[u] \in {"generate", "storeReply"}, Kind[u] = "answer"
       PROVE  \E j \in Places' : Own(j, u, "user")' /\ LastOf(u, j)'
  <2>1. u = t /\ op.role = "user" BY <1>3, <1>5, <1>7, <1>11 DEF Holding
  <2>2. Own(new, u, "user")' BY <1>1, <2>1
  <2>3. LastOf(u, new)' BY <1>1 DEF LastOf
  <2> QED BY <1>1, <2>2, <2>3
<1>12. RoutedOnCurrentTopic'
  <2> SUFFICES ASSUME NEW i \in Places', past'[i].role = "user"
               PROVE  past'[i].seen = IF Before(i)' = 0 THEN None ELSE turns'[Before(i)'].node
    BY <1>1 DEF RoutedOnCurrentTopic
  <2>1. CASE i \in Places
    <3>1. past[i].seen = IF Before(i) = 0 THEN None ELSE turns[Before(i)].node
      BY <1>1, <2>1 DEF CalmInv, RoutedOnCurrentTopic
    <3>2. Before(i) = 0 \/ Before(i) \in Places BY <1>1, <2>1 DEF BeforeInv
    <3> QED BY <1>1, <1>2, <2>1, <3>1, <3>2
  <2>2. CASE i = new
    <3>1. op.role = "user" /\ op.seen = seen[t] /\ pc[t] = "store"
      BY <1>1, <1>3, <2>2 DEF CalmInv, Awaited
    <3>2. op.seen = pointer[v] BY <1>3, <3>1 DEF CalmInv
    <3>3. CASE Before(new)' = 0
      <4>1. 0 \notin Places BY <1>1
      <4> QED BY <1>1, <1>2, <2>2, <3>2, <3>3, <4>1
    <3>4. CASE Before(new)' # 0
      <4>1. Before(new)' \in Places /\ pointer[v] = turns[Before(new)'].node BY <1>2, <3>4
      <4> QED BY <1>1, <2>2, <3>2, <3>4, <4>1
    <3> QED BY <3>3, <3>4
  <2> QED BY <1>1, <2>1, <2>2
<1>13. ExchangesAdjacent'
  <2> SUFFICES ASSUME NEW i \in Places', past'[i].role = "assistant"
               PROVE  /\ Before(i)' # 0
                      /\ past'[Before(i)'].owner = past'[i].owner
                      /\ past'[Before(i)'].role = "user"
    BY <1>1 DEF ExchangesAdjacent
  <2>1. CASE i \in Places
    <3>1. /\ Before(i) # 0 /\ past[Before(i)].owner = past[i].owner
          /\ past[Before(i)].role = "user"
      BY <1>1, <2>1 DEF CalmInv, ExchangesAdjacent
    <3>2. Before(i) \in Places BY <1>1, <2>1, <3>1 DEF BeforeInv
    <3> QED BY <1>1, <1>2, <2>1, <3>1, <3>2
  <2>2. CASE i = new
    <3>1. op.role = "assistant" /\ pc[t] = "storeReply" /\ Kind[t] = "answer"
      BY <1>1, <1>3, <2>2 DEF Awaited, OpOK
    <3>2. PICK j \in Places : Own(j, t, "user") /\ LastOf(t, j) BY <1>3, <3>1 DEF CalmInv
    <3>3. /\ past[j].owner = t /\ past[j].role = "user" /\ ConvOf[past[j].owner] = v
          /\ \A k \in Places : ConvOf[past[k].owner] = v => k <= j
      BY <3>2 DEF Own, LastOf
    <3>4. Before(new)' = j
      <4>1. PICK last \in Places :
              /\ Before(new)' = last /\ ConvOf[past[last].owner] = v
              /\ \A k \in Places : ConvOf[past[k].owner] = v => k <= last
        BY <1>2, <3>3
      <4>2. last <= j /\ j <= last BY <3>3, <4>1
      <4> QED BY <1>1, <4>1, <4>2
    <3> QED BY <1>1, <2>2, <3>2, <3>3, <3>4
  <2> QED BY <1>1, <2>1, <2>2
<1> QED BY <1>8, <1>9, <1>10, <1>11, <1>12, <1>13 DEF CalmInv

(* A call once abandoned stays abandoned.                                  *)
LEMMA EndStands ==
    ASSUME Inv, NEW t \in Tasks, NEW how, End(t, how), pc[t] # "done", NoneAbandoned'
    PROVE  NoneAbandoned /\ how # "abandoned"
<1>1. outcome' = [outcome EXCEPT ![t] = how] /\ outcome \in [Tasks -> Outcomes]
  BY DEF End, Inv, Control, TypeOK
<1>2. outcome[t] = None BY DEF Inv, Control, PhaseInv, PhaseOK
<1>3. how # "abandoned" BY <1>1 DEF NoneAbandoned
<1>4. outcome[t] # "abandoned" BY <1>2, TasksAssumption
<1>5. ASSUME NEW u \in Tasks PROVE outcome[u] # "abandoned"
  BY <1>1, <1>4, <1>5 DEF NoneAbandoned
<1> QED BY <1>3, <1>5 DEF NoneAbandoned

LEMMA CalmEnd ==
    ASSUME Inv, QuietInv, NoneAbandoned', NEW t \in Tasks, NEW how, End(t, how),
           pc[t] \notin {"store", "storeReply", "done"},
           UNCHANGED <<tables, past, seen, ops>>
    PROVE  CalmInv'
<1>1. NoneAbandoned BY EndStands
<1>2. CalmInv BY <1>1 DEF QuietInv
<1>3. Goto(t, "done") BY DEF End
<1> QED BY <1>2, <1>3, CalmCall

LEMMA QuietCall ==
    ASSUME Inv, QuietInv, NoneAbandoned', NEW t \in Tasks, Call(t)
    PROVE  CalmInv'
<1> DEFINE Others == \A u \in Tasks : u # t => seen'[u] = seen[u]
<1>0. seen \in [Tasks -> Nodes \cup {None}] BY DEF Inv, Control, TypeOK
<1>1. ASSUME UNCHANGED outcome PROVE CalmInv
  BY <1>1 DEF QuietInv, NoneAbandoned
<1>2. CASE Enter(t)
  <2>1. PICK step \in {"active", "check"} : Goto(t, step) BY <1>2 DEF Enter
  <2> QED BY <1>1, <1>2, <2>1, CalmCall DEF Enter
<1>3. CASE CheckRetry(t)
  <2>1. pc[t] = "check" /\ UNCHANGED <<tables, past, seen, ops>> BY <1>3 DEF CheckRetry
  <2>2. Kind[t] # "answer"
    <3>1. KeyOf[t] # None BY <2>1 DEF Inv, Control, PhaseInv, PhaseOK
    <3> QED BY <3>1, TasksAssumption
  <2>3. CASE End(t, "raised") BY <2>1, <2>3, CalmEnd
  <2>4. CASE ~ End(t, "raised")
    <3>1. UNCHANGED outcome BY <1>3, <2>4 DEF CheckRetry
    <3>2. PICK step \in {"active", "maintLock"} : Goto(t, step)
      BY <1>3, <2>2, <2>4 DEF CheckRetry, Remembered
    <3> QED BY <1>1, <2>1, <2>2, <3>1, <3>2, CalmCall
  <2> QED BY <2>3, <2>4
<1>4. CASE ReadActive(t)
  <2>1. /\ pc[t] = "active" /\ seen' = [seen EXCEPT ![t] = pointer[ConvOf[t]]]
        /\ UNCHANGED <<tables, past, outcome>>
    BY <1>4 DEF ReadActive
  <2>2. Others /\ seen'[t] = pointer[ConvOf[t]] BY <1>0, <2>1
  <2>3. CASE RoutingMode = "disabled"
    <3>1. Goto(t, "store") /\ Submit(t, "user", pointer[ConvOf[t]], pointer[ConvOf[t]])
      BY <1>4, <2>3 DEF ReadActive
    <3>2. \A op \in ops' : \/ op \in ops
                           \/ op.owner = t /\ op.role = "user" /\ op.seen = seen'[t]
      BY <2>2, <3>1 DEF Submit
    <3> QED BY <1>1, <2>1, <2>2, <3>1, <3>2, CalmCall
  <2>4. CASE RoutingMode # "disabled"
    <3>1. Goto(t, "route") /\ UNCHANGED ops BY <1>4, <2>4 DEF ReadActive
    <3> QED BY <1>1, <2>1, <2>2, <3>1, CalmCall
  <2> QED BY <2>3, <2>4
<1>5. CASE Decide(t)
  <2>1. /\ pc[t] = "route" /\ Goto(t, "store") /\ UNCHANGED <<tables, past, seen, outcome>>
    BY <1>5 DEF Decide
  <2>2. CalmInv BY <1>1, <2>1
  <2>3. seen'[t] = pointer[ConvOf[t]] BY <2>1, <2>2 DEF CalmInv
  <2>4. \A op \in ops' : \/ op \in ops
                         \/ op.owner = t /\ op.role = "user" /\ op.seen = seen'[t]
    BY <1>5, <2>1 DEF Decide, Submit
  <2> QED BY <2>1, <2>2, <2>3, <2>4, CalmCall
<1>6. CASE RouteFails(t) BY <1>6, CalmEnd DEF RouteFails
<1>7. CASE GenerateText(t)
  <2>1. /\ pc[t] = "generate" /\ Goto(t, "storeReply") /\ UNCHANGED <<tables, past, seen, outcome>>
    BY <1>7 DEF GenerateText
  <2>2. \A op \in ops' : \/ op \in ops
                         \/ op.owner = t /\ op.role = "assistant"
    BY <1>7 DEF GenerateText, Submit
  <2> QED BY <1>1, <2>1, <2>2, CalmCall
<1>8. CASE GenerateNothing(t)
  <2>1. pc[t] = "generate" /\ UNCHANGED <<tables, past, seen, ops>> BY <1>8 DEF GenerateNothing
  <2>2. CASE End(t, "returned") BY <2>1, <2>2, CalmEnd
  <2>3. CASE Goto(t, "maintLock") /\ UNCHANGED outcome BY <1>1, <2>1, <2>3, CalmCall
  <2> QED BY <1>8, <2>2, <2>3 DEF GenerateNothing, AfterReply
<1>9. CASE GenerateFails(t) BY <1>9, CalmEnd DEF GenerateFails
<1>10. CASE StartMaintenance(t)
  <2>1. pc[t] = "maintLock" /\ Goto(t, "maintain") /\ UNCHANGED <<tables, past, seen, ops, outcome>>
    BY <1>10 DEF StartMaintenance
  <2> QED BY <1>1, <2>1, CalmCall
<1>11. CASE Maintain(t) BY <1>11, CalmEnd DEF Maintain
<1>12. CASE StartRead(t)
  <2>1. /\ pc[t] = "start" /\ Kind[t] = "read" /\ Goto(t, "generate")
        /\ seen' = [seen EXCEPT ![t] = pointer[ConvOf[t]]]
        /\ UNCHANGED <<tables, past, ops, outcome>>
    BY <1>12 DEF StartRead
  <2>2. Others BY <1>0, <2>1
  <2> QED BY <1>1, <2>1, <2>2, CalmCall
<1>13. CASE EndRead(t) BY <1>13, CalmEnd DEF EndRead
<1> QED BY <1>2, <1>3, <1>4, <1>5, <1>6, <1>7, <1>8, <1>9, <1>10, <1>11, <1>12, <1>13 DEF Call

LEMMA QuietStep ==
    ASSUME Inv, BeforeInv, QuietInv, [Next]_vars
    PROVE  QuietInv'
<1> SUFFICES ASSUME NoneAbandoned' PROVE CalmInv'
  BY DEF QuietInv
<1>1. ASSUME UNCHANGED outcome PROVE CalmInv
  BY <1>1 DEF QuietInv, NoneAbandoned
<1>2. \A op \in ops : op.owner \in Tasks /\ pc \in [Tasks -> Steps]
  BY DEF Inv, Control, TypeOK, OpType
<1>3. ASSUME NEW t \in Tasks, Call(t) PROVE CalmInv' BY <1>3, QuietCall
<1>4. ASSUME NEW t \in Tasks, Abandon(t) PROVE CalmInv'
  <2>1. End(t, "abandoned") /\ pc[t] # "done" BY <1>4 DEF Abandon
  <2> QED BY <2>1, EndStands
<1>5. ASSUME NEW op \in ops, NEW n \in Nodes, Attach(op, n) PROVE CalmInv'
  <2>1. NoneAbandoned
    <3>1. \/ UNCHANGED outcome
          \/ End(op.owner, "returned") /\ Awaited(op)
      BY <1>5 DEF Attach, Resume, AfterReply
    <3>2. CASE UNCHANGED outcome BY <3>2 DEF NoneAbandoned
    <3>3. CASE End(op.owner, "returned") /\ Awaited(op)
      BY <1>2, <3>3, EndStands DEF Awaited
    <3> QED BY <3>1, <3>2, <3>3
  <2> QED BY <1>5, <2>1, CalmAttach DEF QuietInv
<1>6. ASSUME NEW op \in ops, Repeat(op) \/ StorageFails(op) PROVE CalmInv'
  <2>1. ops' = ops \ {op} /\ UNCHANGED <<tables, past, seen>>
    BY <1>6 DEF Repeat, StorageFails
  <2>2. CASE ~Awaited(op)
    <3>1. UNCHANGED outcome BY <1>6, <2>2 DEF Repeat, StorageFails, Resume
    <3> QED BY <1>1, <2>2, <3>1 DEF CalmInv
  <2>3. CASE End(op.owner, "raised") /\ Awaited(op)
    <3>1. NoneAbandoned BY <1>2, <2>3, EndStands DEF Awaited
    <3>2. CalmInv /\ Goto(op.owner, "done") BY <2>3, <3>1 DEF QuietInv, End
    <3> QED BY <2>1, <3>2, CalmThread
  <2>4. CASE Repeat(op) /\ Awaited(op) /\ memo[Slot(Request(op))].fp = Fingerprint(Request(op))
    <3>1. Resume(op, memo[Slot(Request(op))].node, FALSE) BY <2>4 DEF Repeat
    <3>2. op.role = "user" /\ Kind[op.owner] = "ingest"
      <4>1. op \in OpType BY DEF Inv, Control, TypeOK
      <4> QED BY <2>4, <4>1, RetryPlaced DEF Repeat, Inv
    <3>3. Goto(op.owner, "maintLock") /\ UNCHANGED outcome
      BY <2>4, <3>1, <3>2 DEF Resume, Remembered
    <3> QED BY <1>1, <2>1, <3>3, CalmThread
  <2> QED BY <1>6, <2>2, <2>3, <2>4 DEF Repeat, StorageFails
<1>7. ASSUME Crash PROVE CalmInv'
  <2>1. /\ UNCHANGED <<tables, past, seen>> /\ ops' = {}
        /\ pc' = [t \in Tasks |-> IF pc[t] = "start" THEN "start" ELSE "done"]
        /\ outcome' = [t \in Tasks |->
                         IF pc[t] \in {"start", "done"} THEN outcome[t] ELSE "died"]
    BY <1>7 DEF Crash
  <2>2. NoneAbandoned
    <3> SUFFICES ASSUME NEW t \in Tasks PROVE outcome[t] # "abandoned"
      BY DEF NoneAbandoned
    <3>1. CASE pc[t] \in {"start", "done"} BY <2>1, <3>1 DEF NoneAbandoned
    <3>2. CASE pc[t] \notin {"start", "done"}
      <4>1. outcome[t] = None BY <3>2 DEF Inv, Control, PhaseInv, PhaseOK
      <4> QED BY <4>1, TasksAssumption
    <3> QED BY <3>1, <3>2
  <2>3. CalmInv BY <2>2 DEF QuietInv
  <2>4. RoutedOnCurrentTopic' /\ ExchangesAdjacent' BY <2>1, <2>3, CalmTables
  <2> QED BY <2>1, <2>4 DEF CalmInv
<1>8. ASSUME UNCHANGED vars PROVE CalmInv'
  <2>1. /\ UNCHANGED <<tables, past>> /\ UNCHANGED seen /\ UNCHANGED ops /\ UNCHANGED pc
        /\ UNCHANGED outcome
    BY <1>8 DEF vars
  <2>2. CalmInv BY <1>1, <2>1
  <2>3. /\ RoutedOnCurrentTopic' /\ ExchangesAdjacent' /\ Places' = Places /\ pointer' = pointer
        /\ \A t \in Tasks, j \in Places : LastOf(t, j)' <=> LastOf(t, j)
        /\ \A i, t, role : Own(i, t, role)' <=> Own(i, t, role)
    BY <2>1, <2>2, CalmTables
  <2> QED BY <2>1, <2>2, <2>3 DEF CalmInv, Awaited
<1> QED BY <1>3, <1>4, <1>5, <1>6, <1>7, <1>8 DEF Next, Thread

LEMMA QuietInvariance == Spec => []QuietInv
<1>1. Init => Inv /\ BeforeInv /\ QuietInv
  <2> SUFFICES ASSUME Init PROVE Inv /\ BeforeInv /\ QuietInv
    OBVIOUS
  <2>1. turns = << >> /\ ops = {} /\ \A t \in Tasks : pc[t] = "start"
    BY DEF Init, Log!Init
  <2>2. BeforeInv BY <2>1 DEF BeforeInv, Places
  <2>3. CalmInv BY <2>1 DEF CalmInv, RoutedOnCurrentTopic, ExchangesAdjacent
  <2> QED BY <2>2, <2>3, InvInit DEF QuietInv
<1>2. Inv /\ BeforeInv /\ QuietInv /\ [Next]_vars => (Inv /\ BeforeInv /\ QuietInv)'
  BY InvStep, BeforeStep, QuietStep
<1> QED BY <1>1, <1>2, PTL DEF Spec

(* As long as no call is abandoned, incoming turns are stored while the    *)
(* topic they were routed against is the active one (llgm.py, _remember    *)
(* under _conversation_lock; architecture.md:70).                          *)
THEOREM RoutingStands == Spec => []RoutedUnlessAbandoned
<1>1. QuietInv => RoutedUnlessAbandoned BY DEF QuietInv, CalmInv, RoutedUnlessAbandoned
<1> QED BY <1>1, QuietInvariance, PTL

(* As long as no call is abandoned, a question and its reply are next to   *)
(* each other in their conversation (llgm.py, answer: one lock around both *)
(* appends).                                                               *)
THEOREM ExchangesStand == Spec => []AdjacentUnlessAbandoned
<1>1. QuietInv => AdjacentUnlessAbandoned BY DEF QuietInv, CalmInv, AdjacentUnlessAbandoned
<1> QED BY <1>1, QuietInvariance, PTL
=============================================================================
