--------------------------- MODULE Conversations ---------------------------
(***************************************************************************)
(* Calls of the LLGM application object (answer, ingest) that share one    *)
(* Workspace object: choosing a topic, appending the incoming turns,       *)
(* generating, appending the reply and organizing a new topic.             *)
(*                                                                         *)
(* Storage is used through PublicationLog, which EvidenceStore implements: *)
(* an append handed to a worker thread takes effect at once or not at all, *)
(* when the thread gets to it.  The coroutine that awaits it may be gone   *)
(* by then: cancelled, or timed out inside _remember.  The conversation    *)
(* lock belongs to the Workspace, a maintenance lock to each LLGM.         *)
(***************************************************************************)
EXTENDS StoreTypes, FiniteSets

CONSTANTS
    Tasks,        \* calls, each made by one asyncio task
    Kind,         \* task -> "answer", "ingest" or "read" (remember=False)
    ConvOf,       \* task -> its conversation_id
    KeyOf,        \* task -> its idempotency key (ingest only), or None
    UserText,     \* task -> the content of the incoming turn
    ReplyText,    \* task -> the content of the generated reply
    Base,         \* the base record of a new topic
    Apps,         \* LLGM instances
    AppOf,        \* task -> the LLGM it was called on
    RoutingMode,  \* "auto", or "disabled": MaintenancePolicy.mode
    MaxAbandoned, \* bound: calls cancelled or timed out
    MaxTrouble    \* bound: process deaths and storage errors

ASSUME TasksAssumption ==
    /\ Kind \in [Tasks -> {"answer", "ingest", "read"}]
    /\ ConvOf \in [Tasks -> Conversations]
    /\ KeyOf \in [Tasks -> Keys \cup {None}]
    /\ \A t \in Tasks : Kind[t] # "ingest" => KeyOf[t] = None
    /\ UserText \in [Tasks -> Contents] /\ ReplyText \in [Tasks -> Contents]
    /\ Base \in Contents
    /\ AppOf \in [Tasks -> Apps]
    /\ None \notin Tasks
    /\ None \notin [node : Nodes, created : BOOLEAN]
    /\ None \notin {"returned", "raised", "abandoned", "died"}
    /\ RoutingMode \in {"auto", "disabled"}
    /\ MaxAbandoned \in Nat /\ MaxTrouble \in Nat

VARIABLES
    sources, turns, pointer, memo,  \* the tables, as in PublicationLog
    past,       \* history: who appended each turn, and on which routing basis
    convLock,   \* Workspace._conversation_lock: the task holding it, or None
    maintLock,  \* LLGM._maintenance_lock of each application
    pc,         \* where each call is
    seen,       \* the active topic a call has read
    source,     \* the IngestResult of _remember: [node, created], or None
    ops,        \* appends handed to worker threads and not executed yet
    attempted,  \* nodes that a maintenance pass has been run on
    outcome,    \* how each finished call ended
    abandoned,  \* counter behind MaxAbandoned
    trouble     \* counter behind MaxTrouble

tables == <<sources, turns, pointer, memo>>
vars == <<tables, past, convLock, maintLock, pc, seen, source, ops, attempted,
          outcome, abandoned, trouble>>
bounds == <<abandoned, trouble>>

Log == INSTANCE PublicationLog WITH acks <- {}

Steps == {"start", "check", "active", "route", "store", "generate",
          "storeReply", "maintLock", "maintain", "done"}

Outcomes == {"returned", "raised", "abandoned", "died", None}

OpType == [owner : Tasks, role : {"user", "assistant"},
           node : Nodes \cup {None}, seen : Nodes \cup {None}]

TypeOK ==
    /\ sources \in [Nodes -> Contents \cup {None}]
    /\ turns \in Seq(TurnType)
    /\ pointer \in [Conversations -> Nodes \cup {None}]
    /\ memo \in [Slots -> MemoType \cup {None}]
    /\ past \in Seq([owner : Tasks, role : {"user", "assistant"},
                     seen : Nodes \cup {None}])
    /\ convLock \in Tasks \cup {None}
    /\ maintLock \in [Apps -> Tasks \cup {None}]
    /\ pc \in [Tasks -> Steps]
    /\ seen \in [Tasks -> Nodes \cup {None}]
    /\ source \in [Tasks -> [node : Nodes, created : BOOLEAN] \cup {None}]
    /\ ops \subseteq OpType
    /\ attempted \subseteq Nodes
    /\ outcome \in [Tasks -> Outcomes]
    /\ abandoned \in Nat /\ trouble \in Nat

Init ==
    /\ Log!Init
    /\ past = << >>
    /\ convLock = None
    /\ maintLock = [a \in Apps |-> None]
    /\ pc = [t \in Tasks |-> "start"]
    /\ seen = [t \in Tasks |-> None]
    /\ source = [t \in Tasks |-> None]
    /\ ops = {}
    /\ attempted = {}
    /\ outcome = [t \in Tasks |-> None]
    /\ abandoned = 0 /\ trouble = 0

-----------------------------------------------------------------------------
Published == {n \in Nodes : sources[n] # None}

Goto(t, step) == pc' = [pc EXCEPT ![t] = step]

(* Mutant: the maintenance lock outlives the call.                         *)
FreeLocksConversationOnly(t) ==
    /\ convLock' = IF convLock = t THEN None ELSE convLock
    /\ maintLock' = maintLock

(* A call leaves every async with block it is in.                          *)
FreeLocks(t) ==
    /\ convLock' = IF convLock = t THEN None ELSE convLock
    /\ maintLock' = [a \in Apps |-> IF maintLock[a] = t THEN None ELSE maintLock[a]]

End(t, how) ==
    /\ Goto(t, "done")
    /\ outcome' = [outcome EXCEPT ![t] = how]
    /\ FreeLocks(t)

(* The storage request behind an append.                                   *)
Request(op) ==
    [op |-> "append",
     key |-> IF op.role = "user" THEN KeyOf[op.owner] ELSE None,
     node |-> op.node,
     conv |-> ConvOf[op.owner],
     base |-> Base,
     texts |-> <<IF op.role = "user" THEN UserText[op.owner] ELSE ReplyText[op.owner]>>]

(* What calls ask of the storage is among the requests it is made for.     *)
ASSUME RequestsMade == \A op \in OpType : Request(op) \in Requests

Submit(t, role, n, basis) ==
    ops' = ops \cup {[owner |-> t, role |-> role, node |-> n, seen |-> basis]}

(* The coroutine that awaits op is still there.                            *)
Awaited(op) == pc[op.owner] = IF op.role = "user" THEN "store" ELSE "storeReply"

(* Mutant: answer holds the conversation lock for _remember only.          *)
RememberedUnlocked(t, node, created) ==
    /\ source' = [source EXCEPT ![t] = [node |-> node, created |-> created]]
    /\ Goto(t, IF Kind[t] = "answer" THEN "generate" ELSE "maintLock")
    /\ convLock' = None

(* After _remember: answer goes on under the lock; ingest leaves it before *)
(* it organizes.                                                           *)
Remembered(t, node, created) ==
    /\ source' = [source EXCEPT ![t] = [node |-> node, created |-> created]]
    /\ IF Kind[t] = "answer"
         THEN Goto(t, "generate") /\ UNCHANGED convLock
         ELSE Goto(t, "maintLock") /\ convLock' = None

(* After the reply: only a new topic is organized, under the lock.         *)
AfterReply(t) ==
    IF source[t].created
      THEN Goto(t, "maintLock") /\ UNCHANGED <<convLock, maintLock, outcome>>
      ELSE End(t, "returned")

-----------------------------------------------------------------------------
(* Mutant: routing and appending under no lock.                            *)
EnterUnlocked(t) ==
    /\ pc[t] = "start" /\ Kind[t] # "read"
    /\ Goto(t, IF KeyOf[t] = None THEN "active" ELSE "check")
    /\ UNCHANGED <<tables, past, convLock, maintLock, seen, source, ops, attempted,
                   outcome, bounds>>

(* A call that remembers takes the conversation lock; _remember starts.    *)
Enter(t) ==
    /\ pc[t] = "start" /\ Kind[t] # "read"
    /\ convLock = None
    /\ convLock' = t
    /\ Goto(t, IF KeyOf[t] = None THEN "active" ELSE "check")
    /\ UNCHANGED <<tables, past, maintLock, seen, source, ops, attempted, outcome, bounds>>

(* Mutant: the retry row is taken for the answer whatever its content.     *)
CheckRetryKeyOnly(t) ==
    LET prior == memo[<<"append", KeyOf[t]>>]
    IN  /\ pc[t] = "check"
        /\ \/ /\ prior = None
              /\ Goto(t, "active")
              /\ UNCHANGED <<convLock, source>>
           \/ /\ prior # None
              /\ Remembered(t, prior.node, FALSE)
        /\ UNCHANGED <<tables, past, maintLock, seen, ops, attempted, outcome, bounds>>

(* A keyed import first looks for its retry row.  A row with another       *)
(* fingerprint raises.                                                     *)
CheckRetry(t) ==
    LET r == Request([owner |-> t, role |-> "user", node |-> None, seen |-> None])
        prior == memo[Slot(r)]
    IN  /\ pc[t] = "check"
        /\ \/ /\ prior = None
              /\ Goto(t, "active")
              /\ UNCHANGED <<convLock, maintLock, source, outcome>>
           \/ /\ prior # None /\ prior.fp = Fingerprint(r)
              /\ Remembered(t, prior.node, FALSE)
              /\ UNCHANGED <<maintLock, outcome>>
           \/ /\ prior # None /\ prior.fp # Fingerprint(r)
              /\ End(t, "raised")
              /\ UNCHANGED source
        /\ UNCHANGED <<tables, past, seen, ops, attempted, bounds>>

(* The active topic is read.  Without routing it is the selection.         *)
ReadActive(t) ==
    /\ pc[t] = "active"
    /\ seen' = [seen EXCEPT ![t] = pointer[ConvOf[t]]]
    /\ IF RoutingMode = "disabled"
         THEN Goto(t, "store") /\ Submit(t, "user", pointer[ConvOf[t]], pointer[ConvOf[t]])
         ELSE Goto(t, "route") /\ UNCHANGED ops
    /\ UNCHANGED <<tables, past, convLock, maintLock, source, attempted, outcome, bounds>>

(* Mutant: a topic the model made up is not refused.                       *)
DecideUnchecked(t) ==
    /\ pc[t] = "route"
    /\ \E n \in Published \cup {None, Base} : Submit(t, "user", n, seen[t])
    /\ Goto(t, "store")
    /\ UNCHANGED <<tables, past, seen, convLock, maintLock, source, attempted, outcome, bounds>>

(* The model chooses a searched candidate, the active topic or a new one,  *)
(* and the append is handed to a thread.                                   *)
Decide(t) ==
    /\ pc[t] = "route"
    /\ \E n \in Published \cup {None} : Submit(t, "user", n, seen[t])
    /\ Goto(t, "store")
    /\ UNCHANGED <<tables, past, seen, convLock, maintLock, source, attempted, outcome, bounds>>

(* Routing exhausts its budget, or the decision is malformed.              *)
RouteFails(t) ==
    /\ pc[t] = "route"
    /\ End(t, "raised")
    /\ UNCHANGED <<tables, past, seen, source, ops, attempted, bounds>>

(* The coroutine resumes with the result of its append.                    *)
Resume(op, n, created) ==
    IF ~Awaited(op)
      THEN UNCHANGED <<pc, source, convLock, maintLock, outcome>>
      ELSE IF op.role = "user"
             THEN Remembered(op.owner, n, created) /\ UNCHANGED <<maintLock, outcome>>
             ELSE AfterReply(op.owner) /\ UNCHANGED source

(* A worker thread runs an append: the transaction commits.                *)
Attach(op, n) ==
    LET r == Request(op)
    IN  /\ op \in ops
        /\ Log!AppendTurns(r, n)
        /\ past' = Append(past, [owner |-> op.owner, role |-> op.role, seen |-> op.seen])
        /\ ops' = ops \ {op}
        /\ Resume(op, n, op.node = None)
        /\ UNCHANGED <<seen, attempted, bounds>>

(* Mutant: a repeated append makes its node the active topic again.        *)
RepeatMovesPointer(op) ==
    LET r == Request(op)
        prior == memo[Slot(r)]
    IN  /\ op \in ops /\ r.key # None /\ prior # None
        /\ prior.fp = Fingerprint(r)
        /\ pointer' = [pointer EXCEPT ![r.conv] = prior.node]
        /\ ops' = ops \ {op}
        /\ Resume(op, prior.node, FALSE)
        /\ UNCHANGED <<sources, turns, memo, past, seen, attempted, bounds>>

(* A worker thread runs an append whose key is recorded: the recorded node *)
(* is returned, or the fingerprints differ and it raises.                  *)
Repeat(op) ==
    LET r == Request(op)
        prior == memo[Slot(r)]
    IN  /\ op \in ops /\ r.key # None /\ prior # None
        /\ ops' = ops \ {op}
        /\ IF prior.fp = Fingerprint(r)
             THEN Resume(op, prior.node, FALSE)
             ELSE IF Awaited(op)
                    THEN End(op.owner, "raised") /\ UNCHANGED source
                    ELSE UNCHANGED <<pc, source, convLock, maintLock, outcome>>
        /\ UNCHANGED <<tables, past, seen, attempted, bounds>>

(* Mutant: the reply goes to whatever topic is active by now.              *)
GenerateTextToPointer(t) ==
    /\ pc[t] = "generate"
    /\ Submit(t, "assistant", pointer[ConvOf[t]], seen[t])
    /\ Goto(t, "storeReply")
    /\ UNCHANGED <<tables, past, seen, convLock, maintLock, source, attempted, outcome, bounds>>

(* Generation returns text, and the reply is handed to a thread, for the   *)
(* topic of the user's turn.                                               *)
GenerateText(t) ==
    /\ pc[t] = "generate"
    /\ Submit(t, "assistant", source[t].node, seen[t])
    /\ Goto(t, "storeReply")
    /\ UNCHANGED <<tables, past, seen, convLock, maintLock, source, attempted, outcome, bounds>>

(* Generation returns no text: nothing is appended.                        *)
GenerateNothing(t) ==
    /\ pc[t] = "generate"
    /\ AfterReply(t)
    /\ UNCHANGED <<tables, past, seen, source, ops, attempted, bounds>>

GenerateFails(t) ==
    /\ pc[t] = "generate"
    /\ End(t, "raised")
    /\ UNCHANGED <<tables, past, seen, source, ops, attempted, bounds>>

(* organize takes the maintenance lock of its application.                 *)
StartMaintenance(t) ==
    /\ pc[t] = "maintLock"
    /\ maintLock[AppOf[t]] = None
    /\ maintLock' = [maintLock EXCEPT ![AppOf[t]] = t]
    /\ Goto(t, "maintain")
    /\ UNCHANGED <<tables, past, convLock, seen, source, ops, attempted, outcome, bounds>>

(* Mutant: only an import that created its node is organized.              *)
MaintainCreatedOnly(t) ==
    /\ pc[t] = "maintain"
    /\ attempted' = attempted \cup (IF source[t].created THEN {source[t].node} ELSE {})
    /\ End(t, "returned")
    /\ UNCHANGED <<tables, past, seen, source, ops, bounds>>

(* _organize returns whatever happened inside it: failures are a status.   *)
Maintain(t) ==
    /\ pc[t] = "maintain"
    /\ attempted' = attempted \cup {source[t].node}
    /\ End(t, "returned")
    /\ UNCHANGED <<tables, past, seen, source, ops, bounds>>

(* answer(remember=False) reads the pointer and generates under no lock.   *)
StartRead(t) ==
    /\ pc[t] = "start" /\ Kind[t] = "read"
    /\ seen' = [seen EXCEPT ![t] = pointer[ConvOf[t]]]
    /\ Goto(t, "generate")
    /\ UNCHANGED <<tables, past, convLock, maintLock, source, ops, attempted, outcome, bounds>>

EndRead(t) ==
    /\ pc[t] = "generate" /\ Kind[t] = "read"
    /\ \E how \in {"returned", "raised"} : End(t, how)
    /\ UNCHANGED <<tables, past, seen, source, ops, attempted, bounds>>

-----------------------------------------------------------------------------
(* The task of a call is cancelled, or the timeout inside _remember fires. *)
(* Its locks are released.  An append already on a thread goes on.         *)
Abandon(t) ==
    /\ pc[t] \notin {"start", "done"}
    /\ abandoned < MaxAbandoned
    /\ abandoned' = abandoned + 1
    /\ End(t, "abandoned")
    /\ \E kept \in SUBSET {op \in ops : op.owner = t} :
         ops' = {op \in ops : op.owner # t} \cup kept
    /\ UNCHANGED <<tables, past, seen, source, attempted, trouble>>

(* A storage thread raises: disk full, or the database stays busy.         *)
StorageFails(op) ==
    /\ op \in ops
    /\ trouble < MaxTrouble
    /\ trouble' = trouble + 1
    /\ ops' = ops \ {op}
    /\ IF Awaited(op)
         THEN End(op.owner, "raised")
         ELSE UNCHANGED <<pc, outcome, convLock, maintLock>>
    /\ UNCHANGED <<tables, past, seen, source, attempted, abandoned>>

(* The process dies; calls not yet made are made to its successor.         *)
Crash ==
    /\ trouble < MaxTrouble
    /\ trouble' = trouble + 1
    /\ pc' = [t \in Tasks |-> IF pc[t] = "start" THEN "start" ELSE "done"]
    /\ outcome' = [t \in Tasks |->
                     IF pc[t] \in {"start", "done"} THEN outcome[t] ELSE "died"]
    /\ convLock' = None
    /\ maintLock' = [a \in Apps |-> None]
    /\ ops' = {}
    /\ UNCHANGED <<tables, past, seen, source, attempted, abandoned>>

-----------------------------------------------------------------------------
Call(t) ==
    \/ Enter(t) \/ CheckRetry(t) \/ ReadActive(t) \/ Decide(t) \/ RouteFails(t)
    \/ Kind[t] = "answer" /\ (GenerateText(t) \/ GenerateNothing(t) \/ GenerateFails(t))
    \/ StartMaintenance(t) \/ Maintain(t) \/ StartRead(t) \/ EndRead(t)

Thread(op) == Repeat(op) \/ \E n \in Nodes : Attach(op, n)

Next ==
    \/ \E t \in Tasks : Call(t) \/ Abandon(t)
    \/ \E op \in ops : Thread(op) \/ StorageFails(op)
    \/ Crash

Spec == Init /\ [][Next]_vars

(* The event loop runs every ready task and the executor every operation.  *)
(* Calls are finitely many, so a lock that is waited for becomes free for  *)
(* good in the end: weak fairness is enough.                               *)
FairSpec ==
    /\ Spec
    /\ \A t \in Tasks : WF_vars(Call(t))
    /\ WF_vars(\E op \in ops : Thread(op))

-----------------------------------------------------------------------------
SameConversation(i, j) == ConvOf[past[i].owner] = ConvOf[past[j].owner]

(* The last turn of i's conversation before i, 0 if there is none.         *)
Before(i) ==
    LET earlier == {j \in 1 .. i - 1 : SameConversation(i, j)}
    IN  IF earlier = {} THEN 0 ELSE CHOOSE j \in earlier : \A k \in earlier : k <= j

(* Mutation of a conversation is serialized for callers that share its     *)
(* Workspace (architecture.md:70): incoming turns are stored while the     *)
(* topic they were routed against is still the active one.                 *)
RoutedOnCurrentTopic ==
    \A i \in 1 .. Len(turns) :
      past[i].role = "user" =>
        past[i].seen = IF Before(i) = 0 THEN None ELSE turns[Before(i)].node

(* No call has been cancelled or has timed out.                            *)
NoneAbandoned == \A t \in Tasks : outcome[t] # "abandoned"

(* As long as no call is abandoned, incoming turns are stored while the    *)
(* topic they were routed against is the active one, also around storage   *)
(* errors and a restart (llgm.py, _remember under _conversation_lock).     *)
RoutedUnlessAbandoned == NoneAbandoned => RoutedOnCurrentTopic

(* A question and its reply are next to each other in their conversation:  *)
(* no other call's turn comes between them (llgm.py, answer).              *)
ExchangesAdjacent ==
    \A i \in 1 .. Len(turns) :
      past[i].role = "assistant" =>
        /\ Before(i) # 0
        /\ past[Before(i)].owner = past[i].owner
        /\ past[Before(i)].role = "user"

(* As long as no call is abandoned, nobody's turn comes between a question *)
(* and its reply (llgm.py, answer: one lock around both appends).          *)
AdjacentUnlessAbandoned == NoneAbandoned => ExchangesAdjacent

(* A reply is stored once, after its question and in the question's topic, *)
(* even when calls were abandoned and their appends came late.             *)
ReplyInTopic ==
    \A i \in 1 .. Len(turns) :
      past[i].role = "assistant" =>
        /\ \E j \in 1 .. i - 1 :
             /\ past[j].owner = past[i].owner /\ past[j].role = "user"
             /\ turns[j].node = turns[i].node
        /\ \A j \in 1 .. Len(turns) :
             past[j].owner = past[i].owner /\ past[j].role = "assistant" => j = i

(* The active topic is the topic of the conversation's last stored turn,   *)
(* also after a restart.                                                   *)
PointerIsLatest ==
    \A v \in Conversations :
      LET mine == {i \in 1 .. Len(turns) : ConvOf[past[i].owner] = v}
      IN  IF mine = {}
            THEN pointer[v] = None
            ELSE \E i \in mine : (\A j \in mine : j <= i) /\ pointer[v] = turns[i].node

(* Replies and pointers are right although calls are abandoned and their   *)
(* appends come late (llgm.py, answer; conversation.py, the pointer row).  *)
StoredInTopic == TypeOK /\ ReplyInTopic /\ PointerIsLatest

(* Incoming turns with one key are stored once, however often the import   *)
(* is repeated, timed out or overtaken by its own late append.             *)
KeyedOnce ==
    \A i, j \in 1 .. Len(turns) :
      /\ past[i].role = "user" /\ past[j].role = "user"
      /\ KeyOf[past[i].owner] # None /\ KeyOf[past[i].owner] = KeyOf[past[j].owner]
      => i = j

(* A call that has got past _remember has its incoming turn stored on the  *)
(* node it goes on with, whatever happens to it then: generation failure,  *)
(* cancellation or a restart (llgm.py:496).                                *)
RememberedIsStored ==
    \A t \in Tasks :
      source[t] # None =>
        \E i \in 1 .. Len(turns) :
          turns[i].node = source[t].node /\ turns[i].text = UserText[t]

(* An import that returns has had its node organized: also the retry of an *)
(* import whose first attempt died before it could.                        *)
ImportIsMaintained ==
    \A t \in Tasks :
      outcome[t] = "returned" /\ Kind[t] = "ingest" => source[t].node \in attempted

(* What a caller goes on with, or is told, has been done before: its turn  *)
(* is stored, its import organized (llgm.py, _remember and ingest).        *)
RememberedIsKept == RememberedIsStored /\ ImportIsMaintained

(* Every call that is made returns or raises: the conversation lock and    *)
(* the maintenance locks are never waited for in a circle or left behind.  *)
EveryCallReturns == \A t \in Tasks : <>(pc[t] = "done")
=============================================================================
