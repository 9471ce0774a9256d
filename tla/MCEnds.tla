-------------------------------- MODULE MCEnds --------------------------------
(***************************************************************************)
(* Liveness, on small instances of the components that wait for one        *)
(* another: storage threads that queue for an instance lock and SQLite's   *)
(* write lock, keyed imports and an answer that are abandoned, and nested  *)
(* branches with one model permit.  A behaviour is one of one part, chosen *)
(* in its first state; x1, x2, ... are that part's variables and the       *)
(* others stay unused.                                                     *)
(***************************************************************************)
EXTENDS Integers, Sequences, Functions, TLC

CONSTANTS Parts,  \* the parts to explore
          None

VARIABLES part, x1, x2, x3, x4, x5, x6, x7, x8, x9, x10, x11, x12, x13, x14, x15, x16, x17,
          x18, x19, x20, x21

After21 == <<part>>
After18 == <<part, x19, x20, x21>>
After15 == <<part, x16, x17, x18, x19, x20, x21>>
vars == <<x1, x2, x3, x4, x5, x6, x7, x8, x9, x10, x11, x12, x13, x14, x15, After15>>

None18 == x19 = 0 /\ x20 = 0 /\ x21 = 0
None15 == x16 = 0 /\ x17 = 0 /\ x18 = 0 /\ None18

-----------------------------------------------------------------------------
\* Two threads of one instance and one of another: an import without identity, and an
\* append that is refused until the import's node is published, under one key.
QueueCalls == <<"c1", "c2", "c3">>
Import == [op |-> "ingest", key |-> "k", node |-> None, conv |-> "chat", base |-> "x",
           texts |-> <<>>]
Turns == [op |-> "append", key |-> "k", node |-> "n", conv |-> "chat", base |-> "z",
          texts |-> <<"y">>]

Queue == INSTANCE EvidenceStore WITH
    Nodes <- {"note", "n"}, ImportIds <- {"note"}, Conversations <- {"chat"},
    Contents <- {"x", "y", "z"}, Keys <- {"k"}, Requests <- {Import, Turns},
    Calls <- Range(QueueCalls), Instances <- {"i", "j"},
    InstanceOf <- [c1 |-> "i", c2 |-> "i", c3 |-> "j"], MaxCalls <- 3, MaxTrouble <- 1,
    blobs <- x1, sources <- x2, turns <- x3, pointer <- x4, memo <- x5, changes <- x6,
    writer <- x7, lock <- x8, closed <- x9, pc <- x10, request <- x11, stored <- x12,
    target <- x13, result <- x14, waiting <- x15, acks <- x16, made <- x17, trouble <- x18

\* An answer, an import, its retry through another application, and its key used again
\* for other text; one of them is abandoned.
Tasks == <<"ask", "imp", "again", "other">>

Calls == INSTANCE Conversations WITH
    Nodes <- {"n", "m"}, ImportIds <- {}, Conversations <- {"chat"},
    Contents <- {"base", "u1", "u2", "u3", "a"}, Keys <- {"k"},
    Requests <- {[op |-> "append", key |-> key, node |-> node, conv |-> "chat", base |-> "base",
                  texts |-> <<text>>] :
                     key \in {"k", None}, node \in {"n", "m", None},
                     text \in {"u1", "u2", "u3", "a"}},
    Tasks <- Range(Tasks),
    Kind <- [t \in Range(Tasks) |-> IF t = "ask" THEN "answer" ELSE "ingest"],
    ConvOf <- [t \in Range(Tasks) |-> "chat"],
    KeyOf <- [t \in Range(Tasks) |-> IF t = "ask" THEN None ELSE "k"],
    UserText <- [ask |-> "u1", imp |-> "u2", again |-> "u2", other |-> "u3"],
    ReplyText <- [t \in Range(Tasks) |-> "a"], Base <- "base", Apps <- {"app", "app2"},
    AppOf <- [t \in Range(Tasks) |-> IF t = "again" THEN "app2" ELSE "app"],
    RoutingMode <- "auto", MaxAbandoned <- 1, MaxTrouble <- 1,
    sources <- x1, turns <- x2, pointer <- x3, memo <- x4, past <- x5, convLock <- x6,
    maintLock <- x7, pc <- x8, seen <- x9, source <- x10, ops <- x11, attempted <- x12,
    outcome <- x13, abandoned <- x14, trouble <- x15

\* A seed and its child, which waits for the permit of the seed's last call.
Branches == INSTANCE NodeRuntime WITH
    Nodes <- {"A", "B"}, Seeds <- {"A"}, MaxInvocations <- 2, MaxModelCalls <- 7,
    MaxReaderCalls <- 6, Spent <- 0, MaxOperations <- 9, MaxSteps <- 1, MaxDepth <- 1,
    MaxConcurrency <- 1,
    calls <- x1, readerCalls <- x2, operations <- x3, clock <- x4, fatal <- x5, run <- x6,
    queued <- x7, invocations <- x8, reservations <- x9, pc <- x10, parent <- x11,
    ancestry <- x12, steps <- x13, visible <- x14, inspected <- x15, rejected <- x16,
    gaps <- x17, delivered <- x18, citations <- x19, required <- x20, final <- x21

-----------------------------------------------------------------------------
Init ==
    /\ part \in Parts
    /\ CASE part = "queue" -> Queue!Init /\ None18
         [] part = "calls" -> Calls!Init /\ None15
         [] part = "branches" -> Branches!Init

Next ==
    \/ part = "queue" /\ Queue!Next /\ UNCHANGED After18
    \/ part = "calls" /\ Calls!Next /\ UNCHANGED After15
    \/ part = "branches" /\ Branches!Next /\ UNCHANGED After21

\* What the fairness of each part is about, as its module states and justifies it.  Parts
\* do not mix, so that one condition on the k-th action of all of them is one on each.
Ready(k) ==
    \/ part = "queue" /\ (k <= 3 /\ Queue!Thread(QueueCalls[k])) /\ UNCHANGED After18
    \/ /\ part = "calls"
       /\ (k <= 4 /\ Calls!Call(Tasks[k])) \/ (k = 5 /\ \E op \in x11 : Calls!Thread(op))
       /\ UNCHANGED After15
    \/ /\ part = "branches"
       /\ \/ k <= 2 /\ Branches!Host(k)
          \/ k = 4 /\ Branches!Seeding
          \/ k = 5 /\ Branches!Main
       /\ UNCHANGED After21

WallTime == part = "branches" /\ Branches!Tick /\ UNCHANGED After21
Prompt(i) == part = "branches" /\ Branches!Prompt(i) /\ UNCHANGED After21

FairSpec ==
    /\ Init /\ [][Next]_vars
    /\ \A k \in 1 .. 5 : WF_vars(Ready(k))
    /\ WF_vars(WallTime) \/ \A i \in 1 .. 2 : WF_vars(Prompt(i))

-----------------------------------------------------------------------------
Over ==
    CASE part = "queue" -> \A c \in Range(QueueCalls) : x10[c] = "idle"
      [] part = "calls" -> \A t \in Range(Tasks) : x8[t] = "done"
      [] part = "branches" -> x6 \in {"answered", "stopped", "raised"}

\* Whatever was begun ends.  A storage call, although threads queue for the instance lock
\* and SQLite's write lock and one of them fails or dies (EvidenceStore); a call of the
\* facade, whichever is abandoned or fails while it holds a lock (Conversations); a run,
\* by its deadlines although models and readers hang, and without any deadline if they
\* answer, so that nested branches never wait for one permit in a circle (NodeRuntime).
EverythingEnds == []<>Over
==============================================================================
