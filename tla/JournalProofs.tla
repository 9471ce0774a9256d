--------------------------- MODULE JournalProofs ---------------------------
(***************************************************************************)
(* Proofs about the journals of a workspace, for all contents and any      *)
(* number of entries.                                                      *)
(***************************************************************************)
EXTENDS Journal, FiniteSetTheorems, WellFoundedInduction, TLAPS

-----------------------------------------------------------------------------
(* Compaction.  A new entry that corrects nothing leaves alone what the    *)
(* corrections so far protect, so compaction may start from what it left   *)
(* the last time.                                                          *)

(* An entry that is not named by a correction, nor is one, does not change *)
(* which slots are protected, whether or not dominated entries are still   *)
(* there (workspace.py, _compact_entries).                                 *)
LEMMA ProtectedByCorrections ==
    ASSUME NEW E, NEW G, NEW new, NEW s,
           G \subseteq E,
           new.is.kind # "correction",
           \A c \in E : c.is.target # new.seq,
           \A c \in E : c.is.kind = "correction" => c \in G,
           \A c, t \in E : c.is.kind = "correction" /\ c.is.target = t.seq => t \in G
    PROVE  Protected(s, G \cup {new}) <=> Protected(s, E)
<1>1. ASSUME Protected(s, G \cup {new}) PROVE Protected(s, E)
  <2>1. PICK c, t \in G \cup {new} :
               c.is.kind = "correction" /\ c.is.target = t.seq /\ Slot(t) = s
    BY <1>1 DEF Protected
  <2>2. c \in E
    BY <2>1
  <2>3. t \in E
    BY <2>1, <2>2
  <2> QED
    BY <2>1, <2>2, <2>3 DEF Protected
<1>2. ASSUME Protected(s, E) PROVE Protected(s, G \cup {new})
  BY <1>2 DEF Protected
<1> QED
  BY <1>1, <1>2

(* Compaction keeps every correction and everything a correction names.    *)
LEMMA CorrectionsKept ==
    ASSUME NEW E
    PROVE  /\ Compact(E) \subseteq E
           /\ \A c \in E : c.is.kind = "correction" => c \in Compact(E)
           /\ \A c, t \in E :
                c.is.kind = "correction" /\ c.is.target = t.seq => t \in Compact(E)
BY DEF Compact, Dominated, Compactable, Protected

(* Compaction is incremental: with an entry that corrects nothing it gives *)
(* the same from the rows it kept as from everything that was ever there.  *)
LEMMA CompactIncremental ==
    ASSUME NEW E, NEW new,
           new.is.kind # "correction",
           new.seq \in Nat,
           \A x \in E : x.seq \in Nat /\ x.seq < new.seq,
           \A x \in E : x.is.target # new.seq
    PROVE  Compact(Compact(E) \cup {new}) = Compact(E \cup {new})
<1> DEFINE K == Compact(E) \cup {new}
           A == E \cup {new}
<1>1. Compact(E) \subseteq E
  BY CorrectionsKept
<1>2. \A x : Compactable(x, K) <=> Compactable(x, E)
  <2> TAKE x
  <2>1. Protected(Slot(x), K) <=> Protected(Slot(x), E)
    BY CorrectionsKept, ProtectedByCorrections
  <2> QED
    BY <2>1 DEF Compactable
<1>3. \A x : Compactable(x, A) <=> Compactable(x, E)
  <2> TAKE x
  <2>1. Protected(Slot(x), A) <=> Protected(Slot(x), E)
    BY ProtectedByCorrections
  <2> QED
    BY <2>1 DEF Compactable
<1>4. ASSUME NEW x \in Compact(K) PROVE x \in Compact(A)
  <2>1. x \in A /\ ~Dominated(x, K)
    BY <1>1, <1>4 DEF Compact
  <2>2. SUFFICES ASSUME Dominated(x, A) PROVE FALSE
    BY <2>1 DEF Compact
  <2>3. PICK o \in A : /\ o.is.kind = "overwrite" /\ Compactable(o, A)
                       /\ Slot(o) = Slot(x) /\ Applies(o) = Applies(x) /\ x.seq < o.seq
    BY <2>2 DEF Dominated
  <2>4. Compactable(x, A)
    BY <2>2 DEF Dominated
  <2>5. CASE o = new
    BY <1>2, <1>3, <2>1, <2>3, <2>4, <2>5 DEF Dominated
  <2>6. CASE o \in E
    <3>1. x \in E
      BY <2>1, <2>3, <2>6
    <3>2. Dominated(x, E)
      BY <1>3, <2>3, <2>4, <2>6 DEF Dominated
    <3>3. x \in Compact(E)
      BY <1>4, <2>1, <2>3, <2>6 DEF Compact
    <3> QED
      BY <3>2, <3>3 DEF Compact
  <2> QED
    BY <2>3, <2>5, <2>6
<1>5. ASSUME NEW x \in Compact(A) PROVE x \in Compact(K)
  <2>1. x \in A /\ ~Dominated(x, A)
    BY <1>5 DEF Compact
  <2>2. ~Dominated(x, E) /\ ~Dominated(x, K)
    BY <1>1, <1>2, <1>3, <2>1 DEF Dominated
  <2>3. x \in K
    BY <2>1, <2>2 DEF Compact
  <2> QED
    BY <2>2, <2>3 DEF Compact
<1> QED
  BY <1>4, <1>5

-----------------------------------------------------------------------------
(* Numbered entries.                                                       *)

LEMMA NumbersInverse ==
    ASSUME NEW h, NEW E, E \subseteq Entries(h)
    PROVE  Numbered(h, Numbers(E)) = E
BY DEF Numbered, Numbers, Entries, Entry

LEMMA NumbersBounded ==
    ASSUME NEW h, NEW E, E \subseteq Entries(h)
    PROVE  Numbers(E) \in SUBSET (1 .. Len(h))
<1>1. \A e \in E : e.seq \in 1 .. Len(h)
  BY DEF Entries, Numbered, Entry
<1> QED
  BY <1>1 DEF Numbers

(* An append leaves the entries before it as they are and adds one.        *)
LEMMA EntriesGrow ==
    ASSUME NEW h \in Seq(ContentType), NEW content \in ContentType
    PROVE  /\ Entries(Append(h, content)) = Entries(h) \cup {Entry(Len(h) + 1, content)}
           /\ \A numbers \in SUBSET (1 .. Len(h)) :
                Numbered(Append(h, content), numbers \cup {Len(h) + 1})
                  = Numbered(h, numbers) \cup {Entry(Len(h) + 1, content)}
<1> DEFINE g == Append(h, content)
<1>1. /\ g \in Seq(ContentType) /\ Len(g) = Len(h) + 1 /\ Len(h) \in Nat
      /\ \A i \in 1 .. Len(h) : g[i] = h[i]
      /\ g[Len(h) + 1] = content
  OBVIOUS
<1>2. ASSUME NEW numbers \in SUBSET (1 .. Len(h))
      PROVE  Numbered(g, numbers \cup {Len(h) + 1})
               = Numbered(h, numbers) \cup {Entry(Len(h) + 1, content)}
  BY <1>1, <1>2 DEF Numbered
<1>3. 1 .. Len(g) = (1 .. Len(h)) \cup {Len(h) + 1}
  BY <1>1
<1>4. Entries(g) = Entries(h) \cup {Entry(Len(h) + 1, content)}
  BY <1>2, <1>3 DEF Entries
<1> QED
  BY <1>2, <1>4

-----------------------------------------------------------------------------
(* The inductive invariant: an answer, and a retry row, tell of an entry   *)
(* that is there, with what was asked and where it was expected.           *)

Holds(a) ==
    /\ a.seq \in 1 .. Len(history[a.request.node])
    /\ history[a.request.node][a.seq] = a.request.is
    /\ a.request.expected # None => a.seq = a.request.expected + 1

MemoHolds ==
    \A k \in Keys : memo[k] # None => Holds(memo[k]) /\ memo[k].request.key = k

AcksHold ==
    \A a \in acks :
      Holds(a) /\ (a.request.key # None => memo[a.request.key] = a)

JournalInv == TypeOK /\ OperationalExact /\ TargetsEarlier /\ MemoHolds /\ AcksHold

LEMMA RequestFacts ==
    ASSUME NEW r \in Requests
    PROVE  /\ r.node \in Nodes
           /\ r.key \in Keys \cup {None}
           /\ r.expected \in Nat \cup {None}
           /\ r.is \in ContentType
           /\ r.is.kind = "correction" => r.is.target # 0
           /\ r # None
BY JournalAssumption DEF RequestType

LEMMA InitInv == Init => JournalInv
<1> SUFFICES ASSUME Init PROVE JournalInv
  OBVIOUS
<1>1. TypeOK
  BY DEF Init, TypeOK
<1>2. ASSUME NEW n \in Nodes PROVE Entries(history[n]) = {}
  BY DEF Init, Entries, Numbered
<1>3. Numbers(Compact({})) = {}
  BY DEF Numbers, Compact
<1>4. OperationalExact
  BY <1>2, <1>3 DEF Init, OperationalExact
<1>5. TargetsEarlier
  BY DEF Init, TargetsEarlier
<1> QED
  BY <1>1, <1>4, <1>5 DEF Init, JournalInv, MemoHolds, AcksHold

-----------------------------------------------------------------------------
(* The steps.                                                              *)

(* What was answered before a step is still true after it.                 *)
LEMMA HoldsStays ==
    ASSUME TypeOK, NEW r \in Requests, NEW c \in ContentType,
           history' = [history EXCEPT ![r.node] = Append(@, c)],
           NEW a \in MemoType, Holds(a)
    PROVE  Holds(a)'
<1>1. a.request \in Requests
  BY DEF MemoType
<1>2. history[a.request.node] \in Seq(ContentType)
  BY <1>1, RequestFacts DEF TypeOK
<1>3. /\ Len(history[a.request.node]) <= Len(history'[a.request.node])
      /\ \A i \in 1 .. Len(history[a.request.node]) :
           history'[a.request.node][i] = history[a.request.node][i]
  <2>1. CASE a.request.node = r.node
    BY <1>1, <1>2, <2>1, RequestFacts DEF TypeOK
  <2>2. CASE a.request.node # r.node
    BY <1>1, <1>2, <2>2, RequestFacts DEF TypeOK
  <2> QED
    BY <2>1, <2>2
<1>4. a.seq \in 1 .. Len(history'[a.request.node])
  <2>1. /\ Len(history[a.request.node]) \in Nat
        /\ Len(history'[a.request.node]) \in Nat
    BY <1>1, <1>2, RequestFacts DEF TypeOK
  <2> QED
    BY <1>3, <2>1 DEF Holds
<1> QED
  BY <1>3, <1>4 DEF Holds

LEMMA ReplayInv ==
    ASSUME JournalInv, NEW r \in Requests, Replay(r)
    PROVE  JournalInv'
<1> USE DEF JournalInv
<1>1. r.key \in Keys /\ memo[r.key] # None /\ memo[r.key].request = r
  BY RequestFacts DEF Replay, Prior, Conflict
<1>2. memo[r.key] \in MemoType
  BY <1>1 DEF TypeOK
<1>3. memo[r.key] = [request |-> r, seq |-> memo[r.key].seq]
  BY <1>1, <1>2 DEF MemoType
<1>4. acks' = acks \cup {memo[r.key]}
  BY <1>1, <1>3 DEF Replay, Answer, Prior
<1>5. TypeOK'
  BY <1>2, <1>4 DEF TypeOK, Replay
<1>6. OperationalExact' /\ TargetsEarlier' /\ MemoHolds'
  BY DEF Replay, OperationalExact, TargetsEarlier, MemoHolds, Holds
<1>7. AcksHold'
  BY <1>1, <1>4 DEF Replay, AcksHold, MemoHolds, Holds
<1> QED
  BY <1>5, <1>6, <1>7

(* Rebuilding the operational rows finds what is there already.            *)
LEMMA CompactJournalInv ==
    ASSUME JournalInv, NEW n \in Nodes, CompactJournal(n)
    PROVE  JournalInv'
<1>1. operational' = operational
  BY DEF JournalInv, OperationalExact, CompactJournal, TypeOK
<1> QED
  BY <1>1 DEF CompactJournal, JournalInv, TypeOK, OperationalExact, TargetsEarlier,
              MemoHolds, AcksHold, Holds

LEMMA AppendFacts ==
    ASSUME JournalInv, NEW r \in Requests, AppendEntry(r)
    PROVE  LET n == r.node
               h == Append(history[n], r.is)
           IN  /\ n \in Nodes /\ history[n] \in Seq(ContentType)
               /\ h \in Seq(ContentType) /\ Len(h) = Len(history[n]) + 1
               /\ Len(history[n]) \in Nat
               /\ history' = [history EXCEPT ![n] = Append(@, r.is)]
               /\ history'[n] = h
               /\ \A m \in Nodes : m # n => history'[m] = history[m]
               /\ r.is \in ContentType /\ r.is.target \in Nat /\ r.is.target < Len(h)
               /\ r.expected # None => Len(h) = r.expected + 1
               /\ [request |-> r, seq |-> Len(h)] \in MemoType
<1> DEFINE n == r.node
           h == Append(history[n], r.is)
<1>1. n \in Nodes /\ r.is \in ContentType /\ history[n] \in Seq(ContentType)
  BY RequestFacts DEF JournalInv, TypeOK
<1>2. h \in Seq(ContentType) /\ Len(h) = Len(history[n]) + 1 /\ Len(history[n]) \in Nat
  BY <1>1
<1>3. /\ history' = [history EXCEPT ![n] = h]
      /\ Resolves(r) /\ ~Stale(r)
  BY DEF AppendEntry
<1>4. r.is.target \in Nat
  BY <1>1 DEF ContentType
<1>5. r.is.target < Len(h)
  BY <1>2, <1>3, <1>4 DEF Resolves
<1>6. r.expected # None => Len(h) = r.expected + 1
  BY <1>2, <1>3 DEF Stale
<1>7. [request |-> r, seq |-> Len(h)] \in MemoType
  BY <1>2 DEF MemoType
<1>8. /\ history'[n] = h
      /\ \A m \in Nodes : m # n => history'[m] = history[m]
  BY <1>1, <1>3 DEF JournalInv, TypeOK
<1> QED
  BY <1>1, <1>2, <1>3, <1>4, <1>5, <1>6, <1>7, <1>8

LEMMA AppendExact ==
    ASSUME JournalInv, NEW r \in Requests, AppendEntry(r)
    PROVE  OperationalExact'
<1> DEFINE n == r.node
           h == Append(history[n], r.is)
           E == Entries(history[n])
           new == Entry(Len(h), r.is)
<1>1. /\ n \in Nodes /\ history[n] \in Seq(ContentType)
      /\ Len(h) = Len(history[n]) + 1 /\ Len(history[n]) \in Nat
      /\ r.is \in ContentType
      /\ history'[n] = h
      /\ \A m \in Nodes : m # n => history'[m] = history[m]
  BY AppendFacts
<1>2. operational' =
        [operational EXCEPT ![n] = Reconciled(h, operational[n] \cup {Len(h)}, r.is)]
  BY DEF AppendEntry
<1>3. operational \in [Nodes -> SUBSET Nat] /\ operational[n] = Numbers(Compact(E))
  BY <1>1 DEF JournalInv, TypeOK, OperationalExact
<1>4. /\ Entries(h) = E \cup {new}
      /\ \A numbers \in SUBSET (1 .. Len(history[n])) :
           Numbered(h, numbers \cup {Len(h)}) = Numbered(history[n], numbers) \cup {new}
  <2> HIDE DEF n
  <2>1. ASSUME NEW old \in Seq(ContentType)
        PROVE  /\ Entries(Append(old, r.is))
                    = Entries(old) \cup {Entry(Len(old) + 1, r.is)}
               /\ \A numbers \in SUBSET (1 .. Len(old)) :
                    Numbered(Append(old, r.is), numbers \cup {Len(old) + 1})
                      = Numbered(old, numbers) \cup {Entry(Len(old) + 1, r.is)}
    BY <1>1, <2>1, EntriesGrow
  <2>2. /\ Entries(h) = E \cup {Entry(Len(history[n]) + 1, r.is)}
        /\ \A numbers \in SUBSET (1 .. Len(history[n])) :
             Numbered(h, numbers \cup {Len(history[n]) + 1})
               = Numbered(history[n], numbers) \cup {Entry(Len(history[n]) + 1, r.is)}
    BY <1>1, <2>1
  <2>3. Len(h) = Len(history[n]) + 1
    BY <1>1
  <2> QED
    BY <2>2, <2>3
<1>5. Reconciled(h, operational[n] \cup {Len(h)}, r.is) = Numbers(Compact(Entries(h)))
  <2>1. CASE r.is.kind = "correction"
    BY <2>1 DEF Reconciled
  <2>2. CASE r.is.kind # "correction"
    <3>1. Compact(E) \subseteq E
      BY CorrectionsKept
    <3>2. Numbers(Compact(E)) \in SUBSET (1 .. Len(history[n]))
      BY <3>1, NumbersBounded
    <3>3. Numbered(history[n], Numbers(Compact(E))) = Compact(E)
      BY <3>1, NumbersInverse
    <3>4. Numbered(h, operational[n] \cup {Len(h)}) = Compact(E) \cup {new}
      BY <1>3, <1>4, <3>2, <3>3
    <3>5. new.is.kind # "correction" /\ new.seq \in Nat
      BY <1>1, <2>2 DEF Entry
    <3>6. \A x \in E : x.seq \in Nat /\ x.seq < new.seq /\ x.is.target # new.seq
      <4> TAKE x \in E
      <4>1. PICK i \in 1 .. Len(history[n]) : x = Entry(i, history[n][i])
        BY DEF Entries, Numbered
      <4>2. x.seq = i /\ x.is = history[n][i] /\ new.seq = Len(h)
        BY <4>1 DEF Entry
      <4>3. history[n][i].target < i
        BY <1>1, <4>1 DEF JournalInv, TargetsEarlier
      <4>4. history[n][i].target \in Nat
        <5>1. history[n][i] \in ContentType
          BY <1>1, <4>1
        <5> QED
          BY <5>1 DEF ContentType
      <4> QED
        BY <1>1, <4>1, <4>2, <4>3, <4>4
    <3> HIDE DEF E, new
    <3>7. Compact(Compact(E) \cup {new}) = Compact(E \cup {new})
      BY <3>5, <3>6, CompactIncremental
    <3> QED
      BY <1>4, <2>2, <3>4, <3>7 DEF Reconciled
  <2> QED
    BY <2>1, <2>2
<1>6. ASSUME NEW m \in Nodes
      PROVE  operational'[m] = Numbers(Compact(Entries(history'[m])))
  <2>1. CASE m = n
    BY <1>1, <1>2, <1>3, <1>5, <2>1
  <2>2. CASE m # n
    BY <1>1, <1>2, <1>3, <2>2 DEF JournalInv, OperationalExact
  <2> QED
    BY <2>1, <2>2
<1> QED
  BY <1>6 DEF OperationalExact, Entries, Numbered

LEMMA AppendType ==
    ASSUME JournalInv, NEW r \in Requests, AppendEntry(r), OperationalExact'
    PROVE  TypeOK'
<1> DEFINE n == r.node
           h == Append(history[n], r.is)
<1>1. /\ n \in Nodes /\ h \in Seq(ContentType) /\ Len(h) \in Nat
      /\ history'[n] = h
      /\ [request |-> r, seq |-> Len(h)] \in MemoType
  BY AppendFacts
<1>2. history' \in [Nodes -> Seq(ContentType)]
  BY <1>1 DEF AppendEntry, JournalInv, TypeOK
<1>3. operational' \in [Nodes -> SUBSET Nat]
  <2>1. Reconciled(h, operational[n] \cup {Len(h)}, r.is) = operational'[n]
    BY <1>1 DEF AppendEntry, JournalInv, TypeOK
  <2>2. operational'[n] \subseteq Nat
    <3>1. operational'[n] = Numbers(Compact(Entries(h)))
      BY <1>1 DEF OperationalExact, Entries, Numbered
    <3>2. Numbers(Compact(Entries(h))) \subseteq 1 .. Len(h)
      BY CorrectionsKept, NumbersBounded
    <3> QED
      BY <1>1, <3>1, <3>2
  <2> QED
    BY <1>1, <2>1, <2>2 DEF AppendEntry, JournalInv, TypeOK
<1>4. memo' \in [Keys -> MemoType \cup {None}]
  BY <1>1 DEF AppendEntry, Recorded, JournalInv, TypeOK
<1>5. changes' \in Seq([node : Nodes, seq : Nat])
  BY <1>1 DEF AppendEntry, Logged, JournalInv, TypeOK
<1>6. acks' \subseteq MemoType
  BY <1>1 DEF AppendEntry, Answer, JournalInv, TypeOK
<1> QED
  BY <1>2, <1>3, <1>4, <1>5, <1>6 DEF TypeOK

LEMMA AppendInv ==
    ASSUME JournalInv, NEW r \in Requests, AppendEntry(r)
    PROVE  JournalInv'
<1> DEFINE n == r.node
           h == Append(history[n], r.is)
<1>1. OperationalExact'
  BY AppendExact
<1>2. TypeOK'
  BY <1>1, AppendType
<1>3. /\ n \in Nodes /\ history[n] \in Seq(ContentType) /\ h \in Seq(ContentType)
      /\ Len(h) = Len(history[n]) + 1 /\ Len(history[n]) \in Nat
      /\ history' = [history EXCEPT ![n] = Append(@, r.is)]
      /\ history'[n] = h
      /\ \A m \in Nodes : m # n => history'[m] = history[m]
      /\ r.is \in ContentType /\ r.is.target < Len(h)
      /\ r.expected # None => Len(h) = r.expected + 1
      /\ [request |-> r, seq |-> Len(h)] \in MemoType
  BY AppendFacts
<1> PICK answer \in MemoType : answer = [request |-> r, seq |-> Len(h)]
  BY <1>3
<1>4. TargetsEarlier'
  <2> SUFFICES ASSUME NEW m \in Nodes, NEW i \in 1 .. Len(history'[m])
               PROVE  history'[m][i].target < i
    BY DEF TargetsEarlier
  <2>1. CASE m # n
    BY <1>3, <2>1 DEF JournalInv, TargetsEarlier
  <2>2. CASE m = n /\ i = Len(h)
    BY <1>3, <2>2
  <2>3. CASE m = n /\ i # Len(h)
    <3>1. i \in 1 .. Len(history[n]) /\ h[i] = history[n][i]
      BY <1>3, <2>3
    <3> QED
      BY <1>3, <2>3, <3>1 DEF JournalInv, TargetsEarlier
  <2> QED
    BY <2>1, <2>2, <2>3
<1>5. Holds(answer)'
  <2>1. h[Len(h)] = r.is /\ Len(h) \in 1 .. Len(h)
    BY <1>3
  <2>2. answer.request = r /\ answer.seq = Len(h)
    OBVIOUS
  <2>3. history'[answer.request.node] = h
    BY <1>3, <2>2
  <2> QED
    BY <1>3, <2>1, <2>2, <2>3 DEF Holds
<1>6. memo' = Recorded(r, Len(h)) /\ acks' = acks \cup {answer} /\ Prior(r) = None
  BY DEF AppendEntry, Answer
<1>7. \A k \in Keys : memo[k] # None => memo'[k] = memo[k]
  BY <1>6 DEF Recorded, Prior, JournalInv, TypeOK
<1>8. r.key # None => memo'[r.key] = answer
  BY <1>6, RequestFacts DEF Recorded, JournalInv, TypeOK
<1>9. \A a \in MemoType : Holds(a) => Holds(a)'
  BY <1>3, HoldsStays DEF JournalInv
<1>10. MemoHolds'
  <2> SUFFICES ASSUME NEW k \in Keys, NEW b, b = memo'[k], b # None
               PROVE  Holds(b)' /\ b.request.key = k
    BY DEF MemoHolds, Holds
  <2>1. CASE memo[k] # None
    <3>1. b = memo[k] /\ b \in MemoType
      BY <1>7, <2>1 DEF JournalInv, TypeOK
    <3> QED
      BY <1>9, <2>1, <3>1 DEF JournalInv, MemoHolds
  <2>2. CASE memo[k] = None
    <3>1. r.key = k
      BY <1>6, <2>2 DEF Recorded, JournalInv, TypeOK
    <3>2. b = answer
      BY <1>8, <3>1, JournalAssumption
    <3> QED
      BY <1>5, <3>1, <3>2 DEF Holds
  <2> QED
    BY <2>1, <2>2
<1>11. AcksHold'
  <2> SUFFICES ASSUME NEW a, a \in acks'
               PROVE  Holds(a)' /\ (a.request.key # None => memo'[a.request.key] = a)
    BY DEF AcksHold, Holds
  <2>1. CASE a = answer
    BY <1>5, <1>8, <2>1 DEF Holds
  <2>2. CASE a \in acks
    <3>1. a \in MemoType /\ a.request \in Requests
      BY <2>2 DEF JournalInv, TypeOK, MemoType
    <3>2. Holds(a)'
      BY <1>9, <2>2, <3>1 DEF JournalInv, AcksHold
    <3>3. ASSUME a.request.key # None PROVE memo'[a.request.key] = a
      <4>1. a.request.key \in Keys /\ memo[a.request.key] = a /\ a # None
        BY <2>2, <3>1, <3>3, RequestFacts, JournalMemoAssumption DEF JournalInv, AcksHold
      <4> QED
        BY <1>7, <4>1
    <3> QED
      BY <3>2, <3>3
  <2> QED
    BY <1>6, <2>1, <2>2
<1> QED
  BY <1>1, <1>2, <1>4, <1>10, <1>11 DEF JournalInv

LEMMA StepInv == JournalInv /\ [Next]_vars => JournalInv'
<1> SUFFICES ASSUME JournalInv, [Next]_vars PROVE JournalInv'
  OBVIOUS
<1>1. CASE UNCHANGED vars
  BY <1>1 DEF vars, JournalInv, TypeOK, OperationalExact, TargetsEarlier, MemoHolds,
              AcksHold, Holds
<1>2. CASE Next
  BY <1>2, ReplayInv, AppendInv, CompactJournalInv DEF Next
<1> QED
  BY <1>1, <1>2

LEMMA AlwaysInv == Spec => []JournalInv
BY InitInv, StepInv, PTL DEF Spec

-----------------------------------------------------------------------------
(* The tables always have their types (workspace.py, append_journal).      *)
THEOREM TypeCorrect == Spec => []TypeOK
BY AlwaysInv, PTL DEF JournalInv

(* The rows that readers are given are always those that compaction of the *)
(* whole history gives, although all appends but corrections only look at  *)
(* the rows kept so far (workspace.py, _reconcile_journal).                *)
THEOREM IncrementalExact == Spec => []OperationalExact
BY AlwaysInv, PTL DEF JournalInv

(* A journal reference never names its own entry or a later one            *)
(* (workspace.py, append_journal resolves it in the transaction).          *)
THEOREM ReferencesPointBack == Spec => []TargetsEarlier
BY AlwaysInv, PTL DEF JournalInv

(* A keyed request takes effect once and every answer to it is the same    *)
(* (workspace.py, _retry and _record_retry).                               *)
THEOREM RetriesAgree == Spec => []AnswersAgree
<1>1. JournalInv => AnswersAgree
  BY DEF JournalInv, AcksHold, Holds, AnswersAgree
<1> QED
  BY <1>1, AlwaysInv, PTL

(* An append that names the length its caller has read comes right after   *)
(* what he has read (workspace.py, expected_sequence).                     *)
THEOREM ReadersAppendNext == Spec => []NothingSlippedIn
<1>1. JournalInv => NothingSlippedIn
  BY DEF JournalInv, AcksHold, Holds, NothingSlippedIn
<1> QED
  BY <1>1, AlwaysInv, PTL

(* Both: whatever was retried or raced, callers are told the truth         *)
(* (workspace.py, append_journal).                                         *)
THEOREM CallersToldTruth == Spec => []CallersAgree
<1>1. AnswersAgree /\ NothingSlippedIn => CallersAgree
  BY DEF CallersAgree
<1> QED
  BY <1>1, RetriesAgree, ReadersAppendNext, PTL

-----------------------------------------------------------------------------
(* Induction over numbers, for what is decided entry by entry.             *)

(* A set of numbers has a least.                                           *)
LEMMA LeastNumber ==
    ASSUME NEW T \in SUBSET Nat, T # {}
    PROVE  \E m \in T : \A n \in T : m <= n
<1>1. \A x, y \in Nat : x < y => <<x, y>> \in OpToRel(<, Nat)
  BY DEF OpToRel
<1>2. PICK m \in T : \A n \in T : ~(<<n, m>> \in OpToRel(<, Nat))
  BY NatLessThanWellFounded, WFMin
<1>3. ASSUME NEW n \in T PROVE m <= n
  <2>1. m \in Nat /\ n \in Nat /\ ~(n < m)
    BY <1>1, <1>2
  <2> QED
    BY <2>1
<1> QED
  BY <1>3

(* Induction, over a set of numbers.                                       *)
LEMMA Inducted ==
    ASSUME NEW T, 0 \in T, \A n \in Nat : n \in T => n + 1 \in T
    PROVE  \A n \in Nat : n \in T
<1> DEFINE rest == {n \in Nat : n \notin T}
<1> SUFFICES ASSUME rest # {} PROVE FALSE
  OBVIOUS
<1>1. PICK m \in rest : \A n \in rest : m <= n
  <2>1. rest \in SUBSET Nat
    OBVIOUS
  <2> QED
    BY <2>1, LeastNumber
<1>2. m # 0 /\ m - 1 \in Nat /\ (m - 1) + 1 = m
  OBVIOUS
<1>3. m - 1 \notin rest
  BY <1>1, <1>2
<1> QED
  BY <1>2, <1>3

(* Numbers that are bounded have a greatest.                               *)
LEMMA GreatestNumber ==
    ASSUME NEW T \in SUBSET Nat, T # {}, NEW N \in Nat, \A n \in T : n <= N
    PROVE  \E m \in T : \A n \in T : n <= m
<1> DEFINE above == {n \in Nat : \A x \in T : x <= n}
<1>1. PICK m \in above : \A n \in above : m <= n
  <2>1. above \in SUBSET Nat /\ N \in above
    OBVIOUS
  <2> QED
    BY <2>1, LeastNumber
<1>2. CASE m \in T
  BY <1>2
<1>3. CASE m \notin T
  <2>1. \A x \in T : x <= m - 1
    BY <1>1, <1>3
  <2>2. m - 1 \in Nat
    <3>1. PICK x \in T : TRUE
      OBVIOUS
    <3>2. x \in Nat /\ x <= m - 1 /\ m \in Nat
      BY <2>1, <3>1
    <3> QED
      BY <3>2
  <2> QED
    BY <1>1, <2>1, <2>2
<1> QED
  BY <1>2, <1>3

-----------------------------------------------------------------------------
(* Which entries stand.  A correction is newer than what it corrects.      *)

Ordered(E, N) == N \in Nat /\ \A e \in E : e.seq \in 1 .. N

Backwards(links) == \A c, e : <<c, e>> \in links => e.seq < c.seq

On(e, S, links) == {c \in S : <<c, e>> \in links}

(* A set of entries in which those stand that not exactly one correction   *)
(* that stands is about.                                                   *)
Settles(S, base, links) ==
    /\ S \subseteq base
    /\ \A e \in base : e \in S <=> Cardinality(On(e, S, links)) # 1

(* There is but one such set: the newest entry on which two would differ   *)
(* has the same corrections in both.                                       *)
LEMMA SettledOnce ==
    ASSUME NEW base, NEW links, NEW N, Ordered(base, N), Backwards(links),
           NEW S, Settles(S, base, links), NEW R, Settles(R, base, links)
    PROVE  S = R
<1> DEFINE Same(k) == \A e \in base : e.seq > N - k => (e \in S <=> e \in R)
           T == {k \in Nat : Same(k)}
<1>1. 0 \in T
  BY DEF Ordered
<1>2. ASSUME NEW k \in Nat, k \in T PROVE k + 1 \in T
  <2> SUFFICES ASSUME NEW e \in base, e.seq > N - (k + 1) PROVE e \in S <=> e \in R
    OBVIOUS
  <2>1. CASE e.seq > N - k
    BY <1>2, <2>1
  <2>2. CASE ~(e.seq > N - k)
    <3>1. \A c \in base : <<c, e>> \in links => c.seq > N - k
      BY <2>2 DEF Ordered, Backwards
    <3>2. On(e, S, links) = On(e, R, links)
      BY <1>2, <3>1 DEF On, Settles
    <3> QED
      BY <3>2 DEF Settles
  <2> QED
    BY <2>1, <2>2
<1> HIDE DEF T
<1>3. \A k \in Nat : k \in T
  BY <1>1, <1>2, Inducted
<1>4. Same(N)
  BY <1>3 DEF Ordered, T
<1>5. \A e \in base : e.seq > N - N
  BY DEF Ordered
<1> QED
  BY <1>4, <1>5 DEF Settles

(* Deciding one entry after another from the newest down gives that set    *)
(* (evidence.py, interpret_journal).                                       *)
LEMMA StandingSettles ==
    ASSUME NEW E, NEW base \in SUBSET E, NEW links, NEW N, Ordered(E, N), Backwards(links)
    PROVE  Settles(Standing(E, base, links), base, links)
<1> DEFINE last == CHOOSE m \in {0} \cup {e.seq : e \in E} : \A e \in E : e.seq <= m
           With(n, newer) ==
             newer \cup {e \in base : /\ e.seq = n
                                     /\ Cardinality({c \in newer : <<c, e>> \in links}) # 1}
           Decides(g, m) ==
             /\ g \in [m .. last + 1 -> SUBSET base]
             /\ g[last + 1] = {}
             /\ \A n \in m .. last : g[n] = With(n, g[n + 1])
           From == CHOOSE From : From = [n \in 1 .. last + 1 |->
             IF n > last THEN {} ELSE LET newer == From[n + 1] IN With(n, newer)]
<1>1. Standing(E, base, links) = From[1]
  BY DEF Standing
<1>2. last \in Nat /\ \A e \in E : e.seq <= last
  <2>1. \E m \in {0} \cup {e.seq : e \in E} : \A e \in E : e.seq <= m
    <3>1. PICK m \in {0} \cup {e.seq : e \in E} : \A n \in {0} \cup {e.seq : e \in E} : n <= m
      <4>1. {0} \cup {e.seq : e \in E} \in SUBSET Nat
        BY DEF Ordered
      <4>2. N \in Nat /\ \A n \in {0} \cup {e.seq : e \in E} : n <= N
        BY DEF Ordered
      <4> QED
        BY <4>1, <4>2, GreatestNumber
    <3> QED
      BY <3>1
  <2>2. last \in {0} \cup {e.seq : e \in E} /\ \A e \in E : e.seq <= last
    BY <2>1
  <2> HIDE DEF last
  <2> QED
    BY <2>2 DEF Ordered
<1> HIDE DEF last
<1>3. \E g : Decides(g, 1)
  <2> DEFINE T == {k \in Nat : k <= last => \E g : Decides(g, last + 1 - k)}
  <2>1. 0 \in T
    <3> DEFINE f == [n \in last + 1 .. last + 1 |-> {}]
    <3>1. f \in [last + 1 .. last + 1 -> SUBSET base] /\ f[last + 1] = {}
      BY <1>2
    <3>2. (\A n : n \notin last + 1 .. last) /\ last + 1 - 0 = last + 1
      <4>1. last \in Int /\ last + 1 - 0 = last + 1
        BY <1>2
      <4>2. \A n \in last + 1 .. last : last + 1 <= n /\ n <= last /\ n \in Int
        BY <4>1
      <4> QED
        BY <4>1, <4>2
    <3> HIDE DEF f, With
    <3>3. Decides(f, last + 1 - 0)
      BY <3>1, <3>2
    <3> HIDE DEF Decides
    <3> QED
      BY <3>3
  <2>2. ASSUME NEW k \in Nat, k \in T PROVE k + 1 \in T
    <3> SUFFICES ASSUME k + 1 <= last PROVE \E g : Decides(g, last - k)
      <4>1. last + 1 - (k + 1) = last - k
        BY <1>2
      <4> HIDE DEF Decides
      <4> QED
        BY <4>1
    <3> DEFINE m == last - k
    <3>1. m \in 1 .. last /\ last + 1 - k = m + 1
      BY <1>2
    <3>2. PICK g : Decides(g, m + 1)
      BY <1>2, <2>2, <3>1
    <3> DEFINE f == [n \in m .. last + 1 |-> IF n = m THEN With(m, g[m + 1]) ELSE g[n]]
    <3>3. m + 1 \in m + 1 .. last + 1 /\ last + 1 \in m + 1 .. last + 1
      BY <1>2, <3>1
    <3>4. With(m, g[m + 1]) \in SUBSET base
      BY <3>2, <3>3
    <3>5. f \in [m .. last + 1 -> SUBSET base]
      BY <1>2, <3>1, <3>2, <3>4
    <3>6. f[last + 1] = {}
      BY <1>2, <3>1, <3>2
    <3>7. ASSUME NEW n \in m .. last PROVE f[n] = With(n, f[n + 1])
      <4>1. n + 1 \in m .. last + 1 /\ n + 1 # m /\ n \in m .. last + 1
        BY <1>2, <3>1
      <4>2. f[n + 1] = g[n + 1]
        BY <4>1
      <4>3. CASE n = m
        BY <4>1, <4>2, <4>3
      <4>4. CASE n # m
        <5>1. f[n] = g[n] /\ n \in m + 1 .. last
          BY <1>2, <3>1, <4>1, <4>4
        <5> QED
          BY <3>2, <4>2, <5>1
      <4> QED
        BY <4>3, <4>4
    <3> HIDE DEF f, With
    <3>8. Decides(f, m)
      BY <3>5, <3>6, <3>7
    <3> HIDE DEF Decides
    <3> QED
      BY <3>8
  <2> HIDE DEF T
  <2>3. last \in T
    BY <1>2, <2>1, <2>2, Inducted
  <2>4. last <= last /\ last + 1 - last = 1
    BY <1>2
  <2> HIDE DEF Decides
  <2>5. \E g : Decides(g, last + 1 - last)
    BY <2>3, <2>4 DEF T
  <2> QED
    BY <2>4, <2>5
<1>4. \A n \in 1 .. last + 1 : From[n] = IF n > last THEN {} ELSE With(n, From[n + 1])
  <2>1. PICK g : Decides(g, 1)
    BY <1>3
  <2>2. g = [n \in 1 .. last + 1 |->
               IF n > last THEN {} ELSE LET newer == g[n + 1] IN With(n, newer)]
    <3>1. \A n \in 1 .. last + 1 :
            g[n] = IF n > last THEN {} ELSE LET newer == g[n + 1] IN With(n, newer)
      <4> TAKE n \in 1 .. last + 1
      <4>1. CASE n > last
        BY <1>2, <2>1, <4>1
      <4>2. CASE ~(n > last)
        <5>1. n \in 1 .. last
          BY <1>2, <4>2
        <5> HIDE DEF With
        <5>2. g[n] = With(n, g[n + 1])
          BY <2>1, <5>1
        <5> QED
          BY <4>2, <5>2
      <4> QED
        BY <4>1, <4>2
    <3> HIDE DEF With
    <3>2. g \in [1 .. last + 1 -> SUBSET base]
      BY <2>1
    <3> QED
      BY <3>1, <3>2
  <2> HIDE DEF With
  <2>3. From = [n \in 1 .. last + 1 |->
               IF n > last THEN {} ELSE LET newer == From[n + 1] IN With(n, newer)]
    BY <2>2
  <2> HIDE DEF From
  <2> QED
    BY <2>3
<1> HIDE DEF From
<1> DEFINE Settled(n) ==
             /\ From[n] \subseteq base
             /\ \A e \in From[n] : e.seq >= n
             /\ \A e \in base : e.seq >= n => (e \in From[n] <=> Cardinality(On(e, From[n], links)) # 1)
           T == {k \in Nat : k <= last => Settled(last + 1 - k)}
<1>5. 0 \in T
  <2>1. From[last + 1] = {} /\ last + 1 - 0 = last + 1
    <3>1. last + 1 \in 1 .. last + 1 /\ last + 1 > last
      BY <1>2
    <3> HIDE DEF With
    <3>2. From[last + 1] = {}
      BY <1>4, <3>1
    <3> QED
      BY <1>2, <3>2
  <2>2. \A e \in base : ~(e.seq >= last + 1)
    BY <1>2 DEF Ordered
  <2> QED
    BY <2>1, <2>2
<1>6. ASSUME NEW k \in Nat, k \in T PROVE k + 1 \in T
  <2> SUFFICES ASSUME k + 1 <= last PROVE Settled(last - k)
    <3>1. k + 1 <= last => last + 1 - (k + 1) = last - k
      BY <1>2
    <3> HIDE DEF Settled
    <3> QED
      BY <3>1
  <2> DEFINE n == last - k
  <2>1. n \in 1 .. last /\ last + 1 - k = n + 1 /\ k <= last /\ n \in Nat
    BY <1>2
  <2>2. Settled(n + 1)
    <3> HIDE DEF Settled
    <3> QED
      BY <1>6, <2>1
  <2> HIDE DEF n
  <2>3. From[n] = From[n + 1] \cup
                    {e \in base : e.seq = n /\ Cardinality(On(e, From[n + 1], links)) # 1}
    <3>1. n \in 1 .. last + 1 /\ ~(n > last)
      BY <1>2, <2>1
    <3>2. From[n] = With(n, From[n + 1])
      <4> HIDE DEF With
      <4> QED
        BY <1>4, <3>1
    <3> QED
      BY <3>2 DEF On
  <2>4. \A e \in base : e.seq \in Nat
    BY DEF Ordered
  <2>5. From[n] \subseteq base /\ \A e \in From[n] : e.seq >= n
    BY <2>1, <2>2, <2>3, <2>4
  <2>6. ASSUME NEW e \in base, e.seq >= n
        PROVE  /\ On(e, From[n], links) = On(e, From[n + 1], links)
               /\ e \in From[n] <=> Cardinality(On(e, From[n + 1], links)) # 1
    <3>1. \A c \in From[n] : <<c, e>> \in links => c \in From[n + 1]
      <4> SUFFICES ASSUME NEW c \in From[n], <<c, e>> \in links, c \notin From[n + 1] PROVE FALSE
        OBVIOUS
      <4>1. c.seq = n /\ e.seq < c.seq
        BY <2>3 DEF Backwards
      <4> QED
        BY <2>1, <2>4, <2>6, <4>1
    <3>2. On(e, From[n], links) = On(e, From[n + 1], links)
      BY <2>3, <3>1 DEF On
    <3>3. CASE e.seq = n
      <4>1. e \notin From[n + 1]
        BY <2>1, <2>2, <3>3
      <4> QED
        BY <2>3, <3>2, <3>3, <4>1
    <3>4. CASE e.seq # n
      <4>1. e.seq >= n + 1
        BY <2>1, <2>4, <2>6, <3>4
      <4> QED
        BY <2>2, <2>3, <3>2, <3>4, <4>1
    <3> QED
      BY <3>3, <3>4
  <2>7. Settled(n)
    BY <2>5, <2>6
  <2> HIDE DEF Settled
  <2> QED
    BY <2>7 DEF n
<1> HIDE DEF T
<1>7. last \in T
  BY <1>2, <1>5, <1>6, Inducted
<1>8. Settled(1)
  <2>1. last <= last /\ last + 1 - last = 1
    BY <1>2
  <2> HIDE DEF Settled
  <2>2. Settled(last + 1 - last)
    BY <1>7, <2>1 DEF T
  <2> QED
    BY <2>1, <2>2
<1>9. \A e \in base : e.seq >= 1
  BY DEF Ordered
<1> QED
  BY <1>1, <1>8, <1>9 DEF Settles

-----------------------------------------------------------------------------
(* The parts of an interpretation.                                         *)

Are(E, q, status) == {e \in E : [x \in E |-> Checked(x, E, q)][e] = status}

LinksIn(E, q) == {p \in E \X E : Edits(p[1], p[2], q) /\ ~Ambiguous(p[1], p[2])}

Stands(E, q) == Standing(E, Are(E, q, "active"), LinksIn(E, q))

LiveOn(t, E, q) == {c \in Stands(E, q) : <<c, t>> \in LinksIn(E, q)}

Fallen(E, q) == UNION {LiveOn(t, E, q) : t \in Are(E, q, "inactive")}

Disputed(E, q) == UNION {LiveOn(t, E, q) : t \in Are(E, q, "unresolved") \cup Are(E, q, "proposed")}

RivalsIn(E, q) == {g \in {LiveOn(t, E, q) : t \in Are(E, q, "active")} : Cardinality(g) > 1}

SettledIn(E, q) == Stands(E, q) \ (Fallen(E, q) \cup Disputed(E, q) \cup UNION RivalsIn(E, q))

ActiveIn(E, q) == SettledIn(E, q) \ Replaced(SettledIn(E, q))

InactiveIn(E, q) ==
    Are(E, q, "inactive") \cup (Are(E, q, "active") \ Stands(E, q)) \cup Fallen(E, q)
      \cup Replaced(SettledIn(E, q))

UnresolvedIn(E, q) == Are(E, q, "unresolved") \cup Disputed(E, q) \cup UNION RivalsIn(E, q)

LEMMA Parts ==
    ASSUME NEW E, NEW q
    PROVE  /\ Interpretation(E, q).active = ActiveIn(E, q)
           /\ Interpretation(E, q).inactive = InactiveIn(E, q)
           /\ Interpretation(E, q).proposed = Are(E, q, "proposed")
           /\ Interpretation(E, q).unresolved = UnresolvedIn(E, q)
           /\ Interpretation(E, q).conflicts = RivalsIn(E, q) \cup Disagreements(ActiveIn(E, q))
<1>1. Interpretation(E, q) =
        [active |-> ActiveIn(E, q), inactive |-> InactiveIn(E, q),
         proposed |-> Are(E, q, "proposed"), unresolved |-> UnresolvedIn(E, q),
         conflicts |-> RivalsIn(E, q) \cup Disagreements(ActiveIn(E, q))]
  BY Zenon DEF Interpretation, ActiveIn, InactiveIn, UnresolvedIn, SettledIn, RivalsIn, Disputed, Fallen,
         LiveOn, Stands, LinksIn, Are
<1> QED
  BY <1>1

LEMMA AreThose ==
    ASSUME NEW E, NEW q, NEW status
    PROVE  Are(E, q, status) = {e \in E : Checked(e, E, q) = status}
BY DEF Are

LEMMA LinkFacts ==
    ASSUME NEW E, NEW q
    PROVE  /\ Backwards(LinksIn(E, q))
           /\ \A c, t : <<c, t>> \in LinksIn(E, q) <=>
                          c \in E /\ t \in E /\ Edits(c, t, q) /\ ~Ambiguous(c, t)
           /\ \A c, t : <<c, t>> \in LinksIn(E, q) =>
                          c.is.kind = "correction" /\ c.is.target = t.seq
<1>1. \A c, t : <<c, t>> \in LinksIn(E, q) <=>
                  c \in E /\ t \in E /\ Edits(c, t, q) /\ ~Ambiguous(c, t)
  BY DEF LinksIn
<1> QED
  BY <1>1 DEF Backwards, Edits, Correcting

LEMMA StandsSettles ==
    ASSUME NEW E, NEW q, NEW N, Ordered(E, N)
    PROVE  Settles(Stands(E, q), Are(E, q, "active"), LinksIn(E, q))
<1>1. Are(E, q, "active") \in SUBSET E
  BY DEF Are
<1> QED
  BY <1>1, LinkFacts, StandingSettles DEF Stands

(* Entries that are no correction and that no correction names.            *)
Inert(D, E) ==
    /\ D \subseteq E
    /\ \A d \in D : d.is.kind # "correction"
    /\ \A c \in E, d \in D : c.is.kind = "correction" => c.is.target # d.seq

(* Nothing else is interpreted otherwise because of them, and they are     *)
(* settled as they apply (evidence.py, interpret_journal).                 *)
LEMMA InertChecked ==
    ASSUME NEW E, NEW D, Inert(D, E), NEW q
    PROVE  /\ \A e \in E \ D : Checked(e, E, q) = Checked(e, E \ D, q)
           /\ \A d \in D : Checked(d, E, q) = Applicable(d, q)
           /\ LinksIn(E, q) = LinksIn(E \ D, q)
<1>1. \A c, t \in E : Edits(c, t, q) => c \in E \ D /\ t \in E \ D
  BY DEF Inert, Edits, Correcting
<1>2. ASSUME NEW e \in E \ D PROVE Checked(e, E, q) = Checked(e, E \ D, q)
  <2>1. (\E c \in E : Edits(c, e, q) /\ Ambiguous(c, e))
          <=> \E c \in E \ D : Edits(c, e, q) /\ Ambiguous(c, e)
    BY <1>1
  <2>2. (\E t \in E : Edits(e, t, q) /\ ~Ambiguous(e, t))
          <=> \E t \in E \ D : Edits(e, t, q) /\ ~Ambiguous(e, t)
    BY <1>1
  <2> QED
    BY <2>1, <2>2 DEF Checked
<1>3. ASSUME NEW d \in D PROVE Checked(d, E, q) = Applicable(d, q)
  <2>1. ~Correcting(d, q) /\ \A c \in E : ~Edits(c, d, q)
    BY <1>1 DEF Inert, Correcting
  <2> QED
    BY <2>1 DEF Checked
<1>4. LinksIn(E, q) = LinksIn(E \ D, q)
  BY <1>1 DEF LinksIn
<1> QED
  BY <1>2, <1>3, <1>4

ActiveAmong(D, q) == {d \in D : Applicable(d, q) = "active"}

LEMMA InertAre ==
    ASSUME NEW E, NEW D, Inert(D, E), NEW q, NEW status
    PROVE  Are(E, q, status) = Are(E \ D, q, status) \cup {d \in D : Applicable(d, q) = status}
BY InertChecked, AreThose DEF Inert

LEMMA InertStands ==
    ASSUME NEW E, NEW D, Inert(D, E), NEW q, NEW N, Ordered(E, N)
    PROVE  Stands(E, q) = Stands(E \ D, q) \cup ActiveAmong(D, q)
<1> DEFINE K == E \ D
           base == Are(E, q, "active")
           links == LinksIn(E, q)
           S == Stands(K, q) \cup ActiveAmong(D, q)
<1>1. base = Are(K, q, "active") \cup ActiveAmong(D, q)
  BY InertAre DEF ActiveAmong
<1>2. Settles(Stands(K, q), Are(K, q, "active"), links)
  <2>1. Ordered(K, N)
    BY DEF Ordered
  <2>2. Settles(Stands(K, q), Are(K, q, "active"), LinksIn(K, q))
    BY <2>1, StandsSettles
  <2>3. links = LinksIn(K, q)
    BY InertChecked
  <2> QED
    BY <2>2, <2>3
<1>3. \A c, t : <<c, t>> \in links => c \in K /\ t \in K
  <2>1. links = LinksIn(K, q)
    BY InertChecked
  <2>2. \A c, t : <<c, t>> \in LinksIn(K, q) => c \in K /\ t \in K
    BY LinkFacts
  <2> QED
    BY <2>1, <2>2
<1>4. Settles(S, base, links)
  <2>1. S \subseteq base
    BY <1>1, <1>2 DEF Settles
  <2>2. ASSUME NEW e \in base PROVE e \in S <=> Cardinality(On(e, S, links)) # 1
    <3>1. On(e, S, links) = On(e, Stands(K, q), links)
      BY <1>3 DEF On, ActiveAmong
    <3>2. CASE e \in K
      <4>1. e \in Are(K, q, "active") /\ e \notin ActiveAmong(D, q)
        BY <1>1, <3>2 DEF ActiveAmong
      <4> QED
        BY <1>2, <3>1, <4>1 DEF Settles
    <3>3. CASE e \notin K
      <4>1. e \in ActiveAmong(D, q)
        BY <1>1, <3>3, AreThose
      <4>2. On(e, S, links) = {}
        BY <1>3, <3>3 DEF On
      <4>3. Cardinality({}) = 0
        BY FS_EmptySet
      <4> QED
        BY <4>1, <4>2, <4>3
    <3> QED
      BY <3>2, <3>3
  <2> QED
    BY <2>1, <2>2 DEF Settles
<1>5. Settles(Stands(E, q), base, links)
  BY StandsSettles
<1>6. Ordered(base, N) /\ Backwards(links)
  BY AreThose, LinkFacts DEF Ordered
<1> HIDE DEF S, base, links
<1>7. Stands(E, q) = S
  BY <1>4, <1>5, <1>6, SettledOnce
<1> QED
  BY <1>7 DEF S

(* The corrections that are void, and hence do not settle.                 *)
Void(E, q) == Fallen(E, q) \cup Disputed(E, q) \cup UNION RivalsIn(E, q)

LEMMA VoidAreCorrections ==
    ASSUME NEW E, NEW q
    PROVE  \A c \in Void(E, q) : c \in Stands(E, q) /\ c.is.kind = "correction"
<1>1. ASSUME NEW c \in Void(E, q) PROVE \E t : c \in LiveOn(t, E, q)
  BY <1>1 DEF Void, Fallen, Disputed, RivalsIn
<1>2. \A t : \A c \in LiveOn(t, E, q) : c \in Stands(E, q) /\ c.is.kind = "correction"
  BY LinkFacts DEF LiveOn
<1> QED
  BY <1>1, <1>2

LEMMA InertVoid ==
    ASSUME NEW E, NEW D, Inert(D, E), NEW q, NEW N, Ordered(E, N)
    PROVE  /\ Fallen(E, q) = Fallen(E \ D, q)
           /\ Disputed(E, q) = Disputed(E \ D, q)
           /\ RivalsIn(E, q) = RivalsIn(E \ D, q)
<1> DEFINE K == E \ D
<1>1. ASSUME NEW t PROVE LiveOn(t, E, q) = LiveOn(t, K, q)
  <2>1. \A c \in ActiveAmong(D, q) : <<c, t>> \notin LinksIn(K, q)
    BY LinkFacts DEF ActiveAmong
  <2>2. Stands(E, q) = Stands(K, q) \cup ActiveAmong(D, q) /\ LinksIn(E, q) = LinksIn(K, q)
    BY InertStands, InertChecked
  <2> QED
    BY <2>1, <2>2 DEF LiveOn
<1>2. ASSUME NEW t \in D PROVE LiveOn(t, K, q) = {}
  BY LinkFacts, <1>2 DEF LiveOn
<1>3. Cardinality({}) = 0
  BY FS_EmptySet
<1>4. \A status : Are(E, q, status) = Are(K, q, status) \cup {d \in D : Applicable(d, q) = status}
  BY InertAre
<1>5. Fallen(E, q) = Fallen(K, q)
  BY <1>1, <1>2, <1>4 DEF Fallen
<1>6. Disputed(E, q) = Disputed(K, q)
  BY <1>1, <1>2, <1>4 DEF Disputed
<1>7. RivalsIn(E, q) = RivalsIn(K, q)
  <2>1. ASSUME NEW g \in RivalsIn(E, q) PROVE g \in RivalsIn(K, q)
    <3>1. PICK t \in Are(E, q, "active") : g = LiveOn(t, E, q)
      BY <2>1 DEF RivalsIn
    <3>2. t \notin D
      BY <1>1, <1>2, <1>3, <2>1, <3>1 DEF RivalsIn
    <3> QED
      BY <1>1, <1>4, <2>1, <3>1, <3>2 DEF RivalsIn
  <2>2. ASSUME NEW g \in RivalsIn(K, q) PROVE g \in RivalsIn(E, q)
    BY <1>1, <1>4, <2>2 DEF RivalsIn
  <2> QED
    BY <2>1, <2>2
<1> QED
  BY <1>5, <1>6, <1>7

LEMMA InertSettled ==
    ASSUME NEW E, NEW D, Inert(D, E), NEW q, NEW N, Ordered(E, N)
    PROVE  SettledIn(E, q) = SettledIn(E \ D, q) \cup ActiveAmong(D, q)
<1>1. \A d \in ActiveAmong(D, q) : d \notin Void(E \ D, q)
  BY VoidAreCorrections DEF ActiveAmong, Inert
<1> QED
  BY <1>1, InertStands, InertVoid DEF SettledIn, Void

-----------------------------------------------------------------------------
(* What an append means.                                                   *)

(* The entry new only replaces entries of its own slot.                    *)
OnlyReplaces(new, before, after, q) ==
    LET was == Interpretation(before, q)
        is == Interpretation(after, q)
        replaced == was.active \ is.active
    IN  /\ is.unresolved \cap before = was.unresolved
        /\ is.active \cap before \subseteq was.active
        /\ is.inactive \cap before = was.inactive \cup replaced
        /\ \A e \in replaced : Slot(e) = Slot(new)

LEMMA AppendedMeans ==
    ASSUME NEW E, NEW new \in E, new.is.kind # "correction", NEW N, Ordered(E, N),
           \A e \in E \ {new} : e.seq < new.seq,
           \A c \in E : c.is.target # new.seq, NEW q
    PROVE  OnlyReplaces(new, E \ {new}, E, q)
<1> DEFINE D == {new}
           K == E \ D
           settled == SettledIn(K, q)
           behind == Replaced(SettledIn(E, q)) \cap K
<1>1. Inert(D, E)
  BY DEF Inert
<1>2. /\ Fallen(E, q) = Fallen(K, q) /\ Disputed(E, q) = Disputed(K, q)
      /\ RivalsIn(E, q) = RivalsIn(K, q)
      /\ Stands(E, q) = Stands(K, q) \cup ActiveAmong(D, q)
      /\ SettledIn(E, q) = settled \cup ActiveAmong(D, q)
  <2>1. /\ Fallen(E, q) = Fallen(K, q) /\ Disputed(E, q) = Disputed(K, q)
        /\ RivalsIn(E, q) = RivalsIn(K, q)
    BY <1>1, InertVoid
  <2>2. Stands(E, q) = Stands(K, q) \cup ActiveAmong(D, q)
    BY <1>1, InertStands
  <2>3. SettledIn(E, q) = settled \cup ActiveAmong(D, q)
    BY <1>1, InertSettled
  <2> QED
    BY <2>1, <2>2, <2>3
<1>3. \A status : Are(E, q, status) \cap K = Are(K, q, status)
  BY <1>1, InertAre, AreThose
<1>4. Stands(K, q) \subseteq Are(K, q, "active") /\ Are(K, q, "active") \subseteq K
  <2>1. Ordered(K, N)
    BY DEF Ordered
  <2> QED
    BY <2>1, StandsSettles, AreThose DEF Settles
<1>5. Fallen(K, q) \cup Disputed(K, q) \cup UNION RivalsIn(K, q) \subseteq K
  BY <1>4, VoidAreCorrections DEF Void
<1>6. settled \subseteq K
  BY <1>4 DEF SettledIn
<1>7. Replaced(settled) \subseteq behind
  BY <1>2, <1>6 DEF Replaced
<1>8. \A e \in behind \ Replaced(settled) : e \in settled /\ Slot(e) = Slot(new)
  BY <1>2, <1>6 DEF Replaced, ActiveAmong
<1>9. ActiveIn(E, q) \cap K = settled \ behind
  BY <1>2, <1>6 DEF ActiveIn, ActiveAmong
<1>10. ActiveIn(K, q) \ ActiveIn(E, q) = behind \ Replaced(settled)
  BY <1>6, <1>7, <1>8, <1>9 DEF ActiveIn
<1>11. UnresolvedIn(E, q) \cap K = UnresolvedIn(K, q)
  BY <1>2, <1>3, <1>5 DEF UnresolvedIn
<1>12. InactiveIn(E, q) \cap K = InactiveIn(K, q) \cup (behind \ Replaced(settled))
  <2>1. (Are(E, q, "active") \ Stands(E, q)) \cap K = Are(K, q, "active") \ Stands(K, q)
    BY <1>2, <1>3 DEF ActiveAmong
  <2>2. Fallen(E, q) \cap K = Fallen(K, q)
    BY <1>2, <1>5
  <2>3. Replaced(SettledIn(E, q)) \cap K = Replaced(settled) \cup (behind \ Replaced(settled))
    BY <1>7
  <2> HIDE DEF K, settled, behind
  <2>4. InactiveIn(E, q) \cap K = Are(K, q, "inactive") \cup (Are(K, q, "active") \ Stands(K, q))
                                  \cup Fallen(K, q) \cup (Replaced(settled) \cup (behind \ Replaced(settled)))
    BY <1>3, <2>1, <2>2, <2>3 DEF InactiveIn
  <2>5. InactiveIn(K, q) = Are(K, q, "inactive") \cup (Are(K, q, "active") \ Stands(K, q))
                             \cup Fallen(K, q) \cup Replaced(settled)
    BY DEF InactiveIn, settled
  <2> QED
    BY <2>4, <2>5
<1>13. ActiveIn(E, q) \cap K \subseteq ActiveIn(K, q)
  BY <1>7, <1>9 DEF ActiveIn
<1> HIDE DEF K, settled, behind
<1> QED
  BY <1>8, <1>10, <1>11, <1>12, <1>13, Parts DEF K, OnlyReplaces

-----------------------------------------------------------------------------
(* What compaction leaves out.                                             *)

(* What dominates an entry last is kept.                                   *)
LEMMA KeptDominates ==
    ASSUME NEW E, NEW N, Ordered(E, N), NEW d \in E, Dominated(d, E)
    PROVE  /\ Compactable(d, E)
           /\ \E o \in Compact(E) :
                /\ o.is.kind = "overwrite" /\ Compactable(o, E)
                /\ Slot(o) = Slot(d) /\ Applies(o) = Applies(d) /\ d.seq < o.seq
<1> DEFINE Over(o) == /\ o.is.kind = "overwrite" /\ Compactable(o, E)
                      /\ Slot(o) = Slot(d) /\ Applies(o) = Applies(d) /\ d.seq < o.seq
           T == {o.seq : o \in {x \in E : Over(x)}}
<1>1. \A e \in E : e.seq \in Nat /\ e.seq <= N
  BY DEF Ordered
<1>2. T \in SUBSET Nat /\ T # {} /\ N \in Nat /\ \A n \in T : n <= N
  BY <1>1 DEF Dominated, Ordered
<1>3. PICK m \in T : \A n \in T : n <= m
  BY <1>2, GreatestNumber
<1>4. PICK o \in E : Over(o) /\ o.seq = m
  BY <1>3
<1>5. ASSUME Dominated(o, E) PROVE FALSE
  <2>1. PICK p \in E : /\ p.is.kind = "overwrite" /\ Compactable(p, E)
                       /\ Slot(p) = Slot(o) /\ Applies(p) = Applies(o) /\ o.seq < p.seq
    BY <1>5 DEF Dominated
  <2>2. d.seq < p.seq
    BY <1>1, <1>4, <2>1
  <2>3. Over(p)
    BY <1>4, <2>1, <2>2
  <2>4. p.seq <= m
    BY <1>3, <2>3
  <2> QED
    BY <1>1, <1>4, <2>1, <2>4
<1> QED
  BY <1>4, <1>5 DEF Compact, Dominated

LEMMA MatchesAlike ==
    ASSUME NEW d, NEW o, NEW q, Applies(d) = Applies(o), Slot(d) = Slot(o),
           d.is.known, o.is.known
    PROVE  Applicable(d, q) = Applicable(o, q)
<1>1. /\ d.is.scope = o.is.scope /\ d.is.from = o.is.from /\ d.is.until = o.is.until
      /\ d.is.relation = o.is.relation
  BY DEF Applies, Slot
<1>2. Match(d, q) = Match(o, q)
  <2>1. (Mismatch(d, q) <=> Mismatch(o, q)) /\ (Unscoped(d, q) <=> Unscoped(o, q))
    BY <1>1 DEF Mismatch, Unscoped
  <2>2. (Outside(d, q) <=> Outside(o, q)) /\ (Timeless(d) <=> Timeless(o))
    BY <1>1 DEF Outside, Timeless
  <2> QED
    BY <2>1, <2>2 DEF Match
<1> QED
  BY <1>1, <1>2 DEF Applicable

LEMMA CompactedMeans ==
    ASSUME NEW E, NEW N, Ordered(E, N), NEW q
    PROVE  LET given == Compact(E)
               full == Interpretation(E, q)
               seen == Interpretation(given, q)
           IN  /\ seen.active = full.active
               /\ seen.proposed = full.proposed
               /\ seen.conflicts = full.conflicts
               /\ seen.unresolved = full.unresolved \cap given
               /\ \A e \in full.unresolved \ given : \E o \in seen.unresolved :
                    o.is.kind = "overwrite" /\ Slot(o) = Slot(e) /\ e.seq < o.seq
<1> DEFINE K == Compact(E)
           D == E \ K
           settled == SettledIn(K, q)
<1>1. K = E \ D /\ K \subseteq E /\ Ordered(K, N)
  BY CorrectionsKept DEF Ordered
<1>2. Inert(D, E)
  BY CorrectionsKept DEF Inert
<1>3. /\ Fallen(E, q) = Fallen(K, q) /\ Disputed(E, q) = Disputed(K, q)
      /\ RivalsIn(E, q) = RivalsIn(K, q)
      /\ SettledIn(E, q) = settled \cup ActiveAmong(D, q)
  BY <1>1, <1>2, InertVoid, InertSettled
<1>4. \A status : Are(E, q, status) = Are(K, q, status) \cup {d \in D : Applicable(d, q) = status}
  BY <1>1, <1>2, InertAre
<1>5. /\ Settles(Stands(K, q), Are(K, q, "active"), LinksIn(K, q))
      /\ Are(K, q, "active") \subseteq K
  BY <1>1, StandsSettles, AreThose
<1>6. settled \subseteq K /\ Void(K, q) \subseteq K
  BY <1>5, VoidAreCorrections DEF SettledIn, Settles
<1>7. ASSUME NEW d \in D
      PROVE  /\ Applicable(d, q) # "proposed"
             /\ \E o \in K : /\ o.is.kind = "overwrite" /\ Slot(o) = Slot(d) /\ d.seq < o.seq
                             /\ Checked(o, K, q) = Applicable(d, q)
                             /\ o \in Are(K, q, "active") => o \in settled
  <2>1. Dominated(d, E)
    BY DEF Compact
  <2>2. PICK o \in K : /\ o.is.kind = "overwrite" /\ Compactable(o, E)
                       /\ Slot(o) = Slot(d) /\ Applies(o) = Applies(d) /\ d.seq < o.seq
    BY <2>1, KeptDominates
  <2>3. Compactable(d, E)
    BY <2>1 DEF Dominated
  <2>4. Applicable(d, q) = Applicable(o, q)
    BY <2>2, <2>3, MatchesAlike DEF Compactable
  <2>5. \A c \in K : c.is.kind = "correction" => c.is.target # o.seq
    BY <1>1, <2>2 DEF Compactable, Protected
  <2>6. Inert({o}, K)
    BY <2>2, <2>5 DEF Inert
  <2>7. Checked(o, K, q) = Applicable(o, q)
    <3>1. ~Correcting(o, q) /\ \A c \in K : ~Edits(c, o, q)
      BY <2>2, <2>5 DEF Correcting, Edits
    <3> QED
      BY <3>1 DEF Checked
  <2>8. o \in Are(K, q, "active") => o \in settled
    <3>1. settled = SettledIn(K \ {o}, q) \cup ActiveAmong({o}, q)
      BY <1>1, <2>6, InertSettled
    <3> QED
      BY <2>7, <3>1, AreThose DEF ActiveAmong
  <2>9. Applicable(d, q) # "proposed"
    BY <2>3 DEF Applicable, Match, Compactable
  <2> QED
    BY <2>2, <2>4, <2>7, <2>8, <2>9
<1>8. ASSUME NEW d \in ActiveAmong(D, q)
      PROVE  \E o \in settled : o.is.kind = "overwrite" /\ Slot(o) = Slot(d) /\ d.seq < o.seq
  <2>1. d \in D /\ Applicable(d, q) = "active"
    BY DEF ActiveAmong
  <2>2. PICK o \in K : /\ o.is.kind = "overwrite" /\ Slot(o) = Slot(d) /\ d.seq < o.seq
                       /\ Checked(o, K, q) = "active"
                       /\ o \in Are(K, q, "active") => o \in settled
    BY <1>7, <2>1
  <2> QED
    BY <2>2, AreThose
<1>9. ActiveIn(E, q) = ActiveIn(K, q)
  <2> DEFINE all == SettledIn(E, q)
  <2>1. ASSUME NEW e \in settled PROVE e \in Replaced(all) <=> e \in Replaced(settled)
    <3>1. ASSUME NEW o \in all, o.is.kind = "overwrite", Slot(o) = Slot(e), e.seq < o.seq
          PROVE  \E p \in settled : p.is.kind = "overwrite" /\ Slot(p) = Slot(e) /\ e.seq < p.seq
      <4>1. CASE o \in settled
        BY <3>1, <4>1
      <4>2. CASE o \in ActiveAmong(D, q)
        <5>1. PICK p \in settled : p.is.kind = "overwrite" /\ Slot(p) = Slot(o) /\ o.seq < p.seq
          BY <1>8, <4>2
        <5>2. {e.seq, o.seq, p.seq} \subseteq Int
          BY <1>1, <1>6, <4>2 DEF ActiveAmong, Ordered
        <5> QED
          BY <3>1, <5>1, <5>2
      <4> QED
        BY <1>3, <3>1, <4>1, <4>2
    <3> QED
      BY <1>3, <3>1 DEF Replaced
  <2>2. ASSUME NEW d \in ActiveAmong(D, q) PROVE d \in Replaced(all)
    <3>1. d.is.kind # "correction"
      BY <1>2 DEF Inert, ActiveAmong
    <3> QED
      BY <1>3, <1>8, <3>1 DEF Replaced
  <2> QED
    BY <1>3, <2>1, <2>2 DEF ActiveIn
<1>10. Are(E, q, "proposed") = Are(K, q, "proposed")
  BY <1>4, <1>7
<1>11. UnresolvedIn(E, q) = UnresolvedIn(K, q) \cup {d \in D : Applicable(d, q) = "unresolved"}
  BY <1>3, <1>4 DEF UnresolvedIn
<1>12. UnresolvedIn(K, q) = UnresolvedIn(E, q) \cap K
  BY <1>6, <1>11, AreThose DEF UnresolvedIn, Void
<1>13. ASSUME NEW e \in UnresolvedIn(E, q), e \notin K
       PROVE  \E o \in UnresolvedIn(K, q) : o.is.kind = "overwrite" /\ Slot(o) = Slot(e) /\ e.seq < o.seq
  <2>1. e \in D /\ Applicable(e, q) = "unresolved"
    BY <1>11, <1>12, <1>13
  <2>2. PICK o \in K : /\ o.is.kind = "overwrite" /\ Slot(o) = Slot(e) /\ e.seq < o.seq
                       /\ Checked(o, K, q) = "unresolved"
    BY <1>7, <2>1
  <2> QED
    BY <2>2, AreThose DEF UnresolvedIn
<1> HIDE DEF K
<1> QED
  BY <1>3, <1>9, <1>10, <1>12, <1>13, Parts DEF K

-----------------------------------------------------------------------------
(* A correction and its retraction.                                        *)

LEMMA RetractedMeans ==
    ASSUME NEW E, NEW N, Ordered(E, N), \A e, f \in E : e.seq = f.seq => e = f, NEW q,
           NEW c, NEW undo,
           undo \in Interpretation(E, q).active, c \in Interpretation(E, q).inactive,
           Edits(undo, c, q), undo.is.relation = "retract", Correcting(c, q),
           \A e \in E \ {undo} : e.is.target \notin {c.seq, undo.seq}
    PROVE  LET full == Interpretation(E, q)
               without == Interpretation(E \ {c, undo}, q)
           IN  /\ full.active = without.active \cup {undo}
               /\ full.inactive = without.inactive \cup {c}
               /\ full.conflicts = without.conflicts
<1> DEFINE K == E \ {c, undo}
           base == Are(E, q, "active")
           links == LinksIn(E, q)
           S == Stands(K, q) \cup {undo}
<1>1. Ordered(K, N) /\ K \subseteq E /\ base \subseteq E
  BY AreThose DEF Ordered
<1>2. Settles(Stands(E, q), base, links) /\ Settles(Stands(K, q), Are(K, q, "active"), LinksIn(K, q))
  BY <1>1, StandsSettles
<1>3. undo \in base /\ undo \in SettledIn(E, q) /\ undo \in Stands(E, q)
  <2>1. undo \in ActiveIn(E, q)
    BY Parts
  <2>2. undo \in SettledIn(E, q)
    BY <2>1 DEF ActiveIn
  <2>3. undo \in Stands(E, q)
    BY <2>2 DEF SettledIn
  <2> QED
    BY <1>2, <2>2, <2>3 DEF Settles
<1>4. c \in E /\ c \in base
  <2>1. c \in InactiveIn(E, q)
    BY Parts
  <2>2. c \in Are(E, q, "inactive") \cup base
    <3>1. Fallen(E, q) \subseteq base
      BY <1>2, VoidAreCorrections DEF Void, Settles
    <3>2. Replaced(SettledIn(E, q)) \subseteq base
      BY <1>2 DEF Replaced, SettledIn, Settles
    <3> QED
      BY <2>1, <3>1, <3>2 DEF InactiveIn
  <2>3. c \in E /\ Checked(c, E, q) \in {"inactive", "active"}
    BY <2>2, AreThose
  <2>4. Checked(c, E, q) \in {"unresolved", "active"}
    BY DEF Checked, Correcting
  <2> QED
    BY <2>3, <2>4, AreThose
<1>5. /\ undo \in E /\ undo # c /\ c.seq < undo.seq /\ undo.is.target = c.seq
      /\ undo.is.kind = "correction" /\ c.is.kind = "correction"
  <2>1. undo \in E /\ c.seq < undo.seq /\ undo.is.target = c.seq
    BY <1>1, <1>3 DEF Edits
  <2>2. c.seq \in Int /\ undo.seq \in Int
    BY <1>4, <2>1 DEF Ordered
  <2> QED
    BY <2>1, <2>2 DEF Edits, Correcting
<1>6. /\ \A e \in E : Edits(undo, e, q) => e = c
      /\ \A e \in E : ~Edits(e, undo, q)
      /\ \A e \in E : Edits(e, c, q) => e = undo
  <2>1. \A e \in E : Edits(undo, e, q) => e = c
    BY <1>4, <1>5 DEF Edits
  <2>2. ~Edits(undo, undo, q)
    BY <1>5, <2>1
  <2> QED
    BY <1>5, <2>1, <2>2 DEF Edits
<1>7. \A e \in E : Edits(c, e, q) => ~Ambiguous(c, e)
  <2>1. Checked(c, E, q) = "active"
    BY <1>4, AreThose
  <2>2. PICK t \in E : Edits(c, t, q) /\ ~Ambiguous(c, t)
    BY <2>1 DEF Checked
  <2>3. \A e \in E : Edits(c, e, q) => e = t
    BY <2>2 DEF Edits
  <2> QED
    BY <2>2, <2>3
<1>8. ASSUME NEW e \in K PROVE Checked(e, E, q) = Checked(e, K, q)
  <2>1. (\E x \in E : Edits(x, e, q) /\ Ambiguous(x, e))
          <=> \E x \in K : Edits(x, e, q) /\ Ambiguous(x, e)
    BY <1>6, <1>7
  <2>2. (\E t \in E : Edits(e, t, q) /\ ~Ambiguous(e, t))
          <=> \E t \in K : Edits(e, t, q) /\ ~Ambiguous(e, t)
    BY <1>6
  <2> QED
    BY <2>1, <2>2 DEF Checked
<1>9. /\ base = Are(K, q, "active") \cup {c, undo}
      /\ \A status : status # "active" => Are(E, q, status) = Are(K, q, status)
  <2>1. \A status : Are(E, q, status) \cap K = Are(K, q, status)
    BY <1>8, AreThose
  <2>2. Checked(c, E, q) = "active" /\ Checked(undo, E, q) = "active"
    BY <1>3, <1>4, AreThose
  <2>3. base = Are(K, q, "active") \cup {c, undo}
    <3>1. base \cap K = Are(K, q, "active")
      BY <2>1
    <3> HIDE DEF base
    <3> QED
      BY <1>1, <1>3, <1>4, <3>1
  <2>4. ASSUME NEW status, status # "active" PROVE Are(E, q, status) = Are(K, q, status)
    <3>1. c \notin Are(E, q, status) /\ undo \notin Are(E, q, status) /\ Are(E, q, status) \subseteq E
      BY <2>2, <2>4, AreThose
    <3>2. Are(E, q, status) \cap K = Are(K, q, status)
      BY <2>1
    <3> QED
      BY <3>1, <3>2
  <2> QED
    BY <2>3, <2>4
<1>10. /\ \A x, t : <<x, t>> \in LinksIn(K, q) <=> <<x, t>> \in links /\ x \in K /\ t \in K
       /\ \A t : <<undo, t>> \in links <=> t = c
       /\ \A x : <<x, c>> \in links <=> x = undo
       /\ \A x : <<x, undo>> \notin links
  <2>1. ~Ambiguous(undo, c)
    BY DEF Ambiguous
  <2>2. <<undo, c>> \in links
    BY <1>4, <1>5, <2>1, LinkFacts
  <2> QED
    BY <1>6, <2>2, LinkFacts
<1>11. Cardinality({}) = 0 /\ Cardinality({undo}) = 1
  BY FS_EmptySet, FS_Singleton
<1>12. Stands(K, q) \subseteq K /\ undo \notin Stands(K, q) /\ c \notin Stands(K, q)
  BY <1>2, AreThose DEF Settles
<1>13. Settles(S, base, links)
  <2>1. S \subseteq base
    BY <1>2, <1>3, <1>9 DEF Settles
  <2>2. ASSUME NEW e \in base PROVE e \in S <=> Cardinality(On(e, S, links)) # 1
    <3>1. CASE e = undo
      <4>1. On(e, S, links) = {}
        BY <1>10, <3>1 DEF On
      <4>2. e \in S
        BY <3>1
      <4> HIDE DEF S
      <4> QED
        BY <1>11, <4>1, <4>2
    <3>2. CASE e = c
      <4>1. On(e, S, links) = {undo}
        BY <1>10, <3>2 DEF On
      <4> QED
        BY <1>5, <1>11, <1>12, <3>2, <4>1
    <3>3. CASE e \in K
      <4>1. On(e, S, links) = On(e, Stands(K, q), LinksIn(K, q))
        BY <1>10, <1>12, <3>3 DEF On
      <4>2. e \in Are(K, q, "active") /\ (e \in S <=> e \in Stands(K, q))
        BY <1>9, <3>3
      <4> QED
        BY <1>2, <4>1, <4>2 DEF Settles
    <3> QED
      BY <1>1, <3>1, <3>2, <3>3
  <2> QED
    BY <2>1, <2>2 DEF Settles
<1>14. Stands(E, q) = S
  <2>1. Ordered(base, N) /\ Backwards(links)
    BY <1>1, LinkFacts DEF Ordered
  <2> HIDE DEF S, base, links
  <2> QED
    BY <1>2, <1>13, <2>1, SettledOnce
<1>15. /\ \A t \in K : LiveOn(t, E, q) = LiveOn(t, K, q)
       /\ LiveOn(c, E, q) = {undo} /\ LiveOn(undo, E, q) = {}
  <2>1. ASSUME NEW t \in K PROVE LiveOn(t, E, q) = LiveOn(t, K, q)
    BY <1>10, <1>12, <1>14 DEF LiveOn
  <2> QED
    BY <1>10, <1>14, <2>1 DEF LiveOn
<1>16. /\ Fallen(E, q) = Fallen(K, q) /\ Disputed(E, q) = Disputed(K, q)
  <2>1. \A status : Are(K, q, status) \subseteq K
    BY AreThose
  <2>2. \A status : status # "active" =>
          UNION {LiveOn(t, E, q) : t \in Are(E, q, status)} = UNION {LiveOn(t, K, q) : t \in Are(K, q, status)}
    <3> SUFFICES ASSUME NEW status, status # "active"
                 PROVE  UNION {LiveOn(t, E, q) : t \in Are(E, q, status)}
                          = UNION {LiveOn(t, K, q) : t \in Are(K, q, status)}
      OBVIOUS
    <3>1. Are(E, q, status) = Are(K, q, status) /\ Are(K, q, status) \subseteq K
      BY <1>9, <2>1
    <3> HIDE DEF K
    <3>2. {LiveOn(t, E, q) : t \in Are(K, q, status)} = {LiveOn(t, K, q) : t \in Are(K, q, status)}
      BY <1>15, <3>1
    <3> QED
      BY <3>1, <3>2
  <2>3. Fallen(E, q) = Fallen(K, q)
    BY <2>2 DEF Fallen
  <2>4. Are(E, q, "unresolved") \cup Are(E, q, "proposed") = Are(K, q, "unresolved") \cup Are(K, q, "proposed")
    BY <1>9
  <2>5. Disputed(E, q) = Disputed(K, q)
    <3> DEFINE A == Are(K, q, "unresolved") \cup Are(K, q, "proposed")
    <3>1. A \subseteq K
      BY <2>1
    <3> HIDE DEF K, A
    <3>2. {LiveOn(t, E, q) : t \in A} = {LiveOn(t, K, q) : t \in A}
      BY <1>15, <3>1
    <3> QED
      BY <2>4, <3>2 DEF Disputed, A
  <2> QED
    BY <2>3, <2>5
<1>17. RivalsIn(E, q) = RivalsIn(K, q)
  <2>1. Are(K, q, "active") \subseteq K
    BY AreThose
  <2>2. ASSUME NEW g \in RivalsIn(E, q) PROVE g \in RivalsIn(K, q)
    <3>1. PICK t \in base : g = LiveOn(t, E, q)
      BY <2>2 DEF RivalsIn
    <3>2. t \notin {c, undo}
      BY <1>11, <1>15, <2>2, <3>1 DEF RivalsIn
    <3> QED
      BY <1>9, <1>15, <2>1, <2>2, <3>1, <3>2 DEF RivalsIn
  <2>3. ASSUME NEW g \in RivalsIn(K, q) PROVE g \in RivalsIn(E, q)
    <3>1. PICK t \in Are(K, q, "active") : g = LiveOn(t, K, q)
      BY <2>3 DEF RivalsIn
    <3>2. t \in base /\ g = LiveOn(t, E, q) /\ Cardinality(g) > 1
      BY <1>9, <1>15, <2>1, <2>3, <3>1 DEF RivalsIn
    <3> QED
      BY <3>2 DEF RivalsIn
  <2> QED
    BY <2>2, <2>3
<1>18. SettledIn(E, q) = SettledIn(K, q) \cup {undo}
  BY <1>3, <1>14, <1>16, <1>17 DEF SettledIn
<1>19. Replaced(SettledIn(E, q)) = Replaced(SettledIn(K, q))
  BY <1>5, <1>18 DEF Replaced
<1>20. ActiveIn(E, q) = ActiveIn(K, q) \cup {undo}
  BY <1>5, <1>18, <1>19 DEF ActiveIn, Replaced
<1>21. base \ Stands(E, q) = (Are(K, q, "active") \ Stands(K, q)) \cup {c}
  BY <1>5, <1>9, <1>12, <1>14, AreThose
<1>22. InactiveIn(E, q) = InactiveIn(K, q) \cup {c}
  BY <1>9, <1>16, <1>19, <1>21 DEF InactiveIn
<1>23. Disagreements(ActiveIn(E, q)) = Disagreements(ActiveIn(K, q))
  <2> DEFINE Valued(A) == {e \in A : e.is.relation = "value"}
             Groups(V) == {g \in {{e \in V : Slot(e) = Slot(x)} : x \in V} :
                             \E x, y \in g : x.is.value # y.is.value}
  <2>1. Valued(ActiveIn(E, q)) = Valued(ActiveIn(K, q))
    BY <1>20
  <2>2. \A A : Disagreements(A) = Groups(Valued(A))
    BY Zenon DEF Disagreements
  <2> HIDE DEF Valued, Groups
  <2> QED
    BY <2>1, <2>2
<1> HIDE DEF K
<1>24. /\ Interpretation(E, q).active = Interpretation(K, q).active \cup {undo}
       /\ Interpretation(E, q).inactive = Interpretation(K, q).inactive \cup {c}
  BY <1>20, <1>22, Parts
<1>25. Interpretation(E, q).conflicts = Interpretation(K, q).conflicts
  BY <1>17, <1>23, Parts
<1> QED
  BY <1>24, <1>25 DEF K

-----------------------------------------------------------------------------
(* The history and the rows that readers are given.                        *)

LEMMA EntriesOrdered ==
    ASSUME NEW h \in Seq(ContentType)
    PROVE  /\ Ordered(Entries(h), Len(h))
           /\ \A e, f \in Entries(h) : e.seq = f.seq => e = f
           /\ \A e \in Entries(h) : e.is = h[e.seq]
BY DEF Ordered, Entries, Numbered, Entry

LEMMA RowsCompacted ==
    ASSUME JournalInv, NEW n \in Nodes
    PROVE  Numbered(history[n], operational[n]) = Compact(Entries(history[n]))
<1>1. Compact(Entries(history[n])) \subseteq Entries(history[n])
  BY CorrectionsKept
<1> QED
  BY <1>1, NumbersInverse DEF JournalInv, OperationalExact

(* A reader who is given the operational rows of any journal learns what   *)
(* all its entries say, for every scope and instant (workspace.py,         *)
(* operational_journal).                                                   *)
THEOREM CompactionKeepsMeaning == Spec => []CompactionSound
<1>1. ASSUME JournalInv PROVE CompactionSound
  <2> SUFFICES ASSUME NEW n \in Nodes, NEW q \in Queries
               PROVE  LET given == Numbered(history[n], operational[n])
                          full == Interpretation(Entries(history[n]), q)
                          seen == Interpretation(given, q)
                      IN  /\ seen.active = full.active
                          /\ seen.proposed = full.proposed
                          /\ seen.conflicts = full.conflicts
                          /\ seen.unresolved = full.unresolved \cap given
                          /\ \A e \in full.unresolved \ given : \E o \in seen.unresolved :
                               o.is.kind = "overwrite" /\ Slot(o) = Slot(e) /\ e.seq < o.seq
    BY DEF CompactionSound
  <2>1. history[n] \in Seq(ContentType)
    BY <1>1 DEF JournalInv, TypeOK
  <2>2. Numbered(history[n], operational[n]) = Compact(Entries(history[n]))
    BY <1>1, RowsCompacted
  <2> QED
    BY <2>1, <2>2, EntriesOrdered, CompactedMeans
<1> QED
  BY <1>1, AlwaysInv, PTL

(* Retracting a correction undoes it, for every journal, scope and instant *)
(* (evidence.py, interpret_journal).                                       *)
THEOREM RetractionInverts == Spec => []RetractionUndoes
<1>1. ASSUME JournalInv PROVE RetractionUndoes
  <2> SUFFICES ASSUME NEW n \in Nodes, NEW q \in Queries,
                      NEW undo \in Interpretation(Entries(history[n]), q).active,
                      NEW c \in Interpretation(Entries(history[n]), q).inactive,
                      Edits(undo, c, q), undo.is.relation = "retract", Correcting(c, q),
                      \A e \in Entries(history[n]) \ {undo} : e.is.target \notin {c.seq, undo.seq}
               PROVE  LET all == Entries(history[n])
                          full == Interpretation(all, q)
                          without == Interpretation(all \ {c, undo}, q)
                      IN  /\ full.active = without.active \cup {undo}
                          /\ full.inactive = without.inactive \cup {c}
                          /\ full.conflicts = without.conflicts
    BY DEF RetractionUndoes
  <2>1. history[n] \in Seq(ContentType)
    BY <1>1 DEF JournalInv, TypeOK
  <2> QED
    BY <2>1, EntriesOrdered, RetractedMeans
<1> QED
  BY <1>1, AlwaysInv, PTL

(* An append that is no correction replaces entries of its own slot at     *)
(* most (evidence.py, interpret_journal).                                  *)
THEOREM AppendsAreLocal == Spec => AppendIsLocal
<1> DEFINE Local(before, after, q) ==
             \A new \in after \ before :
               new.is.kind # "correction" => OnlyReplaces(new, before, after, q)
           AllLocal == \A n \in Nodes, q \in Queries :
                         Local(Entries(history[n]), Entries(history'[n]), q)
<1>1. ASSUME JournalInv, NEW r \in Requests, AppendEntry(r) PROVE AllLocal
  <2> SUFFICES ASSUME NEW n \in Nodes, NEW q \in Queries
               PROVE  Local(Entries(history[n]), Entries(history'[n]), q)
    OBVIOUS
  <2>1. CASE n # r.node
    <3>1. Entries(history'[n]) = Entries(history[n])
      BY <1>1, <2>1, AppendFacts
    <3> QED
      BY <3>1
  <2>2. CASE n = r.node
    <3> DEFINE h == history[n]
               after == Entries(history'[n])
               new == Entry(Len(h) + 1, r.is)
    <3>1. /\ h \in Seq(ContentType) /\ r.is \in ContentType
          /\ history'[n] = Append(h, r.is) /\ history'[n] \in Seq(ContentType)
          /\ Len(history'[n]) = Len(h) + 1 /\ Len(h) \in Nat
          /\ r.is.target < Len(h) + 1
      BY <1>1, <2>2, AppendFacts
    <3>2. after = Entries(h) \cup {new}
      BY <3>1, EntriesGrow
    <3>3. Ordered(Entries(h), Len(h)) /\ Ordered(after, Len(h) + 1)
      BY <3>1, EntriesOrdered
    <3>4. new.seq = Len(h) + 1 /\ new.is = r.is
      BY DEF Entry
    <3>5. \A e \in Entries(h) : e.seq < new.seq /\ e.seq # new.seq
      BY <3>1, <3>3, <3>4 DEF Ordered
    <3>6. after \ {new} = Entries(h)
      BY <3>2, <3>5
    <3>7. \A c \in after : c.is.target # new.seq
      <4>1. ASSUME NEW c \in Entries(h) PROVE c.is.target # new.seq
        <5>1. c.seq \in 1 .. Len(h) /\ c.is = h[c.seq] /\ h[c.seq] \in ContentType
          BY <3>1, <3>3, EntriesOrdered DEF Ordered
        <5>2. c.is.target < c.seq /\ c.is.target \in Nat
          BY <1>1, <5>1 DEF JournalInv, TargetsEarlier, ContentType
        <5> QED
          BY <3>1, <3>4, <5>1, <5>2
      <4>2. new.is.target \in Nat /\ new.is.target < new.seq
        BY <3>1, <3>4 DEF ContentType
      <4> QED
        BY <3>1, <3>2, <3>4, <4>1, <4>2
    <3>8. Len(h) + 1 \in Nat
      BY <3>1
    <3> HIDE DEF h, new
    <3>9. ASSUME new.is.kind # "correction"
          PROVE  OnlyReplaces(new, after \ {new}, after, q)
      <4>1. new \in after /\ \A e \in after \ {new} : e.seq < new.seq
        BY <3>2, <3>5
      <4> HIDE DEF after
      <4> QED
        BY <3>3, <3>7, <3>8, <3>9, <4>1, AppendedMeans
    <3>10. after \ Entries(h) = {new}
      BY <3>2, <3>6
    <3> HIDE DEF after
    <3>11. Local(Entries(h), after, q)
      BY <3>6, <3>9, <3>10
    <3> QED
      BY <3>11 DEF h, after
  <2> QED
    BY <2>1, <2>2
<1>2. JournalInv /\ [Next]_vars => [AllLocal]_history
  <2> SUFFICES ASSUME JournalInv, [Next]_vars, history' # history PROVE AllLocal
    OBVIOUS
  <2>1. PICK r \in Requests : AppendEntry(r)
    BY DEF Next, vars, Replay, CompactJournal
  <2> HIDE DEF AllLocal
  <2> QED
    BY <1>1, <2>1
<1>3. Spec => [][AllLocal]_history
  <2> HIDE DEF AllLocal
  <2> QED
    BY <1>2, AlwaysInv, PTL DEF Spec
<1> QED
  BY <1>3 DEF AppendIsLocal, OnlyReplaces
=============================================================================
