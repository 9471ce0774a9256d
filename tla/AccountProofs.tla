----------------------------- MODULE AccountProofs -----------------------------
(***************************************************************************)
(* What accounts say, for any number of calls, readers and attempts, and   *)
(* whatever fails or dies: the bytes that a handle holds (EffectiveReads), *)
(* the money and the token window of paid calls (Spending), and the report *)
(* of a benchmark run (Benchmark).                                         *)
(***************************************************************************)
EXTENDS Parts, Totals, FiniteSetTheorems, WellFoundedInduction, TLAPS

-----------------------------------------------------------------------------
(* Totals *)

LEMMA OwnUnits ==
    ASSUME NEW x, NEW n \in Int
    PROVE  /\ IsFiniteSet({x} \X (1 .. n))
           /\ n \in Nat => Cardinality({x} \X (1 .. n)) = n
<1>1. IsFiniteSet({x}) /\ Cardinality({x}) = 1
    BY FS_Singleton
<1>2. IsFiniteSet(1 .. n) /\ Cardinality(1 .. n) \in Nat /\ (n \in Nat => Cardinality(1 .. n) = n)
    <2>1. IsFiniteSet(1 .. n) /\ Cardinality(1 .. n) = IF 1 > n THEN 0 ELSE n - 1 + 1
        BY FS_Interval
    <2> QED
        BY <2>1
<1>3. \A S, T : IsFiniteSet(S) /\ IsFiniteSet(T) =>
          IsFiniteSet(S \X T) /\ Cardinality(S \X T) = Cardinality(S) * Cardinality(T)
    BY FS_Product
<1>4. /\ IsFiniteSet({x} \X (1 .. n))
      /\ Cardinality({x} \X (1 .. n)) = Cardinality({x}) * Cardinality(1 .. n)
    BY <1>1, <1>2, <1>3
<1> QED
    BY <1>1, <1>2, <1>4

LEMMA UnitsFinite ==
    ASSUME NEW S, IsFiniteSet(S), NEW f, \A x \in S : f[x] \in Int
    PROVE  IsFiniteSet(Units(f, S))
<1> DEFINE Own(x) == {x} \X (1 .. f[x])
           All == {Own(x) : x \in S}
           g == [x \in S |-> Own(x)]
<1>1. g \in Surjection(S, All)
    BY DEF Surjection
<1>2. IsFiniteSet(All)
    BY <1>1, FS_Surjection
<1>3. ASSUME NEW x \in S PROVE IsFiniteSet(Own(x))
    BY OwnUnits
<1>4. \A T \in All : IsFiniteSet(T)
    BY <1>3
<1> QED
    BY <1>2, <1>4, FS_UNION DEF Units

LEMMA TotalNat ==
    ASSUME NEW S, IsFiniteSet(S), NEW f, \A x \in S : f[x] \in Int
    PROVE  Total(f, S) \in Nat
BY UnitsFinite, FS_CardinalityType DEF Total

\* More members with more each have more together.
LEMMA TotalGrows ==
    ASSUME NEW S, NEW T, IsFiniteSet(T), S \subseteq T, NEW f, NEW g,
           \A x \in T : g[x] \in Int, \A x \in S : f[x] \in Int /\ f[x] <= g[x]
    PROVE  Total(f, S) <= Total(g, T)
<1>1. Units(f, S) \subseteq Units(g, T)
    <2>1. ASSUME NEW x \in S PROVE 1 .. f[x] \subseteq 1 .. g[x]
        OBVIOUS
    <2> QED
        BY <2>1 DEF Units
<1> QED
    BY <1>1, UnitsFinite, FS_Subset DEF Total

LEMMA TotalSame ==
    ASSUME NEW S, NEW f, NEW g, \A x \in S : f[x] = g[x]
    PROVE  Total(f, S) = Total(g, S)
<1>1. Units(f, S) = Units(g, S)
    BY DEF Units
<1> QED
    BY <1>1 DEF Total

LEMMA TotalAdds ==
    ASSUME NEW S, IsFiniteSet(S), NEW x, x \notin S, NEW f, \A y \in S : f[y] \in Int,
           f[x] \in Nat
    PROVE  Total(f, S \cup {x}) = Total(f, S) + f[x]
<1> DEFINE own == {x} \X (1 .. f[x])
<1>1. Units(f, S \cup {x}) = Units(f, S) \cup own
    BY DEF Units
<1>2. Units(f, S) \cap own = {}
    BY DEF Units
<1>3. IsFiniteSet(own) /\ Cardinality(own) = f[x]
    <2>1. f[x] \in Int
        OBVIOUS
    <2> QED
        BY <2>1, OwnUnits
<1>4. IsFiniteSet(Units(f, S)) /\ Cardinality(Units(f, S)) \in Nat
    BY UnitsFinite, FS_CardinalityType
<1>5. Cardinality(Units(f, S) \cup own) = Cardinality(Units(f, S)) + Cardinality(own) - 0
    <2>1. Cardinality(Units(f, S) \cup own) =
              Cardinality(Units(f, S)) + Cardinality(own) - Cardinality(Units(f, S) \cap own)
        BY <1>3, <1>4, FS_Union
    <2>2. Cardinality(Units(f, S) \cap own) = 0
        BY <1>2, FS_EmptySet
    <2> QED
        BY <2>1, <2>2
<1>6. Total(f, S \cup {x}) = Cardinality(Units(f, S)) + f[x] - 0
    BY <1>1, <1>3, <1>5 DEF Total
<1>7. Total(f, S) \in Nat /\ Total(f, S) = Cardinality(Units(f, S))
    BY <1>4 DEF Total
<1> QED
    BY <1>6, <1>7

LEMMA TotalRemoves ==
    ASSUME NEW S, IsFiniteSet(S), NEW x \in S, NEW f, \A y \in S : f[y] \in Int, f[x] \in Nat
    PROVE  Total(f, S) = Total(f, S \ {x}) + f[x]
<1>1. IsFiniteSet(S \ {x}) /\ (S \ {x}) \cup {x} = S
    BY FS_RemoveElement
<1>2. Total(f, (S \ {x}) \cup {x}) = Total(f, S \ {x}) + f[x]
    BY <1>1, TotalAdds
<1> QED
    BY <1>1, <1>2

\* One member's number changes.
LEMMA TotalChanges ==
    ASSUME NEW S, IsFiniteSet(S), NEW x \in S, NEW f, NEW g,
           \A y \in S : f[y] \in Nat /\ g[y] \in Nat /\ (y # x => g[y] = f[y])
    PROVE  Total(g, S) = Total(f, S) - f[x] + g[x]
<1>1. Total(f, S) = Total(f, S \ {x}) + f[x] /\ Total(g, S) = Total(g, S \ {x}) + g[x]
    BY TotalRemoves
<1>2. Total(g, S \ {x}) = Total(f, S \ {x})
    BY TotalSame
<1>3. Total(f, S \ {x}) \in Nat
    <2>1. IsFiniteSet(S \ {x}) /\ \A y \in S \ {x} : f[y] \in Int
        BY FS_RemoveElement
    <2> QED
        BY <2>1, TotalNat
<1> QED
    BY <1>1, <1>2, <1>3

LEMMA TotalNone ==
    ASSUME NEW f PROVE Total(f, {}) = 0
<1>1. Units(f, {}) = {}
    BY DEF Units
<1> QED
    BY <1>1, FS_EmptySet DEF Total

-----------------------------------------------------------------------------
(* The bytes that a handle holds *)

Sizes == [n \in DOMAIN states |-> Reads!Size(states[n])]

ReaderRecords(P, A, F, T, W) == [pc : P, asked : A, fetched : F, top : T, work : W]

\* What a reader has fetched is about known entries.
Fetches(P, A, F, T, W) ==
    reader \in [Readers -> ReaderRecords(P, A, F, T, W)] /\ \A f \in F : DOMAIN f \subseteq Amendments

ReadersFit == \E P, A, F, T, W : Fetches(P, A, F, T, W)

\* The account is the sum over the journals that the handle has loaded last.
BytesInv ==
    /\ IsFiniteSet(DOMAIN states) /\ states = [n \in DOMAIN states |-> states[n]]
    /\ \A n \in DOMAIN states : DOMAIN states[n] \subseteq Amendments
    /\ ReadersFit
    /\ bytes = Total(Sizes, DOMAIN states) /\ bytes <= MaxTotal

\* The component has the size of a set, and sums, as this module has them.
LEMMA SizesAgree ==
    ASSUME NEW S, NEW f
    PROVE  /\ Reads!IsFiniteSet(S) <=> IsFiniteSet(S)
           /\ Reads!Cardinality(S) = Cardinality(S)
           /\ Reads!Total(f, S) = Total(f, S)
<1>1. \A U : (Reads!IsFiniteSet(U) <=> IsFiniteSet(U)) /\ Reads!Cardinality(U) = Cardinality(U)
    BY DEF Reads!IsFiniteSet, IsFiniteSet, Reads!Cardinality, Cardinality
<1>2. Reads!Units(f, S) = Units(f, S)
    BY DEF Reads!Units, Units
<1> QED
    BY <1>1, <1>2 DEF Reads!Total, Total

LEMMA SizeNat ==
    ASSUME Reads!ReadsAssumption, NEW v, DOMAIN v \subseteq Amendments
    PROVE  Reads!Size(v) \in Nat
<1> DEFINE held == {a \in DOMAIN v : v[a] # "absent"}
<1>1. held \in SUBSET Amendments /\ IsFiniteSet(Amendments)
    BY SizesAgree DEF Reads!ReadsAssumption
<1>2. IsFiniteSet(held)
    BY <1>1, FS_Subset
<1>3. Cardinality(held) \in Nat
    BY <1>2, FS_CardinalityType
<1> QED
    BY <1>3, SizesAgree DEF Reads!Size

LEMMA SizesNat ==
    ASSUME Reads!ReadsAssumption, BytesInv
    PROVE  /\ \A n \in DOMAIN states : Sizes[n] \in Nat
           /\ bytes \in Nat /\ MaxTotal \in Nat
<1>1. \A n \in DOMAIN states : Sizes[n] \in Nat
    BY SizeNat DEF BytesInv, Sizes
<1> QED
    BY <1>1, TotalNat DEF BytesInv, Reads!ReadsAssumption

LEMMA BytesInit ==
    ASSUME Reads!ReadsAssumption, Reads!Init
    PROVE  BytesInv
<1>1. states = [n \in {} |-> Reads!NoView] /\ bytes = 0 /\ DOMAIN states = {}
    BY DEF Reads!Init
<1>2. Total(Sizes, {}) = 0
    BY TotalNone
<1>3. DOMAIN Reads!NoView = {}
    BY DEF Reads!NoView
<1>4. Fetches({"idle"}, {<<>>}, {Reads!NoView}, {Reads!NoView}, {<<>>})
    BY <1>3 DEF Reads!Init, Fetches, ReaderRecords
<1> QED
    BY <1>1, <1>2, <1>4, FS_EmptySet DEF BytesInv, ReadersFit, Reads!ReadsAssumption

\* A step that loads nothing.
LEMMA BytesStay ==
    ASSUME BytesInv, UNCHANGED <<states, bytes>>,
           ReadersFit'
    PROVE  BytesInv'
BY DEF BytesInv, Sizes, Reads!Size

\* A journal is loaded, for the first time or again.
LEMMA BytesMove ==
    ASSUME Reads!ReadsAssumption, BytesInv, NEW node, NEW v, DOMAIN v \subseteq Amendments,
           states' = [n \in DOMAIN states \cup {node} |-> IF n = node THEN v ELSE states[n]],
           bytes' = bytes - Reads!Loaded(node) + Reads!Size(v), bytes' <= MaxTotal,
           ReadersFit'
    PROVE  BytesInv'
<1> DEFINE after == [n \in DOMAIN states \cup {node} |->
                         IF n = node THEN Reads!Size(v) ELSE Sizes[n]]
<1>1. DOMAIN states' = DOMAIN states \cup {node} /\ IsFiniteSet(DOMAIN states \cup {node})
    BY FS_AddElement DEF BytesInv
<1>2. /\ \A n \in DOMAIN states : Sizes[n] \in Nat
      /\ Reads!Size(v) \in Nat /\ bytes \in Nat
    BY SizesNat, SizeNat
<1>3. Sizes' = after
    BY DEF Sizes, Reads!Size
<1>4. bytes' = Total(after, DOMAIN states \cup {node})
    <2>1. CASE node \in DOMAIN states
        <3>1. DOMAIN states \cup {node} = DOMAIN states
            BY <2>1
        <3>2. \A n \in DOMAIN states :
                  Sizes[n] \in Nat /\ after[n] \in Nat /\ (n # node => after[n] = Sizes[n])
            BY <1>2
        <3>3. Total(after, DOMAIN states) = Total(Sizes, DOMAIN states) - Sizes[node] + after[node]
            <4>1. IsFiniteSet(DOMAIN states)
                BY DEF BytesInv
            <4> HIDE DEF after
            <4> QED
                BY <2>1, <3>2, <4>1, TotalChanges
        <3>4. Sizes[node] = Reads!Loaded(node) /\ after[node] = Reads!Size(v)
            BY <2>1 DEF Sizes, Reads!Loaded
        <3> QED
            BY <3>1, <3>3, <3>4 DEF BytesInv
    <2>2. CASE node \notin DOMAIN states
        <3>1. \A n \in DOMAIN states : after[n] = Sizes[n]
            BY <2>2
        <3>2. after[node] = Reads!Size(v) /\ Reads!Loaded(node) = 0
            BY <2>2 DEF Reads!Loaded
        <3>3. \A n \in DOMAIN states : after[n] \in Int
            BY <1>2, <3>1
        <3>4. Total(after, DOMAIN states \cup {node}) = Total(after, DOMAIN states) + after[node]
            BY <1>2, <2>2, <3>2, <3>3, TotalAdds DEF BytesInv
        <3>5. Total(after, DOMAIN states) = Total(Sizes, DOMAIN states)
            BY <3>1, TotalSame
        <3> QED
            BY <1>2, <3>2, <3>4, <3>5 DEF BytesInv
    <2> QED
        BY <2>1, <2>2
<1>5. /\ states' = [n \in DOMAIN states' |-> states'[n]]
      /\ \A n \in DOMAIN states' : DOMAIN states'[n] \subseteq Amendments
    BY <1>1 DEF BytesInv
<1> QED
    BY <1>1, <1>3, <1>4, <1>5 DEF BytesInv

\* One reader's record changes.
LEMMA ReaderMoves ==
    ASSUME NEW P, NEW A, NEW F, NEW T, NEW W, Fetches(P, A, F, T, W),
           NEW p, NEW a, NEW f, NEW t, NEW w, DOMAIN f \subseteq Amendments, NEW r \in Readers,
           NEW s \in ReaderRecords(P \cup {p}, A \cup {a}, F \cup {f}, T \cup {t}, W \cup {w}),
           reader' = [reader EXCEPT ![r] = s]
    PROVE  ReadersFit'
<1>1. \A q \in Readers :
          reader[q] \in ReaderRecords(P \cup {p}, A \cup {a}, F \cup {f}, T \cup {t}, W \cup {w})
    BY DEF Fetches, ReaderRecords
<1>2. Fetches(P \cup {p}, A \cup {a}, F \cup {f}, T \cup {t}, W \cup {w})'
    BY <1>1 DEF Fetches
<1> QED
    BY <1>2 DEF ReadersFit

LEMMA LoadStep ==
    ASSUME Reads!ReadsAssumption, BytesInv, NEW r \in Readers, Reads!Install(r)
    PROVE  BytesInv'
<1> DEFINE total == bytes - Reads!Loaded(Reads!Item(r).ref.node) + Reads!Size(reader[r].fetched)
<1>1. Reads!Installed(r, total)
    BY DEF Reads!Install
<1>2. PICK P, A, F, T, W : Fetches(P, A, F, T, W)
    BY DEF BytesInv, ReadersFit
<1>3. reader[r] \in ReaderRecords(P, A, F, T, W) /\ DOMAIN reader[r].fetched \subseteq Amendments
    BY <1>2 DEF Fetches, ReaderRecords
<1>4. CASE total > MaxTotal
    <2>1. /\ reader' = [reader EXCEPT ![r].pc = "failed"]
          /\ UNCHANGED <<states, bytes>>
        BY <1>1, <1>4 DEF Reads!Installed
    <2>2. PICK s : s = [reader[r] EXCEPT !.pc = "failed"]
        OBVIOUS
    <2>3. s \in ReaderRecords(P \cup {"failed"}, A \cup {<<>>}, F \cup {Reads!NoView}, T \cup {<<>>},
                              W \cup {<<>>})
        BY <1>3, <2>2 DEF ReaderRecords
    <2>4. reader' = [reader EXCEPT ![r] = s] /\ DOMAIN Reads!NoView \subseteq Amendments
        BY <2>1, <2>2 DEF Reads!NoView
    <2>5. ReadersFit'
        BY <1>2, <2>3, <2>4, ReaderMoves
    <2> QED
        BY <2>1, <2>5, BytesStay
<1>5. CASE ~ (total > MaxTotal)
    <2>1. PICK top, work :
              reader' = [reader EXCEPT ![r] = [reader[r] EXCEPT
                  !.pc = "reading", !.fetched = Reads!NoView, !.top = top, !.work = work]]
        BY <1>1, <1>2, <1>5 DEF Reads!Installed, Fetches
    <2>2. /\ states' = [n \in DOMAIN states \cup {Reads!Item(r).ref.node} |->
                  IF n = Reads!Item(r).ref.node THEN reader[r].fetched ELSE states[n]]
          /\ bytes' = total
        BY <1>1, <1>5 DEF Reads!Installed
    <2>3. PICK s : s = [reader[r] EXCEPT !.pc = "reading", !.fetched = Reads!NoView, !.top = top,
                                         !.work = work]
        OBVIOUS
    <2>4. s \in ReaderRecords(P \cup {"reading"}, A \cup {<<>>}, F \cup {Reads!NoView}, T \cup {top},
                              W \cup {work})
        BY <1>3, <2>3 DEF ReaderRecords
    <2>5. reader' = [reader EXCEPT ![r] = s] /\ DOMAIN Reads!NoView \subseteq Amendments
        BY <2>1, <2>3 DEF Reads!NoView
    <2>6. ReadersFit'
        BY <1>2, <2>4, <2>5, ReaderMoves
    <2>7. bytes' <= MaxTotal
        <3>1. Reads!Size(reader[r].fetched) \in Nat
            BY <1>3, SizeNat
        <3>2. Reads!Loaded(Reads!Item(r).ref.node) \in Nat
            BY SizesNat DEF Reads!Loaded, Sizes
        <3>3. bytes \in Nat /\ MaxTotal \in Nat
            BY SizesNat
        <3> QED
            BY <1>5, <2>2, <3>1, <3>2, <3>3
    <2> QED
        BY <1>3, <2>2, <2>6, <2>7, BytesMove
<1> QED
    BY <1>4, <1>5

LEMMA ReaderStep ==
    ASSUME Reads!ReadsAssumption, BytesInv, NEW r \in Readers,
           Reads!Ask(r) \/ Reads!Fetch(r) \/ Reads!ReadFails(r) \/ Reads!Finish(r)
    PROVE  BytesInv'
<1>1. UNCHANGED <<states, bytes>>
    BY DEF Reads!Ask, Reads!Fetch, Reads!ReadFails, Reads!Finish
<1>2. PICK P, A, F, T, W : Fetches(P, A, F, T, W)
    BY DEF BytesInv, ReadersFit
<1>3. reader[r] \in ReaderRecords(P, A, F, T, W) /\ DOMAIN Reads!NoView \subseteq Amendments
    BY <1>2 DEF Fetches, Reads!NoView
<1>4. CASE Reads!Ask(r)
    <2>1. PICK request, work :
              reader' = [reader EXCEPT ![r].pc = "reading", ![r].asked = request, ![r].work = work]
        BY <1>4 DEF Reads!Ask
    <2>2. PICK s : s = [reader[r] EXCEPT !.pc = "reading", !.asked = request, !.work = work]
        OBVIOUS
    <2>3. s \in ReaderRecords(P \cup {"reading"}, A \cup {request}, F \cup {Reads!NoView},
                              T \cup {<<>>}, W \cup {work})
        BY <1>3, <2>2 DEF ReaderRecords
    <2>4. reader' = [reader EXCEPT ![r] = s]
        BY <1>2, <2>1, <2>2 DEF Fetches
    <2>5. ReadersFit'
        BY <1>2, <1>3, <2>3, <2>4, ReaderMoves
    <2> QED
        BY <1>1, <2>5, BytesStay
<1>5. CASE Reads!Fetch(r)
    <2>1. PICK node : reader' = [reader EXCEPT ![r].pc = "fetched",
                                               ![r].fetched = Reads!ViewOf(node)]
        BY <1>5 DEF Reads!Fetch
    <2>2. PICK s : s = [reader[r] EXCEPT !.pc = "fetched", !.fetched = Reads!ViewOf(node)]
        OBVIOUS
    <2>3. s \in ReaderRecords(P \cup {"fetched"}, A \cup {<<>>}, F \cup {Reads!ViewOf(node)},
                              T \cup {<<>>}, W \cup {<<>>})
        BY <1>3, <2>2 DEF ReaderRecords
    <2>4. reader' = [reader EXCEPT ![r] = s]
        BY <1>2, <2>1, <2>2 DEF Fetches
    <2>5. DOMAIN Reads!ViewOf(node) \subseteq Amendments
        BY DEF Reads!ViewOf, Reads!Entries
    <2>6. ReadersFit'
        BY <1>2, <2>3, <2>4, <2>5, ReaderMoves
    <2> QED
        BY <1>1, <2>6, BytesStay
<1>6. CASE \/ reader' = [reader EXCEPT ![r].pc = "failed"]
           \/ reader' = [reader EXCEPT ![r].pc = "done"]
           \/ \E work : reader' = [reader EXCEPT ![r].work = work]
    <2>1. PICK s, step, work :
              /\ s = [reader[r] EXCEPT !.pc = step] \/ s = [reader[r] EXCEPT !.work = work]
              /\ reader' = [reader EXCEPT ![r] = s]
        BY <1>2, <1>6 DEF Fetches
    <2>2. s \in ReaderRecords(P \cup {step}, A \cup {<<>>}, F \cup {Reads!NoView}, T \cup {<<>>},
                              W \cup {work})
        BY <1>3, <2>1 DEF ReaderRecords
    <2>3. ReadersFit'
        BY <1>2, <1>3, <2>1, <2>2, ReaderMoves
    <2> QED
        BY <1>1, <2>3, BytesStay
<1> QED
    BY <1>4, <1>5, <1>6 DEF Reads!ReadFails, Reads!Finish

LEMMA BytesStep ==
    ASSUME Reads!ReadsAssumption, BytesInv, [Reads!Next]_(Reads!vars)
    PROVE  BytesInv'
<1>1. CASE Reads!Amend \/ UNCHANGED Reads!vars
    BY <1>1, BytesStay DEF Reads!Amend, Reads!vars, BytesInv, ReadersFit, Fetches
<1> QED
    BY <1>1, LoadStep, ReaderStep DEF Reads!Next

-----------------------------------------------------------------------------
\* The invariant holds of the component by itself, and of this part among the others.
LEMMA BytesAlways ==
    /\ Reads!Spec => []BytesInv
    /\ Spec => [](part = "reads" => BytesInv)
<1> DEFINE Here == part = "reads" => BytesInv
<1>1. Reads!Init => BytesInv
    BY PartsAssumption, BytesInit
<1>2. BytesInv /\ [Reads!Next]_(Reads!vars) => BytesInv'
    BY PartsAssumption, BytesStep
<1>3. Init => Here
    BY <1>1 DEF Init
<1>4. Here /\ [Next]_vars => Here'
    <2>1. CASE UNCHANGED vars
        BY <1>2, <2>1 DEF vars, readVars, Reads!vars
    <2>2. CASE Next
        <3>1. part' = part
            BY <2>2 DEF Next, NotBlobs, NotPaths, NotIndexes, NotGenerations, NotReads, NotCosts,
               NotRuns
        <3>2. part = "reads" => Reads!Next
            BY <2>2 DEF Next
        <3> QED
            BY <1>2, <3>1, <3>2
    <2> QED
        BY <2>1, <2>2
<1> HIDE DEF Here
<1>5. Reads!Spec => []BytesInv
    BY <1>1, <1>2, PTL DEF Reads!Spec
<1>6. Spec => []Here
    BY <1>3, <1>4, PTL DEF Spec
<1> QED
    BY <1>5, <1>6 DEF Here

\* The bytes counted against a handle's limit are those of the journals it holds, each as it
\* was loaded last, however its readers interleave (query.py, initialize_node).
THEOREM BytesStayAccounted ==
    /\ Reads!Spec => []Reads!BytesAccounted
    /\ Spec => []BytesAccounted
<1>1. BytesInv => Reads!BytesAccounted
    BY SizesAgree DEF BytesInv, Sizes, Reads!BytesAccounted
<1>2. (part = "reads" => BytesInv) => BytesAccounted
    BY <1>1 DEF BytesAccounted
<1> QED
    BY <1>1, <1>2, BytesAlways, PTL

-----------------------------------------------------------------------------
(* Paid calls: what a step does to the books and to one call *)

BookRecords ==
    [known : Int, pending : Int, unresolved : Int, unknown : Nat, stopped : Costs!Reasons]
CallRecords ==
    [pc : {"start", "waiting", "dispatched", "sent", "answered", "done"}, wake : Nat, usage : Int]
FileRecords ==
    [status : {"none", "waiting", "dispatched", "not_dispatched", "closed"}, cost : Int]

\* The types, but for the signs in the books, which rest on the calls' reservations.
CostsFit ==
    /\ now \in 0 .. MaxTime /\ books \in BookRecords
    /\ at \in [Calls -> {-1} \cup 0 .. MaxTime] /\ call \in [Calls -> CallRecords]
    /\ file \in [Calls -> FileRecords] /\ bill \in [Calls -> Int]
    /\ latch \in BOOLEAN /\ alive \in BOOLEAN /\ trouble \in 0 .. MaxErrors

\* Money moves between the heads of a book.
Pays(b, c, pending, known, unresolved) ==
    /\ c \in BookRecords
    /\ c.pending = b.pending + pending
    /\ c.known = b.known + known
    /\ c.unresolved = b.unresolved + unresolved

LEMMA ReservePays ==
    ASSUME NEW b \in BookRecords, NEW amount \in Nat
    PROVE  /\ Costs!Admits(b, amount) => /\ Pays(b, Costs!Reserve(b, amount), amount, 0, 0)
                                         /\ Costs!Reserve(b, amount).stopped = b.stopped
           /\ ~ Costs!Admits(b, amount) => Pays(b, Costs!Reserve(b, amount), 0, 0, 0)
<1>1. CASE Costs!Admits(b, amount)
    <2>1. Costs!Reserve(b, amount) = [b EXCEPT !.pending = @ + amount]
        BY <1>1 DEF Costs!Reserve
    <2>2. b.pending + amount \in Int
        BY DEF BookRecords
    <2> QED
        BY <1>1, <2>1, <2>2 DEF Pays, BookRecords
<1>2. CASE ~ Costs!Admits(b, amount)
    <2>1. PICK reason \in Costs!Reasons : Costs!Reserve(b, amount) = [b EXCEPT !.stopped = reason]
        BY <1>2 DEF Costs!Reserve, Costs!Stop, Costs!Reasons, BookRecords
    <2> QED
        BY <1>2, <2>1 DEF Pays, BookRecords
<1> QED
    BY <1>1, <1>2

LEMMA SettlePays ==
    ASSUME NEW b \in BookRecords, NEW reserved \in Nat, NEW actual \in Int, NEW within \in BOOLEAN
    PROVE  IF actual = -1 THEN Pays(b, Costs!Settle(b, reserved, actual, within), -reserved, 0, reserved)
           ELSE Pays(b, Costs!Settle(b, reserved, actual, within), -reserved, actual, 0)
<1>1. PICK reason \in Costs!Reasons, unknown \in Nat, liable \in {0, reserved}, charged \in {0, actual} :
          /\ Costs!Settle(b, reserved, actual, within) =
                 [b EXCEPT !.pending = @ - reserved, !.unresolved = @ + liable, !.known = @ + charged,
                           !.unknown = unknown, !.stopped = reason]
          /\ IF actual = -1 THEN liable = reserved /\ charged = 0 ELSE liable = 0 /\ charged = actual
    <2>1. /\ "bound" \in Costs!Reasons /\ "unknown" \in Costs!Reasons /\ b.stopped \in Costs!Reasons
          /\ b.unknown \in Nat /\ b.unknown + 1 \in Nat /\ b.unknown + 0 \in Nat
        BY DEF Costs!Reasons, BookRecords
    <2>2. CASE actual = -1
        BY <2>1, <2>2 DEF Costs!Settle, Costs!Unknown
    <2>3. CASE actual # -1
        BY <2>1, <2>3 DEF Costs!Settle, Costs!Unknown
    <2> QED
        BY <2>2, <2>3
<1>2. /\ b.pending - reserved \in Int /\ b.unresolved + liable \in Int /\ b.known + charged \in Int
      /\ b.pending - reserved = b.pending + (-reserved)
    BY DEF BookRecords
<1> QED
    BY <1>1, <1>2 DEF Pays, BookRecords

LEMMA WakeNat ==
    ASSUME Costs!SpendingAssumption, CostsFit, NEW c
    PROVE  Costs!WakeTime(c) \in Nat
<1> DEFINE times == {Deadline} \cup {t \in now + 1 .. now + Window : Costs!Fits(c, t)}
<1>1. times \in SUBSET Nat /\ times # {}
    BY DEF Costs!SpendingAssumption, CostsFit
<1>2. \E m \in times : \A n \in times : m <= n
    <2> HIDE DEF times
    <2>1. \A x, y \in Nat : x < y => <<x, y>> \in OpToRel(<, Nat)
        BY DEF OpToRel
    <2>2. PICK m \in times : \A n \in times : ~ (<<n, m>> \in OpToRel(<, Nat))
        BY <1>1, NatLessThanWellFounded, WFMin
    <2>3. ASSUME NEW n \in times PROVE m <= n
        <3>1. m \in Nat /\ n \in Nat /\ ~ (n < m)
            BY <1>1, <2>1, <2>2
        <3> QED
            BY <3>1
    <2> QED
        BY <2>3
<1>3. Costs!WakeTime(c) \in times
    BY <1>2 DEF Costs!WakeTime, Costs!Min
<1> QED
    BY <1>1, <1>3

\* Nothing but call c, its file and its admission changes.
Alone(c) ==
    /\ call' \in [Calls -> CallRecords] /\ file' \in [Calls -> FileRecords]
    /\ at' \in [Calls -> {-1} \cup 0 .. MaxTime]
    /\ \A d \in Calls \ {c} : call'[d] = call[d] /\ file'[d] = file[d] /\ at'[d] = at[d]
    /\ trouble' \in 0 .. MaxErrors

Unsent(c) == file'[c] \in {file[c], [status |-> "not_dispatched", cost |-> 0]}

\* What a pass of the pacer's loop does, whose books are b.
Withdrawn(c, b) ==
    call'[c].pc = "done" /\ Unsent(c) /\ Pays(b, books', -Cost[c], 0, 0)
Waits(c, b) ==
    /\ call'[c].pc = "waiting" /\ file'[c] = [status |-> "waiting", cost |-> 0]
    /\ Pays(b, books', 0, 0, 0) /\ at'[c] = at[c]
Admitted(c, b) ==
    /\ call'[c].pc = "dispatched" /\ file'[c] = [status |-> "dispatched", cost |-> -1]
    /\ Pays(b, books', 0, 0, 0)
    /\ b.stopped = "no" /\ now < Deadline /\ ~ (c \in Framework /\ latch)
Paced(c) == at'[c] = at[c] \/ (at'[c] = now /\ Tokens[c] > 0 /\ Costs!Fits(c, now))

\* A record is written or not.
LEMMA Written ==
    ASSUME CostsFit, MaxErrors \in Nat, NEW c \in Calls, NEW entry \in FileRecords,
           \/ file' = [file EXCEPT ![c] = entry] /\ trouble' = trouble + 0
           \/ file' = file /\ trouble' = trouble + 1,
           trouble' <= MaxErrors
    PROVE  /\ file' \in [Calls -> FileRecords] /\ trouble' \in 0 .. MaxErrors
           /\ \A d \in Calls \ {c} : file'[d] = file[d]
           /\ file'[c] \in {file[c], entry}
BY DEF CostsFit

LEMMA WriteEffect ==
    ASSUME NEW c \in Calls, NEW status, NEW cost, NEW written \in BOOLEAN,
           Costs!Write(c, status, cost, written)
    PROVE  /\ \/ /\ file' = [file EXCEPT ![c] = [status |-> status, cost |-> cost]]
                 /\ trouble' = trouble + 0
              \/ file' = file /\ trouble' = trouble + 1
           /\ trouble' <= MaxErrors
<1>1. CASE written
    BY <1>1 DEF Costs!Write
<1>2. CASE ~ written
    BY <1>2 DEF Costs!Write
<1> QED
    BY <1>1, <1>2

\* A record that must be written before the call goes on.
LEMMA WrittenFirst ==
    ASSUME CostsFit, NEW c \in Calls, NEW entry \in FileRecords,
           file' = [file EXCEPT ![c] = entry], trouble' = trouble + 0, trouble' <= MaxErrors
    PROVE  /\ file' \in [Calls -> FileRecords] /\ trouble' \in 0 .. MaxErrors
           /\ \A d \in Calls \ {c} : file'[d] = file[d]
           /\ file'[c] = entry
BY DEF CostsFit

\* A call goes on.
LEMMA Proceeds ==
    ASSUME CostsFit, NEW c \in Calls, NEW step \in {"waiting", "dispatched", "sent", "answered", "done"},
           \/ call' = [call EXCEPT ![c].pc = step]
           \/ \E wake \in Nat : call' = [call EXCEPT ![c].pc = step, ![c].wake = wake]
    PROVE  /\ call' \in [Calls -> CallRecords] /\ call'[c].pc = step
           /\ call'[c].usage = call[c].usage /\ \A d \in Calls \ {c} : call'[d] = call[d]
<1>1. call \in [Calls -> CallRecords]
    BY DEF CostsFit
<1>2. PICK s : /\ \/ s = [call[c] EXCEPT !.pc = step]
                  \/ \E wake \in Nat : s = [call[c] EXCEPT !.pc = step, !.wake = wake]
               /\ call' = [call EXCEPT ![c] = s]
    BY <1>1
<1>3. s \in CallRecords /\ s.pc = step /\ s.usage = call[c].usage
    <2>1. CASE s = [call[c] EXCEPT !.pc = step]
        BY <1>1, <2>1 DEF CallRecords
    <2>2. CASE \E wake \in Nat : s = [call[c] EXCEPT !.pc = step, !.wake = wake]
        <3>1. PICK wake \in Nat : s = [call[c] EXCEPT !.pc = step, !.wake = wake]
            BY <2>2
        <3>2. call[c] \in CallRecords
            BY <1>1
        <3> QED
            BY <3>1, <3>2 DEF CallRecords
    <2> QED
        BY <1>2, <2>1, <2>2
<1> QED
    BY <1>1, <1>2, <1>3

LEMMA WithdrawEffect ==
    ASSUME Costs!SpendingAssumption, CostsFit, NEW c \in Calls, NEW b \in BookRecords,
           NEW d \in BookRecords, Pays(b, d, 0, 0, 0), Costs!Withdraw(c, d) \/ Costs!WriteFails(c, d),
           at' \in [Calls -> {-1} \cup 0 .. MaxTime],
           \A e \in Calls \ {c} : at'[e] = at[e]
    PROVE  Alone(c) /\ Withdrawn(c, b)
<1>1. /\ call'[c].pc = "done" /\ call' \in [Calls -> CallRecords]
      /\ call'[c].usage = call[c].usage /\ \A e \in Calls \ {c} : call'[e] = call[e]
    BY Proceeds DEF Costs!Withdraw, Costs!WriteFails
<1>2. Cost[c] \in Nat /\ MaxErrors \in Nat
    BY DEF Costs!SpendingAssumption
<1>3. Pays(b, books', -Cost[c], 0, 0)
    <2>1. books' = Costs!Settle(d, Cost[c], 0, TRUE)
        BY DEF Costs!Withdraw, Costs!WriteFails
    <2>2. Pays(d, books', -Cost[c], 0, 0)
        <3>1. 0 \in Int /\ TRUE \in BOOLEAN /\ 0 # -1
            OBVIOUS
        <3>2. IF 0 = -1 THEN Pays(d, Costs!Settle(d, Cost[c], 0, TRUE), -Cost[c], 0, Cost[c])
              ELSE Pays(d, Costs!Settle(d, Cost[c], 0, TRUE), -Cost[c], 0, 0)
            BY <1>2, <3>1, SettlePays
        <3> QED
            BY <2>1, <3>1, <3>2
    <2> QED
        BY <1>2, <2>2 DEF Pays, BookRecords
<1>4. /\ file' \in [Calls -> FileRecords] /\ trouble' \in 0 .. MaxErrors
      /\ \A e \in Calls \ {c} : file'[e] = file[e]
      /\ Unsent(c)
    <2>1. [status |-> "not_dispatched", cost |-> 0] \in FileRecords
        BY DEF FileRecords
    <2>2. CASE Costs!Withdraw(c, d)
        <3>1. PICK written \in BOOLEAN : Costs!Write(c, "not_dispatched", 0, written)
            BY <2>2 DEF Costs!Withdraw
        <3>2. /\ \/ /\ file' = [file EXCEPT ![c] = [status |-> "not_dispatched", cost |-> 0]]
                    /\ trouble' = trouble + 0
                 \/ file' = file /\ trouble' = trouble + 1
              /\ trouble' <= MaxErrors
            BY <3>1, WriteEffect
        <3> QED
            BY <1>2, <2>1, <3>2, Written DEF Unsent
    <2>3. CASE Costs!WriteFails(c, d)
        BY <1>2, <2>1, <2>3 DEF Costs!WriteFails, CostsFit, Unsent
    <2> QED
        BY <2>2, <2>3
<1> QED
    BY <1>1, <1>3, <1>4 DEF Alone, Withdrawn

LEMMA PassEffect ==
    ASSUME Costs!SpendingAssumption, CostsFit, NEW c \in Calls, NEW b \in BookRecords, Costs!Pass(c, b)
    PROVE  /\ Alone(c) /\ Paced(c)
           /\ Withdrawn(c, b) \/ Waits(c, b) \/ Admitted(c, b)
<1>1. Tokens[c] \in Nat /\ MaxErrors \in Nat
    BY DEF Costs!SpendingAssumption
<1> at \in [Calls -> {-1} \cup 0 .. MaxTime]
    BY DEF CostsFit
<1>2. Pays(b, b, 0, 0, 0) /\ Costs!Reserve(b, 0) \in BookRecords /\ Pays(b, Costs!Reserve(b, 0), 0, 0, 0)
    <2>1. Pays(b, b, 0, 0, 0)
        BY DEF Pays, BookRecords
    <2> QED
        BY <2>1, ReservePays DEF Pays
<1>3. CASE Tokens[c] > 0 /\ (Tokens[c] > Limit \/ now >= Deadline)
    <2>1. /\ Costs!Withdraw(c, IF c \in Framework THEN b ELSE Costs!Reserve(b, 0))
          /\ at' = at
        BY <1>3 DEF Costs!Pass
    <2>2. \E d \in BookRecords : Pays(b, d, 0, 0, 0) /\ Costs!Withdraw(c, d)
        BY <1>2, <2>1
    <2>3. /\ at' \in [Calls -> {-1} \cup 0 .. MaxTime] /\ \A e \in Calls \ {c} : at'[e] = at[e]
          /\ Paced(c)
        BY <2>1 DEF Paced
    <2> QED
        BY <2>2, <2>3, WithdrawEffect
<1>4. CASE /\ ~ (Tokens[c] > 0 /\ (Tokens[c] > Limit \/ now >= Deadline))
           /\ ~ (Tokens[c] > 0) \/ Costs!Fits(c, now)
    <2>1. /\ Costs!AdmitPaced(c, b)
          /\ at' = IF Tokens[c] > 0 THEN [at EXCEPT ![c] = now] ELSE at
        BY <1>4 DEF Costs!Pass
    <2>2. /\ at' \in [Calls -> {-1} \cup 0 .. MaxTime] /\ \A e \in Calls \ {c} : at'[e] = at[e]
          /\ Paced(c)
        <3>1. CASE Tokens[c] > 0
            BY <1>4, <2>1, <3>1 DEF CostsFit, Paced
        <3>2. CASE ~ (Tokens[c] > 0)
            <4>1. at' = at
                BY <2>1, <3>2
            <4> QED
                BY <4>1 DEF Paced
        <3> QED
            BY <3>1, <3>2
    <2>3. CASE \E d \in BookRecords : /\ Pays(b, d, 0, 0, 0)
                                      /\ Costs!Withdraw(c, d) \/ Costs!WriteFails(c, d)
        BY <2>2, <2>3, WithdrawEffect
    <2>4. CASE /\ ~ (c \in Framework /\ latch) /\ Costs!Admits(b, 0)
               /\ Costs!Write(c, "dispatched", Costs!Unknown, TRUE)
               /\ call' = [call EXCEPT ![c].pc = "dispatched"]
               /\ books' = Costs!Reserve(b, 0)
        <3>1. /\ call'[c].pc = "dispatched" /\ call' \in [Calls -> CallRecords]
              /\ call'[c].usage = call[c].usage /\ \A e \in Calls \ {c} : call'[e] = call[e]
            BY <2>4, Proceeds
        <3>2. [status |-> "dispatched", cost |-> -1] \in FileRecords
            BY DEF FileRecords
        <3>3. /\ file' \in [Calls -> FileRecords] /\ trouble' \in 0 .. MaxErrors
              /\ \A e \in Calls \ {c} : file'[e] = file[e]
              /\ file'[c] = [status |-> "dispatched", cost |-> -1]
            <4>1. /\ file' = [file EXCEPT ![c] = [status |-> "dispatched", cost |-> -1]]
                  /\ trouble' = trouble + 0 /\ trouble' <= MaxErrors
                BY <2>4 DEF Costs!Write, Costs!Unknown
            <4> QED
                BY <1>1, <3>2, <4>1, WrittenFirst
        <3>4. b.stopped = "no" /\ now < Deadline
            BY <2>4 DEF Costs!Admits, Costs!Stop, Costs!SpendingAssumption, CostsFit
        <3>5. Pays(b, books', 0, 0, 0)
            BY <1>2, <2>4
        <3> QED
            BY <2>2, <2>4, <3>1, <3>3, <3>4, <3>5 DEF Alone, Admitted
    <2> QED
        BY <1>2, <2>1, <2>3, <2>4 DEF Costs!AdmitPaced
<1>5. CASE /\ ~ (Tokens[c] > 0 /\ (Tokens[c] > Limit \/ now >= Deadline))
           /\ Tokens[c] > 0 /\ ~ Costs!Fits(c, now)
    <2>1. /\ call' = [call EXCEPT ![c].pc = "waiting", ![c].wake = Costs!WakeTime(c)]
          /\ Costs!Write(c, "waiting", 0, TRUE) /\ books' = b /\ at' = at
        BY <1>5 DEF Costs!Pass
    <2>2. /\ call'[c].pc = "waiting" /\ call' \in [Calls -> CallRecords]
          /\ call'[c].usage = call[c].usage /\ \A e \in Calls \ {c} : call'[e] = call[e]
        BY <2>1, WakeNat, Proceeds
    <2>3. [status |-> "waiting", cost |-> 0] \in FileRecords
        BY DEF FileRecords
    <2>4. /\ file' \in [Calls -> FileRecords] /\ trouble' \in 0 .. MaxErrors
          /\ \A e \in Calls \ {c} : file'[e] = file[e]
          /\ file'[c] = [status |-> "waiting", cost |-> 0]
        <3>1. /\ file' = [file EXCEPT ![c] = [status |-> "waiting", cost |-> 0]]
              /\ trouble' = trouble + 0 /\ trouble' <= MaxErrors
            BY <2>1 DEF Costs!Write
        <3> QED
            BY <1>1, <2>3, <3>1, WrittenFirst
    <2>5. Alone(c) /\ Paced(c)
        BY <2>1, <2>2, <2>4 DEF Alone, Paced
    <2>6. Waits(c, b)
        BY <1>2, <2>1, <2>2, <2>4 DEF Waits
    <2> QED
        BY <2>5, <2>6
<1> QED
    BY <1>1, <1>3, <1>4, <1>5

\* What a step does to call c, from its beginning to the end.
Reserved(c) == IF call[c].pc = "start" THEN Cost[c] ELSE 0
Held(b) == b.known + b.pending + b.unresolved
Changed(c) ==
    /\ Alone(c) /\ now' = now
    /\ bill' \in [Calls -> Int] /\ \A d \in Calls \ {c} : bill'[d] = bill[d]
Unchanged(c) == file'[c] = file[c] /\ at'[c] = at[c] /\ books' = books

Drops(c) ==
    /\ call[c].pc \in {"start", "waiting"} /\ call'[c].pc = "done" /\ bill'[c] = bill[c]
    /\ Unsent(c) /\ Paced(c)
    /\ Pays(books, books', Reserved(c) - Cost[c], 0, 0)
Queues(c) ==
    /\ call[c].pc \in {"start", "waiting"} /\ call'[c].pc = "waiting" /\ bill'[c] = bill[c]
    /\ file'[c] = [status |-> "waiting", cost |-> 0] /\ at'[c] = at[c]
    /\ Pays(books, books', Reserved(c), 0, 0)
    /\ call[c].pc = "start" => Held(books) + Cost[c] <= Cap
Dispatches(c) ==
    /\ call[c].pc \in {"start", "waiting"} /\ call'[c].pc = "dispatched" /\ bill'[c] = bill[c]
    /\ file'[c] = [status |-> "dispatched", cost |-> -1] /\ Paced(c)
    /\ Pays(books, books', Reserved(c), 0, 0)
    /\ call[c].pc = "start" => Held(books) + Cost[c] <= Cap
    /\ books.stopped = "no" /\ now < Deadline /\ ~ (c \in Framework /\ latch)
Sends(c) ==
    /\ call[c].pc = "dispatched" /\ call'[c].pc = "sent" /\ bill'[c] = 0
    /\ Unchanged(c)
Bills(c) ==
    /\ bill[c] = 0 /\ bill'[c] \in 1 .. Cost[c] + 1
    /\ \/ call'[c] = call[c]
       \/ /\ call[c].pc = "sent" /\ call'[c].pc = "answered"
          /\ call'[c].usage \in {-1, bill'[c]}
    /\ Unchanged(c)
Closes(c, usage) ==
    /\ \/ call[c].pc \in {"dispatched", "sent", "answered"} /\ usage = -1
       \/ call[c].pc = "answered" /\ usage = call[c].usage
    /\ call'[c].pc = "done" /\ bill'[c] = bill[c] /\ at'[c] = at[c]
    /\ file'[c] \in {file[c], [status |-> "closed", cost |-> usage]}
    /\ IF usage = -1 THEN Pays(books, books', -Cost[c], 0, Cost[c])
       ELSE Pays(books, books', -Cost[c], usage, 0)

CallMoves(c) ==
    /\ Changed(c)
    /\ \/ Drops(c) \/ Queues(c) \/ Dispatches(c) \/ Sends(c) \/ Bills(c)
       \/ \E usage \in Int : Closes(c, usage)

NoCallMoves ==
    UNCHANGED <<books, at, call, file, bill>> /\ now' \in now .. now + 1

LEMMA PassMoves ==
    ASSUME Costs!SpendingAssumption, CostsFit, NEW c \in Calls, NEW b \in BookRecords,
           Costs!Pass(c, b), bill' = bill, now' = now, call[c].pc \in {"start", "waiting"},
           Pays(books, b, Reserved(c), 0, 0),
           b.stopped = "no" => books.stopped = "no",
           call[c].pc = "start" => Held(books) + Cost[c] <= Cap
    PROVE  CallMoves(c)
<1>1. Changed(c) /\ Paced(c) /\ (Withdrawn(c, b) \/ Waits(c, b) \/ Admitted(c, b))
    BY PassEffect DEF Changed, CostsFit
<1>2. Cost[c] \in Nat /\ Reserved(c) \in Nat /\ books \in BookRecords
    BY DEF Reserved, Costs!SpendingAssumption, CostsFit
<1>3. CASE Withdrawn(c, b)
    <2>1. Pays(books, books', Reserved(c) - Cost[c], 0, 0)
        BY <1>2, <1>3 DEF Withdrawn, Pays, BookRecords
    <2> QED
        BY <1>1, <1>3, <2>1 DEF Withdrawn, Drops, CallMoves
<1>4. CASE Waits(c, b) \/ Admitted(c, b)
    <2>1. Pays(books, books', Reserved(c), 0, 0)
        BY <1>2, <1>4 DEF Waits, Admitted, Pays, BookRecords
    <2> QED
        BY <1>1, <1>4, <2>1 DEF Waits, Admitted, Queues, Dispatches, CallMoves
<1> QED
    BY <1>1, <1>3, <1>4

LEMMA BeginMoves ==
    ASSUME Costs!SpendingAssumption, CostsFit, NEW c \in Calls, Costs!Begin(c)
    PROVE  CallMoves(c)
<1> DEFINE b == Costs!Reserve(books, Cost[c])
<1>1. /\ Cost[c] \in Nat /\ books \in BookRecords /\ Reserved(c) = Cost[c] /\ call[c].pc = "start"
      /\ bill' = bill /\ now' = now /\ bill \in [Calls -> Int]
      /\ call \in [Calls -> CallRecords]
      /\ at \in [Calls -> {-1} \cup 0 .. MaxTime] /\ file \in [Calls -> FileRecords]
      /\ trouble \in 0 .. MaxErrors
    BY DEF Costs!Begin, Reserved, Costs!SpendingAssumption, CostsFit
<1>2. CASE (c \in Framework /\ latch) \/ ~ Costs!Admits(books, Cost[c])
    <2>1. /\ books' = IF c \in Framework /\ latch THEN books ELSE b
          /\ call' = [call EXCEPT ![c].pc = "done"]
          /\ at' = at /\ file' = file /\ trouble' = trouble
        BY <1>2 DEF Costs!Begin
    <2>2. /\ call' \in [Calls -> CallRecords] /\ call'[c].pc = "done"
          /\ \A d \in Calls \ {c} : call'[d] = call[d]
        BY <2>1, Proceeds
    <2>3. Pays(books, books', 0, 0, 0)
        <3>1. Pays(books, books, 0, 0, 0)
            BY <1>1 DEF Pays, BookRecords
        <3>2. ~ Costs!Admits(books, Cost[c]) => Pays(books, b, 0, 0, 0)
            BY <1>1, ReservePays
        <3> QED
            BY <1>2, <2>1, <3>1, <3>2
    <2>4. Reserved(c) - Cost[c] = 0
        BY <1>1
    <2>5. Alone(c)
        BY <1>1, <2>1, <2>2 DEF Alone
    <2>6. Changed(c)
        BY <1>1, <2>5 DEF Changed
    <2>7. Drops(c)
        BY <1>1, <2>1, <2>2, <2>3, <2>4 DEF Drops, Unsent, Paced
    <2> QED
        BY <2>6, <2>7 DEF CallMoves
<1>3. CASE ~ ((c \in Framework /\ latch) \/ ~ Costs!Admits(books, Cost[c]))
    <2>1. /\ Pays(books, b, Cost[c], 0, 0) /\ b.stopped = books.stopped /\ b \in BookRecords
          /\ Held(books) + Cost[c] <= Cap
        BY <1>1, <1>3, ReservePays DEF Pays, Costs!Admits, Held
    <2>2. CASE Costs!Pass(c, b)
        <3> HIDE DEF b
        <3> QED
            BY <1>1, <2>1, <2>2, PassMoves
    <2>3. CASE Costs!WriteFails(c, b) /\ at' = at
        <3>1. Pays(b, b, 0, 0, 0)
            BY <2>1 DEF Pays, BookRecords
        <3>2. Alone(c) /\ Withdrawn(c, b)
            <4> HIDE DEF b
            <4> QED
                BY <1>1, <2>1, <2>3, <3>1, WithdrawEffect
        <3>3. Pays(books, books', Reserved(c) - Cost[c], 0, 0)
            BY <1>1, <2>1, <3>2 DEF Withdrawn, Pays, BookRecords
        <3> QED
            BY <1>1, <2>3, <3>2, <3>3 DEF Withdrawn, Drops, CallMoves, Changed, Paced
    <2> QED
        BY <1>3, <2>2, <2>3 DEF Costs!Begin
<1> QED
    BY <1>2, <1>3

LEMMA WakeMoves ==
    ASSUME Costs!SpendingAssumption, CostsFit, NEW c \in Calls, Costs!Wake(c)
    PROVE  CallMoves(c)
<1>1. /\ books \in BookRecords /\ Reserved(c) = 0 /\ call[c].pc = "waiting"
      /\ bill' = bill /\ now' = now /\ Costs!Pass(c, books)
    BY DEF Costs!Wake, Reserved, CostsFit
<1>2. Pays(books, books, 0, 0, 0)
    BY <1>1 DEF Pays, BookRecords
<1> QED
    BY <1>1, <1>2, PassMoves

LEMMA SendMoves ==
    ASSUME Costs!SpendingAssumption, CostsFit, NEW c \in Calls, Costs!Send(c) \/ Costs!Serve(c)
    PROVE  CallMoves(c)
<1>1. /\ UNCHANGED <<now, books, at, file, trouble>>
      /\ bill \in [Calls -> Int] /\ call \in [Calls -> CallRecords]
      /\ at \in [Calls -> {-1} \cup 0 .. MaxTime] /\ file \in [Calls -> FileRecords]
      /\ trouble \in 0 .. MaxErrors /\ Cost[c] \in Nat
    BY DEF Costs!Send, Costs!Serve, Costs!SpendingAssumption, CostsFit
<1>2. CASE Costs!Send(c)
    <2>1. call' = [call EXCEPT ![c].pc = "sent"] /\ bill' = [bill EXCEPT ![c] = 0]
        BY <1>2 DEF Costs!Send
    <2>2. /\ call' \in [Calls -> CallRecords] /\ call'[c].pc = "sent"
          /\ \A d \in Calls \ {c} : call'[d] = call[d]
        BY <2>1, Proceeds
    <2>3. Changed(c)
        BY <1>1, <2>1, <2>2 DEF Changed, Alone
    <2>4. Sends(c)
        BY <1>1, <1>2, <2>1, <2>2 DEF Sends, Unchanged, Costs!Send
    <2> QED
        BY <2>3, <2>4 DEF CallMoves
<1>3. CASE Costs!Serve(c)
    <2>1. PICK charge \in 1 .. Cost[c] + 1 :
              /\ bill' = [bill EXCEPT ![c] = charge]
              /\ \/ call' = call
                 \/ /\ call[c].pc = "sent"
                    /\ \E usage \in {charge, -1} :
                           call' = [call EXCEPT ![c].pc = "answered", ![c].usage = usage]
        BY <1>3 DEF Costs!Serve, Costs!Priced, Costs!Unknown
    <2>2. bill' \in [Calls -> Int] /\ bill'[c] = charge /\ \A d \in Calls \ {c} : bill'[d] = bill[d]
        BY <1>1, <2>1
    <2>3. /\ call' \in [Calls -> CallRecords] /\ \A d \in Calls \ {c} : call'[d] = call[d]
          /\ \/ call'[c] = call[c]
             \/ /\ call[c].pc = "sent" /\ call'[c].pc = "answered"
                /\ call'[c].usage \in {-1, charge}
        <3>1. CASE call' = call
            BY <1>1, <3>1
        <3>2. CASE /\ call[c].pc = "sent"
                   /\ \E usage \in {charge, -1} :
                          call' = [call EXCEPT ![c].pc = "answered", ![c].usage = usage]
            <4> PICK usage \in {charge, -1} :
                      call' = [call EXCEPT ![c].pc = "answered", ![c].usage = usage]
                BY <3>2
            <4>1. PICK s :
                      /\ s = [call[c] EXCEPT !.pc = "answered", !.usage = usage]
                      /\ call' = [call EXCEPT ![c] = s]
                OBVIOUS
            <4>2. usage \in Int /\ call[c] \in CallRecords
                BY <1>1, <4>1
            <4>3. s \in CallRecords /\ s.pc = "answered" /\ s.usage = usage
                BY <4>1, <4>2 DEF CallRecords
            <4> QED
                BY <1>1, <3>2, <4>1, <4>3
        <3> QED
            BY <2>1, <3>1, <3>2
    <2>4. Changed(c)
        BY <1>1, <2>2, <2>3 DEF Changed, Alone
    <2>5. Bills(c)
        BY <1>1, <1>3, <2>1, <2>2, <2>3 DEF Bills, Unchanged, Costs!Serve
    <2> QED
        BY <2>4, <2>5 DEF CallMoves
<1> QED
    BY <1>2, <1>3

LEMMA CloseMoves ==
    ASSUME Costs!SpendingAssumption, CostsFit, NEW c \in Calls, NEW usage \in Int,
           Costs!Close(c, usage), UNCHANGED <<now, at, bill>>,
           \/ call[c].pc \in {"dispatched", "sent", "answered"} /\ usage = -1
           \/ call[c].pc = "answered" /\ usage = call[c].usage
    PROVE  CallMoves(c) /\ latch' \in BOOLEAN
<1>1. /\ bill \in [Calls -> Int] /\ books \in BookRecords
      /\ at \in [Calls -> {-1} \cup 0 .. MaxTime] /\ file \in [Calls -> FileRecords]
      /\ Cost[c] \in Nat /\ MaxErrors \in Nat
    BY DEF Costs!SpendingAssumption, CostsFit
<1>2. /\ call' \in [Calls -> CallRecords] /\ call'[c].pc = "done"
      /\ \A d \in Calls \ {c} : call'[d] = call[d]
    BY Proceeds DEF Costs!Close
<1>3. PICK written \in BOOLEAN :
          /\ Costs!Write(c, "closed", usage, written)
          /\ latch' = (latch \/ (c \in Framework /\ ~ (usage # -1 /\ (usage <= Cost[c]) /\ written)))
    BY DEF Costs!Close, Costs!Unknown
<1>4. /\ \/ /\ file' = [file EXCEPT ![c] = [status |-> "closed", cost |-> usage]]
            /\ trouble' = trouble + 0
         \/ file' = file /\ trouble' = trouble + 1
      /\ trouble' <= MaxErrors
    BY <1>3, WriteEffect
<1>5. [status |-> "closed", cost |-> usage] \in FileRecords
    BY DEF FileRecords
<1>6. /\ file' \in [Calls -> FileRecords] /\ trouble' \in 0 .. MaxErrors
      /\ \A d \in Calls \ {c} : file'[d] = file[d]
      /\ file'[c] \in {file[c], [status |-> "closed", cost |-> usage]}
    BY <1>1, <1>4, <1>5, Written
<1>7. IF usage = -1 THEN Pays(books, books', -Cost[c], 0, Cost[c])
      ELSE Pays(books, books', -Cost[c], usage, 0)
    <2>1. books' = Costs!Settle(books, Cost[c], usage, usage <= Cost[c])
        BY DEF Costs!Close
    <2>2. (usage <= Cost[c]) \in BOOLEAN
        BY <1>1
    <2> QED
        BY <1>1, <2>1, <2>2, SettlePays
<1>8. Changed(c)
    BY <1>1, <1>2, <1>6 DEF Changed, Alone
<1>9. Closes(c, usage)
    BY <1>2, <1>6, <1>7 DEF Closes
<1>10. latch' \in BOOLEAN
    BY <1>3 DEF CostsFit
<1> QED
    BY <1>8, <1>9, <1>10 DEF CallMoves

LEMMA FinishMoves ==
    ASSUME Costs!SpendingAssumption, CostsFit, NEW c \in Calls, Costs!Finish(c) \/ Costs!Fail(c)
    PROVE  CallMoves(c) /\ latch' \in BOOLEAN
<1>1. CASE Costs!Finish(c)
    <2>1. call[c].usage \in Int
        BY DEF CostsFit, CallRecords
    <2> QED
        BY <1>1, <2>1, CloseMoves DEF Costs!Finish
<1>2. CASE Costs!Fail(c) /\ call[c].pc = "waiting"
    <2>1. /\ Costs!Withdraw(c, books) /\ UNCHANGED <<now, at, bill, latch>> /\ books \in BookRecords
          /\ at \in [Calls -> {-1} \cup 0 .. MaxTime] /\ bill \in [Calls -> Int]
        BY <1>2 DEF Costs!Fail, CostsFit
    <2>2. Pays(books, books, 0, 0, 0) /\ Cost[c] \in Nat /\ Reserved(c) = 0
        BY <1>2, <2>1 DEF Pays, BookRecords, Reserved, Costs!SpendingAssumption
    <2>3. Alone(c) /\ Withdrawn(c, books)
        BY <2>1, <2>2, WithdrawEffect
    <2>4. Changed(c)
        BY <2>1, <2>3 DEF Changed
    <2>5. Drops(c)
        BY <1>2, <2>1, <2>2, <2>3 DEF Withdrawn, Drops, Paced
    <2> QED
        BY <2>1, <2>4, <2>5 DEF CallMoves, CostsFit
<1>3. CASE Costs!Fail(c) /\ call[c].pc # "waiting"
    <2>1. /\ Costs!Close(c, -1) /\ UNCHANGED <<now, at, bill>>
          /\ call[c].pc \in {"dispatched", "sent", "answered"}
        BY <1>3 DEF Costs!Fail, Costs!Unknown
    <2> QED
        BY <2>1, CloseMoves
<1> QED
    BY <1>1, <1>2, <1>3

\* Every step is one of a call, or changes neither the books nor any call.
LEMMA CostsMove ==
    ASSUME Costs!SpendingAssumption, CostsFit, [Costs!Next]_(Costs!vars)
    PROVE  CostsFit' /\ (NoCallMoves \/ \E c \in Calls : CallMoves(c))
<1>1. CASE \E c \in Calls : \/ Costs!Begin(c) \/ Costs!Wake(c) \/ Costs!Send(c) \/ Costs!Serve(c)
                            \/ Costs!Finish(c) \/ Costs!Fail(c)
    <2>1. PICK c \in Calls : CallMoves(c) /\ latch' \in BOOLEAN /\ alive' = alive
        <3>1. PICK c \in Calls : \/ Costs!Begin(c) \/ Costs!Wake(c) \/ Costs!Send(c)
                                 \/ Costs!Serve(c) \/ Costs!Finish(c) \/ Costs!Fail(c)
            BY <1>1
        <3>2. alive' = alive /\ latch \in BOOLEAN
            BY <3>1 DEF Costs!Begin, Costs!Wake, Costs!Send, Costs!Serve, Costs!Finish, Costs!Fail,
               CostsFit
        <3>3. CASE Costs!Begin(c) \/ Costs!Wake(c) \/ Costs!Send(c) \/ Costs!Serve(c)
            <4>1. latch' = latch
                BY <3>3 DEF Costs!Begin, Costs!Wake, Costs!Send, Costs!Serve
            <4> QED
                BY <3>2, <3>3, <4>1, BeginMoves, WakeMoves, SendMoves
        <3>4. CASE Costs!Finish(c) \/ Costs!Fail(c)
            BY <3>2, <3>4, FinishMoves
        <3> QED
            BY <3>1, <3>3, <3>4
    <2>2. books' \in BookRecords
        <3>1. books \in BookRecords
            BY DEF CostsFit
        <3> QED
            BY <2>1, <3>1 DEF CallMoves, Drops, Queues, Dispatches, Sends, Bills, Closes, Unchanged, Pays
    <2>3. CostsFit'
        BY <2>1, <2>2 DEF CallMoves, Changed, Alone, CostsFit
    <2> QED
        BY <2>1, <2>3
<1>2. CASE Costs!SetLatch \/ Costs!Tick \/ Costs!Crash \/ UNCHANGED Costs!vars
    <2>1. /\ UNCHANGED <<books, at, call, file, bill>> /\ now' \in 0 .. MaxTime
          /\ now' \in now .. now + 1
          /\ latch' \in BOOLEAN /\ alive' \in BOOLEAN /\ trouble' \in 0 .. MaxErrors
        <3> now \in 0 .. MaxTime /\ MaxTime \in Nat /\ trouble \in 0 .. MaxErrors /\ MaxErrors \in Nat
            BY DEF CostsFit, Costs!SpendingAssumption
        <3>1. CASE Costs!SetLatch
            BY <3>1 DEF Costs!SetLatch, CostsFit
        <3>2. CASE Costs!Tick
            BY <3>2 DEF Costs!Tick, CostsFit
        <3>3. CASE Costs!Crash
            <4>1. /\ UNCHANGED <<now, books, at, call, file, bill, latch, trouble>>
                  /\ alive' \in BOOLEAN
                BY <3>3 DEF Costs!Crash
            <4> QED
                BY <4>1 DEF CostsFit
        <3>4. CASE UNCHANGED Costs!vars
            BY <3>4 DEF Costs!vars, CostsFit
        <3> QED
            BY <1>2, <3>1, <3>2, <3>3, <3>4
    <2> QED
        BY <2>1 DEF CostsFit, NoCallMoves
<1> QED
    BY <1>1, <1>2 DEF Costs!Next

-----------------------------------------------------------------------------
(* Paid calls: the files *)

\* Where a call is, what its file says and what it is charged agree.
FileFits(c) ==
    /\ bill[c] >= -1
    /\ call[c].pc \in {"start", "waiting", "dispatched"} => bill[c] = -1
    /\ call[c].pc = "sent" => bill[c] >= 0
    /\ call[c].pc = "answered" => bill[c] > 0 /\ call[c].usage \in {-1, bill[c]}
    /\ call[c].pc \in {"dispatched", "sent", "answered"} =>
           file[c] = [status |-> "dispatched", cost |-> -1]
    /\ bill[c] # -1 => /\ file[c].status \in {"dispatched", "closed"}
                       /\ file[c].cost \in {-1, bill[c]}
    /\ bill[c] = 0 => file[c].cost = -1

LEMMA FileStep ==
    ASSUME CostsFit, NEW c \in Calls, FileFits(c), CallMoves(c)
    PROVE  FileFits(c)'
<1>1. /\ call[c] \in CallRecords /\ call'[c] \in CallRecords
      /\ file[c] \in FileRecords /\ file'[c] \in FileRecords
      /\ bill[c] \in Int /\ bill'[c] \in Int
    BY DEF CostsFit, CallMoves, Changed, Alone
<1>2. CASE Drops(c) \/ Queues(c) \/ Dispatches(c)
    BY <1>1, <1>2 DEF Drops, Queues, Dispatches, Unsent, FileFits
<1>3. CASE Sends(c)
    BY <1>1, <1>3 DEF Sends, Unchanged, FileFits
<1>4. CASE Bills(c)
    <2>1. bill'[c] > 0 /\ bill[c] = 0 /\ file'[c] = file[c]
        BY <1>4 DEF Bills, Unchanged
    <2>2. call[c].pc \in {"sent", "answered", "done"}
        BY <1>1, <2>1 DEF FileFits, CallRecords
    <2>3. CASE call'[c] = call[c]
        BY <1>1, <2>1, <2>2, <2>3 DEF FileFits
    <2>4. CASE /\ call[c].pc = "sent" /\ call'[c].pc = "answered"
               /\ call'[c].usage \in {-1, bill'[c]}
        BY <1>1, <2>1, <2>4 DEF FileFits
    <2> QED
        BY <1>4, <2>3, <2>4 DEF Bills
<1>5. ASSUME NEW usage \in Int, Closes(c, usage) PROVE FileFits(c)'
    <2>1. /\ call'[c].pc = "done" /\ bill'[c] = bill[c]
          /\ file'[c] \in {file[c], [status |-> "closed", cost |-> usage]}
          /\ file[c] = [status |-> "dispatched", cost |-> -1]
        BY <1>5 DEF Closes, FileFits
    <2>2. usage \in {-1, bill[c]} /\ (bill[c] = 0 => usage = -1)
        BY <1>1, <1>5 DEF Closes, FileFits
    <2> QED
        BY <1>1, <2>1, <2>2 DEF FileFits
<1> QED
    BY <1>2, <1>3, <1>4, <1>5 DEF CallMoves

-----------------------------------------------------------------------------
(* Paid calls: the money *)

Flying == {c \in Calls : call[c].pc \in {"waiting", "dispatched", "sent", "answered"}}

\* What has to be held for each call as long as every answer stays within its reservation.
Owed == [c \in Calls |->
    IF c \in Flying THEN Cost[c]
    ELSE IF bill[c] = -1 THEN 0
    ELSE IF bill[c] = 0 THEN Cost[c]
    ELSE bill[c]]

WithinReservations == \A c \in Calls : bill[c] <= Cost[c]

Ledger ==
    /\ books.pending = Total(Cost, Flying)
    /\ books.known >= 0 /\ books.unresolved >= 0
    /\ WithinReservations => Held(books) <= Cap /\ Total(Owed, Calls) <= Held(books)

LEMMA CostsAgree ==
    ASSUME NEW S, NEW f
    PROVE  /\ Costs!IsFiniteSet(S) <=> IsFiniteSet(S)
           /\ Costs!Total(f, S) = Total(f, S)
<1>1. \A U : (Costs!IsFiniteSet(U) <=> IsFiniteSet(U)) /\ Costs!Cardinality(U) = Cardinality(U)
    BY DEF Costs!IsFiniteSet, IsFiniteSet, Costs!Cardinality, Cardinality
<1>2. Costs!Units(f, S) = Units(f, S)
    BY DEF Costs!Units, Units
<1> QED
    BY <1>1, <1>2 DEF Costs!Total, Total

LEMMA CallsFinite ==
    ASSUME Costs!SpendingAssumption
    PROVE  /\ IsFiniteSet(Calls) /\ Cap \in Nat /\ Limit \in Nat /\ Window \in Nat \ {0}
           /\ \A c \in Calls : Cost[c] \in Nat /\ Tokens[c] \in Nat
           /\ \A S \in SUBSET Calls : IsFiniteSet(S)
<1>1. IsFiniteSet(Calls)
    BY CostsAgree DEF Costs!SpendingAssumption
<1> QED
    BY <1>1, FS_Subset DEF Costs!SpendingAssumption

LEMMA OwedNat ==
    ASSUME Costs!SpendingAssumption, CostsFit, NEW c \in Calls, FileFits(c)
    PROVE  Owed[c] \in Nat
BY CallsFinite DEF CostsFit, FileFits, Owed

\* The reservations that are pending follow the calls that are in flight.
LEMMA PendingStep ==
    ASSUME Costs!SpendingAssumption, CostsFit, Ledger, NEW c \in Calls, CallMoves(c)
    PROVE  books'.pending = Total(Cost, Flying')
<1>1. /\ call[c] \in CallRecords /\ call'[c] \in CallRecords /\ Cost[c] \in Nat
      /\ books \in BookRecords /\ books.pending \in Int
      /\ \A d \in Calls \ {c} : call'[d] = call[d]
    BY CallsFinite DEF CostsFit, CallMoves, Changed, Alone, BookRecords
<1>2. /\ IsFiniteSet(Flying) /\ \A d \in Flying : Cost[d] \in Int
      /\ Total(Cost, Flying) \in Nat
    <2>1. IsFiniteSet(Flying) /\ \A d \in Flying : Cost[d] \in Int
        BY CallsFinite DEF Flying
    <2> QED
        BY <2>1, TotalNat
<1>3. CASE c \notin Flying /\ c \in Flying'
    <2>1. Flying' = Flying \cup {c}
        BY <1>1, <1>3 DEF Flying
    <2>2. Total(Cost, Flying \cup {c}) = Total(Cost, Flying) + Cost[c]
        BY <1>1, <1>2, <1>3, TotalAdds
    <2>3. books'.pending = books.pending + Cost[c]
        BY <1>1, <1>3 DEF Flying, CallRecords, CallMoves, Drops, Queues, Dispatches, Sends, Bills,
           Closes, Pays, Reserved
    <2> QED
        BY <1>2, <2>1, <2>2, <2>3 DEF Ledger
<1>4. CASE c \in Flying /\ c \notin Flying'
    <2>1. Flying' = Flying \ {c}
        BY <1>1, <1>4 DEF Flying
    <2>2. Total(Cost, Flying) = Total(Cost, Flying \ {c}) + Cost[c]
        BY <1>1, <1>2, <1>4, TotalRemoves
    <2>3. books'.pending = books.pending - Cost[c]
        BY <1>1, <1>4 DEF Flying, CallRecords, CallMoves, Drops, Queues, Dispatches, Sends, Bills,
           Closes, Pays, Reserved
    <2>4. Total(Cost, Flying \ {c}) \in Nat
        <3>1. IsFiniteSet(Flying \ {c}) /\ \A d \in Flying \ {c} : Cost[d] \in Int
            BY <1>2, FS_RemoveElement
        <3> QED
            BY <3>1, TotalNat
    <2> QED
        BY <1>1, <1>2, <2>1, <2>2, <2>3, <2>4 DEF Ledger
<1>5. CASE c \in Flying <=> c \in Flying'
    <2>1. Flying' = Flying
        BY <1>1, <1>5 DEF Flying
    <2>2. books'.pending = books.pending
        BY <1>1, <1>5 DEF Flying, CallRecords, CallMoves, Drops, Queues, Dispatches, Sends, Bills,
           Closes, Pays, Reserved, Unchanged
    <2> QED
        BY <2>1, <2>2 DEF Ledger
<1> QED
    BY <1>3, <1>4, <1>5

\* What is held changes at least by what is owed for the call; a reservation fits the cap.
LEMMA HeldStep ==
    ASSUME Costs!SpendingAssumption, CostsFit, NEW c \in Calls, FileFits(c), CallMoves(c),
           bill[c] <= Cost[c], bill'[c] <= Cost[c], Held(books) <= Cap
    PROVE  /\ Held(books') - Held(books) >= Owed'[c] - Owed[c]
           /\ Held(books') <= Cap
<1>1. /\ call[c] \in CallRecords /\ call'[c] \in CallRecords /\ Cost[c] \in Nat /\ Cap \in Nat
      /\ bill[c] \in Int /\ bill'[c] \in Int /\ books \in BookRecords /\ Held(books) \in Int
    BY CallsFinite DEF CostsFit, CallMoves, Changed, Alone, BookRecords, Held
<1>2. /\ Owed[c] = IF c \in Flying THEN Cost[c] ELSE IF bill[c] = -1 THEN 0
                   ELSE IF bill[c] = 0 THEN Cost[c] ELSE bill[c]
      /\ Owed'[c] = IF c \in Flying' THEN Cost[c] ELSE IF bill'[c] = -1 THEN 0
                    ELSE IF bill'[c] = 0 THEN Cost[c] ELSE bill'[c]
      /\ c \in Flying <=> call[c].pc \in {"waiting", "dispatched", "sent", "answered"}
      /\ c \in Flying' <=> call'[c].pc \in {"waiting", "dispatched", "sent", "answered"}
    BY DEF Owed, Flying
<1>3. \A p, k, u \in Int : Pays(books, books', p, k, u) => Held(books') = Held(books) + p + k + u
    BY <1>1 DEF Pays, Held, BookRecords
<1>4. CASE Drops(c)
    <2>1. Reserved(c) \in {0, Cost[c]} /\ (call[c].pc = "start" <=> c \notin Flying)
        BY <1>1, <1>2, <1>4 DEF Reserved, Drops
    <2>2. Held(books') = Held(books) + (Reserved(c) - Cost[c]) + 0 + 0
        BY <1>1, <1>3, <1>4, <2>1 DEF Drops
    <2>3. Owed'[c] = 0 /\ Owed[c] = IF call[c].pc = "start" THEN 0 ELSE Cost[c]
        BY <1>2, <1>4, <2>1 DEF Drops, FileFits
    <2> QED
        BY <1>1, <2>1, <2>2, <2>3 DEF Reserved
<1>5. CASE Queues(c) \/ Dispatches(c)
    <2>1. /\ Reserved(c) = IF call[c].pc = "start" THEN Cost[c] ELSE 0
          /\ call[c].pc = "start" <=> c \notin Flying
        BY <1>1, <1>2, <1>5 DEF Reserved, Queues, Dispatches
    <2>2. Held(books') = Held(books) + Reserved(c) + 0 + 0
        BY <1>1, <1>3, <1>5, <2>1 DEF Queues, Dispatches
    <2>3. Owed'[c] = Cost[c] /\ Owed[c] = IF call[c].pc = "start" THEN 0 ELSE Cost[c]
        BY <1>2, <1>5, <2>1 DEF Queues, Dispatches, FileFits
    <2>4. call[c].pc = "start" => Held(books) + Cost[c] <= Cap
        BY <1>5 DEF Queues, Dispatches
    <2> QED
        BY <1>1, <2>1, <2>2, <2>3, <2>4
<1>6. CASE Sends(c) \/ Bills(c)
    <2>1. books' = books
        BY <1>6 DEF Sends, Bills, Unchanged
    <2>2. Owed'[c] <= Owed[c] /\ Owed[c] \in Int /\ Owed'[c] \in Int
        BY <1>1, <1>2, <1>6 DEF Sends, Bills
    <2> QED
        BY <1>1, <2>1, <2>2
<1>7. ASSUME NEW usage \in Int, Closes(c, usage)
      PROVE  Held(books') - Held(books) >= Owed'[c] - Owed[c] /\ Held(books') <= Cap
    <2>1. /\ c \in Flying /\ c \notin Flying' /\ Owed[c] = Cost[c] /\ bill'[c] = bill[c]
          /\ Owed'[c] = IF bill[c] = -1 THEN 0 ELSE IF bill[c] = 0 THEN Cost[c] ELSE bill[c]
        BY <1>2, <1>7 DEF Closes
    <2>2. CASE usage = -1
        <3>1. Held(books') = Held(books) + (-Cost[c]) + 0 + Cost[c]
            BY <1>1, <1>3, <1>7, <2>2 DEF Closes
        <3> QED
            BY <1>1, <2>1, <3>1
    <2>3. CASE usage # -1
        <3>1. Held(books') = Held(books) + (-Cost[c]) + usage + 0
            BY <1>1, <1>3, <1>7, <2>3 DEF Closes
        <3>2. usage = bill[c] /\ bill[c] > 0
            BY <1>7, <2>3 DEF Closes, FileFits
        <3> QED
            BY <1>1, <2>1, <3>1, <3>2
    <2> QED
        BY <2>2, <2>3
<1> QED
    BY <1>4, <1>5, <1>6, <1>7 DEF CallMoves

LEMMA LedgerStep ==
    ASSUME Costs!SpendingAssumption, CostsFit, Ledger, \A d \in Calls : FileFits(d),
           NEW c \in Calls, CallMoves(c), CostsFit', \A d \in Calls : FileFits(d)'
    PROVE  Ledger'
<1>1. books'.pending = Total(Cost, Flying')
    BY PendingStep
<1>2. books'.known >= 0 /\ books'.unresolved >= 0
    <2>1. books \in BookRecords /\ Cost[c] \in Nat /\ FileFits(c) /\ bill[c] \in Int
        BY CallsFinite DEF CostsFit
    <2> QED
        BY <2>1 DEF Ledger, CallMoves, Drops, Queues, Dispatches, Sends, Bills, Closes, Pays,
           Unchanged, BookRecords, FileFits
<1>3. ASSUME WithinReservations' PROVE Held(books') <= Cap /\ Total(Owed', Calls) <= Held(books')
    <2>1. WithinReservations
        <3>1. ASSUME NEW d \in Calls PROVE bill[d] <= Cost[d]
            <4>1. bill'[d] <= Cost[d] /\ Cost[d] \in Nat /\ (d # c => bill'[d] = bill[d])
                BY <1>3, CallsFinite DEF WithinReservations, CallMoves, Changed
            <4>2. bill'[c] = bill[c] \/ bill[c] = 0 \/ bill[c] = -1
                BY DEF CallMoves, Drops, Queues, Dispatches, Sends, Bills, Closes, FileFits
            <4> QED
                BY <4>1, <4>2
        <3> QED
            BY <3>1 DEF WithinReservations
    <2>2. Held(books) <= Cap /\ Total(Owed, Calls) <= Held(books)
        BY <2>1 DEF Ledger
    <2>3. bill[c] <= Cost[c] /\ bill'[c] <= Cost[c]
        BY <1>3, <2>1 DEF WithinReservations
    <2>4. /\ Held(books') - Held(books) >= Owed'[c] - Owed[c]
          /\ Held(books') <= Cap
        BY <2>2, <2>3, HeldStep
    <2>5. \A d \in Calls : Owed[d] \in Nat /\ Owed'[d] \in Nat /\ (d # c => Owed'[d] = Owed[d])
        <3>1. \A d \in Calls : Owed[d] \in Nat
            BY OwedNat
        <3>2. ASSUME NEW d \in Calls PROVE Owed'[d] \in Nat
            BY CallsFinite DEF CostsFit, FileFits, Owed
        <3>3. ASSUME NEW d \in Calls, d # c PROVE Owed'[d] = Owed[d]
            BY <3>3 DEF Owed, Flying, CallMoves, Changed, Alone
        <3> QED
            BY <3>1, <3>2, <3>3
    <2>6. Total(Owed', Calls) = Total(Owed, Calls) - Owed[c] + Owed'[c]
        <3>1. IsFiniteSet(Calls)
            BY CallsFinite
        <3>2. PICK f, g : f = Owed /\ g = Owed'
            OBVIOUS
        <3>3. \A d \in Calls : f[d] \in Nat /\ g[d] \in Nat /\ (d # c => g[d] = f[d])
            BY <2>5, <3>2
        <3>4. Total(g, Calls) = Total(f, Calls) - f[c] + g[c]
            BY <3>1, <3>3, TotalChanges
        <3> QED
            BY <3>2, <3>4
    <2>7. Total(Owed, Calls) \in Nat /\ Held(books) \in Int /\ Held(books') \in Int
        <3>1. Total(Owed, Calls) \in Nat
            BY <2>5, CallsFinite, TotalNat
        <3> QED
            BY <3>1 DEF CostsFit, Held, BookRecords
    <2> QED
        BY <2>2, <2>4, <2>5, <2>6, <2>7
<1> QED
    BY <1>1, <1>2, <1>3 DEF Ledger

-----------------------------------------------------------------------------
(* Paid calls: the token window *)

Since(t) == {c \in Calls : at[c] # -1 /\ at[c] \in t - Window + 1 .. t}

WindowInv ==
    /\ \A c \in Calls : at[c] <= now /\ (call[c].pc \in {"start", "waiting"} => at[c] = -1)
    /\ \A t \in 0 .. MaxTime : Total(Tokens, Since(t)) <= Limit

\* A call that is admitted now is in the windows that end now or later, and those hold
\* nothing else that the window which ends now does not hold.
LEMMA WindowStep ==
    ASSUME Costs!SpendingAssumption, CostsFit, WindowInv, NEW c \in Calls, CallMoves(c)
    PROVE  WindowInv'
<1>1. /\ now \in 0 .. MaxTime /\ now' = now /\ at[c] \in {-1} \cup 0 .. MaxTime
      /\ \A d \in Calls : at[d] \in Int /\ Tokens[d] \in Nat
      /\ \A d \in Calls \ {c} : at'[d] = at[d] /\ call'[d] = call[d]
      /\ Window \in Nat \ {0} /\ Limit \in Nat /\ MaxTime \in Nat
    BY CallsFinite DEF CostsFit, CallMoves, Changed, Alone, Costs!SpendingAssumption
<1>2. CASE at'[c] = at[c]
    <2>1. \A t \in 0 .. MaxTime : Since(t)' = Since(t)
        BY <1>1, <1>2 DEF Since
    <2>2. call'[c].pc \in {"start", "waiting"} => call[c].pc \in {"start", "waiting"}
        BY DEF CallMoves, Drops, Queues, Dispatches, Sends, Bills, Closes
    <2> QED
        BY <1>1, <1>2, <2>1, <2>2 DEF WindowInv
<1>3. CASE at'[c] # at[c]
    <2>1. /\ at'[c] = now /\ Costs!Fits(c, now) /\ call[c].pc \in {"start", "waiting"}
          /\ call'[c].pc \in {"done", "dispatched"}
        BY <1>3 DEF CallMoves, Drops, Queues, Dispatches, Sends, Bills, Closes, Unchanged, Paced
    <2>2. PICK used : used = {d \in Calls : at[d] # -1 /\ at[d] + Window > now}
        OBVIOUS
    <2>3. Total(Tokens, used) + Tokens[c] <= Limit
        BY <2>1, <2>2, CostsAgree DEF Costs!Fits, Costs!Used, Costs!Unknown
    <2>4. c \notin used /\ IsFiniteSet(used) /\ IsFiniteSet(used \cup {c}) /\ used \subseteq Calls
        <3>1. used \cup {c} \in SUBSET Calls /\ used \in SUBSET Calls
            BY <2>2
        <3> QED
            BY <2>1, <2>2, <3>1, CallsFinite DEF WindowInv
    <2>5. Total(Tokens, used \cup {c}) = Total(Tokens, used) + Tokens[c]
        BY <1>1, <2>4, TotalAdds
    <2>6. ASSUME NEW t \in 0 .. MaxTime PROVE Total(Tokens, Since(t)') <= Limit
        <3>1. CASE t < now
            <4>1. Since(t)' = Since(t)
                BY <1>1, <2>1, <3>1 DEF Since, WindowInv
            <4> QED
                BY <4>1 DEF WindowInv
        <3>2. CASE t >= now
            <4>1. Since(t)' \subseteq used \cup {c}
                <5>1. ASSUME NEW d \in Since(t)', d # c PROVE d \in used
                    <6>1. /\ d \in Calls /\ at[d] # -1 /\ at[d] \in Int /\ at[d] >= t - Window + 1
                          /\ t \in Int /\ Window \in Int
                        BY <1>1, <5>1 DEF Since
                    <6> QED
                        BY <1>1, <2>2, <3>2, <6>1
                <5> QED
                    BY <5>1
            <4>2. Total(Tokens, Since(t)') <= Total(Tokens, used \cup {c})
                <5>1. /\ \A d \in used \cup {c} : Tokens[d] \in Int
                      /\ \A d \in Since(t)' : Tokens[d] \in Int /\ Tokens[d] <= Tokens[d]
                    BY <1>1, <2>4, <4>1
                <5>2. PICK S : S = Since(t)'
                    OBVIOUS
                <5> QED
                    BY <2>4, <4>1, <5>1, <5>2, TotalGrows
            <4>3. Total(Tokens, Since(t)') \in Nat
                <5>1. PICK S : S = Since(t)'
                    OBVIOUS
                <5>2. S \in SUBSET Calls
                    BY <5>1 DEF Since
                <5>3. IsFiniteSet(S) /\ \A d \in S : Tokens[d] \in Int
                    BY <1>1, <5>2, CallsFinite
                <5> QED
                    BY <5>1, <5>3, TotalNat
            <4>4. Total(Tokens, used) \in Nat
                <5>1. \A d \in used : Tokens[d] \in Int
                    BY <1>1, <2>4
                <5> QED
                    BY <2>4, <5>1, TotalNat
            <4> QED
                BY <1>1, <2>3, <2>5, <4>2, <4>3, <4>4
        <3> QED
            BY <1>1, <3>1, <3>2
    <2> QED
        BY <1>1, <2>1, <2>6 DEF WindowInv
<1> QED
    BY <1>2, <1>3

-----------------------------------------------------------------------------
(* Paid calls: the theorems *)

CostsInv == CostsFit /\ (\A c \in Calls : FileFits(c)) /\ Ledger /\ WindowInv

LEMMA CostsInit ==
    ASSUME Costs!SpendingAssumption, Costs!Init
    PROVE  CostsInv
<1>1. CostsFit
    <2>1. [known |-> 0, pending |-> 0, unresolved |-> 0, unknown |-> 0, stopped |-> "no"] \in BookRecords
        BY DEF BookRecords, Costs!Reasons
    <2>2. [pc |-> "start", wake |-> 0, usage |-> -1] \in CallRecords
        BY DEF CallRecords
    <2>3. [status |-> "none", cost |-> 0] \in FileRecords
        BY DEF FileRecords
    <2>4. 0 \in 0 .. MaxTime /\ 0 \in 0 .. MaxErrors
        BY DEF Costs!SpendingAssumption
    <2>5. books \in BookRecords
        BY <2>1 DEF Costs!Init
    <2>6. call \in [Calls -> CallRecords] /\ file \in [Calls -> FileRecords]
        BY <2>2, <2>3 DEF Costs!Init, Costs!Unknown
    <2>7. at \in [Calls -> {-1} \cup 0 .. MaxTime] /\ bill \in [Calls -> Int]
        BY DEF Costs!Init, Costs!Unknown
    <2> QED
        BY <2>4, <2>5, <2>6, <2>7 DEF CostsFit, Costs!Init
<1>2. \A c \in Calls : FileFits(c)
    BY DEF FileFits, Costs!Init, Costs!Unknown
<1>3. Ledger
    <2>1. Flying = {}
        BY DEF Flying, Costs!Init
    <2>2. books.known = 0 /\ books.pending = 0 /\ books.unresolved = 0 /\ Held(books) = 0
        BY DEF Costs!Init, Held
    <2>3. Total(Cost, {}) = 0
        BY TotalNone
    <2>4. Total(Owed, Calls) <= 0
        <3>1. Owed = [c \in Calls |-> 0]
            BY <2>1 DEF Owed, Costs!Init, Costs!Unknown
        <3>2. Units(Owed, Calls) = {}
            BY <3>1 DEF Units
        <3>3. Total(Owed, Calls) = 0
            BY <3>2, FS_EmptySet DEF Total
        <3> QED
            BY <3>3
    <2> QED
        BY <2>1, <2>2, <2>3, <2>4, CallsFinite DEF Ledger
<1>4. WindowInv
    <2>1. \A t \in 0 .. MaxTime : Since(t) = {}
        BY DEF Since, Costs!Init, Costs!Unknown
    <2>2. Total(Tokens, {}) = 0 /\ now = 0 /\ \A c \in Calls : at[c] = -1
        BY TotalNone DEF Costs!Init, Costs!Unknown
    <2> QED
        BY <2>1, <2>2, CallsFinite DEF WindowInv
<1> QED
    BY <1>1, <1>2, <1>3, <1>4 DEF CostsInv

LEMMA CostsStep ==
    ASSUME Costs!SpendingAssumption, CostsInv, [Costs!Next]_(Costs!vars)
    PROVE  CostsInv'
<1>1. CostsFit' /\ (NoCallMoves \/ \E c \in Calls : CallMoves(c))
    BY CostsMove DEF CostsInv
<1>2. CASE NoCallMoves
    <2>1. /\ UNCHANGED <<books, at, call, file, bill>> /\ now' >= now /\ now \in Int /\ now' \in Int
          /\ \A c \in Calls : at[c] \in Int
        BY <1>2 DEF NoCallMoves, CostsInv, CostsFit
    <2>2. \A c \in Calls : FileFits(c)'
        BY <2>1 DEF CostsInv, FileFits
    <2>3. Ledger'
        <3>1. Flying' = Flying /\ Owed' = Owed /\ (WithinReservations' <=> WithinReservations)
            BY <2>1 DEF Flying, Owed, WithinReservations
        <3> QED
            BY <2>1, <3>1 DEF CostsInv, Ledger
    <2>4. WindowInv'
        <3>1. \A t \in 0 .. MaxTime : Since(t)' = Since(t)
            BY <2>1 DEF Since
        <3> QED
            BY <2>1, <3>1 DEF CostsInv, WindowInv
    <2> QED
        BY <1>1, <2>2, <2>3, <2>4 DEF CostsInv
<1>3. CASE \E c \in Calls : CallMoves(c)
    <2>1. PICK c \in Calls : CallMoves(c)
        BY <1>3
    <2>2. \A d \in Calls : FileFits(d)'
        <3>1. FileFits(c)'
            BY <2>1, FileStep DEF CostsInv
        <3>2. ASSUME NEW d \in Calls, d # c PROVE FileFits(d)'
            BY <2>1, <3>2 DEF CostsInv, CallMoves, Changed, Alone, FileFits
        <3> QED
            BY <3>1, <3>2
    <2>3. Ledger'
        BY <1>1, <2>1, <2>2, LedgerStep DEF CostsInv
    <2>4. WindowInv'
        BY <2>1, WindowStep DEF CostsInv
    <2> QED
        BY <1>1, <2>2, <2>3, <2>4 DEF CostsInv
<1> QED
    BY <1>1, <1>2, <1>3

\* The invariant holds of the component by itself, and of this part among the others.
LEMMA CostsAlways ==
    /\ Costs!Spec => []CostsInv
    /\ Spec => [](part = "costs" => CostsInv)
<1> DEFINE Here == part = "costs" => CostsInv
<1>1. Costs!Init => CostsInv
    BY PartsAssumption, CostsInit
<1>2. CostsInv /\ [Costs!Next]_(Costs!vars) => CostsInv'
    BY PartsAssumption, CostsStep
<1>3. Init => Here
    BY <1>1 DEF Init
<1>4. Here /\ [Next]_vars => Here'
    <2>1. CASE UNCHANGED vars
        BY <1>2, <2>1 DEF vars, costVars, Costs!vars
    <2>2. CASE Next
        <3>1. part' = part
            BY <2>2 DEF Next, NotBlobs, NotPaths, NotIndexes, NotGenerations, NotReads, NotCosts,
               NotRuns
        <3>2. part = "costs" => Costs!Next
            BY <2>2 DEF Next
        <3> QED
            BY <1>2, <3>1, <3>2
    <2> QED
        BY <2>1, <2>2
<1> HIDE DEF Here
<1>5. Costs!Spec => []CostsInv
    BY <1>1, <1>2, PTL DEF Costs!Spec
<1>6. Spec => []Here
    BY <1>3, <1>4, PTL DEF Spec
<1> QED
    BY <1>5, <1>6 DEF Here

LEMMA CostsTyped ==
    ASSUME Costs!SpendingAssumption, CostsInv
    PROVE  Costs!TypeOK
<1>1. /\ books \in BookRecords /\ books.known >= 0 /\ books.unresolved >= 0
      /\ books.pending \in Nat
    <2>1. IsFiniteSet(Flying) /\ \A c \in Flying : Cost[c] \in Int
        BY CallsFinite DEF Flying
    <2>2. Total(Cost, Flying) \in Nat
        BY <2>1, TotalNat
    <2> QED
        BY <2>2 DEF CostsInv, CostsFit, Ledger
<1>2. books \in [known : Nat, pending : Nat, unresolved : Nat, unknown : Nat, stopped : Costs!Reasons]
    BY <1>1 DEF BookRecords
<1>3. /\ call \in [Calls -> [pc : Costs!InFlight \cup {"start", "done"}, wake : Nat, usage : Int]]
      /\ file \in [Calls -> [status : {"none", "waiting", "dispatched", "not_dispatched", "closed"},
                             cost : Int]]
      /\ at \in [Calls -> {Costs!Unknown} \cup 0 .. MaxTime]
    <2>1. CallRecords = [pc : Costs!InFlight \cup {"start", "done"}, wake : Nat, usage : Int]
        <3>1. {"start", "waiting", "dispatched", "sent", "answered", "done"} =
                  Costs!InFlight \cup {"start", "done"}
            BY DEF Costs!InFlight
        <3> QED
            BY <3>1 DEF CallRecords
    <2> QED
        BY <2>1 DEF CostsInv, CostsFit, FileRecords, Costs!Unknown
<1> QED
    BY <1>2, <1>3 DEF CostsInv, CostsFit, Costs!TypeOK

\* The allowance never admits more than its cap while answers stay within their reservations,
\* and then holds at least what the provider charges, whatever came back, was missing, failed
\* or was cancelled; the reservations that are pending are those of the calls in flight
\* (costs.py:125-130).
THEOREM MoneyIsHeld ==
    /\ Costs!Spec => [](Costs!TypeOK /\ Costs!LiabilitiesCovered)
    /\ Spec => []LiabilitiesCovered
<1>1. CostsInv => Costs!TypeOK /\ Costs!LiabilitiesCovered
    <2> SUFFICES ASSUME CostsInv PROVE Costs!LiabilitiesCovered
        BY CostsTyped, PartsAssumption
    <2>1. Costs!SpendingAssumption
        BY PartsAssumption
    <2>2. books.pending = Costs!Total(Cost, {c \in Calls : call[c].pc \in Costs!InFlight})
        <3>1. {c \in Calls : call[c].pc \in Costs!InFlight} = Flying
            BY DEF Flying, Costs!InFlight
        <3> QED
            BY <3>1, CostsAgree DEF CostsInv, Ledger
    <2>3. ASSUME \A c \in Calls : ~ Costs!Over(c)
          PROVE  /\ Held(books) <= Cap
                 /\ Costs!Total(bill, {c \in Calls : bill[c] > 0}) <= Held(books)
        <3>1. WithinReservations /\ \A c \in Calls : Cost[c] \in Nat /\ bill[c] \in Int
            BY <2>1, <2>3, CallsFinite DEF WithinReservations, Costs!Over, CostsInv, CostsFit
        <3>2. Held(books) <= Cap /\ Total(Owed, Calls) <= Held(books)
            BY <3>1 DEF CostsInv, Ledger
        <3>3. PICK billed : billed = {c \in Calls : bill[c] > 0}
            OBVIOUS
        <3>4. \A c \in Calls : Owed[c] \in Int
            BY <2>1, OwedNat DEF CostsInv
        <3>5. \A c \in billed : bill[c] \in Int /\ bill[c] <= Owed[c]
            BY <3>1, <3>3 DEF Owed, WithinReservations
        <3>6. Total(bill, billed) <= Total(Owed, Calls)
            BY <2>1, <3>3, <3>4, <3>5, CallsFinite, TotalGrows
        <3>7. Total(bill, billed) \in Nat /\ Total(Owed, Calls) \in Nat /\ Held(books) \in Int
            <4>1. billed \in SUBSET Calls
                BY <3>3
            <4>2. IsFiniteSet(billed) /\ IsFiniteSet(Calls)
                BY <2>1, <4>1, CallsFinite
            <4> QED
                BY <3>4, <3>5, <4>2, TotalNat DEF CostsInv, CostsFit, Held, BookRecords
        <3> QED
            BY <3>2, <3>3, <3>6, <3>7, CostsAgree
    <2> QED
        BY <2>2, <2>3 DEF Costs!LiabilitiesCovered, Held
<1>2. (part = "costs" => CostsInv) => LiabilitiesCovered
    BY <1>1 DEF LiabilitiesCovered
<1> QED
    BY <1>1, <1>2, CostsAlways, PTL

\* The files alone, which is all that a report has after a crash, account for every request
\* that reached the provider: none looks unsent, and a known cost is what was charged
\* (costs.py:201).
THEOREM FilesAccount ==
    /\ Costs!Spec => []Costs!FilesCoverBill
    /\ Spec => []FilesCoverBill
<1>1. CostsInv => Costs!FilesCoverBill
    BY DEF CostsInv, FileFits, Costs!FilesCoverBill, Costs!Unknown
<1>2. (part = "costs" => CostsInv) => FilesCoverBill
    BY <1>1 DEF FilesCoverBill
<1> QED
    BY <1>1, <1>2, CostsAlways, PTL

\* In no span of the window's length does the pacer admit more tokens than the limit, for any
\* clock, limit and window (costs.py:86-88).
THEOREM WindowIsKept ==
    /\ Costs!Spec => []Costs!WindowHolds
    /\ Spec => []WindowHolds
<1>1. CostsInv => Costs!WindowHolds
    BY CostsAgree DEF CostsInv, WindowInv, Since, Costs!WindowHolds, Costs!Unknown
<1>2. (part = "costs" => CostsInv) => WindowHolds
    BY <1>1 DEF WindowHolds
<1> QED
    BY <1>1, <1>2, CostsAlways, PTL

\* Once the allowance has stopped, no call is dispatched, however long ago it reserved its
\* money; nor a framework's call behind the latch (costs.py, framework_calls.py).
THEOREM StopIsFinal ==
    /\ Costs!Spec => [][Costs!DispatchesAdmitted]_(Costs!vars)
    /\ Spec => NothingAfterStop
<1>1. ASSUME CostsInv, [Costs!Next]_(Costs!vars) PROVE Costs!DispatchesAdmitted
    <2>1. NoCallMoves \/ \E c \in Calls : CallMoves(c)
        BY <1>1, PartsAssumption, CostsMove DEF CostsInv
    <2>2. ASSUME NEW d \in Calls, call[d].pc # "dispatched", call'[d].pc = "dispatched"
          PROVE  Dispatches(d)
        <3>1. PICK c \in Calls : CallMoves(c)
            BY <2>1, <2>2 DEF NoCallMoves
        <3>2. d = c
            BY <2>2, <3>1 DEF CallMoves, Changed, Alone
        <3> QED
            BY <2>2, <3>1, <3>2 DEF CallMoves, Drops, Queues, Sends, Bills, Closes
    <2> QED
        BY <2>2 DEF Dispatches, Costs!DispatchesAdmitted
<1>2. (part = "costs" => CostsInv) /\ [Next]_vars => [part = "costs" => Costs!DispatchesAdmitted]_vars
    BY <1>1 DEF Next
<1>3. CostsInv /\ [Costs!Next]_(Costs!vars) => [Costs!DispatchesAdmitted]_(Costs!vars)
    BY <1>1
<1>4. Costs!Spec => [][Costs!DispatchesAdmitted]_(Costs!vars)
    BY <1>3, CostsAlways, PTL DEF Costs!Spec
<1>5. Spec => NothingAfterStop
    BY <1>2, CostsAlways, PTL DEF Spec, NothingAfterStop
<1> QED
    BY <1>4, <1>5

-----------------------------------------------------------------------------
(* A benchmark run and its report *)

InTrial == phase \in {"trials", "judging", "finished"}
Prior(c) == saved[TrialOf[c]].calls[c]

\* A call's file is behind its entry in memory by its end at most, what was paid for is not
\* taken for unsent, and what trial.json says of a call is final.
CallFits(c) ==
    /\ file[c] = record[c]
       \/ (record[c] = "withdrawn" /\ file[c] = "waiting")
       \/ (record[c] \in {"failed", "answered"} /\ file[c] = "dispatched")
    /\ c \in paid => record[c] \in {"dispatched", "failed", "answered"}
    /\ trial[TrialOf[c]] = "planned" => record[c] = "none"
    /\ trial[TrialOf[c]] \in Runs!Ended => record[c] \notin {"waiting", "dispatched"}
    /\ Prior(c) # "none" => Prior(c) = record[c] /\ trial[TrialOf[c]] \in Runs!Ended
    /\ InTrial /\ trial[TrialOf[c]] \in Runs!Ended => Prior(c) = record[c]

\* As long as nothing interrupts the run, trial.json says what the run knows of an attempt;
\* and what is judged has ended and stays as it was.
TrialFits(t) ==
    /\ trial[t] = "planned" <=> saved[t].status = "none"
    /\ trial[t] = "started" => saved[t].status = "started"
    /\ InTrial /\ trial[t] \in Runs!Ended =>
           trial[t] \in {"completed", "failed"} /\ saved[t].status = trial[t]
    /\ phase \in {"judging", "finished"} => trial[t] # "started"
    /\ verdict[t] # "none" \/ identity[t] # "none" =>
           trial[t] \in {"completed", "failed"} /\ saved[t].status = trial[t]
    /\ phase = "finished" /\ trial[t] \in Runs!Ended => verdict[t] # "none"

RunsInv ==
    /\ Runs!TypeOK /\ judgments = verdict
    /\ \A c \in ModelCalls : CallFits(c)
    /\ \A t \in Trials : TrialFits(t)

LEMMA RunsInit ==
    ASSUME Runs!BenchmarkAssumption, Runs!Init
    PROVE  RunsInv
<1>1. /\ phase = "trials" /\ stopped = FALSE /\ trouble = 0 /\ 0 \in 0 .. MaxTrouble /\ paid = {}
      /\ trial = [t \in Trials |-> "planned"]
      /\ record = [c \in ModelCalls |-> "none"] /\ file = [c \in ModelCalls |-> "none"]
      /\ verdict = [t \in Trials |-> "none"] /\ judgments = verdict
      /\ identity = [t \in Trials |-> "none"]
      /\ saved = [t \in Trials |-> [status |-> "none", calls |-> [c \in ModelCalls |-> "none"]]]
      /\ TrialOf \in [ModelCalls -> Trials]
    BY DEF Runs!Init, Runs!NoCalls, Runs!BenchmarkAssumption
<1>2. Runs!TypeOK
    <2>1. saved \in [Trials -> [status : {"none", "started"} \cup Runs!Ended,
                                calls : [ModelCalls -> Runs!Status]]]
        BY <1>1 DEF Runs!Status
    <2> QED
        BY <1>1, <2>1 DEF Runs!TypeOK, Runs!Status, Runs!Verdicts
<1>3. \A c \in ModelCalls : CallFits(c)
    BY <1>1 DEF CallFits, Prior, Runs!Ended
<1>4. \A t \in Trials : TrialFits(t)
    BY <1>1 DEF TrialFits, Runs!Ended
<1> QED
    BY <1>1, <1>2, <1>3, <1>4 DEF RunsInv

\* An attempt begins.
LEMMA TrialStarts ==
    ASSUME Runs!BenchmarkAssumption, RunsInv, NEW t \in Trials, Runs!StartTrial(t)
    PROVE  RunsInv'
<1>1. /\ trial \in [Trials -> {"planned", "started"} \cup Runs!Ended]
      /\ saved \in [Trials -> [status : {"none", "started"} \cup Runs!Ended,
                               calls : [ModelCalls -> Runs!Status]]]
      /\ TrialOf \in [ModelCalls -> Trials]
    BY DEF RunsInv, Runs!TypeOK, Runs!BenchmarkAssumption
<1>2. /\ trial' = [trial EXCEPT ![t] = "started"] /\ trial[t] = "planned" /\ phase = "trials"
      /\ saved' = [saved EXCEPT ![t].status = "started"]
      /\ UNCHANGED <<phase, stopped, record, file, verdict, identity, judgments, paid, trouble>>
    BY DEF Runs!StartTrial, Runs!Startable
<1>3. /\ saved' \in [Trials -> [status : {"none", "started"} \cup Runs!Ended,
                                calls : [ModelCalls -> Runs!Status]]]
      /\ saved'[t].status = "started" /\ saved'[t].calls = saved[t].calls
      /\ \A u \in Trials \ {t} : saved'[u] = saved[u]
    BY <1>1, <1>2
<1>4. Runs!TypeOK' /\ judgments' = verdict'
    BY <1>2, <1>3 DEF RunsInv, Runs!TypeOK
<1>5. ASSUME NEW c \in ModelCalls PROVE CallFits(c)'
    <2>1. Prior(c)' = Prior(c)
        BY <1>1, <1>3 DEF Prior
    <2> QED
        BY <1>1, <1>2, <2>1 DEF RunsInv, CallFits, InTrial, Runs!Ended
<1>6. ASSUME NEW u \in Trials PROVE TrialFits(u)'
    BY <1>1, <1>2, <1>3 DEF RunsInv, TrialFits, InTrial, Runs!Ended
<1> QED
    BY <1>4, <1>5, <1>6 DEF RunsInv

\* An attempt ends: each of its calls has come to its end.
LEMMA TrialEnds ==
    ASSUME Runs!BenchmarkAssumption, RunsInv, NEW t \in Trials, Runs!EndTrial(t)
    PROVE  RunsInv'
<1>1. /\ trial \in [Trials -> {"planned", "started"} \cup Runs!Ended]
      /\ saved \in [Trials -> [status : {"none", "started"} \cup Runs!Ended,
                               calls : [ModelCalls -> Runs!Status]]]
      /\ TrialOf \in [ModelCalls -> Trials] /\ record \in [ModelCalls -> Runs!Status]
      /\ trouble \in 0 .. MaxTrouble /\ MaxTrouble \in Nat
    BY DEF RunsInv, Runs!TypeOK, Runs!BenchmarkAssumption
<1> PICK entry : entry = [c \in ModelCalls |-> IF TrialOf[c] = t THEN record[c] ELSE "none"]
    OBVIOUS
<1>2. PICK status \in Runs!Ended :
          /\ trial[t] = "started" /\ phase \in {"trials", "ended"}
          /\ phase = "trials" => status \in {"completed", "failed"}
          /\ trial' = [trial EXCEPT ![t] = status]
          /\ entry = [c \in ModelCalls |-> IF TrialOf[c] = t THEN record[c] ELSE "none"]
          /\ \/ saved' = [saved EXCEPT ![t] = [status |-> status, calls |-> entry]] /\ phase' = phase
             \/ saved' = saved /\ phase' = "ended"
          /\ UNCHANGED <<stopped, record, file, verdict, identity, judgments, paid>>
          /\ \E written \in BOOLEAN : Runs!Mishap(~ written)
    BY DEF Runs!EndTrial, Runs!Interrupted, Runs!Ended
<1>3. \A c \in ModelCalls : TrialOf[c] = t => record[c] \notin {"waiting", "dispatched"}
    BY DEF Runs!EndTrial, Runs!Quiet, Runs!CallsOf
<1>4. trouble' \in 0 .. MaxTrouble
    <2>1. trouble' \in {trouble, trouble + 1} /\ trouble' <= MaxTrouble
        BY <1>1, <1>2 DEF Runs!Mishap
    <2> QED
        BY <1>1, <2>1
<1>5. /\ saved' \in [Trials -> [status : {"none", "started"} \cup Runs!Ended,
                                calls : [ModelCalls -> Runs!Status]]]
      /\ \A u \in Trials \ {t} : saved'[u] = saved[u] /\ trial'[u] = trial[u]
      /\ \/ saved'[t].status = status /\ saved'[t].calls = entry /\ phase' = phase
         \/ saved'[t] = saved[t] /\ phase' = "ended"
      /\ trial'[t] = status
    <2>1. [status |-> status, calls |-> entry] \in [status : {"none", "started"} \cup Runs!Ended,
                                                    calls : [ModelCalls -> Runs!Status]]
        BY <1>1, <1>2 DEF Runs!Status
    <2>2. trial'[t] = status /\ \A u \in Trials \ {t} : trial'[u] = trial[u]
        BY <1>1, <1>2
    <2>3. CASE saved' = [saved EXCEPT ![t] = [status |-> status, calls |-> entry]] /\ phase' = phase
        <3>1. saved'[t] = [status |-> status, calls |-> entry]
            BY <1>1, <2>3
        <3>2. /\ saved' \in [Trials -> [status : {"none", "started"} \cup Runs!Ended,
                                        calls : [ModelCalls -> Runs!Status]]]
              /\ \A u \in Trials \ {t} : saved'[u] = saved[u]
            BY <1>1, <2>1, <2>3
        <3> QED
            BY <2>2, <2>3, <3>1, <3>2
    <2>4. CASE saved' = saved /\ phase' = "ended"
        BY <1>1, <2>2, <2>4
    <2> QED
        BY <1>2, <2>3, <2>4
<1>6. Runs!TypeOK' /\ judgments' = verdict'
    BY <1>1, <1>2, <1>4, <1>5 DEF RunsInv, Runs!TypeOK
<1>7. ASSUME NEW c \in ModelCalls PROVE CallFits(c)'
    <2>1. CASE TrialOf[c] # t
        <3>1. Prior(c)' = Prior(c) /\ trial'[TrialOf[c]] = trial[TrialOf[c]] /\ (InTrial' => InTrial)
            BY <1>1, <1>2, <1>5, <2>1 DEF Prior, InTrial
        <3> QED
            BY <1>2, <3>1 DEF RunsInv, CallFits
    <2>2. CASE TrialOf[c] = t
        <3>1. Prior(c) = "none" /\ CallFits(c)
            BY <1>1, <1>2, <2>2 DEF RunsInv, CallFits, Runs!Ended
        <3>2. (Prior(c)' = record[c] /\ phase' = phase) \/ (Prior(c)' = "none" /\ phase' = "ended")
            BY <1>2, <1>5, <2>2, <3>1 DEF Prior
        <3>3. trial'[TrialOf[c]] = status /\ status # "planned"
            BY <1>2, <1>5, <2>2 DEF Runs!Ended
        <3> QED
            BY <1>2, <1>3, <2>2, <3>1, <3>2, <3>3 DEF CallFits, InTrial
    <2> QED
        BY <2>1, <2>2
<1>8. ASSUME NEW u \in Trials PROVE TrialFits(u)'
    BY <1>1, <1>2, <1>5 DEF RunsInv, TrialFits, InTrial, Runs!Ended
<1> QED
    BY <1>6, <1>7, <1>8 DEF RunsInv

\* A step of a call: only its entry, its file and what is paid may change.
LEMMA CallRuns ==
    ASSUME Runs!BenchmarkAssumption, RunsInv, NEW c \in ModelCalls,
           Runs!StartCall(c) \/ Runs!DispatchCall(c) \/ Runs!Pay(c) \/ Runs!EndCall(c)
    PROVE  RunsInv'
<1>1. /\ record \in [ModelCalls -> Runs!Status] /\ file \in [ModelCalls -> Runs!Status]
      /\ TrialOf \in [ModelCalls -> Trials] /\ paid \subseteq ModelCalls
      /\ trial \in [Trials -> {"planned", "started"} \cup Runs!Ended]
      /\ trouble \in 0 .. MaxTrouble /\ MaxTrouble \in Nat /\ CallFits(c)
    BY DEF RunsInv, Runs!TypeOK, Runs!BenchmarkAssumption
<1>2. UNCHANGED <<phase, stopped, trial, saved, verdict, identity, judgments>>
    BY DEF Runs!StartCall, Runs!DispatchCall, Runs!Pay, Runs!EndCall
<1>3. /\ record' \in [ModelCalls -> Runs!Status] /\ file' \in [ModelCalls -> Runs!Status]
      /\ paid' \subseteq ModelCalls /\ trouble' \in 0 .. MaxTrouble
      /\ \A d \in ModelCalls \ {c} : record'[d] = record[d] /\ file'[d] = file[d]
      /\ paid' \ {c} = paid \ {c}
      /\ CallFits(c)'
    <2>1. Prior(c)' = Prior(c)
        BY <1>2 DEF Prior
    <2>2. CASE Runs!StartCall(c)
        <3>1. PICK status \in {"waiting", "dispatched"} :
                  /\ record' = [record EXCEPT ![c] = status] /\ file' = [file EXCEPT ![c] = status]
                  /\ UNCHANGED <<paid, trouble>> /\ trial[TrialOf[c]] = "started"
                  /\ record[c] = "none"
            BY <2>2 DEF Runs!StartCall
        <3> QED
            BY <1>1, <1>2, <2>1, <3>1 DEF CallFits, Runs!Status, Runs!Ended
    <2>3. CASE Runs!DispatchCall(c)
        <3>1. /\ record' = [record EXCEPT ![c] = "dispatched"]
              /\ file' = [file EXCEPT ![c] = "dispatched"]
              /\ UNCHANGED <<paid, trouble>> /\ record[c] = "waiting"
            BY <2>3 DEF Runs!DispatchCall
        <3> QED
            BY <1>1, <1>2, <2>1, <3>1 DEF CallFits, Runs!Status, Runs!Ended
    <2>4. CASE Runs!Pay(c)
        <3>1. /\ UNCHANGED <<record, file, trouble>> /\ record[c] = "dispatched"
              /\ paid' = paid \cup {c}
            BY <2>4 DEF Runs!Pay
        <3> QED
            BY <1>1, <1>2, <2>1, <3>1 DEF CallFits, InTrial
    <2>5. CASE Runs!EndCall(c)
        <3>1. PICK status \in {"withdrawn", "failed", "answered"} :
                  /\ \/ record[c] = "waiting" /\ status = "withdrawn"
                     \/ record[c] = "dispatched" /\ status \in {"failed", "answered"}
                  /\ record' = [record EXCEPT ![c] = status]
                  /\ file' = [file EXCEPT ![c] = status] \/ file' = file
                  /\ paid' = paid /\ \E written \in BOOLEAN : Runs!Mishap(~ written)
            BY <2>5 DEF Runs!EndCall
        <3>2. trouble' \in 0 .. MaxTrouble
            <4>1. trouble' \in {trouble, trouble + 1} /\ trouble' <= MaxTrouble
                BY <1>1, <3>1 DEF Runs!Mishap
            <4> QED
                BY <1>1, <4>1
        <3>3. /\ record' \in [ModelCalls -> Runs!Status] /\ file' \in [ModelCalls -> Runs!Status]
              /\ \A d \in ModelCalls \ {c} : record'[d] = record[d] /\ file'[d] = file[d]
              /\ record'[c] = status /\ file'[c] \in {status, file[c]}
            BY <1>1, <3>1 DEF Runs!Status
        <3>4. CallFits(c)'
            BY <1>1, <1>2, <2>1, <3>1, <3>3 DEF CallFits, Runs!Ended
        <3> QED
            BY <1>1, <3>1, <3>2, <3>3, <3>4
    <2> QED
        BY <2>2, <2>3, <2>4, <2>5
<1>4. Runs!TypeOK' /\ judgments' = verdict'
    BY <1>2, <1>3 DEF RunsInv, Runs!TypeOK
<1>5. ASSUME NEW d \in ModelCalls PROVE CallFits(d)'
    <2>1. CASE d = c
        BY <1>3, <2>1
    <2>2. CASE d # c
        BY <1>2, <1>3, <2>2 DEF RunsInv, CallFits, Prior, InTrial
    <2> QED
        BY <2>1, <2>2
<1>6. \A t \in Trials : TrialFits(t)'
    BY <1>2 DEF RunsInv, TrialFits, InTrial
<1> QED
    BY <1>4, <1>5, <1>6 DEF RunsInv

\* A judgment begins, or is made.
LEMMA JudgeRuns ==
    ASSUME Runs!BenchmarkAssumption, RunsInv, NEW t \in Trials,
           Runs!BeginJudgment(t) \/ Runs!Judge(t)
    PROVE  RunsInv'
<1>1. /\ UNCHANGED <<phase, stopped, trial, record, file, saved, paid, trouble>>
      /\ phase = "judging" /\ trial[t] \in Runs!Ended /\ verdict[t] = "none"
      /\ verdict \in [Trials -> Runs!Verdicts] /\ judgments = verdict
      /\ identity \in [Trials -> {"none", "torn", "whole"}]
    BY DEF Runs!BeginJudgment, Runs!Judge, Runs!NextToJudge, Runs!Attempted, RunsInv, Runs!TypeOK
<1>2. /\ verdict' \in [Trials -> Runs!Verdicts] /\ judgments' = verdict'
      /\ identity' \in [Trials -> {"none", "torn", "whole"}]
      /\ \A u \in Trials \ {t} : verdict'[u] = verdict[u] /\ identity'[u] = identity[u]
    <2>1. CASE Runs!BeginJudgment(t)
        <3>1. PICK step \in {"torn", "whole"} :
                  identity' = [identity EXCEPT ![t] = step] /\ UNCHANGED <<verdict, judgments>>
            BY <2>1 DEF Runs!BeginJudgment
        <3> QED
            BY <1>1, <3>1
    <2>2. CASE Runs!Judge(t)
        <3>1. PICK outcome \in Runs!Verdicts :
                  /\ verdict' = [verdict EXCEPT ![t] = outcome]
                  /\ judgments' = verdict' /\ identity' = identity
            BY <2>2 DEF Runs!Judge
        <3> QED
            BY <1>1, <3>1
    <2> QED
        BY <2>1, <2>2
<1>3. Runs!TypeOK'
    BY <1>1, <1>2 DEF RunsInv, Runs!TypeOK
<1>4. \A c \in ModelCalls : CallFits(c)'
    BY <1>1 DEF RunsInv, CallFits, Prior, InTrial
<1>5. ASSUME NEW u \in Trials PROVE TrialFits(u)'
    BY <1>1, <1>2 DEF RunsInv, TrialFits, InTrial
<1> QED
    BY <1>2, <1>3, <1>4, <1>5 DEF RunsInv

\* The run goes on to its next phase, or is stopped.
LEMMA PhaseRuns ==
    ASSUME Runs!BenchmarkAssumption, RunsInv,
           \/ Runs!AllowanceStops \/ Runs!StartJudging \/ Runs!Finish \/ Runs!Interrupt \/ Runs!Kill
           \/ UNCHANGED Runs!vars
    PROVE  RunsInv'
<1>1. /\ UNCHANGED <<trial, record, file, saved, verdict, identity, judgments, paid>>
      /\ stopped' \in BOOLEAN /\ trouble' \in 0 .. MaxTrouble
      /\ phase' \in {"trials", "judging", "finished", "ended", "dead"}
    <2>1. stopped \in BOOLEAN /\ trouble \in 0 .. MaxTrouble /\ MaxTrouble \in Nat
          /\ phase \in {"trials", "judging", "finished", "ended", "dead"}
        BY DEF RunsInv, Runs!TypeOK, Runs!BenchmarkAssumption
    <2>2. CASE Runs!AllowanceStops \/ Runs!StartJudging \/ Runs!Finish
        BY <2>1, <2>2 DEF Runs!AllowanceStops, Runs!StartJudging, Runs!Finish
    <2>3. CASE Runs!Interrupt \/ Runs!Kill
        BY <2>1, <2>3 DEF Runs!Interrupt, Runs!Kill
    <2>4. CASE UNCHANGED Runs!vars
        BY <2>1, <2>4 DEF Runs!vars
    <2> QED
        BY <2>2, <2>3, <2>4
<1>2. /\ InTrial' => InTrial
      /\ phase' \in {"judging", "finished"} =>
             phase \in {"judging", "finished"} \/ \A t \in Trials : trial[t] # "started"
      /\ phase' = "finished" =>
             phase = "finished" \/ \A t \in Trials : trial[t] \in Runs!Ended => verdict[t] # "none"
    BY DEF Runs!AllowanceStops, Runs!StartJudging, Runs!Finish, Runs!Interrupt, Runs!Kill,
       Runs!vars, Runs!Attempted, InTrial
<1>3. Runs!TypeOK' /\ judgments' = verdict'
    BY <1>1 DEF RunsInv, Runs!TypeOK
<1>4. \A c \in ModelCalls : CallFits(c)'
    BY <1>1, <1>2 DEF RunsInv, CallFits, Prior
<1>5. \A t \in Trials : TrialFits(t)'
    BY <1>1, <1>2 DEF RunsInv, TrialFits
<1> QED
    BY <1>3, <1>4, <1>5 DEF RunsInv

LEMMA RunsStep ==
    ASSUME Runs!BenchmarkAssumption, RunsInv, [Runs!Next]_(Runs!vars)
    PROVE  RunsInv'
BY TrialStarts, TrialEnds, CallRuns, JudgeRuns, PhaseRuns DEF Runs!Next

\* The invariant holds of the component by itself, and of this part among the others.
LEMMA RunsAlways ==
    /\ Runs!Spec => []RunsInv
    /\ Spec => [](part = "runs" => RunsInv)
<1> DEFINE Here == part = "runs" => RunsInv
<1>1. Runs!Init => RunsInv
    BY PartsAssumption, RunsInit
<1>2. RunsInv /\ [Runs!Next]_(Runs!vars) => RunsInv'
    BY PartsAssumption, RunsStep
<1>3. Init => Here
    BY <1>1 DEF Init
<1>4. Here /\ [Next]_vars => Here'
    <2>1. CASE UNCHANGED vars
        BY <1>2, <2>1 DEF vars, runVars, Runs!vars
    <2>2. CASE Next
        <3>1. part' = part
            BY <2>2 DEF Next, NotBlobs, NotPaths, NotIndexes, NotGenerations, NotReads, NotCosts,
               NotRuns
        <3>2. part = "runs" => Runs!Next
            BY <2>2 DEF Next
        <3> QED
            BY <1>2, <3>1, <3>2
    <2> QED
        BY <2>1, <2>2
<1> HIDE DEF Here
<1>5. Runs!Spec => []RunsInv
    BY <1>1, <1>2, PTL DEF Runs!Spec
<1>6. Spec => []Here
    BY <1>3, <1>4, PTL DEF Spec
<1> QED
    BY <1>5, <1>6 DEF Here

\* What is paid for and what is answered is in the report, under an attempt.
LEMMA ReportHasCall ==
    ASSUME Runs!BenchmarkAssumption, RunsInv, NEW c \in ModelCalls
    PROVE  /\ file[c] # "none" => TrialOf[c] \in Runs!ReportedTrials
           /\ c \in paid => Runs!ReportedCall(c) \in {"dispatched", "failed", "answered"}
           /\ "answered" \in {file[c], Prior(c)} =>
                  file[c] # "none" /\ Runs!ReportedCall(c) = "answered"
<1>1. TrialOf[c] \in Trials /\ CallFits(c)
    BY DEF RunsInv, Runs!BenchmarkAssumption
<1>2. file[c] # "none" => TrialOf[c] \in Runs!ReportedTrials
    BY <1>1 DEF Runs!ReportedTrials, Runs!CallsOf
<1>3. Runs!ReportedCall(c) =
          IF file[c] = "none" \/ (Prior(c) = "answered" /\ file[c] # "answered")
          THEN Prior(c) ELSE file[c]
    BY DEF Runs!ReportedCall, Runs!Merge, Prior
<1> QED
    BY <1>1, <1>2, <1>3 DEF CallFits

\* The report of the files that any interruption, kill or failed write leaves puts every
\* request that reached the provider into the costs of an attempt, and keeps an answer that
\* either copy of the call still has (memory_benchmark.py:348-349).
THEOREM ReportCovers ==
    /\ Runs!Spec => []Runs!ReportCoversCalls
    /\ Spec => []ReportCoversCalls
<1>1. RunsInv => Runs!ReportCoversCalls
    <2> SUFFICES ASSUME RunsInv
                 PROVE  /\ paid \subseteq Runs!Report.known \cup Runs!Report.unknown
                        /\ \A c \in ModelCalls : "answered" \in {file[c], saved[TrialOf[c]].calls[c]} =>
                               c \in Runs!Report.known
        BY DEF Runs!ReportCoversCalls
    <2>1. /\ Runs!Report.known = {c \in ModelCalls : TrialOf[c] \in Runs!ReportedTrials
                                      /\ Runs!ReportedCall(c) = "answered"}
          /\ Runs!Report.unknown = {c \in ModelCalls : TrialOf[c] \in Runs!ReportedTrials
                                        /\ Runs!ReportedCall(c) \in {"dispatched", "failed"}}
        BY DEF Runs!Report, Runs!Summary
    <2>2. ASSUME NEW c \in paid PROVE c \in Runs!Report.known \cup Runs!Report.unknown
        <3>1. c \in ModelCalls /\ file[c] # "none"
            BY DEF RunsInv, Runs!TypeOK, CallFits
        <3> QED
            BY <2>1, <3>1, PartsAssumption, ReportHasCall
    <2>3. ASSUME NEW c \in ModelCalls, "answered" \in {file[c], saved[TrialOf[c]].calls[c]}
          PROVE  c \in Runs!Report.known
        BY <2>1, <2>3, PartsAssumption, ReportHasCall DEF Prior
    <2> QED
        BY <2>2, <2>3
<1>2. (part = "runs" => RunsInv) => ReportCoversCalls
    BY <1>1 DEF ReportCoversCalls
<1> QED
    BY <1>1, <1>2, RunsAlways, PTL

LEMMA SummaryOfFiles ==
    ASSUME Runs!BenchmarkAssumption, RunsInv, phase = "finished"
    PROVE  Runs!Report = Runs!Summary(Runs!Attempted, trial, record, verdict)
<1>1. \A c \in ModelCalls : CallFits(c) /\ TrialOf[c] \in Trials
    BY DEF RunsInv, Runs!BenchmarkAssumption
<1>2. /\ \A t \in Trials : TrialFits(t) /\ trial[t] \in {"planned", "started"} \cup Runs!Ended
      /\ judgments = verdict
    BY DEF RunsInv, Runs!TypeOK
<1>3. Runs!ReportedTrials = Runs!Attempted
    <2>1. ASSUME NEW t \in Trials
          PROVE  /\ saved[t].status # "none" <=> trial[t] \in Runs!Ended
                 /\ (\E c \in Runs!CallsOf(t) : file[c] # "none") => trial[t] \in Runs!Ended
        <3>1. saved[t].status # "none" <=> trial[t] \in Runs!Ended
            BY <1>2 DEF TrialFits, Runs!Ended
        <3>2. ASSUME NEW c \in Runs!CallsOf(t), file[c] # "none" PROVE trial[t] # "planned"
            BY <1>1, <3>2 DEF CallFits, Runs!CallsOf
        <3> QED
            BY <1>2, <3>1, <3>2 DEF TrialFits
    <2> QED
        BY <2>1 DEF Runs!ReportedTrials, Runs!Attempted
<1>4. ASSUME NEW t \in Runs!Attempted PROVE Runs!ReportedStatus(t) = trial[t]
    BY <1>2 DEF Runs!ReportedStatus, Runs!Attempted, TrialFits, InTrial, Runs!Ended
<1>5. ASSUME NEW t \in Trials PROVE Runs!ReportedVerdict(t) = verdict[t]
    BY <1>2 DEF Runs!ReportedVerdict, TrialFits, Runs!Ended
<1>6. ASSUME NEW c \in ModelCalls, TrialOf[c] \in Runs!Attempted
      PROVE  /\ Runs!ReportedCall(c) = "answered" <=> record[c] = "answered"
             /\ Runs!ReportedCall(c) \in {"dispatched", "failed"} <=> record[c] \in {"dispatched", "failed"}
    <2>1. trial[TrialOf[c]] \in Runs!Ended /\ CallFits(c) /\ Prior(c) = record[c]
        BY <1>1, <1>6 DEF CallFits, InTrial, Runs!Attempted
    <2>2. Runs!ReportedCall(c) =
              IF file[c] = "none" \/ (Prior(c) = "answered" /\ file[c] # "answered")
              THEN Prior(c) ELSE file[c]
        BY DEF Runs!ReportedCall, Runs!Merge, Prior
    <2> QED
        BY <2>1, <2>2 DEF CallFits
<1> DEFINE tried == Runs!Attempted
           statusOf == [t \in Trials |-> Runs!ReportedStatus(t)]
           entryOf == [c \in ModelCalls |-> Runs!ReportedCall(c)]
           verdictOf == [t \in Trials |-> Runs!ReportedVerdict(t)]
<1>7. [t \in tried |-> statusOf[t]] = [t \in tried |-> trial[t]]
    BY <1>4 DEF Runs!Attempted
<1>8. /\ {c \in ModelCalls : TrialOf[c] \in tried /\ entryOf[c] = "answered"} =
             {c \in ModelCalls : TrialOf[c] \in tried /\ record[c] = "answered"}
      /\ {c \in ModelCalls : TrialOf[c] \in tried /\ entryOf[c] \in {"dispatched", "failed"}} =
             {c \in ModelCalls : TrialOf[c] \in tried /\ record[c] \in {"dispatched", "failed"}}
    BY <1>6
<1>9. \A t \in Trials : verdictOf[t] = verdict[t]
    BY <1>5
<1>10. Runs!Summary(tried, statusOf, entryOf, verdictOf) = Runs!Summary(tried, trial, record, verdict)
    <2> HIDE DEF tried, statusOf, entryOf, verdictOf
    <2>1. /\ {t \in Trials : verdictOf[t] = "right"} = {t \in Trials : verdict[t] = "right"}
          /\ {t \in Trials : verdictOf[t] \in {"none", "unresolved"}} =
                 {t \in Trials : verdict[t] \in {"none", "unresolved"}}
          /\ (tried = Trials /\ \A t \in Trials : verdictOf[t] \in {"right", "wrong"}) =
                 (tried = Trials /\ \A t \in Trials : verdict[t] \in {"right", "wrong"})
        BY <1>9
    <2> QED
        BY <1>7, <1>8, <2>1, Zenon DEF Runs!Summary
<1> QED
    BY <1>3, <1>10 DEF Runs!Report

\* The report says what the run said of itself at its end; before that, it has no verdict
\* without an attempt, and claims completion only when every planned attempt has ended and
\* was judged as it stands (memory_benchmark.py, report and summarize).
THEOREM ReportHolds ==
    /\ Runs!Spec => [](Runs!TypeOK /\ Runs!ReportIsSummary /\ Runs!ReportClaimsLittle)
    /\ Spec => []ReportIsTrue
<1>1. RunsInv => Runs!TypeOK /\ Runs!ReportIsSummary /\ Runs!ReportClaimsLittle
    <2> SUFFICES ASSUME RunsInv PROVE Runs!ReportIsSummary /\ Runs!ReportClaimsLittle
        BY DEF RunsInv
    <2>1. Runs!ReportIsSummary
        BY PartsAssumption, SummaryOfFiles DEF Runs!ReportIsSummary
    <2>2. ASSUME NEW t \in Trials
          PROVE  /\ Runs!ReportedVerdict(t) # "none" =>
                        /\ t \in Runs!ReportedTrials
                        /\ saved[t].status \in {"completed", "failed"}
                 /\ Runs!ReportedVerdict(t) \in {"right", "wrong"} =>
                        verdict[t] = Runs!ReportedVerdict(t)
        BY DEF RunsInv, TrialFits, Runs!ReportedVerdict, Runs!ReportedTrials
    <2>3. Runs!Report.completed => \A t \in Trials : Runs!ReportedVerdict(t) \in {"right", "wrong"}
        BY DEF Runs!Report, Runs!Summary
    <2>4. Runs!ReportClaimsLittle
        BY <2>2, <2>3 DEF Runs!ReportClaimsLittle
    <2> QED
        BY <2>1, <2>4
<1>2. (part = "runs" => RunsInv) => ReportIsTrue
    BY <1>1 DEF ReportIsTrue
<1> QED
    BY <1>1, <1>2, RunsAlways, PTL
=============================================================================
