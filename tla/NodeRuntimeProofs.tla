------------------------- MODULE NodeRuntimeProofs -------------------------
(***************************************************************************)
(* What NodeRuntime guarantees for any budget, number of seeds, depth and  *)
(* concurrency, whatever the readers do.                                   *)
(*                                                                         *)
(* The argument for the budget: calls are admitted only while more remain  *)
(* than are owed to others, a branch told to finish gives up its           *)
(* reservation with its call, and a child is entered only if two calls are *)
(* free, so what remains never falls below what is reserved.               *)
(***************************************************************************)
EXTENDS NodeRuntime, FiniteSetTheorems, WellFoundedInduction, TLAPS

(* The call and the operation of the final synthesis are kept.             *)
MainKept ==
    /\ run # "refused"
    /\ run = "collecting" => calls < MaxModelCalls /\ operations < MaxOperations

(* What is reserved is reserved for a branch that is not over.             *)
ReservedLive == \A i \in reservations : Live(i)

BudgetInv == TypeOK /\ ReservedLive /\ ReservationsCovered /\ MainKept
-----------------------------------------------------------------------------
(* Facts about the operators.                                              *)

LEMMA BudgetFacts ==
    /\ MaxInvocations \in Nat /\ MaxDepth \in Nat /\ Spent \in Nat
    /\ MaxModelCalls \in Nat /\ MaxReaderCalls \in Nat /\ MaxOperations \in Nat
    /\ MaxSteps \in Nat /\ MaxConcurrency \in Nat
    /\ MaxReaderCalls > 0 /\ MaxOperations > 0 /\ MaxSteps > 0
    /\ Spent < MaxModelCalls
BY BudgetAssumption

LEMMA GapsFacts ==
    ASSUME NEW i \in Invs
    PROVE  <<i, "found">> \in Gaps /\ <<i, "stop">> \in Gaps
BY DEF Gaps

(* The except path of branch() is a return.                                *)
LEMMA FailReturns ==
    ASSUME TypeOK, NEW i \in Invs, NEW cause, Fail(i, cause)
    PROVE  \E cites \in SUBSET Invs, gs \in SUBSET Gaps : Return(i, cites, gs)
<1>1. gaps[i] \cup {<<i, "stop">>} \in SUBSET Gaps /\ {<<i, "stop">>} \in SUBSET Gaps
  BY GapsFacts DEF TypeOK
<1>2. UNION {citations[c] : c \in delivered[i]} \in SUBSET Invs
  BY DEF TypeOK
<1>3. {} \in SUBSET Invs
  OBVIOUS
<1> QED
  BY <1>1, <1>2, <1>3 DEF Fail

(* A branch returns from any of three places.                              *)
Returns(i) ==
    /\ pc[i] \in {"loading", "submitted"} \cup Stops
    /\ ~LiveChild(i) \/ pc[i] \in {"loading", "submitted"}
    /\ \E cites \in SUBSET Invs, gs \in SUBSET Gaps : Return(i, cites, gs)

LEMMA ReturnCases ==
    ASSUME TypeOK, NEW i \in Invs, LoadFails(i) \/ Finish(i) \/ Settle(i)
    PROVE  Returns(i)
<1>1. CASE LoadFails(i)
  BY <1>1, FailReturns DEF LoadFails, Returns
<1>2. CASE Finish(i)
  <2>1. CASE Return(i, citations[i], gaps[i])
    <3>1. citations[i] \in SUBSET Invs /\ gaps[i] \in SUBSET Gaps
      BY DEF TypeOK
    <3> QED
      BY <1>2, <2>1, <3>1 DEF Finish, Returns
  <2>2. CASE Fail(i, "budget")
    BY <1>2, <2>2, FailReturns DEF Finish, Returns
  <2> QED
    BY <1>2, <2>1, <2>2 DEF Finish
<1>3. CASE Settle(i)
  BY <1>3, FailReturns DEF Settle, Returns
<1> QED
  BY <1>1, <1>2, <1>3

-----------------------------------------------------------------------------
(* Types.                                                                  *)

LEMMA EnterType ==
    ASSUME TypeOK, NEW n \in Nodes, NEW p \in 0 .. MaxInvocations,
           NEW nodes \in SUBSET Nodes, Enter(n, p, nodes)
    PROVE  /\ invocations + 1 \in Invs
           /\ invocations' \in 0 .. MaxInvocations
           /\ parent' \in [Invs -> 0 .. MaxInvocations]
           /\ ancestry' \in [Invs -> SUBSET Nodes]
           /\ reservations' \subseteq 1 .. invocations'
<1>1. invocations + 1 \in Invs /\ invocations' = invocations + 1
  BY BudgetAssumption DEF TypeOK, Enter, Invs
<1>2. reservations' \subseteq 1 .. invocations'
  BY <1>1 DEF TypeOK, Enter, Invs
<1>3. invocations' \in 0 .. MaxInvocations
  BY <1>1, BudgetAssumption DEF TypeOK, Enter, Invs
<1>4. parent' = [parent EXCEPT ![invocations + 1] = p] /\ parent \in [Invs -> 0 .. MaxInvocations]
  BY DEF TypeOK, Enter
<1>5. /\ ancestry' = [ancestry EXCEPT ![invocations + 1] = nodes \cup {n}]
      /\ ancestry \in [Invs -> SUBSET Nodes]
      /\ nodes \cup {n} \in SUBSET Nodes
  BY DEF TypeOK, Enter
<1>6. parent' \in [Invs -> 0 .. MaxInvocations]
  BY <1>1, <1>4
<1>7. ancestry' \in [Invs -> SUBSET Nodes]
  BY <1>1, <1>5
<1> QED
  BY <1>1, <1>2, <1>3, <1>6, <1>7

LEMMA HandOverType ==
    ASSUME TypeOK, NEW p \in Invs, NEW i \in Invs, NEW cites \in SUBSET Invs,
           NEW gs \in SUBSET Gaps, HandOver(p, i, cites, gs)
    PROVE  /\ gaps' \in [Invs -> SUBSET Gaps]
           /\ visible' \in [Invs -> SUBSET Invs]
           /\ inspected' \in [Invs -> BOOLEAN]
           /\ delivered' \in [Invs -> SUBSET Invs]
<1>1. <<p, "found">> \in Gaps
  BY GapsFacts
<1>2. PICK fits \in BOOLEAN : HandOver(p, i, cites, gs)!(fits)
  BY DEF HandOver
<1>3. gaps' \in [Invs -> SUBSET Gaps]
  BY <1>1, <1>2 DEF TypeOK
<1>4. CASE fits /\ cites # {}
  <2>1. visible' \in [Invs -> SUBSET Invs] /\ delivered' \in [Invs -> SUBSET Invs]
    BY <1>2, <1>4 DEF TypeOK
  <2>2. inspected' \in [Invs -> BOOLEAN]
    BY <1>2, <1>4 DEF TypeOK
  <2> QED
    BY <1>3, <2>1, <2>2
<1>5. CASE ~(fits /\ cites # {})
  BY <1>2, <1>3, <1>5 DEF TypeOK
<1> QED
  BY <1>4, <1>5

LEMMA ReturnType ==
    ASSUME TypeOK, NEW i \in Invs, Returns(i)
    PROVE  TypeOK'
<1> PICK cites \in SUBSET Invs, gs \in SUBSET Gaps : Return(i, cites, gs)
  BY DEF Returns
<1>1. pc' \in [Invs -> Places]
  BY DEF Return, TypeOK, Places, Ended
<1>2. /\ citations' \in [Invs -> SUBSET Invs]
      /\ required' \in [Invs -> SUBSET Gaps]
      /\ reservations' \subseteq 1 .. invocations'
  BY DEF Return, TypeOK, shape
<1>3. /\ gaps' \in [Invs -> SUBSET Gaps]
      /\ visible' \in [Invs -> SUBSET Invs]
      /\ inspected' \in [Invs -> BOOLEAN]
      /\ delivered' \in [Invs -> SUBSET Invs]
  <2>1. CASE parent[i] = 0
    BY <2>1 DEF Return, TypeOK
  <2>2. CASE parent[i] # 0
    <3>1. parent[i] \in Invs
      BY <2>2, BudgetAssumption DEF TypeOK, Invs
    <3> QED
      BY <2>2, <3>1, HandOverType DEF Return
  <2> QED
    BY <2>1, <2>2
<1>4. UNCHANGED <<calls, readerCalls, operations, clock, fatal, run, parent, ancestry,
                  invocations, queued, steps, rejected, final>>
  BY DEF Return, ledger, shape
<1> QED
  BY <1>1, <1>2, <1>3, <1>4 DEF TypeOK

LEMMA TypeInitially == Init => TypeOK
<1> SUFFICES ASSUME Init PROVE TypeOK
  OBVIOUS
<1>1. calls \in Nat /\ readerCalls \in Nat /\ operations \in Nat /\ invocations \in 0 .. MaxInvocations
  BY BudgetFacts DEF Init
<1>2. /\ parent \in [Invs -> 0 .. MaxInvocations]
      /\ steps \in [Invs -> 0 .. MaxSteps]
  BY BudgetFacts DEF Init
<1>3. /\ pc \in [Invs -> Places]
      /\ inspected \in [Invs -> BOOLEAN]
      /\ rejected \in [Invs -> BOOLEAN]
  BY DEF Init, Places, Ended
<1>4. /\ clock \in {"collecting", "late", "expired"}
      /\ fatal \in BOOLEAN
      /\ run \in Runs
      /\ queued \subseteq Seeds
      /\ reservations \subseteq 1 .. invocations
      /\ final \subseteq Gaps
  BY DEF Init, Runs
<1>5. /\ ancestry \in [Invs -> SUBSET Nodes]
      /\ visible \in [Invs -> SUBSET Invs]
      /\ gaps \in [Invs -> SUBSET Gaps]
      /\ delivered \in [Invs -> SUBSET Invs]
      /\ citations \in [Invs -> SUBSET Invs]
      /\ required \in [Invs -> SUBSET Gaps]
  BY DEF Init
<1> QED
  BY <1>1, <1>2, <1>3, <1>4, <1>5 DEF TypeOK

(* A step that changes no more than places, the ledger, steps and flags.   *)
LEMMA MoveType ==
    ASSUME TypeOK,
           calls' \in Nat, readerCalls' \in Nat, operations' \in Nat,
           clock' \in {"collecting", "late", "expired"}, fatal' \in BOOLEAN, run' \in Runs,
           reservations' \subseteq reservations,
           pc' \in [Invs -> Places],
           steps' \in [Invs -> 0 .. MaxSteps],
           rejected' \in [Invs -> BOOLEAN],
           citations' \in [Invs -> SUBSET Invs],
           UNCHANGED <<shape, visible, inspected, gaps, delivered, required, final>>
    PROVE  TypeOK'
BY DEF TypeOK, shape

(* Sums are natural numbers again.                                         *)
LEMMA ChargeType ==
    ASSUME TypeOK, ChargeCall \/ ChargeOperation \/ UNCHANGED ledger
    PROVE  calls' \in Nat /\ readerCalls' \in Nat /\ operations' \in Nat
BY DEF TypeOK, ChargeCall, ChargeOperation, ledger

LEMMA GotoType ==
    ASSUME TypeOK, NEW i \in Invs, NEW place \in Places, Goto(i, place)
    PROVE  pc' \in [Invs -> Places]
BY DEF TypeOK, Goto

(* The steps of a branch that only move it on, and charge the ledger.      *)
LEMMA PlainType ==
    ASSUME TypeOK, NEW i \in Invs,
           \/ GenerateRefused(i) \/ ContextOverflow(i) \/ Execute(i) \/ Late(i) \/ Doom(i)
           \/ Cancel(i) \/ Answered(i) \/ Browse(i) \/ Subquery(i) \/ SubqueryEnds(i)
           \/ EndPython(i) \/ ReplStops(i) \/ Bug(i)
    PROVE  TypeOK'
<1> USE DEF Places, Stops
<1>1. pc' \in [Invs -> Places]
  BY GotoType DEF GenerateRefused, ContextOverflow, Execute, Late, Doom, Cancel, Answered,
     Browse, Subquery, SubqueryEnds, EndPython, ReplStops, Bug, TypeOK
<1>2. calls' \in Nat /\ readerCalls' \in Nat /\ operations' \in Nat
  BY ChargeType DEF GenerateRefused, ContextOverflow, Execute, Late, Doom, Cancel, Answered,
     Browse, Subquery, SubqueryEnds, EndPython, ReplStops, Bug
<1>3. reservations' \subseteq reservations /\ fatal' \in BOOLEAN
  BY DEF GenerateRefused, ContextOverflow, Execute, Late, Doom, Cancel, Answered,
     Browse, Subquery, SubqueryEnds, EndPython, ReplStops, Bug, TypeOK
<1>4. UNCHANGED <<clock, run, shape, local, result, final>>
  BY DEF GenerateRefused, ContextOverflow, Execute, Late, Doom, Cancel, Answered,
     Browse, Subquery, SubqueryEnds, EndPython, ReplStops, Bug
<1>5. /\ clock' \in {"collecting", "late", "expired"} /\ run' \in Runs
      /\ steps' \in [Invs -> 0 .. MaxSteps] /\ rejected' \in [Invs -> BOOLEAN]
      /\ citations' \in [Invs -> SUBSET Invs]
      /\ UNCHANGED <<visible, inspected, gaps, delivered, required, final>>
  BY <1>4 DEF local, result, TypeOK
<1> QED
  BY <1>1, <1>2, <1>3, <1>4, <1>5, MoveType

LEMMA GenerateType ==
    ASSUME TypeOK, NEW i \in Invs, Generate(i)
    PROVE  TypeOK'
<1>1. pc' \in [Invs -> Places] /\ steps' \in [Invs -> 0 .. MaxSteps]
  <2>1. "calling" \in Places /\ "extracting" \in Places
    BY DEF Places
  <2>2. pc' \in [Invs -> Places]
    BY <2>1, GotoType DEF Generate, Advance
  <2>3. steps \in [Invs -> 0 .. MaxSteps] /\ MaxSteps \in Nat
    BY BudgetFacts DEF TypeOK
  <2>4. CASE steps[i] < MaxSteps
    <3>1. steps[i] + 1 \in 0 .. MaxSteps
      BY <2>3, <2>4
    <3>2. steps' = [steps EXCEPT ![i] = steps[i] + 1]
      BY <2>4 DEF Generate, Advance
    <3> QED
      BY <2>2, <2>3, <3>1, <3>2
  <2>5. CASE ~(steps[i] < MaxSteps)
    <3>1. steps' = steps
      BY <2>5 DEF Generate, Advance
    <3> QED
      BY <2>2, <2>3, <3>1
  <2> QED
    BY <2>4, <2>5
<1>2. calls' \in Nat /\ readerCalls' \in Nat /\ operations' \in Nat
  BY ChargeType DEF Generate
<1>3. reservations' \subseteq reservations
  BY DEF Generate
<1>4. /\ clock' \in {"collecting", "late", "expired"} /\ run' \in Runs
      /\ fatal' \in BOOLEAN /\ rejected' \in [Invs -> BOOLEAN]
      /\ citations' \in [Invs -> SUBSET Invs]
      /\ UNCHANGED <<shape, visible, inspected, gaps, delivered, required, final>>
  BY DEF Generate, result, TypeOK
<1> QED
  BY <1>1, <1>2, <1>3, <1>4, MoveType

LEMMA SubmitType ==
    ASSUME TypeOK, NEW i \in Invs, Submit(i) \/ SubmitRejected(i) \/ Extracted(i)
    PROVE  TypeOK'
<1>1. pc' \in [Invs -> Places]
  BY GotoType DEF Submit, SubmitRejected, Extracted, Places, Stops
<1>2. citations' \in [Invs -> SUBSET Invs]
  BY DEF Submit, SubmitRejected, Extracted, Acceptable, result, TypeOK
<1>3. rejected' \in [Invs -> BOOLEAN]
  BY DEF Submit, SubmitRejected, Extracted, TypeOK
<1>4. /\ calls' \in Nat /\ readerCalls' \in Nat /\ operations' \in Nat
      /\ clock' \in {"collecting", "late", "expired"} /\ run' \in Runs
      /\ fatal' \in BOOLEAN /\ reservations' \subseteq reservations
      /\ steps' \in [Invs -> 0 .. MaxSteps]
      /\ UNCHANGED <<shape, visible, inspected, gaps, delivered, required, final>>
  BY DEF Submit, SubmitRejected, Extracted, result, ledger, TypeOK
<1> QED
  BY <1>1, <1>2, <1>3, <1>4, MoveType

(* The steps in which a branch records evidence or gaps.                   *)
LEMMA RecordType ==
    ASSUME TypeOK, NEW i \in Invs, Load(i) \/ Read(i) \/ CallbackFails(i)
    PROVE  TypeOK'
<1>1. pc' \in [Invs -> Places]
  BY GotoType DEF Load, Read, CallbackFails, Places, TypeOK
<1>2. calls' \in Nat /\ readerCalls' \in Nat /\ operations' \in Nat
  BY ChargeType DEF Load, Read, CallbackFails
<1>3. gaps' \in [Invs -> SUBSET Gaps]
  <2>1. PICK gs \in SUBSET {<<i, "found">>} :
          gaps' = [gaps EXCEPT ![i] = gs] \/ gaps' = [gaps EXCEPT ![i] = gaps[i] \cup gs]
    BY DEF Load, Read, CallbackFails
  <2>2. gs \in SUBSET Gaps /\ gaps[i] \cup gs \in SUBSET Gaps
    BY <2>1, GapsFacts DEF TypeOK
  <2> QED
    BY <2>1, <2>2 DEF TypeOK
<1>4. visible' \in [Invs -> SUBSET Invs]
  BY DEF Load, Read, CallbackFails, TypeOK
<1>5. inspected' \in [Invs -> BOOLEAN]
  BY DEF Load, Read, CallbackFails, TypeOK
<1>6. UNCHANGED <<clock, fatal, run, reservations, parent, ancestry, invocations, queued, steps,
                  rejected, delivered, citations, required, final>>
  BY DEF Load, Read, CallbackFails, shape, result
<1> QED
  BY <1>1, <1>2, <1>3, <1>4, <1>5, <1>6 DEF TypeOK

LEMMA CancelledType ==
    ASSUME TypeOK, NEW i \in Invs, Cancelled(i)
    PROVE  TypeOK'
<1>1. pc' \in [Invs -> Places]
  BY DEF Cancelled, TypeOK, Places, Ended
<1>2. /\ calls' \in Nat /\ readerCalls' \in Nat /\ operations' \in Nat
      /\ clock' \in {"collecting", "late", "expired"} /\ run' \in Runs
      /\ fatal' \in BOOLEAN /\ reservations' \subseteq reservations
      /\ steps' \in [Invs -> 0 .. MaxSteps] /\ rejected' \in [Invs -> BOOLEAN]
      /\ citations' \in [Invs -> SUBSET Invs]
      /\ UNCHANGED <<shape, visible, inspected, gaps, delivered, required, final>>
  BY DEF Cancelled, local, result, ledger, TypeOK
<1> QED
  BY <1>1, <1>2, MoveType

LEMMA SeedingType ==
    ASSUME TypeOK, NEW n \in Seeds, StartSeed(n) \/ RefuseSeed(n)
    PROVE  TypeOK'
<1>1. n \in Nodes /\ 0 \in 0 .. MaxInvocations
  BY SeedsAssumption, BudgetFacts
<1>2. queued' \subseteq Seeds
  BY DEF StartSeed, RefuseSeed, TypeOK
<1>3. CASE StartSeed(n)
  <2>1. /\ invocations + 1 \in Invs /\ invocations' \in 0 .. MaxInvocations
        /\ parent' \in [Invs -> 0 .. MaxInvocations] /\ ancestry' \in [Invs -> SUBSET Nodes]
        /\ reservations' \subseteq 1 .. invocations'
    BY <1>1, <1>3, EnterType DEF StartSeed
  <2>2. pc' \in [Invs -> Places]
    BY <1>3, <2>1, GotoType DEF StartSeed, Places
  <2>3. UNCHANGED <<calls, readerCalls, operations, clock, fatal, run, steps, visible, inspected,
                    rejected, gaps, delivered, citations, required, final>>
    BY <1>3 DEF StartSeed, ledger, local, result
  <2> QED
    BY <1>2, <2>1, <2>2, <2>3 DEF TypeOK
<1>4. CASE RefuseSeed(n)
  <2>1. invocations + 1 \in Invs /\ invocations' = invocations + 1
    BY <1>4, BudgetFacts DEF RefuseSeed, TypeOK, Invs
  <2>2. invocations' \in 0 .. MaxInvocations /\ reservations' \subseteq 1 .. invocations'
    BY <1>4, <2>1, BudgetFacts DEF RefuseSeed, TypeOK, Invs
  <2>3. ancestry' \in [Invs -> SUBSET Nodes] /\ required' \in [Invs -> SUBSET Gaps]
    BY <1>1, <1>4, <2>1, GapsFacts DEF RefuseSeed, TypeOK
  <2>4. pc' \in [Invs -> Places]
    BY <1>4, <2>1, GotoType DEF RefuseSeed, Places, Ended
  <2>5. UNCHANGED <<calls, readerCalls, operations, clock, fatal, run, parent, steps, visible,
                    inspected, rejected, gaps, delivered, citations, final>>
    BY <1>4 DEF RefuseSeed, ledger, local
  <2> QED
    BY <1>2, <2>2, <2>3, <2>4, <2>5 DEF TypeOK
<1> QED
  BY <1>3, <1>4

LEMMA ChildType ==
    ASSUME TypeOK, NEW i \in Invs, NEW n \in Nodes, QueryNode(i, n) \/ RefuseChild(i, n)
    PROVE  TypeOK'
<1>1. i \in 0 .. MaxInvocations /\ ancestry[i] \in SUBSET Nodes
  BY DEF TypeOK, Invs
<1>2. calls' \in Nat /\ readerCalls' \in Nat /\ operations' \in Nat
  BY ChargeType DEF QueryNode, RefuseChild
<1>3. CASE QueryNode(i, n)
  <2>1. /\ invocations + 1 \in Invs /\ invocations' \in 0 .. MaxInvocations
        /\ parent' \in [Invs -> 0 .. MaxInvocations] /\ ancestry' \in [Invs -> SUBSET Nodes]
        /\ reservations' \subseteq 1 .. invocations'
    BY <1>1, <1>3, EnterType DEF QueryNode
  <2>2. pc' \in [Invs -> Places]
    BY <1>3, <2>1 DEF QueryNode, TypeOK, Places
  <2>3. UNCHANGED <<clock, fatal, run, queued, steps, visible, inspected,
                    rejected, gaps, delivered, citations, required, final>>
    BY <1>3 DEF QueryNode, local, result
  <2> QED
    BY <1>2, <2>1, <2>2, <2>3 DEF TypeOK
<1>4. CASE RefuseChild(i, n)
  <2> DEFINE c == invocations + 1
  <2>1. c \in Invs /\ invocations' = c
    BY <1>4, BudgetFacts DEF RefuseChild, TypeOK, Invs
  <2>2. invocations' \in 0 .. MaxInvocations /\ reservations' \subseteq 1 .. invocations'
    BY <1>4, <2>1, BudgetFacts DEF RefuseChild, TypeOK, Invs
  <2>3. parent' \in [Invs -> 0 .. MaxInvocations]
    BY <1>1, <1>4, <2>1 DEF RefuseChild, TypeOK
  <2>4. {<<c, "stop">>} \in SUBSET Gaps
    BY <2>1, GapsFacts
  <2>5. required' \in [Invs -> SUBSET Gaps]
    BY <1>4, <2>1, <2>4 DEF RefuseChild, TypeOK
  <2>6. /\ gaps' \in [Invs -> SUBSET Gaps] /\ visible' \in [Invs -> SUBSET Invs]
        /\ inspected' \in [Invs -> BOOLEAN] /\ delivered' \in [Invs -> SUBSET Invs]
    BY <1>4, <2>1, <2>4, HandOverType DEF RefuseChild
  <2>7. pc' \in [Invs -> Places]
    BY <1>4, <2>1, GotoType DEF RefuseChild, Places, Ended
  <2>8. UNCHANGED <<clock, fatal, run, ancestry, queued, steps, rejected, citations, final>>
    BY <1>4 DEF RefuseChild
  <2> QED
    BY <1>2, <2>2, <2>3, <2>5, <2>6, <2>7, <2>8 DEF TypeOK
<1> QED
  BY <1>3, <1>4

(* The steps of the run itself.                                            *)
LEMMA RunType ==
    ASSUME TypeOK, Main \/ CancelRun \/ Tick
    PROVE  TypeOK'
<1>1. calls' \in Nat /\ readerCalls' \in Nat /\ operations' \in Nat
  BY DEF Main, GatherRaises, Unwound, Synthesize, MainAnswers, MainFails, CancelRun, Tick,
     TypeOK, ledger
<1>2. run' \in Runs
  BY DEF Main, GatherRaises, Unwound, Synthesize, MainAnswers, MainFails, CancelRun, Tick,
     TypeOK, Runs
<1>3. clock' \in {"collecting", "late", "expired"}
  BY DEF Main, GatherRaises, Unwound, Synthesize, MainAnswers, MainFails, CancelRun, Tick, TypeOK
<1>4. final' \subseteq Gaps
  <2>1. UNION {required[j] : j \in {k \in Invs : IsSeed(k)}} \subseteq Gaps
    BY DEF TypeOK
  <2> QED
    BY <2>1 DEF Main, GatherRaises, Unwound, Synthesize, MainAnswers, MainFails, CancelRun, Tick,
       TypeOK
<1>5. UNCHANGED <<fatal, reservations, parent, ancestry, invocations, queued, pc, steps, visible,
                  inspected, rejected, gaps, delivered, citations, required>>
  BY DEF Main, GatherRaises, Unwound, Synthesize, MainAnswers, MainFails, CancelRun, Tick,
     shape, local, result
<1> QED
  BY <1>1, <1>2, <1>3, <1>4, <1>5 DEF TypeOK

LEMMA TypeStep == TypeOK /\ [Next]_vars => TypeOK'
<1> SUFFICES ASSUME TypeOK, [Next]_vars PROVE TypeOK'
  OBVIOUS
<1>1. CASE Seeding
  BY <1>1, SeedingType DEF Seeding
<1>2. CASE Main \/ CancelRun \/ Tick
  BY <1>2, RunType
<1>3. ASSUME NEW i \in Invs, Host(i) PROVE TypeOK'
  <2>1. CASE LoadFails(i) \/ Finish(i) \/ Settle(i)
    BY <2>1, ReturnCases, ReturnType
  <2>2. CASE ~(LoadFails(i) \/ Finish(i) \/ Settle(i))
    BY <1>3, <2>2, PlainType, GenerateType, RecordType, CancelledType DEF Host
  <2> QED
    BY <2>1, <2>2
<1>4. ASSUME NEW i \in Invs, Reader(i) PROVE TypeOK'
  BY <1>4, PlainType, RecordType, SubmitType, ChildType DEF Reader
<1>5. ASSUME NEW i \in Invs, Trouble(i) PROVE TypeOK'
  BY <1>5, PlainType DEF Trouble
<1>6. CASE UNCHANGED vars
  BY <1>6 DEF vars, ledger, shape, local, result, TypeOK
<1> QED
  BY <1>1, <1>2, <1>3, <1>4, <1>5, <1>6 DEF Next

(* Every variable of the runtime keeps its type.                           *)
THEOREM TypeCorrect == Spec => []TypeOK
<1> QED
  BY TypeInitially, TypeStep, PTL DEF Spec

-----------------------------------------------------------------------------
(* The budget.                                                             *)

LEMMA SizesAreNumbers ==
    ASSUME TypeOK
    PROVE  /\ IsFiniteSet(reservations) /\ Cardinality(reservations) \in Nat
           /\ IsFiniteSet(queued) /\ Cardinality(queued) \in Nat
           /\ Remaining \in Nat /\ Reserved \in Nat
<1>1. IsFiniteSet(1 .. invocations)
  BY FS_Interval DEF TypeOK
<1>2. IsFiniteSet(reservations) /\ IsFiniteSet(queued)
  BY <1>1, SeedsAssumption, FS_Subset DEF TypeOK
<1>3. Cardinality(reservations) \in Nat /\ Cardinality(queued) \in Nat
  BY <1>2, FS_CardinalityType
<1>4. Remaining \in Nat
  BY BudgetFacts DEF TypeOK, Remaining
<1> QED
  BY <1>2, <1>3, <1>4 DEF Reserved

(* Fewer reservations and fewer queued seeds are owed less.                *)
LEMMA ReservedShrinks ==
    ASSUME TypeOK, TypeOK', reservations' \subseteq reservations, queued' \subseteq queued
    PROVE  Reserved' <= Reserved
<1>1. Cardinality(reservations') <= Cardinality(reservations)
  BY SizesAreNumbers, FS_Subset
<1>2. Cardinality(queued') <= Cardinality(queued)
  BY SizesAreNumbers, FS_Subset
<1>3. /\ Cardinality(reservations') \in Nat /\ Cardinality(reservations) \in Nat
      /\ Cardinality(queued') \in Nat /\ Cardinality(queued) \in Nat
  <2>1. IsFiniteSet(reservations') /\ IsFiniteSet(queued')
    BY SizesAreNumbers, FS_Subset
  <2> QED
    BY <2>1, SizesAreNumbers, FS_CardinalityType
<1> QED
  BY <1>1, <1>2, <1>3 DEF Reserved

(* Reserving for one more branch adds one.                                 *)
LEMMA ReservedGrows ==
    ASSUME TypeOK, NEW i \in Nat, reservations' = reservations \cup {i}
    PROVE  /\ Cardinality(reservations') \in Nat
           /\ Cardinality(reservations') <= Cardinality(reservations) + 1
<1>1. IsFiniteSet(reservations')
  BY SizesAreNumbers, FS_AddElement
<1>2. \/ Cardinality(reservations') = Cardinality(reservations)
      \/ Cardinality(reservations') = Cardinality(reservations) + 1
  BY SizesAreNumbers, FS_AddElement
<1> QED
  BY <1>1, <1>2, SizesAreNumbers, FS_CardinalityType

(* A model call leaves one call less.                                      *)
LEMMA CallLeavesOneLess ==
    ASSUME TypeOK, ChargeCall, Remaining > 0
    PROVE  Remaining' = Remaining - 1 /\ calls' < MaxModelCalls
BY BudgetFacts DEF TypeOK, ChargeCall, Remaining

(* A step without a model call that reserves nothing.                      *)
LEMMA QuietStep ==
    ASSUME BudgetInv, TypeOK',
           UNCHANGED <<calls, readerCalls>>,
           reservations' \subseteq reservations, queued' \subseteq queued,
           operations' = operations \/ (OperationLeft /\ operations' = operations + 1),
           run' = run \/ run' \notin {"collecting", "refused"}
    PROVE  ReservationsCovered' /\ MainKept'
<1>1. Remaining' = Remaining
  BY DEF Remaining
<1>2. Reserved' <= Reserved
  BY ReservedShrinks DEF BudgetInv
<1>3. Reserved \in Nat /\ Reserved' \in Nat /\ Remaining \in Nat
  <2>1. Reserved \in Nat /\ Remaining \in Nat
    BY SizesAreNumbers DEF BudgetInv
  <2>2. Reserved' \in Nat
    <3>1. IsFiniteSet(reservations') /\ IsFiniteSet(queued')
      BY SizesAreNumbers, FS_Subset DEF BudgetInv
    <3> QED
      BY <3>1, FS_CardinalityType DEF Reserved
  <2> QED
    BY <2>1, <2>2
<1>4. ReservationsCovered'
  BY <1>1, <1>2, <1>3 DEF BudgetInv, ReservationsCovered, Enough
<1>5. MainKept'
  BY BudgetFacts DEF BudgetInv, TypeOK, MainKept, OperationLeft
<1> QED
  BY <1>4, <1>5

(* A model call that leaves, after it, as much as is then reserved.        *)
LEMMA PaidCall ==
    ASSUME BudgetInv, TypeOK', ChargeCall, OperationLeft, run' = run,
           Remaining > 0, Reserved' \in Nat, Reserved' < Remaining
    PROVE  ReservationsCovered' /\ MainKept'
<1>1. Remaining' = Remaining - 1 /\ calls' < MaxModelCalls
  BY CallLeavesOneLess DEF BudgetInv
<1>2. Remaining \in Nat
  BY SizesAreNumbers DEF BudgetInv
<1>3. ReservationsCovered'
  BY <1>1, <1>2 DEF ReservationsCovered
<1>4. MainKept'
  BY <1>1, BudgetFacts DEF BudgetInv, TypeOK, MainKept, OperationLeft, ChargeCall
<1> QED
  BY <1>3, <1>4

LEMMA GenerateBudget ==
    ASSUME BudgetInv, TypeOK', NEW i \in Invs, Generate(i)
    PROVE  ReservationsCovered' /\ MainKept'
<1>1. /\ IsFiniteSet(reservations) /\ Cardinality(reservations) \in Nat
      /\ Cardinality(queued) \in Nat /\ Remaining \in Nat /\ Reserved \in Nat
  BY SizesAreNumbers DEF BudgetInv
<1>2. Cardinality(reservations \ {i}) \in Nat
  BY <1>1, FS_Subset, FS_CardinalityType
<1>3. Remaining > Owed(i) /\ queued' = queued /\ ChargeCall /\ OperationLeft /\ run' = run
  BY DEF Generate, shape
<1>4. Owed(i) \in Nat
  BY <1>1, <1>2 DEF Owed
<1>5. CASE MustFinish(i)
  <2>1. Reserved' = Owed(i)
    BY <1>3, <1>5 DEF Generate, Reserved, Owed
  <2> QED
    BY <1>1, <1>3, <1>4, <2>1, PaidCall
<1>6. CASE ~MustFinish(i)
  <2>1. Reserved' = Reserved
    BY <1>3, <1>6 DEF Generate, Reserved
  <2>2. Remaining > Reserved
    BY <1>1, <1>6 DEF MustFinish, Exploration
  <2> QED
    BY <1>1, <1>3, <1>4, <2>1, <2>2, PaidCall
<1> QED
  BY <1>5, <1>6

LEMMA SubqueryBudget ==
    ASSUME BudgetInv, TypeOK', NEW i \in Invs, Subquery(i)
    PROVE  ReservationsCovered' /\ MainKept'
<1>1. Remaining \in Nat /\ Reserved \in Nat
  BY SizesAreNumbers DEF BudgetInv
<1>2. Remaining > Reserved
  BY <1>1 DEF Subquery, Exploration
<1>3. Reserved' = Reserved /\ ChargeCall /\ OperationLeft /\ run' = run
  BY DEF Subquery, Reserved, shape
<1> QED
  BY <1>1, <1>2, <1>3, PaidCall

LEMMA ChildBudget ==
    ASSUME BudgetInv, TypeOK', NEW i \in Invs, NEW n \in Nodes, QueryNode(i, n)
    PROVE  ReservationsCovered' /\ MainKept'
<1>1. /\ Cardinality(reservations) \in Nat /\ Cardinality(queued) \in Nat
      /\ Remaining \in Nat /\ Reserved \in Nat
  BY SizesAreNumbers DEF BudgetInv
<1>2. Remaining >= Reserved + 2
  BY <1>1 DEF QueryNode, ChildAffordable, Exploration
<1>3. UNCHANGED <<calls, readerCalls, run, queued>> /\ operations' = operations + 1 /\ OperationLeft
  BY DEF QueryNode, ChargeOperation
<1>4. reservations' = reservations \cup {invocations + 1} /\ invocations + 1 \in Nat
  BY DEF QueryNode, Enter, BudgetInv, TypeOK
<1>5. Cardinality(reservations') \in Nat /\ Cardinality(reservations') <= Cardinality(reservations) + 1
  BY <1>4, ReservedGrows DEF BudgetInv
<1>6. Reserved' <= Reserved + 1 /\ Reserved' \in Nat
  BY <1>1, <1>3, <1>5 DEF Reserved
<1>7. Remaining' = Remaining
  BY <1>3 DEF Remaining
<1>8. ReservationsCovered'
  BY <1>1, <1>2, <1>6, <1>7 DEF ReservationsCovered
<1>9. MainKept'
  BY <1>3, BudgetFacts DEF BudgetInv, TypeOK, MainKept, OperationLeft
<1> QED
  BY <1>8, <1>9

LEMMA SeedBudget ==
    ASSUME BudgetInv, TypeOK', NEW n \in Seeds, StartSeed(n)
    PROVE  ReservationsCovered' /\ MainKept'
<1>1. /\ Cardinality(reservations) \in Nat /\ Cardinality(queued) \in Nat
      /\ IsFiniteSet(queued) /\ Remaining \in Nat /\ Reserved \in Nat
  BY SizesAreNumbers DEF BudgetInv
<1>2. Cardinality(queued') = Cardinality(queued) - 1
  BY <1>1, FS_RemoveElement DEF StartSeed
<1>3. UNCHANGED <<calls, readerCalls, operations, run>>
  BY DEF StartSeed, ledger
<1>4. reservations' = reservations \cup {invocations + 1} /\ invocations + 1 \in Nat
  BY DEF StartSeed, Enter, BudgetInv, TypeOK
<1>5. Cardinality(reservations') \in Nat /\ Cardinality(reservations') <= Cardinality(reservations) + 1
  BY <1>4, ReservedGrows DEF BudgetInv
<1>6. Reserved' <= Reserved /\ Reserved' \in Int
  BY <1>1, <1>2, <1>5 DEF Reserved
<1>7. Remaining' = Remaining
  BY <1>3 DEF Remaining
<1>8. ReservationsCovered'
  BY <1>1, <1>6, <1>7 DEF BudgetInv, ReservationsCovered, Enough
<1>9. MainKept'
  BY <1>3 DEF BudgetInv, MainKept
<1> QED
  BY <1>8, <1>9

(* When all branches are over nothing is reserved.                         *)
LEMMA SynthesizeBudget ==
    ASSUME BudgetInv, TypeOK', Synthesize
    PROVE  ReservationsCovered' /\ MainKept'
<1>1. queued = {} /\ reservations = {}
  <2>1. reservations \subseteq Invs
    BY BudgetFacts DEF BudgetInv, TypeOK, Invs
  <2> QED
    BY <2>1 DEF BudgetInv, Synthesize, Collected, ReservedLive
<1>2. queued' = {} /\ reservations' = {}
  BY <1>1 DEF Synthesize, shape
<1>3. Reserved' = 0
  BY <1>2, FS_EmptySet DEF Reserved
<1>4. Remaining' \in Nat
  <2>1. calls' \in Nat /\ readerCalls' \in Nat
    BY DEF TypeOK
  <2>2. MaxReaderCalls - readerCalls' \in Int /\ MaxModelCalls - calls' - 1 \in Int
    BY <2>1, BudgetFacts
  <2> QED
    BY <2>2 DEF Remaining
<1>5. ReservationsCovered'
  BY <1>3, <1>4 DEF ReservationsCovered
<1>6. calls < MaxModelCalls /\ operations < MaxOperations
  BY DEF BudgetInv, MainKept, Synthesize, Collected
<1>7. MainKept'
  BY <1>6 DEF MainKept, Synthesize
<1> QED
  BY <1>5, <1>7

(* The other steps of a branch call no model and reserve nothing.          *)
LEMMA QuietBranch ==
    ASSUME BudgetInv, TypeOK', NEW i \in Invs, Host(i) \/ Reader(i) \/ Trouble(i),
           ~Generate(i), ~Subquery(i), \A n \in Nodes : ~QueryNode(i, n)
    PROVE  ReservationsCovered' /\ MainKept'
<1> DEFINE Quiet ==
      /\ UNCHANGED <<calls, readerCalls, run>>
      /\ reservations' \subseteq reservations /\ queued' \subseteq queued
      /\ operations' = operations \/ (OperationLeft /\ operations' = operations + 1)
<1>1. CASE LoadFails(i) \/ Finish(i) \/ Settle(i)
  <2>1. Returns(i)
    BY <1>1, ReturnCases DEF BudgetInv
  <2>2. Quiet
    BY <2>1 DEF Returns, Return, ledger, shape
  <2> QED
    BY <2>2, QuietStep
<1>2. CASE Load(i) \/ GenerateRefused(i) \/ ContextOverflow(i) \/ Execute(i) \/ Late(i) \/ Doom(i)
  <2>1. Quiet
    BY <1>2 DEF Load, GenerateRefused, ContextOverflow, Execute, Late, Doom, ChargeOperation,
       ledger, shape
  <2> QED
    BY <2>1, QuietStep
<1>3. CASE Cancel(i) \/ Cancelled(i) \/ ReplStops(i) \/ Bug(i)
  <2>1. Quiet
    BY <1>3 DEF Cancel, Cancelled, ReplStops, Bug, ledger, shape
  <2> QED
    BY <2>1, QuietStep
<1>4. CASE Answered(i) \/ SubqueryEnds(i) \/ EndPython(i) \/ Submit(i) \/ SubmitRejected(i) \/ Extracted(i)
  <2>1. Quiet
    BY <1>4 DEF Answered, SubqueryEnds, EndPython, Submit, SubmitRejected, Extracted, ledger, shape
  <2> QED
    BY <2>1, QuietStep
<1>5. CASE Read(i) \/ Browse(i) \/ CallbackFails(i) \/ \E n \in Nodes : RefuseChild(i, n)
  <2>1. Quiet
    BY <1>5 DEF Read, Browse, CallbackFails, RefuseChild, ChargeOperation, ledger, shape
  <2> QED
    BY <2>1, QuietStep
<1> QED
  BY <1>1, <1>2, <1>3, <1>4, <1>5 DEF Host, Reader, Trouble

LEMMA QuietRun ==
    ASSUME BudgetInv, TypeOK',
           \/ GatherRaises \/ Unwound \/ MainAnswers \/ MainFails \/ CancelRun \/ Tick
           \/ UNCHANGED vars \/ \E n \in Seeds : RefuseSeed(n)
    PROVE  ReservationsCovered' /\ MainKept'
<1>1. UNCHANGED <<calls, readerCalls, operations>>
  BY DEF GatherRaises, Unwound, MainAnswers, MainFails, CancelRun, Tick, RefuseSeed, vars, ledger
<1>2. reservations' \subseteq reservations /\ queued' \subseteq queued
  BY DEF GatherRaises, Unwound, MainAnswers, MainFails, CancelRun, Tick, RefuseSeed, vars, shape
<1>3. run' = run \/ run' \notin {"collecting", "refused"}
  BY DEF GatherRaises, Unwound, MainAnswers, MainFails, CancelRun, Tick, RefuseSeed, vars
<1> QED
  BY <1>1, <1>2, <1>3, QuietStep

(* A branch that is over has released its reservation.                     *)
LEMMA ReservedLiveStep ==
    ASSUME TypeOK, ReservedLive, [Next]_vars
    PROVE  ReservedLive'
<1> USE DEF ReservedLive, Live, Ended
<1>1. ASSUME NEW n \in Seeds, StartSeed(n) PROVE ReservedLive'
  BY <1>1, BudgetFacts DEF StartSeed, Enter, Goto, TypeOK, Invs
<1>2. ASSUME NEW n \in Seeds, RefuseSeed(n) PROVE ReservedLive'
  BY <1>2, BudgetFacts DEF RefuseSeed, Goto, TypeOK, Invs
<1>3. CASE Main \/ CancelRun \/ Tick \/ UNCHANGED vars
  BY <1>3 DEF Main, GatherRaises, Unwound, Synthesize, MainAnswers, MainFails, CancelRun, Tick, vars
<1>4. ASSUME NEW i \in Invs, Host(i) \/ Reader(i) \/ Trouble(i) PROVE ReservedLive'
  <2>1. reservations \subseteq Invs
    BY BudgetFacts DEF TypeOK, Invs
  <2>2. CASE LoadFails(i) \/ Finish(i) \/ Settle(i)
    <3>1. Returns(i)
      BY <2>2, ReturnCases
    <3> QED
      BY <2>1, <3>1 DEF Returns, Return, TypeOK
  <2>3. CASE Cancelled(i)
    BY <2>1, <2>3 DEF Cancelled, TypeOK
  <2>4. ASSUME NEW n \in Nodes, QueryNode(i, n) PROVE ReservedLive'
    BY <2>1, <2>4, BudgetFacts DEF QueryNode, Enter, TypeOK, Invs
  <2>5. ASSUME NEW n \in Nodes, RefuseChild(i, n) PROVE ReservedLive'
    BY <2>1, <2>5, BudgetFacts DEF RefuseChild, Goto, TypeOK, Invs
  <2>6. CASE \/ Load(i) \/ Generate(i) \/ GenerateRefused(i) \/ ContextOverflow(i) \/ Execute(i)
             \/ Late(i) \/ Doom(i) \/ Cancel(i) \/ Answered(i) \/ Subquery(i)
             \/ SubqueryEnds(i) \/ EndPython(i) \/ Submit(i) \/ SubmitRejected(i)
             \/ Extracted(i) \/ ReplStops(i) \/ Bug(i)
    <3>1. reservations' \subseteq reservations
      BY <2>6 DEF Load, Generate, GenerateRefused, ContextOverflow, Execute, Late, Doom, Cancel,
         Answered, Subquery, SubqueryEnds, EndPython, Submit, SubmitRejected, Extracted,
         ReplStops, Bug
    <3>2. \E place \in Places \ Ended : pc' = [pc EXCEPT ![i] = place]
      BY <2>6 DEF Load, Generate, GenerateRefused, ContextOverflow, Execute, Late, Doom, Cancel,
         Answered, Subquery, SubqueryEnds, EndPython, Submit, SubmitRejected, Extracted,
         ReplStops, Bug, Advance, Goto, Places, Stops
    <3> QED
      BY <2>1, <3>1, <3>2 DEF TypeOK
  <2>7. CASE Read(i) \/ Browse(i) \/ CallbackFails(i)
    BY <2>7 DEF Read, Browse, CallbackFails
  <2> QED
    BY <1>4, <2>2, <2>3, <2>4, <2>5, <2>6, <2>7 DEF Host, Reader, Trouble
<1> QED
  BY <1>1, <1>2, <1>3, <1>4 DEF Next, Seeding

LEMMA BudgetInitially == Init => BudgetInv
<1> SUFFICES ASSUME Init PROVE BudgetInv
  OBVIOUS
<1>1. TypeOK
  BY TypeInitially
<1>2. ReservedLive
  BY DEF Init, ReservedLive
<1>3. MainKept
  BY BudgetFacts DEF Init, MainKept
<1>4. ReservationsCovered
  <2>1. Reserved = 2 * Cardinality(Seeds)
    <3>1. Cardinality(reservations) = 0
      BY FS_EmptySet DEF Init
    <3>2. Cardinality(Seeds) \in Nat
      BY SeedsAssumption, FS_CardinalityType
    <3> QED
      BY <3>1, <3>2 DEF Init, Reserved
  <2>2. Cardinality(Seeds) \in Nat
    BY SeedsAssumption, FS_CardinalityType
  <2> QED
    BY <2>1, <2>2, BudgetFacts DEF Init, ReservationsCovered, Enough, Remaining
<1> QED
  BY <1>1, <1>2, <1>3, <1>4 DEF BudgetInv

LEMMA BudgetStep == BudgetInv /\ [Next]_vars => BudgetInv'
<1> SUFFICES ASSUME BudgetInv, [Next]_vars PROVE BudgetInv'
  OBVIOUS
<1>1. TypeOK'
  BY TypeStep DEF BudgetInv
<1>2. ReservedLive'
  BY ReservedLiveStep DEF BudgetInv
<1>3. ReservationsCovered' /\ MainKept'
  <2>1. CASE Seeding
    BY <1>1, <2>1, SeedBudget, QuietRun DEF Seeding
  <2>2. CASE Main \/ CancelRun \/ Tick \/ UNCHANGED vars
    BY <1>1, <2>2, SynthesizeBudget, QuietRun DEF Main
  <2>3. ASSUME NEW i \in Invs, Host(i) \/ Reader(i) \/ Trouble(i)
        PROVE  ReservationsCovered' /\ MainKept'
    BY <1>1, <2>3, GenerateBudget, SubqueryBudget, ChildBudget, QuietBranch
  <2> QED
    BY <2>1, <2>2, <2>3 DEF Next
<1> QED
  BY <1>1, <1>2, <1>3 DEF BudgetInv

(* If the budget covers two calls for each seed, every active branch that  *)
(* was not told to finish and every queued seed can still make its         *)
(* finishing call, for any number of seeds, children and subqueries.       *)
THEOREM FinishingCallsCovered == Spec => []ReservationsCovered
<1>1. BudgetInv => ReservationsCovered
  BY DEF BudgetInv
<1> QED
  BY <1>1, BudgetInitially, BudgetStep, PTL DEF Spec

(* No run is refused the call or the operation of its final synthesis.     *)
THEOREM SynthesisAdmitted == Spec => []MainAdmitted
<1>1. BudgetInv => MainAdmitted
  BY DEF BudgetInv, MainKept, MainAdmitted
<1> QED
  BY <1>1, BudgetInitially, BudgetStep, PTL DEF Spec

(* What the runtime promises to keep back, finishing calls and the final   *)
(* synthesis, is there (nodes.py, model, callback and run).                *)
THEOREM PromisesKept == Spec => []CallsReserved
<1>1. ReservationsCovered /\ MainAdmitted => CallsReserved
  BY DEF CallsReserved
<1> QED
  BY <1>1, FinishingCallsCovered, SynthesisAdmitted, PTL
-----------------------------------------------------------------------------
(* The tree of branches.                                                   *)

(* Places at which a branch may have a child that is not over.             *)
Holding == {"child", "cancelling"} \cup Stops

(* Invocations are numbered as they open, parents before their children; a *)
(* branch that has not been opened, or has not loaded, has no child.       *)
Numbered ==
    \A i \in Invs :
      /\ pc[i] = "unused" <=> i > invocations
      /\ parent[i] < i
      /\ i > invocations => parent[i] = 0
      /\ \A c \in Invs : parent[c] = i => pc[i] \notin {"unused", "loading"}

(* A branch waits for the one child that is not over, or is stopping.      *)
Held ==
    /\ \A c \in Invs : Live(c) /\ parent[c] # 0 => pc[parent[c]] \in Holding
    /\ \A c, d \in Invs :
         Live(c) /\ Live(d) /\ parent[c] = parent[d] /\ parent[c] # 0 => c = d

(* Outside of the collection nothing runs.                                 *)
Quiescent == run \notin {"collecting", "unwinding"} => \A i \in Invs : ~Live(i)

TreeInv == TypeOK /\ ReservedLive /\ Numbered /\ Held /\ Quiescent

(* What a step does to the tree: nothing, but the run may have to unwind   *)
(* or have nothing left to run;                                            *)
Idles ==
    /\ UNCHANGED <<pc, parent, invocations>>
    /\ \/ run' = run \/ run' = "unwinding" \/ run \notin {"collecting", "unwinding"}
       \/ \A i \in Invs : ~Live(i)

(* a branch moves on, and does not forget that it is stopping;             *)
Moves(i) ==
    /\ Live(i)
    /\ \E place \in Places \ (Ended \cup {"child", "loading"}) :
         /\ pc[i] \in Holding => place \in Holding
         /\ pc' = [pc EXCEPT ![i] = place]
    /\ UNCHANGED <<parent, invocations, run>>

(* a branch ends, after its children, and a parent that waits goes on;     *)
Ends(i) ==
    /\ Live(i) /\ (~LiveChild(i) \/ pc[i] \notin Holding)
    /\ \E end \in {"returned", "cancelled"} :
         pc' = [j \in Invs |-> IF j = i THEN end
                               ELSE IF j = parent[i] /\ pc[j] = "child" THEN "python"
                               ELSE pc[j]]
    /\ UNCHANGED <<parent, invocations, run>>

(* the next branch opens, for nobody or for a branch whose code runs, and  *)
(* is at once over or loads.                                               *)
Opens(p) ==
    LET i == invocations + 1
    IN  /\ i \in Invs /\ invocations' = i
        /\ parent' = [parent EXCEPT ![i] = p]
        /\ IF p = 0 THEN run = "collecting" ELSE pc[p] = "python"
        /\ \/ pc' = [pc EXCEPT ![i] = "returned"]
           \/ pc' = [j \in Invs |-> IF j = i THEN "loading"
                                    ELSE IF j = p THEN "child" ELSE pc[j]]
        /\ UNCHANGED run

LEMMA MoveCases ==
    ASSUME TypeOK, NEW i \in Invs,
           \/ Load(i) \/ Generate(i) \/ GenerateRefused(i) \/ ContextOverflow(i) \/ Execute(i)
           \/ Late(i) \/ Doom(i) \/ Cancel(i) \/ Answered(i) \/ Read(i) \/ Browse(i)
           \/ CallbackFails(i) \/ Subquery(i) \/ SubqueryEnds(i) \/ EndPython(i) \/ Submit(i)
           \/ SubmitRejected(i) \/ Extracted(i) \/ ReplStops(i) \/ Bug(i)
    PROVE  Moves(i)
<1> USE DEF Moves, Live, Ended, Places, Stops, Holding, Goto, shape
<1>1. CASE Load(i) \/ Generate(i) \/ GenerateRefused(i) \/ ContextOverflow(i) \/ Execute(i)
  BY <1>1 DEF Load, Generate, Advance, GenerateRefused, ContextOverflow, Execute
<1>2. CASE Late(i) \/ Doom(i) \/ Cancel(i)
  BY <1>2 DEF Late, Doom, Cancel, TypeOK
<1>3. CASE Read(i) \/ Browse(i) \/ CallbackFails(i)
  <2>1. pc' = pc /\ pc[i] = "python" /\ UNCHANGED <<parent, invocations, run>>
    BY <1>3 DEF Read, Browse, CallbackFails
  <2>2. pc' = [pc EXCEPT ![i] = "python"]
    BY <2>1 DEF TypeOK
  <2> QED
    BY <2>1, <2>2
<1>4. CASE Answered(i) \/ Subquery(i) \/ SubqueryEnds(i) \/ EndPython(i)
  BY <1>4 DEF Answered, Subquery, SubqueryEnds, EndPython
<1>5. CASE Submit(i) \/ SubmitRejected(i) \/ Extracted(i)
  BY <1>5 DEF Submit, SubmitRejected, Extracted
<1>6. CASE ReplStops(i) \/ Bug(i)
  BY <1>6 DEF ReplStops, Bug
<1> QED
  BY <1>1, <1>2, <1>3, <1>4, <1>5, <1>6

LEMMA EndCases ==
    ASSUME TypeOK, NEW i \in Invs,
           LoadFails(i) \/ Finish(i) \/ Settle(i) \/ Cancelled(i)
    PROVE  Ends(i)
<1>1. CASE LoadFails(i) \/ Finish(i) \/ Settle(i)
  <2>1. Returns(i)
    BY <1>1, ReturnCases
  <2> QED
    BY <2>1 DEF Returns, Return, Ends, Live, Ended, Holding, Stops, shape
<1>2. CASE Cancelled(i)
  <2>1. \A j \in Invs : j = parent[i] => parent[i] # 0
    BY BudgetFacts DEF Invs
  <2> QED
    BY <1>2, <2>1 DEF Cancelled, Ends, Live, Ended, shape
<1> QED
  BY <1>1, <1>2

LEMMA OpenCases ==
    ASSUME TypeOK, Numbered, NEW p \in 0 .. MaxInvocations,
           \/ p = 0 /\ \E n \in Seeds : StartSeed(n) \/ RefuseSeed(n)
           \/ p \in Invs /\ \E n \in Nodes : QueryNode(p, n) \/ RefuseChild(p, n)
    PROVE  Opens(p)
<1>1. invocations < MaxInvocations /\ invocations' = invocations + 1
  BY DEF StartSeed, RefuseSeed, QueryNode, RefuseChild, Enter
<1>2. invocations + 1 \in Invs
  BY <1>1, BudgetFacts DEF TypeOK, Invs
<1>3. CASE p = 0 /\ \E n \in Seeds : StartSeed(n)
  <2>1. pc' = [pc EXCEPT ![invocations + 1] = "loading"] /\ 0 \notin Invs
    BY <1>3, BudgetFacts DEF StartSeed, Goto, Invs
  <2>2. pc' = [j \in Invs |-> IF j = invocations + 1 THEN "loading"
                             ELSE IF j = p THEN "child" ELSE pc[j]]
    BY <1>3, <2>1 DEF TypeOK
  <2> QED
    BY <1>1, <1>2, <1>3, <2>2 DEF StartSeed, Enter, Opens
<1>4. CASE p = 0 /\ \E n \in Seeds : RefuseSeed(n)
  <2>1. parent[invocations + 1] = 0
    BY <1>2, BudgetFacts DEF Numbered, TypeOK
  <2>2. parent' = [parent EXCEPT ![invocations + 1] = p]
    BY <1>4, <2>1 DEF RefuseSeed, TypeOK
  <2> QED
    BY <1>1, <1>2, <1>4, <2>2 DEF RefuseSeed, Goto, Opens
<1>5. CASE p \in Invs /\ \E n \in Nodes : QueryNode(p, n)
  <2>1. /\ pc[p] = "python" /\ p # 0 /\ UNCHANGED run
        /\ parent' = [parent EXCEPT ![invocations + 1] = p]
        /\ pc' = [pc EXCEPT ![p] = "child", ![invocations + 1] = "loading"]
    BY <1>5, BudgetFacts DEF QueryNode, Enter, Invs
  <2>2. pc' = [j \in Invs |-> IF j = invocations + 1 THEN "loading"
                             ELSE IF j = p THEN "child" ELSE pc[j]]
    BY <2>1 DEF TypeOK
  <2> QED
    BY <1>1, <1>2, <2>1, <2>2 DEF Opens
<1>6. CASE p \in Invs /\ \E n \in Nodes : RefuseChild(p, n)
  BY <1>2, <1>6, BudgetFacts DEF RefuseChild, Goto, Opens, Invs
<1> QED
  BY <1>3, <1>4, <1>5, <1>6

LEMMA IdleCases ==
    ASSUME TypeOK, Main \/ CancelRun \/ Tick \/ UNCHANGED vars
    PROVE  Idles
BY DEF Main, GatherRaises, Unwound, Synthesize, Collected, MainAnswers, MainFails, CancelRun,
   Tick, vars, shape, Idles

LEMMA TreeCases ==
    ASSUME TypeOK, Numbered, [Next]_vars
    PROVE  \/ Idles
           \/ \E i \in Invs : Moves(i) \/ Ends(i)
           \/ \E p \in 0 .. MaxInvocations : Opens(p)
<1>1. CASE Seeding
  BY <1>1, OpenCases, BudgetFacts DEF Seeding
<1>2. ASSUME NEW i \in Invs, Host(i) \/ Reader(i) \/ Trouble(i)
      PROVE  Moves(i) \/ Ends(i) \/ Opens(i)
  <2>1. i \in 0 .. MaxInvocations
    BY BudgetFacts DEF Invs
  <2> QED
    BY <1>2, <2>1, MoveCases, EndCases, OpenCases DEF Host, Reader, Trouble
<1>3. Invs \subseteq 0 .. MaxInvocations
  BY BudgetFacts DEF Invs
<1> QED
  BY <1>1, <1>2, <1>3, IdleCases DEF Next

LEMMA MoveTree ==
    ASSUME TreeInv, NEW i \in Invs, Moves(i)
    PROVE  Numbered' /\ Held' /\ Quiescent'
<1> PICK place \in Places \ (Ended \cup {"child", "loading"}) :
       (pc[i] \in Holding => place \in Holding) /\ pc' = [pc EXCEPT ![i] = place]
  BY DEF Moves
<1>1. \A j \in Invs : pc'[j] = IF j = i THEN place ELSE pc[j]
  BY DEF TreeInv, TypeOK
<1>2. \A j \in Invs : Live(j)' = Live(j)
  BY <1>1 DEF Moves, Live
<1>3. parent \in [Invs -> 0 .. MaxInvocations] /\ UNCHANGED <<parent, invocations, run>>
  BY DEF Moves, TreeInv, TypeOK
<1>4. Numbered'
  BY <1>1, <1>3 DEF Moves, TreeInv, Numbered, Live, Ended
<1>5. Held'
  <2>1. \A c \in Invs : Live(c)' /\ parent'[c] # 0 => pc'[parent'[c]] \in Holding
    <3> SUFFICES ASSUME NEW c \in Invs, Live(c), parent[c] # 0 PROVE pc'[parent[c]] \in Holding
      BY <1>2, <1>3
    <3>1. parent[c] \in Invs /\ pc[parent[c]] \in Holding
      BY <1>3, BudgetFacts DEF TreeInv, Held, Invs
    <3> QED
      BY <1>1, <3>1
  <2> QED
    BY <1>2, <1>3, <2>1 DEF TreeInv, Held
<1>6. Quiescent'
  BY <1>3 DEF Moves, TreeInv, Quiescent
<1> QED
  BY <1>4, <1>5, <1>6

LEMMA EndTree ==
    ASSUME TreeInv, NEW i \in Invs, Ends(i)
    PROVE  Numbered' /\ Held' /\ Quiescent'
<1> PICK end \in {"returned", "cancelled"} :
       pc' = [j \in Invs |-> IF j = i THEN end
                             ELSE IF j = parent[i] /\ pc[j] = "child" THEN "python" ELSE pc[j]]
  BY DEF Ends
<1>1. \A j \in Invs : pc'[j] = IF j = i THEN end
                               ELSE IF j = parent[i] /\ pc[j] = "child" THEN "python" ELSE pc[j]
  OBVIOUS
<1>2. \A j \in Invs : Live(j)' <=> Live(j) /\ j # i
  BY <1>1 DEF Live, Ended
<1>3. parent \in [Invs -> 0 .. MaxInvocations] /\ UNCHANGED <<parent, invocations, run>>
  BY DEF Ends, TreeInv, TypeOK
<1>4. Numbered'
  BY <1>1, <1>3 DEF Ends, TreeInv, Numbered, Live, Ended
<1>5. Held'
  <2>1. ASSUME NEW c \in Invs, Live(c), c # i, parent[c] # 0
        PROVE  pc'[parent[c]] \in Holding
    <3>1. parent[c] \in Invs /\ pc[parent[c]] \in Holding
      BY <1>3, <2>1, BudgetFacts DEF TreeInv, Held, Invs
    <3>2. parent[c] # i
      BY <2>1, <3>1 DEF Ends, LiveChild
    <3>3. parent[c] # parent[i]
      BY <2>1 DEF TreeInv, Held, Ends
    <3> QED
      BY <1>1, <3>1, <3>2, <3>3
  <2> QED
    BY <1>2, <1>3, <2>1 DEF TreeInv, Held
<1>6. Quiescent'
  BY <1>3 DEF Ends, TreeInv, Quiescent
<1> QED
  BY <1>4, <1>5, <1>6

LEMMA OpenTree ==
    ASSUME TreeInv, NEW p \in 0 .. MaxInvocations, Opens(p)
    PROVE  Numbered' /\ Held' /\ Quiescent'
<1> SUFFICES ASSUME NEW new, new = invocations + 1
             PROVE  Numbered' /\ Held' /\ Quiescent'
  OBVIOUS
<1>1. /\ new \in Invs /\ invocations' = new /\ run' = run
      /\ parent \in [Invs -> 0 .. MaxInvocations] /\ pc \in [Invs -> Places]
      /\ parent' = [parent EXCEPT ![new] = p]
  BY DEF Opens, TreeInv, TypeOK
<1>2. invocations \in Nat /\ Invs \subseteq Nat
  BY BudgetFacts DEF TreeInv, TypeOK, Invs
<1>3. pc[new] = "unused" /\ \A c \in Invs : parent[c] # new
  BY <1>1, <1>2 DEF TreeInv, Numbered
<1>4. p # 0 => p \in Invs /\ p < new /\ pc[p] = "python"
  BY <1>1, <1>2, BudgetFacts DEF Opens, TreeInv, Numbered, Invs
<1>5. /\ pc'[new] \in {"returned", "loading"}
      /\ \A j \in Invs \ {new, p} : pc'[j] = pc[j]
      /\ p # 0 => IF pc'[new] = "loading" THEN pc'[p] = "child" ELSE pc'[p] = "python"
  BY <1>1, <1>4 DEF Opens
<1>6. \A j \in Invs : parent'[j] = IF j = new THEN p ELSE parent[j]
  BY <1>1
<1>7. Numbered'
  <2> SUFFICES ASSUME NEW i \in Invs
               PROVE  /\ pc'[i] = "unused" <=> i > new
                      /\ parent'[i] < i
                      /\ i > new => parent'[i] = 0
                      /\ \A c \in Invs : parent'[c] = i => pc'[i] \notin {"unused", "loading"}
    BY <1>1 DEF Numbered
  <2>1. i \in Nat /\ new = invocations + 1 /\ p \in Nat /\ parent[i] \in Nat /\ p < new
    BY <1>1, <1>2, <1>4, BudgetFacts
  <2>2. pc'[i] = "unused" <=> i > new
    BY <1>2, <1>4, <1>5, <2>1 DEF TreeInv, Numbered
  <2>3. parent'[i] < i /\ (i > new => parent'[i] = 0)
    BY <1>2, <1>6, <2>1 DEF TreeInv, Numbered
  <2>4. ASSUME NEW c \in Invs, parent'[c] = i PROVE pc'[i] \notin {"unused", "loading"}
    <3>1. i # new
      BY <1>3, <1>4, <1>6, <2>1, <2>4
    <3>2. CASE i = p
      BY <1>4, <1>5, <2>1, <3>1, <3>2, BudgetFacts DEF Invs
    <3>3. CASE i # p
      BY <1>5, <1>6, <2>4, <3>1, <3>3 DEF TreeInv, Numbered
    <3> QED
      BY <3>2, <3>3
  <2> QED
    BY <2>2, <2>3, <2>4
<1>8. \A j \in Invs \ {new} : Live(j)' = Live(j)
  <2> SUFFICES ASSUME NEW j \in Invs \ {new} PROVE Live(j)' = Live(j)
    OBVIOUS
  <2>1. CASE j = p
    <3>1. p # 0
      BY <2>1, BudgetFacts DEF Invs
    <3> QED
      BY <1>4, <1>5, <2>1, <3>1 DEF Live, Ended
  <2>2. CASE j # p
    BY <1>5, <2>2 DEF Live
  <2> QED
    BY <2>1, <2>2
<1>9. Held'
  <2>1. p # 0 => \A c \in Invs : Live(c) => parent[c] # p
    BY <1>4 DEF TreeInv, Held, Holding, Stops
  <2>2. ASSUME NEW c \in Invs, Live(c)', parent'[c] # 0 PROVE pc'[parent'[c]] \in Holding
    <3>1. CASE c = new
      <4>1. parent'[c] = p /\ p # 0
        BY <1>6, <2>2, <3>1
      <4>2. pc'[new] = "loading"
        BY <1>5, <2>2, <3>1 DEF Live, Ended
      <4> QED
        BY <1>5, <4>1, <4>2 DEF Holding
    <3>2. CASE c # new
      <4>1. Live(c) /\ parent'[c] = parent[c]
        BY <1>6, <1>8, <2>2, <3>2
      <4>2. parent[c] \in Invs /\ parent[c] \notin {new, p}
        BY <1>1, <1>3, <2>1, <2>2, <4>1, BudgetFacts DEF Invs
      <4>3. pc[parent[c]] \in Holding
        BY <2>2, <4>1 DEF TreeInv, Held
      <4> QED
        BY <1>5, <4>1, <4>2, <4>3
    <3> QED
      BY <3>1, <3>2
  <2>3. ASSUME NEW c \in Invs, NEW d \in Invs, Live(c)', Live(d)', parent'[c] = parent'[d],
               parent'[c] # 0
        PROVE  c = d
    <3>1. c # new /\ d # new => c = d
      BY <1>6, <1>8, <2>3 DEF TreeInv, Held
    <3>2. ~(c = new /\ d # new) /\ ~(c # new /\ d = new)
      BY <1>6, <1>8, <2>1, <2>3
    <3> QED
      BY <3>1, <3>2
  <2> QED
    BY <2>2, <2>3 DEF Held
<1>10. Quiescent'
  BY <1>1, <1>4 DEF Opens, TreeInv, Quiescent, Live, Ended
<1> QED
  BY <1>7, <1>9, <1>10

LEMMA IdleTree ==
    ASSUME TreeInv, Idles
    PROVE  Numbered' /\ Held' /\ Quiescent'
<1>1. Numbered' /\ Held'
  BY DEF TreeInv, Idles, Numbered, Held, Live
<1>2. Quiescent'
  BY DEF TreeInv, Idles, Quiescent, Live
<1> QED
  BY <1>1, <1>2

LEMMA TreeInitially == Init => TreeInv
<1> SUFFICES ASSUME Init PROVE TreeInv
  OBVIOUS
<1>1. TypeOK /\ ReservedLive
  BY BudgetInitially DEF BudgetInv
<1>2. \A i \in Invs : pc[i] = "unused" /\ parent[i] = 0 /\ i > 0
  BY BudgetFacts DEF Init, Invs
<1>3. Numbered
  BY <1>2, BudgetFacts DEF Numbered, Init, Invs
<1>4. Held /\ Quiescent
  BY <1>2 DEF Held, Quiescent, Live, Ended
<1> QED
  BY <1>1, <1>3, <1>4 DEF TreeInv

LEMMA TreeStep == TreeInv /\ [Next]_vars => TreeInv'
<1> SUFFICES ASSUME TreeInv, [Next]_vars PROVE TreeInv'
  OBVIOUS
<1>1. TypeOK' /\ ReservedLive'
  BY TypeStep, ReservedLiveStep DEF TreeInv
<1>2. Numbered' /\ Held' /\ Quiescent'
  BY TreeCases, MoveTree, EndTree, OpenTree, IdleTree DEF TreeInv
<1> QED
  BY <1>1, <1>2 DEF TreeInv

(* A branch is over only when its children are, a run only when all its    *)
(* branches are, and nothing stays reserved for a branch that is over, for *)
(* any tree and whatever times out, fails or is cancelled (nodes.py, run   *)
(* and branch).                                                            *)
THEOREM BranchesOwned == Spec => []OwnedUntilClosed
<1>1. TreeInv => OwnedUntilClosed
  <2> SUFFICES ASSUME TreeInv PROVE OwnedUntilClosed
    OBVIOUS
  <2>1. ASSUME NEW i \in Invs, NEW c \in Invs, Live(c), parent[c] = i PROVE Live(i)
    <3>1. parent[c] # 0
      BY <2>1, BudgetFacts DEF Invs
    <3> QED
      BY <2>1, <3>1 DEF TreeInv, Held, Holding, Stops, Live, Ended
  <2> QED
    BY <2>1 DEF OwnedUntilClosed, TreeInv, Quiescent, ReservedLive
<1> QED
  BY <1>1, TreeInitially, TreeStep, PTL DEF Spec
-----------------------------------------------------------------------------
(* What branches cite.                                                     *)

(* What branch i may cite: what it read, or what a delivered child cites.  *)
Citable(i) == {e \in Invs : e = i \/ \E c \in delivered[i] : e \in citations[c]}

CiteInv ==
    \A i \in Invs :
      /\ visible[i] \subseteq Citable(i)
      /\ \A c \in delivered[i] : parent[c] = i /\ pc[c] = "returned"
      /\ pc[i] \in {"unused", "submitted", "returned"} => citations[i] \subseteq Citable(i)

(* A branch that returns cites what it may cite, and it names what it knows *)
(* to be missing, or that it stopped.                                      *)
Reports(i) ==
    /\ Live(i) /\ pc[i] \in {"loading", "submitted"} \cup Stops
    /\ \E cites \in SUBSET Citable(i), gs \in SUBSET Gaps :
         /\ gaps[i] \subseteq gs \/ <<i, "stop">> \in gs
         /\ pc[i] \in Stops => gs # {}
         /\ Return(i, cites, gs)

LEMMA FailReports ==
    ASSUME TreeInv, NEW i \in Invs, NEW cause, Fail(i, cause),
           pc[i] \in {"loading", "submitted"} \cup Stops
    PROVE  Reports(i)
<1>1. Live(i)
  BY DEF Live, Ended, Stops
<1>2. /\ gaps[i] \cup {<<i, "stop">>} \in SUBSET Gaps /\ {<<i, "stop">>} \in SUBSET Gaps
      /\ gaps[i] \cup {<<i, "stop">>} # {} /\ {<<i, "stop">>} # {}
  BY GapsFacts DEF TreeInv, TypeOK
<1>3. UNION {citations[c] : c \in delivered[i]} \in SUBSET Citable(i) /\ {} \in SUBSET Citable(i)
  BY DEF TreeInv, TypeOK, Citable
<1>4. CASE Return(i, {}, gaps[i] \cup {<<i, "stop">>})
  BY <1>1, <1>2, <1>3, <1>4 DEF Reports
<1>5. CASE Return(i, UNION {citations[c] : c \in delivered[i]}, gaps[i] \cup {<<i, "stop">>})
  BY <1>1, <1>2, <1>3, <1>5 DEF Reports
<1>6. CASE Return(i, {}, {<<i, "stop">>})
  BY <1>1, <1>2, <1>3, <1>6 DEF Reports
<1> QED
  BY <1>4, <1>5, <1>6 DEF Fail

LEMMA ReportCases ==
    ASSUME TreeInv, CiteInv, NEW i \in Invs, LoadFails(i) \/ Finish(i) \/ Settle(i)
    PROVE  Reports(i)
<1>1. CASE LoadFails(i)
  BY <1>1, FailReports DEF LoadFails
<1>2. CASE Finish(i)
  <2>1. CASE Return(i, citations[i], gaps[i])
    <3>1. pc[i] = "submitted" /\ Live(i) /\ pc[i] \notin Stops
      BY <1>2 DEF Finish, Live, Ended, Stops
    <3>2. citations[i] \in SUBSET Citable(i) /\ gaps[i] \in SUBSET Gaps
      BY <3>1 DEF CiteInv, TreeInv, TypeOK
    <3> QED
      BY <2>1, <3>1, <3>2 DEF Reports
  <2>2. CASE Fail(i, "budget")
    BY <1>2, <2>2, FailReports DEF Finish
  <2> QED
    BY <1>2, <2>1, <2>2 DEF Finish
<1>3. CASE Settle(i)
  BY <1>3, FailReports DEF Settle
<1> QED
  BY <1>1, <1>2, <1>3

(* A parent is handed all gaps of its child and, with its name, what it    *)
(* cites.                                                                  *)
LEMMA Handed ==
    ASSUME TypeOK, NEW p \in Invs, NEW c \in Invs, NEW cites, NEW gs,
           HandOver(p, c, cites, gs)
    PROVE  /\ \A j \in Invs \ {p} :
                visible'[j] = visible[j] /\ delivered'[j] = delivered[j] /\ gaps'[j] = gaps[j]
           /\ gaps[p] \cup gs \subseteq gaps'[p]
           /\ \/ visible'[p] = visible[p] /\ delivered'[p] = delivered[p]
              \/ visible'[p] = visible[p] \cup cites /\ delivered'[p] = delivered[p] \cup {c}
<1> PICK fits \in BOOLEAN : HandOver(p, c, cites, gs)!(fits)
  BY DEF HandOver
<1> QED
  BY DEF TypeOK

(* No branch reports to itself, nor to one that has ended.                 *)
LEMMA ReporterHeld ==
    ASSUME TreeInv, NEW i \in Invs, Live(i), parent[i] # 0
    PROVE  parent[i] \in Invs \ {i} /\ pc[parent[i]] \in Holding
BY BudgetFacts DEF TreeInv, TypeOK, Numbered, Held, Invs

(* Results stay where they are, and no new one comes up.                   *)
ResultsStay ==
    \A j \in Invs :
      /\ pc[j] = "returned" => pc'[j] = "returned" /\ parent'[j] = parent[j]
      /\ pc'[j] \in {"unused", "submitted", "returned"} =>
           pc[j] \in {"unused", "submitted", "returned"}

LEMMA CiteQuiet ==
    ASSUME TypeOK, CiteInv, UNCHANGED <<visible, delivered, citations>>, ResultsStay
    PROVE  CiteInv'
<1> SUFFICES ASSUME NEW i \in Invs
             PROVE  /\ visible'[i] \subseteq Citable(i)'
                    /\ \A c \in delivered'[i] : parent'[c] = i /\ pc'[c] = "returned"
                    /\ pc'[i] \in {"unused", "submitted", "returned"} =>
                         citations'[i] \subseteq Citable(i)'
  BY DEF CiteInv
<1>1. Citable(i)' = Citable(i)
  BY DEF Citable
<1>2. delivered[i] \subseteq Invs
  BY DEF TypeOK
<1> QED
  BY <1>1, <1>2 DEF CiteInv, ResultsStay

LEMMA OpenQuiet ==
    ASSUME TreeInv, NEW p \in 0 .. MaxInvocations, Opens(p)
    PROVE  ResultsStay
<1>1. pc[invocations + 1] = "unused" /\ invocations + 1 \in Invs
  BY BudgetFacts DEF Opens, TreeInv, TypeOK, Numbered, Invs
<1>2. \A j \in Invs \ {invocations + 1} :
        parent'[j] = parent[j] /\ (pc'[j] = pc[j] \/ (pc[j] = "python" /\ pc'[j] = "child"))
  <2>1. parent' = [parent EXCEPT ![invocations + 1] = p] /\ parent \in [Invs -> 0 .. MaxInvocations]
    BY DEF Opens, TreeInv, TypeOK
  <2>2. p \in Invs => pc[p] = "python"
    BY BudgetFacts DEF Opens, Invs
  <2>3. CASE pc' = [pc EXCEPT ![invocations + 1] = "returned"]
    BY <1>1, <2>1, <2>3 DEF TreeInv, TypeOK
  <2>4. CASE pc' = [j \in Invs |-> IF j = invocations + 1 THEN "loading"
                                  ELSE IF j = p THEN "child" ELSE pc[j]]
    BY <1>1, <2>1, <2>2, <2>4
  <2> QED
    BY <2>3, <2>4 DEF Opens
<1> QED
  BY <1>1, <1>2 DEF ResultsStay

LEMMA CiteReport ==
    ASSUME TreeInv, CiteInv, NEW i \in Invs, Reports(i)
    PROVE  CiteInv'
<1> PICK cites \in SUBSET Citable(i), gs \in SUBSET Gaps : Return(i, cites, gs)
  BY DEF Reports
<1>1. /\ \A j \in Invs : citations'[j] = IF j = i THEN cites ELSE citations[j]
      /\ \A j \in Invs : delivered[j] \subseteq Invs
      /\ parent' = parent
  BY DEF Return, TreeInv, TypeOK, shape
<1>2. /\ pc'[i] = "returned"
      /\ \A j \in Invs \ {i} : pc'[j] = pc[j] \/ (pc'[j] = "python" /\ pc[j] = "child")
  <2>1. pc' = [j \in Invs |-> IF j = i THEN "returned"
                             ELSE IF j = parent[i] /\ pc[j] = "child" THEN "python" ELSE pc[j]]
    BY DEF Return
  <2> QED
    BY <2>1
<1>3. \A j \in Invs : i \notin delivered[j]
  BY DEF CiteInv, Reports, Live, Ended
<1>4. ASSUME NEW j \in Invs
      PROVE  /\ delivered[j] \subseteq delivered'[j]
             /\ delivered'[j] # delivered[j] => parent[i] = j /\ delivered'[j] = delivered[j] \cup {i}
             /\ \/ visible'[j] = visible[j]
                \/ visible'[j] = visible[j] \cup cites /\ i \in delivered'[j]
  <2>1. CASE parent[i] = 0
    BY <2>1 DEF Return
  <2>2. CASE parent[i] # 0
    <3>1. parent[i] \in Invs /\ HandOver(parent[i], i, cites, gs)
      BY <2>2, ReporterHeld DEF Return, Reports
    <3> QED
      BY <3>1, Handed DEF TreeInv
  <2> QED
    BY <2>1, <2>2
<1>5. ASSUME NEW j \in Invs PROVE Citable(j) \subseteq Citable(j)'
  BY <1>1, <1>3, <1>4 DEF Citable
<1> SUFFICES ASSUME NEW j \in Invs
             PROVE  /\ visible'[j] \subseteq Citable(j)'
                    /\ \A c \in delivered'[j] : parent'[c] = j /\ pc'[c] = "returned"
                    /\ pc'[j] \in {"unused", "submitted", "returned"} =>
                         citations'[j] \subseteq Citable(j)'
  BY DEF CiteInv
<1>6. visible'[j] \subseteq Citable(j)'
  <2>1. CASE visible'[j] = visible[j]
    BY <1>5, <2>1 DEF CiteInv
  <2>2. CASE visible'[j] = visible[j] \cup cites /\ i \in delivered'[j]
    <3>1. cites \subseteq Citable(j)'
      <4>1. cites \subseteq Invs /\ citations'[i] = cites
        BY <1>1 DEF Citable
      <4> QED
        BY <2>2, <4>1 DEF Citable
    <3> QED
      BY <1>5, <2>2, <3>1 DEF CiteInv
  <2> QED
    BY <1>4, <2>1, <2>2
<1>7. ASSUME NEW c \in delivered'[j] PROVE parent'[c] = j /\ pc'[c] = "returned"
  <2>1. CASE c \in delivered[j]
    BY <1>1, <1>2, <1>3, <2>1 DEF CiteInv
  <2>2. CASE c \notin delivered[j]
    BY <1>1, <1>2, <1>4, <2>2
  <2> QED
    BY <2>1, <2>2
<1>8. ASSUME pc'[j] \in {"unused", "submitted", "returned"}
      PROVE  citations'[j] \subseteq Citable(j)'
  <2>1. CASE j = i
    BY <1>1, <1>5, <2>1
  <2>2. CASE j # i
    BY <1>1, <1>2, <1>5, <1>8, <2>2 DEF CiteInv
  <2> QED
    BY <2>1, <2>2
<1> QED
  BY <1>6, <1>7, <1>8

LEMMA CiteSubmit ==
    ASSUME TreeInv, CiteInv, NEW i \in Invs, Submit(i) \/ Extracted(i)
    PROVE  CiteInv'
<1>1. pc[i] \in {"python", "extracting"} /\ UNCHANGED <<visible, delivered, parent>>
  BY DEF Submit, Extracted, shape
<1>2. \A j \in Invs \ {i} : pc'[j] = pc[j] /\ citations'[j] = citations[j]
  BY DEF Submit, Extracted, Goto, TreeInv, TypeOK
<1>3. pc'[i] \in {"submitted", "failed"} /\ (pc'[i] = "submitted" => citations'[i] \subseteq visible[i])
  BY DEF Submit, Extracted, Goto, TreeInv, TypeOK
<1>4. \A j \in Invs : i \notin delivered[j] /\ delivered[j] \subseteq Invs
  BY <1>1 DEF CiteInv, TreeInv, TypeOK
<1>5. \A j \in Invs : Citable(j)' = Citable(j)
  BY <1>1, <1>2, <1>4 DEF Citable
<1> SUFFICES ASSUME NEW j \in Invs
             PROVE  /\ visible'[j] \subseteq Citable(j)'
                    /\ \A c \in delivered'[j] : parent'[c] = j /\ pc'[c] = "returned"
                    /\ pc'[j] \in {"unused", "submitted", "returned"} =>
                         citations'[j] \subseteq Citable(j)'
  BY DEF CiteInv
<1>6. visible[j] \subseteq Citable(j)
  BY DEF CiteInv
<1> QED
  BY <1>1, <1>2, <1>3, <1>4, <1>5, <1>6 DEF CiteInv

LEMMA CiteRead ==
    ASSUME TreeInv, CiteInv, NEW i \in Invs, Read(i)
    PROVE  CiteInv'
<1>1. UNCHANGED <<pc, delivered, citations, parent>>
  BY DEF Read, result, shape
<1>2. \A j \in Invs : visible'[j] = IF j = i THEN visible[i] \cup {i} ELSE visible[j]
  BY DEF Read, TreeInv, TypeOK
<1>3. \A j \in Invs : Citable(j)' = Citable(j)
  BY <1>1 DEF Citable
<1>4. i \in Citable(i)
  BY DEF Citable
<1> QED
  BY <1>1, <1>2, <1>3, <1>4 DEF CiteInv

LEMMA CiteStep ==
    ASSUME TreeInv, CiteInv, [Next]_vars
    PROVE  CiteInv'
<1>1. CASE Seeding
  <2>1. PICK n \in Seeds : StartSeed(n) \/ RefuseSeed(n)
    BY <1>1 DEF Seeding
  <2>2. UNCHANGED <<visible, delivered, citations>>
    BY <2>1 DEF StartSeed, RefuseSeed, local, result
  <2>3. Opens(0)
    BY <2>1, OpenCases, BudgetFacts DEF TreeInv
  <2> QED
    BY <2>2, <2>3, CiteQuiet, OpenQuiet, BudgetFacts DEF TreeInv
<1>2. ASSUME NEW i \in Invs, Host(i) \/ Reader(i) \/ Trouble(i) PROVE CiteInv'
  <2>1. CASE LoadFails(i) \/ Finish(i) \/ Settle(i)
    BY <2>1, ReportCases, CiteReport
  <2>2. CASE \E n \in Nodes : QueryNode(i, n) \/ RefuseChild(i, n)
    <3>1. i \in 0 .. MaxInvocations
      BY BudgetFacts DEF Invs
    <3>2. Opens(i)
      BY <2>2, <3>1, OpenCases DEF TreeInv
    <3>3. UNCHANGED <<visible, delivered, citations>>
      BY <2>2 DEF QueryNode, RefuseChild, HandOver, local, result
    <3> QED
      BY <3>1, <3>2, <3>3, CiteQuiet, OpenQuiet DEF TreeInv
  <2>3. CASE \/ Load(i) \/ Generate(i) \/ GenerateRefused(i) \/ ContextOverflow(i) \/ Execute(i)
             \/ Late(i) \/ Doom(i) \/ Cancel(i) \/ Answered(i) \/ Subquery(i)
             \/ SubqueryEnds(i) \/ EndPython(i) \/ SubmitRejected(i) \/ ReplStops(i) \/ Bug(i)
    <3>1. UNCHANGED <<visible, delivered, citations, parent>>
      BY <2>3 DEF Load, Generate, GenerateRefused, ContextOverflow, Execute, Late, Doom, Cancel,
         Answered, Subquery, SubqueryEnds, EndPython, SubmitRejected, ReplStops, Bug,
         local, result, shape
    <3>2. /\ pc[i] \notin Ended
          /\ \E place \in Places \ (Ended \cup {"submitted"}) : pc' = [pc EXCEPT ![i] = place]
      BY <2>3 DEF Load, Generate, GenerateRefused, ContextOverflow, Execute, Late, Doom, Cancel,
         Answered, Subquery, SubqueryEnds, EndPython, SubmitRejected, ReplStops, Bug, Advance,
         Goto, Live, Ended, Places, Stops
    <3>3. ResultsStay
      BY <3>1, <3>2 DEF ResultsStay, TreeInv, TypeOK, Ended
    <3> QED
      BY <3>1, <3>3, CiteQuiet DEF TreeInv
  <2>4. CASE Browse(i) \/ CallbackFails(i)
    <3>1. UNCHANGED <<visible, delivered, citations, parent, pc>>
      BY <2>4 DEF Browse, CallbackFails, local, result, shape
    <3>2. ResultsStay
      BY <3>1 DEF ResultsStay
    <3> QED
      BY <3>1, <3>2, CiteQuiet DEF TreeInv
  <2>5. CASE Cancelled(i)
    <3>1. UNCHANGED <<visible, delivered, citations, parent>>
      BY <2>5 DEF Cancelled, local, result, shape
    <3>2. ResultsStay
      BY <2>5, <3>1 DEF Cancelled, ResultsStay
    <3> QED
      BY <3>1, <3>2, CiteQuiet DEF TreeInv
  <2> QED
    BY <1>2, <2>1, <2>2, <2>3, <2>4, <2>5, CiteRead, CiteSubmit DEF Host, Reader, Trouble
<1>3. CASE Main \/ CancelRun \/ Tick \/ UNCHANGED vars
  <2>1. UNCHANGED <<visible, delivered, citations, parent, pc>>
    BY <1>3 DEF Main, GatherRaises, Unwound, Synthesize, MainAnswers, MainFails, CancelRun,
       Tick, vars, local, result, shape
  <2>2. ResultsStay
    BY <2>1 DEF ResultsStay
  <2> QED
    BY <2>1, <2>2, CiteQuiet DEF TreeInv
<1> QED
  BY <1>1, <1>2, <1>3 DEF Next

LEMMA CiteInitially == Init => CiteInv
BY DEF Init, CiteInv, Citable

(* A result cites only what its branch read, or was handed in the findings *)
(* of a child, at any depth and after any refused response or submission   *)
(* (nodes.py, validate, response and branch).                              *)
THEOREM CitationsKnown == Spec => []CitesDelivered
<1>1. CiteInv => CitesDelivered
  BY DEF CiteInv, CitesDelivered, Citable
<1>2. TreeInv /\ CiteInv /\ [Next]_vars => CiteInv'
  BY CiteStep
<1> QED
  BY <1>1, <1>2, CiteInitially, TreeInitially, TreeStep, PTL DEF Spec
-----------------------------------------------------------------------------
(* What branches tell of their gaps.                                       *)

(* A result that names what its branch knows to be missing, or its stop.   *)
Told(i) == gaps[i] \subseteq required[i] \/ <<i, "stop">> \in required[i]

(* Whoever queried a branch that is over has its gaps, or cannot hide that *)
(* it was cut off.                                                         *)
Heard(c) ==
    LET p == parent[c]
    IN  /\ pc[c] = "returned" => required[c] \subseteq gaps[p]
        /\ pc[c] = "cancelled" =>
             \/ fatal
             \/ pc[p] \in Stops \cup {"cancelling", "cancelled"}
             \/ pc[p] = "returned" /\ required[p] # {}

BranchGaps ==
    \A i \in Invs :
      /\ pc[i] = "unused" => gaps[i] = {} /\ required[i] = {}
      /\ pc[i] = "returned" => Told(i)
      /\ parent[i] # 0 => Heard(i)

RunGaps ==
    /\ run \in {"synthesis", "answered"} =>
         ~fatal /\ \A i \in Invs : IsSeed(i) => pc[i] = "returned"
    /\ run = "answered" => final = UNION {required[i] : i \in {j \in Invs : IsSeed(j)}}

(* A branch that goes on may learn of more gaps; while it loads it has no  *)
(* child that could have told it of any.                                   *)
LEMMA GapsMove ==
    ASSUME TreeInv, BranchGaps, NEW i \in Invs, Moves(i),
           UNCHANGED required, fatal => fatal',
           \A j \in Invs \ {i} : gaps'[j] = gaps[j],
           gaps[i] \subseteq gaps'[i] \/ pc[i] = "loading"
    PROVE  BranchGaps'
<1> PICK place \in Places \ (Ended \cup {"child", "loading"}) :
       (pc[i] \in Holding => place \in Holding) /\ pc' = [pc EXCEPT ![i] = place]
  BY DEF Moves
<1>1. /\ \A j \in Invs : pc'[j] = IF j = i THEN place ELSE pc[j]
      /\ parent' = parent /\ parent \in [Invs -> 0 .. MaxInvocations]
      /\ pc[i] \notin Ended /\ place \notin Ended \cup {"child"}
  BY DEF Moves, Live, TreeInv, TypeOK
<1>2. ASSUME NEW c \in Invs, parent[c] # 0 PROVE Heard(c)'
  <2>1. parent[c] \in Invs
    BY <1>1, <1>2, BudgetFacts DEF Invs
  <2>2. Heard(c)
    BY <1>2 DEF BranchGaps
  <2>3. pc'[c] = "returned" => required[c] \subseteq gaps'[parent[c]]
    <3>1. parent[c] = i => pc[i] # "loading"
      BY DEF TreeInv, Numbered
    <3> QED
      BY <1>1, <2>1, <2>2, <3>1 DEF Heard, Ended
  <2>4. ASSUME pc'[c] = "cancelled", ~fatal
        PROVE  \/ pc'[parent[c]] \in Stops \cup {"cancelling", "cancelled"}
               \/ pc'[parent[c]] = "returned" /\ required[parent[c]] # {}
    <3>1. pc[c] = "cancelled"
      BY <1>1, <2>4 DEF Ended
    <3>2. CASE parent[c] = i
      BY <1>1, <2>1, <2>2, <2>4, <3>1, <3>2 DEF Heard, Holding, Ended
    <3>3. CASE parent[c] # i
      BY <1>1, <2>1, <2>2, <2>4, <3>1, <3>3 DEF Heard
    <3> QED
      BY <3>2, <3>3
  <2> QED
    BY <1>1, <2>3, <2>4 DEF Heard
<1> QED
  BY <1>1, <1>2 DEF BranchGaps, Told, Ended

LEMMA GapsReport ==
    ASSUME TreeInv, BranchGaps, NEW i \in Invs, Reports(i)
    PROVE  BranchGaps'
<1> PICK cites \in SUBSET Citable(i), gs \in SUBSET Gaps :
       /\ gaps[i] \subseteq gs \/ <<i, "stop">> \in gs
       /\ pc[i] \in Stops => gs # {}
       /\ Return(i, cites, gs)
  BY DEF Reports
<1>1. pc' = [j \in Invs |-> IF j = i THEN "returned"
                            ELSE IF j = parent[i] /\ pc[j] = "child" THEN "python" ELSE pc[j]]
  BY DEF Return
<1>2. /\ \A j \in Invs : required'[j] = IF j = i THEN gs ELSE required[j]
      /\ parent' = parent /\ fatal' = fatal /\ parent \in [Invs -> 0 .. MaxInvocations]
  BY DEF Return, TreeInv, TypeOK, shape
<1>3. Live(i) /\ pc[i] \in {"loading", "submitted"} \cup Stops
  BY DEF Reports
<1>4. parent[i] # 0 =>
        parent[i] \in Invs \ {i} /\ pc[parent[i]] \in Holding /\ gs \subseteq gaps'[parent[i]]
  <2> HAVE parent[i] # 0
  <2>1. parent[i] \in Invs \ {i} /\ pc[parent[i]] \in Holding
    BY <1>3, ReporterHeld
  <2>2. HandOver(parent[i], i, cites, gs)
    BY DEF Return
  <2> QED
    BY <2>1, <2>2, Handed DEF TreeInv
<1>5. ASSUME NEW j \in Invs
      PROVE  gaps[j] \subseteq gaps'[j] /\ (j # parent[i] => gaps'[j] = gaps[j])
  <2>1. CASE parent[i] = 0
    BY <2>1 DEF Return
  <2>2. CASE parent[i] # 0
    <3>1. parent[i] \in Invs /\ HandOver(parent[i], i, cites, gs)
      BY <1>4, <2>2 DEF Return
    <3>2. CASE j = parent[i]
      BY <3>1, <3>2, Handed DEF TreeInv
    <3>3. CASE j # parent[i]
      BY <3>1, <3>3, Handed DEF TreeInv
    <3> QED
      BY <3>2, <3>3
  <2> QED
    BY <2>1, <2>2
<1>6. ASSUME NEW j \in Invs, pc'[j] = "unused" PROVE gaps'[j] = {} /\ required'[j] = {}
  <2>1. j # i /\ pc[j] = "unused"
    BY <1>1, <1>6
  <2>2. j # parent[i]
    BY <1>4, <2>1, BudgetFacts DEF Holding, Stops, Invs
  <2> QED
    BY <1>2, <1>5, <2>1, <2>2 DEF BranchGaps
<1>7. ASSUME NEW j \in Invs, pc'[j] = "returned" PROVE Told(j)'
  <2>1. CASE j = i
    <3>1. j # parent[i]
      BY <1>4, <2>1, BudgetFacts DEF Invs
    <3> QED
      BY <1>2, <1>5, <2>1, <3>1 DEF Told
  <2>2. CASE j # i
    <3>1. pc[j] = "returned"
      BY <1>1, <1>7, <2>2
    <3>2. j # parent[i]
      BY <1>4, <3>1, BudgetFacts DEF Holding, Stops, Invs
    <3> QED
      BY <1>2, <1>5, <2>2, <3>1, <3>2 DEF BranchGaps, Told
  <2> QED
    BY <2>1, <2>2
<1>8. ASSUME NEW c \in Invs, parent[c] # 0 PROVE Heard(c)'
  <2>1. parent[c] \in Invs
    BY <1>2, <1>8, BudgetFacts DEF Invs
  <2>2. CASE c = i
    BY <1>1, <1>2, <1>4, <1>8, <2>2 DEF Heard
  <2>3. CASE c # i
    <3>1. Heard(c)
      BY <1>8 DEF BranchGaps
    <3>2. pc'[c] = "returned" => required'[c] \subseteq gaps'[parent[c]]
      BY <1>1, <1>2, <1>5, <2>1, <2>3, <3>1 DEF Heard
    <3>3. ASSUME pc'[c] = "cancelled", ~fatal
          PROVE  \/ pc'[parent[c]] \in Stops \cup {"cancelling", "cancelled"}
                 \/ pc'[parent[c]] = "returned" /\ required'[parent[c]] # {}
      <4>1. pc[c] = "cancelled"
        BY <1>1, <2>3, <3>3
      <4>2. CASE parent[c] = i
        BY <1>1, <1>2, <1>3, <3>1, <3>3, <4>1, <4>2 DEF Heard, Stops
      <4>3. CASE parent[c] # i
        BY <1>1, <1>2, <2>1, <3>1, <3>3, <4>1, <4>3 DEF Heard, Stops
      <4> QED
        BY <4>2, <4>3
    <3> QED
      BY <1>2, <3>2, <3>3 DEF Heard
  <2> QED
    BY <2>2, <2>3
<1> QED
  BY <1>2, <1>6, <1>7, <1>8 DEF BranchGaps

LEMMA GapsCancelled ==
    ASSUME TreeInv, BranchGaps, NEW i \in Invs, Cancelled(i)
    PROVE  BranchGaps'
<1>1. UNCHANGED <<parent, gaps, required>> /\ pc[i] = "cancelling" /\ (fatal => fatal')
  BY DEF Cancelled, shape, local, result
<1>2. \A j \in Invs : pc'[j] = IF j = i THEN "cancelled"
                               ELSE IF j = parent[i] /\ pc[j] = "child" THEN "python" ELSE pc[j]
  <2>1. \A j \in Invs : j = parent[i] => parent[i] # 0
    BY BudgetFacts DEF Invs
  <2> QED
    BY <2>1 DEF Cancelled
<1>3. ASSUME NEW c \in Invs, parent[c] # 0 PROVE Heard(c)'
  <2>1. parent[c] \in Invs
    BY <1>3, BudgetFacts DEF TreeInv, TypeOK, Invs
  <2>2. CASE c = i
    <3>1. parent[i] \in Invs \ {i} /\ pc[parent[i]] \in Holding
      BY <1>1, <1>3, <2>2, ReporterHeld DEF Live, Ended
    <3>2. pc[parent[i]] = "child" => fatal'
      BY <1>3, <2>2 DEF Cancelled
    <3> QED
      BY <1>1, <1>2, <2>2, <3>1, <3>2 DEF Heard, Holding, Stops
  <2>3. CASE c # i
    <3>1. Heard(c)
      BY <1>3 DEF BranchGaps
    <3>2. pc'[c] = "returned" => required[c] \subseteq gaps[parent[c]]
      BY <1>2, <2>3, <3>1 DEF Heard
    <3>3. ASSUME pc'[c] = "cancelled", ~fatal
          PROVE  \/ pc'[parent[c]] \in Stops \cup {"cancelling", "cancelled"}
                 \/ pc'[parent[c]] = "returned" /\ required[parent[c]] # {}
      <4>1. pc[c] = "cancelled"
        BY <1>2, <2>3, <3>3
      <4> QED
        BY <1>1, <1>2, <2>1, <3>1, <3>3, <4>1 DEF Heard, Stops
    <3> QED
      BY <1>1, <3>2, <3>3 DEF Heard
  <2> QED
    BY <2>2, <2>3
<1>4. \A j \in Invs : /\ pc'[j] = "unused" => pc[j] = "unused"
                      /\ pc'[j] = "returned" => pc[j] = "returned"
  BY <1>2
<1> QED
  BY <1>1, <1>3, <1>4 DEF BranchGaps, Told

(* A branch that opens has nothing to tell, or is refused and says so.     *)
LEMMA GapsOpen ==
    ASSUME TreeInv, BranchGaps, NEW p \in 0 .. MaxInvocations, Opens(p),
           fatal' = fatal, NEW new, new = invocations + 1,
           \A j \in Invs \ {new} : required'[j] = required[j],
           \A j \in Invs \ {p} : gaps'[j] = gaps[j],
           p # 0 => gaps[p] \subseteq gaps'[p],
           \/ pc'[new] = "loading"
           \/ /\ required'[new] = {<<new, "stop">>}
              /\ p # 0 => required'[new] \subseteq gaps'[p]
    PROVE  BranchGaps'
<1>1. /\ new \in Invs /\ pc[new] = "unused" /\ parent \in [Invs -> 0 .. MaxInvocations]
      /\ p \in Invs <=> p # 0
      /\ \A j \in Invs : parent'[j] = IF j = new THEN p ELSE parent[j]
  BY BudgetFacts DEF Opens, TreeInv, TypeOK, Numbered, Invs
<1>2. /\ p # 0 => pc[p] = "python" /\ p # new /\ pc'[p] \in {"python", "child"}
      /\ \A j \in Invs \ {new, p} : pc'[j] = pc[j]
      /\ pc'[new] \in {"loading", "returned"}
  <2>1. p # 0 => pc[p] = "python" /\ p # new
    BY <1>1 DEF Opens
  <2>2. CASE pc' = [pc EXCEPT ![new] = "returned"]
    BY <1>1, <2>1, <2>2 DEF TreeInv, TypeOK
  <2>3. CASE pc' = [j \in Invs |-> IF j = new THEN "loading" ELSE IF j = p THEN "child" ELSE pc[j]]
    BY <1>1, <2>1, <2>3
  <2> QED
    BY <2>2, <2>3 DEF Opens
<1>3. ASSUME NEW j \in Invs \ {new}, j # p
      PROVE  pc'[j] = pc[j] /\ gaps'[j] = gaps[j] /\ required'[j] = required[j]
  BY <1>2, <1>3
<1>4. ASSUME NEW c \in Invs, parent'[c] # 0 PROVE Heard(c)'
  <2>1. CASE c = new
    BY <1>1, <1>2, <2>1, <1>4 DEF Heard
  <2>2. CASE c # new
    <3>1. Heard(c) /\ parent'[c] = parent[c] /\ parent[c] \in Invs /\ parent[c] # new
      BY <1>1, <1>4, <2>2, BudgetFacts DEF BranchGaps, TreeInv, Numbered, Invs
    <3>2. pc'[c] = pc[c] \/ pc'[c] \notin {"returned", "cancelled"}
      BY <1>1, <1>2, <2>2
    <3>3. CASE parent[c] = p
      BY <1>1, <1>2, <2>2, <3>1, <3>2, <3>3 DEF Heard, Stops
    <3>4. CASE parent[c] # p
      BY <1>3, <2>2, <3>1, <3>2, <3>4 DEF Heard
    <3> QED
      BY <3>3, <3>4
  <2> QED
    BY <2>1, <2>2
<1>5. ASSUME NEW j \in Invs
      PROVE  /\ pc'[j] = "unused" => gaps'[j] = {} /\ required'[j] = {}
             /\ pc'[j] = "returned" => Told(j)'
  <2>1. CASE j = new
    BY <1>2, <2>1 DEF Told
  <2>2. CASE j = p
    BY <1>1, <1>2, <2>2 DEF BranchGaps, Told
  <2>3. CASE j # new /\ j # p
    BY <1>3, <2>3 DEF BranchGaps, Told
  <2> QED
    BY <2>1, <2>2, <2>3
<1> QED
  BY <1>4, <1>5 DEF BranchGaps

LEMMA GapsOpenCases ==
    ASSUME TreeInv, BranchGaps, NEW p \in 0 .. MaxInvocations,
           \/ p = 0 /\ \E n \in Seeds : StartSeed(n) \/ RefuseSeed(n)
           \/ p \in Invs /\ \E n \in Nodes : QueryNode(p, n) \/ RefuseChild(p, n)
    PROVE  BranchGaps'
<1> SUFFICES ASSUME NEW new, new = invocations + 1 PROVE BranchGaps'
  OBVIOUS
<1>1. Opens(p) /\ fatal' = fatal
  BY OpenCases DEF TreeInv, StartSeed, RefuseSeed, QueryNode, RefuseChild
<1>2. new \in Invs /\ pc \in [Invs -> Places] /\ required \in [Invs -> SUBSET Gaps]
  BY <1>1 DEF Opens, TreeInv, TypeOK
<1>3. CASE p = 0 /\ \E n \in Seeds : StartSeed(n)
  <2>1. UNCHANGED <<gaps, required>> /\ pc'[new] = "loading"
    BY <1>2, <1>3 DEF StartSeed, Goto, local, result
  <2> QED
    BY <1>1, <1>3, <2>1, GapsOpen
<1>4. CASE p = 0 /\ \E n \in Seeds : RefuseSeed(n)
  <2>1. gaps' = gaps /\ required' = [required EXCEPT ![new] = {<<new, "stop">>}]
    BY <1>4 DEF RefuseSeed, local
  <2> QED
    BY <1>1, <1>2, <1>4, <2>1, GapsOpen
<1>5. CASE p \in Invs /\ \E n \in Nodes : QueryNode(p, n)
  <2>1. UNCHANGED <<gaps, required>> /\ pc'[new] = "loading"
    BY <1>2, <1>5 DEF QueryNode, local, result
  <2> QED
    BY <1>1, <1>5, <2>1, GapsOpen
<1>6. CASE p \in Invs /\ \E n \in Nodes : RefuseChild(p, n)
  <2>1. /\ required' = [required EXCEPT ![new] = {<<new, "stop">>}]
        /\ HandOver(p, new, {}, {<<new, "stop">>})
    BY <1>6 DEF RefuseChild
  <2>2. /\ \A j \in Invs \ {p} : gaps'[j] = gaps[j]
        /\ gaps[p] \cup {<<new, "stop">>} \subseteq gaps'[p]
    BY <1>2, <1>6, <2>1, Handed DEF TreeInv
  <2> QED
    BY <1>1, <1>2, <1>6, <2>1, <2>2, GapsOpen
<1> QED
  BY <1>3, <1>4, <1>5, <1>6

LEMMA BranchGapsStep ==
    ASSUME TreeInv, CiteInv, BranchGaps, [Next]_vars
    PROVE  BranchGaps'
<1>1. CASE Seeding
  BY <1>1, GapsOpenCases, BudgetFacts DEF Seeding
<1>2. ASSUME NEW i \in Invs, Host(i) \/ Reader(i) \/ Trouble(i) PROVE BranchGaps'
  <2>1. CASE LoadFails(i) \/ Finish(i) \/ Settle(i)
    BY <2>1, ReportCases, GapsReport
  <2>2. CASE \E n \in Nodes : QueryNode(i, n) \/ RefuseChild(i, n)
    <3>1. i \in 0 .. MaxInvocations
      BY BudgetFacts DEF Invs
    <3> QED
      BY <2>2, <3>1, GapsOpenCases
  <2>3. CASE Load(i) \/ Read(i) \/ CallbackFails(i)
    <3>1. Moves(i)
      BY <2>3, MoveCases DEF TreeInv
    <3>2. /\ UNCHANGED <<required, fatal>>
          /\ \A j \in Invs \ {i} : gaps'[j] = gaps[j]
          /\ gaps[i] \subseteq gaps'[i] \/ pc[i] = "loading"
      BY <2>3 DEF Load, Read, CallbackFails, result, TreeInv, TypeOK
    <3> QED
      BY <3>1, <3>2, GapsMove
  <2>4. CASE \/ Generate(i) \/ GenerateRefused(i) \/ ContextOverflow(i) \/ Execute(i)
             \/ Late(i) \/ Doom(i) \/ Cancel(i) \/ Answered(i) \/ Browse(i) \/ Subquery(i)
             \/ SubqueryEnds(i) \/ EndPython(i) \/ Submit(i) \/ SubmitRejected(i)
             \/ Extracted(i) \/ ReplStops(i) \/ Bug(i)
    <3>1. Moves(i)
      BY <2>4, MoveCases DEF TreeInv
    <3>2. UNCHANGED <<gaps, required>>
      BY <2>4 DEF Generate, GenerateRefused, ContextOverflow, Execute, Late, Doom, Cancel,
         Answered, Browse, Subquery, SubqueryEnds, EndPython, Submit, SubmitRejected, Extracted,
         ReplStops, Bug, local, result
    <3>3. fatal => fatal'
      BY <2>4 DEF Generate, GenerateRefused, ContextOverflow, Execute, Late, Doom, Cancel,
         Answered, Browse, Subquery, SubqueryEnds, EndPython, Submit, SubmitRejected, Extracted,
         ReplStops, Bug
    <3> QED
      BY <3>1, <3>2, <3>3, GapsMove
  <2> QED
    BY <1>2, <2>1, <2>2, <2>3, <2>4, GapsCancelled DEF Host, Reader, Trouble
<1>3. CASE Main \/ CancelRun \/ Tick \/ UNCHANGED vars
  <2>1. UNCHANGED <<pc, parent, gaps, required, fatal>>
    BY <1>3 DEF Main, GatherRaises, Unwound, Synthesize, MainAnswers, MainFails, CancelRun,
       Tick, vars, local, result, shape
  <2> QED
    BY <2>1 DEF BranchGaps, Told, Heard
<1> QED
  BY <1>1, <1>2, <1>3 DEF Next

(* Nothing of the branches changes any more when the main model is called. *)
LEMMA RunGapsStep ==
    ASSUME TreeInv, RunGaps, [Next]_vars
    PROVE  RunGaps'
<1>1. CASE Main \/ CancelRun \/ Tick \/ UNCHANGED vars
  <2>1. UNCHANGED <<pc, parent, required, fatal>>
    BY <1>1 DEF Main, GatherRaises, Unwound, Synthesize, MainAnswers, MainFails, CancelRun,
       Tick, vars, local, result, shape
  <2>2. \A i \in Invs : IsSeed(i)' = IsSeed(i)
    BY <2>1 DEF IsSeed
  <2>3. CASE run' = run /\ final' = final
    BY <2>1, <2>2, <2>3 DEF RunGaps
  <2>4. CASE Synthesize
    BY <2>1, <2>2, <2>4 DEF Synthesize, Collected, RunGaps
  <2>5. CASE MainAnswers
    BY <2>1, <2>2, <2>5 DEF MainAnswers, RunGaps
  <2>6. CASE run' \notin {"synthesis", "answered"}
    BY <2>6 DEF RunGaps
  <2> QED
    BY <1>1, <2>3, <2>4, <2>5, <2>6 DEF Main, GatherRaises, Unwound, MainFails, CancelRun, Tick, vars
<1>2. CASE Seeding
  BY <1>2 DEF Seeding, StartSeed, RefuseSeed, RunGaps
<1>3. ASSUME NEW i \in Invs, Host(i) \/ Reader(i) \/ Trouble(i) PROVE RunGaps'
  <2>1. Moves(i) \/ Ends(i) \/ Opens(i)
    BY <1>3, MoveCases, EndCases, OpenCases, BudgetFacts DEF Host, Reader, Trouble, TreeInv, Invs
  <2>2. Live(i) /\ run' = run
    BY <2>1, BudgetFacts DEF Moves, Ends, Opens, Live, Ended, Invs
  <2> QED
    BY <2>2 DEF TreeInv, Quiescent, RunGaps
<1> QED
  BY <1>1, <1>2, <1>3 DEF Next

LEMMA GapsInitially == Init => BranchGaps /\ RunGaps
BY BudgetFacts DEF Init, BranchGaps, RunGaps, Heard, Told

(* A set of numbers has a least.                                           *)
LEMMA LeastNumber ==
    ASSUME NEW T \in SUBSET Nat, T # {}
    PROVE  \E m \in T : \A n \in T : m <= n
<1>1. \A x, y \in Nat : x < y => <<x, y>> \in OpToRel(<, Nat)
  BY DEF OpToRel
<1>2. PICK m \in T : \A n \in T : ~(<<n, m>> \in OpToRel(<, Nat))
  BY NatLessThanWellFounded, WFMin
<1>3. ASSUME NEW n \in T PROVE m <= n
  <2>1. m \in Nat /\ n \in Nat /\ ~(n < m)
    BY <1>1, <1>2
  <2> QED
    BY <2>1
<1> QED
  BY <1>3

(* The first invocation with a failure to hide would be a seed, whose gaps *)
(* are in the answer, or the child of a branch that has nothing to hide    *)
(* and hence was not told of any.                                          *)
LEMMA FailuresSurface ==
    ASSUME TreeInv, BranchGaps, RunGaps
    PROVE  NoSilentFailure
<1> DEFINE Clean(i) == pc[i] # "cancelled" /\ gaps[i] = {} /\ required[i] = {}
<1> SUFFICES ASSUME run = "answered", final = {} PROVE \A i \in Invs : Clean(i)
  BY DEF NoSilentFailure
<1>1. /\ ~fatal
      /\ \A i \in Invs : pc[i] \in Ended
      /\ \A i \in Invs : IsSeed(i) => pc[i] = "returned" /\ required[i] = {}
  BY DEF RunGaps, TreeInv, Quiescent, Live
<1>2. \A i \in Invs : pc[i] = "returned" /\ required[i] = {} => gaps[i] = {}
  BY DEF BranchGaps, Told
<1>3. ASSUME NEW m \in Invs, \A j \in Invs : j < m => Clean(j) PROVE Clean(m)
  <2>1. CASE pc[m] = "unused"
    BY <2>1 DEF BranchGaps
  <2>2. CASE pc[m] # "unused" /\ parent[m] = 0
    BY <1>1, <1>2, <2>2 DEF IsSeed
  <2>3. CASE pc[m] # "unused" /\ parent[m] # 0
    <3>1. parent[m] \in Invs /\ parent[m] < m
      BY <2>3, BudgetFacts DEF TreeInv, TypeOK, Numbered, Invs
    <3>2. Clean(parent[m])
      BY <1>3, <3>1
    <3>3. pc[parent[m]] \in Ended
      BY <1>1, <3>1
    <3>4. Heard(m) /\ pc[m] \in {"returned", "cancelled"}
      BY <1>1, <2>3 DEF BranchGaps, Ended
    <3>5. pc[m] # "cancelled"
      BY <1>1, <3>2, <3>3, <3>4 DEF Heard, Ended, Stops
    <3>6. required[m] = {}
      BY <3>2, <3>4, <3>5 DEF Heard
    <3> QED
      BY <1>2, <3>4, <3>5, <3>6
  <2> QED
    BY <2>1, <2>2, <2>3
<1> HIDE DEF Clean
<1>4. ASSUME NEW i \in Invs, ~Clean(i) PROVE FALSE
  <2>1. {j \in Invs : ~Clean(j)} \in SUBSET Nat /\ {j \in Invs : ~Clean(j)} # {}
    BY <1>4, BudgetFacts DEF Invs
  <2>2. PICK m \in {j \in Invs : ~Clean(j)} : \A n \in {j \in Invs : ~Clean(j)} : m <= n
    BY <2>1, LeastNumber
  <2>3. ASSUME NEW j \in Invs, j < m PROVE Clean(j)
    <3>1. j \in Nat /\ m \in Nat
      BY BudgetFacts DEF Invs
    <3> QED
      BY <2>2, <2>3, <3>1
  <2> QED
    BY <1>3, <2>2, <2>3
<1> QED
  BY <1>4

(* An answer without gaps is one in whose run nothing failed, no callback, *)
(* no branch, no child at any depth, for any tree and any failures         *)
(* (nodes.py, branch, callback and run; architecture.md, check the outcome). *)
THEOREM FailuresReported == Spec => []NoSilentFailure
<1>1. TreeInv /\ CiteInv /\ BranchGaps /\ [Next]_vars => BranchGaps'
  BY BranchGapsStep
<1>2. TreeInv /\ RunGaps /\ [Next]_vars => RunGaps'
  BY RunGapsStep
<1>3. TreeInv /\ CiteInv /\ [Next]_vars => CiteInv'
  BY CiteStep
<1>4. TreeInv /\ BranchGaps /\ RunGaps => NoSilentFailure
  BY FailuresSurface
<1> QED
  BY <1>1, <1>2, <1>3, <1>4, CiteInitially, GapsInitially, TreeInitially, TreeStep, PTL DEF Spec
=============================================================================
