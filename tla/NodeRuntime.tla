---------------------------- MODULE NodeRuntime ----------------------------
(***************************************************************************)
(* One run of the node runtime: a branch for each seed node, recursive     *)
(* child branches, and one final call of the main model, all under one     *)
(* shared ledger of model calls and operations.                            *)
(*                                                                         *)
(* A branch is a coroutine that drives a reader: model call, Python, model *)
(* call, ... until it submits findings.  What a reader does is free; what  *)
(* the host admits is not.  Each action is what happens between two awaits *)
(* of the event loop.  Sizes (contexts, payloads, evidence) are abstracted *)
(* to "fits" or "does not fit"; wall time to the phase the run is in.      *)
(***************************************************************************)
EXTENDS Integers, FiniteSets

CONSTANTS
    Nodes,           \* a source node together with the question put to it
    Seeds,           \* the nodes the run starts from
    MaxInvocations,  \* bound: branches ever entered
    MaxModelCalls,   \* Budget.max_model_calls
    MaxReaderCalls,  \* Budget.max_reader_calls
    Spent,           \* model calls that topic routing has charged already
    MaxOperations,   \* NodeRuntime.max_operations
    MaxSteps,        \* NodeRuntime.max_steps
    MaxDepth,        \* NodeRuntime.max_depth
    MaxConcurrency,  \* NodeRuntime.max_concurrency
    None

ASSUME BudgetAssumption ==
    /\ {MaxInvocations, MaxDepth, Spent} \subseteq Nat
    /\ {MaxModelCalls, MaxReaderCalls, MaxOperations, MaxSteps, MaxConcurrency}
         \subseteq Nat \ {0}
    /\ Spent < MaxModelCalls  \* routing leaves the main call alone: reserve_main

ASSUME SeedsAssumption ==
    /\ Seeds \subseteq Nodes /\ IsFiniteSet(Seeds) /\ Seeds # {}
    /\ None \notin Nodes

VARIABLES
    calls, readerCalls, operations,  \* the ledger, and _Execution.operations
    clock,         \* "collecting", "late" (only synthesis time left), "expired"
    fatal,         \* a host callback failed unexpectedly: fatal_error
    run,           \* what answer() is doing
    queued,        \* seeds whose task has no seed slot yet: pending_seeds
    invocations,   \* branches entered so far
    reservations,  \* finish_reservations: branches owed a finishing call
    pc,            \* where each branch is
    parent,        \* the branch that queried it, 0 for a seed
    ancestry,      \* the nodes of a branch and of its ancestors
    steps,         \* action calls it has made
    visible,       \* evidence it may cite, named by the branch that read it
    inspected,     \* it has been handed evidence
    rejected,      \* its last submission was refused: response_error
    gaps,          \* failures and gaps its own run has recorded
    delivered,     \* children whose findings it was handed
    citations,     \* of its result
    required,      \* required_gaps of its result
    final          \* the gaps in the answer

ledger == <<calls, readerCalls, operations>>
shape == <<parent, ancestry, invocations, queued>>
local == <<steps, visible, inspected, rejected, gaps, delivered>>
result == <<citations, required>>
vars == <<ledger, clock, fatal, run, reservations, shape, pc, local, result, final>>

Invs == 1 .. MaxInvocations

(* A gap is named by the branch that recorded it: what it found or what    *)
(* failed on the way, and why it stopped.                                  *)
Gaps == Invs \X {"found", "stop"}

Ended == {"unused", "returned", "cancelled"}

Stops == {"budget", "failed"}

Places == Ended \cup {"loading", "acting", "calling", "extracting", "code", "python",
                      "querying", "child", "submitted", "cancelling"} \cup Stops

Runs == {"collecting", "synthesis", "answered", "stopped", "refused", "unwinding", "raised"}

TypeOK ==
    /\ calls \in Nat /\ readerCalls \in Nat /\ operations \in Nat
    /\ clock \in {"collecting", "late", "expired"}
    /\ fatal \in BOOLEAN
    /\ run \in Runs
    /\ queued \subseteq Seeds
    /\ invocations \in 0 .. MaxInvocations
    /\ reservations \subseteq 1 .. invocations
    /\ pc \in [Invs -> Places]
    /\ parent \in [Invs -> 0 .. MaxInvocations]
    /\ ancestry \in [Invs -> SUBSET Nodes]
    /\ steps \in [Invs -> 0 .. MaxSteps]
    /\ visible \in [Invs -> SUBSET Invs]
    /\ inspected \in [Invs -> BOOLEAN]
    /\ rejected \in [Invs -> BOOLEAN]
    /\ gaps \in [Invs -> SUBSET Gaps]
    /\ delivered \in [Invs -> SUBSET Invs]
    /\ citations \in [Invs -> SUBSET Invs]
    /\ required \in [Invs -> SUBSET Gaps]
    /\ final \subseteq Gaps

Init ==
    /\ calls = Spent /\ readerCalls = 0 /\ operations = 0
    /\ clock = "collecting"
    /\ fatal = FALSE
    /\ run = "collecting"
    /\ queued = Seeds
    /\ invocations = 0
    /\ reservations = {}
    /\ pc = [i \in Invs |-> "unused"]
    /\ parent = [i \in Invs |-> 0]
    /\ ancestry = [i \in Invs |-> {}]
    /\ steps = [i \in Invs |-> 0]
    /\ visible = [i \in Invs |-> {}]
    /\ inspected = [i \in Invs |-> FALSE]
    /\ rejected = [i \in Invs |-> FALSE]
    /\ gaps = [i \in Invs |-> {}]
    /\ delivered = [i \in Invs |-> {}]
    /\ citations = [i \in Invs |-> {}]
    /\ required = [i \in Invs |-> {}]
    /\ final = {}

-----------------------------------------------------------------------------
(* The allowances (branch_budget, check, operation).                       *)

Remaining ==
    LET readers == MaxReaderCalls - readerCalls
        models == MaxModelCalls - calls - 1
        least == IF readers <= models THEN readers ELSE models
    IN  IF least > 0 THEN least ELSE 0

(* Mutant: seeds that still wait for a slot are owed nothing.              *)
OwedToActive(i) == Cardinality(reservations \ {i})

(* What is owed to others: a finishing call to each active branch, two     *)
(* calls to each queued seed.                                              *)
Owed(i) == Cardinality(reservations \ {i}) + 2 * Cardinality(queued)

Reserved == Cardinality(reservations) + 2 * Cardinality(queued)

Exploration == IF Remaining > Reserved THEN Remaining - Reserved ELSE 0

OnTime == clock = "collecting" /\ ~fatal

(* Mutant: branches may spend the operation of the final synthesis.        *)
OperationLeftForAll == operations < MaxOperations

OperationLeft == operations < MaxOperations - 1

(* A branch must submit now: its last step, or nothing left to explore.    *)
MustFinish(i) == steps[i] >= MaxSteps - 1 \/ Exploration = 0

Live(i) == pc[i] \notin Ended

IsSeed(i) == pc[i] # "unused" /\ parent[i] = 0

SeedSlotFree == Cardinality({i \in Invs : Live(i) /\ IsSeed(i)}) < MaxConcurrency

(* Mutant: the permit is kept while Python and its callbacks run.          *)
ModelSlotFreeAfterPython ==
    Cardinality({i \in Invs :
        pc[i] \in {"calling", "extracting", "code", "python", "querying", "child"}})
      < MaxConcurrency

(* The permit is held during the call only, not while Python runs.         *)
ModelSlotFree ==
    Cardinality({i \in Invs : pc[i] \in {"calling", "extracting", "querying"}})
      < MaxConcurrency

LiveChild(i) == \E c \in Invs : parent[c] = i /\ Live(c)

Goto(i, place) == pc' = [pc EXCEPT ![i] = place]

ChargeOperation == operations' = operations + 1 /\ UNCHANGED <<calls, readerCalls>>

ChargeCall ==
    /\ calls' = calls + 1
    /\ readerCalls' = readerCalls + 1
    /\ operations' = operations + 1

-----------------------------------------------------------------------------
(* Entering and leaving a branch.                                          *)

(* The next invocation opens on node n, for parent p (0: it is a seed).    *)
Enter(n, p, nodes) ==
    LET i == invocations + 1
    IN  /\ invocations < MaxInvocations
        /\ invocations' = i
        /\ parent' = [parent EXCEPT ![i] = p]
        /\ ancestry' = [ancestry EXCEPT ![i] = nodes \cup {n}]
        /\ reservations' = reservations \cup {i}

(* Mutant: what a rejected response contained stays citable.               *)
HandOverUnstaged(p, i, cites, gs) ==
    \E fits \in BOOLEAN :
      /\ gaps' = [gaps EXCEPT ![p] = @ \cup gs \cup (IF fits THEN {} ELSE {<<p, "found">>})]
      /\ visible' = [visible EXCEPT ![p] = @ \cup cites]
      /\ IF fits /\ cites # {}
           THEN /\ inspected' = [inspected EXCEPT ![p] = TRUE]
                /\ delivered' = [delivered EXCEPT ![p] = @ \cup {i}]
           ELSE UNCHANGED <<inspected, delivered>>

(* Mutant: the callback hands over the findings of a child, not its gaps.  *)
HandOverFindingsOnly(p, i, cites, gs) ==
    \E fits \in BOOLEAN :
      /\ gaps' = [gaps EXCEPT ![p] = @ \cup (IF fits THEN {} ELSE {<<p, "found">>})]
      /\ IF fits /\ cites # {}
           THEN /\ visible' = [visible EXCEPT ![p] = @ \cup cites]
                /\ inspected' = [inspected EXCEPT ![p] = TRUE]
                /\ delivered' = [delivered EXCEPT ![p] = @ \cup {i}]
           ELSE UNCHANGED <<visible, inspected, delivered>>

(* The callback of p resumes with the result of its child i, in the same   *)
(* step.  The gaps arrive in any case, the evidence only if the response   *)
(* fits the transport.                                                     *)
HandOver(p, i, cites, gs) ==
    \E fits \in BOOLEAN :
      /\ gaps' = [gaps EXCEPT ![p] = @ \cup gs \cup (IF fits THEN {} ELSE {<<p, "found">>})]
      /\ IF fits /\ cites # {}
           THEN /\ visible' = [visible EXCEPT ![p] = @ \cup cites]
                /\ inspected' = [inspected EXCEPT ![p] = TRUE]
                /\ delivered' = [delivered EXCEPT ![p] = @ \cup {i}]
           ELSE UNCHANGED <<visible, inspected, delivered>>

(* branch() of i returns findings that cite cites, with required gaps gs.  *)
Return(i, cites, gs) ==
    LET p == parent[i]
    IN  /\ pc' = [j \in Invs |-> IF j = i THEN "returned"
                                 ELSE IF j = p /\ pc[j] = "child" THEN "python" ELSE pc[j]]
        /\ reservations' = reservations \ {i}
        /\ citations' = [citations EXCEPT ![i] = cites]
        /\ required' = [required EXCEPT ![i] = gs]
        /\ IF p = 0
             THEN UNCHANGED <<visible, inspected, gaps, delivered>>
             ELSE HandOver(p, i, cites, gs)
        /\ UNCHANGED <<ledger, clock, fatal, run, shape, steps, rejected, final>>

(* Findings of children survive a parent that runs out of budget.  If they *)
(* do not fit its return either, two new gaps replace all it had recorded. *)
Fail(i, cause) ==
    LET stop == <<i, "stop">>
        preserve == cause = "budget" /\ ~rejected[i] /\ delivered[i] # {}
    IN  \/ ~preserve /\ Return(i, {}, gaps[i] \cup {stop})
        \/ preserve /\ Return(i, UNION {citations[c] : c \in delivered[i]}, gaps[i] \cup {stop})
        \/ preserve /\ Return(i, {}, {stop})

-----------------------------------------------------------------------------
(* A branch, from seed slot to return.                                     *)

(* A queued seed gets a slot; its branch is refused at once when late.     *)
StartSeed(n) ==
    /\ run = "collecting" /\ n \in queued
    /\ SeedSlotFree /\ OnTime
    /\ queued' = queued \ {n}
    /\ Enter(n, 0, {})
    /\ Goto(invocations + 1, "loading")
    /\ UNCHANGED <<ledger, clock, fatal, run, local, result, final>>

RefuseSeed(n) ==
    LET i == invocations + 1
    IN  /\ run = "collecting" /\ n \in queued
        /\ SeedSlotFree /\ clock # "collecting" /\ ~fatal
        /\ invocations < MaxInvocations
        /\ queued' = queued \ {n}
        /\ invocations' = i
        /\ ancestry' = [ancestry EXCEPT ![i] = {n}]
        /\ Goto(i, "returned")
        /\ required' = [required EXCEPT ![i] = {<<i, "stop">>}]
        /\ UNCHANGED <<ledger, clock, fatal, run, reservations, parent, local,
                       citations, final>>

(* The journal, which may name gaps, and the source page are loaded, and   *)
(* the interpreter is opened.                                              *)
Load(i) ==
    /\ pc[i] = "loading"
    /\ Goto(i, "acting")
    /\ \E found \in SUBSET {<<i, "found">>} : gaps' = [gaps EXCEPT ![i] = found]
    /\ UNCHANGED <<ledger, clock, fatal, run, reservations, shape, steps, visible,
                   inspected, rejected, delivered, result, final>>

(* No such node, an oversized journal, or the collection deadline.         *)
LoadFails(i) ==
    /\ pc[i] = "loading"
    /\ \E cause \in Stops : Fail(i, cause)

(* Mutant: the extraction is counted as a step.                            *)
AdvanceAlways(i) ==
    /\ Goto(i, IF steps[i] < MaxSteps THEN "calling" ELSE "extracting")
    /\ steps' = [steps EXCEPT ![i] = @ + 1]

(* The next phase of the reader: an action, or after the last the          *)
(* extraction.                                                             *)
Advance(i) ==
    IF steps[i] < MaxSteps
      THEN Goto(i, "calling") /\ steps' = [steps EXCEPT ![i] = @ + 1]
      ELSE Goto(i, "extracting") /\ UNCHANGED steps

(* A generation is admitted: permit, reservations, operation and ledger in *)
(* one step.  A branch told to finish has used its reservation.            *)
Generate(i) ==
    /\ pc[i] = "acting" /\ ModelSlotFree /\ OnTime
    /\ Remaining > Owed(i) /\ OperationLeft
    /\ ChargeCall
    /\ reservations' = IF MustFinish(i) THEN reservations \ {i} ELSE reservations
    /\ Advance(i)
    /\ UNCHANGED <<clock, fatal, run, shape, visible, inspected, rejected, gaps,
                   delivered, result, final>>

(* The remaining calls are owed to others, or the operations are spent.    *)
GenerateRefused(i) ==
    /\ pc[i] = "acting" /\ ModelSlotFree /\ OnTime
    /\ Remaining <= Owed(i) \/ ~OperationLeft
    /\ Goto(i, "budget")
    /\ UNCHANGED <<ledger, clock, fatal, run, reservations, shape, local, result, final>>

(* The request does not fit the context: found out after the operation was *)
(* spent and the reservation given up.                                     *)
ContextOverflow(i) ==
    /\ pc[i] = "acting" /\ ModelSlotFree /\ OnTime
    /\ Remaining > Owed(i) /\ OperationLeft
    /\ ChargeOperation
    /\ reservations' = IF MustFinish(i) THEN reservations \ {i} ELSE reservations
    /\ Goto(i, "budget")
    /\ UNCHANGED <<clock, fatal, run, shape, local, result, final>>

(* The model answers an action with code, or does not answer properly.     *)
Answered(i) ==
    /\ pc[i] = "calling"
    /\ \E place \in {"code", "failed"} : Goto(i, place)
    /\ UNCHANGED <<ledger, clock, fatal, run, reservations, shape, local, result, final>>

(* The code enters the sandbox, if an operation is left for it.            *)
Execute(i) ==
    /\ pc[i] = "code" /\ OnTime
    /\ IF OperationLeft
         THEN ChargeOperation /\ Goto(i, "python")
         ELSE UNCHANGED ledger /\ Goto(i, "budget")
    /\ UNCHANGED <<clock, fatal, run, reservations, shape, local, result, final>>

-----------------------------------------------------------------------------
(* What the code of a reader may do: callbacks, subqueries, submission.    *)

(* A read is delivered; the record may carry an unresolved gap.            *)
Read(i) ==
    /\ pc[i] = "python" /\ OnTime /\ OperationLeft
    /\ ChargeOperation
    /\ visible' = [visible EXCEPT ![i] = @ \cup {i}]
    /\ inspected' = [inspected EXCEPT ![i] = TRUE]
    /\ \E found \in SUBSET {<<i, "found">>} : gaps' = [gaps EXCEPT ![i] = @ \cup found]
    /\ UNCHANGED <<clock, fatal, run, reservations, shape, pc, steps, rejected,
                   delivered, result, final>>

(* search, edges, source_info, or a malformed request the code may repair. *)
Browse(i) ==
    /\ pc[i] = "python" /\ OnTime /\ OperationLeft
    /\ ChargeOperation
    /\ UNCHANGED <<clock, fatal, run, reservations, shape, pc, local, result, final>>

(* A callback fails operationally (an allowance, the deadline, a child     *)
(* that cannot be afforded): a gap that the reader cannot take back.       *)
CallbackFails(i) ==
    /\ pc[i] = "python" /\ ~fatal
    /\ IF OnTime /\ OperationLeft THEN ChargeOperation ELSE UNCHANGED ledger
    /\ gaps' = [gaps EXCEPT ![i] = @ \cup {<<i, "found">>}]
    /\ UNCHANGED <<clock, fatal, run, reservations, shape, pc, steps, visible, inspected,
                   rejected, delivered, result, final>>

(* Mutant: a child is never refused for lack of calls.                     *)
ChildAffordableAlways == TRUE

(* A child needs a call to read and a call to finish.                      *)
ChildAffordable == Exploration >= 2

(* query_node: the child's branch starts in the callback of its parent.    *)
QueryNode(i, n) ==
    /\ pc[i] = "python" /\ OnTime /\ OperationLeft /\ ChildAffordable
    /\ n \notin ancestry[i] /\ Cardinality(ancestry[i]) <= MaxDepth
    /\ ChargeOperation
    /\ Enter(n, i, ancestry[i])
    /\ pc' = [pc EXCEPT ![i] = "child", ![invocations + 1] = "loading"]
    /\ UNCHANGED <<clock, fatal, run, queued, local, result, final>>

(* A child that repeats an active request, or is too deep, stops at once.  *)
RefuseChild(i, n) ==
    LET c == invocations + 1
    IN  /\ pc[i] = "python" /\ OnTime /\ OperationLeft /\ ChildAffordable
        /\ n \in ancestry[i] \/ Cardinality(ancestry[i]) > MaxDepth
        /\ invocations < MaxInvocations
        /\ ChargeOperation
        /\ invocations' = c
        /\ parent' = [parent EXCEPT ![c] = i]
        /\ Goto(c, "returned")
        /\ required' = [required EXCEPT ![c] = {<<c, "stop">>}]
        /\ HandOver(i, c, {}, {<<c, "stop">>})
        /\ UNCHANGED <<clock, fatal, run, reservations, ancestry, queued, steps, rejected,
                       citations, final>>

(* llm_query: admitted only out of the exploration calls.                  *)
Subquery(i) ==
    /\ pc[i] = "python" /\ ModelSlotFree /\ OnTime
    /\ Remaining > Owed(i) /\ Exploration > 0 /\ OperationLeft
    /\ ChargeCall
    /\ Goto(i, "querying")
    /\ UNCHANGED <<clock, fatal, run, reservations, shape, local, result, final>>

SubqueryEnds(i) ==
    /\ pc[i] = "querying"
    /\ Goto(i, "python")
    /\ UNCHANGED <<ledger, clock, fatal, run, reservations, shape, local, result, final>>

(* The code ends without submitting.                                       *)
EndPython(i) ==
    /\ pc[i] = "python"
    /\ Goto(i, "acting")
    /\ UNCHANGED <<ledger, clock, fatal, run, reservations, shape, local, result, final>>

(* The host's validate: evidence this branch was handed, and not before it *)
(* has looked at any (or has a gap to show for it).                        *)
Acceptable(i, cites) == cites \subseteq visible[i] /\ (inspected[i] \/ gaps[i] # {})

Submit(i) ==
    /\ pc[i] = "python"
    /\ \E cites \in SUBSET visible[i] :
         /\ Acceptable(i, cites)
         /\ citations' = [citations EXCEPT ![i] = cites]
    /\ rejected' = [rejected EXCEPT ![i] = FALSE]
    /\ Goto(i, "submitted")
    /\ UNCHANGED <<ledger, clock, fatal, run, reservations, shape, steps, visible, inspected,
                   gaps, delivered, required, final>>

(* The reader is told why and goes on, if it has a step left.              *)
SubmitRejected(i) ==
    /\ pc[i] = "python"
    /\ rejected' = [rejected EXCEPT ![i] = TRUE]
    /\ Goto(i, "acting")
    /\ UNCHANGED <<ledger, clock, fatal, run, reservations, shape, steps, visible, inspected,
                   gaps, delivered, result, final>>

(* The extraction after the last step is a submission, without a retry.    *)
Extracted(i) ==
    /\ pc[i] = "extracting"
    /\ \/ /\ \E cites \in SUBSET visible[i] :
               /\ Acceptable(i, cites)
               /\ citations' = [citations EXCEPT ![i] = cites]
          /\ rejected' = [rejected EXCEPT ![i] = FALSE]
          /\ Goto(i, "submitted")
       \/ Goto(i, "failed") /\ UNCHANGED <<citations, rejected>>
    /\ UNCHANGED <<ledger, clock, fatal, run, reservations, shape, steps, visible, inspected,
                   gaps, delivered, required, final>>

(* The submission is returned, unless it is late or does not fit.          *)
Finish(i) ==
    /\ pc[i] = "submitted" /\ ~fatal
    /\ \/ OnTime /\ Return(i, citations[i], gaps[i])
       \/ Fail(i, "budget")

(* The interpreter breaks, or its time is over: also while the code waits  *)
(* for a subquery or a child.                                              *)
ReplStops(i) ==
    /\ \/ pc[i] \in {"acting", "python"} /\ \E cause \in Stops : Goto(i, cause)
       \/ pc[i] \in {"querying", "child"} /\ Goto(i, "budget")
    /\ UNCHANGED <<ledger, clock, fatal, run, reservations, shape, local, result, final>>

(* Mutant: a subquery is not under the collection deadline.                *)
LateExceptSubquery(i) ==
    /\ clock # "collecting"
    /\ pc[i] \in {"acting", "calling", "extracting", "code", "python", "child"}
    /\ Goto(i, "budget")
    /\ UNCHANGED <<ledger, clock, fatal, run, reservations, shape, local, result, final>>

(* The collection deadline ends whatever a branch awaits.                  *)
Late(i) ==
    /\ clock # "collecting"
    /\ pc[i] \in {"acting", "calling", "extracting", "code", "python", "querying", "child"}
    /\ Goto(i, "budget")
    /\ UNCHANGED <<ledger, clock, fatal, run, reservations, shape, local, result, final>>

(* Mutant: a stopped branch returns before its children are closed.        *)
SettleAtOnce(i) ==
    /\ pc[i] \in Stops
    /\ Fail(i, pc[i])

(* The session is closed: its host callbacks, children included, are over. *)
Settle(i) ==
    /\ pc[i] \in Stops
    /\ ~LiveChild(i)
    /\ Fail(i, pc[i])

-----------------------------------------------------------------------------
(* Unexpected errors and cancellation.                                     *)

(* A model client or a callback raises something that is no LLGMError.     *)
Bug(i) ==
    /\ pc[i] \in {"calling", "extracting", "querying", "python"}
    /\ fatal' = (fatal \/ pc[i] = "python")
    /\ Goto(i, "cancelling")
    /\ UNCHANGED <<ledger, clock, run, reservations, shape, local, result, final>>

(* check() raises the error another branch has recorded.                   *)
Doom(i) ==
    /\ fatal /\ pc[i] \in {"acting", "code", "submitted"}
    /\ Goto(i, "cancelling")
    /\ UNCHANGED <<ledger, clock, fatal, run, reservations, shape, local, result, final>>

(* The session of a stopped parent aborts its callbacks, or the gathered   *)
(* tasks are cancelled.                                                    *)
Cancel(i) ==
    /\ Live(i) /\ pc[i] # "cancelling"
    /\ IF parent[i] = 0
         THEN run = "unwinding"
         ELSE pc[parent[i]] \in Stops \cup {"cancelling"}
    /\ Goto(i, "cancelling")
    /\ UNCHANGED <<ledger, clock, fatal, run, reservations, shape, local, result, final>>

(* A cancelled branch is over, without a result.  A parent that was not    *)
(* stopping gets the error in its callback.                                *)
Cancelled(i) ==
    LET raises == parent[i] # 0 /\ pc[parent[i]] = "child"
    IN  /\ pc[i] = "cancelling" /\ ~LiveChild(i)
        /\ reservations' = reservations \ {i}
        /\ pc' = [j \in Invs |-> IF j = i THEN "cancelled"
                                 ELSE IF raises /\ j = parent[i] THEN "python" ELSE pc[j]]
        /\ fatal' = (fatal \/ raises)
        /\ UNCHANGED <<ledger, clock, run, shape, local, result, final>>

(* A seed's task has raised, or would: gather cancels the others.          *)
GatherRaises ==
    /\ run = "collecting"
    /\ \/ \E i \in Invs : IsSeed(i) /\ pc[i] = "cancelled"
       \/ fatal /\ queued # {} /\ SeedSlotFree
    /\ run' = "unwinding"
    /\ UNCHANGED <<ledger, clock, fatal, reservations, shape, pc, local, result, final>>

(* The caller cancels answer().                                            *)
CancelRun ==
    /\ run \in {"collecting", "synthesis"}
    /\ run' = "unwinding"
    /\ UNCHANGED <<ledger, clock, fatal, reservations, shape, pc, local, result, final>>

Unwound ==
    /\ run = "unwinding" /\ \A i \in Invs : ~Live(i)
    /\ run' = "raised"
    /\ UNCHANGED <<ledger, clock, fatal, reservations, shape, pc, local, result, final>>

-----------------------------------------------------------------------------
(* The final synthesis.                                                    *)

Collected ==
    /\ run = "collecting" /\ queued = {}
    /\ \A i \in Invs : ~Live(i) /\ (IsSeed(i) => pc[i] = "returned")

(* Every branch has returned.  check(), then the reserved operation and    *)
(* the reserved model call.                                                *)
Synthesize ==
    /\ Collected
    /\ IF fatal \/ clock = "expired"
         THEN run' = (IF fatal THEN "raised" ELSE "stopped") /\ UNCHANGED ledger
         ELSE IF calls < MaxModelCalls /\ operations < MaxOperations
                THEN /\ run' = "synthesis"
                     /\ calls' = calls + 1 /\ operations' = operations + 1
                     /\ UNCHANGED readerCalls
                ELSE run' = "refused" /\ UNCHANGED ledger
    /\ UNCHANGED <<clock, fatal, reservations, shape, pc, local, result, final>>

(* The main model answers; the gaps of every branch go into the result.    *)
MainAnswers ==
    /\ run = "synthesis"
    /\ run' = "answered"
    /\ final' = UNION {required[i] : i \in {j \in Invs : IsSeed(j)}}
    /\ UNCHANGED <<ledger, clock, fatal, reservations, shape, pc, local, result>>

(* It fails, times out, or cites what no branch returned.                  *)
MainFails ==
    /\ run = "synthesis"
    /\ run' = "stopped"
    /\ UNCHANGED <<ledger, clock, fatal, reservations, shape, pc, local, result, final>>

(* Time passes.                                                            *)
Tick ==
    /\ clock # "expired"
    /\ clock' = (IF clock = "collecting" THEN "late" ELSE "expired")
    /\ UNCHANGED <<ledger, fatal, run, reservations, shape, pc, local, result, final>>

-----------------------------------------------------------------------------
(* The coroutine of a branch can go on: neither its parent's session nor   *)
(* the run has begun to abort it.  A result that was ready still arrives.  *)
Uncut(i) == IF parent[i] = 0 THEN run # "unwinding" ELSE pc[parent[i]] = "child"

(* What the runtime does with a branch, and what a reader does.            *)
Host(i) ==
    \/ /\ Uncut(i)
       /\ \/ Load(i) \/ LoadFails(i) \/ Generate(i) \/ GenerateRefused(i)
          \/ ContextOverflow(i) \/ Execute(i) \/ Late(i) \/ Doom(i)
    \/ Finish(i) \/ Settle(i) \/ Cancel(i) \/ Cancelled(i)

Reader(i) ==
    /\ Uncut(i)
    /\ \/ Answered(i) \/ Read(i) \/ Browse(i) \/ CallbackFails(i) \/ Subquery(i)
       \/ SubqueryEnds(i) \/ EndPython(i) \/ Submit(i) \/ SubmitRejected(i) \/ Extracted(i)
       \/ \E n \in Nodes : QueryNode(i, n) \/ RefuseChild(i, n)

Trouble(i) == Uncut(i) /\ (ReplStops(i) \/ Bug(i))

Seeding == \E n \in Seeds : StartSeed(n) \/ RefuseSeed(n)

Main == GatherRaises \/ Unwound \/ Synthesize \/ MainAnswers \/ MainFails

Next ==
    \/ Seeding \/ Main \/ CancelRun \/ Tick
    \/ \E i \in Invs : Host(i) \/ Reader(i) \/ Trouble(i)

Spec == Init /\ [][Next]_vars

(* What models and readers do when they do not hang.                       *)
Prompt(i) ==
    Uncut(i) /\ (Answered(i) \/ SubqueryEnds(i) \/ EndPython(i) \/ Extracted(i))

(* The event loop runs what is ready.  Then either wall time passes, and   *)
(* models and readers may hang; or the models answer and the code of the   *)
(* readers ends, and no deadline need ever fire.                           *)
FairSpec ==
    /\ Spec
    /\ WF_vars(Seeding) /\ WF_vars(Main)
    /\ \A i \in Invs : WF_vars(Host(i))
    /\ WF_vars(Tick) \/ \A i \in Invs : WF_vars(Prompt(i))

-----------------------------------------------------------------------------
(* The budget covers two calls for each seed when the run starts.          *)
Enough ==
    /\ MaxReaderCalls >= 2 * Cardinality(Seeds)
    /\ MaxModelCalls - Spent - 1 >= 2 * Cardinality(Seeds)

(* Then every active branch that was not told to finish, and every queued  *)
(* seed, can still make its finishing call, whatever the other branches,   *)
(* their children and their subqueries have spent (nodes.py, model and     *)
(* callback).                                                              *)
ReservationsCovered == Enough => Remaining >= Reserved

(* When the branches are collected in time, the main model is called: its  *)
(* call and its operation were kept (nodes.py, run).                       *)
MainAdmitted == run # "refused"

(* What the allowances keep back is there when it is due.                  *)
CallsReserved == ReservationsCovered /\ MainAdmitted

(* A branch is over only when its children are, and a run only when all    *)
(* its branches are; a branch that is over owes and is owed nothing: after *)
(* timeouts, cancellation and errors too.                                  *)
OwnedUntilClosed ==
    /\ \A i, c \in Invs : Live(c) /\ parent[c] = i => Live(i)
    /\ run \notin {"collecting", "unwinding"} => \A i \in Invs : ~Live(i)
    /\ \A i \in reservations : Live(i)

(* A result cites only what its branch read itself or was handed in the    *)
(* findings of a child: responses that were refused leave nothing behind.  *)
CitesDelivered ==
    \A i \in Invs :
      pc[i] = "returned" =>
        \A e \in citations[i] :
          e = i \/ \E c \in delivered[i] : parent[c] = i /\ e \in citations[c]

(* An answer without gaps is one in whose run nothing failed: no callback, *)
(* no branch, no child at any depth (architecture.md, check the outcome).  *)
NoSilentFailure ==
    run = "answered" /\ final = {} =>
      \A i \in Invs : pc[i] # "cancelled" /\ gaps[i] = {} /\ required[i] = {}

(* "The main model cannot silently remove a required failure report": every *)
(* gap that a returned branch has recorded is in the answer.               *)
GapsReachAnswer ==
    run = "answered" =>
      \A i \in Invs : pc[i] = "returned" /\ IsSeed(i) => gaps[i] \subseteq final

(* Every run ends, with an answer, a stop or an exception: by its          *)
(* deadlines even if models and readers hang, and without deadlines if     *)
(* they do not, because branches never wait for each other in a circle.    *)
RunEnds == <>(run \in {"answered", "stopped", "raised"})
=============================================================================
