------------------------------- MODULE Spending -------------------------------
(***************************************************************************)
(* Paid calls of an evaluation run: evaluation/costs.py (Allowance, the    *)
(* token pacer, recorded_model) and evaluation/framework_calls.py (the     *)
(* recorded HTTP transport of a framework's worker threads).  Every call   *)
(* reserves money, waits for the token window, is written to its own file, *)
(* goes to the provider and is settled.  The calls share one allowance and *)
(* one pacer; no lock of either is held over an await.                     *)
(*                                                                         *)
(* External: the provider, which bills a request that reached it even when *)
(* no answer comes back.  Amounts and times are small integers.            *)
(***************************************************************************)
EXTENDS Totals, FiniteSetsExt

CONSTANTS
    Calls,        \* model requests
    Framework,    \* the calls that a framework makes from a worker thread
    Tokens,       \* per call: pacing_reservation, 0 without a pacer
    Cost,         \* per call: request_reservation
    Cap,          \* Allowance.cap
    Limit,        \* tokens_per_minute
    Window,       \* the 60 seconds
    Deadline,     \* run_admission_deadline
    MaxUnknown,   \* max_unknown_calls
    MaxTime,      \* bound: the clock
    MaxTrouble    \* bound: failed writes, and latches from outside

SpendingAssumption ==
    /\ IsFiniteSet(Calls) /\ Framework \subseteq Calls
    /\ Tokens \in [Calls -> Nat] /\ Cost \in [Calls -> Nat]
    /\ {Cap, Limit, Window, MaxUnknown} \subseteq Nat \ {0}
    /\ {Deadline, MaxTime, MaxTrouble} \subseteq Nat

VARIABLES
    now,      \* time.monotonic
    books,    \* the Allowance
    at,       \* per call: when the pacer admitted it, -1 before (the deque)
    call,     \* per call: where it is, and until when it sleeps in the pacer
    file,     \* per call: its record on disk
    bill,     \* per call: what the provider charges for it, -1 while it has not seen it
    latch,    \* failure_latch
    alive,    \* the process runs
    trouble   \* counts towards MaxTrouble

vars == <<now, books, at, call, file, bill, latch, alive, trouble>>

Unknown == -1
InFlight == {"waiting", "dispatched", "sent", "answered"}
Reasons == {"no", "deadline", "cap", "bound", "unknown"}
Over(c) == bill[c] > Cost[c]

TypeOK ==
    /\ now \in 0 .. MaxTime
    /\ books \in [known : Nat, pending : Nat, unresolved : Nat, unknown : Nat, stopped : Reasons]
    /\ at \in [Calls -> {Unknown} \cup 0 .. MaxTime]
    /\ call \in [Calls -> [pc : InFlight \cup {"start", "done"}, wake : Nat, usage : Int]]
    /\ file \in [Calls -> [status : {"none", "waiting", "dispatched", "not_dispatched", "closed"},
                           cost : Int]]
    /\ bill \in [Calls -> Int]
    /\ latch \in BOOLEAN /\ alive \in BOOLEAN
    /\ trouble \in 0 .. MaxTrouble

Init ==
    /\ now = 0
    /\ books = [known |-> 0, pending |-> 0, unresolved |-> 0, unknown |-> 0, stopped |-> "no"]
    /\ at = [c \in Calls |-> Unknown]
    /\ call = [c \in Calls |-> [pc |-> "start", wake |-> 0, usage |-> Unknown]]
    /\ file = [c \in Calls |-> [status |-> "none", cost |-> 0]]
    /\ bill = [c \in Calls |-> Unknown]
    /\ latch = FALSE /\ alive = TRUE /\ trouble = 0

-----------------------------------------------------------------------------
(* Allowance *)

Stop(b) == IF now >= Deadline THEN "deadline" ELSE b.stopped

Admits(b, amount) ==
    Stop(b) = "no" /\ b.known + b.pending + b.unresolved + amount <= Cap

\* reserve: a refusal is remembered and stops every later call.
Reserve(b, amount) ==
    IF Admits(b, amount) THEN [b EXCEPT !.pending = @ + amount]
    ELSE [b EXCEPT !.stopped = IF Stop(b) # "no" THEN Stop(b) ELSE "cap"]

\* Mutant: a call without usage is settled as if it had been free.
SettleUnknownFree(b, reserved, actual, within) ==
    LET unknown == b.unknown + (IF actual = Unknown THEN 1 ELSE 0) IN
    [b EXCEPT !.pending = @ - reserved,
              !.known = @ + (IF actual = Unknown THEN 0 ELSE actual),
              !.unknown = unknown,
              !.stopped = IF ~ within THEN "bound"
                          ELSE IF unknown >= MaxUnknown THEN "unknown" ELSE @]

\* settle: without usage the reservation stays, as a liability.
Settle(b, reserved, actual, within) ==
    LET unknown == b.unknown + (IF actual = Unknown THEN 1 ELSE 0) IN
    [b EXCEPT !.pending = @ - reserved,
              !.unresolved = @ + (IF actual = Unknown THEN reserved ELSE 0),
              !.known = @ + (IF actual = Unknown THEN 0 ELSE actual),
              !.unknown = unknown,
              !.stopped = IF ~ within THEN "bound"
                          ELSE IF unknown >= MaxUnknown THEN "unknown" ELSE @]

-----------------------------------------------------------------------------
(* The token pacer *)

\* What the window holds at time t of the admissions made so far.
Used(t) == Total(Tokens, {c \in Calls : at[c] # Unknown /\ at[c] + Window > t})

\* Mutant: an admission expires a moment early.
FitsEarly(c, t) ==
    Total(Tokens, {d \in Calls : at[d] # Unknown /\ at[d] + Window > t + 1}) + Tokens[c] <= Limit

Fits(c, t) == Used(t) + Tokens[c] <= Limit

\* When enough earlier admissions will have expired, or the deadline.
WakeTime(c) ==
    Min({Deadline} \cup {t \in now + 1 .. now + Window : Fits(c, t)})

-----------------------------------------------------------------------------
(* A call *)

\* _write_call_record, _write: a temporary file renamed into place, or an error.
Write(c, status, cost, saved) ==
    /\ file' = IF saved THEN [file EXCEPT ![c] = [status |-> status, cost |-> cost]] ELSE file
    /\ trouble' = trouble + (IF saved THEN 0 ELSE 1) /\ trouble' <= MaxTrouble

\* An exception before dispatch: the reservation is released at no cost.
Withdraw(c, b) ==
    /\ books' = Settle(b, Cost[c], 0, TRUE)
    /\ call' = [call EXCEPT ![c].pc = "done"]
    /\ \E saved \in BOOLEAN : Write(c, "not_dispatched", 0, saved)

\* The exception is that a record cannot be written.
WriteFails(c, b) ==
    /\ trouble < MaxTrouble /\ trouble' = trouble + 1
    /\ books' = Settle(b, Cost[c], 0, TRUE)
    /\ call' = [call EXCEPT ![c].pc = "done"]
    /\ file' = [file EXCEPT ![c] = [status |-> "not_dispatched", cost |-> 0]]

\* Mutant: what happened during the wait for tokens is not looked at again.
AdmitPacedStale(c, b) ==
    /\ Write(c, "dispatched", Unknown, TRUE)
    /\ call' = [call EXCEPT ![c].pc = "dispatched"]
    /\ books' = b

\* After the wait: the latch (a framework's call), the allowance again (reserve(0)), and
\* the record that says "dispatched", which must be on disk before anything is sent.
AdmitPaced(c, b) ==
    LET again == Reserve(b, 0) IN
    IF (c \in Framework /\ latch) THEN Withdraw(c, b)
    ELSE IF ~ Admits(b, 0) THEN Withdraw(c, again)
    ELSE \/ /\ Write(c, "dispatched", Unknown, TRUE)
            /\ call' = [call EXCEPT ![c].pc = "dispatched"]
            /\ books' = again
         \/ WriteFails(c, again)

\* One pass of the pacer's loop.  recorded_model asks the allowance once more when the
\* pacer refuses, so that the deadline is recorded as its reason to stop.
Pass(c, b) ==
    LET paced == Tokens[c] > 0 IN
    IF paced /\ (Tokens[c] > Limit \/ now >= Deadline)
    THEN Withdraw(c, IF c \in Framework THEN b ELSE Reserve(b, 0)) /\ UNCHANGED at
    ELSE IF ~ paced \/ Fits(c, now)
    THEN AdmitPaced(c, b) /\ at' = IF paced THEN [at EXCEPT ![c] = now] ELSE at
    ELSE /\ call' = [call EXCEPT ![c].pc = "waiting", ![c].wake = WakeTime(c)]
         /\ Write(c, "waiting", 0, TRUE)
         /\ books' = b
         /\ UNCHANGED at

\* complete, _admit: up to the first sleep, or the dispatch, nothing is awaited.
Begin(c) ==
    /\ alive /\ call[c].pc = "start"
    /\ IF (c \in Framework /\ latch) \/ ~ Admits(books, Cost[c])
       THEN /\ books' = IF c \in Framework /\ latch THEN books ELSE Reserve(books, Cost[c])
            /\ call' = [call EXCEPT ![c].pc = "done"]
            /\ UNCHANGED <<at, file, trouble>>
       ELSE \/ Pass(c, Reserve(books, Cost[c]))
            \/ WriteFails(c, Reserve(books, Cost[c])) /\ UNCHANGED at
    /\ UNCHANGED <<now, bill, latch, alive>>

\* `await sleep(delay)' returns.
Wake(c) ==
    /\ alive /\ call[c].pc = "waiting" /\ now >= call[c].wake
    /\ Pass(c, books)
    /\ UNCHANGED <<now, bill, latch, alive>>

\* The adapter, or the worker thread, sends the request; the provider takes it.
Send(c) ==
    /\ alive /\ call[c].pc = "dispatched"
    /\ call' = [call EXCEPT ![c].pc = "sent"]
    /\ bill' = [bill EXCEPT ![c] = 0]
    /\ UNCHANGED <<now, books, at, file, latch, alive, trouble>>

\* usage_cost, _response_cost: usage may be missing or malformed, and then says nothing.
Priced(charge) == {charge, Unknown}

\* External: the provider bills, within the reservation or beyond it, and answers with or
\* without usage.  The bill stands when the process is gone too.
Serve(c) ==
    /\ bill[c] = 0 /\ call[c].usage = Unknown
    /\ \E charge \in 1 .. Cost[c] + 1 :
           /\ bill' = [bill EXCEPT ![c] = charge]
           /\ IF alive /\ call[c].pc = "sent"
              THEN \E usage \in Priced(charge) :
                       call' = [call EXCEPT ![c].pc = "answered", ![c].usage = usage]
              ELSE UNCHANGED call
    /\ UNCHANGED <<now, books, at, file, latch, alive, trouble>>

\* Settle once and write the record.  A framework's failed call sets the latch (by
\* default): so does a record that cannot be written.
Close(c, usage) ==
    LET within == usage <= Cost[c] IN
    /\ books' = Settle(books, Cost[c], usage, within)
    /\ call' = [call EXCEPT ![c].pc = "done"]
    /\ \E saved \in BOOLEAN :
           /\ Write(c, "closed", usage, saved)
           /\ latch' = (latch \/ (c \in Framework /\ ~ (usage # Unknown /\ within /\ saved)))

\* recorded_model's continuation, _finish.
Finish(c) ==
    /\ alive /\ call[c].pc = "answered"
    /\ Close(c, call[c].usage)
    /\ UNCHANGED <<now, at, bill, alive>>

\* Mutant: a call counts as dispatched once its answer is there.
FailUndispatched(c) ==
    /\ alive /\ call[c].pc \in InFlight \ {"answered"}
    /\ Withdraw(c, books)
    /\ UNCHANGED <<now, at, bill, latch, alive>>

\* The connection breaks, or recorded_model's caller is cancelled (also when the answer is
\* there and has not been taken): the cost is unknown.  A waiting call is withdrawn.
Fail(c) ==
    /\ alive
    /\ \/ /\ call[c].pc = "waiting" /\ c \notin Framework
          /\ Withdraw(c, books)
          /\ UNCHANGED latch
       \/ /\ call[c].pc \in {"dispatched", "sent"} \/ (call[c].pc = "answered" /\ c \notin Framework)
          /\ Close(c, Unknown)
    /\ UNCHANGED <<now, at, bill, alive>>

\* A wrapper latches an error it saw, or its cancellation.
SetLatch ==
    /\ alive /\ ~ latch /\ Framework # {} /\ trouble < MaxTrouble
    /\ latch' = TRUE /\ trouble' = trouble + 1
    /\ UNCHANGED <<now, books, at, call, file, bill, alive>>

Tick ==
    /\ now < MaxTime
    /\ now' = now + 1
    /\ UNCHANGED <<books, at, call, file, bill, latch, alive, trouble>>

\* The process dies: the files and the bills remain.
Crash ==
    /\ alive /\ alive' = FALSE
    /\ UNCHANGED <<now, books, at, call, file, bill, latch, trouble>>

Next ==
    \/ \E c \in Calls : Begin(c) \/ Wake(c) \/ Send(c) \/ Serve(c) \/ Finish(c) \/ Fail(c)
    \/ SetLatch \/ Tick \/ Crash

Spec == Init /\ [][Next]_vars

-----------------------------------------------------------------------------
(* Properties *)

\* The allowance never admits more than its cap as long as every answer stays within its
\* reservation, and what it holds always covers what the provider charges, whether the
\* usage came back, was missing, or the call failed or was cancelled (costs.py:125-130).
LiabilitiesCovered ==
    LET held == books.known + books.pending + books.unresolved IN
    /\ (\A c \in Calls : ~ Over(c)) =>
           held <= Cap /\ Total(bill, {c \in Calls : bill[c] > 0}) <= held
    /\ books.pending = Total(Cost, {c \in Calls : call[c].pc \in InFlight})

\* The files alone, which is all that a report has after a crash, account for every
\* request that reached the provider: none looks unsent, and a known cost is what was
\* charged (costs.py:201, "atomically published before adapter dispatch").
FilesCoverBill ==
    \A c \in Calls : bill[c] # Unknown =>
        /\ file[c].status \in {"dispatched", "closed"}
        /\ file[c].cost \in {Unknown, bill[c]}

\* In no span of the window's length does the pacer admit more tokens than the limit,
\* whatever waits, wakes and cancellations come between (costs.py:86-88).
WindowHolds ==
    \A t \in 0 .. MaxTime :
        Total(Tokens, {c \in Calls : at[c] # Unknown /\ at[c] \in t - Window + 1 .. t}) <= Limit

\* Once the allowance has stopped (deadline, cap, broken bound, unknown usage), no call is
\* dispatched, however long ago it reserved its money; nor a framework's behind the latch.
DispatchesAdmitted ==
    \A c \in Calls : call[c].pc # "dispatched" /\ call'[c].pc = "dispatched" =>
        /\ books.stopped = "no" /\ now < Deadline
        /\ ~ (c \in Framework /\ latch)

NothingAfterStop == [][DispatchesAdmitted]_vars
==============================================================================
