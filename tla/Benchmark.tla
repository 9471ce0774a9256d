------------------------------- MODULE Benchmark -------------------------------
(***************************************************************************)
(* A benchmark run and its report: evaluation/memory_benchmark.py          *)
(* (schedule, run_trial, execute, summarize, report).  Attempts run in     *)
(* case order, several cases at once; judging follows when all have ended. *)
(* `report' rebuilds the results from the files that a finished,           *)
(* interrupted or killed run has left.                                     *)
(*                                                                         *)
(* A model call is Spending's, seen here as a record in the attempt's      *)
(* list and a file of its own; the moment the allowance stops is free.     *)
(***************************************************************************)
EXTENDS Naturals, FiniteSets

CONSTANTS
    Trials,      \* the scheduled attempts, in schedule order
    CaseOf,      \* the case of each attempt
    Calls,       \* model calls of the attempts
    TrialOf,     \* the attempt that makes each call
    Slots,       \* concurrent_cases
    MaxTrouble   \* bound: failed writes and interruptions

BenchmarkAssumption ==
    /\ Trials \subseteq Nat
    /\ CaseOf \in [Trials -> Nat]
    /\ TrialOf \in [Calls -> Trials]
    /\ Slots \in Nat \ {0} /\ MaxTrouble \in Nat

VARIABLES
    phase,      \* "trials", "judging", "finished", "ended" (interrupted or failed), "dead"
    stopped,    \* the generation allowance has stopped or its deadline has passed
    trial,      \* per attempt, in memory: its status
    record,     \* per call: the entry of model_calls in memory
    file,       \* per call: calls/call-NNN.json
    saved,      \* per attempt: trial.json, its status and its model_calls
    verdict,    \* per attempt, in memory: its judgment
    identity,   \* per attempt: identity.json of its judgment
    judgments,  \* judgments.json
    paid,       \* the calls that reached the provider
    trouble     \* counts towards MaxTrouble

vars == <<phase, stopped, trial, record, file, saved, verdict, identity, judgments, paid, trouble>>

\* A call's record: a status and what its cost says.
Status == {"none", "waiting", "dispatched", "withdrawn", "failed", "answered"}
Ended == {"completed", "failed", "interrupted"}
CallsOf(t) == {c \in Calls : TrialOf[c] = t}
NoCalls == [c \in Calls |-> "none"]
Verdicts == {"none", "right", "wrong", "unresolved"}

TypeOK ==
    /\ phase \in {"trials", "judging", "finished", "ended", "dead"}
    /\ stopped \in BOOLEAN
    /\ trial \in [Trials -> {"planned", "started"} \cup Ended]
    /\ {record, file} \subseteq [Calls -> Status]
    /\ saved \in [Trials -> [status : {"none", "started"} \cup Ended, calls : [Calls -> Status]]]
    /\ {verdict, judgments} \subseteq [Trials -> Verdicts]
    /\ identity \in [Trials -> {"none", "torn", "whole"}]
    /\ paid \subseteq Calls
    /\ trouble \in 0 .. MaxTrouble

Init ==
    /\ phase = "trials" /\ stopped = FALSE
    /\ trial = [t \in Trials |-> "planned"]
    /\ record = NoCalls /\ file = NoCalls
    /\ saved = [t \in Trials |-> [status |-> "none", calls |-> NoCalls]]
    /\ verdict = [t \in Trials |-> "none"] /\ judgments = verdict
    /\ identity = [t \in Trials |-> "none"]
    /\ paid = {} /\ trouble = 0

Running == phase \in {"trials", "judging"}
Interrupted == phase = "ended"
Mishap(happens) == trouble' = trouble + (IF happens THEN 1 ELSE 0) /\ trouble' <= MaxTrouble

-----------------------------------------------------------------------------
(* Attempts *)

\* run_case takes its attempts in order, while the allowance and a slot are there.
Startable(t) ==
    /\ phase = "trials" /\ ~ stopped /\ trial[t] = "planned"
    /\ \A u \in Trials : CaseOf[u] = CaseOf[t] /\ u < t => trial[u] \in Ended
    /\ Cardinality({CaseOf[u] : u \in {v \in Trials : trial[v] = "started"}}) < Slots

\* run_trial: the directory, its identity and the first checkpoint, before any call.
StartTrial(t) ==
    /\ Startable(t)
    /\ trial' = [trial EXCEPT ![t] = "started"]
    /\ saved' = [saved EXCEPT ![t].status = "started"]
    /\ UNCHANGED <<phase, stopped, record, file, verdict, identity, judgments, paid, trouble>>

\* recorded_model: the call is entered in the list and in its file.
StartCall(c) ==
    /\ phase = "trials" /\ trial[TrialOf[c]] = "started" /\ record[c] = "none"
    /\ \E status \in {"waiting", "dispatched"} :
           /\ record' = [record EXCEPT ![c] = status]
           /\ file' = [file EXCEPT ![c] = status]
    /\ UNCHANGED <<phase, stopped, trial, saved, verdict, identity, judgments, paid, trouble>>

DispatchCall(c) ==
    /\ phase = "trials" /\ record[c] = "waiting"
    /\ record' = [record EXCEPT ![c] = "dispatched"]
    /\ file' = [file EXCEPT ![c] = "dispatched"]
    /\ UNCHANGED <<phase, stopped, trial, saved, verdict, identity, judgments, paid, trouble>>

\* External: the request reaches the provider.
Pay(c) ==
    /\ record[c] = "dispatched" /\ phase # "dead"
    /\ paid' = paid \cup {c}
    /\ UNCHANGED <<phase, stopped, trial, record, file, saved, verdict, identity, judgments, trouble>>

\* The call ends: withdrawn from the wait, failed, or answered.  Its file may stay behind.
EndCall(c) ==
    /\ phase \in {"trials", "ended"}
    /\ \E status \in {"withdrawn", "failed", "answered"}, written \in BOOLEAN :
           /\ \/ record[c] = "waiting" /\ status = "withdrawn"
              \/ record[c] = "dispatched" /\ status = "failed"
              \/ c \in paid /\ record[c] = "dispatched" /\ status = "answered" /\ ~ Interrupted
           /\ record' = [record EXCEPT ![c] = status]
           /\ file' = IF written THEN [file EXCEPT ![c] = status] ELSE file
           /\ Mishap(~ written)
    /\ UNCHANGED <<phase, stopped, trial, saved, verdict, identity, judgments, paid>>

Quiet(t) == \A c \in CallsOf(t) : record[c] \notin {"waiting", "dispatched"}

\* The attempt ends: trial.json is replaced by the whole record.  A checkpoint that
\* fails ends the run (gather cancels the other cases).
EndTrial(t) ==
    /\ phase \in {"trials", "ended"} /\ trial[t] = "started" /\ Quiet(t)
    /\ \E status \in IF Interrupted THEN {"interrupted"} ELSE {"completed", "failed"},
          written \in BOOLEAN :
           /\ trial' = [trial EXCEPT ![t] = status]
           /\ IF written
              THEN /\ saved' = [saved EXCEPT ![t] = [status |-> status,
                           calls |-> [c \in Calls |-> IF TrialOf[c] = t THEN record[c] ELSE "none"]]]
                   /\ UNCHANGED phase
              ELSE phase' = "ended" /\ UNCHANGED saved
           /\ Mishap(~ written)
    /\ UNCHANGED <<stopped, record, file, verdict, identity, judgments, paid>>

\* The cap, the deadline or a broken bound (Spending).
AllowanceStops ==
    /\ phase = "trials" /\ ~ stopped
    /\ stopped' = TRUE
    /\ UNCHANGED <<phase, trial, record, file, saved, verdict, identity, judgments, paid, trouble>>

-----------------------------------------------------------------------------
(* Judging *)

Attempted == {t \in Trials : trial[t] \in Ended}

\* Mutant: a case's attempts are judged while others still run.
JudgeEarly ==
    /\ phase = "trials" /\ Attempted # {}
    /\ phase' = "judging"
    /\ UNCHANGED <<stopped, trial, record, file, saved, verdict, identity, judgments, paid, trouble>>

\* gather has returned: every case ran its attempts, or saw the allowance stop.
StartJudging ==
    /\ phase = "trials"
    /\ \A t \in Trials : trial[t] # "started" /\ (trial[t] = "planned" => stopped)
    /\ phase' = "judging"
    /\ UNCHANGED <<stopped, trial, record, file, saved, verdict, identity, judgments, paid, trouble>>

\* Attempts are judged in schedule order, each into its own folder: its identity first,
\* which write_json writes in place.  An attempt that failed, ran out of its budget or gave
\* no answer ("failed" here) is wrong without a call.
NextToJudge(t) ==
    /\ phase = "judging" /\ t \in Attempted /\ verdict[t] = "none"
    /\ \A u \in Attempted : u < t => verdict[u] # "none"

BeginJudgment(t) ==
    /\ NextToJudge(t) /\ trial[t] = "completed" /\ identity[t] # "whole"
    /\ identity' = [identity EXCEPT ![t] = IF @ = "none" THEN "torn" ELSE "whole"]
    /\ UNCHANGED <<phase, stopped, trial, record, file, saved, verdict, judgments, paid, trouble>>

Judge(t) ==
    /\ NextToJudge(t)
    /\ \E outcome \in Verdicts \ {"none"} :
           /\ IF trial[t] = "completed" THEN identity[t] = "whole" ELSE outcome = "wrong"
           /\ verdict' = [verdict EXCEPT ![t] = outcome]
           /\ judgments' = verdict'
    /\ UNCHANGED <<phase, stopped, trial, record, file, saved, identity, paid, trouble>>

Finish ==
    /\ phase = "judging" /\ \A t \in Attempted : verdict[t] # "none"
    /\ phase' = "finished"
    /\ UNCHANGED <<stopped, trial, record, file, saved, verdict, identity, judgments, paid, trouble>>

\* Interrupted from the keyboard: the running attempts end, each with its checkpoint.
Interrupt ==
    /\ Running /\ trouble < MaxTrouble
    /\ phase' = "ended" /\ trouble' = trouble + 1
    /\ UNCHANGED <<stopped, trial, record, file, saved, verdict, identity, judgments, paid>>

\* The process is killed.
Kill ==
    /\ phase \notin {"dead", "finished"}
    /\ phase' = "dead"
    /\ UNCHANGED <<stopped, trial, record, file, saved, verdict, identity, judgments, paid, trouble>>

Next ==
    \/ \E t \in Trials : StartTrial(t) \/ EndTrial(t) \/ BeginJudgment(t) \/ Judge(t)
    \/ \E c \in Calls : StartCall(c) \/ DispatchCall(c) \/ Pay(c) \/ EndCall(c)
    \/ AllowanceStops \/ StartJudging \/ Finish \/ Interrupt \/ Kill

Spec == Init /\ [][Next]_vars

-----------------------------------------------------------------------------
(* report *)

\* Mutant: the call's own file always wins.
MergeFile(prior, own) == IF own # "none" THEN own ELSE prior

\* reconcile_calls: one entry per call; the file wins, unless only the list has the answer.
Merge(prior, own) ==
    IF own = "none" \/ (prior = "answered" /\ own # "answered") THEN prior ELSE own

\* An attempt is in the report when it has a trial.json or the file of a call.
ReportedTrials ==
    {t \in Trials : saved[t].status # "none" \/ \E c \in CallsOf(t) : file[c] # "none"}

ReportedStatus(t) == IF saved[t].status = "none" THEN "interrupted" ELSE saved[t].status
ReportedCall(c) == Merge(saved[TrialOf[c]].calls[c], file[c])

\* report parses every identity.json that is there; a torn one is an error.
Readable == \A t \in Trials : identity[t] # "torn"

\* Mutant: a judgment that was cut short counts as a wrong answer.
InterruptedIsWrong(t) ==
    IF judgments[t] = "none" /\ identity[t] = "whole" THEN "wrong" ELSE judgments[t]

\* A judgment is in judgments.json, or has left a folder that says whose it is.
ReportedVerdict(t) ==
    IF judgments[t] = "none" /\ identity[t] = "whole" THEN "unresolved" ELSE judgments[t]

\* summarize, over what a run knows or what a report finds.
Summary(tried, statusOf, entryOf, verdictOf) ==
    [attempted |-> tried,
     status |-> [t \in tried |-> statusOf[t]],
     known |-> {c \in Calls : TrialOf[c] \in tried /\ entryOf[c] = "answered"},
     unknown |-> {c \in Calls : TrialOf[c] \in tried /\ entryOf[c] \in {"dispatched", "failed"}},
     correct |-> {t \in Trials : verdictOf[t] = "right"},
     unresolved |-> {t \in Trials : verdictOf[t] \in {"none", "unresolved"}},
     completed |-> tried = Trials /\ \A t \in Trials : verdictOf[t] \in {"right", "wrong"}]

Report == Summary(ReportedTrials, [t \in Trials |-> ReportedStatus(t)],
                  [c \in Calls |-> ReportedCall(c)], [t \in Trials |-> ReportedVerdict(t)])

-----------------------------------------------------------------------------
(* Properties *)

\* The report of the files that any interruption, kill or failed write leaves (when no
\* identity.json was cut short) puts every request that reached the provider into the
\* costs of an attempt, and keeps an answer that either copy of the call still has
\* (memory_benchmark.py:348-349).
ReportCoversCalls ==
    Readable =>
    /\ paid \subseteq Report.known \cup Report.unknown
    /\ \A c \in Calls : "answered" \in {file[c], saved[TrialOf[c]].calls[c]} => c \in Report.known

\* After a run that came to its end, the report says what the run's own summary said,
\* although some calls' files could not be written.
ReportIsSummary ==
    phase = "finished" => Report = Summary(Attempted, trial, record, verdict)

\* Whenever the run is stopped, the report is not refused by summarize (a verdict needs an
\* attempt), and it claims to be complete only when every planned attempt has ended and
\* was judged as it stands.
ReportClaimsLittle ==
    Readable =>
    /\ \A t \in Trials : ReportedVerdict(t) # "none" => t \in ReportedTrials
    /\ Report.completed =>
           \A t \in Trials : saved[t].status \in {"completed", "failed"}
                          /\ verdict[t] = ReportedVerdict(t)
==============================================================================
