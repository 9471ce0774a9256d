--------------------------------- MODULE Parts ---------------------------------
(***************************************************************************)
(* The components that share nothing with one another: blob files, the     *)
(* files at a workspace's path, lexical indexes, source generations,       *)
(* effective reads, an evaluation's spending, and its report.  A behaviour *)
(* is one of one part, chosen in its first state, and the other parts'     *)
(* variables stay unused: one run checks them all, each by itself.         *)
(***************************************************************************)
EXTENDS Integers

CONSTANTS
    Explored,    \* the parts to explore
    MaxTrouble,  \* bound: what goes wrong in files, generations and runs
    MaxErrors,   \* bound: what goes wrong in indexes, reads and costs
    MaxLog       \* bound: records published

\* BlobFiles
CONSTANTS Puts, Digests, DigestOf, Shards, ShardOf, Backends
\* WorkspaceFiles
CONSTANTS Openers, Converters, Format
\* LexicalIndex, SourceGenerations, Spending: searches, or model calls
CONSTANTS Calls, Instances, InstanceOf, FileOf
CONSTANTS Clients, ClientOf, Threshold
CONSTANTS Framework, Tokens, Cost, Cap, Limit, Window, Deadline, MaxUnknown, MaxTime
\* EffectiveReads
CONSTANTS Nodes, Length, Amendments, SubjectOf, TargetOf, Readers, Requests,
          MaxHops, MaxTotal, MaxChanges
\* Benchmark
CONSTANTS Trials, CaseOf, ModelCalls, TrialOf, Slots

VARIABLES part, trouble, file, call  \* the last three are those of several parts

VARIABLES backend, pc, temps, synced, shards, names, owner, torn, shardsOnDisk, namesOnDisk,
          safe, lost
VARIABLES dest, writer, opener, convert
VARIABLES log, handle, closed, holder
VARIABLES published, prepared, lock, search, volume, view, preparer, searcher
VARIABLES journal, states, bytes, reader, changes
VARIABLES now, books, at, bill, latch, alive
VARIABLES phase, stopped, trial, record, saved, verdict, identity, judgments, paid

blobVars == <<backend, pc, temps, synced, shards, names, owner, torn, shardsOnDisk, namesOnDisk,
              safe, lost>>
pathVars == <<dest, writer, opener, convert>>
indexVars == <<log, handle, closed, holder>>
generationVars == <<published, prepared, lock, search, volume, view, preparer, searcher>>
readVars == <<journal, states, bytes, reader, changes>>
costVars == <<now, books, at, bill, latch, alive>>
runVars == <<phase, stopped, trial, record, saved, verdict, identity, judgments, paid>>
vars == <<part, trouble, file, call, blobVars, pathVars, indexVars, generationVars, readVars,
          costVars, runVars>>

Blobs == INSTANCE BlobFiles
Paths == INSTANCE WorkspaceFiles
Indexes == INSTANCE LexicalIndex WITH MaxTrouble <- MaxErrors
Generations == INSTANCE SourceGenerations WITH log <- published, call <- search
Reads == INSTANCE EffectiveReads WITH MaxTrouble <- MaxErrors
Costs == INSTANCE Spending WITH MaxTrouble <- MaxErrors
Runs == INSTANCE Benchmark WITH Calls <- ModelCalls

ASSUME PartsAssumption ==
    /\ Blobs!PutsAssumption /\ Paths!FilesAssumption /\ Indexes!CallsAssumption
    /\ Generations!GenerationsAssumption /\ Reads!ReadsAssumption
    /\ Costs!SpendingAssumption /\ Runs!BenchmarkAssumption

NoBlobs ==
    /\ backend = 0 /\ pc = 0 /\ temps = 0 /\ synced = 0 /\ shards = 0 /\ names = 0 /\ owner = 0
    /\ torn = 0 /\ shardsOnDisk = 0 /\ namesOnDisk = 0 /\ safe = 0 /\ lost = 0
NoPaths == dest = 0 /\ writer = 0 /\ opener = 0 /\ convert = 0
NoIndexes == log = 0 /\ handle = 0 /\ closed = 0 /\ holder = 0
NoGenerations ==
    /\ published = 0 /\ prepared = 0 /\ lock = 0 /\ search = 0
    /\ volume = 0 /\ view = 0 /\ preparer = 0 /\ searcher = 0
NoReads == journal = 0 /\ states = 0 /\ bytes = 0 /\ reader = 0 /\ changes = 0
NoCosts == now = 0 /\ books = 0 /\ at = 0 /\ bill = 0 /\ latch = 0 /\ alive = 0
NoRuns ==
    /\ phase = 0 /\ stopped = 0 /\ trial = 0 /\ record = 0 /\ saved = 0
    /\ verdict = 0 /\ identity = 0 /\ judgments = 0 /\ paid = 0

Init ==
    /\ part \in Explored
    /\ IF part = "blobs" THEN Blobs!Init ELSE NoBlobs
    /\ IF part = "paths" THEN Paths!Init ELSE NoPaths
    /\ IF part = "indexes" THEN Indexes!Init ELSE NoIndexes
    /\ IF part = "generations" THEN Generations!Init ELSE NoGenerations
    /\ IF part = "reads" THEN Reads!Init ELSE NoReads
    /\ IF part = "costs" THEN Costs!Init ELSE NoCosts
    /\ IF part = "runs" THEN Runs!Init ELSE NoRuns
    /\ part \notin {"indexes", "costs", "runs"} => file = 0
    /\ part \notin {"indexes", "costs"} => call = 0

\* What a step of one part leaves alone of the others.
NotBlobs == <<part, pathVars, indexVars, generationVars, readVars, costVars, runVars>>
NotPaths == <<part, blobVars, indexVars, generationVars, readVars, costVars, runVars>>
NotIndexes == <<part, blobVars, pathVars, generationVars, readVars, costVars, runVars>>
NotGenerations == <<part, blobVars, pathVars, indexVars, readVars, costVars, runVars>>
NotReads == <<part, blobVars, pathVars, indexVars, generationVars, costVars, runVars>>
NotCosts == <<part, blobVars, pathVars, indexVars, generationVars, readVars, runVars>>
NotRuns == <<part, blobVars, pathVars, indexVars, generationVars, readVars, costVars>>

Next ==
    \/ part = "blobs" /\ Blobs!Next /\ UNCHANGED <<NotBlobs, file, call>>
    \/ part = "paths" /\ Paths!Next /\ UNCHANGED <<NotPaths, file, call>>
    \/ part = "indexes" /\ Indexes!Next /\ UNCHANGED NotIndexes
    \/ part = "generations" /\ Generations!Next /\ UNCHANGED <<NotGenerations, file, call>>
    \/ part = "reads" /\ Reads!Next /\ UNCHANGED <<NotReads, file, call>>
    \/ part = "costs" /\ Costs!Next /\ UNCHANGED NotCosts
    \/ part = "runs" /\ Runs!Next /\ UNCHANGED <<NotRuns, call>>

Spec == Init /\ [][Next]_vars

-----------------------------------------------------------------------------
\* A file under a content's name never holds a part of it: not during an upload, nor after
\* a crash or a power loss (BlobFiles; with its types, as one property of each part has).
NeverTorn == part = "blobs" => Blobs!TypeOK /\ Blobs!NeverTorn

\* What a put has returned can be read; after a power loss too, if the put went the whole
\* way in a directory whose own name was on disk (BlobFiles).
ReturnedIsReadable == part = "blobs" => Blobs!ReturnedIsReadable

\* What a put has returned survives a power loss: "Durable immutable blobs" (BlobFiles).
ReturnedIsDurable == part = "blobs" => Blobs!ReturnedIsDurable

\* Whoever opens, converts, dies or is cancelled at a path, there is one workspace at it,
\* the one all of them have read (WorkspaceFiles).
OneWorkspace == part = "paths" => Paths!TypeOK /\ Paths!OneWorkspace

\* First openers that come at the same time all succeed: an opener fails only on another's
\* file, or when something else went wrong (WorkspaceFiles).
OpensUnlessRefused == part = "paths" => Paths!OpensUnlessRefused

\* The staging directory is there as long as its copying thread is, however often the
\* conversion is cancelled, and gone when the conversion is over (WorkspaceFiles).
StagingOutlivesCopy == part = "paths" => Paths!StagingOutlivesCopy

\* An index that somebody has open holds every record up to its cursor exactly once, and
\* its cursor never leads the log, whoever refreshed, failed or died (LexicalIndex).
IndexExact == part = "indexes" => Indexes!TypeOK /\ Indexes!IndexExact

\* A search has seen everything that was published when its call took the workspace's
\* lock, and nothing that is not published (LexicalIndex).
SearchIsFresh == part = "indexes" => Indexes!SearchIsFresh

\* A search answers from the generation of exactly the records that were committed when it
\* took the lock, whatever was cancelled, failed or killed before (SourceGenerations).
HitsAreCurrent == part = "generations" => Generations!HitsAreCurrent

\* What a client has prepared, and whatever workspace.json calls ready, is whole on the
\* volume that the other container sees (SourceGenerations).
GenerationsWhole == part = "generations" => Generations!TypeOK /\ Generations!GenerationsWhole

\* A read shows every character that no amendment covers once, and never one that an
\* applicable amendment covers, at any hop (EffectiveReads).
ReadsAreEffective == part = "reads" => Reads!TypeOK /\ Reads!ReadsAreEffective

\* The bytes counted against a handle's limit are those of the sources it holds, however
\* its readers interleave (EffectiveReads).
BytesAccounted == part = "reads" => Reads!BytesAccounted

\* Of two amendments whose passages overlap, neither replaces anything (EffectiveReads).
OverlapsAreBlocked == part = "reads" => Reads!OverlapsAreBlocked

\* The allowance never admits more than its cap while answers stay within their
\* reservations, and holds at least what the provider charges (Spending).
LiabilitiesCovered == part = "costs" => Costs!TypeOK /\ Costs!LiabilitiesCovered

\* The files alone account for every request that reached the provider, whatever died or
\* could not be written (Spending).
FilesCoverBill == part = "costs" => Costs!FilesCoverBill

\* In no span of the window's length does the pacer admit more tokens than the limit
\* (Spending).
WindowHolds == part = "costs" => Costs!WindowHolds

\* Once the allowance has stopped, no call is dispatched, however long ago it reserved its
\* money; nor a framework's call behind a framework's failure (Spending).
NothingAfterStop == [][part = "costs" => Costs!DispatchesAdmitted]_vars

\* The report of what any interruption leaves puts every request that reached the provider
\* into the costs, and keeps an answer that either copy of a call has (Benchmark).
ReportCoversCalls == part = "runs" => Runs!ReportCoversCalls

\* A report made from the files says what the run said of itself at its end, and before
\* that claims no more than was done: no verdict without an attempt, and completion only
\* when every planned attempt has ended and was judged as it stands (Benchmark).
ReportIsTrue == part = "runs" => Runs!TypeOK /\ Runs!ReportIsSummary /\ Runs!ReportClaimsLittle
==============================================================================
