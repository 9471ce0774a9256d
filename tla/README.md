# llgm: a verification project

llgm ("lifelong graph memory") keeps conversations and imported text as immutable
evidence in a *workspace*, organizes it (topics, journals, edges), and answers
questions by letting reader branches walk the evidence under one shared budget.
This directory holds TLA+ models of the parts of the code where order, failure and
concurrency matter, TLC configurations that check them on small instances, and
theorems checked by TLAPS.

Paths below are relative to the repository root; the package is `src/llgm/`.

* [Inventory](#inventory)
* [Modules and how they correspond to the code](#modules)
* [Runs: what is checked, with which bounds](#runs)
* [Fairness](#fairness)
* [Where the code disagrees with its documentation](#findings)
* [Theorems](#theorems)
* [What is only model-checked, and what is not modelled](#limits)

<a name="inventory"></a>
## Inventory

| Part | State it keeps | Operations | What is hard about it | Module |
|---|---|---|---|---|
| **Workspace: publication** `memory/workspace.py`, `memory/conversation.py` | SQLite tables `sources`, `source_turns`, `conversations`, `idempotency`, `_index_changes`; `_lock`, `_closed`, the connection | `ingest`, `append_conversation`, `close` | blobs live outside the transaction; `asyncio.to_thread` cannot be cancelled; several processes; retries with keys; death between any two steps | `EvidenceStore`, `PublicationLog` |
| **Workspace: journals** `memory/workspace.py`, `memory/evidence.py`, `core/time.py` | `journal_entries` (the history), `_journal_operational` (what readers are given) | `append_journal`, `inspect_journal`, `operational_journal`, `compact_journal`, `interpret_journal` | the operational rows are derived incrementally and must equal what the whole history gives; entries apply in scopes and intervals; corrections of corrections | `Journal`, `JournalAlgebra` |
| **Workspace: edges** `memory/workspace.py` | `edges` with their withdrawal instant | `publish_edge`, `withdraw_edge`, `edges` | retry keys that outlive the edge they published | `Edges` |
| **Blob stores** `storage/blobs.py` | files named by SHA-256, or S3 objects | `put`, `get` | temporary file, link, fsync; concurrent writers of one digest; power loss | `BlobFiles` |
| **First open, conversion** `memory/workspace.py`, `memory/migration.py`, `storage/_sqlite.py` | the schema version, a staged copy of a database | `_ensure_open`, `copy_schema2_workspace`, `copy_schema3_workspace` | several processes open a new path at once; a conversion is cancelled while its thread copies, or renamed over a path that is being opened | `WorkspaceFiles` |
| **Lexical index** `storage/lexical.py` | an index database of its own, with a cursor into the change log | open, `refresh`, `search` | two databases commit separately; several instances share the index files | `LexicalIndex` |
| **Source generations** `retrieval/workspace.py`, `retrieval/live.py`, `retrieval/colbert.py`, `tools/colbert_modal.py` | the snapshot a client has prepared; generations on a remote volume; warm containers | `search`, `prepare` | a cancelled search leaves a remote preparation running; two containers see the volume at different times; builds that do not end | `SourceGenerations` |
| **Application facade** `llgm.py`, `memory/topics.py` | `Workspace._conversation_lock`, `LLGM._maintenance_lock`, active topic, last status | `answer`, `ingest`, `organize` | a coroutine is abandoned while its storage thread goes on; state read before an await and used after it | `Conversations` |
| **Maintenance** `llgm.py`, `memory/maintenance.py`, `memory/evidence.py` | nothing of its own | proposes links, publishes the accepted ones | a pass may be repeated, time out, or find its own earlier work | `Edges`, `Conversations` |
| **Node runtime** `inference/nodes.py`, `inference/budget.py`, `inference/repl.py` | per run: ledger, reservations, deadlines, evidence maps; per branch: steps, gaps, visible evidence, children; a worker thread per reader session | a branch per seed, child branches, subqueries, submission, final synthesis | one budget for concurrent branches; nested awaits; cancellation; which failures may be forgotten | `NodeRuntime` |
| **Effective reads and queries** `memory/query.py` | the journals a handle has loaded, its byte account | `read_segments`, `search` | amendments of amended passages, cycles, overlaps; readers that install over one another | `EffectiveReads` |
| **Spending of an evaluation** `evaluation/costs.py`, `evaluation/framework_calls.py` | the allowance, the token window, a file per call, a latch | reserve, wait, dispatch, settle | money reserved long before it is spent; deaths and failed writes between a call, its bill and its record | `Spending` |
| **Benchmark runs** `evaluation/memory_benchmark.py` | attempts, checkpoints, judgments | `execute`, `report` | what an interrupted run leaves is two copies of everything, one behind the other | `Benchmark` |
| Model clients, tokenizers, passages, configuration, viewer, command line, other tools | none of the workspace's | | pure functions, network I/O or display: [not modelled](#limits) | |

How they interact. The facade calls the Workspace (through `asyncio.to_thread`), the
model clients and the node runtime; the runtime reads the Workspace through a query handle
(`EffectiveReads`) and never writes it; maintenance reads and writes the Workspace; the
lexical index and the source generations follow the Workspace's records. Two facades may
share a Workspace object (they share its conversation lock and thread lock), and two
Workspace objects, in one process or in two, may share a database (they share nothing but
SQLite's write lock, the blob store and the index files). The evaluation drives the facade,
and frameworks it compares with, through recorded model clients.

What makes each part correct:

* *publication*: what is visible can be read; a key takes effect once; what a caller was
  told stays true; the change log misses nothing; the pointer names a topic that exists;
  history only grows;
* *blobs*: a name never stands for a part of its content, and what a put returned can be read;
* *paths*: one workspace at a path, and first openers that come together all succeed;
* *conversations*: a turn is stored on the topic that was chosen for the conversation as
  it then was; a question and its reply are adjacent and in one topic; every call ends;
* *runtime*: finishing calls and the main call are never spent by others; nothing outlives
  its owner; findings cite what was really delivered; failures are never silent; a run ends;
* *journals*: the operational rows mean what the history means, in every scope and at every
  instant; a retraction undoes; a reader's append follows what he read;
* *reads*: no text beside the amendment that replaces it, and none lost;
* *edges*: a withdrawn relation is not resurrected and not blocked for ever;
* *indexes and generations*: no published record is missed or doubled, whatever failed between
  two refreshes, and a search answers from the records there were when it began;
* *spending*: the allowance covers what the provider bills, and the files alone say so;
* *reports*: a report of what is left loses no paid call and claims no more than was done.

The hazards behind these, with the lines where they bite and the properties that watch
them, are listed in `PROJECT.json`.

<a name="modules"></a>
## Modules

### `StoreTypes` — the vocabulary
Requests, retry fingerprints, rows. The fingerprint of an import covers its node; that
of an append does not, because routing may choose another node when the call is repeated
(`conversation.py`). Content digests are the contents themselves: SHA-256 is taken as
injective. `Recorded` is `_record_retry`; `Batch` are the rows of one append, which share
one random prefix in the code and a fresh number here.

### `PublicationLog` — what a workspace promises
Atomic publications, one at a time, at most once per key, and answers that are true.
No threads, locks, blobs or crashes. It is the abstract specification of `EvidenceStore`
and the storage that `Conversations` uses.

### `EvidenceStore` — the storage layer
One action per step of a storage thread:

| Action | Code |
|---|---|
| `Call`, `Acquire`, `RefuseClosed` | `Workspace._run`, `_ensure_open` under `_lock` |
| `PutBlob` | the puts before the transaction |
| `Begin`, `Replay`, `Reject` | `_transaction` (`BEGIN IMMEDIATE`), `_retry`, the refusals of the body |
| `PutBase` | the put of a new topic's base record, inside the transaction |
| `Commit` | all rows and the retry row, `COMMIT`, return |
| `Fault` | any storage error: `ROLLBACK`, blobs stay |
| `Deliver`, `Cancel` | the event loop resumes the caller; the caller goes away, the thread does not |
| `Close`, `Crash` | `Workspace.close`; the death of one process |

A crash is the death of a process, not a loss of power: a blob put is one durable step
here. What a put is made of, and what a power loss does to it, is `BlobFiles`, whose
`ReturnedIsReadable` is what this step relies on.

### `Conversations` — the facade over one Workspace
`answer`, `ingest` and the read-only `answer`, as coroutines that interleave at their
awaits. Storage is `PublicationLog` (as `INSTANCE`): an append handed to a worker thread
is an element of `ops` that commits once, later, whether or not its coroutine is still
there. Routing and generation are free choices among what the host accepts. `past` is a
history variable: who stored each turn, and which active topic it had read.

### `NodeRuntime` — one run of the node runtime
Branches (`invocations`) move through the phases of a reader (`pc`): loading, model call,
sandboxed Python with its host callbacks, child branch, subquery, submission, stop,
cancellation. Each action is what happens between two awaits of the event loop. What a
reader asks for is free; what the host admits is not: the admission rules (`branch_budget`,
`check`, `operation`, the finishing reservations) are translated exactly. Sizes of
contexts and payloads are "fits" or "does not fit", chosen freely. Wall time is the
variable `clock`: collecting, late (only the synthesis may go on), expired.
The ledger (`inference/budget.py`) is its counters, and the reader session
(`inference/repl.py`) is what it does to a branch: the handshake between the session's
thread and the loop is one step.

### `JournalAlgebra` and `Journal` — what a node's journal says, and what is kept of it
`JournalAlgebra` has no state. Its first half is `_compact_entries`: which entries of a set
are dominated by a later overwrite of the same slot with the same applicability. Its second
half is `match_applicability` and `interpret_journal`: the status of every entry for a query
(a scope and an instant), corrections decided from the newest down (`Standing`, a recursive
function), and the conflicts. `None` in a scope means that the name is absent from it; instants
are numbers; the three proposal relations are one ("suggests"), the four single-valued ones
are one ("value").

`Journal` has the tables: `history`, `operational`, `memo` (the retry rows) and `changes` (the
index change log's journal rows). A transaction holds the write lock from its first read
(`EvidenceStore` checks that), so `AppendEntry`, `Replay` and `CompactJournal` are one step
each; a refusal changes nothing and is no step. An entry is known by its number in its
journal instead of a random identifier. `Reconciled` is the heart: after a correction the
operational rows are computed from the whole history, after any other entry from the
operational rows alone.

### `Edges` — relations, and the maintenance that proposes them
The tables `edges` and `idempotency` (as `edges` and `memo`), and one record of control
variables per maintenance pass. An edge is its place in the sequence instead of a random
identifier; an edge withdrawn keeps its place. `Replay`, `Reuse` and `Create` are the three
outcomes of a `publish_edge` transaction, `Withdraw` is `withdraw_edge`; users make such
requests at any time and again (`Serve`). A pass (`Organize`) takes its nodes one by one: the
model's proposals arrive and the node's active edges are read (`Inspect`), then each link is
skipped, for one of the three reasons of `_decision`, or handed to a worker thread (`Accept`)
whose transaction (`Publish`, `Refuse`) happens later, also for a pass that was abandoned in
between. Search, candidate selection and the validity of a model's answer are reduced to the
set `Proposals` of answers that `propose_links` admits. Passes overlap: `_maintenance_lock`
belongs to one application, the tables to all.

### `BlobFiles` — what one blob put is made of
`LocalBlobStore.put` step by step: `MakeShard` (mkdir), `FindExisting` (the fast path that
verifies a name it finds), `WriteUpload`, `SyncUpload` (fsync of the bytes), `LinkOrVerify`
(`os.link`, or verification if another put was first), `SyncShard` (fsync of the directory),
`RemoveUpload`; and `S3BlobStore.put`: `PutObject` (conditional put) and `VerifyObject`, with
an answer that is lost after the object was stored (`PutObjectFails`). The file system is
external and promises what POSIX does: what is not synced may or may not survive
`PowerLoss`, and the kernel may write a name back whenever it likes. `safe` is a history
variable: the puts that went the whole way in a directory whose own name was on disk.

### `WorkspaceFiles` — how a workspace comes to be at a path
`Workspace._ensure_open` by any number of processes: directory, version (`ReadVersion`),
journal mode with its retries (`EnableWal`, `SwitchMode`), the version again under the write
lock and then schema, adoption or refusal in one commit (`CreateOrAdopt`). And the two
conversions of `memory/migration.py` into the same path: staging directory, copying thread,
upgrade, classification (schema 2), report, last check and `rename` (`Publish`), with
cancellation at any point and more than once. A workspace is known by who made it. What a
conversion writes into its copy is one stage each.

### `LexicalIndex` — derived indexes that follow the change log
Instances share two index files (sources and journals, or journals only). A search takes its
instance's lock and its cutoff (`Enter`), opens the index, dropping one built by another
version (`OpenIndex`), looks at the cursor (`Peek`), adds what lies between the cursor, read
again, and the cutoff in one transaction (`Refresh`), and searches after the lock is gone
(`Search`). Publication of records is external to it; `Discard` is an operator who deletes a
derived index. Ranking and tokenization are data: an answer is the bag of records it saw (how
often each); the order of rows, which breaks ties between equal ranks, is left out.

### `SourceGenerations` — hybrid search over snapshots
The client's lock and prepared snapshot (`Enter`, `Cancel`), the remote `prepare` with its
PLAID build (`StartPrepare`, `Load`, `MakeIndex`, `FinishBuild`, `SaveGeneration`,
`CommitAndReply`), the remote `search`. A snapshot is its number of records. Each remote
function runs in one container over a shared volume; a container sees the volume of its last
reload and its own writes, which are committed in the background at any moment, or lost when
the container is killed. Ranking and fusion are data.

### `EffectiveReads` — passages as the journals amend them
The pure part is `_span`, `_read_segments` and `_replacement` of `memory/query.py`: a range is
cut at the bounds of its amendments, and each piece is original text, a replacement to be
read in its turn, a confirmation, or blocked. The actions are the awaits: `Fetch` (the
journal of the next node is read) and `Install` (the handle keeps it in place of what it
held, and accounts for its bytes), with `Amend`, an append to a journal, between any two. A
text is known by its coordinates; whether an entry applies is `JournalAlgebra`'s. The pieces of
a range are numbered by the rank of their start (`Nth`), which stands for the code's `sorted`.

### `Spending` — paid calls of an evaluation
`Allowance` and the token pacer as operators (`Reserve`, `Settle`, `Fits`, `WakeTime`); a call as
`recorded_model` and the framework transport make it: `Begin` up to its first wait, `Wake` for
another pass of the pacer's loop, `Send`, `Serve` (external: the provider bills within the
reservation or beyond it, with or without usage), `Finish`, `Fail`; `Crash` leaves the files
and the bills. Amounts and times are small integers.

### `Benchmark` — a run and its report
Attempts in schedule order within each case and up to `Slots` cases at once, their calls,
checkpoints and judgments, `Interrupt` and `Kill`; then what `report` makes of the files:
`Merge` is `reconcile_calls`, `Summary` is `summarize`, over what the run knows (at its end) or
over what the files say (at any moment).

### Proof and checking modules
`EvidenceStoreProofs`, `ConversationsProofs`, `NodeRuntimeProofs`, `JournalProofs`, `EdgesProofs`,
`FilesProofs` (blobs and paths), `AccountProofs` (the bytes of effective reads, spending and
reports) and `RetrievalProofs` (lexical indexes, source generations and what effective reads
show; it extends `AccountProofs`) hold the theorems; the `MC*` modules give the constants their
values.

`Parts` puts the seven components above side by side. They share no state: each is an instance
(`Blobs`, `Paths`, `Indexes`, `Generations`, `Reads`, `Costs`, `Runs`) over variables of its own,
except that several use the names `trouble`, `file` and `call`; a behaviour is one of one part,
chosen in its first state among `Explored`, and a property of a part is stated as `part = … => …`.
`MCParts` gives its constants small values. `MCEnds` (liveness of `EvidenceStore`, `Conversations`
and `NodeRuntime`) has the same shape over the variables `x1`, `x2`, …
`Totals` has the sums that `Spending` and `EffectiveReads` need, each as the size of a set of
units, so that facts on finite sets apply to them. `MCConversations` and
`MCNodeRuntime` choose between two scenarios of one component in the same way.

Operators whose comment begins with "Mutant:" are deliberately wrong variants of the
definition that follows them. Nothing uses them: each documents a plausible defect, and most
are the ones that `PROJECT.json` pairs with the property that catches them.

<a name="runs"></a>
## Runs

All runs set `CHECK_DEADLOCK FALSE`: calls and runs are bounded and really end, so every
behaviour of these models stops.

| Run | Module, configuration | Shows |
|---|---|---|
| `evidence_store` | `MCEvidenceStore`, `EvidenceStore.cfg` | two Workspace objects over one database, up to three calls, one error or death: what is visible is readable, answers hold, the change log misses nothing, and `PublicationLog` is refined (`LogSpec`) |
| `conversations` | `MCConversations`, `Conversations.cfg` | either two answers, an import and a read-only answer over two applications, nothing abandoned; or an answer, a keyed import, its retry and the key with other text, one of them abandoned; with one crash or error: turns are routed on the current topic and exchanges are adjacent unless somebody went away, and what abandoned calls store stays consistent |
| `conversations_zombie` | `MCConversations`, `ConversationsZombie.cfg` | *violation*: the first finding |
| `ends` | `MCEnds`, `Ends.cfg` | liveness: three storage threads behind two locks, calls that are abandoned, retried or fail, and nested branches with one model permit all end |
| `node_runtime` | `MCNodeRuntime`, `NodeRuntime.cfg` | two seeds that compete, one call already spent by routing; and a seed with its child and grandchild under errors, deadlines and cancellation: reservations, ownership, citations, visibility of failures |
| `node_runtime_gaps` | `MCNodeRuntime`, `NodeRuntimeGaps.cfg` | *violation*: the second finding |
| `journal` | `MCJournal`, `Journal.cfg` | every journal of up to four entries out of assertions, overwrites, proposals, entries that are not understood, corrections and corrections of corrections, asked with every scope and instant: nothing needed is archived, retraction undoes, appends are local, and callers are told the truth |
| `edges` | `MCEdges`, `Edges.cfg` | two passes overlap with each other and with users who publish, withdraw and retry: relations are unique while active, withdrawals final, receipts true, failures of a pass visible |
| `edges_withdrawn` | `MCEdges`, `EdgesWithdrawn.cfg` | *violation*: the third finding |
| `parts` | `MCParts`, `Parts.cfg` | the safety of blobs, paths, lexical indexes, source generations, effective reads, spending and reports |
| `overlaps` | `MCParts`, `Overlaps.cfg` | *violation*: the fourth finding |
| `blobs_durable` | `MCParts`, `BlobsDurable.cfg` | *violation*: the fifth finding |

Why the bounds are enough.

* *EvidenceStore*: every hazard of the layer is between two writers (a first attempt and its
  retry, two uses of a key, an import and an append to it), and the third call is the retry
  after both; one death or error placed at any step, with the cancelled threads that go on
  beside it, covers every prefix of an operation. The requests contain a key reused with other
  routing, a key reused with other content, an identity imported with other content and an
  append without a key.
* *Conversations*: one conversation (others do not share its pointer), two applications (they
  do not share a maintenance lock) and calls of each kind; the abandoned call may be the
  import whose late append meets its retry, or the answer between its two turns.
* *NodeRuntime*: the budgets are small enough to be exhausted on every path and large enough
  for a child and a grandchild to be admitted, and for the grandchild's findings to reach its
  parent, and theirs the root, in the same run (ten operations). `MaxConcurrency` is 1 where
  waiting matters and 2 where competition does. The nodes that play the same part are
  interchangeable.
* *Journals*: four entries reach an overwrite, a correction of what it archived, a retraction
  of that correction and a replacement of the retraction; one scope name with two values and
  two instants separate matching, mismatching and missing scopes, and queries before, in and
  outside an interval.
* *Edges*: two passes are enough for every race between a read and a publication; the models'
  answers contain one link proposed by two models, with two pieces of evidence, and two links
  from one node with `MaxLinks` 1; three edges leave room for a withdrawal and what follows it.
* *Blobs*: three puts of two contents in one directory are a first writer, one that finds the
  name or loses the race, and one that syncs the directory for both; two mishaps are a death
  or error and a power loss, in either order.
* *Paths*: two openers, and one conversion from each old format, over a path that is missing,
  empty, another program's or of an older schema; two cancellations are what it takes to
  interrupt the wait for a thread.
* *Indexes*: two instances may refresh one index file from two cutoffs, and one instance
  searches both files; two records are a cursor that lags by one.
* *Generations*: two clients, two searches through one of them (one cancelled, the next finds
  its preparation), a snapshot scored exactly and one that needs a build.
* *Reads*: turns of three characters and amendments `0..2`, `1..3` of one node and `0..2` and the
  whole of the other: they overlap, abut and end beside a requested passage, lead to the other
  node and back, and one of them changes between two hops.
* *Spending*: three calls that the cap admits exactly, a window that holds two tokens, a
  deadline within the clock; *reports*: two attempts of one case and one of another, with a
  call in each case, two slots.

<a name="fairness"></a>
## Fairness

Only the run `ends` needs it. Its `FairSpec` is the fairness of the three modules it composes:

* `EvidenceStore`: weak fairness of `Thread(c)`. The executor runs every submitted operation,
  and a thread that can take a free lock does. Calls are finite, so a lock that is contended
  becomes free for good. Nothing is assumed of failures, cancellation or `Close`.
* `Conversations`: weak fairness of each coroutine and of the executor.
* `NodeRuntime`: ready coroutines run, the main model answers or times out, and one of two
  things: wall time passes (`WallTime`), with nothing assumed of models and readers, so that the
  deadlines must end the run; or models answer and the readers' code ends (`Prompt`), with no
  deadline at all, so that no branch may wait for another in a circle.

A behaviour stays in its part, so one condition `WF_vars(Ready(k))` over the k-th process of
every part is one condition on each.

<a name="findings"></a>
## Where the code disagrees with its documentation

1. `conversations_zombie`: an abandoned call releases the conversation lock while its append
   still waits for a worker thread; the append commits later, on a topic chosen before
   another call moved the conversation. `docs/guide/architecture.md:70` says that mutation
   is serialized for callers that share a Workspace.
2. `node_runtime_gaps`: a branch that stops for budget, with child findings that do not fit
   its return, replaces all the gaps it had recorded by two new ones (`nodes.py:903`), so a
   failure disappears from the answer; `architecture.md:204-206` says unrecovered failures
   remain visible. The weaker `NoSilentFailure`, that *some* gap remains, holds.
3. `edges_withdrawn`: the retry key of an automatic link depends on its ends and evidence only,
   and a known key is answered with the edge as it was recorded. So when a link has been
   withdrawn and a later pass proposes it again, the pass reports the withdrawn edge as
   accepted and publishes nothing; `conversations.md:162` says accepted links are published.
   The same key is what makes `PublishedOnce` true: a withdrawn link does not come back by
   itself. If another model proposes it, the key conflicts and the pass ends there, with the
   remaining nodes undone (`Refuse`).
4. `overlaps`: `_span` looks for overlapping amendments only among those that intersect the
   requested range (`query.py:261`), so a request that only one of two overlapping amendments
   touches shows that one's whole replacement. The comment at `query.py:283-285`, the test at
   `tests/test_effective_reads.py:231` (which reads the whole passage only) and
   `architecture.md:246-247` say that neither may be shown.
5. `blobs_durable`: a put that finds the blob's name returns without syncing its directory
   (`blobs.py:59`), although the put that linked the name may not have synced it yet, and a new
   shard directory's own entry is never synced (`blobs.py:58`). After a power loss the blob may
   be missing although its put had returned, and although a transaction that names it was
   committed with `synchronous=FULL`; `blobs.py:43` calls the blobs durable. What does hold is
   `NeverTorn` and `ReturnedIsReadable`.

Seen while modelling, without a run of its own:

* `answer(remember=False)` takes no lock, although `answer`'s docstring (`llgm.py:497`) says calls
  on one instance are serialized;
* a maintenance pass that runs out of time while a publication is with a worker thread does
  not report the edge that appears;
* `enable_wal` switches an unversioned database of another program to WAL before
  `_ensure_open` refuses it (`SwitchMode`, then `CreateOrAdopt`);
* a schema-2 conversion that is cancelled a second time, while it waits for the staged
  workspace to close, removes the staging directory although a publishing thread may still
  run (`CancelConversion`);
* a PLAID build that does not end leaves a directory without manifest, which `_load` refuses to
  overwrite: that snapshot cannot be prepared any more (`Load`; `colbert.py:407`);
* a kill while a judgment's `identity.json` is written leaves a torn file on which `report`
  raises (`Readable`; `memory_benchmark.py:671`).

<a name="theorems"></a>
## Theorems

TLAPS checks every proof for all values of the constants, under the named assumptions of the
modules (`RequestsAssumption`, `CallsAssumption`, …), which TLC evaluates in every run.

**`EvidenceStoreProofs`** — `TypeCorrect`, `BlobsDurable` (`VisibleBlobsDurable`), `PointersValid`,
`EffectsOnce`, `RetriesAgree`, `AnswersStayVisible`, `AnswersStand` (`AnswersHold`),
`HistoryGrows` and `ImplementsLog`, the refinement of `PublicationLog`. None of the safety
properties is inductive alone: between `Begin` and `Commit` a thread carries the decision it
made from the tables. The inductive invariant adds that such a thread is the writer, that what
it decided is still true of the tables (its key is unrecorded, its target published or still
fresh), that the blobs it has counted as put are in the store, and that a result not yet
delivered is already visible and recorded. `EffectsOnce` adds the history of effects: an
effect of a keyed request is the one its retry row records, so a second is impossible while
the row stands, and rows are never removed. `NothingUnlogged` (`ChangeLogComplete`) goes by what
the log looks like (`ChangesInv`): it names each published node once and each turn in order,
behind its node.

**`ConversationsProofs`** — with any abandoned calls, storage errors and restarts: `TopicsStand`
(`StoredInTopic`), `KeysStoreOnce` (`KeyedOnce`), `RememberedStands` (`RememberedIsKept`); as long as
no call was cancelled or timed out: `RoutingStands` (`RoutedUnlessAbandoned`) and `ExchangesStand`
(`AdjacentUnlessAbandoned`). The invariant says who holds the conversation lock at which step
(`LockInv`), that an append on a thread was made by a call that waits for it or has ended and is
the only one of its call in its role (`OpsInv`), and what is stored for a call that has gone on
(`TurnsInv`, `SourcesInv`, `MemoInv`). While nobody is abandoned (`CalmInv`), every append on a
thread is awaited by a call inside the lock; so the pointer that another call has read cannot
move before its own append, and an answer's question is the last turn of its conversation until
the reply is stored. The first finding is what happens without that premise.

**`NodeRuntimeProofs`** — `TypeCorrect`, `FinishingCallsCovered` (`ReservationsCovered`),
`SynthesisAdmitted` (`MainAdmitted`) and their conjunction `PromisesKept` (`CallsReserved`). The
argument: a call is admitted only while strictly more calls remain than are owed to *others*,
so after it what remains covers what is owed; a branch in its finishing step gives up its own
reservation with the call; a child is admitted only if two calls are free, one of which
becomes its reservation; a queued seed is counted twice, and starting it turns two owed calls
into one reservation. `Enough` (two calls per seed) is the only premise, and is needed only
initially. The main call stays because reader calls never use the last model call nor the
last operation, whatever `Enough` says.

Three more go by the ancestry of a branch. `BranchesOwned` (`OwnedUntilClosed`): a branch is numbered
behind its parent, and as long as a child lives its parent is at one of the two places where it
waits for a child, or tidies up behind it, so a live branch has only live ancestors
(`TreeInv`). `CitationsKnown` (`CitesDelivered`): what a branch may see, and what it returns, are its
own evidence and the citations of children that have returned to it (`Citable`, `CiteInv`).
`FailuresReported` (`NoSilentFailure`): a returned branch names what it or a child that was heard
lacks (`BranchGaps`), and the answer names what its seeds lack (`RunGaps`). The property is about
all branches, so it is derived by following gaps from a branch to its parent; if one were
silent, take the first (`LeastNumber`): its parent, numbered before it, hides nothing, so it was
told of nothing.

**`JournalProofs`** — `IncrementalExact` (`OperationalExact`), `RetriesAgree`, `ReadersAppendNext`
and both as `CallersToldTruth` (`CallersAgree`), `ReferencesPointBack`, `TypeCorrect`. The first
is the interesting one: an append that is no correction computes the operational rows from the
operational rows alone, and yet the result is the compaction of the whole history, for any
number of entries and any scopes. The lemmas: compaction archives no correction, and protection
depends on corrections and on the entries they name only; the entries it archives are in slots
that no correction touches, and each is dominated by an overwrite that is kept, the latest of
its slot and applicability; so compacting what compaction kept together with a new entry that
is no correction archives exactly what compacting everything with it archives
(`CompactIncremental`). It needs that the new entry is numbered after all others and that no
entry names a later one (`TargetsEarlier`), which is why the inductive invariant `JournalInv`
holds all of them together with what the retry rows and the answers say.

Three more are about what a journal means. `CompactionKeepsMeaning` (`CompactionSound`),
`RetractionInverts` (`RetractionUndoes`) and `AppendsAreLocal` (`AppendIsLocal`) compare the
interpretations of two journals, and an interpretation decides corrections from the newest down,
by a recursive function over their numbers. The prover has no induction over data that takes an
operator, so the induction is over a *set* of numbers (`Inducted`, from `LeastNumber`): the function
exists (`StandingSettles`), what it gives is a fixpoint, in which a correction stands unless exactly
one that stands is on it, and there is one fixpoint only (`SettledOnce`: take the newest correction
on which two would differ). So two journals need not be followed in step: it is enough that the one's
standing corrections, restricted to the other, are a fixpoint there. Compaction archives, and an
append that is no correction adds, entries that neither correct nor are corrected; these are
`Inert` and change what stands, what is void and what is settled nowhere else (`InertStands`,
`InertVoid`, `InertSettled`). What is left is who replaces whom among the settled: an archived entry
is dominated by a kept one that replaces alike (`KeptDominates`, `MatchesAlike`, `CompactedMeans`), a
new entry replaces in its slot (`AppendedMeans`), and a correction with its retraction is as though
neither were there (`RetractedMeans`).

**`EdgesProofs`** — `ActiveUnique` and `LinksOnce`, together `RelationsOnce` (`PublishedOnce`),
`WithdrawalStands` (`WithdrawalFinal`), `ReceiptsTrue` (`ReceiptsAgree`), `TypeCorrect`. What the
tables say of each other (`WorkspaceInv`) is preserved by every transaction of a *proper*
request, one whose key is the link's when the host asks: each link the host created has its
retry row, and each row fits the edge as it is now, up to its withdrawal. The passes make
proper requests only (`PassInv`), abandoned or not. `FailuresWhole` (`FailureIsWhole`): a pass that ended as
failed has accepted nothing, one that ended as partial has accepted something, and a publication
is pending only while its pass publishes or was abandoned (`OutcomeInv`).

The theorems of the next three modules are proved of the component's own specification and of
`Parts`, where a run checks them: each is a conjunction of the two.

**`FilesProofs`** — of blobs, `NamesAreWhole` (`NeverTorn`) and `ReturnsAreReadable` (`ReturnedIsReadable`):
a local name is only ever given to synced bytes and never taken away but by a power loss, which
takes no name that was synced in a directory on disk; a put past its link has a name for its
content, whoever made it (`BlobsInv`). Of paths, `PathHasOneWorkspace` (`OneWorkspace`),
`FirstOpenersSucceed` (`OpensUnlessRefused`) and `StagingStands` (`StagingOutlivesCopy`): whoever is
recorded as the maker has left a whole database, and nobody makes a second one, because the version
is read again under the write lock and a rename wants an empty place; a refusal needs an old or a
foreign database, a failure something that went wrong; the stages of a conversion are those of its
place in the code, so its copying thread has its staging directory (`FilesInv`).

**`RetrievalProofs`** — of lexical indexes, `IndexesAreExact` (`IndexExact`) and `SearchesAreFresh`
(`SearchIsFresh`), for any number of records, instances and searches: an index of the current
identity holds what was logged up to its cursor and nothing twice (`UpToCursor`), because
the cursor is read again inside the transaction that moves it; and a search that has refreshed its
index finds it at least as far as its cutoff although it no longer holds the lock (`OnItsWay`), as no
handle is open on an index of another identity. Of generations, `HitsStayCurrent`
(`HitsAreCurrent`) and `GenerationsStayWhole` (`GenerationsWhole`): what `workspace.json` calls ready has
its whole index in the container's view and in what is committed (`EntryWhole`); a container at work
serves the snapshot its caller still waits for (`Serves`); a search under way holds its client's lock,
so the generation that is searched is the one that was prepared for it (`SearchFits`,
`GenerationsInv`).

Of effective reads, `ReadsStayEffective` (`ReadsAreEffective`), for turns of any length and any
amendments. One passage first: the starts of its pieces have each a rank of their own (`NthFits`), every
position is on exactly one piece (`CutFound`, `CutOnce`), and because a range is cut at the bounds of
what applies to it, an amendment that is on a piece covers all of it (`CutIsWhole`) and a piece that
none is on has no covered position (`CutIsClear`); so the pieces of a range show each position once,
or not at all if it is amended (`SpanFits`, `SegmentsFit`). Then the reader: its work is the request,
untouched, or shows each position of it once unless it was amended when it was opened, and what is
still to be read has an amendment that led there (`OpenedOrNot`, `ReadersInv`); such a piece gives way
to pieces that show nothing of the request itself, so each position stays where it was, at another
index (`Splice`, `SpliceShows`, `ResolveFits`). What others append meanwhile does not enter, since each
piece is judged by the view it was made from. The types need `BytesInv` of `AccountProofs`.

**`AccountProofs`** — three accounts. `BytesStayAccounted` (`BytesAccounted`): the counter is the sum of
the sizes of the journals as each was loaded last, because what a load adds is taken against the
entry it replaces in one step without an await (`BytesInv`; `Totals` and the lemmas on how
a total changes with one of its terms).

Spending: `MoneyIsHeld` (`LiabilitiesCovered`), `FilesAccount` (`FilesCoverBill`), `WindowIsKept`
(`WindowHolds`) and `StopIsFinal` (`NothingAfterStop`). What is pending is the sum of the reservations
of the calls in flight; as long as no answer costs more than was reserved for it, what is held is at
most the cap and at least what is `Owed`: the reservation of a call that is in flight or that was
charged an amount nobody knows, and else the bill (`Ledger`). Each call moves by itself, so
the proof first reduces every action to one move of one call (`CallMoves`) and then follows the books
(`Ledger`), the call's file (`FileFits`) and the window: what a call admitted now adds is in the
windows that end now or later, and those hold nothing else that the one ending now does not hold
(`WindowInv`, `Since`).

Reports: `ReportCovers` (`ReportCoversCalls`) and `ReportHolds` (`ReportIsTrue`). A call's file is behind the
record in memory by its end at most, what was paid for is never taken for unsent, what `trial.json`
says of a call is final (`CallFits`); while nothing has interrupted the run the files say of an
attempt what the run knows, and what is judged has ended and stays as it was (`TrialFits`). So
merging the two copies loses no request and no answer, and the summary of the files is that of the
run.

<a name="limits"></a>
## What is only model-checked, and what is not modelled

Out of the prover's reach, checked by TLC only, is liveness (`EverythingEnds`): the prover has
neither ENABLED nor fairness. So is the existence of behaviours: the runs that expect a violation,
the mutants, and that every action is reached. Every safety and action property of the passing runs
is stated by a theorem.

Not modelled, and why:

* token counting, the graph allowance of the ledger and the byte limits of the runtime: sizes,
  seen as "fits" or "does not fit";
* the construction of prompts, passages, tokenizers, ranking and fusion, the projections of
  spans and pages, the parsing of instants and of old dates: functions of their arguments
  without state, which unit tests reach;
* model clients (`models/`) and the transport to the remote service: network I/O, seen by
  the rest as an answer, an error or a timeout, which the models allow at any time;
* configuration and record types (validation of values), the viewer, the command line and the
  other tools: no state of the workspace of their own;
* the preparation of a benchmark (data, protocols, clients of other frameworks) and the wording
  of its report.
