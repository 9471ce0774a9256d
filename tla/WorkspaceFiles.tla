--------------------------- MODULE WorkspaceFiles ---------------------------
(***************************************************************************)
(* How a workspace comes to be at a path: Workspace._ensure_open, run by   *)
(* any number of first openers at once, and memory/migration.py, which     *)
(* stages a converted copy of an older workspace beside the path and       *)
(* renames it into place.                                                  *)
(*                                                                         *)
(* A workspace is known by whoever made it: that gave it its identity.     *)
(* External: SQLite's locks (one writer; changing the journal mode needs   *)
(* the same lock and is refused at once, BEGIN waits for it), and rename,  *)
(* which replaces an empty directory and nothing else.                     *)
(***************************************************************************)
EXTENDS Naturals

CONSTANTS
    Openers,     \* Workspace objects over the path, each at its first operation
    Converters,  \* conversions into the path
    Format,      \* the schema each converts from: 2 or 3
    MaxTrouble   \* bound: deaths, timeouts, errors and cancellations

Nobody == "nobody"

FilesAssumption ==
    /\ Format \in [Converters -> {2, 3}]
    /\ Openers \cap Converters = {}
    /\ Nobody \notin Openers \cup Converters
    /\ MaxTrouble \in Nat

VARIABLES
    dest,     \* the path: its directory, its metadata.sqlite3, who made it
    writer,   \* the opener that holds the database's write lock
    opener,   \* how far each opener is, and the identity it has read
    convert,  \* the conversions
    trouble   \* counts towards MaxTrouble

vars == <<dest, writer, opener, convert, trouble>>

Stages == {"none", "dir", "copied", "blobs", "upgraded", "classified", "reported"}
Opened == {"open", "closed", "refused", "failed", "dead"}
Converted == {"done", "failed", "dead"}

\* db: no file; a database without tables; unversioned tables of somebody else; another
\* schema version; a workspace.  stage: what a conversion had done to it.
Empty == [dir |-> FALSE, db |-> "none", maker |-> Nobody, wal |-> FALSE, stage |-> "none"]

TypeOK ==
    /\ dest \in [dir : BOOLEAN, db : {"none", "empty", "foreign", "old", "whole"},
                 maker : Openers \cup Converters \cup {Nobody}, wal : BOOLEAN, stage : Stages]
    /\ writer \in Openers \cup {Nobody}
    /\ opener \in [Openers -> [pc : {"start", "connect", "wal", "switch", "begin", "create"} \cup Opened,
                               saw : Openers \cup Converters \cup {Nobody}]]
    /\ convert \in [Converters -> [pc : {"start", "copy", "classify", "report", "check", "rename"}
                                        \cup Converted,
                                   thread : {"none", "copy", "edit"}, staged : Stages,
                                   cancelled : BOOLEAN]]
    /\ trouble \in 0 .. MaxTrouble

Init ==
    /\ dest \in {Empty, [Empty EXCEPT !.dir = TRUE],
                 [Empty EXCEPT !.dir = TRUE, !.db = "foreign"],
                 [Empty EXCEPT !.dir = TRUE, !.db = "old"]}
    /\ writer = Nobody
    /\ opener = [o \in Openers |-> [pc |-> "start", saw |-> Nobody]]
    /\ convert = [c \in Converters |->
           [pc |-> "start", thread |-> "none", staged |-> "none", cancelled |-> FALSE]]
    /\ trouble = 0

-----------------------------------------------------------------------------
(* Workspace._ensure_open *)

OpenerAt(o, step) == opener[o].pc = step
OpenerTo(o, step) == opener' = [opener EXCEPT ![o].pc = step]
LetGo(o) == writer' = IF writer = o THEN Nobody ELSE writer

MakeDirectory(o) ==
    /\ OpenerAt(o, "start")
    /\ OpenerTo(o, "connect")
    /\ dest' = [dest EXCEPT !.dir = TRUE]
    /\ UNCHANGED <<writer, convert, trouble>>

\* The first statement creates the file; another version is refused before anything else.
ReadVersion(o) ==
    /\ OpenerAt(o, "connect")
    /\ OpenerTo(o, IF dest.db = "old" THEN "refused" ELSE "wal")
    /\ dest' = [dest EXCEPT !.db = IF @ = "none" THEN "empty" ELSE @]
    /\ UNCHANGED <<writer, convert, trouble>>

\* Mutant: a database that is busy is an error at once.
EnableWalOnce(o) ==
    /\ OpenerAt(o, "wal")
    /\ OpenerTo(o, IF dest.wal THEN "begin" ELSE IF writer = Nobody THEN "switch" ELSE "failed")
    /\ writer' = IF ~ dest.wal /\ writer = Nobody THEN o ELSE writer
    /\ UNCHANGED <<dest, convert, trouble>>

\* enable_wal: while another opener is switching the mode, it is tried again.
EnableWal(o) ==
    /\ OpenerAt(o, "wal")
    /\ IF dest.wal THEN OpenerTo(o, "begin") /\ UNCHANGED writer
       ELSE /\ writer = Nobody
            /\ OpenerTo(o, "switch") /\ writer' = o
    /\ UNCHANGED <<dest, convert, trouble>>

SwitchMode(o) ==
    /\ OpenerAt(o, "switch")
    /\ OpenerTo(o, "begin")
    /\ dest' = [dest EXCEPT !.wal = TRUE]
    /\ LetGo(o)
    /\ UNCHANGED <<convert, trouble>>

\* BEGIN IMMEDIATE.
BeginSchema(o) ==
    /\ OpenerAt(o, "begin") /\ writer = Nobody
    /\ OpenerTo(o, "create") /\ writer' = o
    /\ UNCHANGED <<dest, convert, trouble>>

\* Mutant: the version read before the transaction is trusted.
CreateAgain(o) ==
    /\ OpenerAt(o, "create")
    /\ dest' = [dest EXCEPT !.db = "whole", !.maker = o]
    /\ opener' = [opener EXCEPT ![o].pc = "open", ![o].saw = o]
    /\ LetGo(o)
    /\ UNCHANGED <<convert, trouble>>

\* The version is read again: a workspace is adopted, tables of somebody else are
\* refused, an empty database gets its schema and identity, in one commit.
CreateOrAdopt(o) ==
    /\ OpenerAt(o, "create")
    /\ \/ /\ dest.db = "foreign"
          /\ OpenerTo(o, "refused") /\ UNCHANGED dest
       \/ /\ dest.db = "whole"
          /\ opener' = [opener EXCEPT ![o].pc = "open", ![o].saw = dest.maker]
          /\ UNCHANGED dest
       \/ /\ dest.db = "empty"
          /\ dest' = [dest EXCEPT !.db = "whole", !.maker = o]
          /\ opener' = [opener EXCEPT ![o].pc = "open", ![o].saw = o]
    /\ LetGo(o)
    /\ UNCHANGED <<convert, trouble>>

\* Workspace.close.
CloseWorkspace(o) ==
    /\ OpenerAt(o, "open")
    /\ OpenerTo(o, "closed")
    /\ UNCHANGED <<dest, writer, convert, trouble>>

\* The connection is closed and the error raised (30 s without the lock, a full disk).
OpenFails(o) ==
    /\ opener[o].pc \in {"connect", "wal", "switch", "begin", "create"} /\ trouble < MaxTrouble
    /\ OpenerTo(o, "failed") /\ LetGo(o)
    /\ trouble' = trouble + 1
    /\ UNCHANGED <<dest, convert>>

OpenerDies(o) ==
    /\ opener[o].pc \notin Opened \ {"open"} /\ trouble < MaxTrouble
    /\ OpenerTo(o, "dead") /\ LetGo(o)
    /\ trouble' = trouble + 1
    /\ UNCHANGED <<dest, convert>>

-----------------------------------------------------------------------------
(* copy_schema2_workspace and copy_schema3_workspace *)

ConvertAt(c, step) == convert[c].pc = step
Stage(c) == convert[c].staged

\* TemporaryDirectory goes with everything in it.
CleanUp(c, outcome) ==
    convert' = [convert EXCEPT ![c] = [@ EXCEPT !.pc = outcome, !.staged = "none", !.thread = "none"]]

\* An existing destination is refused; else the staging directory and the copying thread.
StartConversion(c) ==
    /\ ConvertAt(c, "start")
    /\ IF dest.dir THEN CleanUp(c, "failed")
       ELSE convert' = [convert EXCEPT
                ![c] = [@ EXCEPT !.pc = "copy", !.staged = "dir", !.thread = "copy"]]
    /\ UNCHANGED <<dest, writer, opener, trouble>>

\* One consistent backup of a database that may be in use; then every blob, verified.
CopyRecords(c) ==
    /\ convert[c].thread = "copy" /\ Stage(c) \in {"dir", "copied"}
    /\ convert' = [convert EXCEPT ![c].staged = IF @ = "dir" THEN "copied" ELSE "blobs"]
    /\ UNCHANGED <<dest, writer, opener, trouble>>

\* The transaction that makes the copy schema 5 with an identity of its own.  The rest of
\* a schema-3 conversion runs in the same thread; schema 2 awaits the thread.
Upgrade(c) ==
    /\ convert[c].thread = "copy" /\ Stage(c) = "blobs"
    /\ convert' = [convert EXCEPT ![c] = [@ EXCEPT
           !.staged = "upgraded",
           !.thread = IF Format[c] = 3 THEN "copy" ELSE "none",
           !.pc = IF Format[c] = 3 THEN "report" ELSE "copy"]]
    /\ UNCHANGED <<dest, writer, opener, trouble>>

\* Schema 2: the await ends; if it was cancelled meanwhile, the conversion stops here.
CopyAwaited(c) ==
    /\ ConvertAt(c, "copy") /\ convert[c].thread = "none"
    /\ IF convert[c].cancelled THEN CleanUp(c, "failed")
       ELSE convert' = [convert EXCEPT ![c] = [@ EXCEPT !.pc = "classify", !.thread = "edit"]]
    /\ UNCHANGED <<dest, writer, opener, trouble>>

\* Schema 2: edges and classifications are published in the staged workspace, which is
\* closed afterwards; closing waits for the operation under way.
Classify(c) ==
    /\ ConvertAt(c, "classify")
    /\ IF convert[c].cancelled THEN CleanUp(c, "failed")
       ELSE convert' = [convert EXCEPT
                ![c] = [@ EXCEPT !.pc = "report", !.staged = "classified", !.thread = "none"]]
    /\ UNCHANGED <<dest, writer, opener, trouble>>

WriteReport(c) ==
    /\ ConvertAt(c, "report")
    /\ convert' = [convert EXCEPT ![c] = [@ EXCEPT !.pc = "check", !.staged = "reported"]]
    /\ UNCHANGED <<dest, writer, opener, trouble>>

CheckAgain(c) ==
    /\ ConvertAt(c, "check")
    /\ IF dest.dir THEN CleanUp(c, "failed") ELSE convert' = [convert EXCEPT ![c].pc = "rename"]
    /\ UNCHANGED <<dest, writer, opener, trouble>>

\* Mutant: the copy is moved into whatever directory is there.
ReplaceDestination(c) ==
    /\ ConvertAt(c, "rename")
    /\ dest' = [Empty EXCEPT !.dir = TRUE, !.db = "whole", !.maker = c, !.stage = Stage(c)]
    /\ CleanUp(c, "done")
    /\ UNCHANGED <<writer, opener, trouble>>

\* rename: the destination may have appeared since it was checked.
Publish(c) ==
    /\ ConvertAt(c, "rename")
    /\ IF dest.db = "none"
       THEN /\ \E wal \in BOOLEAN : dest' = [dir |-> TRUE, db |-> "whole", maker |-> c,
                                           wal |-> wal, stage |-> Stage(c)]
            /\ CleanUp(c, "done")
       ELSE CleanUp(c, "failed") /\ UNCHANGED dest
    /\ UNCHANGED <<writer, opener, trouble>>

\* Any error of a step (another schema, a classification that is missing, a damaged blob,
\* a duplicate connection): the staging directory is removed.
ConversionFails(c) ==
    /\ convert[c].pc \notin Converted \cup {"start"} /\ trouble < MaxTrouble
    /\ CleanUp(c, "failed")
    /\ trouble' = trouble + 1
    /\ UNCHANGED <<dest, writer, opener>>

\* Mutant: the cancelled conversion removes its staging directory at once.
CancelAtOnce(c) ==
    /\ convert[c].pc \in {"copy", "classify"} /\ trouble < MaxTrouble
    /\ convert' = [convert EXCEPT ![c] = [@ EXCEPT !.cancelled = TRUE, !.staged = "none"]]
    /\ trouble' = trouble + 1
    /\ UNCHANGED <<dest, writer, opener>>

\* The caller's task is cancelled, perhaps more than once.  Schema 3 works on in its
\* thread; schema 2 waits for its copying thread, and for the staged workspace to close
\* unless it is cancelled once more while it waits.
CancelConversion(c) ==
    /\ convert[c].pc \notin Converted \cup {"start"} /\ trouble < MaxTrouble
    /\ IF Format[c] = 2 /\ convert[c].pc = "classify" /\ convert[c].cancelled
       THEN CleanUp(c, "failed")
       ELSE convert' = [convert EXCEPT ![c].cancelled = TRUE]
    /\ trouble' = trouble + 1
    /\ UNCHANGED <<dest, writer, opener>>

ConverterDies(c) ==
    /\ convert[c].pc \notin Converted \cup {"start"} /\ trouble < MaxTrouble
    /\ convert' = [convert EXCEPT ![c] = [@ EXCEPT !.pc = "dead", !.thread = "none"]]
    /\ trouble' = trouble + 1
    /\ UNCHANGED <<dest, writer, opener>>

Open(o) ==
    \/ MakeDirectory(o) \/ ReadVersion(o) \/ EnableWal(o) \/ SwitchMode(o)
    \/ BeginSchema(o) \/ CreateOrAdopt(o) \/ CloseWorkspace(o)

Convert(c) ==
    \/ StartConversion(c) \/ CopyRecords(c) \/ Upgrade(c) \/ CopyAwaited(c) \/ Classify(c)
    \/ WriteReport(c) \/ CheckAgain(c) \/ Publish(c)

Next ==
    \/ \E o \in Openers : Open(o) \/ OpenFails(o) \/ OpenerDies(o)
    \/ \E c \in Converters :
           Convert(c) \/ ConversionFails(c) \/ CancelConversion(c) \/ ConverterDies(c)

Spec == Init /\ [][Next]_vars

-----------------------------------------------------------------------------
(* Properties *)

\* There is one workspace at the path: everybody who has opened it has read the same
\* identity, and a conversion that reports success is what is there, whole, whoever else
\* opened or converted into the path meanwhile (workspace.py:337, migration.py:80).
OneWorkspace ==
    /\ \A o \in Openers : OpenerAt(o, "open") => dest.db = "whole" /\ opener[o].saw = dest.maker
    /\ \A c \in Converters : ConvertAt(c, "done") => dest.maker = c
    /\ dest.maker \in Converters => dest.stage = "reported"

\* First openers that come at the same time all succeed: one fails only because the file
\* is another's, or because something else went wrong (enable_wal retries).
OpensUnlessRefused ==
    \A o \in Openers :
        /\ OpenerAt(o, "refused") => dest.db \in {"old", "foreign"}
        /\ OpenerAt(o, "failed") => trouble > 0

\* The staging directory is there as long as the copying thread is, however often the
\* conversion is cancelled, and gone when the conversion is over (migration.py:196).
StagingOutlivesCopy ==
    \A c \in Converters :
        /\ convert[c].thread = "copy" => Stage(c) # "none"
        /\ convert[c].pc \in {"done", "failed"} => Stage(c) = "none"
==============================================================================
