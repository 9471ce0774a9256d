----------------------------- MODULE FilesProofs -----------------------------
(***************************************************************************)
(* What the workspace's files promise, for any number of puts, openers and *)
(* conversions, and however often the power fails or a process dies: the   *)
(* blobs (BlobFiles) and the path at which the workspace is (WorkspaceFiles).*)
(***************************************************************************)
EXTENDS Parts, TLAPS

-----------------------------------------------------------------------------
(* Blobs *)

\* Bytes under a local name were synced, so no power loss damages them; a put that is past
\* its link has a name for its content; one that synced its name in a directory on disk has
\* both on disk.
BlobsInv ==
    /\ Blobs!TypeOK
    /\ Blobs!NeverTorn
    /\ lost => backend = "local"
    /\ \A d \in names : backend = "local" => owner[d] \in synced
    /\ \A p \in Puts :
        /\ pc[p] = "synced" => p \in synced
        /\ pc[p] \in {"linked", "named", "verify"} => DigestOf[p] \in names
        /\ pc[p] = "returned" /\ ~ lost => DigestOf[p] \in names
        /\ p \in safe => /\ DigestOf[p] \in namesOnDisk
                         /\ backend = "local" => ShardOf[DigestOf[p]] \in shardsOnDisk

LEMMA BlobsInit ==
    ASSUME Blobs!PutsAssumption
    PROVE  Blobs!Init => BlobsInv
<1> SUFFICES ASSUME Blobs!Init PROVE BlobsInv
    OBVIOUS
<1>1. Blobs!TypeOK
    <2>1. pc \in [Puts -> Blobs!Steps] /\ owner \in [Digests -> Puts \cup {Blobs!Nobody}]
        BY DEF Blobs!Init, Blobs!Steps
    <2>2. backend \in Backends /\ shards \subseteq Shards /\ shardsOnDisk \subseteq shards
        BY DEF Blobs!Init
    <2>3. trouble \in 0 .. MaxTrouble /\ lost \in BOOLEAN
        <3>1. MaxTrouble \in Nat
            BY DEF Blobs!PutsAssumption
        <3>2. trouble = 0 /\ lost = FALSE
            BY DEF Blobs!Init
        <3>3. trouble \in 0 .. MaxTrouble
            BY <3>1, <3>2
        <3> QED
            BY <3>2, <3>3
    <2> QED
        BY <2>1, <2>2, <2>3 DEF Blobs!Init, Blobs!TypeOK
<1>2. \A p \in Puts : pc[p] = "start"
    BY DEF Blobs!Init
<1> QED
    BY <1>1, <1>2 DEF Blobs!Init, BlobsInv, Blobs!NeverTorn

\* Every step of a put, and every error and death in it, keeps the invariant.
LEMMA PutStep ==
    ASSUME Blobs!PutsAssumption, BlobsInv, NEW p \in Puts,
           Blobs!Put(p) \/ Blobs!PutObjectFails(p) \/ Blobs!Fail(p) \/ Blobs!Die(p)
    PROVE  BlobsInv'
<1> USE DEF Blobs!PutsAssumption, Blobs!At, Blobs!Goto, Blobs!files, Blobs!Raise, Blobs!Readable, Blobs!Over, Blobs!Steps
<1> DEFINE d == DigestOf[p]
<1>0. d \in Digests /\ ShardOf[d] \in Shards
    OBVIOUS
<1>1. CASE Blobs!MakeShard(p)
    BY <1>1, <1>0 DEF Blobs!MakeShard, BlobsInv, Blobs!TypeOK, Blobs!NeverTorn
<1>2. CASE Blobs!FindExisting(p)
    BY <1>2, <1>0 DEF Blobs!FindExisting, BlobsInv, Blobs!TypeOK, Blobs!NeverTorn
<1>3. CASE Blobs!WriteUpload(p)
    BY <1>3, <1>0 DEF Blobs!WriteUpload, BlobsInv, Blobs!TypeOK, Blobs!NeverTorn
<1>4. CASE Blobs!SyncUpload(p)
    BY <1>4, <1>0 DEF Blobs!SyncUpload, BlobsInv, Blobs!TypeOK, Blobs!NeverTorn
<1>5. CASE Blobs!LinkOrVerify(p)
    BY <1>5, <1>0 DEF Blobs!LinkOrVerify, BlobsInv, Blobs!TypeOK, Blobs!NeverTorn
<1>6. CASE Blobs!SyncShard(p)
    BY <1>6, <1>0 DEF Blobs!SyncShard, BlobsInv, Blobs!TypeOK, Blobs!NeverTorn
<1>7. CASE Blobs!RemoveUpload(p)
    BY <1>7, <1>0 DEF Blobs!RemoveUpload, BlobsInv, Blobs!TypeOK, Blobs!NeverTorn
<1>8. CASE Blobs!PutObject(p)
    BY <1>8, <1>0 DEF Blobs!PutObject, BlobsInv, Blobs!TypeOK, Blobs!NeverTorn
<1>9. CASE Blobs!VerifyObject(p)
    BY <1>9, <1>0 DEF Blobs!VerifyObject, BlobsInv, Blobs!TypeOK, Blobs!NeverTorn
<1>10. CASE Blobs!PutObjectFails(p)
    BY <1>10, <1>0 DEF Blobs!PutObjectFails, BlobsInv, Blobs!TypeOK, Blobs!NeverTorn
<1>11. CASE Blobs!Fail(p)
    BY <1>11, <1>0 DEF Blobs!Fail, BlobsInv, Blobs!TypeOK, Blobs!NeverTorn
<1>12. CASE Blobs!Die(p)
    BY <1>12, <1>0 DEF Blobs!Die, BlobsInv, Blobs!TypeOK, Blobs!NeverTorn
<1> QED
    BY <1>1, <1>2, <1>3, <1>4, <1>5, <1>6, <1>7, <1>8, <1>9, <1>10, <1>11, <1>12 DEF Blobs!Put

\* What is on disk survives a power loss, and nothing under a name is damaged by it.
LEMMA PowerStep ==
    ASSUME Blobs!PutsAssumption, BlobsInv, Blobs!PowerLoss
    PROVE  BlobsInv'
<1> USE DEF Blobs!PutsAssumption
<1>1. PICK keptShards \in SUBSET shards, keptNames \in SUBSET names :
           /\ shardsOnDisk \subseteq keptShards
           /\ {d \in namesOnDisk : ShardOf[d] \in keptShards} \subseteq keptNames
           /\ \E damaged \in SUBSET {d \in keptNames : owner[d] \notin synced} :
                  Blobs!Survives(keptShards, keptNames, damaged)
    BY DEF Blobs!PowerLoss
<1>2. backend = "local" /\ UNCHANGED <<backend, temps, synced, safe>> /\ lost'
    BY DEF Blobs!PowerLoss
<1>3. /\ shards' = keptShards /\ shardsOnDisk' = keptShards
      /\ names' = keptNames /\ namesOnDisk' = keptNames /\ torn' = {}
      /\ owner' = [d \in Digests |-> IF d \in keptNames THEN owner[d] ELSE Blobs!Nobody]
    BY <1>1, <1>2 DEF Blobs!Survives, BlobsInv, Blobs!NeverTorn
<1>4. pc' = [p \in Puts |-> IF pc[p] \in Blobs!Over \cup {"start"} THEN pc[p] ELSE "dead"]
    BY DEF Blobs!PowerLoss
<1>5. Blobs!TypeOK'
    <2>1. pc' \in [Puts -> Blobs!Steps]
        BY <1>4 DEF BlobsInv, Blobs!TypeOK, Blobs!Steps
    <2>2. owner' \in [Digests -> Puts \cup {Blobs!Nobody}]
        BY <1>3 DEF BlobsInv, Blobs!TypeOK
    <2>3. trouble' \in 0 .. MaxTrouble /\ lost' \in BOOLEAN
        BY DEF Blobs!PowerLoss, BlobsInv, Blobs!TypeOK
    <2> QED
        BY <1>2, <1>3, <2>1, <2>2, <2>3 DEF BlobsInv, Blobs!TypeOK
<1>6. \A d \in names' : owner'[d] \in synced'
    BY <1>2, <1>3 DEF BlobsInv, Blobs!TypeOK
<1>7. \A p \in Puts : pc'[p] \in Blobs!Over \cup {"start"}
    BY <1>4 DEF Blobs!Over
<1>8. \A p \in Puts : p \in safe' => /\ DigestOf[p] \in namesOnDisk'
                                     /\ ShardOf[DigestOf[p]] \in shardsOnDisk'
    BY <1>1, <1>2, <1>3 DEF BlobsInv
<1> QED
    BY <1>2, <1>3, <1>5, <1>6, <1>7, <1>8 DEF BlobsInv, Blobs!NeverTorn, Blobs!Over

LEMMA BlobsStep ==
    ASSUME Blobs!PutsAssumption, BlobsInv, [Blobs!Next]_(Blobs!vars)
    PROVE  BlobsInv'
<1>1. CASE Blobs!KernelWritesBack
    BY <1>1 DEF Blobs!KernelWritesBack, Blobs!WriteBack, BlobsInv, Blobs!TypeOK, Blobs!NeverTorn
<1>2. CASE UNCHANGED Blobs!vars
    BY <1>2 DEF Blobs!vars, BlobsInv, Blobs!TypeOK, Blobs!NeverTorn
<1> QED
    BY <1>1, <1>2, PutStep, PowerStep DEF Blobs!Next

-----------------------------------------------------------------------------
\* The invariant holds of the component by itself, and of this part among the others.
LEMMA BlobsAlways ==
    /\ Blobs!Spec => []BlobsInv
    /\ Spec => [](part = "blobs" => BlobsInv)
<1> DEFINE Here == part = "blobs" => BlobsInv
<1>1. Blobs!Init => BlobsInv
    BY PartsAssumption, BlobsInit
<1>2. BlobsInv /\ [Blobs!Next]_(Blobs!vars) => BlobsInv'
    BY PartsAssumption, BlobsStep
<1>3. Init => Here
    BY <1>1 DEF Init
<1>4. Here /\ [Next]_vars => Here'
    <2>1. CASE UNCHANGED vars
        BY <1>2, <2>1 DEF vars, blobVars, Blobs!vars
    <2>2. CASE Next
        <3>1. part' = part
            BY <2>2 DEF Next, NotBlobs, NotPaths, NotIndexes, NotGenerations, NotReads, NotCosts,
               NotRuns
        <3>2. part = "blobs" => Blobs!Next
            BY <2>2 DEF Next
        <3> QED
            BY <1>2, <3>1, <3>2
    <2> QED
        BY <2>1, <2>2
<1> HIDE DEF Here
<1>5. Blobs!Spec => []BlobsInv
    BY <1>1, <1>2, PTL DEF Blobs!Spec
<1>6. Spec => []Here
    BY <1>3, <1>4, PTL DEF Spec
<1> QED
    BY <1>5, <1>6 DEF Here

\* A name always stands for complete bytes, whatever fails, dies or loses its power in the
\* middle of any number of puts (blobs.py, put: fsync, then link).
THEOREM NamesAreWhole ==
    /\ Blobs!Spec => [](Blobs!TypeOK /\ Blobs!NeverTorn)
    /\ Spec => []NeverTorn
<1>1. BlobsInv => Blobs!TypeOK /\ Blobs!NeverTorn
    BY DEF BlobsInv
<1>2. (part = "blobs" => BlobsInv) => NeverTorn
    BY <1>1 DEF NeverTorn
<1> QED
    BY <1>1, <1>2, BlobsAlways, PTL

\* What a put has returned can be read while the power stays on; after a power loss too, if
\* the put synced its name in a directory whose own name was on disk (blobs.py:73).
THEOREM ReturnsAreReadable ==
    /\ Blobs!Spec => []Blobs!ReturnedIsReadable
    /\ Spec => []ReturnedIsReadable
<1>1. BlobsInv => Blobs!ReturnedIsReadable
    BY DEF BlobsInv, Blobs!TypeOK, Blobs!NeverTorn, Blobs!ReturnedIsReadable, Blobs!Readable, Blobs!At
<1>2. (part = "blobs" => BlobsInv) => ReturnedIsReadable
    BY <1>1 DEF ReturnedIsReadable
<1> QED
    BY <1>1, <1>2, BlobsAlways, PTL

-----------------------------------------------------------------------------
(* The path *)

\* A conversion stages its copy in order, and is at the rename only with a report; its
\* staging directory is there as long as its copying thread is.
StagedInOrder(r) ==
    /\ r.pc \in {"start", "done", "failed"} => r.staged = "none" /\ r.thread = "none"
    /\ r.pc = "copy" =>
           \/ (r.thread = "copy" /\ r.staged \in {"dir", "copied", "blobs"})
           \/ (r.thread = "none" /\ r.staged = "upgraded")
    /\ r.pc = "classify" => r.thread = "edit" /\ r.staged = "upgraded"
    /\ r.pc = "report" => r.staged \in {"upgraded", "classified"}
    /\ r.pc \in {"check", "rename"} => r.staged = "reported"
    /\ r.pc = "dead" => r.thread = "none"

\* Who has opened the workspace has read the identity of whoever made it, and what a
\* conversion has published is whole.
FilesInv ==
    /\ Paths!TypeOK
    /\ dest.maker # Paths!Nobody => dest.db = "whole"
    /\ dest.maker \in Converters => dest.stage = "reported"
    /\ \A o \in Openers :
        /\ opener[o].pc = "open" => dest.db = "whole" /\ opener[o].saw = dest.maker
        /\ opener[o].pc = "refused" => dest.db \in {"old", "foreign"}
        /\ opener[o].pc = "failed" => trouble > 0
    /\ \A c \in Converters :
        /\ StagedInOrder(convert[c])
        /\ convert[c].pc = "done" => dest.maker = c

Openings == [pc : {"start", "connect", "wal", "switch", "begin", "create"} \cup Paths!Opened,
             saw : Openers \cup Converters \cup {Paths!Nobody}]

Conversions == [pc : {"start", "copy", "classify", "report", "check", "rename"} \cup Paths!Converted,
                thread : {"none", "copy", "edit"}, staged : Paths!Stages, cancelled : BOOLEAN]

Destinations == [dir : BOOLEAN, db : {"none", "empty", "foreign", "old", "whole"},
                 maker : Openers \cup Converters \cup {Paths!Nobody}, wal : BOOLEAN, stage : Paths!Stages]

LEMMA FilesType ==
    Paths!TypeOK <=> /\ dest \in Destinations /\ writer \in Openers \cup {Paths!Nobody}
                     /\ opener \in [Openers -> Openings]
                     /\ convert \in [Converters -> Conversions] /\ trouble \in 0 .. MaxTrouble
BY DEF Paths!TypeOK, Destinations, Openings, Conversions

LEMMA FilesInit ==
    ASSUME Paths!FilesAssumption
    PROVE  Paths!Init => FilesInv
<1> SUFFICES ASSUME Paths!Init PROVE FilesInv
    OBVIOUS
<1>1. dest \in Destinations /\ dest.maker = Paths!Nobody
    <2>1. Paths!Empty \in Destinations /\ Paths!Empty.maker = Paths!Nobody
        BY DEF Paths!Empty, Destinations, Paths!Stages
    <2>2. \/ dest = Paths!Empty
          \/ dest = [Paths!Empty EXCEPT !.dir = TRUE]
          \/ dest = [Paths!Empty EXCEPT !.dir = TRUE, !.db = "foreign"]
          \/ dest = [Paths!Empty EXCEPT !.dir = TRUE, !.db = "old"]
        BY DEF Paths!Init
    <2> QED
        BY <2>1, <2>2 DEF Destinations
<1>2. /\ writer = Paths!Nobody /\ trouble = 0
      /\ \A o \in Openers : opener[o] = [pc |-> "start", saw |-> Paths!Nobody]
      /\ \A c \in Converters : convert[c] =
             [pc |-> "start", thread |-> "none", staged |-> "none", cancelled |-> FALSE]
    BY DEF Paths!Init
<1>3. Paths!TypeOK
    <2>1. trouble \in 0 .. MaxTrouble
        BY <1>2 DEF Paths!FilesAssumption
    <2>2. opener \in [Openers -> Openings]
        BY DEF Paths!Init, Openings
    <2>3. convert \in [Converters -> Conversions]
        BY DEF Paths!Init, Conversions, Paths!Stages
    <2> QED
        BY <1>1, <1>2, <2>1, <2>2, <2>3, FilesType
<1> QED
    BY <1>1, <1>2, <1>3 DEF Paths!FilesAssumption, FilesInv, StagedInOrder

\* A step of one opener that leaves the path's maker alone and reads it when it opens.
LEMMA OpenerMoves ==
    ASSUME Paths!FilesAssumption, FilesInv, NEW o \in Openers,
           opener' \in [Openers -> Openings],
           \A p \in Openers : p # o => opener'[p] = opener[p],
           dest' \in Destinations, dest'.maker = dest.maker, dest'.stage = dest.stage,
           dest.db # "none" => dest'.db = dest.db,
           opener'[o].pc = "open" => dest.db = "whole" /\ opener'[o].saw = dest.maker,
           opener'[o].pc = "refused" => dest.db \in {"old", "foreign"},
           opener'[o].pc = "failed" => trouble' > 0,
           writer' \in Openers \cup {Paths!Nobody},
           trouble' \in 0 .. MaxTrouble, trouble' >= trouble, UNCHANGED convert
    PROVE  FilesInv'
<1>1. Paths!TypeOK /\ Paths!TypeOK'
    BY DEF FilesInv, Paths!TypeOK, Destinations, Openings, Conversions
<1> QED
    BY <1>1, FilesType DEF FilesInv, StagedInOrder, Paths!FilesAssumption

\* Every step of an opener keeps the invariant.
LEMMA OpenerStep ==
    ASSUME Paths!FilesAssumption, FilesInv, NEW o \in Openers,
           Paths!Open(o) \/ Paths!OpenFails(o) \/ Paths!OpenerDies(o)
    PROVE  FilesInv'
<1> USE DEF Paths!OpenerAt, Paths!OpenerTo, Paths!LetGo, Paths!Opened
<1>0. /\ dest \in Destinations /\ writer \in Openers \cup {Paths!Nobody}
      /\ opener \in [Openers -> Openings] /\ trouble \in 0 .. MaxTrouble /\ MaxTrouble \in Nat
    BY FilesType DEF FilesInv, Paths!FilesAssumption
<1>1. CASE Paths!MakeDirectory(o)
    <2>1. /\ opener' \in [Openers -> Openings]
          /\ \A p \in Openers : p # o => opener'[p] = opener[p]
        BY <1>0, <1>1 DEF Paths!MakeDirectory, Openings
    <2>2. /\ dest' \in Destinations /\ dest'.maker = dest.maker /\ dest'.stage = dest.stage
          /\ dest.db # "none" => dest'.db = dest.db
        BY <1>0, <1>1 DEF Paths!MakeDirectory, Destinations
    <2>3. /\ opener'[o].pc = "open" => dest.db = "whole" /\ opener'[o].saw = dest.maker
          /\ opener'[o].pc = "refused" => dest.db \in {"old", "foreign"}
          /\ opener'[o].pc = "failed" => trouble' > 0
        BY <1>0, <1>1 DEF Paths!MakeDirectory, Openings
    <2>4. /\ writer' \in Openers \cup {Paths!Nobody}
          /\ trouble' \in 0 .. MaxTrouble /\ trouble' >= trouble /\ UNCHANGED convert
        BY <1>0, <1>1 DEF Paths!MakeDirectory
    <2> QED
        BY <2>1, <2>2, <2>3, <2>4, OpenerMoves
<1>2. CASE Paths!ReadVersion(o)
    <2>1. /\ opener' \in [Openers -> Openings]
          /\ \A p \in Openers : p # o => opener'[p] = opener[p]
        BY <1>0, <1>2 DEF Paths!ReadVersion, Openings
    <2>2. /\ dest' \in Destinations /\ dest'.maker = dest.maker /\ dest'.stage = dest.stage
          /\ dest.db # "none" => dest'.db = dest.db
        BY <1>0, <1>2 DEF Paths!ReadVersion, Destinations
    <2>3. /\ opener'[o].pc = "open" => dest.db = "whole" /\ opener'[o].saw = dest.maker
          /\ opener'[o].pc = "refused" => dest.db \in {"old", "foreign"}
          /\ opener'[o].pc = "failed" => trouble' > 0
        BY <1>0, <1>2 DEF Paths!ReadVersion, Openings
    <2>4. /\ writer' \in Openers \cup {Paths!Nobody}
          /\ trouble' \in 0 .. MaxTrouble /\ trouble' >= trouble /\ UNCHANGED convert
        BY <1>0, <1>2 DEF Paths!ReadVersion
    <2> QED
        BY <2>1, <2>2, <2>3, <2>4, OpenerMoves
<1>3. CASE Paths!EnableWal(o)
    <2>1. /\ opener' \in [Openers -> Openings]
          /\ \A p \in Openers : p # o => opener'[p] = opener[p]
        BY <1>0, <1>3 DEF Paths!EnableWal, Openings
    <2>2. /\ dest' \in Destinations /\ dest'.maker = dest.maker /\ dest'.stage = dest.stage
          /\ dest.db # "none" => dest'.db = dest.db
        BY <1>0, <1>3 DEF Paths!EnableWal, Destinations
    <2>3. /\ opener'[o].pc = "open" => dest.db = "whole" /\ opener'[o].saw = dest.maker
          /\ opener'[o].pc = "refused" => dest.db \in {"old", "foreign"}
          /\ opener'[o].pc = "failed" => trouble' > 0
        BY <1>0, <1>3 DEF Paths!EnableWal, Openings
    <2>4. /\ writer' \in Openers \cup {Paths!Nobody}
          /\ trouble' \in 0 .. MaxTrouble /\ trouble' >= trouble /\ UNCHANGED convert
        BY <1>0, <1>3 DEF Paths!EnableWal
    <2> QED
        BY <2>1, <2>2, <2>3, <2>4, OpenerMoves
<1>4. CASE Paths!SwitchMode(o)
    <2>1. /\ opener' \in [Openers -> Openings]
          /\ \A p \in Openers : p # o => opener'[p] = opener[p]
        BY <1>0, <1>4 DEF Paths!SwitchMode, Openings
    <2>2. /\ dest' \in Destinations /\ dest'.maker = dest.maker /\ dest'.stage = dest.stage
          /\ dest.db # "none" => dest'.db = dest.db
        BY <1>0, <1>4 DEF Paths!SwitchMode, Destinations
    <2>3. /\ opener'[o].pc = "open" => dest.db = "whole" /\ opener'[o].saw = dest.maker
          /\ opener'[o].pc = "refused" => dest.db \in {"old", "foreign"}
          /\ opener'[o].pc = "failed" => trouble' > 0
        BY <1>0, <1>4 DEF Paths!SwitchMode, Openings
    <2>4. /\ writer' \in Openers \cup {Paths!Nobody}
          /\ trouble' \in 0 .. MaxTrouble /\ trouble' >= trouble /\ UNCHANGED convert
        BY <1>0, <1>4 DEF Paths!SwitchMode
    <2> QED
        BY <2>1, <2>2, <2>3, <2>4, OpenerMoves
<1>5. CASE Paths!BeginSchema(o)
    <2>1. /\ opener' \in [Openers -> Openings]
          /\ \A p \in Openers : p # o => opener'[p] = opener[p]
        BY <1>0, <1>5 DEF Paths!BeginSchema, Openings
    <2>2. /\ dest' \in Destinations /\ dest'.maker = dest.maker /\ dest'.stage = dest.stage
          /\ dest.db # "none" => dest'.db = dest.db
        BY <1>0, <1>5 DEF Paths!BeginSchema, Destinations
    <2>3. /\ opener'[o].pc = "open" => dest.db = "whole" /\ opener'[o].saw = dest.maker
          /\ opener'[o].pc = "refused" => dest.db \in {"old", "foreign"}
          /\ opener'[o].pc = "failed" => trouble' > 0
        BY <1>0, <1>5 DEF Paths!BeginSchema, Openings
    <2>4. /\ writer' \in Openers \cup {Paths!Nobody}
          /\ trouble' \in 0 .. MaxTrouble /\ trouble' >= trouble /\ UNCHANGED convert
        BY <1>0, <1>5 DEF Paths!BeginSchema
    <2> QED
        BY <2>1, <2>2, <2>3, <2>4, OpenerMoves
<1>6. CASE Paths!CloseWorkspace(o)
    <2>1. /\ opener' \in [Openers -> Openings]
          /\ \A p \in Openers : p # o => opener'[p] = opener[p]
        BY <1>0, <1>6 DEF Paths!CloseWorkspace, Openings
    <2>2. /\ dest' \in Destinations /\ dest'.maker = dest.maker /\ dest'.stage = dest.stage
          /\ dest.db # "none" => dest'.db = dest.db
        BY <1>0, <1>6 DEF Paths!CloseWorkspace, Destinations
    <2>3. /\ opener'[o].pc = "open" => dest.db = "whole" /\ opener'[o].saw = dest.maker
          /\ opener'[o].pc = "refused" => dest.db \in {"old", "foreign"}
          /\ opener'[o].pc = "failed" => trouble' > 0
        BY <1>0, <1>6 DEF Paths!CloseWorkspace, Openings
    <2>4. /\ writer' \in Openers \cup {Paths!Nobody}
          /\ trouble' \in 0 .. MaxTrouble /\ trouble' >= trouble /\ UNCHANGED convert
        BY <1>0, <1>6 DEF Paths!CloseWorkspace
    <2> QED
        BY <2>1, <2>2, <2>3, <2>4, OpenerMoves
<1>7. CASE Paths!OpenFails(o)
    <2>1. /\ opener' \in [Openers -> Openings]
          /\ \A p \in Openers : p # o => opener'[p] = opener[p]
        BY <1>0, <1>7 DEF Paths!OpenFails, Openings
    <2>2. /\ dest' \in Destinations /\ dest'.maker = dest.maker /\ dest'.stage = dest.stage
          /\ dest.db # "none" => dest'.db = dest.db
        BY <1>0, <1>7 DEF Paths!OpenFails, Destinations
    <2>3. /\ opener'[o].pc = "open" => dest.db = "whole" /\ opener'[o].saw = dest.maker
          /\ opener'[o].pc = "refused" => dest.db \in {"old", "foreign"}
          /\ opener'[o].pc = "failed" => trouble' > 0
        BY <1>0, <1>7 DEF Paths!OpenFails, Openings
    <2>4. /\ writer' \in Openers \cup {Paths!Nobody}
          /\ trouble' \in 0 .. MaxTrouble /\ trouble' >= trouble /\ UNCHANGED convert
        BY <1>0, <1>7 DEF Paths!OpenFails
    <2> QED
        BY <2>1, <2>2, <2>3, <2>4, OpenerMoves
<1>8. CASE Paths!OpenerDies(o)
    <2>1. /\ opener' \in [Openers -> Openings]
          /\ \A p \in Openers : p # o => opener'[p] = opener[p]
        BY <1>0, <1>8 DEF Paths!OpenerDies, Openings
    <2>2. /\ dest' \in Destinations /\ dest'.maker = dest.maker /\ dest'.stage = dest.stage
          /\ dest.db # "none" => dest'.db = dest.db
        BY <1>0, <1>8 DEF Paths!OpenerDies, Destinations
    <2>3. /\ opener'[o].pc = "open" => dest.db = "whole" /\ opener'[o].saw = dest.maker
          /\ opener'[o].pc = "refused" => dest.db \in {"old", "foreign"}
          /\ opener'[o].pc = "failed" => trouble' > 0
        BY <1>0, <1>8 DEF Paths!OpenerDies, Openings
    <2>4. /\ writer' \in Openers \cup {Paths!Nobody}
          /\ trouble' \in 0 .. MaxTrouble /\ trouble' >= trouble /\ UNCHANGED convert
        BY <1>0, <1>8 DEF Paths!OpenerDies
    <2> QED
        BY <2>1, <2>2, <2>3, <2>4, OpenerMoves
<1>9. CASE Paths!CreateOrAdopt(o)
    <2>1. /\ writer' \in Openers \cup {Paths!Nobody} /\ UNCHANGED <<convert, trouble>>
        BY <1>0, <1>9 DEF Paths!CreateOrAdopt
    <2>2. CASE dest.db # "empty"
        <3>1. /\ opener' \in [Openers -> Openings]
              /\ \A p \in Openers : p # o => opener'[p] = opener[p]
            BY <1>0, <1>9, <2>2 DEF Paths!CreateOrAdopt, Openings, Destinations
        <3>2. /\ opener'[o].pc = "open" => dest.db = "whole" /\ opener'[o].saw = dest.maker
              /\ opener'[o].pc = "refused" => dest.db \in {"old", "foreign"}
              /\ opener'[o].pc # "failed" /\ UNCHANGED dest
            BY <1>0, <1>9, <2>2 DEF Paths!CreateOrAdopt, Openings
        <3> QED
            BY <1>0, <2>1, <3>1, <3>2, OpenerMoves
    <2>3. CASE dest.db = "empty"
        <3>1. /\ opener' = [opener EXCEPT ![o].pc = "open", ![o].saw = o]
              /\ dest' = [dest EXCEPT !.db = "whole", !.maker = o]
            BY <1>9, <2>3 DEF Paths!CreateOrAdopt
        <3>2. /\ dest' \in Destinations /\ dest'.db = "whole" /\ dest'.maker = o
            BY <1>0, <3>1 DEF Destinations
        <3>3. /\ opener' \in [Openers -> Openings]
              /\ \A p \in Openers : p # o => opener'[p] = opener[p]
              /\ opener'[o].pc = "open" /\ opener'[o].saw = o
            BY <1>0, <3>1 DEF Openings
        <3>4. /\ \A p \in Openers : opener[p].pc \notin {"open", "refused"}
              /\ dest.maker = Paths!Nobody
            BY <2>3 DEF FilesInv
        <3>5. \A e \in Converters : convert[e].pc # "done" /\ StagedInOrder(convert[e])
            BY <3>4 DEF FilesInv, Paths!FilesAssumption
        <3>6. Paths!TypeOK'
            BY <1>0, <2>1, <3>2, <3>3 DEF FilesInv, Paths!TypeOK, Destinations, Openings, Conversions
        <3> QED
            BY <2>1, <3>2, <3>3, <3>4, <3>5, <3>6 DEF FilesInv, Paths!FilesAssumption, StagedInOrder
    <2> QED
        BY <2>2, <2>3
<1> QED
    BY <1>1, <1>2, <1>3, <1>4, <1>5, <1>6, <1>7, <1>8, <1>9 DEF Paths!Open

\* A step of one conversion that leaves the path alone.
LEMMA ConverterMoves ==
    ASSUME Paths!FilesAssumption, FilesInv, NEW c \in Converters,
           convert' \in [Converters -> Conversions],
           \A e \in Converters : e # c => convert'[e] = convert[e],
           StagedInOrder(convert'[c]), convert'[c].pc # "done",
           trouble' \in 0 .. MaxTrouble, trouble' >= trouble, UNCHANGED <<dest, writer, opener>>
    PROVE  FilesInv'
<1>1. Paths!TypeOK /\ Paths!TypeOK'
    BY DEF FilesInv, Paths!TypeOK, Destinations, Openings, Conversions
<1> QED
    BY <1>1, FilesType DEF FilesInv, Paths!FilesAssumption

\* The staging directory goes with everything in it.
LEMMA CleanUpStep ==
    ASSUME Paths!FilesAssumption, FilesInv, NEW c \in Converters, Paths!CleanUp(c, "failed"),
           trouble' \in 0 .. MaxTrouble, trouble' >= trouble, UNCHANGED <<dest, writer, opener>>
    PROVE  FilesInv'
<1>0. convert \in [Converters -> Conversions]
    BY FilesType DEF FilesInv
<1>1. /\ convert' \in [Converters -> Conversions]
      /\ \A e \in Converters : e # c => convert'[e] = convert[e]
    BY <1>0 DEF Paths!CleanUp, Conversions, Paths!Stages, Paths!Converted
<1>2. StagedInOrder(convert'[c]) /\ convert'[c].pc # "done"
    BY <1>0 DEF Paths!CleanUp, Conversions, StagedInOrder
<1> QED
    BY <1>1, <1>2, ConverterMoves

\* Every step of a conversion, its cancellations and its failures keep the invariant.
LEMMA ConverterStep ==
    ASSUME Paths!FilesAssumption, FilesInv, NEW c \in Converters,
           Paths!Convert(c) \/ Paths!ConversionFails(c) \/ Paths!CancelConversion(c) \/ Paths!ConverterDies(c)
    PROVE  FilesInv'
<1> USE DEF Paths!ConvertAt, Paths!Stage, Paths!CleanUp, Paths!Converted
<1>0. /\ convert \in [Converters -> Conversions] /\ StagedInOrder(convert[c])
      /\ trouble \in 0 .. MaxTrouble /\ MaxTrouble \in Nat
    BY FilesType DEF FilesInv, Paths!FilesAssumption
<1>1. CASE Paths!StartConversion(c)
    <2>0. trouble' \in 0 .. MaxTrouble /\ trouble' >= trouble /\ UNCHANGED <<dest, writer, opener>>
        BY <1>0, <1>1 DEF Paths!StartConversion
    <2>1. CASE Paths!CleanUp(c, "failed")
        BY <1>0, <2>0, <2>1, CleanUpStep
    <2>2. CASE ~ Paths!CleanUp(c, "failed")
        <3>1. convert' = [convert EXCEPT
                  ![c] = [@ EXCEPT !.pc = "copy", !.staged = "dir", !.thread = "copy"]]
            BY <1>1, <2>2 DEF Paths!StartConversion
        <3>2. /\ convert' \in [Converters -> Conversions]
              /\ \A e \in Converters : e # c => convert'[e] = convert[e]
            BY <1>0, <3>1 DEF Conversions, Paths!Stages
        <3>3. StagedInOrder(convert'[c]) /\ convert'[c].pc # "done"
            BY <1>0, <1>1, <3>1 DEF Paths!StartConversion, Conversions, StagedInOrder
        <3> QED
            BY <1>0, <2>0, <3>2, <3>3, ConverterMoves
    <2> QED
        BY <2>1, <2>2
<1>2. CASE Paths!CopyRecords(c)
    <2>1. /\ convert' \in [Converters -> Conversions]
          /\ \A e \in Converters : e # c => convert'[e] = convert[e]
        BY <1>0, <1>2 DEF Paths!CopyRecords, Conversions, Paths!Stages
    <2>2. StagedInOrder(convert'[c]) /\ convert'[c].pc # "done"
        BY <1>0, <1>2 DEF Paths!CopyRecords, Conversions, StagedInOrder
    <2>3. trouble' \in 0 .. MaxTrouble /\ trouble' >= trouble /\ UNCHANGED <<dest, writer, opener>>
        BY <1>0, <1>2 DEF Paths!CopyRecords
    <2> QED
        BY <2>1, <2>2, <2>3, ConverterMoves
<1>3. CASE Paths!Upgrade(c)
    <2>1. PICK thread \in {"copy", "none"}, pos \in {"report", "copy"} :
              /\ convert' = [convert EXCEPT ![c] = [@ EXCEPT
                     !.staged = "upgraded", !.thread = thread, !.pc = pos]]
              /\ pos = "copy" => thread = "none"
        <3>1. CASE Format[c] = 3
            BY <1>3, <3>1 DEF Paths!Upgrade
        <3>2. CASE Format[c] # 3
            BY <1>3, <3>2 DEF Paths!Upgrade
        <3> QED
            BY <3>1, <3>2
    <2>2. /\ convert' \in [Converters -> Conversions]
          /\ \A e \in Converters : e # c => convert'[e] = convert[e]
        BY <1>0, <2>1 DEF Conversions, Paths!Stages
    <2>3. StagedInOrder(convert'[c]) /\ convert'[c].pc # "done"
        BY <1>0, <2>1 DEF Conversions, StagedInOrder
    <2> QED
        BY <1>0, <1>3, <2>2, <2>3, ConverterMoves DEF Paths!Upgrade
<1>4. CASE Paths!CopyAwaited(c)
    <2>0. trouble' \in 0 .. MaxTrouble /\ trouble' >= trouble /\ UNCHANGED <<dest, writer, opener>>
        BY <1>0, <1>4 DEF Paths!CopyAwaited
    <2>1. CASE Paths!CleanUp(c, "failed")
        BY <1>0, <2>0, <2>1, CleanUpStep
    <2>2. CASE ~ Paths!CleanUp(c, "failed")
        <3>1. convert' = [convert EXCEPT ![c] = [@ EXCEPT !.pc = "classify", !.thread = "edit"]]
              /\ convert[c].thread = "none" /\ convert[c].pc = "copy"
            BY <1>4, <2>2 DEF Paths!CopyAwaited
        <3>2. /\ convert' \in [Converters -> Conversions]
              /\ \A e \in Converters : e # c => convert'[e] = convert[e]
            BY <1>0, <3>1 DEF Conversions, Paths!Stages
        <3>3. StagedInOrder(convert'[c]) /\ convert'[c].pc # "done"
            BY <1>0, <1>4, <3>1 DEF Paths!CopyAwaited, Conversions, StagedInOrder
        <3> QED
            BY <1>0, <2>0, <3>2, <3>3, ConverterMoves
    <2> QED
        BY <2>1, <2>2
<1>5. CASE Paths!Classify(c)
    <2>0. trouble' \in 0 .. MaxTrouble /\ trouble' >= trouble /\ UNCHANGED <<dest, writer, opener>>
        BY <1>0, <1>5 DEF Paths!Classify
    <2>1. CASE Paths!CleanUp(c, "failed")
        BY <1>0, <2>0, <2>1, CleanUpStep
    <2>2. CASE ~ Paths!CleanUp(c, "failed")
        <3>1. convert' = [convert EXCEPT
                  ![c] = [@ EXCEPT !.pc = "report", !.staged = "classified", !.thread = "none"]]
            BY <1>5, <2>2 DEF Paths!Classify
        <3>2. /\ convert' \in [Converters -> Conversions]
              /\ \A e \in Converters : e # c => convert'[e] = convert[e]
            BY <1>0, <3>1 DEF Conversions, Paths!Stages
        <3>3. StagedInOrder(convert'[c]) /\ convert'[c].pc # "done"
            BY <1>0, <1>5, <3>1 DEF Paths!Classify, Conversions, StagedInOrder
        <3> QED
            BY <1>0, <2>0, <3>2, <3>3, ConverterMoves
    <2> QED
        BY <2>1, <2>2
<1>6. CASE Paths!WriteReport(c)
    <2>1. /\ convert' \in [Converters -> Conversions]
          /\ \A e \in Converters : e # c => convert'[e] = convert[e]
        BY <1>0, <1>6 DEF Paths!WriteReport, Conversions, Paths!Stages
    <2>2. StagedInOrder(convert'[c]) /\ convert'[c].pc # "done"
        BY <1>0, <1>6 DEF Paths!WriteReport, Conversions, StagedInOrder
    <2>3. trouble' \in 0 .. MaxTrouble /\ trouble' >= trouble /\ UNCHANGED <<dest, writer, opener>>
        BY <1>0, <1>6 DEF Paths!WriteReport
    <2> QED
        BY <2>1, <2>2, <2>3, ConverterMoves
<1>7. CASE Paths!CheckAgain(c)
    <2>0. trouble' \in 0 .. MaxTrouble /\ trouble' >= trouble /\ UNCHANGED <<dest, writer, opener>>
        BY <1>0, <1>7 DEF Paths!CheckAgain
    <2>1. CASE Paths!CleanUp(c, "failed")
        BY <1>0, <2>0, <2>1, CleanUpStep
    <2>2. CASE ~ Paths!CleanUp(c, "failed")
        <3>1. convert' = [convert EXCEPT ![c].pc = "rename"]
            BY <1>7, <2>2 DEF Paths!CheckAgain
        <3>2. /\ convert' \in [Converters -> Conversions]
              /\ \A e \in Converters : e # c => convert'[e] = convert[e]
            BY <1>0, <3>1 DEF Conversions, Paths!Stages
        <3>3. StagedInOrder(convert'[c]) /\ convert'[c].pc # "done"
            BY <1>0, <1>7, <3>1 DEF Paths!CheckAgain, Conversions, StagedInOrder
        <3> QED
            BY <1>0, <2>0, <3>2, <3>3, ConverterMoves
    <2> QED
        BY <2>1, <2>2
<1>8. CASE Paths!ConversionFails(c)
    <2>1. /\ convert' \in [Converters -> Conversions]
          /\ \A e \in Converters : e # c => convert'[e] = convert[e]
        BY <1>0, <1>8 DEF Paths!ConversionFails, Conversions, Paths!Stages
    <2>2. StagedInOrder(convert'[c]) /\ convert'[c].pc # "done"
        BY <1>0, <1>8 DEF Paths!ConversionFails, Conversions, StagedInOrder
    <2>3. trouble' \in 0 .. MaxTrouble /\ trouble' >= trouble /\ UNCHANGED <<dest, writer, opener>>
        BY <1>0, <1>8 DEF Paths!ConversionFails
    <2> QED
        BY <2>1, <2>2, <2>3, ConverterMoves
<1>9. CASE Paths!CancelConversion(c)
    <2>0. trouble' \in 0 .. MaxTrouble /\ trouble' >= trouble /\ UNCHANGED <<dest, writer, opener>>
        BY <1>0, <1>9 DEF Paths!CancelConversion
    <2>1. CASE Paths!CleanUp(c, "failed")
        BY <1>0, <2>0, <2>1, CleanUpStep
    <2>2. CASE ~ Paths!CleanUp(c, "failed")
        <3>1. convert' = [convert EXCEPT ![c].cancelled = TRUE] /\ convert[c].pc # "done"
            BY <1>9, <2>2 DEF Paths!CancelConversion
        <3>2. /\ convert' \in [Converters -> Conversions]
              /\ \A e \in Converters : e # c => convert'[e] = convert[e]
            BY <1>0, <3>1 DEF Conversions, Paths!Stages
        <3>3. StagedInOrder(convert'[c]) /\ convert'[c].pc # "done"
            BY <1>0, <3>1 DEF Conversions, StagedInOrder
        <3> QED
            BY <1>0, <2>0, <3>2, <3>3, ConverterMoves
    <2> QED
        BY <2>1, <2>2
<1>10. CASE Paths!ConverterDies(c)
    <2>1. /\ convert' \in [Converters -> Conversions]
          /\ \A e \in Converters : e # c => convert'[e] = convert[e]
        BY <1>0, <1>10 DEF Paths!ConverterDies, Conversions, Paths!Stages
    <2>2. StagedInOrder(convert'[c]) /\ convert'[c].pc # "done"
        BY <1>0, <1>10 DEF Paths!ConverterDies, Conversions, StagedInOrder
    <2>3. trouble' \in 0 .. MaxTrouble /\ trouble' >= trouble /\ UNCHANGED <<dest, writer, opener>>
        BY <1>0, <1>10 DEF Paths!ConverterDies
    <2> QED
        BY <2>1, <2>2, <2>3, ConverterMoves
<1>11. CASE Paths!Publish(c)
    <2>0. UNCHANGED <<writer, opener, trouble>>
        BY <1>11 DEF Paths!Publish
    <2>3. trouble' \in 0 .. MaxTrouble /\ trouble' >= trouble
        BY <1>0, <2>0
    <2>1. CASE dest.db # "none"
        <3>1. Paths!CleanUp(c, "failed") /\ UNCHANGED <<dest, writer, opener>>
            BY <1>11, <2>1 DEF Paths!Publish
        <3> QED
            BY <2>3, <3>1, CleanUpStep
    <2>2. CASE dest.db = "none"
        <3>1. PICK wal \in BOOLEAN :
                  dest' = [dir |-> TRUE, db |-> "whole", maker |-> c, wal |-> wal,
                           stage |-> convert[c].staged]
            BY <1>11, <2>2 DEF Paths!Publish
        <3>2. Paths!CleanUp(c, "done") /\ convert[c].pc = "rename"
            BY <1>11, <2>2 DEF Paths!Publish
        <3>3. /\ convert' \in [Converters -> Conversions]
              /\ \A e \in Converters : e # c => convert'[e] = convert[e]
            BY <1>0, <3>2 DEF Conversions, Paths!Stages
        <3>4. StagedInOrder(convert'[c])
            BY <1>0, <3>2 DEF Conversions, StagedInOrder
        <3>5. /\ dest' \in Destinations /\ dest'.db = "whole" /\ dest'.maker = c
              /\ dest'.stage = "reported"
            BY <1>0, <3>1, <3>2 DEF Destinations, Conversions, StagedInOrder
        <3>6. /\ \A o \in Openers : opener[o].pc \notin {"open", "refused"}
              /\ dest.maker = Paths!Nobody
            BY <2>2 DEF FilesInv
        <3>7. \A e \in Converters : convert[e].pc # "done" /\ StagedInOrder(convert[e])
            BY <3>6 DEF FilesInv, Paths!FilesAssumption
        <3>8. Paths!TypeOK'
            BY <2>0, <3>3, <3>5 DEF FilesInv, Paths!TypeOK, Destinations, Openings, Conversions
        <3>9. \A e \in Converters :
                  /\ StagedInOrder(convert'[e])
                  /\ convert'[e].pc = "done" => dest'.maker = e
            BY <3>3, <3>4, <3>5, <3>7
        <3>10. \A o \in Openers :
                   /\ opener'[o].pc \notin {"open", "refused"}
                   /\ opener'[o].pc = "failed" => trouble' > 0
            BY <2>0, <3>6 DEF FilesInv
        <3> QED
            BY <3>5, <3>8, <3>9, <3>10 DEF FilesInv
    <2> QED
        BY <2>1, <2>2
<1> QED
    BY <1>1, <1>2, <1>3, <1>4, <1>5, <1>6, <1>7, <1>8, <1>9, <1>10, <1>11 DEF Paths!Convert

LEMMA FilesStep ==
    ASSUME Paths!FilesAssumption, FilesInv, [Paths!Next]_(Paths!vars)
    PROVE  FilesInv'
<1>1. CASE UNCHANGED Paths!vars
    BY <1>1 DEF Paths!vars, FilesInv, StagedInOrder, Paths!TypeOK
<1> QED
    BY <1>1, OpenerStep, ConverterStep DEF Paths!Next

-----------------------------------------------------------------------------
\* The invariant holds of the component by itself, and of this part among the others.
LEMMA FilesAlways ==
    /\ Paths!Spec => []FilesInv
    /\ Spec => [](part = "paths" => FilesInv)
<1> DEFINE Here == part = "paths" => FilesInv
<1>1. Paths!Init => FilesInv
    BY PartsAssumption, FilesInit
<1>2. FilesInv /\ [Paths!Next]_(Paths!vars) => FilesInv'
    BY PartsAssumption, FilesStep
<1>3. Init => Here
    BY <1>1 DEF Init
<1>4. Here /\ [Next]_vars => Here'
    <2>1. CASE UNCHANGED vars
        BY <1>2, <2>1 DEF vars, pathVars, Paths!vars
    <2>2. CASE Next
        <3>1. part' = part
            BY <2>2 DEF Next, NotBlobs, NotPaths, NotIndexes, NotGenerations, NotReads, NotCosts,
               NotRuns
        <3>2. part = "paths" => Paths!Next
            BY <2>2 DEF Next
        <3> QED
            BY <1>2, <3>1, <3>2
    <2> QED
        BY <2>1, <2>2
<1> HIDE DEF Here
<1>5. Paths!Spec => []FilesInv
    BY <1>1, <1>2, PTL DEF Paths!Spec
<1>6. Spec => []Here
    BY <1>3, <1>4, PTL DEF Spec
<1> QED
    BY <1>5, <1>6 DEF Here

\* Whoever opens, converts, dies or is cancelled at a path, there is one workspace at it:
\* everybody who has it open has read the same identity, and a conversion that reports
\* success is what is there (workspace.py:337, migration.py:80).
THEOREM PathHasOneWorkspace ==
    /\ Paths!Spec => [](Paths!TypeOK /\ Paths!OneWorkspace)
    /\ Spec => []OneWorkspace
<1>1. FilesInv => Paths!TypeOK /\ Paths!OneWorkspace
    BY DEF FilesInv, Paths!OneWorkspace, Paths!OpenerAt, Paths!ConvertAt
<1>2. (part = "paths" => FilesInv) => OneWorkspace
    BY <1>1 DEF OneWorkspace
<1> QED
    BY <1>1, <1>2, FilesAlways, PTL

\* First openers that come at the same time all succeed, unless the file is another's or
\* something else goes wrong (enable_wal tries again).
THEOREM FirstOpenersSucceed ==
    /\ Paths!Spec => []Paths!OpensUnlessRefused
    /\ Spec => []OpensUnlessRefused
<1>1. FilesInv => Paths!OpensUnlessRefused
    BY DEF FilesInv, Paths!OpensUnlessRefused, Paths!OpenerAt
<1>2. (part = "paths" => FilesInv) => OpensUnlessRefused
    BY <1>1 DEF OpensUnlessRefused
<1> QED
    BY <1>1, <1>2, FilesAlways, PTL

\* The staging directory is there as long as its copying thread is, and gone when the
\* conversion is over, however often it is cancelled (migration.py:196).
THEOREM StagingStands ==
    /\ Paths!Spec => []Paths!StagingOutlivesCopy
    /\ Spec => []StagingOutlivesCopy
<1>1. FilesInv => Paths!StagingOutlivesCopy
    BY DEF FilesInv, StagedInOrder, Paths!TypeOK, Paths!StagingOutlivesCopy, Paths!Stage, Paths!Converted
<1>2. (part = "paths" => FilesInv) => StagingOutlivesCopy
    BY <1>1 DEF StagingOutlivesCopy
<1> QED
    BY <1>1, <1>2, FilesAlways, PTL
=============================================================================
