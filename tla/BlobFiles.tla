------------------------------ MODULE BlobFiles ------------------------------
(***************************************************************************)
(* storage/blobs.py in steps: how `put' publishes one immutable blob under *)
(* the name of its digest, for both back ends.  EvidenceStore takes a put  *)
(* as one durable step; this module says how far that is so.               *)
(*                                                                         *)
(* A put is a thread of some process.  The file system is external, and is *)
(* what POSIX promises: a name or a directory is on disk for sure only     *)
(* after the directory that holds it was synced, bytes only after the file *)
(* was.  PowerLoss keeps what is on disk and any part of the rest.         *)
(***************************************************************************)
EXTENDS Naturals

CONSTANTS
    Puts,       \* the calls of put
    Digests,    \* the contents, one digest each
    DigestOf,   \* the digest each call stores
    Shards,     \* directories named by the first two characters of a digest
    ShardOf,    \* the directory of each digest
    Backends,   \* the back ends a workspace may have been opened with
    MaxTrouble  \* bound: errors, deaths and power losses together

PutsAssumption ==
    /\ DigestOf \in [Puts -> Digests]
    /\ ShardOf \in [Digests -> Shards]
    /\ Backends \subseteq {"local", "s3"}
    /\ MaxTrouble \in Nat

VARIABLES
    backend,   \* LocalBlobStore or S3BlobStore
    pc,        \* how far each put is
    temps,     \* the puts whose .upload- file exists
    synced,    \* the puts whose bytes are on disk
    shards,    \* directories that exist
    names,     \* digests that have a name (S3: an object)
    owner,     \* the put whose bytes are under the name
    torn,      \* digests whose bytes are damaged
    shardsOnDisk, namesOnDisk,  \* the part of shards and names that is on disk
    safe,      \* history: puts that synced their name in a directory that is on disk
    trouble,   \* counts towards MaxTrouble
    lost       \* whether the power was ever lost

vars == <<backend, pc, temps, synced, shards, names, owner, torn,
          shardsOnDisk, namesOnDisk, safe, trouble, lost>>

files == <<temps, synced, shards, names, owner, torn, shardsOnDisk, namesOnDisk, safe>>

Nobody == "nobody"

Steps == {"start", "look", "written", "synced", "linked", "named", "verify",
          "returned", "failed", "dead"}

Over == {"returned", "failed", "dead"}

TypeOK ==
    /\ backend \in Backends
    /\ pc \in [Puts -> Steps]
    /\ temps \subseteq Puts /\ synced \subseteq Puts
    /\ shards \subseteq Shards /\ shardsOnDisk \subseteq shards
    /\ names \subseteq Digests /\ namesOnDisk \subseteq names
    /\ owner \in [Digests -> Puts \cup {Nobody}]
    /\ torn \subseteq names /\ safe \subseteq Puts
    /\ trouble \in 0 .. MaxTrouble /\ lost \in BOOLEAN

Init ==
    /\ backend \in Backends
    /\ pc = [p \in Puts |-> "start"]
    /\ temps = {} /\ synced = {} /\ torn = {} /\ safe = {}
    /\ shards \in SUBSET Shards /\ shardsOnDisk = shards
    /\ names = {} /\ namesOnDisk = {}
    /\ owner = [d \in Digests |-> Nobody]
    /\ trouble = 0 /\ lost = FALSE

At(p, step) == pc[p] = step
Goto(p, step) == pc' = [pc EXCEPT ![p] = step]

\* get: the name exists and the bytes have the digest.
Readable(d) == d \in names /\ d \notin torn

\* An exception: `finally' removes the upload file, the put raises.
Raise(p) ==
    /\ Goto(p, "failed")
    /\ temps' = temps \ {p}
    /\ UNCHANGED <<synced, shards, names, owner, torn, shardsOnDisk, namesOnDisk, safe>>

-----------------------------------------------------------------------------
(* LocalBlobStore.put *)

\* mkdir(parents=True, exist_ok=True): the new directory's own name is never synced.
MakeShard(p) ==
    /\ backend = "local" /\ At(p, "start")
    /\ Goto(p, "look")
    /\ shards' = shards \cup {ShardOf[DigestOf[p]]}
    /\ UNCHANGED <<backend, temps, synced, names, owner, torn, shardsOnDisk, namesOnDisk,
                   safe, trouble, lost>>

\* The fast path: the name exists, its bytes are verified, nothing is synced.
FindExisting(p) ==
    /\ At(p, "look") /\ DigestOf[p] \in names
    /\ IF Readable(DigestOf[p]) THEN Goto(p, "returned") /\ UNCHANGED files ELSE Raise(p)
    /\ UNCHANGED <<backend, trouble, lost>>

\* mkstemp, write, flush: the bytes are in the page cache.
WriteUpload(p) ==
    /\ At(p, "look") /\ DigestOf[p] \notin names
    /\ Goto(p, "written")
    /\ temps' = temps \cup {p}
    /\ UNCHANGED <<backend, synced, shards, names, owner, torn, shardsOnDisk, namesOnDisk,
                   safe, trouble, lost>>

\* Mutant: the upload is linked without fsync of its bytes.
SyncNothing(p) ==
    /\ At(p, "written")
    /\ Goto(p, "synced")
    /\ UNCHANGED <<backend, files, trouble, lost>>

\* fsync of the upload.
SyncUpload(p) ==
    /\ At(p, "written")
    /\ Goto(p, "synced")
    /\ synced' = synced \cup {p}
    /\ UNCHANGED <<backend, temps, shards, names, owner, torn, shardsOnDisk, namesOnDisk,
                   safe, trouble, lost>>

\* os.link never replaces: if another put was first, its bytes are verified instead.
LinkOrVerify(p) ==
    LET d == DigestOf[p] IN
    /\ At(p, "synced")
    /\ \/ /\ d \notin names
          /\ Goto(p, "linked")
          /\ names' = names \cup {d}
          /\ owner' = [owner EXCEPT ![d] = p]
          /\ UNCHANGED <<temps, synced, shards, torn, shardsOnDisk, namesOnDisk, safe>>
       \/ /\ d \in names
          /\ IF Readable(d) THEN Goto(p, "linked") /\ UNCHANGED files ELSE Raise(p)
    /\ UNCHANGED <<backend, trouble, lost>>

\* Mutant: the directory is opened and closed but not synced.
OpenShard(p) ==
    /\ At(p, "linked")
    /\ Goto(p, "named")
    /\ safe' = IF ShardOf[DigestOf[p]] \in shardsOnDisk THEN safe \cup {p} ELSE safe
    /\ UNCHANGED <<backend, temps, synced, shards, names, owner, torn, shardsOnDisk, namesOnDisk,
                   trouble, lost>>

\* fsync of the directory: every name in it is on disk, whoever linked it.
SyncShard(p) ==
    /\ At(p, "linked")
    /\ Goto(p, "named")
    /\ namesOnDisk' = namesOnDisk \cup {d \in names : ShardOf[d] = ShardOf[DigestOf[p]]}
    /\ safe' = IF ShardOf[DigestOf[p]] \in shardsOnDisk THEN safe \cup {p} ELSE safe
    /\ UNCHANGED <<backend, temps, synced, shards, names, owner, torn, shardsOnDisk,
                   trouble, lost>>

\* finally: unlink; return the digest.
RemoveUpload(p) ==
    /\ At(p, "named")
    /\ Goto(p, "returned")
    /\ temps' = temps \ {p}
    /\ UNCHANGED <<backend, synced, shards, names, owner, torn, shardsOnDisk, namesOnDisk,
                   safe, trouble, lost>>

-----------------------------------------------------------------------------
(* S3BlobStore.put; the object store is external and acknowledges what is durable *)

\* put_object with IfNoneMatch: stored, or refused because the object is there
\* (PreconditionFailed is no error).
PutObject(p) ==
    LET d == DigestOf[p] IN
    /\ backend = "s3" /\ At(p, "start")
    /\ Goto(p, "verify")
    /\ names' = names \cup {d} /\ namesOnDisk' = namesOnDisk \cup {d}
    /\ owner' = IF d \in names THEN owner ELSE [owner EXCEPT ![d] = p]
    /\ safe' = safe \cup {p}
    /\ UNCHANGED <<backend, temps, synced, shards, torn, shardsOnDisk, trouble, lost>>

\* Any other answer is raised, whether or not the object was stored.
PutObjectFails(p) ==
    LET d == DigestOf[p] IN
    /\ backend = "s3" /\ At(p, "start") /\ trouble < MaxTrouble
    /\ Goto(p, "failed")
    /\ \/ names' = names \cup {d} /\ namesOnDisk' = namesOnDisk \cup {d}
          /\ owner' = IF d \in names THEN owner ELSE [owner EXCEPT ![d] = p]
       \/ UNCHANGED <<names, namesOnDisk, owner>>
    /\ trouble' = trouble + 1
    /\ UNCHANGED <<backend, temps, synced, shards, torn, shardsOnDisk, safe, lost>>

\* The object is read back and verified before the digest is returned.
VerifyObject(p) ==
    /\ At(p, "verify")
    /\ IF Readable(DigestOf[p]) THEN Goto(p, "returned") /\ UNCHANGED files ELSE Raise(p)
    /\ UNCHANGED <<backend, trouble, lost>>

-----------------------------------------------------------------------------
(* What goes wrong *)

\* An error of the file system (or of S3 while reading back) in the middle of a put.
Fail(p) ==
    /\ ~ At(p, "start") /\ pc[p] \notin Over /\ trouble < MaxTrouble
    /\ Raise(p)
    /\ trouble' = trouble + 1
    /\ UNCHANGED <<backend, lost>>

\* The process dies: its upload stays where it is.
Die(p) ==
    /\ pc[p] \notin Over /\ trouble < MaxTrouble
    /\ Goto(p, "dead")
    /\ trouble' = trouble + 1
    /\ UNCHANGED <<backend, files, lost>>

\* External: the kernel writes a directory entry back on its own.
WriteBack ==
    \/ \E s \in shards \ shardsOnDisk :
           shardsOnDisk' = shardsOnDisk \cup {s} /\ UNCHANGED namesOnDisk
    \/ \E d \in names \ namesOnDisk :
           namesOnDisk' = namesOnDisk \cup {d} /\ UNCHANGED shardsOnDisk

KernelWritesBack ==
    /\ backend = "local" /\ WriteBack
    /\ UNCHANGED <<backend, pc, temps, synced, shards, names, owner, torn, safe, trouble, lost>>

\* External: what is on disk survives; of the rest any part does, and bytes that were
\* never synced may be damaged.
Survives(keptShards, keptNames, damaged) ==
    /\ shards' = keptShards /\ shardsOnDisk' = keptShards
    /\ names' = keptNames /\ namesOnDisk' = keptNames
    /\ torn' = (torn \cap keptNames) \cup damaged
    /\ owner' = [d \in Digests |-> IF d \in keptNames THEN owner[d] ELSE Nobody]

PowerLoss ==
    /\ backend = "local" /\ trouble < MaxTrouble
    /\ \E keptShards \in SUBSET shards, keptNames \in SUBSET names :
           /\ shardsOnDisk \subseteq keptShards
           /\ keptNames \subseteq {d \in names : ShardOf[d] \in keptShards}
           /\ {d \in namesOnDisk : ShardOf[d] \in keptShards} \subseteq keptNames
           /\ \E damaged \in SUBSET {d \in keptNames : owner[d] \notin synced} :
                  Survives(keptShards, keptNames, damaged)
    /\ pc' = [p \in Puts |-> IF pc[p] \in Over \cup {"start"} THEN pc[p] ELSE "dead"]
    /\ trouble' = trouble + 1 /\ lost' = TRUE
    /\ UNCHANGED <<backend, temps, synced, safe>>

Put(p) ==
    \/ MakeShard(p) \/ FindExisting(p) \/ WriteUpload(p) \/ SyncUpload(p)
    \/ LinkOrVerify(p) \/ SyncShard(p) \/ RemoveUpload(p)
    \/ PutObject(p) \/ VerifyObject(p)

Next ==
    \/ \E p \in Puts : Put(p) \/ PutObjectFails(p) \/ Fail(p) \/ Die(p)
    \/ KernelWritesBack
    \/ PowerLoss

Spec == Init /\ [][Next]_vars

-----------------------------------------------------------------------------
(* Properties *)

\* A name always stands for complete bytes, also after a power loss in the middle of
\* any put: the bytes are synced before the name exists (blobs.py, put: fsync, then
\* link).  A reader finds the blob or finds it missing, never a torn one.
NeverTorn == torn = {}

\* While the power stays on, a put that has returned can be read by everybody, whatever
\* became of the other puts of the same digest: this is what EvidenceStore relies on.
\* After a power loss it still holds of the puts that went the whole way, in a directory
\* whose own name was on disk (put's last fsync, blobs.py:73).
ReturnedIsReadable ==
    \A p \in Puts : At(p, "returned") =>
        \/ Readable(DigestOf[p])
        \/ lost /\ p \notin safe

\* blobs.py:43 calls the store's blobs durable, and put syncs before it returns: so what
\* a put has returned survives a power loss.
ReturnedIsDurable ==
    \A p \in Puts : At(p, "returned") => Readable(DigestOf[p])
==============================================================================
