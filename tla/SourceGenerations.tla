-------------------------- MODULE SourceGenerations --------------------------
(***************************************************************************)
(* Hybrid source search: retrieval/workspace.py (the client of a           *)
(* workspace), retrieval/live.py and colbert.py (the index service) and    *)
(* tools/colbert_modal.py (the two remote functions, each in one container *)
(* over a shared volume).                                                  *)
(*                                                                         *)
(* A generation is the index of one complete snapshot of the sources.  Its *)
(* directory is named by its content, so a snapshot is known here by its   *)
(* number of records.  A small one is scored exactly, from memory; a large *)
(* one has a PLAID index on the volume.                                    *)
(*                                                                         *)
(* External: a container sees the volume as it was at its last reload plus *)
(* its own writes; what it wrote is committed by `commit', on a normal     *)
(* exit, and in the background at any moment.  A container that is killed  *)
(* loses the rest.  Each container takes one request at a time.            *)
(***************************************************************************)
EXTENDS Naturals

CONSTANTS
    Clients,     \* WorkspaceHybridRetriever objects over one workspace
    Calls,       \* searches
    ClientOf,    \* the client each search goes through
    Threshold,   \* snapshots this long have 64 passages or more
    MaxLog,      \* bound: records published
    MaxTrouble   \* bound: cancelled searches, failed builds and killed containers

Nobody == "nobody"

GenerationsAssumption ==
    /\ ClientOf \in [Calls -> Clients]
    /\ Nobody \notin Calls
    /\ Threshold \in Nat /\ MaxLog \in Nat /\ MaxTrouble \in Nat

VARIABLES
    log,       \* how many source records the workspace has published
    prepared,  \* per client: the snapshot it has prepared (_sequence, _records, _prepared)
    lock,      \* per client: the search that holds _lock
    call,      \* the searches
    volume,    \* what is committed
    view,      \* the volume as the preparing container sees it
    preparer,  \* the preparing container and the request it works on
    searcher,  \* the searching container and the request it works on
    trouble    \* counts towards MaxTrouble

vars == <<log, prepared, lock, call, volume, view, preparer, searcher, trouble>>

Snapshots == 1 .. MaxLog
Over == {"found", "failed", "refused"}
Large(n) == n >= Threshold

\* plaid: no directory, a directory without llgm-manifest.json, one with it; ready:
\* workspace.json exists.
Absent == [plaid |-> "none", ready |-> FALSE]
Idle == [pc |-> "idle", n |-> 0, caller |-> Nobody, cached |-> 0]

TypeOK ==
    /\ log \in 0 .. MaxLog
    /\ prepared \in [Clients -> 0 .. MaxLog]
    /\ lock \in [Clients -> Calls \cup {Nobody}]
    /\ call \in [Calls -> [pc : {"start", "prepare", "preparing", "search", "searching"} \cup Over,
                           cutoff : 0 .. MaxLog, hits : 0 .. MaxLog]]
    /\ {volume, view} \subseteq
           [Snapshots -> [plaid : {"none", "partial", "complete"}, ready : BOOLEAN]]
    /\ {preparer, searcher} \subseteq
           [pc : {"idle", "load", "build", "save", "reply"}, n : 0 .. MaxLog,
            caller : Calls \cup {Nobody}, cached : 0 .. MaxLog]
    /\ trouble \in 0 .. MaxTrouble

Init ==
    /\ log = 0
    /\ prepared = [i \in Clients |-> 0]
    /\ lock = [i \in Clients |-> Nobody]
    /\ call = [c \in Calls |-> [pc |-> "start", cutoff |-> 0, hits |-> 0]]
    /\ volume = [n \in Snapshots |-> Absent] /\ view = volume
    /\ preparer = Idle /\ searcher = Idle
    /\ trouble = 0

Goto(c, step) == call' = [call EXCEPT ![c].pc = step]

\* The search returns or raises: `async with self._lock' ends.
Leave(c, outcome) ==
    /\ Goto(c, outcome)
    /\ lock' = [lock EXCEPT ![ClientOf[c]] = Nobody]

\* A remote error reaches the search that made the request, if it still waits.
Answer(c, waiting, outcome) ==
    IF c # Nobody /\ call[c].pc = waiting THEN Leave(c, outcome) ELSE UNCHANGED <<call, lock>>

-----------------------------------------------------------------------------
(* The client *)

\* External: ingest or append_conversation commits a source record.
Publish ==
    /\ log < MaxLog
    /\ log' = log + 1
    /\ UNCHANGED <<prepared, lock, call, volume, view, preparer, searcher, trouble>>

\* Mutant: a snapshot that was prepared once is used for good.
EnterOnce(c) ==
    LET i == ClientOf[c] IN
    /\ call[c].pc = "start" /\ lock[i] = Nobody
    /\ IF log = 0 THEN Goto(c, "found") /\ UNCHANGED lock
       ELSE /\ call' = [call EXCEPT ![c].cutoff = log,
                            ![c].pc = IF prepared[i] = 0 THEN "prepare" ELSE "search"]
            /\ lock' = [lock EXCEPT ![i] = c]
    /\ UNCHANGED <<log, prepared, volume, view, preparer, searcher, trouble>>

\* search: the lock, then the committed records (_changes).  A snapshot other than the
\* one prepared must be prepared first; without records there is nothing to search.
Enter(c) ==
    LET i == ClientOf[c] IN
    /\ call[c].pc = "start" /\ lock[i] = Nobody
    /\ IF log = 0 THEN Goto(c, "found") /\ UNCHANGED lock
       ELSE /\ call' = [call EXCEPT ![c].cutoff = log,
                            ![c].pc = IF prepared[i] # log THEN "prepare" ELSE "search"]
            /\ lock' = [lock EXCEPT ![i] = c]
    /\ UNCHANGED <<log, prepared, volume, view, preparer, searcher, trouble>>

\* The caller cancels its search, or the run's deadline does: what was prepared before
\* stays, and a request that a container has taken goes on without it.
Cancel(c) ==
    /\ lock[ClientOf[c]] = c /\ trouble < MaxTrouble
    /\ Leave(c, "failed")
    /\ trouble' = trouble + 1
    /\ UNCHANGED <<log, prepared, volume, view, preparer, searcher>>

-----------------------------------------------------------------------------
(* prepare_workspace: WorkspaceIndexService.prepare *)

\* The container takes the request; a generation that has its workspace.json is ready.
StartPrepare(c) ==
    LET n == call[c].cutoff IN
    /\ call[c].pc = "prepare" /\ preparer.pc = "idle"
    /\ Goto(c, "preparing")
    /\ preparer' = [preparer EXCEPT !.pc = IF view[n].ready THEN "reply" ELSE "load",
                                    !.n = n, !.caller = c]
    /\ UNCHANGED <<log, prepared, lock, volume, view, searcher, trouble>>

\* _load: the warm index, an exact one, a complete one on the volume, or a new directory
\* for the PLAID build.  A directory without its manifest, which a build has left that did
\* not end, is never overwritten: its snapshot is refused for good.
Load ==
    LET n == preparer.n  plaid == view[n].plaid IN
    /\ preparer.pc = "load"
    /\ \/ /\ preparer.cached = n \/ ~ Large(n) \/ plaid = "complete"
          /\ preparer' = [preparer EXCEPT !.pc = "save", !.cached = n]
          /\ UNCHANGED <<view, call, lock>>
       \/ /\ preparer.cached # n /\ Large(n) /\ plaid = "partial"
          /\ preparer' = Idle
          /\ Answer(preparer.caller, "preparing", "refused")
          /\ UNCHANGED view
       \/ /\ preparer.cached # n /\ Large(n) /\ plaid = "none"
          /\ preparer' = [preparer EXCEPT !.pc = "build", !.cached = 0]
          /\ UNCHANGED <<view, call, lock>>
    /\ UNCHANGED <<log, prepared, volume, searcher, trouble>>

\* The pins and the tokens are right: the official indexer makes its directory.
MakeIndex ==
    /\ preparer.pc = "build" /\ view[preparer.n].plaid = "none"
    /\ view' = [view EXCEPT ![preparer.n].plaid = "partial"]
    /\ UNCHANGED <<log, prepared, lock, call, volume, preparer, searcher, trouble>>

\* The indexer finishes, the searcher opens, the manifest is renamed into place.
FinishBuild ==
    LET n == preparer.n IN
    /\ preparer.pc = "build" /\ view[n].plaid = "partial"
    /\ view' = [view EXCEPT ![n].plaid = "complete"]
    /\ preparer' = [preparer EXCEPT !.pc = "save", !.cached = n]
    /\ UNCHANGED <<log, prepared, lock, call, volume, searcher, trouble>>

\* _load's refusals: another checkpoint, another revision of the official code, a wrong
\* token count.  They come before the indexer makes its directory; the warm index is gone.
RefusePins ==
    LET n == preparer.n IN
    /\ \/ preparer.pc = "build" /\ view[n].plaid = "none"
       \/ preparer.pc = "load" /\ preparer.cached # n /\ Large(n) /\ view[n].plaid = "complete"
    /\ trouble < MaxTrouble /\ trouble' = trouble + 1
    /\ preparer' = Idle
    /\ Answer(preparer.caller, "preparing", "failed")
    /\ UNCHANGED <<log, prepared, volume, view, searcher>>

\* Anything else raises (the indexer, no space): what is on the volume stays, a
\* directory that the indexer has begun too.
PrepareFails ==
    /\ preparer.pc \in {"load", "build", "save"} /\ trouble < MaxTrouble
    /\ preparer' = [preparer EXCEPT !.pc = "idle", !.n = 0, !.caller = Nobody]
    /\ Answer(preparer.caller, "preparing", "failed")
    /\ trouble' = trouble + 1
    /\ UNCHANGED <<log, prepared, volume, view, searcher>>

\* workspace.json last, by rename.
SaveGeneration ==
    /\ preparer.pc = "save"
    /\ view' = [view EXCEPT ![preparer.n].ready = TRUE]
    /\ preparer' = [preparer EXCEPT !.pc = "reply"]
    /\ UNCHANGED <<log, prepared, lock, call, volume, searcher, trouble>>

\* The reply: the client checks its identity and installs it, all in one go.
Reply ==
    LET c == preparer.caller IN
    /\ preparer' = [preparer EXCEPT !.pc = "idle", !.n = 0, !.caller = Nobody]
    /\ IF call[c].pc = "preparing"
       THEN /\ prepared' = [prepared EXCEPT ![ClientOf[c]] = preparer.n]
            /\ Goto(c, "search")
       ELSE UNCHANGED <<prepared, call>>

\* Mutant: the reply leaves before the volume is committed.
ReplyUncommitted ==
    /\ preparer.pc = "reply"
    /\ Reply
    /\ UNCHANGED <<log, lock, volume, view, searcher, trouble>>

\* volume.commit, then the reply.
CommitAndReply ==
    /\ preparer.pc = "reply"
    /\ volume' = view
    /\ Reply
    /\ UNCHANGED <<log, lock, view, searcher, trouble>>

-----------------------------------------------------------------------------
(* search_workspace: WorkspaceIndexService.search *)

\* reload, _read, _load.  The warm generation needs its workspace.json only; one that is
\* not on the volume is an error.  (One that is not whole would be built anew here: by
\* GenerationsWhole it never comes to that.)
StartSearch(c) ==
    LET n == prepared[ClientOf[c]]  generation == volume[n] IN
    /\ call[c].pc = "search" /\ searcher.pc = "idle"
    /\ IF generation.ready /\ (searcher.cached = n \/ ~ Large(n) \/ generation.plaid = "complete")
       THEN /\ searcher' = [pc |-> "reply", n |-> n, caller |-> c, cached |-> n]
            /\ Goto(c, "searching") /\ UNCHANGED lock
       ELSE Leave(c, "failed") /\ UNCHANGED searcher
    /\ UNCHANGED <<log, prepared, volume, view, preparer, trouble>>

\* Both components are searched and fused; the client checks that the answer is of the
\* generation it asked for.
FinishSearch ==
    LET c == searcher.caller IN
    /\ searcher.pc = "reply"
    /\ searcher' = [searcher EXCEPT !.pc = "idle", !.n = 0, !.caller = Nobody]
    /\ IF call[c].pc = "searching"
       THEN /\ call' = [call EXCEPT ![c].pc = "found", ![c].hits = searcher.n]
            /\ lock' = [lock EXCEPT ![ClientOf[c]] = Nobody]
       ELSE UNCHANGED <<call, lock>>
    /\ UNCHANGED <<log, prepared, volume, view, preparer, trouble>>

\* The official searcher raises, or the query has too many tokens.
SearchFails ==
    /\ searcher.pc = "reply" /\ trouble < MaxTrouble
    /\ searcher' = [searcher EXCEPT !.pc = "idle", !.n = 0, !.caller = Nobody]
    /\ Answer(searcher.caller, "searching", "failed")
    /\ trouble' = trouble + 1
    /\ UNCHANGED <<log, prepared, volume, view, preparer>>

-----------------------------------------------------------------------------
(* Containers (external) *)

BackgroundCommit ==
    /\ volume # view
    /\ volume' = view
    /\ UNCHANGED <<log, prepared, lock, call, view, preparer, searcher, trouble>>

\* An idle container goes away after its scale-down window and commits.
ScaleDown ==
    \/ /\ preparer.pc = "idle" /\ preparer # Idle
       /\ preparer' = Idle /\ volume' = view
       /\ UNCHANGED <<log, prepared, lock, call, view, searcher, trouble>>
    \/ /\ searcher.pc = "idle" /\ searcher # Idle
       /\ searcher' = Idle
       /\ UNCHANGED <<log, prepared, lock, call, volume, view, preparer, trouble>>

\* A container is killed at work: by its timeout, by the platform, out of memory.
Kill ==
    /\ trouble < MaxTrouble
    /\ \/ /\ preparer.pc # "idle"
          /\ preparer' = Idle /\ view' = volume
          /\ Answer(preparer.caller, "preparing", "failed")
          /\ UNCHANGED searcher
       \/ /\ searcher.pc # "idle"
          /\ searcher' = Idle
          /\ Answer(searcher.caller, "searching", "failed")
          /\ UNCHANGED <<preparer, view>>
    /\ trouble' = trouble + 1
    /\ UNCHANGED <<log, prepared, volume>>

Next ==
    \/ Publish
    \/ \E c \in Calls : Enter(c) \/ Cancel(c) \/ StartPrepare(c) \/ StartSearch(c)
    \/ Load \/ MakeIndex \/ FinishBuild \/ SaveGeneration \/ CommitAndReply
    \/ RefusePins \/ PrepareFails
    \/ FinishSearch \/ SearchFails
    \/ BackgroundCommit \/ ScaleDown \/ Kill

Spec == Init /\ [][Next]_vars

-----------------------------------------------------------------------------
(* Properties *)

\* A search answers from the generation of exactly the records that were committed when
\* it took the lock, never from an older one (node-search.md:148), although another
\* search's prepare may have been cancelled, failed, or finished without its caller.
HitsAreCurrent ==
    \A c \in Calls : call[c].pc = "found" => call[c].hits = call[c].cutoff

\* What a client has prepared can be searched by the other container, and whatever
\* workspace.json says is ready has its whole PLAID index, on the volume too, after any
\* background commit or kill (live.py, prepare: the components first, workspace.json
\* last, the commit before the reply).
GenerationsWhole ==
    /\ \A i \in Clients : prepared[i] # 0 => volume[prepared[i]].ready
    /\ \A n \in Snapshots :
           volume[n].ready /\ Large(n) => volume[n].plaid = "complete"
==============================================================================
