------------------------------- MODULE Edges -------------------------------
(***************************************************************************)
(* The edges of a workspace, published and withdrawn by users, and the     *)
(* maintenance passes (LLGM.organize) that propose links and publish the   *)
(* ones they accept.                                                       *)
(*                                                                         *)
(* A transaction holds SQLite's write lock from its first read             *)
(* (EvidenceStore), so it is one step, and one that raises changes         *)
(* nothing.  A user's request may be served at any time, late, and again.  *)
(* A pass reads a node's edges once and decides on what it read; each      *)
(* publication is handed to a worker thread, which commits it even if the  *)
(* pass has been cancelled or has run out of time.  Passes overlap: those  *)
(* of different applications share no lock.                                *)
(***************************************************************************)
EXTENDS Naturals, Sequences

CONSTANTS
    None,
    Nodes,         \* published nodes
    Scopes,        \* applicabilities of edges
    Supports,      \* the evidence an edge may cite
    Models,        \* the models that answer proposal requests
    Users, Host,   \* who publishes: callers, or accept_link
    Keys,          \* idempotency keys of callers
    UserRequests,  \* what callers ask for
    Passes,        \* maintenance passes
    Selections,    \* the nodes a pass may be asked to organize, in order
    Proposals,     \* what a model may answer: sequences of links
    ModeOf,        \* the policy's mode: "validated" or "propose"
    MaxLinks,      \* max_links_per_node
    MaxEdges       \* bound: edges in the workspace

ProvenanceType ==
    [by : Users \cup {Host}, support : Supports, model : Models \cup {None}]

EdgeType ==
    [source : Nodes, target : Nodes, scope : Scopes, provenance : ProvenanceType,
     withdrawal : ProvenanceType \cup {None}]

(* What the retry key of an automatic link is computed from.               *)
LinkKeyType == [source : Nodes, target : Nodes, scope : Scopes, support : Supports]

KeyType == Keys \cup {None} \cup LinkKeyType

PublishType == [op : {"edge"}, key : KeyType, edge : EdgeType]

WithdrawType == [op : {"withdraw_edge"}, key : KeyType, id : Nat, provenance : ProvenanceType]

ReceiptType == [request : PublishType \cup WithdrawType, id : Nat, edge : EdgeType]

ASSUME EdgesAssumption ==
    /\ None \notin ProvenanceType /\ None \notin PublishType
    /\ Host \notin Users
    /\ None \notin LinkKeyType /\ Keys \cap LinkKeyType = {}
    /\ UserRequests \subseteq PublishType \cup WithdrawType
    /\ \A r \in UserRequests :
         /\ r.key \in Keys \cup {None}
         /\ r.op = "edge" => r.edge.provenance.by \in Users /\ r.edge.withdrawal = None
    /\ MaxLinks \in Nat /\ MaxEdges \in Nat
    /\ ModeOf \in [Passes -> {"validated", "propose"}]

(* propose_links admits one link per target, between different nodes, all  *)
(* proposed by one answer of one model.                                    *)
ASSUME ProposalsAssumption ==
    /\ Selections \subseteq Seq(Nodes)
    /\ Proposals \subseteq Seq(EdgeType)
    /\ \A s \in Proposals : \A i, j \in DOMAIN s :
         /\ s[i].source = s[j].source /\ s[i].source # s[i].target
         /\ s[i].target = s[j].target => i = j
         /\ s[i].provenance.by = Host /\ s[i].withdrawal = None
         /\ s[i].provenance.model = s[j].provenance.model

VARIABLES
    edges,     \* the edges, withdrawn ones included; an edge is its place here
    memo,      \* the retry rows: receipts of the requests that had a key
    acks,      \* the receipts that callers with a key and passes were given
    pc,        \* pass -> where it is, or how it ended
    todo,      \* pass -> the nodes it has still to organize
    plan,      \* pass -> the links proposed for the first of them, not yet decided
    known,     \* pass -> the identities of the edges it takes to be recorded
    count,     \* pass -> links it published for this node
    pending,   \* pass -> the publication a worker thread has, or None
    accepted,  \* pass -> the edges it reports as accepted
    gone       \* pass -> the edges that were withdrawn before it began

workspace == <<edges, memo, acks>>
vars == <<edges, memo, acks, pc, todo, plan, known, count, pending, accepted, gone>>

(* "abandoned" is cancelled, or budget_exhausted: also by a timeout.        *)
Ends == {"completed", "partial", "failed", "abandoned"}

TypeOK ==
    /\ edges \in Seq(EdgeType)
    /\ memo \subseteq ReceiptType /\ acks \subseteq ReceiptType
    /\ pc \in [Passes -> {"idle", "inspecting", "deciding", "publishing"} \cup Ends]
    /\ todo \in [Passes -> Seq(Nodes)]
    /\ plan \in [Passes -> Seq(EdgeType)]
    /\ known \in [Passes -> SUBSET (Nodes \X Nodes \X Scopes)]
    /\ count \in [Passes -> Nat]
    /\ pending \in [Passes -> PublishType \cup {None}]
    /\ accepted \in [Passes -> SUBSET Nat] /\ gone \in [Passes -> SUBSET Nat]

Init ==
    /\ edges = << >> /\ memo = {} /\ acks = {}
    /\ pc = [p \in Passes |-> "idle"]
    /\ todo = [p \in Passes |-> << >>] /\ plan = [p \in Passes |-> << >>]
    /\ known = [p \in Passes |-> {}] /\ count = [p \in Passes |-> 0]
    /\ pending = [p \in Passes |-> None]
    /\ accepted = [p \in Passes |-> {}] /\ gone = [p \in Passes |-> {}]

-----------------------------------------------------------------------------
Active == {i \in DOMAIN edges : edges[i].withdrawal = None}

(* Mutant: edges of different authors are different edges.                 *)
IdentityWithProvenance(e) == <<e.source, e.target, e.scope, e.provenance>>

(* The column "identity", which duplicates have in common.                 *)
Identity(e) == <<e.source, e.target, e.scope>>

Same(e) == {i \in Active : Identity(edges[i]) = Identity(e)}

(* Mutant: the key of a link covers the model that proposed it.            *)
LinkKeyWithModel(e) ==
    [source |-> e.source, target |-> e.target, scope |-> e.scope,
     support |-> <<e.provenance.support, e.provenance.model>>]

(* The key of an automatic link: neither its rationale nor its model.      *)
LinkKey(e) ==
    [source |-> e.source, target |-> e.target, scope |-> e.scope,
     support |-> e.provenance.support]

Prior(r) == {m \in memo : r.key # None /\ m.request.op = r.op /\ m.request.key = r.key}

(* Mutant: a key that was used is never a conflict.                        *)
ConflictNever(r) == FALSE

Conflict(r) == \E m \in Prior(r) : m.request # r

Receipt(r, id, edge) == [request |-> r, id |-> id, edge |-> edge]

(* The transaction answers r with the edge id as it then is, and records   *)
(* the answer under r's key.                                               *)
Answer(r, id, edge) ==
    IF r.key = None
      THEN UNCHANGED <<memo, acks>>
      ELSE /\ memo' = memo \cup {Receipt(r, id, edge)}
           /\ acks' = acks \cup {Receipt(r, id, edge)}

(* The key was used for this request: its recorded answer is given again.  *)
Replay(r, m) ==
    /\ ~Conflict(r)
    /\ m \in Prior(r)
    /\ acks' = acks \cup {Receipt(r, m.id, m.edge)}
    /\ UNCHANGED <<edges, memo>>

(* There is an active edge with the same ends and applicability.           *)
Reuse(r, id) ==
    /\ Prior(r) = {}
    /\ id \in Same(r.edge)
    /\ Answer(r, id, edges[id])
    /\ UNCHANGED edges

Create(r, id) ==
    /\ Prior(r) = {}
    /\ Same(r.edge) = {}
    /\ id = Len(edges) + 1 /\ id <= MaxEdges
    /\ edges' = Append(edges, r.edge)
    /\ Answer(r, id, r.edge)

(* Mutant: an edge that has been withdrawn is withdrawn anew.              *)
WithdrawnAnew(r) == [edges[r.id] EXCEPT !.withdrawal = r.provenance]

(* The first withdrawal of an edge stands.                                 *)
Withdrawn(r) ==
    IF edges[r.id].withdrawal = None
      THEN [edges[r.id] EXCEPT !.withdrawal = r.provenance]
      ELSE edges[r.id]

Withdraw(r) ==
    /\ Prior(r) = {}
    /\ r.id \in DOMAIN edges
    /\ edges' = [edges EXCEPT ![r.id] = Withdrawn(r)]
    /\ Answer(r, r.id, Withdrawn(r))

(* A request of a user is served; a refusal would change nothing.          *)
Serve(r) ==
    /\ \/ \E m \in Prior(r) : Replay(r, m)
       \/ r.op = "edge" /\ \E id \in 1 .. MaxEdges : Reuse(r, id) \/ Create(r, id)
       \/ r.op = "withdraw_edge" /\ Withdraw(r)
    /\ UNCHANGED <<pc, todo, plan, known, count, pending, accepted, gone>>

-----------------------------------------------------------------------------
(* A pass goes on; when it ends, what it remembered is gone.               *)
Goto(p, where) == pc' = [pc EXCEPT ![p] = where]

End(p, how) ==
    /\ Goto(p, how)
    /\ todo' = [todo EXCEPT ![p] = << >>] /\ plan' = [plan EXCEPT ![p] = << >>]
    /\ known' = [known EXCEPT ![p] = {}] /\ count' = [count EXCEPT ![p] = 0]

(* A pass begins with the nodes it was asked to organize.                  *)
Organize(p, selection) ==
    /\ pc[p] = "idle"
    /\ selection # << >>
    /\ Goto(p, "inspecting")
    /\ todo' = [todo EXCEPT ![p] = selection]
    /\ gone' = [gone EXCEPT ![p] = DOMAIN edges \ Active]
    /\ UNCHANGED <<workspace, plan, known, count, pending, accepted>>

(* The model has proposed links for a node; then its active edges are read. *)
Inspect(p, links) ==
    LET node == Head(todo[p])
    IN  /\ pc[p] = "inspecting"
        /\ \A i \in DOMAIN links : links[i].source = node
        /\ Goto(p, "deciding")
        /\ plan' = [plan EXCEPT ![p] = links]
        /\ known' = [known EXCEPT ![p] =
                       {Identity(edges[i]) : i \in {j \in Active : edges[j].source = node}}]
        /\ count' = [count EXCEPT ![p] = 0]
        /\ UNCHANGED <<workspace, todo, pending, accepted, gone>>

Decision(p, link) ==
    CASE Identity(link) \in known[p] -> "already_recorded"
      [] Identity(link) \notin known[p] /\ ModeOf[p] = "propose" -> "review_required"
      [] Identity(link) \notin known[p] /\ ModeOf[p] # "propose" /\ count[p] >= MaxLinks -> "link_limit"
      [] OTHER -> "publish"

(* The next link is not published.                                         *)
Skip(p) ==
    /\ pc[p] = "deciding" /\ plan[p] # << >>
    /\ Decision(p, Head(plan[p])) # "publish"
    /\ plan' = [plan EXCEPT ![p] = Tail(@)]
    /\ UNCHANGED <<workspace, pc, todo, known, count, pending, accepted, gone>>

(* accept_link: the publication is handed to a worker thread.              *)
Accept(p) ==
    /\ pc[p] = "deciding" /\ plan[p] # << >>
    /\ Decision(p, Head(plan[p])) = "publish"
    /\ Goto(p, "publishing")
    /\ pending' = [pending EXCEPT ![p] =
                     [op |-> "edge", key |-> LinkKey(Head(plan[p])), edge |-> Head(plan[p])]]
    /\ UNCHANGED <<workspace, todo, plan, known, count, accepted, gone>>

(* The thread's transaction answers with an edge.  A pass that still waits *)
(* counts it; if it was abandoned, nobody learns of the edge.              *)
Publish(p, id) ==
    LET r == pending[p]
    IN  /\ r # None
        /\ \/ \E m \in Prior(r) : m.id = id /\ Replay(r, m)
           \/ Reuse(r, id) \/ Create(r, id)
        /\ pending' = [pending EXCEPT ![p] = None]
        /\ IF pc[p] = "publishing"
             THEN /\ Goto(p, "deciding")
                  /\ accepted' = [accepted EXCEPT ![p] = @ \cup {id}]
                  /\ known' = [known EXCEPT ![p] = @ \cup {Identity(r.edge)}]
                  /\ count' = [count EXCEPT ![p] = @ + 1]
                  /\ plan' = [plan EXCEPT ![p] = Tail(@)]
             ELSE UNCHANGED <<pc, accepted, known, count, plan>>
        /\ UNCHANGED <<todo, gone>>

(* The node is done.                                                       *)
Advance(p) ==
    /\ pc[p] = "deciding" /\ plan[p] = << >>
    /\ IF Len(todo[p]) = 1
         THEN End(p, "completed")
         ELSE /\ Goto(p, "inspecting")
              /\ todo' = [todo EXCEPT ![p] = Tail(@)]
              /\ UNCHANGED <<plan, known, count>>
    /\ UNCHANGED <<workspace, pending, accepted, gone>>

(* Mutant: only the links of the current node count as accepted work.      *)
FailureOfNode(p) == IF count[p] > 0 THEN "partial" ELSE "failed"

(* How a pass ends that meets an error.                                    *)
Failure(p) == IF accepted[p] # {} THEN "partial" ELSE "failed"

(* The thread's transaction raises: the key was recorded for a proposal of *)
(* another model, or storage fails.                                        *)
Refuse(p) ==
    /\ pending[p] # None
    /\ pending' = [pending EXCEPT ![p] = None]
    /\ IF pc[p] = "publishing" THEN End(p, Failure(p)) ELSE UNCHANGED <<pc, todo, plan, known, count>>
    /\ UNCHANGED <<workspace, accepted, gone>>

(* Search, the model or a read fails: the rest of the pass is not done.    *)
Fail(p) ==
    /\ pc[p] = "inspecting"
    /\ End(p, Failure(p))
    /\ UNCHANGED <<workspace, pending, accepted, gone>>

(* Time or an allowance runs out, or the pass is cancelled, at an await.   *)
Abandon(p) ==
    /\ pc[p] \in {"inspecting", "publishing"}
    /\ End(p, "abandoned")
    /\ UNCHANGED <<workspace, pending, accepted, gone>>

Pass(p) ==
    \/ \E s \in Selections : Organize(p, s)
    \/ \E links \in Proposals : Inspect(p, links)
    \/ Skip(p) \/ Accept(p) \/ Advance(p) \/ Refuse(p) \/ Fail(p) \/ Abandon(p)
    \/ \E id \in 1 .. MaxEdges : Publish(p, id)

Next ==
    \/ \E r \in UserRequests : Serve(r)
    \/ \E p \in Passes : Pass(p)

Spec == Init /\ [][Next]_vars

-----------------------------------------------------------------------------
(* Users and passes that publish the same relation at the same time, after *)
(* different reads, never leave two active edges for it (workspace.py,     *)
(* publish_edge, "deduplicating active relationships").                    *)
OneActiveEdge ==
    \A i, j \in Active :
      /\ edges[i].source = edges[j].source /\ edges[i].target = edges[j].target
      /\ edges[i].scope = edges[j].scope
      => i = j

(* No edge is removed, replaced or moved, its provenance never changes,    *)
(* and its first withdrawal is its last: no publication, retry or second   *)
(* withdrawal revives or rewrites it ("A withdrawn edge is never           *)
(* reactivated").                                                          *)
WithdrawalFinal ==
    [][/\ DOMAIN edges \subseteq DOMAIN edges'
       /\ \A i \in DOMAIN edges :
            edges[i].withdrawal # None => edges'[i] = edges[i]
       /\ \A i \in DOMAIN edges :
            edges[i] = [edges'[i] EXCEPT !.withdrawal = edges[i].withdrawal]]_edges

(* All callers of one key are told of the same edge, and what they are     *)
(* told is what they asked for: one with these ends, or the withdrawal     *)
(* that stands.                                                            *)
ReceiptsAgree ==
    /\ \A a, b \in acks :
         a.request.op = b.request.op /\ a.request.key = b.request.key /\ a.request.key # None =>
           a = b
    /\ \A a \in acks :
         /\ a.id \in DOMAIN edges
         /\ IF a.request.op = "edge"
              THEN /\ a.edge.source = a.request.edge.source
                   /\ a.edge.target = a.request.edge.target
                   /\ a.edge.scope = a.request.edge.scope
                   /\ a.edge = [edges[a.id] EXCEPT !.withdrawal = None]
              ELSE a.id = a.request.id /\ a.edge = edges[a.id] /\ a.edge.withdrawal # None

(* However often maintenance runs, is abandoned or races with itself, and  *)
(* whatever is withdrawn in between, it creates a link at most once from   *)
(* the same evidence: what a reviewer withdrew does not come back by       *)
(* itself (llgm.py, the key "auto-link:").                                 *)
LinkedOnce ==
    \A i, j \in DOMAIN edges :
      /\ edges[i].provenance.by = Host /\ edges[j].provenance.by = Host
      /\ edges[i].source = edges[j].source /\ edges[i].target = edges[j].target
      /\ edges[i].scope = edges[j].scope
      /\ edges[i].provenance.support = edges[j].provenance.support
      => i = j

(* No relation is published twice: neither twice active, nor again by      *)
(* maintenance from the evidence of a link that was withdrawn.             *)
PublishedOnce == OneActiveEdge /\ LinkedOnce

(* A pass that reports a failure has published nothing, also for the nodes *)
(* before the one at which it failed; a pass that ended by itself has left *)
(* no publication behind that could still commit.                          *)
FailureIsWhole ==
    \A p \in Passes :
      /\ pc[p] = "failed" => accepted[p] = {}
      /\ pc[p] = "partial" => accepted[p] # {}
      /\ pc[p] \in {"completed", "partial", "failed"} => pending[p] = None

(* "Validate proposed connections structurally and publish accepted links" *)
(* (docs/guide/conversations.md): what a pass reports as accepted has been *)
(* active since it began.                                                  *)
AcceptedIsPublished == \A p \in Passes : accepted[p] \cap gone[p] = {}
=============================================================================
