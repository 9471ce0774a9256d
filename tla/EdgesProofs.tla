---------------------------- MODULE EdgesProofs ----------------------------
(***************************************************************************)
(* Proofs about Edges, for any number of nodes, users, passes and requests. *)
(*                                                                         *)
(* What the tables say of each other (WorkspaceInv) is preserved by every  *)
(* transaction, whoever asks for it, if the request is Proper: an edge     *)
(* that the host publishes has the key of its link.  The passes only make  *)
(* such requests (PassInv).                                                *)
(***************************************************************************)
EXTENDS Edges, SequenceTheorems, TLAPS

KeyedOnce ==
    /\ \A m \in memo : m.request.key # None
    /\ \A m, n \in memo :
         m.request.op = n.request.op /\ m.request.key = n.request.key => m = n

(* A receipt fits the request and the edge as it is now.                   *)
Fits(m) ==
    /\ m.id \in DOMAIN edges
    /\ m.request.op = "edge" =>
         /\ m.edge.source = m.request.edge.source
         /\ m.edge.target = m.request.edge.target
         /\ m.edge.scope = m.request.edge.scope
         /\ m.edge = [edges[m.id] EXCEPT !.withdrawal = None]
    /\ m.request.op = "withdraw_edge" =>
         m.id = m.request.id /\ m.edge = edges[m.id] /\ m.edge.withdrawal # None

(* Every link the host created is recorded under its key.                  *)
LinksRecorded ==
    \A i \in DOMAIN edges : edges[i].provenance.by = Host =>
      \E m \in memo :
        m.request.op = "edge" /\ m.request.key = LinkKey(edges[i]) /\ m.id = i

WorkspaceInv ==
    /\ edges \in Seq(EdgeType)
    /\ memo \subseteq ReceiptType
    /\ acks = memo
    /\ KeyedOnce
    /\ \A m \in memo : Fits(m)
    /\ OneActiveEdge
    /\ LinksRecorded

Request == PublishType \cup WithdrawType

(* The host's edges come with the key of their link.                       *)
Proper(r) ==
    /\ r \in Request
    /\ r.op = "edge" =>
         /\ r.edge.withdrawal = None
         /\ r.edge.provenance.by = Host => r.key = LinkKey(r.edge)

PassInv ==
    /\ pc \in [Passes -> {"idle", "inspecting", "deciding", "publishing"} \cup Ends]
    /\ todo \in [Passes -> Seq(Nodes)]
    /\ plan \in [Passes -> Seq(EdgeType)]
    /\ known \in [Passes -> SUBSET (Nodes \X Nodes \X Scopes)]
    /\ count \in [Passes -> Nat]
    /\ pending \in [Passes -> PublishType \cup {None}]
    /\ accepted \in [Passes -> SUBSET Nat] /\ gone \in [Passes -> SUBSET Nat]
    /\ \A p \in Passes : pc[p] \in {"inspecting", "deciding", "publishing"} => Len(todo[p]) > 0
    /\ \A p \in Passes : pc[p] = "publishing" => plan[p] # << >>
    /\ \A p \in Passes : \A i \in DOMAIN plan[p] :
         plan[p][i].provenance.by = Host /\ plan[p][i].withdrawal = None
    /\ \A p \in Passes : pending[p] # None => Proper(pending[p])

EdgesInv == WorkspaceInv /\ PassInv

-----------------------------------------------------------------------------
(* Records of edges.                                                       *)
LEMMA EdgeUpdate ==
    ASSUME NEW e \in EdgeType, NEW w \in ProvenanceType \cup {None}
    PROVE  LET f == [e EXCEPT !.withdrawal = w]
           IN  /\ f \in EdgeType /\ f.withdrawal = w
               /\ f.source = e.source /\ f.target = e.target /\ f.scope = e.scope
               /\ f.provenance = e.provenance
               /\ LinkKey(f) = LinkKey(e) /\ Identity(f) = Identity(e)
BY DEF EdgeType, LinkKey, Identity

LEMMA EdgeUnchanged ==
    ASSUME NEW e \in EdgeType, NEW w, w = e.withdrawal
    PROVE  [e EXCEPT !.withdrawal = w] = e
BY DEF EdgeType

LEMMA EdgeUpdateTwice ==
    ASSUME NEW e \in EdgeType, NEW v, NEW w
    PROVE  [[e EXCEPT !.withdrawal = v] EXCEPT !.withdrawal = w] = [e EXCEPT !.withdrawal = w]
BY DEF EdgeType

LEMMA EdgeRestored ==
    ASSUME NEW e \in EdgeType, NEW w
    PROVE  e = [[e EXCEPT !.withdrawal = w] EXCEPT !.withdrawal = e.withdrawal]
BY EdgeUnchanged, EdgeUpdateTwice

LEMMA IdentityFields ==
    ASSUME NEW e, NEW f
    PROVE  Identity(e) = Identity(f)
             <=> e.source = f.source /\ e.target = f.target /\ e.scope = f.scope
BY DEF Identity

LEMMA ReceiptFields ==
    ASSUME NEW r \in Request, NEW id \in Nat, NEW e \in EdgeType
    PROVE  /\ Receipt(r, id, e) \in ReceiptType
           /\ Receipt(r, id, e).request = r /\ Receipt(r, id, e).id = id
           /\ Receipt(r, id, e).edge = e
BY DEF Receipt, ReceiptType, Request

LEMMA RequestFields ==
    ASSUME NEW r \in Request
    PROVE  /\ r.op = "edge" => r \in PublishType /\ r.edge \in EdgeType
           /\ r.op = "withdraw_edge" =>
                r \in WithdrawType /\ r.id \in Nat /\ r.provenance \in ProvenanceType
           /\ r.op \in {"edge", "withdraw_edge"}
           /\ r.key \in KeyType
BY DEF Request, PublishType, WithdrawType

-----------------------------------------------------------------------------
(* Transactions.                                                           *)

(* A new receipt under a key that was free, or under none, keeps the retry *)
(* rows consistent if it fits the edges as they become, and the rows that  *)
(* were there still do.                                                    *)
LEMMA AnswerInv ==
    ASSUME WorkspaceInv, NEW r \in Request, NEW id \in Nat, NEW e \in EdgeType,
           Prior(r) = {},
           Answer(r, id, e),
           edges' \in Seq(EdgeType), Len(edges) <= Len(edges'),
           \A m \in memo : Fits(m)',
           Fits(Receipt(r, id, e))',
           OneActiveEdge',
           \A i \in DOMAIN edges : /\ edges'[i].provenance = edges[i].provenance
                                  /\ LinkKey(edges'[i]) = LinkKey(edges[i]),
           \A i \in DOMAIN edges' \ DOMAIN edges :
             edges'[i].provenance.by = Host =>
               i = id /\ r.op = "edge" /\ r.key = LinkKey(edges'[i]) /\ r.key # None
    PROVE  WorkspaceInv'
<1> DEFINE new == Receipt(r, id, e)
<1>1. /\ new \in ReceiptType
      /\ new.request = r /\ new.id = id /\ new.edge = e
  BY ReceiptFields
<1>2. /\ memo' = (IF r.key = None THEN memo ELSE memo \cup {new})
      /\ acks' = memo'
  BY DEF Answer, WorkspaceInv
<1>3. memo' \subseteq ReceiptType
  BY <1>1, <1>2 DEF WorkspaceInv
<1>4. KeyedOnce'
  <2>1. \A m \in memo : ~(m.request.op = r.op /\ m.request.key = r.key /\ r.key # None)
    BY DEF Prior
  <2> QED
    BY <1>1, <1>2, <2>1 DEF KeyedOnce, WorkspaceInv
<1>5. \A m \in memo' : Fits(m)'
  BY <1>2
<1>6. LinksRecorded'
  <2> SUFFICES ASSUME NEW i \in DOMAIN edges', edges'[i].provenance.by = Host
               PROVE  \E m \in memo' :
                        m.request.op = "edge" /\ m.request.key = LinkKey(edges'[i]) /\ m.id = i
    BY DEF LinksRecorded, LinkKey
  <2>1. CASE i \in DOMAIN edges
    <3>1. PICK m \in memo :
                 m.request.op = "edge" /\ m.request.key = LinkKey(edges[i]) /\ m.id = i
      BY <2>1 DEF WorkspaceInv, LinksRecorded
    <3> QED
      BY <1>2, <2>1, <3>1
  <2>2. CASE i \notin DOMAIN edges
    <3>1. i = id /\ r.op = "edge" /\ r.key = LinkKey(edges'[i]) /\ r.key # None
      BY <2>2
    <3> QED
      BY <1>1, <1>2, <3>1
  <2> QED
    BY <2>1, <2>2
<1> QED
  BY <1>2, <1>3, <1>4, <1>5, <1>6 DEF WorkspaceInv

(* A retry adds the receipt that is recorded.                              *)
LEMMA ReplayInv ==
    ASSUME WorkspaceInv, NEW r, NEW m, Replay(r, m)
    PROVE  WorkspaceInv'
<1>1. m \in memo /\ m.request = r
  BY DEF Replay, Conflict, Prior
<1>2. Receipt(r, m.id, m.edge) = m
  BY <1>1 DEF Receipt, ReceiptType, WorkspaceInv
<1>3. UNCHANGED <<edges, memo, acks>>
  BY <1>1, <1>2 DEF Replay, WorkspaceInv
<1> QED
  BY <1>3 DEF WorkspaceInv, KeyedOnce, Fits, OneActiveEdge, Active, LinksRecorded, LinkKey

(* A publication that finds an active edge with the same identity answers  *)
(* with it.                                                                *)
LEMMA ReuseInv ==
    ASSUME WorkspaceInv, NEW r \in Request, r.op = "edge", NEW id, Reuse(r, id)
    PROVE  WorkspaceInv'
<1> USE DEF WorkspaceInv
<1>1. /\ id \in DOMAIN edges /\ id \in Nat
      /\ edges[id] \in EdgeType /\ edges[id].withdrawal = None
      /\ Identity(edges[id]) = Identity(r.edge)
  BY DEF Reuse, Same, Active
<1>2. /\ edges[id].source = r.edge.source /\ edges[id].target = r.edge.target
      /\ edges[id].scope = r.edge.scope
  BY <1>1, IdentityFields
<1>3. edges[id] = [edges[id] EXCEPT !.withdrawal = None]
  BY <1>1, EdgeUnchanged
<1>4. Prior(r) = {} /\ Answer(r, id, edges[id]) /\ edges' = edges
  BY DEF Reuse
<1>5. \A m \in memo : Fits(m)'
  BY <1>4 DEF Fits
<1>6. Fits(Receipt(r, id, edges[id]))'
  BY <1>1, <1>2, <1>3, <1>4, ReceiptFields DEF Fits
<1>7. OneActiveEdge'
  BY <1>4 DEF OneActiveEdge, Active
<1> QED
  BY <1>1, <1>4, <1>5, <1>6, <1>7, AnswerInv

(* A publication that finds none creates one.                              *)
LEMMA CreateInv ==
    ASSUME WorkspaceInv, NEW r, Proper(r), r.op = "edge", NEW id, Create(r, id)
    PROVE  WorkspaceInv'
<1> USE DEF WorkspaceInv
<1>1. r \in Request /\ r.edge \in EdgeType /\ r.edge.withdrawal = None
  BY RequestFields DEF Proper
<1>2. /\ Prior(r) = {} /\ Answer(r, id, r.edge)
      /\ Same(r.edge) = {}
      /\ id = Len(edges) + 1 /\ edges' = Append(edges, r.edge)
  BY DEF Create
<1>3. /\ id \in Nat
      /\ edges' \in Seq(EdgeType) /\ Len(edges') = Len(edges) + 1
      /\ DOMAIN edges' = DOMAIN edges \cup {id} /\ id \notin DOMAIN edges
      /\ edges'[id] = r.edge
      /\ \A i \in DOMAIN edges : edges'[i] = edges[i]
  BY <1>1, <1>2
<1>4. \A m \in memo : Fits(m)'
  BY <1>3 DEF Fits
<1>5. r.edge = [r.edge EXCEPT !.withdrawal = None]
  BY <1>1, EdgeUnchanged
<1>6. Fits(Receipt(r, id, r.edge))'
  BY <1>1, <1>3, <1>5, ReceiptFields DEF Fits
<1>7. OneActiveEdge'
  <2>1. \A i \in DOMAIN edges :
          edges[i].withdrawal = None =>
            ~(edges[i].source = r.edge.source /\ edges[i].target = r.edge.target
                /\ edges[i].scope = r.edge.scope)
    BY <1>2, IdentityFields DEF Same, Active
  <2> QED
    BY <1>1, <1>3, <2>1 DEF OneActiveEdge, Active
<1>8. r.edge.provenance.by = Host => r.key = LinkKey(r.edge) /\ r.key # None
  BY <1>1, EdgesAssumption DEF Proper, LinkKey, LinkKeyType, EdgeType, ProvenanceType
<1> QED
  BY <1>1, <1>2, <1>3, <1>4, <1>6, <1>7, <1>8, AnswerInv

(* A withdrawal changes an active edge for good, and no other.             *)
LEMMA WithdrawInv ==
    ASSUME WorkspaceInv, NEW r \in Request, r.op = "withdraw_edge", Withdraw(r)
    PROVE  WorkspaceInv'
<1>1. PICK id : id = r.id
  OBVIOUS
<1>2. PICK old : old = edges[id]
  OBVIOUS
<1>3. PICK new : new = Withdrawn(r)
  OBVIOUS
<1>4. /\ id \in DOMAIN edges /\ id \in Nat /\ old \in EdgeType
      /\ r.provenance \in ProvenanceType /\ r.provenance # None
  BY <1>1, <1>2, RequestFields, EdgesAssumption DEF Withdraw, WorkspaceInv
<1>5. /\ Prior(r) = {} /\ Answer(r, id, new) /\ edges' = [edges EXCEPT ![id] = new]
  BY <1>1, <1>3 DEF Withdraw
<1>6. /\ new \in EdgeType /\ new.withdrawal # None
      /\ new.source = old.source /\ new.target = old.target /\ new.scope = old.scope
      /\ new.provenance = old.provenance /\ LinkKey(new) = LinkKey(old)
      /\ [new EXCEPT !.withdrawal = None] = [old EXCEPT !.withdrawal = None]
      /\ old.withdrawal # None => new = old
  <2>1. CASE old.withdrawal = None
    <3>1. new = [old EXCEPT !.withdrawal = r.provenance]
      BY <1>1, <1>2, <1>3, <2>1 DEF Withdrawn
    <3>2. /\ new \in EdgeType /\ new.withdrawal = r.provenance
          /\ new.source = old.source /\ new.target = old.target /\ new.scope = old.scope
          /\ new.provenance = old.provenance /\ LinkKey(new) = LinkKey(old)
      BY <1>4, <3>1, EdgeUpdate
    <3>3. [new EXCEPT !.withdrawal = None] = [old EXCEPT !.withdrawal = None]
      BY <1>4, <3>1, EdgeUpdateTwice
    <3> QED
      BY <1>4, <2>1, <3>2, <3>3
  <2>2. CASE old.withdrawal # None
    BY <1>1, <1>2, <1>3, <1>4, <2>2 DEF Withdrawn
  <2> QED
    BY <2>1, <2>2
<1>7. /\ edges' \in Seq(EdgeType) /\ Len(edges') = Len(edges) /\ Len(edges) \in Nat
      /\ DOMAIN edges' = DOMAIN edges
      /\ edges'[id] = new
      /\ \A i \in DOMAIN edges : i # id => edges'[i] = edges[i]
  BY <1>4, <1>5, <1>6 DEF WorkspaceInv
<1>8. \A m \in memo : Fits(m)'
  <2> SUFFICES ASSUME NEW m \in memo PROVE Fits(m)'
    OBVIOUS
  <2>1. Fits(m)
    BY DEF WorkspaceInv
  <2>2. CASE m.id # id
    BY <1>7, <2>1, <2>2 DEF Fits
  <2>3. CASE m.id = id
    BY <1>2, <1>6, <1>7, <2>1, <2>3 DEF Fits
  <2> QED
    BY <2>2, <2>3
<1>9. Fits(Receipt(r, id, new))'
  <2>1. /\ Receipt(r, id, new).request = r /\ Receipt(r, id, new).id = id
        /\ Receipt(r, id, new).edge = new
    BY <1>4, <1>6, ReceiptFields
  <2> QED
    BY <1>1, <1>4, <1>6, <1>7, <2>1 DEF Fits
<1>10. OneActiveEdge'
  <2>1. \A i \in Active' : i \in Active /\ edges'[i] = edges[i]
    BY <1>6, <1>7 DEF Active
  <2> QED
    BY <2>1 DEF OneActiveEdge, WorkspaceInv
<1>11. \A i \in DOMAIN edges : /\ edges'[i].provenance = edges[i].provenance
                                /\ LinkKey(edges'[i]) = LinkKey(edges[i])
  BY <1>2, <1>6, <1>7
<1> QED
  BY <1>4, <1>5, <1>6, <1>7, <1>8, <1>9, <1>10, <1>11, AnswerInv

-----------------------------------------------------------------------------
(* Steps.                                                                  *)

LEMMA InitInv == Init => EdgesInv
BY DEF Init, EdgesInv, WorkspaceInv, PassInv, KeyedOnce, OneActiveEdge, Active, LinksRecorded, Ends

(* A user's request is proper: it is not made in the host's name.          *)
LEMMA UsersProper ==
    ASSUME NEW r \in UserRequests
    PROVE  Proper(r)
BY EdgesAssumption DEF Proper, Request

LEMMA ServeStep ==
    ASSUME EdgesInv, NEW r \in UserRequests, Serve(r)
    PROVE  EdgesInv'
<1>1. Proper(r) /\ r \in Request
  BY UsersProper DEF Proper
<1>2. WorkspaceInv'
  <2>1. CASE \E m \in Prior(r) : Replay(r, m)
    BY <2>1, ReplayInv DEF EdgesInv
  <2>2. CASE r.op = "edge" /\ \E id \in 1 .. MaxEdges : Reuse(r, id) \/ Create(r, id)
    BY <1>1, <2>2, ReuseInv, CreateInv DEF EdgesInv
  <2>3. CASE r.op = "withdraw_edge" /\ Withdraw(r)
    BY <1>1, <2>3, WithdrawInv DEF EdgesInv
  <2> QED
    BY <2>1, <2>2, <2>3 DEF Serve
<1>3. PassInv'
  BY DEF Serve, EdgesInv, PassInv, Proper
<1> QED
  BY <1>2, <1>3 DEF EdgesInv

LEMMA SameWorkspace ==
    ASSUME WorkspaceInv, UNCHANGED workspace
    PROVE  WorkspaceInv'
BY DEF workspace, WorkspaceInv, KeyedOnce, Fits, OneActiveEdge, Active, LinksRecorded

(* A pass that ends forgets its plan.                                      *)
LEMMA EndInv ==
    ASSUME PassInv, NEW p \in Passes, NEW how \in Ends, End(p, how),
           pending' \in [Passes -> PublishType \cup {None}],
           \A q \in Passes : pending'[q] # None => pending'[q] = pending[q],
           UNCHANGED <<accepted, gone>>
    PROVE  PassInv'
<1>1. /\ pc' \in [Passes -> {"idle", "inspecting", "deciding", "publishing"} \cup Ends]
      /\ pc'[p] = how
      /\ \A q \in Passes \ {p} : pc'[q] = pc[q]
  BY DEF PassInv, End, Goto
<1>2. /\ todo' \in [Passes -> Seq(Nodes)] /\ plan' \in [Passes -> Seq(EdgeType)]
      /\ plan'[p] = << >>
      /\ \A q \in Passes \ {p} : todo'[q] = todo[q] /\ plan'[q] = plan[q]
  BY DEF PassInv, End
<1>3. /\ known' \in [Passes -> SUBSET (Nodes \X Nodes \X Scopes)]
      /\ count' \in [Passes -> Nat]
  BY DEF PassInv, End
<1>4. \A q \in Passes : pc'[q] \in {"inspecting", "deciding", "publishing"} => Len(todo'[q]) > 0
  BY <1>1, <1>2 DEF PassInv, Ends
<1>5. \A q \in Passes : pc'[q] = "publishing" => plan'[q] # << >>
  BY <1>1, <1>2 DEF PassInv, Ends
<1>6. \A q \in Passes : \A i \in DOMAIN plan'[q] :
         plan'[q][i].provenance.by = Host /\ plan'[q][i].withdrawal = None
  <2>1. DOMAIN plan'[p] = {}
    BY <1>2
  <2>2. \A q \in Passes \ {p} : plan'[q] = plan[q]
    BY <1>2
  <2>3. ASSUME NEW q \in Passes \ {p}, NEW i \in DOMAIN plan'[q]
        PROVE  plan'[q][i].provenance.by = Host /\ plan'[q][i].withdrawal = None
    BY <2>2 DEF PassInv
  <2> QED
    BY <2>1, <2>3
<1>7. \A q \in Passes : pending'[q] # None => Proper(pending'[q])
  BY DEF PassInv
<1> QED
  BY <1>1, <1>2, <1>3, <1>4, <1>5, <1>6, <1>7 DEF PassInv, Proper

LEMMA OrganizeStep ==
    ASSUME EdgesInv, NEW p \in Passes, NEW s \in Selections, Organize(p, s)
    PROVE  EdgesInv'
<1>1. WorkspaceInv'
  BY SameWorkspace DEF Organize, EdgesInv
<1>2. s \in Seq(Nodes) /\ Len(s) > 0 /\ DOMAIN edges \subseteq Nat
  <2>1. s \in Seq(Nodes) /\ s # << >>
    BY ProposalsAssumption DEF Organize
  <2>2. Len(s) \in Nat \ {0}
    BY <2>1, EmptySeq
  <2>3. DOMAIN edges \subseteq Nat
    BY DEF EdgesInv, WorkspaceInv
  <2> QED
    BY <2>1, <2>2, <2>3
<1>3. PassInv'
  BY <1>2 DEF Organize, Goto, EdgesInv, PassInv, Ends, Proper
<1> QED
  BY <1>1, <1>3 DEF EdgesInv

LEMMA InspectStep ==
    ASSUME EdgesInv, NEW p \in Passes, NEW links \in Proposals, Inspect(p, links)
    PROVE  EdgesInv'
<1>1. WorkspaceInv'
  BY SameWorkspace DEF Inspect, EdgesInv
<1>2. /\ links \in Seq(EdgeType)
      /\ \A i \in DOMAIN links :
           links[i].provenance.by = Host /\ links[i].withdrawal = None
  BY ProposalsAssumption
<1>3. known' \in [Passes -> SUBSET (Nodes \X Nodes \X Scopes)]
  <2>1. {Identity(edges[i]) : i \in {j \in Active : edges[j].source = Head(todo[p])}}
          \subseteq Nodes \X Nodes \X Scopes
    <3>1. \A j \in Active : edges[j] \in EdgeType
      BY DEF EdgesInv, WorkspaceInv, Active
    <3>2. \A e \in EdgeType : Identity(e) \in Nodes \X Nodes \X Scopes
      BY DEF EdgeType, Identity
    <3> QED
      BY <3>1, <3>2
  <2> QED
    BY <2>1 DEF Inspect, EdgesInv, PassInv
<1>4. PassInv'
  BY <1>2, <1>3 DEF Inspect, Goto, EdgesInv, PassInv, Ends, Proper
<1> QED
  BY <1>1, <1>4 DEF EdgesInv

LEMMA SkipStep ==
    ASSUME EdgesInv, NEW p \in Passes, Skip(p)
    PROVE  EdgesInv'
<1>1. WorkspaceInv'
  BY SameWorkspace DEF Skip, EdgesInv
<1>2. PassInv'
  BY DEF Skip, EdgesInv, PassInv, Ends, Proper
<1> QED
  BY <1>1, <1>2 DEF EdgesInv

(* The publication of a link has the key of that link.                     *)
LEMMA AcceptStep ==
    ASSUME EdgesInv, NEW p \in Passes, Accept(p)
    PROVE  EdgesInv'
<1> DEFINE link == Head(plan[p])
           r == [op |-> "edge", key |-> LinkKey(link), edge |-> link]
<1>1. WorkspaceInv'
  BY SameWorkspace DEF Accept, EdgesInv
<1>2. /\ link \in EdgeType /\ link.provenance.by = Host /\ link.withdrawal = None
      /\ pc[p] = "deciding" /\ plan[p] # << >>
  BY DEF Accept, EdgesInv, PassInv
<1>3. LinkKey(link) \in LinkKeyType
  BY <1>2 DEF LinkKey, LinkKeyType, EdgeType, ProvenanceType
<1>4. r \in PublishType /\ Proper(r)
  BY <1>2, <1>3 DEF PublishType, KeyType, Proper, Request
<1>5. pending' = [pending EXCEPT ![p] = r]
  BY DEF Accept
<1> HIDE DEF r
<1>6. PassInv'
  BY <1>2, <1>4, <1>5 DEF Accept, Goto, EdgesInv, PassInv, Ends, Proper
<1> QED
  BY <1>1, <1>6 DEF EdgesInv

(* A publication changes the workspace as any other request does, and the  *)
(* pass as far as it still waits.                                          *)
LEMMA PublishStep ==
    ASSUME EdgesInv, NEW p \in Passes, NEW id \in 1 .. MaxEdges, Publish(p, id)
    PROVE  EdgesInv'
<1>1. PICK r : r = pending[p]
  OBVIOUS
<1>2. r \in PublishType /\ Proper(r) /\ r \in Request /\ r.op = "edge"
  BY <1>1 DEF Publish, EdgesInv, PassInv, Proper, PublishType
<1>3. WorkspaceInv'
  <2>1. (\E m \in Prior(r) : Replay(r, m)) \/ Reuse(r, id) \/ Create(r, id)
    BY <1>1 DEF Publish
  <2> QED
    BY <1>2, <2>1, ReplayInv, ReuseInv, CreateInv DEF EdgesInv
<1>4. /\ pending' \in [Passes -> PublishType \cup {None}]
      /\ \A q \in Passes : pending'[q] # None => Proper(pending'[q])
  BY DEF Publish, EdgesInv, PassInv
<1>5. id \in Nat
  BY EdgesAssumption
<1>6. CASE pc[p] = "publishing"
  <2>1. /\ pc' = [pc EXCEPT ![p] = "deciding"]
        /\ accepted' = [accepted EXCEPT ![p] = @ \cup {id}]
        /\ known' = [known EXCEPT ![p] = @ \cup {Identity(r.edge)}]
        /\ count' = [count EXCEPT ![p] = @ + 1]
        /\ plan' = [plan EXCEPT ![p] = Tail(@)]
        /\ todo' = todo /\ gone' = gone
    BY <1>1, <1>6 DEF Publish, Goto
  <2>2. Identity(r.edge) \in Nodes \X Nodes \X Scopes
    BY <1>2 DEF PublishType, EdgeType, Identity
  <2>3. /\ known' \in [Passes -> SUBSET (Nodes \X Nodes \X Scopes)]
        /\ count' \in [Passes -> Nat]
        /\ accepted' \in [Passes -> SUBSET Nat] /\ gone' \in [Passes -> SUBSET Nat]
    BY <1>5, <2>1, <2>2 DEF EdgesInv, PassInv
  <2>4. /\ plan[p] \in Seq(EdgeType) /\ plan[p] # << >> /\ Tail(plan[p]) \in Seq(EdgeType)
        /\ \A i \in DOMAIN Tail(plan[p]) :
             i + 1 \in DOMAIN plan[p] /\ Tail(plan[p])[i] = plan[p][i + 1]
    BY <1>6 DEF EdgesInv, PassInv
  <2>5. /\ plan' \in [Passes -> Seq(EdgeType)]
        /\ \A q \in Passes : \A i \in DOMAIN plan'[q] :
             plan'[q][i].provenance.by = Host /\ plan'[q][i].withdrawal = None
    BY <2>1, <2>4 DEF EdgesInv, PassInv
  <2>6. /\ pc' \in [Passes -> {"idle", "inspecting", "deciding", "publishing"} \cup Ends]
        /\ todo' \in [Passes -> Seq(Nodes)]
        /\ \A q \in Passes : pc'[q] \in {"inspecting", "deciding", "publishing"} => Len(todo'[q]) > 0
        /\ \A q \in Passes : pc'[q] = "publishing" => plan'[q] # << >>
    BY <1>6, <2>1 DEF EdgesInv, PassInv
  <2> QED
    BY <1>3, <1>4, <2>3, <2>5, <2>6 DEF EdgesInv, PassInv, Proper
<1>7. CASE pc[p] # "publishing"
  BY <1>3, <1>4, <1>7 DEF Publish, EdgesInv, PassInv, Proper
<1> QED
  BY <1>6, <1>7

LEMMA AdvanceStep ==
    ASSUME EdgesInv, NEW p \in Passes, Advance(p)
    PROVE  EdgesInv'
<1>1. WorkspaceInv'
  BY SameWorkspace DEF Advance, EdgesInv
<1>2. CASE Len(todo[p]) = 1
  <2>1. End(p, "completed") /\ UNCHANGED <<pending, accepted, gone>>
    BY <1>2 DEF Advance
  <2> QED
    BY <1>1, <2>1, EndInv DEF EdgesInv, PassInv, Ends
<1>3. CASE Len(todo[p]) # 1
  <2>1. /\ pc' = [pc EXCEPT ![p] = "inspecting"] /\ pc[p] = "deciding"
        /\ todo' = [todo EXCEPT ![p] = Tail(@)]
        /\ UNCHANGED <<plan, known, count, pending, accepted, gone>>
    BY <1>3 DEF Advance, Goto
  <2>2. Tail(todo[p]) \in Seq(Nodes) /\ Len(Tail(todo[p])) > 0
    <3>1. todo[p] \in Seq(Nodes) /\ Len(todo[p]) > 0
      BY <2>1 DEF EdgesInv, PassInv
    <3>2. Len(todo[p]) \in Nat /\ todo[p] # << >>
      BY <3>1
    <3>3. Tail(todo[p]) \in Seq(Nodes) /\ Len(Tail(todo[p])) = Len(todo[p]) - 1
      BY <3>1, <3>2, HeadTailProperties
    <3>4. \A n \in Nat : n > 0 /\ n # 1 => n - 1 > 0
      OBVIOUS
    <3>5. Len(todo[p]) - 1 > 0
      BY <1>3, <3>1, <3>2, <3>4
    <3> QED
      BY <3>3, <3>5
  <2> QED
    BY <1>1, <2>1, <2>2 DEF EdgesInv, PassInv, Proper, Ends
<1> QED
  BY <1>2, <1>3

LEMMA RefuseStep ==
    ASSUME EdgesInv, NEW p \in Passes, Refuse(p)
    PROVE  EdgesInv'
<1>1. WorkspaceInv'
  BY SameWorkspace DEF Refuse, EdgesInv
<1>2. /\ pending' \in [Passes -> PublishType \cup {None}]
      /\ \A q \in Passes : pending'[q] # None => pending'[q] = pending[q]
  BY DEF Refuse, EdgesInv, PassInv
<1>3. CASE pc[p] = "publishing"
  <2>1. End(p, Failure(p)) /\ Failure(p) \in Ends /\ UNCHANGED <<accepted, gone>>
    BY <1>3 DEF Refuse, Failure, Ends
  <2> QED
    BY <1>1, <1>2, <2>1, EndInv DEF EdgesInv
<1>4. CASE pc[p] # "publishing"
  BY <1>1, <1>2, <1>4 DEF Refuse, EdgesInv, PassInv, Proper
<1> QED
  BY <1>3, <1>4

LEMMA FailStep ==
    ASSUME EdgesInv, NEW p \in Passes, Fail(p) \/ Abandon(p)
    PROVE  EdgesInv'
<1>1. WorkspaceInv'
  BY SameWorkspace DEF Fail, Abandon, EdgesInv
<1>2. PICK how \in Ends : End(p, how)
  BY DEF Fail, Abandon, Failure, Ends
<1>3. UNCHANGED <<pending, accepted, gone>>
  BY DEF Fail, Abandon
<1> QED
  BY <1>1, <1>2, <1>3, EndInv DEF EdgesInv, PassInv

LEMMA NextInv == EdgesInv /\ [Next]_vars => EdgesInv'
<1> SUFFICES ASSUME EdgesInv, [Next]_vars PROVE EdgesInv'
  OBVIOUS
<1>1. CASE \E r \in UserRequests : Serve(r)
  BY <1>1, ServeStep
<1>2. ASSUME NEW p \in Passes, Pass(p) PROVE EdgesInv'
  BY <1>2, OrganizeStep, InspectStep, SkipStep, AcceptStep, AdvanceStep, RefuseStep, FailStep,
     PublishStep DEF Pass
<1>3. CASE UNCHANGED vars
  <2>1. UNCHANGED workspace
    BY <1>3 DEF vars, workspace
  <2> QED
    BY <1>3, <2>1, SameWorkspace DEF vars, EdgesInv, PassInv, Proper
<1> QED
  BY <1>1, <1>2, <1>3 DEF Next

LEMMA AlwaysInv == Spec => []EdgesInv
<1> QED
  BY InitInv, NextInv, PTL DEF Spec

-----------------------------------------------------------------------------
(* The variables keep their types.                                         *)
THEOREM TypeCorrect == Spec => []TypeOK
<1>1. EdgesInv => TypeOK
  BY DEF EdgesInv, WorkspaceInv, PassInv, TypeOK
<1> QED
  BY <1>1, AlwaysInv, PTL

(* Whoever publishes, and however late, a relation has one active edge     *)
(* (workspace.py, publish_edge).                                           *)
THEOREM ActiveUnique == Spec => []OneActiveEdge
<1>1. EdgesInv => OneActiveEdge
  BY DEF EdgesInv, WorkspaceInv
<1> QED
  BY <1>1, AlwaysInv, PTL

(* Callers of one key are told of the same edge, and of what they asked    *)
(* for (workspace.py, _retry).                                             *)
THEOREM ReceiptsTrue == Spec => []ReceiptsAgree
<1>1. EdgesInv => ReceiptsAgree
  <2> SUFFICES ASSUME EdgesInv PROVE ReceiptsAgree
    OBVIOUS
  <2>1. acks = memo /\ KeyedOnce /\ memo \subseteq ReceiptType /\ \A a \in memo : Fits(a)
    BY DEF EdgesInv, WorkspaceInv
  <2>2. \A a \in acks : a.request.op = "edge" \/ a.request.op = "withdraw_edge"
    BY <2>1, RequestFields DEF ReceiptType, Request
  <2>3. \A a, b \in acks :
          a.request.op = b.request.op /\ a.request.key = b.request.key /\ a.request.key # None =>
            a = b
    BY <2>1 DEF KeyedOnce
  <2> QED
    BY <2>1, <2>2, <2>3 DEF ReceiptsAgree, Fits
<1> QED
  BY <1>1, AlwaysInv, PTL

(* Maintenance creates a link at most once from the same evidence, however *)
(* often it runs and whatever is withdrawn (llgm.py, _organize).           *)
THEOREM LinksOnce == Spec => []LinkedOnce
<1>1. EdgesInv => LinkedOnce
  <2> SUFFICES ASSUME EdgesInv,
                      NEW i \in DOMAIN edges, NEW j \in DOMAIN edges,
                      edges[i].provenance.by = Host, edges[j].provenance.by = Host,
                      edges[i].source = edges[j].source, edges[i].target = edges[j].target,
                      edges[i].scope = edges[j].scope,
                      edges[i].provenance.support = edges[j].provenance.support
               PROVE  i = j
    BY DEF LinkedOnce
  <2>1. LinkKey(edges[i]) = LinkKey(edges[j])
    BY DEF LinkKey
  <2>2. PICK m \in memo :
               m.request.op = "edge" /\ m.request.key = LinkKey(edges[i]) /\ m.id = i
    BY DEF EdgesInv, WorkspaceInv, LinksRecorded
  <2>3. PICK n \in memo :
               n.request.op = "edge" /\ n.request.key = LinkKey(edges[j]) /\ n.id = j
    BY DEF EdgesInv, WorkspaceInv, LinksRecorded
  <2> QED
    BY <2>1, <2>2, <2>3 DEF EdgesInv, WorkspaceInv, KeyedOnce
<1> QED
  BY <1>1, AlwaysInv, PTL

(* No relation is published twice, at once or again after a withdrawal     *)
(* (workspace.py, publish_edge, and llgm.py, the key "auto-link:").        *)
THEOREM RelationsOnce == Spec => []PublishedOnce
<1>1. OneActiveEdge /\ LinkedOnce => PublishedOnce
  BY DEF PublishedOnce
<1> QED
  BY <1>1, ActiveUnique, LinksOnce, PTL

-----------------------------------------------------------------------------
(* How passes end.                                                         *)

(* Only a pass that waits for its publication, or was abandoned while it   *)
(* waited, has one; and how a pass ended agrees with what it accepted.     *)
OutcomeInv ==
    \A p \in Passes :
      /\ pending[p] # None => pc[p] \in {"publishing", "abandoned"}
      /\ pc[p] = "failed" => accepted[p] = {}
      /\ pc[p] = "partial" => accepted[p] # {}

(* A step of one pass does not touch the others.                           *)
LEMMA OutcomeOfOne ==
    ASSUME PassInv, OutcomeInv, NEW p \in Passes,
           \A q \in Passes \ {p} :
             pc'[q] = pc[q] /\ pending'[q] = pending[q] /\ accepted'[q] = accepted[q],
           pending'[p] # None => pc'[p] \in {"publishing", "abandoned"},
           pc'[p] = "failed" => accepted'[p] = {},
           pc'[p] = "partial" => accepted'[p] # {}
    PROVE  OutcomeInv'
BY DEF OutcomeInv

LEMMA PublishOutcome ==
    ASSUME EdgesInv, OutcomeInv, NEW p \in Passes, NEW id, Publish(p, id)
    PROVE  OutcomeInv'
<1>1. pending[p] # None /\ pc[p] \in {"publishing", "abandoned"}
  BY DEF Publish, OutcomeInv
<1>2. pending' = [pending EXCEPT ![p] = None]
  BY DEF Publish
<1>3. CASE pc[p] = "publishing"
  <2>1. pc' = [pc EXCEPT ![p] = "deciding"] /\ accepted' = [accepted EXCEPT ![p] = @ \cup {id}]
    BY <1>3 DEF Publish, Goto
  <2> QED
    BY <1>2, <2>1, OutcomeOfOne DEF EdgesInv, PassInv
<1>4. CASE pc[p] # "publishing"
  <2>1. pc' = pc /\ accepted' = accepted
    BY <1>4 DEF Publish
  <2> QED
    BY <1>1, <1>2, <1>4, <2>1, OutcomeOfOne DEF EdgesInv, PassInv
<1> QED
  BY <1>3, <1>4

LEMMA PassOutcome ==
    ASSUME EdgesInv, OutcomeInv, NEW p \in Passes, Pass(p)
    PROVE  OutcomeInv'
<1> USE DEF EdgesInv, PassInv
<1>1. CASE \/ \E s \in Selections : Organize(p, s)
           \/ \E links \in Proposals : Inspect(p, links)
           \/ Skip(p)
  <2>1. UNCHANGED <<pending, accepted>> /\ pc[p] \in {"idle", "inspecting", "deciding"}
    BY <1>1 DEF Organize, Inspect, Skip
  <2>2. \E where \in {"inspecting", "deciding"} : pc' = [pc EXCEPT ![p] = where]
    BY <1>1 DEF Organize, Inspect, Skip, Goto
  <2>3. pending[p] = None
    BY <2>1 DEF OutcomeInv
  <2> QED
    BY <2>1, <2>2, <2>3, OutcomeOfOne
<1>2. CASE Accept(p)
  <2>1. /\ pc' = [pc EXCEPT ![p] = "publishing"] /\ accepted' = accepted
        /\ \A q \in Passes \ {p} : pending'[q] = pending[q]
    BY <1>2 DEF Accept, Goto
  <2> QED
    BY <2>1, OutcomeOfOne
<1>3. CASE Advance(p)
  <2>1. /\ UNCHANGED <<pending, accepted>> /\ pc[p] = "deciding"
        /\ \E where \in {"completed", "inspecting"} : pc' = [pc EXCEPT ![p] = where]
    BY <1>3 DEF Advance, End, Goto
  <2>2. pending[p] = None
    BY <2>1 DEF OutcomeInv
  <2> QED
    BY <2>1, <2>2, OutcomeOfOne
<1>4. CASE Refuse(p)
  <2>1. pending' = [pending EXCEPT ![p] = None] /\ accepted' = accepted
    BY <1>4 DEF Refuse
  <2>2. CASE pc[p] = "publishing"
    <3>1. pc' = [pc EXCEPT ![p] = Failure(p)]
      BY <1>4, <2>2 DEF Refuse, End, Goto
    <3> QED
      BY <2>1, <3>1, OutcomeOfOne DEF Failure
  <2>3. CASE pc[p] # "publishing"
    <3>1. pc' = pc
      BY <1>4, <2>3 DEF Refuse
    <3> QED
      BY <2>1, <3>1, OutcomeOfOne DEF OutcomeInv
  <2> QED
    BY <2>2, <2>3
<1>5. CASE Fail(p)
  <2>1. /\ UNCHANGED <<pending, accepted>> /\ pc[p] = "inspecting"
        /\ pc' = [pc EXCEPT ![p] = Failure(p)]
    BY <1>5 DEF Fail, End, Goto
  <2>2. pending[p] = None
    BY <2>1 DEF OutcomeInv
  <2> QED
    BY <2>1, <2>2, OutcomeOfOne DEF Failure
<1>6. CASE Abandon(p)
  <2>1. UNCHANGED <<pending, accepted>> /\ pc' = [pc EXCEPT ![p] = "abandoned"]
    BY <1>6 DEF Abandon, End, Goto
  <2> QED
    BY <2>1, OutcomeOfOne
<1> QED
  BY <1>1, <1>2, <1>3, <1>4, <1>5, <1>6, PublishOutcome DEF Pass

LEMMA OutcomeStep ==
    ASSUME EdgesInv, OutcomeInv, [Next]_vars
    PROVE  OutcomeInv'
<1>1. CASE (\E r \in UserRequests : Serve(r)) \/ UNCHANGED vars
  BY <1>1 DEF Serve, vars, OutcomeInv
<1> QED
  BY <1>1, PassOutcome DEF Next

(* A pass that reports a failure has published nothing, and one that ended *)
(* by itself has left no publication behind, for any passes that overlap   *)
(* and any failures (llgm.py, _organize).                                  *)
THEOREM FailuresWhole == Spec => []FailureIsWhole
<1>1. Init => OutcomeInv
  BY DEF Init, OutcomeInv
<1>2. EdgesInv /\ OutcomeInv /\ [Next]_vars => OutcomeInv'
  BY OutcomeStep
<1>3. OutcomeInv => FailureIsWhole
  BY DEF OutcomeInv, FailureIsWhole
<1> QED
  BY <1>1, <1>2, <1>3, AlwaysInv, PTL DEF Spec

-----------------------------------------------------------------------------
(* No step removes an edge, changes its provenance or touches a withdrawn  *)
(* one (workspace.py, "A withdrawn edge is never reactivated").            *)
LEMMA TransactionKeeps ==
    ASSUME EdgesInv, NEW r \in Request, NEW id, NEW m,
           Replay(r, m) \/ Reuse(r, id) \/ (r.op = "edge" /\ Create(r, id)) \/ Withdraw(r)
    PROVE  /\ DOMAIN edges \subseteq DOMAIN edges'
           /\ \A i \in DOMAIN edges :
                /\ edges[i].withdrawal # None => edges'[i] = edges[i]
                /\ edges[i] = [edges'[i] EXCEPT !.withdrawal = edges[i].withdrawal]
<1>1. edges \in Seq(EdgeType)
  BY DEF EdgesInv, WorkspaceInv
<1>2. CASE edges' = edges
  BY <1>1, <1>2, EdgeUnchanged
<1>3. CASE r.op = "edge" /\ Create(r, id)
  <2>1. /\ DOMAIN edges \subseteq DOMAIN edges'
        /\ \A i \in DOMAIN edges : edges'[i] = edges[i]
    BY <1>1, <1>3, RequestFields DEF Create
  <2> QED
    BY <1>1, <2>1, EdgeUnchanged
<1>4. CASE Withdraw(r)
  <2>1. r.id \in DOMAIN edges /\ edges' = [edges EXCEPT ![r.id] = Withdrawn(r)]
    BY <1>4 DEF Withdraw
  <2>2. DOMAIN edges' = DOMAIN edges
    BY <1>1, <2>1
  <2> SUFFICES ASSUME NEW i \in DOMAIN edges
               PROVE  /\ edges[i].withdrawal # None => edges'[i] = edges[i]
                      /\ edges[i] = [edges'[i] EXCEPT !.withdrawal = edges[i].withdrawal]
    BY <2>2
  <2>3. CASE edges'[i] = edges[i]
    BY <1>1, <2>3, EdgeUnchanged
  <2>4. CASE edges'[i] # edges[i]
    <3>1. i = r.id /\ edges'[i] = Withdrawn(r)
      BY <2>1, <2>4
    <3>2. /\ edges[i].withdrawal = None
          /\ edges'[i] = [edges[i] EXCEPT !.withdrawal = r.provenance]
      BY <2>4, <3>1 DEF Withdrawn
    <3>3. edges[i] \in EdgeType
      BY <1>1
    <3>4. edges[i] = [[edges[i] EXCEPT !.withdrawal = r.provenance]
                        EXCEPT !.withdrawal = edges[i].withdrawal]
      BY <3>3, EdgeRestored
    <3> QED
      BY <3>2, <3>4
  <2> QED
    BY <2>3, <2>4
<1> QED
  BY <1>2, <1>3, <1>4 DEF Replay, Reuse

THEOREM WithdrawalStands == Spec => WithdrawalFinal
<1> DEFINE Keeps == /\ DOMAIN edges \subseteq DOMAIN edges'
                    /\ \A i \in DOMAIN edges : edges[i].withdrawal # None => edges'[i] = edges[i]
                    /\ \A i \in DOMAIN edges :
                         edges[i] = [edges'[i] EXCEPT !.withdrawal = edges[i].withdrawal]
<1>1. EdgesInv /\ [Next]_vars => [Keeps]_edges
  <2> SUFFICES ASSUME EdgesInv, Next, edges' # edges PROVE Keeps
    BY DEF vars
  <2>1. CASE \E r \in UserRequests : Serve(r)
    <3>1. PICK r \in UserRequests : Serve(r)
      BY <2>1
    <3>2. r \in Request
      BY UsersProper DEF Proper
    <3> QED
      BY <3>1, <3>2, TransactionKeeps DEF Serve
  <2>2. ASSUME NEW p \in Passes, Pass(p) PROVE Keeps
    <3>1. PICK id \in 1 .. MaxEdges : Publish(p, id)
      BY <2>2 DEF Pass, Organize, Inspect, Skip, Accept, Advance, Refuse, Fail, Abandon, workspace
    <3>2. pending[p] \in Request /\ pending[p].op = "edge"
      BY <3>1 DEF Publish, EdgesInv, PassInv, PublishType, Request
    <3> QED
      BY <3>1, <3>2, TransactionKeeps DEF Publish
  <2> QED
    BY <2>1, <2>2 DEF Next
<1> QED
  BY <1>1, AlwaysInv, PTL DEF Spec, WithdrawalFinal
=============================================================================
