------------------------------ MODULE HashRing ------------------------------
(***************************************************************************)
(* The consistent-hash ring of hash.c: hash_init() builds and sorts the    *)
(* virtual nodes of a weighted node list, hash_lookup() finds the          *)
(* successor of a target's id, hash_iterate() walks the real nodes from    *)
(* the cursor the last lookup left, hash_term() frees the table.           *)
(*                                                                         *)
(* identifier() (MurmurHash3) is abstracted to an arbitrary function id    *)
(* from names to 0 .. IdMax, chosen with the input; compareID() becomes    *)
(* integer comparison.  The name "%s-%d" of the i-th virtual node of a     *)
(* node is the pair <<name, i>>, distinct from every node name.            *)
(*                                                                         *)
(* Two lines of hash_lookup() do not compile as written: line 303 takes   *)
(* node->name of the output argument, a pointer to a pointer, and line    *)
(* 340 takes newnode.name of a pointer.  Both are read as the name of the *)
(* real node the virtual node belongs to, as the declaration of newnode   *)
(* just above line 340 shows was meant.                                   *)
(***************************************************************************)
EXTENDS Integers, Sequences, FiniteSets, Functions, TLC

CONSTANTS
  Nodes,            \* the HASH_NODE list, a sequence of node names
  MaxWeight,        \* weights range over 0 .. MaxWeight
  ZeroWeights,      \* whether a node may have weight 0
  TargetNodeCount,  \* TARGET_NODE_COUNT
  IdMax,            \* ids range over 0 .. IdMax
  DistinctIds,      \* whether identifier() is taken to be collision-free
  Other             \* a target that names nothing in the table

Count == Len(Nodes)
NodeIdx == 0 .. Count - 1
Wild == Count       \* a nodenum read from uninitialized memory

ASSUME /\ Count >= 1 /\ MaxWeight >= 1 /\ TargetNodeCount >= 1
       /\ ZeroWeights \in BOOLEAN /\ DistinctIds \in BOOLEAN

VARIABLES
  weights,    \* nodes[k].weight
  lookup,     \* the lookup argument of hash_init()
  id,         \* identifier(), on the names this input can hash
  phase,      \* "none" before hash_init() and after hash_term(), or "ready"
  vnodes,     \* table->vnodes, a sequence of [id, nodenum] records
  curnode,    \* table->curnode
  iterated,   \* table->iterated
  last,       \* the target, node and return value of the last lookup
  seen        \* nodes hash_iterate() has returned since the last lookup

vars == <<weights, lookup, id, phase, vnodes, curnode, iterated, last, seen>>

Weights == IF ZeroWeights THEN 0 .. MaxWeight ELSE 1 .. MaxWeight
TotalWeight(w) == SumFunction(w)

(* weightratio: TARGET_NODE_COUNT / totalweight, rounded up (172-177).    *)
Ratio(w) == IF TotalWeight(w) = 0 THEN 1
            ELSE (TargetNodeCount + TotalWeight(w) - 1) \div TotalWeight(w)

VName(k, i) == <<Nodes[k + 1], i>>
VNames(w) == UNION {{VName(k, i) : i \in 0 .. w[k] * Ratio(w) - 1} : k \in NodeIdx}
UsedNames(w) == VNames(w) \cup {Nodes[k + 1] : k \in NodeIdx} \cup {Other}

(* Every order of a set, as a sequence.                                   *)
RECURSIVE Orders(_)
Orders(S) == IF S = {} THEN {<<>>}
             ELSE UNION {{<<x>> \o r : r \in Orders(S \ {x})} : x \in S}

(* The identifier functions on the names of an input.  Only the order of  *)
(* ids matters to the ring, so collision-free ones are taken to number    *)
(* the names 0, 1, 2, ... in some order.                                   *)
Ids(w) ==
  IF DistinctIds
    THEN {[n \in UsedNames(w) |-> CHOOSE i \in 0 .. Len(o) - 1 : o[i + 1] = n] :
            o \in Orders(UsedNames(w))}
    ELSE [UsedNames(w) -> 0 .. IdMax]

NoLookup == [valid |-> FALSE, target |-> Other, node |-> 0, ret |-> 1]

TypeOK ==
  /\ weights \in [NodeIdx -> Weights]
  /\ lookup \in BOOLEAN
  /\ phase \in {"none", "ready"}
  /\ vnodes \in Seq([id : 0 .. IdMax, nodenum : NodeIdx \cup {Wild}])
  /\ curnode \in NodeIdx
  /\ iterated \in 0 .. Count
  /\ seen \in Seq(NodeIdx)

Init ==
  /\ weights \in [NodeIdx -> Weights]
  /\ lookup \in BOOLEAN
  /\ id \in Ids(weights)
  /\ phase = "none"
  /\ vnodes = <<>>
  /\ curnode = 0
  /\ iterated = 0
  /\ last = NoLookup
  /\ seen = <<>>

-----------------------------------------------------------------------------
(* hash_init() and hash_term().                                            *)

(* table->vnodecount: weight * weightratio virtual nodes per node, and in  *)
(* a lookup table one more per zero-weight node (184-188).                 *)
VCount == Ratio(weights) * TotalWeight(weights)
            + (IF lookup THEN Cardinality({k \in NodeIdx : weights[k] = 0}) ELSE 0)

Entry(name, k) == [id |-> id[name], nodenum |-> k]

(* The loop that fills table->vnodes (209-236), as the slots it writes:    *)
(* later writes win, and a zero-weight node of a lookup table advances     *)
(* curvnode before it writes its slot.                                     *)
RECURSIVE Build(_, _, _)
Build(k, curv, acc) ==
  IF k = Count THEN acc
  ELSE LET n == weights[k] * Ratio(weights)
       IN CASE weights[k] > 0 ->
                 Build(k + 1, curv + n,
                       [s \in curv .. curv + n - 1 |-> Entry(VName(k, s - curv), k)]
                         @@ acc)
            [] lookup ->
                 Build(k + 1, curv + 1, ((curv + 1) :> Entry(Nodes[k + 1], k)) @@ acc)
            [] OTHER -> Build(k + 1, curv, acc)

(* The slots of the array the loop writes; a write past its end is lost.  *)
Written == LET b == Build(0, 0, <<>>)
           IN [s \in DOMAIN b \cap 0 .. VCount - 1 |-> b[s]]

(* Mutant: compare_nodes() with its sign reversed.                        *)
VLessReversed(a, b) == b.id < a.id \/ (a.id = b.id /\ b.nodenum < a.nodenum)

(* compare_nodes(): by id, then by nodenum (120-134).                      *)
VLess(a, b) == a.id < b.id \/ (a.id = b.id /\ a.nodenum < b.nodenum)

(* hash_init(): fails for a non-lookup table of zero total weight         *)
(* (184-188); slots the loop never wrote hold whatever malloc() left; the  *)
(* array is sorted with qsort() and the iterator reset (141-246).          *)
HashInit ==
  /\ phase = "none"
  /\ lookup \/ TotalWeight(weights) > 0
  /\ \E g \in [(0 .. VCount - 1) \ DOMAIN Written ->
                 [id : 0 .. IdMax, nodenum : NodeIdx \cup {Wild}]] :
       LET slots == Written @@ g
       IN vnodes' = SortSeq([i \in 1 .. VCount |-> slots[i - 1]], VLess)
  /\ phase' = "ready"
  /\ curnode' = 0 /\ iterated' = 0
  /\ last' = NoLookup /\ seen' = <<>>
  /\ UNCHANGED <<weights, lookup, id>>

(* hash_term() frees the virtual nodes and the table (249-264).            *)
HashTerm ==
  /\ phase = "ready"
  /\ phase' = "none" /\ vnodes' = <<>>
  /\ UNCHANGED <<weights, lookup, id, curnode, iterated, last, seen>>

-----------------------------------------------------------------------------
(* hash_lookup() (267-369), as C indexes the array: from 0.                *)

V(i) == vnodes[i + 1]
NameOf(v) == IF v.nodenum \in NodeIdx THEN Nodes[v.nodenum + 1] ELSE Other
Mid(lo, hi) == lo + (hi - lo) \div 2

(* The binary search (287-314): it stops when min = max, or breaks on an  *)
(* id match whose node name is not the target.                            *)
RECURSIVE Search(_, _, _, _, _, _)
Search(t, q, mn, mx, cur, ret) ==
  IF mn = mx THEN [min |-> mn, max |-> mx, cur |-> cur, ret |-> ret]
  ELSE CASE V(cur).id > t -> Search(t, q, mn, cur, Mid(mn, cur), ret)
         [] V(cur).id < t -> Search(t, q, cur + 1, mx, Mid(cur + 1, mx), ret)
         [] NameOf(V(cur)) # q -> [min |-> mn, max |-> mx, cur |-> cur, ret |-> ret]
         [] OTHER -> Search(t, q, mn, cur, Mid(mn, cur), 0)

(* The scan around an id collision (316-352): upwards below max, then     *)
(* downwards to min, for a node named like the target.                    *)
RECURSIVE Scan(_, _, _, _, _, _, _, _)
Scan(t, q, cur, tmp, step, mn, mx, ret) ==
  CASE tmp = mx \/ V(tmp).id # t ->
         IF step > 0 /\ cur # 0 THEN Scan(t, q, cur, cur - 1, -1, mn, mx, ret)
         ELSE [cur |-> cur, ret |-> ret]
    [] NameOf(V(tmp)) = q -> [cur |-> tmp, ret |-> 0]
    [] tmp = mn -> [cur |-> cur, ret |-> ret]
    [] OTHER -> Scan(t, q, cur, tmp + step, step, mn, mx, ret)

(* Mutant: the wrap taken one position early.                             *)
WrapEarly(c) == IF c >= Len(vnodes) - 1 THEN 0 ELSE c

(* An index past the last virtual node wraps to the first (357-361).      *)
Wrap(c) == IF c = Len(vnodes) THEN 0 ELSE c

(* Lookup of target q: search, collision scan, wrap to index 0, and the   *)
(* iterator set just past the node found (357-368).                        *)
Lookup(q) ==
  /\ phase = "ready"
  /\ LET t == id[q]
         s == Search(t, q, 0, Len(vnodes), Len(vnodes) \div 2, 1)
         c == IF s.cur # s.max THEN Scan(t, q, s.cur, s.cur + 1, 1, s.min, s.max, s.ret)
              ELSE [cur |-> s.cur, ret |-> s.ret]
         cur == Wrap(c.cur)
         node == V(cur).nodenum
     IN /\ last' = [valid |-> TRUE, target |-> q, node |-> node, ret |-> c.ret]
        /\ curnode' = IF node + 1 >= Count THEN 0 ELSE node + 1
  /\ iterated' = 1
  /\ seen' = <<>>
  /\ UNCHANGED <<weights, lookup, id, phase, vnodes>>

(* Mutant: the cursor wraps only past nodecount.                          *)
IterateWrapLate ==
  /\ phase = "ready" /\ iterated < Count
  /\ seen' = Append(seen, curnode)
  /\ iterated' = iterated + 1
  /\ curnode' = IF curnode + 1 > Count THEN 0 ELSE curnode + 1
  /\ UNCHANGED <<weights, lookup, id, phase, vnodes, last>>

(* Mutant: the cursor is not advanced.                                     *)
IterateNoAdvance ==
  /\ phase = "ready" /\ iterated < Count
  /\ seen' = Append(seen, curnode)
  /\ iterated' = iterated + 1
  /\ UNCHANGED <<weights, lookup, id, phase, vnodes, last, curnode>>

(* hash_iterate() returns the node at the cursor until nodecount nodes    *)
(* have been returned since the last lookup (372-394).                    *)
Iterate ==
  /\ phase = "ready" /\ iterated < Count
  /\ seen' = Append(seen, curnode)
  /\ iterated' = iterated + 1
  /\ curnode' = IF curnode + 1 >= Count THEN 0 ELSE curnode + 1
  /\ UNCHANGED <<weights, lookup, id, phase, vnodes, last>>

Next ==
  \/ HashInit \/ HashTerm \/ Iterate
  \/ \E q \in UsedNames(weights) : Lookup(q)

Spec == Init /\ [][Next]_vars

-----------------------------------------------------------------------------
(* Reference definitions.                                                  *)

MinOf(S) == CHOOSE x \in S : \A y \in S : x <= y

(* The smallest virtual-node id at or above t, or else the smallest of    *)
(* all: the successor on the ring (design document 4.2).                   *)
SuccId(t) ==
  LET ids == {vnodes[i].id : i \in DOMAIN vnodes}
      up == {x \in ids : x >= t}
  IN IF up # {} THEN MinOf(up) ELSE MinOf(ids)

(* The names of the table's virtual nodes, and the node each belongs to.   *)
ExactNames == VNames(weights) \cup
                (IF lookup THEN {Nodes[k + 1] : k \in {j \in NodeIdx : weights[j] = 0}}
                 ELSE {})
OwnerOf(q) == CHOOSE k \in NodeIdx : q \in {Nodes[k + 1]} \cup
                                           {VName(k, i) : i \in 0 .. MaxWeight * TargetNodeCount}

-----------------------------------------------------------------------------
(* Properties.                                                             *)

(* hash_lookup() returns the real node of a virtual node whose id is the  *)
(* successor of the target's id, wrapping past the largest id to the      *)
(* first: the binary search, its bounds and the wrap are right for every  *)
(* ordering of ids.                                                        *)
LookupSuccessor ==
  phase = "ready" /\ last.valid =>
    \E i \in DOMAIN vnodes : /\ vnodes[i].id = SuccId(id[last.target])
                             /\ vnodes[i].nodenum = last.node

(* A lookup of the exact name of a virtual node of the table returns that *)
(* virtual node's real node (design document 8, exact-match property).    *)
ExactMatch ==
  phase = "ready" /\ last.valid /\ last.target \in ExactNames =>
    last.node = OwnerOf(last.target)

(* Once hash_iterate() is exhausted, the node of the last lookup and the  *)
(* nodes iterated since are every real node once, from the cursor the     *)
(* lookup left (design document 4.2, ring_iterate).                       *)
IterateCoversAll ==
  phase = "ready" /\ iterated >= Count =>
    LET covered == (IF last.valid THEN <<last.node>> ELSE <<>>) \o seen
    IN /\ Len(covered) = Count
       /\ {covered[i] : i \in DOMAIN covered} = NodeIdx

=============================================================================
