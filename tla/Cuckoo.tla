------------------------------- MODULE Cuckoo -------------------------------
(* The cycle verifiers of core/src/pow (cuckatoo, cuckaroo, cuckarood,      *)
(* cuckaroom, cuckarooz) and the Cuckatoo solver with the trimming of the   *)
(* lean miner.  The siphash that gives the two endpoints of an edge is      *)
(* external: an edge carries any two nodes.  A graph is built edge by edge, *)
(* then verified as a proof, or solved.                                     *)
EXTENDS Integers, Sequences, FiniteSets

CONSTANTS ProofSize,     \* proofsize()
          Mask,          \* ProofSize rounded up to a power of two, less one
          EdgeMask,      \* greatest edge index
          MaxSols,       \* MAX_SOLS
          MaxEdges,      \* bound on the edges given to the solver
          NodesOf(_)     \* the nodes a variant's edges end in, here

VARIABLES variant,       \* the graph: one of Variants, or "solver"
          edges          \* [nonce, u, v] in the order of the proof

cuckooVars == <<variant, edges>>

Variants == {"cuckatoo", "cuckaroo", "cuckarood", "cuckaroom", "cuckarooz"}
Nil == -1

MaxOf(S) == IF S = {} THEN Nil ELSE CHOOSE x \in S : \A y \in S : y <= x
RECURSIVE XorOf(_, _)
XorOf(a, b) == IF a = 0 THEN b ELSE IF b = 0 THEN a
               ELSE ((a + b) % 2) + 2 * XorOf(a \div 2, b \div 2)
RECURSIVE XorAll(_)
XorAll(s) == IF s = <<>> THEN 0 ELSE XorOf(Head(s), XorAll(Tail(s)))
Other(i) == IF i % 2 = 0 THEN i + 1 ELSE i - 1          \* i ^ 1

(* --- verification -------------------------------------------------------- *)

Ascending(p) == \A n \in 1..Len(p) : /\ p[n].nonce <= EdgeMask
                                     /\ n > 1 => p[n].nonce > p[n - 1].nonce
Us(p) == [n \in 1..Len(p) |-> p[n].u]
Vs(p) == [n \in 1..Len(p) |-> p[n].v]

(* Endpoint 2n is the u and 2n+1 the v of the n-th edge.  "prev" leads      *)
(* through the endpoints of a bucket, the latest first.                     *)
Uvs(p) == [i \in 0..2 * Len(p) - 1 |-> IF i % 2 = 0 THEN p[i \div 2 + 1].u ELSE p[i \div 2 + 1].v]
Bits(v, node) == (IF v = "cuckatoo" THEN node \div 2 ELSE node) % (Mask + 1)
SameList(v, i, k) == v = "cuckarooz" \/ i % 2 = k % 2
Bucket(v, uvs, i) == {k \in DOMAIN uvs : SameList(v, i, k) /\ Bits(v, uvs[k]) = Bits(v, uvs[i])}
(* The circular list: from the earliest endpoint back to the latest.        *)
Prev(v, uvs) ==
  [i \in DOMAIN uvs |-> LET before == {k \in Bucket(v, uvs, i) : k < i}
                        IN IF before = {} THEN MaxOf(Bucket(v, uvs, i)) ELSE MaxOf(before)]
Joined(v, a, b) == IF v = "cuckatoo" THEN a \div 2 = b \div 2 ELSE a = b
XorMatches(v, p) ==
  CASE v = "cuckatoo" -> /\ XorAll(Us(p)) = (ProofSize \div 2) % 2
                         /\ XorAll(Vs(p)) = (ProofSize \div 2) % 2
    [] v = "cuckarooz" -> XorAll(Us(p) \o Vs(p)) = 0
    [] v = "cuckaroom" -> XorAll(Us(p)) = XorAll(Vs(p))
    [] OTHER -> XorAll(Us(p)) = 0 /\ XorAll(Vs(p)) = 0

(* The other endpoint at the node of i along the list: Nil at a branch, i   *)
(* itself at a dead end.                                                    *)
RECURSIVE Match(_, _, _, _, _, _)
Match(v, uvs, prev, i, j, k) ==
  LET at == prev[k] IN
  IF at = i THEN j
  ELSE IF ~Joined(v, uvs[at], uvs[i]) THEN Match(v, uvs, prev, i, j, at)
  ELSE IF j # i THEN Nil
  ELSE Match(v, uvs, prev, i, at, at)

RECURSIVE MutFollow(_, _, _, _, _)
MutFollow(v, uvs, prev, i, n) ==
  LET j == Match(v, uvs, prev, i, i, i) IN
  IF j = Nil THEN "branch"
  ELSE IF j = i THEN "dead end"
  ELSE IF Other(j) = 0 THEN (IF n + 1 = ProofSize THEN "ok" ELSE "too short")
  ELSE IF n > 2 * ProofSize THEN "loops"
  ELSE MutFollow(v, uvs, prev, Other(j), n + 1)
(* Following the cycle from endpoint 0; "loops" would never return.         *)
RECURSIVE Follow(_, _, _, _, _)
Follow(v, uvs, prev, i, n) ==
  LET j == Match(v, uvs, prev, i, i, i) IN
  IF j = Nil THEN "branch"
  ELSE IF j = i \/ (v = "cuckatoo" /\ uvs[j] = uvs[i]) THEN "dead end"
  ELSE IF Other(j) = 0 THEN (IF n + 1 = ProofSize THEN "ok" ELSE "too short")
  ELSE IF n > 2 * ProofSize THEN "loops"
  ELSE Follow(v, uvs, prev, Other(j), n + 1)

VerifyUndirected(v, p) ==
  IF Len(p) # ProofSize THEN "wrong length"
  ELSE IF ~Ascending(p) THEN "edges"
  ELSE IF ~XorMatches(v, p) THEN "endpoints"
  ELSE LET uvs == Uvs(p) IN Follow(v, uvs, Prev(v, uvs), 0, 0)

(* Cuckarood: the direction of an edge is the parity of its nonce; the n-th *)
(* edge of a direction gets index 4n + 2dir, and an endpoint is matched     *)
(* with those of the other direction only.                                  *)
Dir(e) == e.nonce % 2
InDir(p, d) == SelectSeq(p, LAMBDA e : Dir(e) = d)
Balanced(p) == \A d \in {0, 1} : Len(InDir(p, d)) <= ProofSize \div 2
DirUvs(p) ==
  [i \in 0..2 * ProofSize - 1 |->
     LET e == InDir(p, (i \div 2) % 2)[i \div 4 + 1] IN IF i % 2 = 0 THEN e.u ELSE e.v]
Reverse(uvs, i) ==
  {k \in DOMAIN uvs : k % 2 = i % 2 /\ (k \div 2) % 2 = 1 - (i % 2) /\ uvs[k] = uvs[i]}
RECURSIVE FollowDir(_, _, _)
FollowDir(uvs, i, n) ==
  LET js == Reverse(uvs, i) IN
  IF Cardinality(js \ {i}) > 1 THEN "branch"
  ELSE IF js \ {i} = {} THEN "dead end"
  ELSE LET j == MaxOf(js \ {i}) IN
       IF Other(j) = 0 THEN (IF n + 1 = ProofSize THEN "ok" ELSE "too short")
       ELSE IF n > 2 * ProofSize THEN "loops"
       ELSE FollowDir(uvs, Other(j), n + 1)
VerifyDirected(p) ==
  IF Len(p) # ProofSize THEN "wrong length"
  ELSE IF ~Balanced(p) THEN "not balanced"
  ELSE IF ~Ascending(p) THEN "edges"
  ELSE IF ~XorMatches("cuckarood", p) THEN "endpoints"
  ELSE FollowDir(DirUvs(p), 0, 0)

(* Cuckaroom: from an edge to the latest edge that leaves where it arrives. *)
RECURSIVE FollowMono(_, _, _, _)
FollowMono(p, i, n, visited) ==
  LET ks == {k \in 1..Len(p) : p[k].u = p[i].v} IN
  IF i \in visited THEN "branch"
  ELSE IF ks = {} THEN "dead end"
  ELSE IF MaxOf(ks) = 1 THEN (IF n + 1 = ProofSize THEN "ok" ELSE "too short")
  ELSE FollowMono(p, MaxOf(ks), n + 1, visited \cup {i})
VerifyMono(p) ==
  IF Len(p) # ProofSize THEN "wrong length"
  ELSE IF ~Ascending(p) THEN "edges"
  ELSE IF ~XorMatches("cuckaroom", p) THEN "endpoints"
  ELSE FollowMono(p, 1, 0, {})

verify(v, p) == CASE v = "cuckarood" -> VerifyDirected(p)
                  [] v = "cuckaroom" -> VerifyMono(p)
                  [] OTHER -> VerifyUndirected(v, p)

(* --- the solver ---------------------------------------------------------- *)

ZeroProof == [n \in 0..ProofSize - 1 |-> 0]
EmptyGraph == [links |-> <<>>, adj |-> <<>>, visited |-> {}, sols |-> <<ZeroProof>>]
(* adj holds the latest link of every node seen; the v side is apart from   *)
(* the u side.                                                              *)
Node(side, n) == <<side, n>>
Sibling(x) == Node(x[1], Other(x[2]))
Pair(x) == Node(x[1], x[2] \div 2)
Adj(g, x) == MaxOf({k \in 1..Len(g.links) : g.links[k] = x})
NextLink(g, k) == MaxOf({l \in 1..k - 1 : g.links[l] = g.links[k]})
(* Links 2i-1 and 2i are the two ends of the i-th edge added, from 0.       *)
EdgeOf(k) == (k - 1) \div 2
FarEnd(g, k) == g.links[IF k % 2 = 1 THEN k + 1 ELSE k - 1]
SetNonce(g, at, edge) == [g EXCEPT !.sols[Len(g.sols)][at] = edge]

RECURSIVE cycles_with_link(_, _, _, _)
RECURSIVE EachLink(_, _, _, _)
cycles_with_link(g, len, x, dest) ==
  IF Pair(x) \in g.visited THEN g
  ELSE IF Sibling(x) = dest /\ len = ProofSize
       THEN IF Len(g.sols) < MaxSols THEN [g EXCEPT !.sols = Append(@, ZeroProof)] ELSE g
  ELSE IF len = ProofSize THEN g
  ELSE IF Adj(g, Sibling(x)) = Nil THEN g
  ELSE LET deeper == EachLink([g EXCEPT !.visited = @ \cup {Pair(x)}], len,
                              Adj(g, Sibling(x)), dest)
       IN [deeper EXCEPT !.visited = @ \ {Pair(x)}]
EachLink(g, len, k, dest) ==
  IF k = Nil THEN g
  ELSE EachLink(cycles_with_link(SetNonce(g, len, EdgeOf(k)), len + 1, FarEnd(g, k), dest),
                len, NextLink(g, k), dest)

add_edge(g, e) ==
  LET u == Node("u", e.u)
      v == Node("v", e.v)
      found == IF Adj(g, Sibling(u)) # Nil /\ Adj(g, Sibling(v)) # Nil
               THEN cycles_with_link(SetNonce(g, 0, Len(g.links) \div 2), 1, u, v) ELSE g
  IN [found EXCEPT !.links = @ \o <<u, v>>]
RECURSIVE AddAll(_, _)
AddAll(g, es) == IF es = <<>> THEN g ELSE AddAll(add_edge(g, Head(es)), Tail(es))

(* The edges of a solution, in the order of their nonces.                   *)
RECURSIVE SortedEdges(_)
SortedEdges(s) ==
  IF s = <<>> THEN <<>>
  ELSE LET k == CHOOSE i \in 1..Len(s) : \A j \in 1..Len(s) : s[i].nonce <= s[j].nonce
       IN <<s[k]>> \o SortedEdges([i \in 1..Len(s) - 1 |-> IF i < k THEN s[i] ELSE s[i + 1]])
(* Empty when there is none, or when one of them does not verify.           *)
find_cycles_iter(es) ==
  LET g == AddAll(EmptyGraph, es)
      proofs == [n \in 1..Len(g.sols) - 1 |->
                   SortedEdges([i \in 1..ProofSize |-> es[g.sols[n][i - 1] + 1]])]
  IN IF \A n \in 1..Len(proofs) : verify("cuckatoo", proofs[n]) = "ok" THEN proofs ELSE <<>>

(* One round of trimming: on each side in turn, edges whose node has no     *)
(* sibling end.                                                             *)
KillLone(es, ends) ==
  SelectSeq(es, LAMBDA e : \E k \in 1..Len(es) : ends[es[k]] = Other(ends[e]))
count_and_kill(es) ==
  LET first == KillLone(es, [e \in {es[k] : k \in 1..Len(es)} |-> e.u])
  IN KillLone(first, [e \in {first[k] : k \in 1..Len(first)} |-> e.v])

(* --- building the graph -------------------------------------------------- *)

Init == variant \in Variants \cup {"solver"} /\ edges = <<>>

Bound == IF variant = "solver" THEN MaxEdges ELSE ProofSize
(* Nonces rise by twos, so that both parities are free; the last edge of a  *)
(* proof may also repeat a nonce or lie out of range.                       *)
Nonces == LET n == Len(edges) IN
          {2 * n} \cup (IF variant = "cuckarood" THEN {2 * n + 1} ELSE {})
            \cup (IF variant # "solver" /\ n + 1 = ProofSize /\ edges[1].v = 0
                  THEN {edges[n].nonce, EdgeMask + 1} ELSE {})
(* The search compares nodes and pairs of them only, so renaming every v to *)
(* v xor 1 changes nothing: its first edge ends in 0.                       *)
AddEdge ==
  /\ Len(edges) < Bound
  /\ \E u, v \in NodesOf(variant), nonce \in Nonces :
       /\ edges = <<>> => u = 0 /\ v \in (IF variant = "solver" THEN {0} ELSE {0, 1})
       /\ edges' = Append(edges, [nonce |-> nonce, u |-> u, v |-> v])
  /\ UNCHANGED variant

Next == AddEdge

(* --- properties ---------------------------------------------------------- *)

(* The reference: the nodes of a variant's graph and their ends.            *)
Ends(p) == {<<n, s>> : n \in 1..Len(p), s \in {"u", "v"}}
At(p, x) == IF x[2] = "u" THEN p[x[1]].u ELSE p[x[1]].v
NodeAt(v, p, x) ==
  CASE v = "cuckatoo" -> <<x[2], At(p, x) \div 2>>
    [] v \in {"cuckaroo", "cuckarood"} -> <<x[2], At(p, x)>>
    [] OTHER -> <<"node", At(p, x)>>
Meet(v, p, x, y) == x # y /\ NodeAt(v, p, x) = NodeAt(v, p, y)
Fits(v, p, x, y) ==
  CASE v = "cuckatoo" -> At(p, x) # At(p, y)
    [] v = "cuckarood" -> Dir(p[x[1]]) # Dir(p[y[1]])
    [] v = "cuckaroom" -> x[2] # y[2]
    [] OTHER -> TRUE
RECURSIVE Reached(_, _, _)
Reached(v, p, S) ==
  LET more == {n \in 1..Len(p) : \E m \in S : \E s, t \in {"u", "v"} :
                                   NodeAt(v, p, <<n, s>>) = NodeAt(v, p, <<m, t>>)}
  IN IF more = S THEN S ELSE Reached(v, p, more)
IsCycle(v, p) ==
  /\ Len(p) = ProofSize
  /\ \A x \in Ends(p) : /\ Cardinality({y \in Ends(p) : Meet(v, p, x, y)}) = 1
                        /\ \A y \in Ends(p) : Meet(v, p, x, y) => Fits(v, p, x, y)
  /\ Reached(v, p, {1}) = 1..Len(p)

(* Every verifier returns, and accepts exactly the ascending edges in range *)
(* that form one cycle of the proof's length in its graph, whatever nodes   *)
(* share a bucket.                                                          *)
VerifyIsCycle ==
  (variant \in Variants /\ Len(edges) = ProofSize) =>
     /\ verify(variant, edges) # "loops"
     /\ (verify(variant, edges) = "ok") = (Ascending(edges) /\ IsCycle(variant, edges))

Subcycles == {S \in SUBSET (1..Len(edges)) :
                Cardinality(S) = ProofSize /\
                IsCycle("cuckatoo", SelectSeq(edges, LAMBDA e : e.nonce \div 2 + 1 \in S))}
Indices(p) == {p[n].nonce \div 2 + 1 : n \in 1..Len(p)}
Found(es) == {Indices(find_cycles_iter(es)[n]) : n \in 1..Len(find_cycles_iter(es))}
(* The solver returns only cycles of the graph, and a graph's only cycle is *)
(* returned; a round of trimming takes no edge of a cycle away, so that the *)
(* trimmed edges give the same answer.                                      *)
SolverFinds ==
  variant = "solver" => \E cycles \in {Subcycles}, kept \in {count_and_kill(edges)} :
    /\ Found(edges) \subseteq cycles
    /\ Cardinality(cycles) = 1 => Found(edges) = cycles /\ Found(kept) = cycles
    /\ \A c \in cycles : c \subseteq Indices(kept)
=============================================================================
