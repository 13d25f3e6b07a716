------------------------------ MODULE Blossom ------------------------------
(***************************************************************************)
(* The rounds of Season as internal/pairing makes them, one after another, *)
(* with the solver of pairing.solver: greedy in one step, or Edmonds'      *)
(* blossom algorithm statement by statement (solver_blossom.go, a port of  *)
(* NetworkX's max_weight_matching).                                        *)
(*                                                                         *)
(* Vertices are the slots 1..N, and the blossoms N+1..2N; a vertex and its *)
(* trivial blossom share a number.  Between two equally slack edges of a   *)
(* blossom the one listed first is taken.  A mutant is a way the code      *)
(* could be wrong; no action uses one.                                     *)
(***************************************************************************)
EXTENDS Season

VARIABLES
    graph,     \* the slots and edges of the round being generated
    m,         \* the matcher
    scan,      \* the vertex being scanned: its edges still to come
    pc

vars == <<league, graph, m, scan, pc, results>>

NoEdge == <<0, 0>>
NoBlossom == [childs |-> <<>>, edges |-> <<>>, best |-> <<>>, hasBest |-> FALSE,
              parent |-> 0, base |-> 0, dual |-> 0,
              label |-> "none", labelEdge |-> NoEdge, bestEdge |-> NoEdge]

Vertices == DOMAIN graph.slots
N == Len(graph.slots)
Trivial(b) == b <= N

-----------------------------------------------------------------------------
(* newMatcher. *)

(* Every vertex's neighbours in the order of the edges: cost, then ids, then slots. *)
NewMatcher(g) ==
    LET V == DOMAIN g.slots
        weight == Weights(g)
    IN  [mate   |-> [v \in V |-> 0],
         weight |-> weight,
         adj    |-> [v \in V |-> SortedBy({w \in V : {v, w} \in g.edges},
                                          LAMBDA w : <<g.cost[v][w], g.slots[w], w>>)],
         dual   |-> [v \in V |-> Max({weight[Min(e)][Max(e)] : e \in g.edges})],
         b      |-> [x \in 1..(2 * Len(g.slots)) |->
                       IF x \in V THEN [NoBlossom EXCEPT !.base = x] ELSE NoBlossom],
         live   |-> <<>>,
         allow  |-> {},
         queue  |-> <<>>]

Slack(x, v, w) == x.dual[v] + x.dual[w] - 2 * x.weight[v][w]

(* inBlossom: the outermost blossom around b, and leaves: the vertices inside. *)
RECURSIVE Top(_, _)
Top(x, b) == IF x.b[b].parent = 0 THEN b ELSE Top(x, x.b[b].parent)

RECURSIVE Leaves(_, _)
Leaves(x, b) ==
    IF Trivial(b) THEN <<b>>
    ELSE FlattenSeq([k \in DOMAIN x.b[b].childs |-> Leaves(x, Reverse(x.b[b].childs)[k])])

(* childAt and edgeAt: round the cycle, from 0, negative indexes too. *)
At(s, j) == s[(j % Len(s)) + 1]

-----------------------------------------------------------------------------
(* assignLabel: an S-blossom's vertices go on the queue; the mate of a       *)
(* T-blossom's base becomes S.                                               *)

WithLabel(x, w, label, e) ==
    [x EXCEPT !.b = [c \in DOMAIN @ |->
        IF c \in {w, Top(x, w)}
        THEN [@[c] EXCEPT !.label = label, !.labelEdge = e, !.bestEdge = NoEdge]
        ELSE @[c]]]

LabelS(x, w, e) ==
    LET y == WithLabel(x, w, "S", e) IN [y EXCEPT !.queue = @ \o Leaves(y, Top(y, w))]

LabelT(x, w, v) ==
    LET y == WithLabel(x, w, "T", <<v, w>>)
        base == y.b[Top(y, w)].base
    IN  LabelS(y, y.mate[base], <<base, y.mate[base]>>)

Unlabelled(x, vs) ==
    [x EXCEPT !.b = [c \in DOMAIN @ |-> IF c \in vs THEN [@[c] EXCEPT !.label = "none"] ELSE @[c]]]

(* The S-blossoms from v's back to the root of its tree. *)
RECURSIVE PathToRoot(_, _)
PathToRoot(x, v) ==
    LET e == x.b[Top(x, v)].labelEdge
    IN  <<Top(x, v)>> \o (IF e = NoEdge THEN <<>>
                          ELSE PathToRoot(x, x.b[Top(x, e[1])].labelEdge[1]))

(* scanBlossom: where the two paths meet, 0 if they end in different roots.  *)
ScanBlossom(x, v, w) ==
    LET path == PathToRoot(x, v)
        i == SelectInSeq(path, LAMBDA b : Contains(PathToRoot(x, w), b))
    IN  IF i = 0 THEN 0 ELSE path[i]

(* The blossoms from b back to bb, which is left out. *)
RECURSIVE TraceBack(_, _, _)
TraceBack(x, b, bb) ==
    IF b = bb THEN <<>> ELSE <<b>> \o TraceBack(x, Top(x, x.b[b].labelEdge[1]), bb)

(* The edges a sub-blossom brings: kept from its own time as S, or all of its leaves'. *)
Candidates(x, sub) ==
    IF x.b[sub].hasBest THEN x.b[sub].best
    ELSE LET leaves == Leaves(x, sub)
         IN  FlattenSeq([k \in DOMAIN leaves |->
                LET next == x.adj[leaves[k]] IN [i \in DOMAIN next |-> <<leaves[k], next[i]>>]])

(* For blossom b, the least slack edge to each neighbouring S-blossom. *)
BestEdges(x, b, edges) ==
    LET Outside(k) == Top(x, IF Top(x, edges[k][2]) = b THEN edges[k][1] ELSE edges[k][2])
        Good == {k \in DOMAIN edges : Outside(k) # b /\ x.b[Outside(k)].label = "S"}
        Slk(k) == Slack(x, edges[k][1], edges[k][2])
        least == {k \in Good : \A i \in Good :
                     Outside(i) = Outside(k) => \/ Slk(k) < Slk(i)
                                                \/ Slk(k) = Slk(i) /\ k <= i}
        order == SortedBy(least, LAMBDA k : <<k, 0, 0>>)
    IN  [k \in DOMAIN order |-> edges[order[k]]]

LeastSlack(x, edges) ==
    IF edges = <<>> THEN NoEdge
    ELSE edges[First(DOMAIN edges, LAMBDA k : <<Slack(x, edges[k][1], edges[k][2]), k, 0>>)]

(* addBlossom: the cycle through S-vertices v and w and the blossom bb. *)
AddBlossom(x, bb, v, w) ==
    LET fromV == TraceBack(x, Top(x, v), bb)
        fromW == TraceBack(x, Top(x, w), bb)
        childs == <<bb>> \o Reverse(fromV) \o fromW
        edges == Reverse(<<<<v, w>>>> \o [k \in DOMAIN fromV |-> x.b[fromV[k]].labelEdge])
                 \o [k \in DOMAIN fromW |-> Reverse(x.b[fromW[k]].labelEdge)]
        new == Min((N + 1 .. 2 * N) \ ToSet(x.live))
        y == [x EXCEPT
                !.b = [c \in DOMAIN @ |->
                    IF c = new THEN [NoBlossom EXCEPT
                        !.childs = childs, !.edges = edges, !.base = x.b[bb].base,
                        !.label = "S", !.labelEdge = x.b[bb].labelEdge]
                    ELSE IF Contains(childs, c) THEN [@[c] EXCEPT !.parent = new] ELSE @[c]],
                !.live = Append(@, new)]
        best == BestEdges(y, new, FlattenSeq([k \in DOMAIN childs |-> Candidates(x, childs[k])]))
    IN  [y EXCEPT
            !.queue = @ \o SelectSeq(Leaves(y, new), LAMBDA u : x.b[Top(x, u)].label = "T"),
            !.b = [c \in DOMAIN @ |->
                IF c = new THEN [@[c] EXCEPT !.best = best, !.hasBest = TRUE,
                                             !.bestEdge = LeastSlack(y, best)]
                ELSE IF Contains(childs, c) THEN [@[c] EXCEPT !.best = <<>>, !.hasBest = FALSE,
                                                              !.bestEdge = NoEdge]
                ELSE @[c]]]

-----------------------------------------------------------------------------
(* expandBlossom. *)

(* b is gone, its sub-blossoms are top-level. *)
Released(x, b) ==
    [x EXCEPT !.b = [c \in DOMAIN @ |-> IF @[c].parent = b THEN [@[c] EXCEPT !.parent = 0] ELSE @[c]],
              !.live = Remove(@, b)]

(* At the end of a stage: the sub-blossoms without a dual expand too. *)
RECURSIVE ExpandAll(_, _)
ExpandAll(x, b) ==
    FoldLeft(LAMBDA y, s : IF ~Trivial(s) /\ y.b[s].dual = 0 THEN ExpandAll(y, s) ELSE y,
             Released(x, b), x.b[b].childs)

(* The edge of the step from j, as walked in direction step. *)
Forward(s, j, step) == IF step = 1 THEN At(s, j) ELSE Reverse(At(s, j - 1))

(* From the sub-blossom b was reached through to its base, T and S by turns. *)
RECURSIVE RelabelToBase(_, _, _, _, _, _)
RelabelToBase(x, b, v, w, j, step) ==
    IF j = 0
    THEN LET bw == At(x.b[b].childs, 0)
         IN  [x EXCEPT !.b = [c \in DOMAIN @ |->
                 [@[c] EXCEPT !.label = IF c \in {w, bw} THEN "T" ELSE @,
                              !.labelEdge = IF c \in {w, bw} THEN <<v, w>> ELSE @,
                              !.bestEdge = IF c = bw THEN NoEdge ELSE @]]]
    ELSE LET e == Forward(x.b[b].edges, j, step)
             f == Forward(x.b[b].edges, j + step, step)
             y == LabelT(Unlabelled(x, {w, e[2]}), w, v)
         IN  RelabelToBase([y EXCEPT !.allow = @ \cup {{e[1], e[2]}, {f[1], f[2]}}],
                           b, f[1], f[2], j + 2 * step, step)

(* On round the cycle: a sub-blossom reached from outside b becomes T. *)
RECURSIVE RelabelRest(_, _, _, _, _)
RelabelRest(x, b, entry, j, step) ==
    LET bv == At(x.b[b].childs, j)
        reached == SelectSeq(Leaves(x, bv), LAMBDA u : x.b[u].label # "none")
        v == Head(reached)
    IN  IF bv = entry THEN x
        ELSE IF x.b[bv].label = "S" \/ reached = <<>>
        THEN RelabelRest(x, b, entry, j + step, step)
        ELSE RelabelRest(LabelT(Unlabelled(x, {v, x.mate[x.b[bv].base]}), v, x.b[v].labelEdge[1]),
                         b, entry, j + step, step)

(* Which way round from the i-th of the cycle: even back, odd on and past the end. *)
StartAt(s, i) == IF i % 2 = 0 THEN i ELSE i - Len(s)
StepFrom(i) == IF i % 2 = 0 THEN -1 ELSE 1

(* Mid-stage, of a T-blossom whose dual has come to zero. *)
ExpandT(x, b) ==
    LET y == Released(x, b)
        e == x.b[b].labelEdge
        childs == x.b[b].childs
        entry == Top(y, e[2])
        i == SelectInSeq(childs, LAMBDA c : c = entry) - 1
        z == RelabelToBase(y, b, e[1], e[2], StartAt(childs, i), StepFrom(i))
    IN  RelabelRest(z, b, entry, StepFrom(i), StepFrom(i))

-----------------------------------------------------------------------------
(* augmentBlossom and augmentMatching. *)

Paired(x, v, w) == [x EXCEPT !.mate = [@ EXCEPT ![v] = w, ![w] = v]]

(* The sub-blossom of b around v. *)
RECURSIVE ChildWith(_, _, _)
ChildWith(x, b, v) == IF x.b[v].parent = b THEN v ELSE ChildWith(x, b, x.b[v].parent)

(* Mutant: the base is not moved to the vertex the path came in by. *)
AugmentKeepingBase(x, b, v) == x

RECURSIVE AugmentBlossom(_, _, _)
AugmentBlossom(x, b, v) ==
    IF Trivial(b) THEN x
    ELSE LET childs == x.b[b].childs
             edges == x.b[b].edges
             t == ChildWith(x, b, v)
             i == SelectInSeq(childs, LAMBDA c : c = t) - 1
             step == StepFrom(i)
             Walk[j \in -Len(childs)..Len(childs)] ==
                 IF j = StartAt(childs, i) THEN AugmentBlossom(x, t, v)
                 ELSE LET y == Walk[j - 2 * step]
                          e == Forward(edges, j - step, step)
                      IN  Paired(AugmentBlossom(
                                     AugmentBlossom(y, At(childs, j - step), e[1]),
                                     At(childs, j), e[2]), e[1], e[2])
             Rotated(s) == SubSeq(s, i + 1, Len(s)) \o SubSeq(s, 1, i)
             y == Walk[0]
         IN  [y EXCEPT !.b[b] = [@ EXCEPT !.childs = Rotated(childs), !.edges = Rotated(edges),
                                          !.base = y.b[t].base]]

(* One end of the path: s takes j, and so on back to a single vertex. *)
RECURSIVE AugmentPath(_, _, _)
AugmentPath(x, s, j) ==
    LET bs == Top(x, s)
        y == [AugmentBlossom(x, bs, s) EXCEPT !.mate[s] = j]
        bt == Top(x, x.b[bs].labelEdge[1])
        e == x.b[bt].labelEdge
    IN  IF x.b[bs].labelEdge = NoEdge THEN y
        ELSE AugmentPath([AugmentBlossom(y, bt, e[2]) EXCEPT !.mate[e[2]] = e[1]], e[1], e[2])

AugmentMatching(x, v, w) == AugmentPath(AugmentPath(x, v, w), w, v)

-----------------------------------------------------------------------------
(* A round begins with the pool of the day. *)

NoGraph == [slots |-> <<>>, cost |-> <<>>, edges |-> {}]
NoMatcher == [mate |-> <<>>, weight |-> <<>>, adj |-> <<>>, dual |-> <<>>, b |-> <<>>, live |-> <<>>, allow |-> {}, queue |-> <<>>]

Init ==
    /\ SeasonInit
    /\ graph = NoGraph
    /\ m = NoMatcher
    /\ scan = <<>>
    /\ pc = "idle"

(* Generate up to the solver. *)
StartRound(absent) ==
    /\ pc = "idle"
    /\ Assemble(absent)
    /\ graph' = BuildGraph(league'.players, league.history, league.cfg)
    /\ m' = IF graph'.slots = <<>> THEN NoMatcher ELSE NewMatcher(graph')
    /\ pc' = IF graph'.slots = <<>> THEN "matched"
             ELSE IF league.cfg.solver = "blossom" THEN "stage" ELSE "greedy"
    /\ UNCHANGED scan

Greedy ==
    /\ pc = "greedy"
    /\ LET pairs == GreedyMatch(graph)
       IN  m' = [m EXCEPT !.mate = [v \in Vertices |->
                    CHOOSE w \in Vertices : w # v /\ {v, w} \in pairs]]
    /\ pc' = "matched"
    /\ UNCHANGED <<league, graph, scan, results>>

(* A stage forgets the last one's labels; its single vertices become S. *)
NewStage ==
    /\ pc = "stage"
    /\ LET cleared == [m EXCEPT
              !.b = [c \in DOMAIN @ |-> IF Trivial(c) \/ Contains(m.live, c)
                        THEN [@[c] EXCEPT !.label = "none", !.labelEdge = NoEdge,
                                 !.bestEdge = NoEdge, !.best = <<>>, !.hasBest = FALSE]
                        ELSE @[c]],
              !.allow = {}, !.queue = <<>>]
           Single(x, v) == IF x.mate[v] = 0 /\ x.b[Top(x, v)].label = "none"
                           THEN LabelS(x, v, NoEdge) ELSE x
       IN  m' = FoldLeft(Single, cleared, [v \in Vertices |-> v])
    /\ pc' = "label"
    /\ UNCHANGED <<league, graph, scan, results>>

(* Mutant: the vertex stays on the queue. *)
NextVertexKept ==
    /\ pc = "label"
    /\ scan = <<>>
    /\ m.queue # <<>>
    /\ LET v == Last(m.queue)
           next == m.adj[v]
       IN  scan' = [k \in DOMAIN next |-> <<v, next[k]>>]
    /\ UNCHANGED <<league, graph, m, pc, results>>

(* labelReachable: the next vertex of the queue, then its edges one by one. *)
NextVertex ==
    /\ pc = "label"
    /\ scan = <<>>
    /\ m.queue # <<>>
    /\ LET v == Last(m.queue)
           next == m.adj[v]
       IN  scan' = [k \in DOMAIN next |-> <<v, next[k]>>]
    /\ m' = [m EXCEPT !.queue = Front(@)]
    /\ UNCHANGED <<league, graph, pc, results>>

(* The better of the best edge so far and (v, w). *)
Better(x, best, v, w) ==
    IF best = NoEdge \/ Slack(x, v, w) < Slack(x, best[1], best[2]) THEN <<v, w>> ELSE best

IsTight(x, v, w) == {v, w} \in x.allow \/ Slack(x, v, w) <= 0

VisitTight(v, w, x) ==
    LET bw == Top(m, w) IN
    \/ /\ m.b[bw].label = "none"
       /\ m' = LabelT(x, w, v)
       /\ scan' = Tail(scan) /\ UNCHANGED pc
    \/ /\ m.b[bw].label = "S"
       /\ LET bb == ScanBlossom(x, v, w) IN
          IF bb # 0
          THEN m' = AddBlossom(x, bb, v, w) /\ scan' = Tail(scan) /\ UNCHANGED pc
          ELSE m' = AugmentMatching(x, v, w) /\ scan' = <<>> /\ pc' = "augmented"
    \/ /\ m.b[bw].label = "T"
       /\ m' = IF x.b[w].label = "none"
               THEN [x EXCEPT !.b[w] = [@ EXCEPT !.label = "T", !.labelEdge = <<v, w>>]] ELSE x
       /\ scan' = Tail(scan) /\ UNCHANGED pc

VisitSlack(v, w) ==
    LET bv == Top(m, v) bw == Top(m, w) IN
    /\ m' = IF m.b[bw].label = "S"
            THEN [m EXCEPT !.b[bv].bestEdge = Better(m, @, v, w)]
            ELSE IF m.b[w].label = "none"
            THEN [m EXCEPT !.b[w].bestEdge = Better(m, @, v, w)] ELSE m
    /\ scan' = Tail(scan) /\ UNCHANGED pc

VisitEdge ==
    /\ pc = "label"
    /\ scan # <<>>
    /\ LET v == Head(scan)[1] w == Head(scan)[2] IN
       \/ /\ Top(m, v) = Top(m, w)
          /\ scan' = Tail(scan) /\ UNCHANGED <<m, pc>>
       \/ /\ Top(m, v) # Top(m, w)
          /\ IsTight(m, v, w)
          /\ VisitTight(v, w, [m EXCEPT !.allow = @ \cup {{v, w}}])
       \/ /\ Top(m, v) # Top(m, w)
          /\ ~IsTight(m, v, w)
          /\ VisitSlack(v, w)
    /\ UNCHANGED <<league, graph, results>>

(* The changes to the duals that make progress possible. *)
Delta2 ==
    {[delta |-> Slack(m, m.b[v].bestEdge[1], m.b[v].bestEdge[2]), type |-> 2,
      at |-> v, edge |-> m.b[v].bestEdge] :
         v \in {u \in Vertices : m.b[Top(m, u)].label = "none" /\ m.b[u].bestEdge # NoEdge}}

Delta3 ==
    {[delta |-> Slack(m, m.b[c].bestEdge[1], m.b[c].bestEdge[2]) \div 2, type |-> 3,
      at |-> c, edge |-> m.b[c].bestEdge] :
         c \in {d \in Vertices \cup ToSet(m.live) :
                   /\ m.b[d].parent = 0 /\ m.b[d].label = "S" /\ m.b[d].bestEdge # NoEdge}}

Delta4 ==
    {[delta |-> m.b[c].dual, type |-> 4, at |-> c, edge |-> NoEdge] :
         c \in {d \in ToSet(m.live) : m.b[d].parent = 0 /\ m.b[d].label = "T"}}

(* Blossoms are considered after vertices, the oldest first. *)
Age(c) == IF Trivial(c) THEN c ELSE N + SelectInSeq(m.live, LAMBDA d : d = c)

Adjusted(delta) ==
    LET Change(label) == CASE label = "S" -> delta [] label = "T" -> -delta [] OTHER -> 0
    IN  [m EXCEPT
            !.dual = [v \in Vertices |-> @[v] - Change(m.b[Top(m, v)].label)],
            !.b = [c \in DOMAIN @ |->
                IF Contains(m.live, c) /\ @[c].parent = 0
                THEN [@[c] EXCEPT !.dual = @ + Change(m.b[c].label)] ELSE @[c]]]

AdjustDuals ==
    LET deltas == Delta2 \cup Delta3 \cup Delta4
        d == First(deltas, LAMBDA x : <<x.delta, x.type, Age(x.at)>>)
    IN  /\ pc = "label"
        /\ scan = <<>>
        /\ m.queue = <<>>
        /\ deltas # {}
        /\ m' = IF d.type = 4 THEN ExpandT(Adjusted(d.delta), d.at)
                ELSE [Adjusted(d.delta) EXCEPT !.allow = @ \cup {{d.edge[1], d.edge[2]}},
                                               !.queue = <<d.edge[1]>>]
        /\ UNCHANGED <<league, graph, scan, pc, results>>

(* No further improvement is possible. *)
Optimum ==
    /\ pc = "label"
    /\ scan = <<>>
    /\ m.queue = <<>>
    /\ Delta2 \cup Delta3 \cup Delta4 = {}
    /\ m' = Adjusted(Max({0, Min({m.dual[v] : v \in Vertices})}))
    /\ pc' = "matched"
    /\ UNCHANGED <<league, graph, scan, results>>

EndStage ==
    /\ pc = "augmented"
    /\ LET Expand(x, b) == IF /\ Contains(x.live, b) /\ x.b[b].parent = 0
                              /\ x.b[b].label = "S" /\ x.b[b].dual = 0
                           THEN ExpandAll(x, b) ELSE x
       IN  m' = FoldLeft(Expand, m, m.live)
    /\ pc' = "stage"
    /\ UNCHANGED <<league, graph, scan, results>>

Matching == {{v, m.mate[v]} : v \in Vertices}

(* Generate from the matching on: the round is published, and played. *)
Publish(gap) ==
    /\ pc = "matched"
    /\ PublishRound(Generate(league.players, league.history, league.cfg, graph, Matching), gap)
    /\ graph' = NoGraph
    /\ m' = NoMatcher
    /\ pc' = "idle"
    /\ UNCHANGED scan

-----------------------------------------------------------------------------
SolverStep ==
    \/ Greedy
    \/ NewStage \/ NextVertex \/ VisitEdge \/ AdjustDuals \/ Optimum \/ EndStage

Next ==
    \/ \E absent \in Absences : StartRound(absent)
    \/ SolverStep
    \/ \E gap \in Gaps : Publish(gap)

Spec == Init /\ [][Next]_vars

(* A generation runs on: nothing in it waits for anyone.  This is            *)
(* WF_vars(SolverStep) with its ENABLED written out, which is dear to        *)
(* evaluate here: a solver step is possible until the slots are matched.     *)
FairSpec == Spec /\ ([]<>(pc \in {"idle", "matched"}) \/ []<><<SolverStep>>_vars)

-----------------------------------------------------------------------------
(* Properties. *)

(* verifyOptimum's linear-programming certificate, for as long as the solver *)
(* runs: Certified of the blossoms there are, each with the vertices inside  *)
(* it, and what the code reads it off, every other edge of the cycle of a    *)
(* blossom with a positive dual.  The tests check it at the end only; an     *)
(* expansion or augmentation that breaks it on the way gives a matching that *)
(* merely looks cheap.                                                       *)
Certificate ==
    (pc \in {"stage", "label", "augmented", "matched"} /\ league.cfg.solver = "blossom"
        /\ graph # NoGraph) =>
    LET blossoms == ToSet(m.live)
        matched == {e \in graph.edges : m.mate[Min(e)] = Max(e)}
    IN  /\ Certified(graph, m.weight, m.dual, [b \in blossoms |-> ToSet(Leaves(m, b))],
                     [b \in blossoms |-> m.b[b].dual], matched)
        /\ \A v \in Vertices : m.mate[v] # 0 => m.mate[m.mate[v]] = v
        /\ \A b \in blossoms : m.b[b].dual > 0 => \A k \in DOMAIN m.b[b].edges :
              k % 2 = 0 => m.mate[m.b[b].edges[k][1]] = m.b[b].edges[k][2]

(* What every perfect matching of the slots costs. *)
RECURSIVE PerfectCosts(_)
PerfectCosts(S) ==
    IF S = {} THEN {0}
    ELSE LET i == Min(S)
         IN  UNION {{graph.cost[i][j] + c : c \in PerfectCosts(S \ {i, j})} :
                       j \in {k \in S : {i, k} \in graph.edges}}

(* Both solvers match every slot along an edge, so never the volunteer with  *)
(* themselves, and the blossom solver does it at the least cost there is     *)
(* (solver_blossom.go: "one with the lowest total cost").                    *)
CheapestMatching ==
    (pc = "matched" /\ graph # NoGraph) =>
        /\ Perfect(graph, Matching)
        /\ league.cfg.solver = "blossom" => TotalCost(graph, Matching) = Min(PerfectCosts(Vertices))

(* Every generation ends, whatever blossoms it has to shrink and expand. *)
RoundsAreMade == pc # "idle" ~> pc = "matched"
=============================================================================
