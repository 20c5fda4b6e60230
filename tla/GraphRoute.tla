------------------------------ MODULE GraphRoute -----------------------------
(***************************************************************************)
(* The route evaluator of the execution graph (lib/oms_graph/route.py):    *)
(* from a frozen graph, the projection of a run's events and the facts of  *)
(* the moment, what may happen next.  It is pure.                          *)
(*                                                                         *)
(* A graph has nodes, a sequence of edges, an entry and a budget.  The     *)
(* facts come as `proved`: the nodes whose proof predicates all hold now.  *)
(* Edge priorities and `when`, node `requires`, `stop_facts` and subgraphs *)
(* are left out: no graph that ships uses them.                            *)
(***************************************************************************)
EXTENDS Integers, Sequences, FiniteSets, SequencesExt

CONSTANTS
  NoNode, NoTask,  \* no node, no task
  MaxWalk          \* bound: the edges that one evaluation follows

ASSUME WalkAssumption == MaxWalk \in Nat

Outcomes == {"completed", "failed", "unverified", "partial", "blocked",
             "changes_requested", "approved"}
NoOutcome == "none"

NodeKinds == {"agent", "tool", "gate", "router", "terminal"}

\* validate_spec, as far as the walk depends on it.
IsGraph(g) ==
  /\ g.entry \in DOMAIN g.nodes /\ IsFiniteSet(DOMAIN g.nodes)
  /\ \A n \in DOMAIN g.nodes : g.nodes[n].kind \in NodeKinds
  /\ g.edges \in Seq([src : DOMAIN g.nodes, dst : DOMAIN g.nodes, outs : SUBSET Outcomes,
                      kind : {"normal", "repeat"}])
  /\ g.maxSteps \in Nat \ {0} /\ g.maxRepeats \in Nat

\* What the projection says of a node before any event names it.
Unvisited == [status |-> "pending", outcome |-> NoOutcome, claimed |-> NoOutcome,
              attempts |-> 0, seq |-> 0, task |-> NoTask]

EdgePairs(g) == {<<g.edges[i].src, g.edges[i].dst>> : i \in DOMAIN g.edges}
Unspent(g) == [p \in EdgePairs(g) |-> 0]

\* The edges an outcome selects: validation lets several match only as a fan-out.
Selected(g, n, o) == {i \in DOMAIN g.edges : g.edges[i].src = n /\ o \in g.edges[i].outs}

\* A claimed completion stands only with its proof.
Effective(n, claimed, proved) ==
  IF claimed \in {"completed", "approved"} /\ n \notin proved
  THEN "unverified" ELSE claimed

Finished(st, n) == st.nodes[n].status = "finished"

\* Only the frontier is proved again: work that finished after this node keeps
\* the outcome that was recorded.
Settle(g, st, proved, n, path) ==
  LET s == st.nodes[n]
      next == Selected(g, n, s.outcome)
      frontier == \/ next = {}
                  \/ \E i \in next : LET t == g.edges[i].dst IN
                       \/ ~Finished(st, t) \/ t \in path \/ t = n
                       \/ st.nodes[t].seq < s.seq
  IN  IF frontier THEN Effective(n, s.claimed, proved) ELSE s.outcome

\* reachable: the nodes some path of edges leads to from n.
Reachable(g, n) ==
  LET After(ns) == {p[2] : p \in {q \in EdgePairs(g) : q[1] \in ns}}
      Within[k \in Nat] == IF k = 0 THEN After({n}) ELSE Within[k - 1] \cup After(Within[k - 1])
  IN  Within[Cardinality(DOMAIN g.nodes)]

\* A join waits for its incoming edges, except those that close a cycle.
JoinReady(g, st, n, settled) ==
  LET into == {i \in DOMAIN g.edges : /\ g.edges[i].dst = n /\ g.edges[i].src # n
                                      /\ g.edges[i].kind = "normal"
                                      /\ g.edges[i].src \notin Reachable(g, n)}
      Matches(i) == LET s == g.edges[i].src IN
        /\ Finished(st, s)
        /\ (IF settled[s] = NoOutcome THEN st.nodes[s].outcome ELSE settled[s]) \in g.edges[i].outs
  IN  \/ g.nodes[n].kind = "terminal" \/ Cardinality(into) < 2
      \/ IF g.nodes[n].join = "any" THEN \E i \in into : Matches(i)
                                    ELSE \A i \in into : Matches(i)

-----------------------------------------------------------------------------
(* The walk from the entry.  `todo` is its stack: the expansions that still  *)
(* have edges to follow, each with those edges and the nodes it was reached  *)
(* through.  The walk gathers the frontier, the nodes of a kind in the order *)
(* it met them, the repeat budget that going on would have spent, and the    *)
(* outcomes settled so far.                                                  *)
Kinds == {"active", "candidate", "gate", "exhausted", "blocked", "join", "terminal"}

Push(acc, kind, n) ==
  [acc EXCEPT !.frontier[kind] = IF Contains(@, n) THEN @ ELSE Append(@, n)]

\* A node that must run again; a gate awaits a new decision.
Due(g, n, acc) == Push(acc, IF g.nodes[n].kind = "gate" THEN "gate" ELSE "candidate", n)

\* Slip: work that finished before its upstream ran again is not due again.
NeverStale(st, src, dst) == FALSE

\* The target finished before its upstream ran again.
Stale(st, src, dst) == Finished(st, dst) /\ st.nodes[dst].seq < st.nodes[src].seq

\* The target's last attempt came after this outcome: the repeat has happened.
Passed(st, src, dst) == Finished(st, dst) /\ st.nodes[dst].seq > st.nodes[src].seq

\* Slip: a repeat is checked against the budget but not charged to it.
SpentUncharged(g, pair, dst, acc) ==
  IF acc.repeats[pair] + 1 > g.maxRepeats THEN Push(acc, "exhausted", dst) ELSE Due(g, dst, acc)

\* A repeat is charged to its edge, or the budget of the edge is used up.
Spent(g, pair, dst, acc) ==
  IF acc.repeats[pair] + 1 > g.maxRepeats THEN Push(acc, "exhausted", dst)
  ELSE Due(g, dst, [acc EXCEPT !.repeats[pair] = @ + 1])

\* follow_from: the edges of an outcome are next.
Follow(g, n, path, acc, o) ==
  LET settled == [acc EXCEPT !.settled[n] = o]
      edges == Selected(g, n, o)
  IN  IF edges = {} THEN Push(settled, "blocked", n)
      ELSE [settled EXCEPT !.todo = <<[edges |-> edges, path |-> path \cup {n}]>> \o @]

\* expand
Expand(g, st, proved, n, path, acc) ==
  LET node == g.nodes[n]
      s == st.nodes[n]
  IN  CASE n \in path -> Push(acc, "blocked", n)
        [] n \notin path /\ ~JoinReady(g, st, n, acc.settled) -> Push(acc, "join", n)
        [] OTHER ->
             CASE s.status = "active" -> Push(acc, "active", n)
               [] s.status = "finished" ->
                    Follow(g, n, path, acc,
                           IF acc.settled[n] = NoOutcome THEN Settle(g, st, proved, n, path)
                           ELSE acc.settled[n])
               [] s.status = "pending" /\ node.kind = "router" -> Follow(g, n, path, acc, "completed")
               [] s.status = "pending" /\ node.kind = "terminal" -> Push(acc, "terminal", n)
               [] s.status = "pending" /\ node.kind = "gate" -> Push(acc, "gate", n)
               [] s.status = "pending" /\ node.kind \in {"agent", "tool"} ->
                    IF node.task = "bound" /\ st.bound = NoTask THEN Push(acc, "blocked", n)
                    ELSE Push(acc, "candidate", n)

\* One edge: past a repeat that has happened, back along one that has not, to work
\* that is due again, or on.
Along(g, st, proved, edge, path, acc) ==
  LET n == edge.src
      t == edge.dst
      back == edge.kind = "repeat" \/ t \in path
  IN  IF Passed(st, n, t) THEN Expand(g, st, proved, t, path, acc)
      ELSE IF back THEN Spent(g, <<n, t>>, t, acc)
      ELSE IF Stale(st, n, t) THEN Due(g, t, acc)
      ELSE Expand(g, st, proved, t, path, acc)

\* The edges are followed in the order of the graph.
Advance(g, st, proved, w) ==
  LET top == w.todo[1]
      i == Min(top.edges)
      rest == IF top.edges = {i} THEN Tail(w.todo)
              ELSE [w.todo EXCEPT ![1].edges = @ \ {i}]
  IN  IF w.todo = <<>> THEN w ELSE Along(g, st, proved, g.edges[i], top.path, [w EXCEPT !.todo = rest])

Setout(g, st) == [frontier |-> [kind \in Kinds |-> <<>>], repeats |-> st.repeats,
                  settled |-> [n \in DOMAIN g.nodes |-> NoOutcome], todo |-> <<>>]

\* The walk after k edges; with no edge left it stays as it is.
Walk(g, st, proved) ==
  LET After[k \in Nat] == IF k = 0 THEN Expand(g, st, proved, g.entry, {}, Setout(g, st))
                          ELSE Advance(g, st, proved, After[k - 1])
  IN  After[MaxWalk]

-----------------------------------------------------------------------------
\* The verdict: status, the primary node, and the nodes that may start with it.
Verdict(status, nodes, repeats) ==
  [status |-> status, primary |-> IF nodes = <<>> THEN NoNode ELSE nodes[1],
   nodes |-> nodes, repeats |-> repeats]

\* evaluate
Evaluate(g, st, proved) ==
  LET walk == Walk(g, st, proved)
      Is(kind) == walk.frontier[kind] # <<>>
      First(status, kind) == Verdict(status, <<walk.frontier[kind][1]>>, walk.repeats)
  IN  IF st.steps >= g.maxSteps THEN Verdict("exhausted", <<>>, st.repeats)
      ELSE IF Is("active") THEN First("waiting", "active")
      ELSE IF Is("candidate") THEN Verdict("actionable", walk.frontier["candidate"], walk.repeats)
      ELSE IF Is("gate") THEN First("gate", "gate")
      ELSE IF Is("exhausted") THEN First("exhausted", "exhausted")
      ELSE IF Is("blocked") THEN First("blocked", "blocked")
      ELSE IF Is("join") THEN First("waiting", "join")
      ELSE First("terminal", "terminal")

=============================================================================
