---------------------------- MODULE GraphRunProofs ---------------------------
(* What a run of a graph keeps for every graph, number of processes and      *)
(* tasks, and bound: the outcome of an attempt never changes, only patches   *)
(* that the parent approved are landed, and work is done again only where it *)
(* was paid for.                                                             *)
EXTENDS GraphRun, TLAPS, WellFoundedInduction, FiniteSetTheorems

Processes == Runners \cup {Parent}
TaskNames == Tasks \cup {NoTask}
Results == Outcomes \cup {NoOutcome}

-----------------------------------------------------------------------------
(* Types.                                                                  *)
Gates(g) == {n \in DOMAIN g.nodes : IsGate(g, n)}
Workers(g) == DOMAIN g.nodes \ Gates(g)
Budgets(g) == [EdgePairs(g) -> Nat]

NodeStates == [status : {"pending", "active", "finished"}, outcome : Results, claimed : Results,
               attempts : Nat, seq : Nat, task : TaskNames]
States(g) == [nodes : [DOMAIN g.nodes -> NodeStates], steps : Nat,
              tries : SUBSET ((DOMAIN g.nodes) \X Nat), repeats : Budgets(g), bound : TaskNames]

StartRows(g) == {StartRow(n, a, t) : n \in Workers(g), a \in Nat \ {0}, t \in TaskNames}
OutcomeRows(g) == {OutcomeRow(n, a, t, c, o) : n \in Workers(g), a \in Nat \ {0}, t \in TaskNames,
                                               c \in Outcomes, o \in Outcomes}
GateRows(g) == {GateRow(n, a, d) : n \in Gates(g), a \in Nat \ {0}, d \in Outcomes}
RouteRows(g) == {RouteRow(k, b) : k \in Nat, b \in Budgets(g)}
FinishRows == {FinishRow(k) : k \in Nat}
Rows(g) == StartRows(g) \cup OutcomeRows(g) \cup GateRows(g) \cup RouteRows(g) \cup FinishRows

Items(g) == [node : Workers(g), attempt : Nat \ {0}, task : TaskNames, receipt : BOOLEAN,
             proved : BOOLEAN]
WaveItems(g) == [node : Workers(g), attempt : Nat \ {0}, task : TaskNames]

LogTyped(g, l) ==
  /\ DOMAIN l = {"keys", "len", "seq", "st"}
  /\ l.len \in Nat /\ l.seq \in Nat /\ l.st \in States(g) /\ IsFiniteSet(l.st.tries)
  /\ \A n \in Gates(g) : l.st.nodes[n].status # "active"
  /\ \A n \in Workers(g) : l.st.nodes[n].status = "active" => l.st.nodes[n].attempts # 0

Fields == {"pc", "rows", "seq", "todo", "calls", "route", "snap", "wave"}

\* A process: what it still has to append, settle and start, and where its route leads.
ProcTyped(g, r) ==
  /\ DOMAIN r = Fields
  /\ r.pc \in Pcs /\ r.rows \in Seq(Rows(g)) /\ r.seq \in Nat
  /\ r.todo \in Seq(Items(g)) /\ r.calls \in Nat /\ r.wave \in SUBSET WaveItems(g)
  /\ r.pc = "off" => r = Off
  /\ r.seq # 0 => r.rows # <<>>
  /\ r.pc = "routed" => r.snap \in States(g)
  /\ r.pc = "routed" /\ r.route.status = "actionable" => r.route.nodes \in Seq(Workers(g))

Phases == {"launched", "working", "landing", "exited", "read"}
SubTyped(g, s) ==
  /\ DOMAIN s = {"by", "node", "attempt", "task", "phase", "epoch", "exit", "verdict"}
  /\ s.by \in Runners \cup {Nobody} /\ s.node \in Workers(g) /\ s.attempt \in Nat \ {0}
  /\ s.task \in TaskNames /\ s.phase \in Phases
  /\ s.exit \in {"none", "ok", "error", "busy", "timeout"}
  /\ s.phase = "exited" => s.exit # "none" /\ (s.exit = "busy" => g.nodes[s.node].kind = "agent")
  /\ s.phase \in {"working", "landing", "read"} => g.nodes[s.node].kind = "agent"
  /\ s.phase = "landing" => Lands(g, s.node)
  /\ s.phase = "read" => s.verdict.claimed \in Outcomes /\ s.verdict.outcome \in Outcomes

PlanRows == [state : {"ready", "claimed", "review", "done", "blocked"},
             epoch : Nat, patch : Nat, expired : BOOLEAN]
WorldTyped ==
  /\ plan \in [Tasks -> PlanRows]
  /\ tree \in [dirty : BOOLEAN, accepted : {"none", "pass", "fail"}]
  /\ left \in {"fresh", "running", "crashed", "gate", "decided", "finished"}
  /\ DOMAIN ghost = {"approved", "landed"}

Base ==
  /\ graph \in Specs
  /\ LogTyped(graph, log)
  /\ DOMAIN proc = Processes /\ \A p \in Processes : ProcTyped(graph, proc[p])
  /\ \A s \in subs : SubTyped(graph, s)

-----------------------------------------------------------------------------
(* Attempts in order.                                                      *)
Opened(keys, n, a) == <<"start", n, a>> \in keys \/ <<"gate", n, a>> \in keys
Settled(keys, n, a) == <<"outcome", n, a>> \in keys \/ <<"gate", n, a>> \in keys
SettledTo(keys, n, k) == \A b \in 1 .. k : Settled(keys, n, b)

\* The log knows of the attempts of a node from the first to the last, of which
\* only the last may be open; gates are decided, other nodes are worked on.
LogOrdered(g, l) ==
  /\ \A n \in DOMAIN g.nodes : LET s == l.st.nodes[n] IN
       /\ \A b \in 1 .. s.attempts : Opened(l.keys, n, b)
       /\ SettledTo(l.keys, n, IF s.status = "active" THEN s.attempts - 1 ELSE s.attempts)
  /\ \A n \in DOMAIN g.nodes, a \in Nat :
       /\ Opened(l.keys, n, a) \/ Settled(l.keys, n, a) => a <= l.st.nodes[n].attempts
       /\ <<"gate", n, a>> \in l.keys => IsGate(g, n)
       /\ <<"start", n, a>> \in l.keys \/ <<"outcome", n, a>> \in l.keys => ~IsGate(g, n)

\* A row begins the attempt after those that are settled, or ends one that is open.
RowOrdered(keys, rows, i) ==
  LET r == rows[i] IN
  /\ r.event \in {"node_started", "gate_decision"} => SettledTo(keys, r.node, r.attempt - 1)
  /\ r.event = "node_outcome" =>
       \/ Opened(keys, r.node, r.attempt)
       \/ \E j \in 1 .. i - 1 : rows[j].event = "node_started" /\ rows[j].key = <<"start", r.node, r.attempt>>

ProcOrdered(keys, r) ==
  /\ \A i \in DOMAIN r.rows : RowOrdered(keys, r.rows, i)
  /\ \A i \in DOMAIN r.todo : Opened(keys, r.todo[i].node, r.todo[i].attempt)
  /\ \A i \in r.wave : \/ Opened(keys, i.node, i.attempt)
                       \/ \E j \in DOMAIN r.rows : r.rows[j].key = <<"start", i.node, i.attempt>>
  /\ r.pc = "routed" /\ r.route.status = "actionable" =>
       \A i \in DOMAIN r.route.nodes :
         SettledTo(keys, r.route.nodes[i], r.snap.nodes[r.route.nodes[i]].attempts)

Ordered ==
  /\ LogOrdered(graph, log)
  /\ \A p \in Processes : ProcOrdered(log.keys, proc[p])
  /\ \A s \in subs : Opened(log.keys, s.node, s.attempt)

-----------------------------------------------------------------------------
(* Approvals.                                                              *)
Finishes(st, n, o) == Finished(st, n) /\ o \in {st.nodes[n].outcome, st.nodes[n].claimed}

\* The binder has completed its task; a gate was decided since.
BoundDone(g, st) == \E n \in DOMAIN g.nodes : g.nodes[n].binds /\ Finishes(st, n, "completed")
Since(g, st, n) ==
  Finished(st, n) /\ \E m \in DOMAIN g.nodes : /\ g.nodes[m].binds /\ Finishes(st, m, "completed")
                                               /\ st.nodes[n].seq >= st.nodes[m].seq
Approved(g, st) == \E n \in Gates(g) : Since(g, st, n) /\ Finishes(st, n, "approved")

\* A task in review or done keeps its patch; the parent has approved it.
Frozen(pl, t) == t \in Tasks /\ pl[t].state \in {"review", "done"}
Licensed(pl, ok, t) == Frozen(pl, t) /\ <<t, pl[t].patch>> \in ok

RowLicensed(g, pl, r) ==
  r.event = "node_outcome" /\ g.nodes[r.node].binds /\ "completed" \in {r.claimed, r.outcome}
    => Frozen(pl, r.task)

\* A runner never appends a decision, and what it appends comes after every decision.
RunnerLicensed(g, l, pl, ok, r) ==
  /\ \A i \in DOMAIN r.rows : r.rows[i].event # "gate_decision" /\ RowLicensed(g, pl, r.rows[i])
  /\ r.seq # 0 => \A n \in Gates(g) : r.seq > l.st.nodes[n].seq
  /\ \A i \in r.wave : /\ Lands(g, i.node) => Licensed(pl, ok, i.task)
                       /\ g.nodes[i.node].binds => i.task \in Tasks
  /\ r.pc = "routed" /\ r.route.status = "actionable" =>
       \A i \in DOMAIN r.route.nodes : Lands(g, r.route.nodes[i]) => Licensed(pl, ok, r.snap.bound)

ParentLicensed(g, l, pl, ok, r) ==
  /\ r.pc \in {"off", "started"}
  /\ \A i \in DOMAIN r.rows :
       /\ r.rows[i].event = "gate_decision"
       /\ r.rows[i].outcome = "approved" /\ BoundDone(g, l.st) => Licensed(pl, ok, l.st.bound)
  /\ r.seq # 0 => r.seq = l.seq + 1

SubLicensed(g, pl, ok, s) ==
  /\ Lands(g, s.node) => Licensed(pl, ok, s.task)
  /\ g.nodes[s.node].binds =>
       /\ s.task \in Tasks
       /\ s.phase = "read" /\ "completed" \in {s.verdict.claimed, s.verdict.outcome} => Frozen(pl, s.task)

LogLicensed(g, l, pl, ok) ==
  /\ BoundDone(g, l.st) => Frozen(pl, l.st.bound)
  /\ Approved(g, l.st) => Licensed(pl, ok, l.st.bound)
  /\ \A n \in Gates(g) : l.st.nodes[n].seq <= l.seq

Licences ==
  /\ LogLicensed(graph, log, plan, ghost.approved)
  /\ \A p \in Runners : RunnerLicensed(graph, log, plan, ghost.approved, proc[p])
  /\ ParentLicensed(graph, log, plan, ghost.approved, proc[Parent])
  /\ proc[Parent].pc # "off" => \A p \in Runners : proc[p].pc = "off"
  /\ \A s \in subs : SubLicensed(graph, plan, ghost.approved, s)
  /\ ghost.landed \subseteq ghost.approved
-----------------------------------------------------------------------------
(* Recursive functions.                                                    *)
LEMMA LeastNumber ==
  ASSUME NEW T, T \subseteq Nat, T # {}
  PROVE  \E x \in T : \A y \in T : x <= y
<1>1. IsWellFoundedOn(OpToRel(<, Nat), Nat)
  BY NatLessThanWellFounded
<1>2. PICK x \in T : \A y \in T : ~ (<<y, x>> \in OpToRel(<, Nat))
  BY <1>1, WFMin
<1>3. \A y \in T : ~ (y < x)
  BY <1>2 DEF OpToRel
<1> QED BY <1>3

\* Induction, over a set of numbers.
LEMMA NumbersFrom0 ==
  ASSUME NEW T, T \subseteq Nat, 0 \in T, \A k \in Nat : k \in T => k + 1 \in T
  PROVE  T = Nat
<1> SUFFICES ASSUME NEW z \in Nat, z \notin T PROVE FALSE
  OBVIOUS
<1>0. Nat \ T # {} /\ Nat \ T \subseteq Nat
  OBVIOUS
<1>1. PICK x \in Nat \ T : \A y \in Nat \ T : x <= y
  BY <1>0, LeastNumber
<1>2. x # 0 /\ x - 1 \in Nat
  BY <1>1
<1>3. x - 1 \in T
  BY <1>1, <1>2
<1> QED BY <1>1, <1>2, <1>3

\* A step that stays in S can be repeated.
Recurs(f, a, step) == f[0] = a /\ \A k \in Nat \ {0} : f[k] = step[<<k, f[k - 1]>>]

LEMMA Iterates ==
  ASSUME NEW S, NEW a \in S, NEW step \in [Nat \X S -> S]
  PROVE  \E f \in [Nat -> S] : Recurs(f, a, step)
<1> DEFINE Upto(n, f) == f[0] = a /\ \A k \in 1 .. n : f[k] = step[<<k, f[k - 1]>>]
           T == {n \in Nat : \E f \in [0 .. n -> S] : Upto(n, f)}
<1>1. 0 \in T
  <2>1. [k \in 0 .. 0 |-> a] \in [0 .. 0 -> S] /\ Upto(0, [k \in 0 .. 0 |-> a])
    OBVIOUS
  <2> QED BY <2>1
<1>2. ASSUME NEW n \in Nat, n \in T PROVE n + 1 \in T
  <2>1. PICK f \in [0 .. n -> S] : Upto(n, f)
    BY <1>2
  <2> DEFINE h == [k \in 0 .. n + 1 |-> IF k = n + 1 THEN step[<<n + 1, f[n]>>] ELSE f[k]]
  <2>2. h \in [0 .. n + 1 -> S]
    OBVIOUS
  <2>3. ASSUME NEW k \in 1 .. n + 1 PROVE h[k] = step[<<k, h[k - 1]>>]
    <3>1. CASE k = n + 1
      <4>1. k \in 0 .. n + 1 /\ n \in 0 .. n + 1 /\ n # n + 1 /\ k - 1 = n
        BY <3>1
      <4>2. h[k] = step[<<n + 1, f[n]>>] /\ h[n] = f[n]
        BY <3>1, <4>1
      <4> QED BY <3>1, <4>1, <4>2
    <3>2. CASE k # n + 1
      <4>1. k \in 1 .. n /\ k \in 0 .. n /\ k - 1 \in 0 .. n
        BY <3>2
      <4>2. h[k] = f[k] /\ h[k - 1] = f[k - 1]
        BY <4>1
      <4> QED BY <2>1, <4>1, <4>2
    <3> QED BY <3>1, <3>2
  <2>4. h[0] = a
    BY <2>1
  <2> HIDE DEF h
  <2> QED BY <2>2, <2>3, <2>4
<1>3. T = Nat
  <2>1. T \subseteq Nat
    OBVIOUS
  <2> HIDE DEF T
  <2> QED BY <1>1, <1>2, <2>1, NumbersFrom0
<1> DEFINE G == [n \in Nat |-> CHOOSE f \in [0 .. n -> S] : Upto(n, f)]
<1>4. \A n \in Nat : G[n] \in [0 .. n -> S] /\ Upto(n, G[n])
  <2> TAKE n \in Nat
  <2>1. \E f \in [0 .. n -> S] : Upto(n, f)
    BY <1>3
  <2> HIDE DEF Upto
  <2> QED BY <2>1
<1> HIDE DEF G
\* Two of them agree as far as both go.
<1>5. ASSUME NEW m \in Nat PROVE \A k \in 0 .. m : G[m + 1][k] = G[m][k]
  <2> DEFINE A == {k \in Nat : k <= m => G[m + 1][k] = G[m][k]}
  <2>0. m + 1 \in Nat
    OBVIOUS
  <2>u. Upto(m, G[m]) /\ Upto(m + 1, G[m + 1])
    BY <1>4, <2>0
  <2>1. 0 \in A
    BY <2>u
  <2>2. ASSUME NEW k \in Nat, k \in A PROVE k + 1 \in A
    <3> SUFFICES ASSUME k + 1 <= m PROVE G[m + 1][k + 1] = G[m][k + 1]
      OBVIOUS
    <3>1. k + 1 \in 1 .. m /\ k + 1 \in 1 .. m + 1 /\ k + 1 - 1 = k
      OBVIOUS
    <3>2. G[m + 1][k] = G[m][k]
      BY <2>2, <3>1
    <3>3. G[m][k + 1] = step[<<k + 1, G[m][k]>>]
      BY <2>u, <3>1
    <3>4. G[m + 1][k + 1] = step[<<k + 1, G[m + 1][k]>>]
      BY <2>u, <3>1
    <3> QED BY <3>2, <3>3, <3>4
  <2>3. A \subseteq Nat
    OBVIOUS
  <2> HIDE DEF A
  <2>4. A = Nat
    BY <2>1, <2>2, <2>3, NumbersFrom0
  <2> QED BY <2>4 DEF A
<1> DEFINE F == [n \in Nat |-> G[n][n]]
<1>6. F \in [Nat -> S]
  <2>1. \A n \in Nat : n \in 0 .. n
    OBVIOUS
  <2> QED BY <1>4, <2>1
<1>7. ASSUME NEW k \in Nat PROVE F[k] = IF k = 0 THEN a ELSE step[<<k, F[k - 1]>>]
  <2>1. CASE k = 0
    BY <1>4, <2>1
  <2>2. CASE k # 0
    <3>1. k - 1 \in Nat /\ k - 1 + 1 = k /\ k \in 1 .. k /\ k - 1 \in 0 .. k - 1
      BY <2>2
    <3>2. F[k] = step[<<k, G[k][k - 1]>>]
      BY <1>4, <3>1
    <3>3. G[k][k - 1] = G[k - 1][k - 1]
      BY <1>5, <3>1
    <3>4. F[k - 1] = G[k - 1][k - 1]
      BY <3>1
    <3> HIDE DEF F
    <3> QED BY <2>2, <3>2, <3>3, <3>4
  <2> QED BY <2>1, <2>2
<1> HIDE DEF F
<1>8. Recurs(F, a, step)
  BY <1>7 DEF Recurs
<1> QED BY <1>6, <1>8

-----------------------------------------------------------------------------
(* The walk.                                                               *)
LEMMA Prepend ==
  ASSUME NEW S, NEW s \in Seq(S), NEW x \in S
  PROVE  /\ <<x>> \o s \in Seq(S)
         /\ \A i \in DOMAIN (<<x>> \o s) :
              (<<x>> \o s)[i] = x \/ \E j \in DOMAIN s : (<<x>> \o s)[i] = s[j]
<1> DEFINE t == <<x>> \o s
<1>1. t \in Seq(S) /\ Len(t) = Len(s) + 1 /\ DOMAIN t = 1 .. Len(t) /\ DOMAIN s = 1 .. Len(s)
      /\ t[1] = x /\ \A i \in 2 .. Len(t) : t[i] = s[i - 1]
  OBVIOUS
<1>2. \A i \in DOMAIN t : i = 1 \/ (i \in 2 .. Len(t) /\ i - 1 \in DOMAIN s)
  BY <1>1
<1> HIDE DEF t
<1>3. \A i \in DOMAIN t : t[i] = x \/ \E j \in DOMAIN s : t[i] = s[j]
  BY <1>1, <1>2
<1> QED BY <1>1, <1>3 DEF t

LEMMA Behead ==
  ASSUME NEW S, NEW s \in Seq(S), s # <<>>
  PROVE  /\ Tail(s) \in Seq(S) /\ 1 \in DOMAIN s /\ Len(s) \in Nat \ {0} /\ DOMAIN s = 1 .. Len(s)
         /\ Len(Tail(s)) = Len(s) - 1 /\ DOMAIN Tail(s) = 1 .. Len(s) - 1
         /\ \A i \in DOMAIN Tail(s) : i + 1 \in DOMAIN s /\ Tail(s)[i] = s[i + 1]
OBVIOUS

LEMMA Appends1 ==
  ASSUME NEW S, NEW s \in Seq(S), NEW x \in S
  PROVE  /\ Append(s, x) \in Seq(S)
         /\ \A i \in DOMAIN Append(s, x) :
              Append(s, x)[i] = x \/ (i \in DOMAIN s /\ Append(s, x)[i] = s[i])
<1> DEFINE t == Append(s, x)
<1>1. t \in Seq(S) /\ Len(t) = Len(s) + 1 /\ DOMAIN t = 1 .. Len(t) /\ DOMAIN s = 1 .. Len(s)
      /\ t[Len(s) + 1] = x /\ \A i \in 1 .. Len(s) : t[i] = s[i]
  OBVIOUS
<1>2. \A i \in DOMAIN t : i = Len(s) + 1 \/ i \in DOMAIN s
  BY <1>1
<1> HIDE DEF t
<1>3. \A i \in DOMAIN t : t[i] = x \/ (i \in DOMAIN s /\ t[i] = s[i])
  BY <1>1, <1>2
<1> QED BY <1>1, <1>3 DEF t

\* The fields of an edge.
LEMMA EdgeTyped ==
  ASSUME NEW g, IsGraph(g), NEW i \in DOMAIN g.edges
  PROVE  /\ g.edges[i].src \in DOMAIN g.nodes /\ g.edges[i].dst \in DOMAIN g.nodes
         /\ g.edges[i].outs \subseteq Outcomes /\ g.edges[i].kind \in {"normal", "repeat"}
         /\ <<g.edges[i].src, g.edges[i].dst>> \in EdgePairs(g)
         /\ i \in Nat
<1> DEFINE Edges == [src : DOMAIN g.nodes, dst : DOMAIN g.nodes, outs : SUBSET Outcomes,
                     kind : {"normal", "repeat"}]
<1>0. g.edges \in Seq(Edges)
  BY DEF IsGraph
<1> HIDE DEF Edges
<1>1. g.edges[i] \in Edges
  BY <1>0
<1>2. i \in Nat
  BY <1>0
<1>3. <<g.edges[i].src, g.edges[i].dst>> \in EdgePairs(g)
  BY DEF EdgePairs
<1> QED BY <1>1, <1>2, <1>3 DEF Edges

\* What a state says that a node has come to, and what the walk may make of it.
Idle(st, n) == st.nodes[n].status # "active"
Told(g, st, n, o) ==
  \/ Finished(st, n) /\ o \in {st.nodes[n].outcome, st.nodes[n].claimed, "unverified"}
  \/ st.nodes[n].status = "pending" /\ g.nodes[n].kind = "router" /\ o = "completed"

\* The nodes that the entry leads to past nodes that are not active.
Closed(g, st, S) ==
  g.entry \in S /\ \A i \in DOMAIN g.edges :
    g.edges[i].src \in S /\ Idle(st, g.edges[i].src) => g.edges[i].dst \in S
Reached(g, st) == {n \in DOMAIN g.nodes : \A S \in SUBSET (DOMAIN g.nodes) : Closed(g, st, S) => n \in S}

\* A node that the walk expands, an edge that it follows, a node it finds due.
Entered(g, st, n) ==
  /\ n \in Reached(g, st)
  /\ Guarded(g) => /\ IsGate(g, n) /\ Finished(st, n) => Since(g, st, n)
                   /\ Lands(g, n) => Approved(g, st)
Followed(g, st, i) ==
  LET n == g.edges[i].src IN
  /\ Idle(st, n) /\ n \in Reached(g, st)
  /\ \E o \in g.edges[i].outs : Told(g, st, n, o)
  /\ Guarded(g) => (IsGate(g, n) => Since(g, st, n)) /\ (Lands(g, n) => Approved(g, st))
Candidate(g, st, n) ==
  /\ ~IsGate(g, n)
  /\ Returns(g) => Idle(st, n)
  /\ Guarded(g) /\ Lands(g, n) => Approved(g, st)

Pending(g) == [edges : SUBSET (DOMAIN g.edges), path : SUBSET (DOMAIN g.nodes)]
WalkTypes(g) ==
  [frontier : [Kinds -> Seq(DOMAIN g.nodes)], repeats : Budgets(g),
   settled : [DOMAIN g.nodes -> Results], todo : Seq(Pending(g))]

PendingSound(g, st, i) ==
  /\ i.edges # {} /\ \A e \in i.edges : Followed(g, st, e)
  /\ \A n \in i.path : Idle(st, n)
Walks(g, st) ==
  {w \in WalkTypes(g) :
     /\ \A i \in DOMAIN w.todo : PendingSound(g, st, w.todo[i])
     /\ \A n \in DOMAIN g.nodes : w.settled[n] = NoOutcome \/ Told(g, st, n, w.settled[n])
     /\ \A i \in DOMAIN w.frontier["candidate"] : Candidate(g, st, w.frontier["candidate"][i])}

LEMMA PushSound ==
  ASSUME NEW g, NEW st, NEW w \in Walks(g, st), NEW kind \in Kinds, NEW n \in DOMAIN g.nodes,
         kind = "candidate" => Candidate(g, st, n)
  PROVE  Push(w, kind, n) \in Walks(g, st)
<1> DEFINE old == w.frontier[kind]
           new == IF Contains(old, n) THEN old ELSE Append(old, n)
           v == [w EXCEPT !.frontier[kind] = new]
<1>1. w \in WalkTypes(g) /\ old \in Seq(DOMAIN g.nodes)
  BY DEF Walks, WalkTypes
<1>2. /\ new \in Seq(DOMAIN g.nodes)
      /\ \A i \in DOMAIN new : new[i] = n \/ (i \in DOMAIN old /\ new[i] = old[i])
  <2>1. /\ Append(old, n) \in Seq(DOMAIN g.nodes)
        /\ \A i \in DOMAIN Append(old, n) :
             Append(old, n)[i] = n \/ (i \in DOMAIN old /\ Append(old, n)[i] = old[i])
    <3> HIDE DEF old
    <3> QED BY <1>1, Appends1
  <2> QED BY <1>1, <2>1
<1> HIDE DEF new
<1>3. /\ v \in WalkTypes(g) /\ v.todo = w.todo /\ v.settled = w.settled
      /\ v.frontier = [w.frontier EXCEPT ![kind] = new]
  BY <1>1, <1>2 DEF WalkTypes
<1>4. ASSUME NEW i \in DOMAIN v.frontier["candidate"]
      PROVE  Candidate(g, st, v.frontier["candidate"][i])
  <2>1. CASE kind = "candidate"
    <3>1. v.frontier["candidate"] = new
      BY <1>1, <1>3, <2>1 DEF WalkTypes
    <3> QED BY <1>2, <2>1, <3>1 DEF Walks
  <2>2. CASE kind # "candidate"
    <3>1. v.frontier["candidate"] = w.frontier["candidate"]
      BY <1>1, <1>3, <2>2 DEF WalkTypes
    <3> QED BY <3>1 DEF Walks
  <2> QED BY <2>1, <2>2
<1>5. v = Push(w, kind, n)
  BY DEF Push, new
<1> HIDE DEF v
<1>6. v \in Walks(g, st)
  BY <1>3, <1>4 DEF Walks
<1> QED BY <1>5, <1>6

LEMMA DueSound ==
  ASSUME NEW g, NEW st, NEW w \in Walks(g, st), NEW n \in DOMAIN g.nodes,
         ~IsGate(g, n) => Candidate(g, st, n)
  PROVE  Due(g, n, w) \in Walks(g, st)
BY PushSound DEF Due, Kinds, IsGate

LEMMA SettleTold ==
  ASSUME NEW g, NEW st \in States(g), NEW proved, NEW path, NEW n \in DOMAIN g.nodes, Finished(st, n)
  PROVE  Told(g, st, n, Settle(g, st, proved, n, path)) /\ Settle(g, st, proved, n, path) \in Results
<1>1. st.nodes[n] \in NodeStates
  BY DEF States
<1>2. /\ Settle(g, st, proved, n, path) \in
           {Effective(n, st.nodes[n].claimed, proved), st.nodes[n].outcome}
      /\ Effective(n, st.nodes[n].claimed, proved) \in {st.nodes[n].claimed, "unverified"}
  BY DEF Settle, Effective
<1> QED BY <1>1, <1>2 DEF Told, NodeStates, Results, Outcomes

LEMMA FollowSound ==
  ASSUME NEW g, IsGraph(g), NEW st \in States(g), NEW w \in Walks(g, st), NEW n \in DOMAIN g.nodes,
         NEW path \in SUBSET (DOMAIN g.nodes), \A m \in path : Idle(st, m), Idle(st, n),
         Entered(g, st, n), NEW o \in Results, Told(g, st, n, o)
  PROVE  Follow(g, n, path, w, o) \in Walks(g, st)
<1> DEFINE settled == [w EXCEPT !.settled[n] = o]
           edges == Selected(g, n, o)
           item == [edges |-> edges, path |-> path \cup {n}]
           todo == <<item>> \o w.todo
           v == [settled EXCEPT !.todo = todo]
<1>1. w \in WalkTypes(g)
  BY DEF Walks
<1>2. /\ settled \in WalkTypes(g) /\ settled.todo = w.todo /\ settled.frontier = w.frontier
      /\ settled.settled = [w.settled EXCEPT ![n] = o]
  BY <1>1 DEF WalkTypes
<1> HIDE DEF settled
<1>3. \A m \in DOMAIN g.nodes :
        settled.settled[m] = NoOutcome \/ Told(g, st, m, settled.settled[m])
  <2> TAKE m \in DOMAIN g.nodes
  <2>1. w.settled \in [DOMAIN g.nodes -> Results]
    BY <1>1 DEF WalkTypes
  <2>2. CASE m = n
    BY <1>2, <2>1, <2>2
  <2>3. CASE m # n
    <3>1. settled.settled[m] = w.settled[m]
      BY <1>2, <2>1, <2>3
    <3> QED BY <3>1 DEF Walks
  <2> QED BY <2>2, <2>3
<1>4. settled \in Walks(g, st)
  BY <1>2, <1>3 DEF Walks
<1>5. CASE edges = {}
  <2>1. Push(settled, "blocked", n) \in Walks(g, st)
    BY <1>4, PushSound DEF Kinds
  <2> QED BY <1>5, <2>1 DEF Follow, settled
<1>6. CASE edges # {}
  <2>1. item \in Pending(g)
    BY DEF Pending, Selected
  <2>2. ASSUME NEW e \in edges PROVE Followed(g, st, e)
    <3>1. e \in DOMAIN g.edges /\ g.edges[e].src = n /\ o \in g.edges[e].outs
      BY DEF Selected
    <3>2. n \in Reached(g, st) /\ (Guarded(g) => (Lands(g, n) => Approved(g, st)))
      BY DEF Entered
    <3>3. IsGate(g, n) => Finished(st, n)
      BY DEF Told, IsGate
    <3>4. Guarded(g) => (IsGate(g, n) => Since(g, st, n))
      BY <3>3 DEF Entered
    <3> QED BY <3>1, <3>2, <3>4 DEF Followed
  <2>3. PendingSound(g, st, item)
    <3>1. \A m \in path \cup {n} : Idle(st, m)
      OBVIOUS
    <3> HIDE DEF edges
    <3> QED BY <1>6, <2>2, <3>1 DEF PendingSound
  <2> HIDE DEF item
  <2>4. w.todo \in Seq(Pending(g))
    BY <1>1 DEF WalkTypes
  <2>5. /\ todo \in Seq(Pending(g))
        /\ \A i \in DOMAIN todo : todo[i] = item \/ \E j \in DOMAIN w.todo : todo[i] = w.todo[j]
    BY <2>1, <2>4, Prepend
  <2> HIDE DEF todo
  <2>6. /\ v \in WalkTypes(g) /\ v.todo = todo /\ v.frontier = w.frontier
        /\ v.settled = settled.settled
    BY <1>2, <2>5 DEF WalkTypes
  <2> HIDE DEF v
  <2>7. \A i \in DOMAIN v.todo : PendingSound(g, st, v.todo[i])
    BY <2>3, <2>5, <2>6 DEF Walks
  <2>8. v \in Walks(g, st)
    BY <1>3, <2>6, <2>7 DEF Walks
  <2> QED BY <1>6, <2>8 DEF Follow, v, todo, item, settled
<1> QED BY <1>5, <1>6

LEMMA ExpandSound ==
  ASSUME NEW g, IsGraph(g), NEW st \in States(g), NEW proved, NEW w \in Walks(g, st),
         NEW n \in DOMAIN g.nodes, NEW path \in SUBSET (DOMAIN g.nodes), \A m \in path : Idle(st, m),
         Entered(g, st, n)
  PROVE  Expand(g, st, proved, n, path, w) \in Walks(g, st)
<1> DEFINE s == st.nodes[n]
<1>1. s \in NodeStates /\ g.nodes[n].kind \in NodeKinds
  BY DEF States, IsGraph
<1>2. ASSUME NEW kind \in Kinds, kind # "candidate" PROVE Push(w, kind, n) \in Walks(g, st)
  BY <1>2, PushSound
<1>3. s.status \in {"pending", "active", "finished"}
  BY <1>1 DEF NodeStates
<1>4. CASE n \in path
  BY <1>2, <1>4 DEF Expand, Kinds
<1>5. CASE n \notin path /\ ~JoinReady(g, st, n, w.settled)
  BY <1>2, <1>5 DEF Expand, Kinds
<1>6. CASE n \notin path /\ JoinReady(g, st, n, w.settled)
  <2>1. CASE s.status = "active"
    BY <1>2, <1>6, <2>1 DEF Expand, Kinds
  <2>2. CASE s.status = "finished"
    <3> DEFINE o == IF w.settled[n] = NoOutcome THEN Settle(g, st, proved, n, path) ELSE w.settled[n]
    <3>1. Finished(st, n) /\ Idle(st, n)
      BY <2>2 DEF Finished, Idle
    <3>2. o \in Results /\ Told(g, st, n, o)
      BY <3>1, SettleTold DEF Walks, WalkTypes
    <3>3. Follow(g, n, path, w, o) \in Walks(g, st)
      <4> HIDE DEF o
      <4> QED BY <3>1, <3>2, FollowSound
    <3>4. Expand(g, st, proved, n, path, w) = Follow(g, n, path, w, o)
      BY <1>6, <2>2 DEF Expand
    <3> QED BY <3>3, <3>4
  <2>3. CASE s.status = "pending"
    <3>1. Idle(st, n)
      BY <2>3 DEF Idle
    <3>2. CASE g.nodes[n].kind = "router"
      <4>1. Follow(g, n, path, w, "completed") \in Walks(g, st)
        BY <2>3, <3>1, <3>2, FollowSound DEF Told, Results, Outcomes
      <4> QED BY <1>6, <2>3, <3>2, <4>1 DEF Expand
    <3>3. CASE g.nodes[n].kind = "terminal"
      BY <1>2, <1>6, <2>3, <3>3 DEF Expand, Kinds
    <3>4. CASE g.nodes[n].kind = "gate"
      BY <1>2, <1>6, <2>3, <3>4 DEF Expand, Kinds
    <3>5. CASE g.nodes[n].kind \in {"agent", "tool"}
      <4>1. Candidate(g, st, n)
        BY <3>1, <3>5 DEF Candidate, Entered, IsGate
      <4>2. Push(w, "candidate", n) \in Walks(g, st)
        BY <4>1, PushSound DEF Kinds
      <4> QED BY <1>2, <1>6, <2>3, <3>5, <4>2 DEF Expand, Kinds
    <3> QED BY <1>1, <3>2, <3>3, <3>4, <3>5 DEF NodeKinds
  <2> QED BY <1>3, <2>1, <2>2, <2>3
<1> QED BY <1>4, <1>5, <1>6

\* What lies behind an edge that the walk follows.
LEMMA BehindReached ==
  ASSUME NEW g, IsGraph(g), NEW st \in States(g), NEW i \in DOMAIN g.edges, Followed(g, st, i)
  PROVE  g.edges[i].dst \in Reached(g, st)
<1>1. g.edges[i].src \in DOMAIN g.nodes /\ g.edges[i].dst \in DOMAIN g.nodes
  BY EdgeTyped
<1>2. ASSUME NEW S \in SUBSET (DOMAIN g.nodes), Closed(g, st, S) PROVE g.edges[i].dst \in S
  <2>1. g.edges[i].src \in S /\ Idle(st, g.edges[i].src)
    BY <1>2 DEF Followed, Reached
  <2> QED BY <1>2, <2>1 DEF Closed
<1> QED BY <1>1, <1>2 DEF Reached

\* A repeat goes back to a node that the walk has passed.
LEMMA BehindIdle ==
  ASSUME NEW g, IsGraph(g), NEW st \in States(g), NEW i \in DOMAIN g.edges, Followed(g, st, i),
         g.edges[i].kind = "repeat", Returns(g)
  PROVE  Idle(st, g.edges[i].dst)
<1> DEFINE n == g.edges[i].src
           t == g.edges[i].dst
<1>1. Idle(st, n) /\ n \in Reached(g, st)
  BY DEF Followed
<1>2. CASE n = t
  BY <1>1, <1>2
<1>3. CASE n # t
  <2>1. PICK S \in SUBSET (DOMAIN g.nodes) :
          /\ g.entry \in S /\ n \notin S
          /\ \A j \in DOMAIN g.edges : g.edges[j].src \in S \ {t} => g.edges[j].dst \in S
    BY <1>3 DEF Returns
  <2>2. ~Closed(g, st, S)
    BY <1>1, <2>1 DEF Reached
  <2>3. PICK j \in DOMAIN g.edges : /\ g.edges[j].src \in S /\ Idle(st, g.edges[j].src)
                                   /\ g.edges[j].dst \notin S
    BY <2>1, <2>2 DEF Closed
  <2>4. g.edges[j].src = t
    BY <2>1, <2>3
  <2> QED BY <2>3, <2>4
<1> QED BY <1>2, <1>3

\* A landing behind an edge that the walk follows is approved.
LEMMA BehindApproved ==
  ASSUME NEW g, IsGraph(g), NEW st \in States(g), NEW i \in DOMAIN g.edges, Followed(g, st, i),
         Guarded(g), Lands(g, g.edges[i].dst)
  PROVE  Approved(g, st)
<1> DEFINE n == g.edges[i].src
           t == g.edges[i].dst
<1>1. n \in DOMAIN g.nodes /\ t \in DOMAIN g.nodes
  BY EdgeTyped
<1>2. n = t \/ (IsGate(g, n) /\ g.edges[i].outs = {"approved"})
  BY DEF Guarded
<1>3. CASE n = t
  BY <1>3 DEF Followed
<1>4. CASE IsGate(g, n) /\ g.edges[i].outs = {"approved"}
  <2>1. Since(g, st, n) /\ Told(g, st, n, "approved")
    BY <1>4 DEF Followed
  <2>2. Finishes(st, n, "approved")
    BY <1>4, <2>1 DEF Told, Finishes, IsGate
  <2> QED BY <1>1, <1>4, <2>1, <2>2 DEF Approved, Gates
<1> QED BY <1>2, <1>3, <1>4

\* So is a gate: its decision came after the work that leads to it, unless the walk
\* stops short of it.
LEMMA BehindSince ==
  ASSUME NEW g, IsGraph(g), NEW st \in States(g), NEW i \in DOMAIN g.edges, Followed(g, st, i),
         Guarded(g), IsGate(g, g.edges[i].dst), Finished(st, g.edges[i].dst),
         ~Stale(st, g.edges[i].src, g.edges[i].dst)
  PROVE  Since(g, st, g.edges[i].dst)
<1> DEFINE n == g.edges[i].src
           t == g.edges[i].dst
<1>1. n \in DOMAIN g.nodes /\ t \in DOMAIN g.nodes
  BY EdgeTyped
<1>2. g.nodes[n].binds /\ g.edges[i].outs = {"completed"}
  BY DEF Guarded
<1>3. g.nodes[n].kind = "agent"
  BY <1>1, <1>2 DEF Guarded
<1>4. Told(g, st, n, "completed")
  BY <1>2 DEF Followed
<1>5. Finishes(st, n, "completed")
  BY <1>3, <1>4 DEF Told, Finishes
<1>6. st.nodes[n].seq \in Nat /\ st.nodes[t].seq \in Nat
  BY <1>1 DEF States, NodeStates
<1>7. st.nodes[t].seq >= st.nodes[n].seq
  BY <1>6 DEF Stale
<1> QED BY <1>1, <1>2, <1>5, <1>7 DEF Since

LEMMA SpentSound ==
  ASSUME NEW g, IsGraph(g), NEW st, NEW w \in Walks(g, st), NEW n \in DOMAIN g.nodes,
         NEW pair \in EdgePairs(g), ~IsGate(g, n) => Candidate(g, st, n)
  PROVE  Spent(g, pair, n, w) \in Walks(g, st)
<1> DEFINE v == [w EXCEPT !.repeats[pair] = @ + 1]
<1>1. w \in WalkTypes(g) /\ w.repeats \in Budgets(g)
  BY DEF Walks, WalkTypes
<1>2. [w.repeats EXCEPT ![pair] = @ + 1] \in Budgets(g)
  BY <1>1 DEF Budgets
<1>3. /\ v \in WalkTypes(g) /\ v.todo = w.todo /\ v.settled = w.settled
      /\ v.frontier = w.frontier
  BY <1>1, <1>2 DEF WalkTypes
<1> HIDE DEF v
<1>4. v \in Walks(g, st)
  BY <1>3 DEF Walks
<1>5. Due(g, n, v) \in Walks(g, st)
  BY <1>4, DueSound
<1>6. Push(w, "exhausted", n) \in Walks(g, st)
  BY PushSound DEF Kinds
<1> QED BY <1>5, <1>6 DEF Spent, v

LEMMA AlongSound ==
  ASSUME NEW g, IsGraph(g), NEW st \in States(g), NEW proved, NEW w \in Walks(g, st),
         NEW i \in DOMAIN g.edges, Followed(g, st, i),
         NEW path \in SUBSET (DOMAIN g.nodes), \A m \in path : Idle(st, m)
  PROVE  Along(g, st, proved, g.edges[i], path, w) \in Walks(g, st)
<1> DEFINE n == g.edges[i].src
           t == g.edges[i].dst
           back == g.edges[i].kind = "repeat" \/ t \in path
<1>1. n \in DOMAIN g.nodes /\ t \in DOMAIN g.nodes /\ <<n, t>> \in EdgePairs(g)
  BY EdgeTyped
<1>2. t \in Reached(g, st)
  BY BehindReached
<1>3. Guarded(g) /\ Lands(g, t) => Approved(g, st)
  BY BehindApproved
<1>4. st.nodes[n].seq \in Nat /\ st.nodes[t].seq \in Nat
  BY <1>1 DEF States, NodeStates
<1>5. ~Stale(st, n, t) => Expand(g, st, proved, t, path, w) \in Walks(g, st)
  <2> HAVE ~Stale(st, n, t)
  <2>1. Guarded(g) /\ IsGate(g, t) /\ Finished(st, t) => Since(g, st, t)
    BY BehindSince
  <2>2. Entered(g, st, t)
    BY <1>2, <1>3, <2>1 DEF Entered
  <2> QED BY <1>1, <2>2, ExpandSound
<1>6. CASE Passed(st, n, t)
  <2>1. ~Stale(st, n, t)
    BY <1>4, <1>6 DEF Passed, Stale
  <2> QED BY <1>5, <1>6, <2>1 DEF Along
<1>7. CASE ~Passed(st, n, t) /\ back
  <2>1. Returns(g) => Idle(st, t)
    BY <1>7, BehindIdle
  <2>2. ~IsGate(g, t) => Candidate(g, st, t)
    BY <1>3, <2>1 DEF Candidate
  <2>3. Spent(g, <<n, t>>, t, w) \in Walks(g, st)
    BY <1>1, <2>2, SpentSound
  <2> QED BY <1>7, <2>3 DEF Along
<1>8. CASE ~Passed(st, n, t) /\ ~back /\ Stale(st, n, t)
  <2>1. Idle(st, t)
    BY <1>8 DEF Stale, Finished, Idle
  <2>2. ~IsGate(g, t) => Candidate(g, st, t)
    BY <1>3, <2>1 DEF Candidate
  <2>3. Due(g, t, w) \in Walks(g, st)
    BY <1>1, <2>2, DueSound
  <2> QED BY <1>8, <2>3 DEF Along
<1>9. CASE ~Passed(st, n, t) /\ ~back /\ ~Stale(st, n, t)
  BY <1>5, <1>9 DEF Along
<1> QED BY <1>6, <1>7, <1>8, <1>9

LEMMA AdvanceSound ==
  ASSUME NEW g, IsGraph(g), NEW st \in States(g), NEW proved, NEW w \in Walks(g, st)
  PROVE  Advance(g, st, proved, w) \in Walks(g, st)
<1>1. CASE w.todo = <<>>
  BY <1>1 DEF Advance
<1>2. CASE w.todo # <<>>
  <2> DEFINE top == w.todo[1]
             i == Min(top.edges)
             rest == IF top.edges = {i} THEN Tail(w.todo)
                     ELSE [w.todo EXCEPT ![1].edges = @ \ {i}]
             v == [w EXCEPT !.todo = rest]
  <2>1. w \in WalkTypes(g) /\ w.todo \in Seq(Pending(g))
    BY DEF Walks, WalkTypes
  <2>2. /\ Tail(w.todo) \in Seq(Pending(g)) /\ 1 \in DOMAIN w.todo
        /\ \A k \in DOMAIN Tail(w.todo) : k + 1 \in DOMAIN w.todo /\ Tail(w.todo)[k] = w.todo[k + 1]
    BY <1>2, <2>1, Behead
  <2>3. top \in Pending(g) /\ PendingSound(g, st, top)
    BY <2>1, <2>2 DEF Walks
  <2>4. /\ top.edges # {} /\ top.edges \subseteq DOMAIN g.edges /\ top.path \in SUBSET (DOMAIN g.nodes)
        /\ \A m \in top.path : Idle(st, m)
    BY <2>3 DEF Pending, PendingSound
  <2>5. i \in top.edges
    <3>1. top.edges \subseteq Nat
      BY <2>4, EdgeTyped
    <3> HIDE DEF top
    <3>2. \E x \in top.edges : \A y \in top.edges : x <= y
      BY <2>4, <3>1, LeastNumber
    <3> QED BY <3>2 DEF Min
  <2> HIDE DEF i
  <2>6. Followed(g, st, i)
    BY <2>3, <2>5 DEF PendingSound
  <2>7. /\ rest \in Seq(Pending(g))
        /\ \A k \in DOMAIN rest : PendingSound(g, st, rest[k])
    <3>1. CASE top.edges = {i}
      <4>1. rest = Tail(w.todo)
        BY <3>1
      <4>2. \A k \in DOMAIN w.todo : PendingSound(g, st, w.todo[k])
        BY DEF Walks
      <4> HIDE DEF rest, top, v
      <4> QED BY <2>2, <4>1, <4>2
    <3>2. CASE top.edges # {i}
      <4> DEFINE less == [top EXCEPT !.edges = @ \ {i}]
      <4>1. less \in Pending(g) /\ less.edges = top.edges \ {i} /\ less.path = top.path
        BY <2>3 DEF Pending
      <4>2. PendingSound(g, st, less)
        <5>1. top.edges \ {i} # {}
          BY <2>5, <3>2
        <5> HIDE DEF less
        <5> QED BY <2>3, <4>1, <5>1 DEF PendingSound
      <4>3. rest = [w.todo EXCEPT ![1] = less]
        BY <3>2
      <4> HIDE DEF less, rest, top
      <4>4. rest \in Seq(Pending(g)) /\ DOMAIN rest = DOMAIN w.todo
            /\ \A k \in DOMAIN rest : rest[k] = IF k = 1 THEN less ELSE w.todo[k]
        BY <2>1, <2>2, <4>1, <4>3
      <4> QED BY <4>2, <4>4 DEF Walks
    <3> QED BY <3>1, <3>2
  <2> HIDE DEF rest
  <2>8. /\ v \in WalkTypes(g) /\ v.todo = rest /\ v.settled = w.settled /\ v.frontier = w.frontier
    BY <2>1, <2>7 DEF WalkTypes
  <2> HIDE DEF v
  <2>9. v \in Walks(g, st)
    BY <2>7, <2>8 DEF Walks
  <2>10. Along(g, st, proved, g.edges[i], top.path, v) \in Walks(g, st)
    BY <2>4, <2>5, <2>6, <2>9, AlongSound
  <2> QED BY <1>2, <2>10 DEF Advance, v, rest, i
<1> QED BY <1>1, <1>2

LEMMA SetoutSound ==
  ASSUME NEW g, IsGraph(g), NEW st \in States(g), NEW proved
  PROVE  Expand(g, st, proved, g.entry, {}, Setout(g, st)) \in Walks(g, st)
<1> DEFINE w == Setout(g, st)
<1>1. st.repeats \in Budgets(g)
  BY DEF States
<1>2. /\ w \in WalkTypes(g) /\ w.todo = <<>> /\ w.frontier["candidate"] = <<>>
      /\ \A n \in DOMAIN g.nodes : w.settled[n] = NoOutcome
  BY <1>1 DEF Setout, WalkTypes, Kinds, Results
<1> HIDE DEF w
<1>3. w \in Walks(g, st)
  BY <1>2 DEF Walks
<1>4. g.entry \in DOMAIN g.nodes
  BY DEF IsGraph
<1>5. g.entry \in Reached(g, st)
  BY <1>4 DEF Reached, Closed
<1>6. Entered(g, st, g.entry)
  BY <1>5 DEF Entered, Guarded
<1> QED BY <1>3, <1>4, <1>6, ExpandSound DEF w

\* What holds at the start of a walk and of every edge, holds of its end.
LEMMA WalkWithin ==
  ASSUME NEW g, NEW st, NEW proved, NEW S, Expand(g, st, proved, g.entry, {}, Setout(g, st)) \in S,
         \A w \in S : Advance(g, st, proved, w) \in S
  PROVE  Walk(g, st, proved) \in S
<1> DEFINE a == Expand(g, st, proved, g.entry, {}, Setout(g, st))
           step == [x \in Nat \X S |-> Advance(g, st, proved, x[2])]
           Equation(f) == f = [k \in Nat |-> IF k = 0 THEN a ELSE Advance(g, st, proved, f[k - 1])]
           After == CHOOSE f : Equation(f)
<1>1. a \in S
  OBVIOUS
<1>2. step \in [Nat \X S -> S]
  OBVIOUS
<1>3. \A k \in Nat, x \in S : step[<<k, x>>] = Advance(g, st, proved, x)
  OBVIOUS
<1> HIDE DEF a, step
<1>4. PICK f \in [Nat -> S] : Recurs(f, a, step)
  BY <1>1, <1>2, Iterates
<1>5. Equation(f)
  <2>1. ASSUME NEW k \in Nat PROVE f[k] = IF k = 0 THEN a ELSE Advance(g, st, proved, f[k - 1])
    <3>1. CASE k = 0
      BY <1>4, <3>1 DEF Recurs
    <3>2. CASE k # 0
      <4>1. k - 1 \in Nat /\ f[k - 1] \in S
        BY <1>4, <3>2
      <4>2. f[k] = step[<<k, f[k - 1]>>]
        BY <1>4, <3>2 DEF Recurs
      <4> QED BY <1>3, <3>2, <4>1, <4>2
    <3> QED BY <3>1, <3>2
  <2>2. f = [k \in Nat |-> f[k]]
    BY <1>4
  <2> QED BY <2>1, <2>2
<1> HIDE DEF Equation
<1>6. Equation(After)
  BY <1>5
<1> HIDE DEF After
<1> DEFINE T == {k \in Nat : After[k] \in S}
<1>7. 0 \in T
  BY <1>1, <1>6 DEF Equation
<1>8. ASSUME NEW k \in Nat, k \in T PROVE k + 1 \in T
  <2>1. k + 1 \in Nat /\ k + 1 # 0 /\ k + 1 - 1 = k
    OBVIOUS
  <2>2. After[k + 1] = Advance(g, st, proved, After[k])
    BY <1>6, <2>1 DEF Equation
  <2>3. After[k] \in S
    BY <1>8
  <2>4. Advance(g, st, proved, After[k]) \in S
    BY <2>3
  <2> QED BY <2>1, <2>2, <2>4
<1>9. T \subseteq Nat
  OBVIOUS
<1>10. T = Nat
  <2> HIDE DEF T
  <2> QED BY <1>7, <1>8, <1>9, NumbersFrom0
<1>11. After[MaxWalk] \in S
  BY <1>10, WalkAssumption
<1>12. Walk(g, st, proved) = After[MaxWalk]
  BY DEF Walk, After, Equation, a
<1> QED BY <1>11, <1>12

LEMMA WalkIsSound ==
  ASSUME NEW g, IsGraph(g), NEW st \in States(g), NEW proved
  PROVE  Walk(g, st, proved) \in Walks(g, st)
BY SetoutSound, AdvanceSound, WalkWithin

\* What a verdict names may start.
LEMMA EvaluateSound ==
  ASSUME NEW g, IsGraph(g), NEW st \in States(g), NEW proved
  PROVE  LET v == Evaluate(g, st, proved) IN
         /\ v.repeats \in Budgets(g)
         /\ v.status = "actionable" =>
              /\ v.nodes \in Seq(Workers(g))
              /\ \A i \in DOMAIN v.nodes : Candidate(g, st, v.nodes[i])
<1> DEFINE walk == Walk(g, st, proved)
           nodes == walk.frontier["candidate"]
           v == Evaluate(g, st, proved)
<1>1. walk \in Walks(g, st) /\ walk \in WalkTypes(g)
  BY WalkIsSound DEF Walks
<1>2. walk.repeats \in Budgets(g) /\ st.repeats \in Budgets(g)
  BY <1>1 DEF WalkTypes, States
<1>3. /\ v.repeats \in {walk.repeats, st.repeats}
      /\ v.status = "actionable" => v.nodes = nodes
  BY DEF Evaluate, Verdict
<1>4. nodes \in Seq(DOMAIN g.nodes) /\ \A i \in DOMAIN nodes : Candidate(g, st, nodes[i])
  BY <1>1 DEF Walks, WalkTypes, Kinds
<1> HIDE DEF nodes, walk, v
<1>5. \A i \in DOMAIN nodes : nodes[i] \in Workers(g)
  BY <1>4 DEF Workers, Gates, Candidate
<1>6. nodes \in Seq(Workers(g))
  <2>1. Len(nodes) \in Nat /\ DOMAIN nodes = 1 .. Len(nodes) /\ nodes = [i \in 1 .. Len(nodes) |-> nodes[i]]
    BY <1>4
  <2> QED BY <1>5, <2>1
<1> QED BY <1>2, <1>3, <1>4, <1>6 DEF v

-----------------------------------------------------------------------------
(* Sequences.                                                              *)
LEMMA SeqOfSet ==
  ASSUME NEW S, IsFiniteSet(S)
  PROVE  /\ SetToSeq(S) \in Seq(S) /\ Len(SetToSeq(S)) \in Nat
         /\ DOMAIN SetToSeq(S) = 1 .. Len(SetToSeq(S)) /\ IsInjective(SetToSeq(S))
<1>1. Cardinality(S) \in Nat /\ ExistsBijection(1 .. Cardinality(S), S)
  BY FS_CardinalityType
<1>2. PICK f \in Bijection(1 .. Cardinality(S), S) : TRUE
  BY <1>1 DEF ExistsBijection
<1>3. f \in [1 .. Cardinality(S) -> S] /\ IsInjective(f)
  BY <1>2 DEF Bijection, Injection, IsInjective
<1>4. SetToSeq(S) \in [1 .. Cardinality(S) -> S] /\ IsInjective(SetToSeq(S))
  BY <1>3 DEF SetToSeq
<1>5. SetToSeq(S) \in Seq(S)
  BY <1>1, <1>4
<1> QED BY <1>4, <1>5

\* A sequence of elements of S has only those of S.
LEMMA SeqInto ==
  ASSUME NEW S, NEW s \in Seq(S)
  PROVE  /\ Len(s) \in Nat /\ DOMAIN s = 1 .. Len(s) /\ \A i \in DOMAIN s : s[i] \in S
         /\ ToSet(s) \subseteq S /\ s \in Seq(ToSet(s)) /\ \A i \in DOMAIN s : s[i] \in ToSet(s)
<1>1. Len(s) \in Nat /\ DOMAIN s = 1 .. Len(s) /\ \A i \in DOMAIN s : s[i] \in S
  OBVIOUS
<1>2. \A i \in DOMAIN s : s[i] \in ToSet(s)
  BY DEF ToSet
<1>3. ToSet(s) \subseteq S
  BY <1>1 DEF ToSet
<1>4. s = [i \in 1 .. Len(s) |-> s[i]]
  BY <1>1
<1>5. s \in Seq(ToSet(s))
  BY <1>1, <1>2, <1>4
<1> QED BY <1>1, <1>2, <1>3, <1>5

LEMMA SeqMade ==
  ASSUME NEW S, NEW n \in Nat, NEW s, DOMAIN s = 1 .. n, s = [i \in 1 .. n |-> s[i]],
         \A i \in 1 .. n : s[i] \in S
  PROVE  s \in Seq(S) /\ Len(s) = n
OBVIOUS

LEMMA AppendApart ==
  ASSUME NEW X, NEW s \in Seq(X), IsInjective(s), NEW n \in X, n \notin ToSet(s)
  PROVE  IsInjective(Append(s, n)) /\ Append(s, n) \in Seq(X)
<1> DEFINE t == Append(s, n)
<1>1. /\ Len(s) \in Nat /\ DOMAIN s = 1 .. Len(s) /\ DOMAIN t = 1 .. Len(s) + 1 /\ t[Len(s) + 1] = n
      /\ \A i \in 1 .. Len(s) : t[i] = s[i]
  OBVIOUS
<1>2. \A i \in 1 .. Len(s) : s[i] # n
  BY <1>1 DEF ToSet
<1> HIDE DEF t
<1>3. ASSUME NEW i \in DOMAIN t, NEW j \in DOMAIN t, t[i] = t[j] PROVE i = j
  <2>1. CASE i \in 1 .. Len(s) /\ j \in 1 .. Len(s)
    BY <1>1, <1>3, <2>1 DEF IsInjective
  <2>2. CASE i = Len(s) + 1 \/ j = Len(s) + 1
    BY <1>1, <1>2, <1>3, <2>2
  <2> QED BY <1>1, <2>1, <2>2
<1> QED BY <1>3 DEF IsInjective, t

\* The scheduler chooses among the candidates, each at most once.
LEMMA EligibleChooses ==
  ASSUME NEW S, NEW candidates \in Seq(S), NEW task, NEW active, NEW held
  PROVE  LET order == Eligible(candidates, task, active, held) IN
         order \in Seq(ToSet(candidates)) /\ IsInjective(order)
<1> DEFINE X == ToSet(candidates)
           Y == {s \in Seq(X) : IsInjective(s)}
           len == Len(candidates)
           Chosen(k, s) == IF k > len \/ Deferred(ToSet(s), candidates[k], task, active, held)
                           THEN s ELSE Append(s, candidates[k])
           step == [x \in Nat \X Y |-> IF x[1] = 0 THEN x[2] ELSE Chosen(x[1], x[2])]
           Equation(f) == f = [i \in Nat |-> IF i = 0 THEN <<>>
                                 ELSE IF i > len \/ Deferred(ToSet(f[i - 1]), candidates[i], task, active, held)
                                 THEN f[i - 1] ELSE Append(f[i - 1], candidates[i])]
           Upto == CHOOSE f : Equation(f)
<1>1. len \in Nat /\ \A k \in 1 .. len : candidates[k] \in X
  BY SeqInto
<1>2. <<>> \in Y
  BY DEF IsInjective
<1> HIDE DEF X
<1>3. ASSUME NEW k \in Nat \ {0}, NEW s \in Y PROVE Chosen(k, s) \in Y
  <2>1. CASE k > len
    BY <2>1
  <2>2. CASE ~(k > len)
    <3>1. candidates[k] \in X
      BY <1>1, <2>2
    <3>2. CASE Deferred(ToSet(s), candidates[k], task, active, held)
      BY <3>2
    <3>3. CASE ~Deferred(ToSet(s), candidates[k], task, active, held)
      <4>1. candidates[k] \notin ToSet(s)
        BY <3>3 DEF Deferred
      <4>2. Append(s, candidates[k]) \in Y
        BY <3>1, <4>1, AppendApart
      <4> QED BY <2>2, <3>3, <4>2
    <3> QED BY <3>2, <3>3
  <2> QED BY <2>1, <2>2
<1> HIDE DEF Y, Chosen
<1>4. step \in [Nat \X Y -> Y]
  BY <1>3
<1>5. \A k \in Nat \ {0}, s \in Y : step[<<k, s>>] = Chosen(k, s)
  OBVIOUS
<1> HIDE DEF step
<1>6. PICK f \in [Nat -> Y] : Recurs(f, <<>>, step)
  BY <1>2, <1>4, Iterates
<1>7. Equation(f)
  <2>1. ASSUME NEW i \in Nat PROVE f[i] = IF i = 0 THEN <<>> ELSE Chosen(i, f[i - 1])
    <3>1. CASE i = 0
      BY <1>6, <3>1 DEF Recurs
    <3>2. CASE i # 0
      <4>1. i - 1 \in Nat /\ f[i - 1] \in Y
        BY <3>2
      <4>2. f[i] = step[<<i, f[i - 1]>>]
        BY <1>6, <3>2 DEF Recurs
      <4> QED BY <1>5, <3>2, <4>1, <4>2
    <3> QED BY <3>1, <3>2
  <2>2. f = [i \in Nat |-> f[i]]
    OBVIOUS
  <2> QED BY <2>1, <2>2 DEF Chosen
<1> HIDE DEF Equation
<1>8. Equation(Upto)
  BY <1>7
<1> HIDE DEF Upto
<1>8a. \A i \in Nat : Upto[i] = IF i = 0 THEN <<>> ELSE Chosen(i, Upto[i - 1])
  <2>1. Upto = [i \in Nat |-> IF i = 0 THEN <<>>
                  ELSE IF i > len \/ Deferred(ToSet(Upto[i - 1]), candidates[i], task, active, held)
                  THEN Upto[i - 1] ELSE Append(Upto[i - 1], candidates[i])]
    BY <1>8 DEF Equation
  <2>2. ASSUME NEW i \in Nat
        PROVE  Upto[i] = IF i = 0 THEN <<>>
                  ELSE IF i > len \/ Deferred(ToSet(Upto[i - 1]), candidates[i], task, active, held)
                  THEN Upto[i - 1] ELSE Append(Upto[i - 1], candidates[i])
    BY <2>1, Zenon
  <2> QED BY <2>2 DEF Chosen
<1> DEFINE T == {k \in Nat : Upto[k] \in Y}
<1>9. 0 \in T
  BY <1>2, <1>8a
<1>10. ASSUME NEW k \in Nat, k \in T PROVE k + 1 \in T
  <2>1. k + 1 \in Nat \ {0} /\ k + 1 - 1 = k
    OBVIOUS
  <2>2. Upto[k + 1] = Chosen(k + 1, Upto[k])
    BY <1>8a, <2>1
  <2>3. Upto[k] \in Y
    BY <1>10
  <2> QED BY <1>3, <2>1, <2>2, <2>3
<1>11. T \subseteq Nat
  OBVIOUS
<1>12. T = Nat
  <2> HIDE DEF T
  <2> QED BY <1>9, <1>10, <1>11, NumbersFrom0
<1>13. Upto[len] \in Y
  BY <1>1, <1>12
<1>14. Eligible(candidates, task, active, held) = Upto[len]
  BY DEF Eligible, Upto, Equation
<1> QED BY <1>13, <1>14 DEF X, Y

-----------------------------------------------------------------------------
(* Rows and their projection.                                              *)
LEMMA GraphTyped ==
  ASSUME graph \in Specs
  PROVE  /\ IsGraph(graph) /\ IsFiniteSet(DOMAIN graph.nodes)
         /\ \A n \in DOMAIN graph.nodes :
              /\ graph.nodes[n].task \in Tasks \cup {NoTask, "next", "bound"}
              /\ graph.nodes[n].decisions \subseteq Outcomes
              /\ graph.nodes[n].kind \in NodeKinds
         /\ DOMAIN graph.nodes = Workers(graph) \cup Gates(graph)
BY GraphAssumption DEF IsGraph, Workers, Gates

\* A row by its event.
Started(g, r) ==
  /\ r.event = "node_started" /\ r.node \in Workers(g) /\ r.attempt \in Nat \ {0}
  /\ r.task \in TaskNames /\ r.key = <<"start", r.node, r.attempt>>
Ended(g, r) ==
  /\ r.event = "node_outcome" /\ r.node \in Workers(g) /\ r.attempt \in Nat \ {0}
  /\ r.task \in TaskNames /\ r.key = <<"outcome", r.node, r.attempt>>
  /\ r.claimed \in Outcomes /\ r.outcome \in Outcomes
Gated1(g, r) ==
  /\ r.event = "gate_decision" /\ r.node \in Gates(g) /\ r.attempt \in Nat \ {0}
  /\ r.key = <<"gate", r.node, r.attempt>> /\ r.outcome \in Outcomes
Other1(g, r) ==
  \/ /\ r.event = "route_evaluated" /\ r.repeats \in Budgets(g)
     /\ \E k \in Nat : r.key = <<"route", k>>
  \/ r.event = "run_finished" /\ \E k \in Nat : r.key = <<"finish", k>>

LEMMA RowKinds ==
  ASSUME NEW g, NEW r \in Rows(g)
  PROVE  Started(g, r) \/ Ended(g, r) \/ Gated1(g, r) \/ Other1(g, r)
<1>1. CASE r \in StartRows(g)
  BY <1>1 DEF StartRows, StartRow, Started
<1>2. CASE r \in OutcomeRows(g)
  BY <1>2 DEF OutcomeRows, OutcomeRow, Ended
<1>3. CASE r \in GateRows(g)
  BY <1>3 DEF GateRows, GateRow, Gated1
<1>4. CASE r \in RouteRows(g)
  BY <1>4 DEF RouteRows, RouteRow, Other1
<1>5. CASE r \in FinishRows
  BY <1>5 DEF FinishRows, FinishRow, Other1
<1> QED BY <1>1, <1>2, <1>3, <1>4, <1>5 DEF Rows


\* What folding a row that names a node makes of it.
NodeFolded(old, new, r, seq) ==
  /\ new \in NodeStates
  /\ new.attempts = Max2(old.attempts, r.attempt) /\ new.seq = Max2(old.seq, seq)
  /\ r.event = "node_started" => new.status = "active"
  /\ r.event = "node_outcome" =>
       new.status = "finished" /\ new.outcome = r.outcome /\ new.claimed = r.claimed
  /\ r.event = "gate_decision" =>
       new.status = "finished" /\ new.outcome = r.outcome /\ new.claimed = r.outcome

Folded(st, to, r, seq) ==
  /\ to \in States(graph) /\ IsFiniteSet(to.tries)
  /\ NodeFolded(st.nodes[r.node], to.nodes[r.node], r, seq)
  /\ \A m \in DOMAIN graph.nodes : m # r.node => to.nodes[m] = st.nodes[m]
  /\ to.bound = IF r.event # "gate_decision" /\ Named(r, r.node) THEN r.task ELSE st.bound

LEMMA Max2Type ==
  ASSUME NEW a \in Nat, NEW b \in Nat
  PROVE  Max2(a, b) \in Nat /\ Max2(a, b) >= a /\ Max2(a, b) >= b /\ Max2(a, b) \in {a, b}
BY DEF Max2

LEMMA FoldsNode ==
  ASSUME NEW st \in States(graph), IsFiniteSet(st.tries), NEW seq \in Nat, NEW r,
         Started(graph, r) \/ Ended(graph, r) \/ Gated1(graph, r)
  PROVE  Folded(st, Project(st, r, seq), r, seq)
<1> DEFINE n == r.node
           old == st.nodes[n]
           base == [old EXCEPT !.attempts = Max2(@, r.attempt), !.seq = Max2(@, seq)]
           new == CASE r.event = "node_started" ->
                    [base EXCEPT !.status = "active", !.outcome = NoOutcome, !.claimed = NoOutcome,
                                 !.task = IF r.task = NoTask THEN @ ELSE r.task]
               [] r.event = "node_outcome" ->
                    [base EXCEPT !.status = "finished", !.outcome = r.outcome,
                                 !.claimed = r.claimed,
                                 !.task = IF r.task = NoTask THEN @ ELSE r.task]
               [] r.event = "gate_decision" ->
                    [base EXCEPT !.status = "finished", !.outcome = r.outcome,
                                 !.claimed = r.outcome]
           seen == st.tries \cup {<<n, r.attempt>>}
           bound == IF r.event # "gate_decision" /\ Named(r, n) THEN r.task ELSE st.bound
           to == [st EXCEPT !.nodes[n] = new, !.tries = seen, !.steps = Cardinality(seen), !.bound = bound]
<1>1. n \in DOMAIN graph.nodes /\ r.attempt \in Nat \ {0}
      /\ r.event \in {"node_started", "node_outcome", "gate_decision"}
      /\ (r.event # "gate_decision" => r.task \in TaskNames)
  BY DEF Started, Ended, Gated1, Workers, Gates
<1>2. Project(st, r, seq) = to
  <2>1. Project(st, r, seq) = ProjectNode(st, r, seq)
    BY <1>1 DEF Project
  <2>2. ProjectNode(st, r, seq) = to
    BY DEF ProjectNode
  <2> QED BY <2>1, <2>2
<1>3. /\ st.nodes \in [DOMAIN graph.nodes -> NodeStates] /\ st.bound \in TaskNames
      /\ st.tries \in SUBSET ((DOMAIN graph.nodes) \X Nat)
      /\ st = [nodes |-> st.nodes, steps |-> st.steps, tries |-> st.tries,
               repeats |-> st.repeats, bound |-> st.bound]
  BY DEF States
<1>4. old \in NodeStates
  BY <1>1, <1>3
<1>5. base \in NodeStates /\ base.attempts = Max2(old.attempts, r.attempt) /\ base.seq = Max2(old.seq, seq)
  BY <1>1, <1>4, Max2Type DEF NodeStates
<1> HIDE DEF old, base
<1>6. NodeFolded(old, new, r, seq)
  <2>1. CASE r.event = "node_started"
    BY <1>1, <1>5, <2>1 DEF NodeFolded, NodeStates, Results
  <2>2. CASE r.event = "node_outcome"
    <3>1. Ended(graph, r)
      BY <2>2 DEF Started, Ended, Gated1
    <3> QED BY <1>1, <1>5, <2>2, <3>1 DEF NodeFolded, NodeStates, Results, Ended
  <2>3. CASE r.event = "gate_decision"
    <3>1. Gated1(graph, r)
      BY <2>3 DEF Started, Ended, Gated1
    <3> QED BY <1>1, <1>5, <2>3, <3>1 DEF NodeFolded, NodeStates, Results, Gated1
  <2> QED BY <1>1, <2>1, <2>2, <2>3
<1>7. new \in NodeStates
  BY <1>6 DEF NodeFolded
<1> HIDE DEF new
<1>8. IsFiniteSet(seen) /\ Cardinality(seen) \in Nat
  BY FS_AddElement, FS_CardinalityType
<1>9. seen \in SUBSET ((DOMAIN graph.nodes) \X Nat)
  BY <1>1, <1>3
<1> HIDE DEF seen
<1>10. bound \in TaskNames
  BY <1>1, <1>3
<1> HIDE DEF bound
<1>11. to = [nodes |-> [st.nodes EXCEPT ![n] = new], steps |-> Cardinality(seen), tries |-> seen,
             repeats |-> st.repeats, bound |-> bound]
  <2> DEFINE s1 == [st EXCEPT !.nodes[n] = new]
             s2 == [s1 EXCEPT !.tries = seen]
             s3 == [s2 EXCEPT !.steps = Cardinality(seen)]
             s4 == [s3 EXCEPT !.bound = bound]
             nodes == [st.nodes EXCEPT ![n] = new]
  <2>1. s1 = [nodes |-> nodes, steps |-> st.steps, tries |-> st.tries, repeats |-> st.repeats, bound |-> st.bound]
    BY <1>3
  <2> HIDE DEF s1, nodes
  <2>2. s2 = [nodes |-> nodes, steps |-> st.steps, tries |-> seen, repeats |-> st.repeats, bound |-> st.bound]
    BY <2>1
  <2> HIDE DEF s2
  <2>3. s3 = [nodes |-> nodes, steps |-> Cardinality(seen), tries |-> seen, repeats |-> st.repeats, bound |-> st.bound]
    BY <2>2
  <2> HIDE DEF s3
  <2>4. s4 = [nodes |-> nodes, steps |-> Cardinality(seen), tries |-> seen, repeats |-> st.repeats, bound |-> bound]
    BY <2>3
  <2> HIDE DEF s4
  <2>5. s4 = to
    BY DEF s1, s2, s3, s4
  <2> QED BY <2>4, <2>5 DEF nodes
<1> HIDE DEF to
<1>12. /\ to.nodes = [st.nodes EXCEPT ![n] = new]
       /\ to.tries = seen /\ to.bound = bound
  BY <1>11
<1>13. to.nodes \in [DOMAIN graph.nodes -> NodeStates]
  BY <1>3, <1>7, <1>12
<1>14. to \in States(graph)
  BY <1>3, <1>8, <1>9, <1>10, <1>11, <1>12, <1>13 DEF States
<1>15. to.nodes[n] = new /\ \A m \in DOMAIN graph.nodes : m # n => to.nodes[m] = st.nodes[m]
  BY <1>1, <1>3, <1>12
<1> QED BY <1>2, <1>6, <1>8, <1>12, <1>14, <1>15 DEF Folded, bound, old

LEMMA FoldsOther ==
  ASSUME NEW st \in States(graph), IsFiniteSet(st.tries), NEW seq \in Nat, NEW r, Other1(graph, r)
  PROVE  /\ Project(st, r, seq) \in States(graph)
         /\ Project(st, r, seq).nodes = st.nodes /\ Project(st, r, seq).bound = st.bound
         /\ Project(st, r, seq).tries = st.tries
<1>1. CASE r.event = "run_finished"
  BY <1>1 DEF Project
<1>2. CASE r.event = "route_evaluated"
  <2> DEFINE b == [p \in DOMAIN st.repeats |-> Max2(st.repeats[p], r.repeats[p])]
  <2>1. st.repeats \in Budgets(graph) /\ r.repeats \in Budgets(graph)
    BY <1>2 DEF States, Other1
  <2>2. b \in Budgets(graph)
    BY <2>1, Max2Type DEF Budgets
  <2>3. Project(st, r, seq) = [st EXCEPT !.repeats = b]
    BY <1>2 DEF Project
  <2> HIDE DEF b
  <2> QED BY <2>2, <2>3 DEF States
<1> QED BY <1>1, <1>2 DEF Other1

-----------------------------------------------------------------------------
(* The log.                                                                *)
LEMMA AppendedIs ==
  ASSUME NEW l, NEW r, NEW seq
  PROVE  LET to == Appended(l, r, seq) IN
         /\ DOMAIN to = {"keys", "len", "seq", "st"}
         /\ to.keys = l.keys \cup {r.key} /\ to.len = l.len + 1 /\ to.seq = seq
         /\ to.st = IF r.key \in l.keys THEN l.st ELSE Project(l.st, r, seq)
BY DEF Appended, Seen

LEMMA LogStays ==
  ASSUME graph \in Specs, NEW l, LogTyped(graph, l), NEW seq \in Nat, NEW r \in Rows(graph)
  PROVE  LogTyped(graph, Appended(l, r, seq))
<1> DEFINE to == Appended(l, r, seq)
<1>1. /\ DOMAIN to = {"keys", "len", "seq", "st"} /\ to.len = l.len + 1 /\ to.seq = seq
      /\ to.st = IF r.key \in l.keys THEN l.st ELSE Project(l.st, r, seq)
  BY AppendedIs
<1>2. /\ l.len \in Nat /\ l.st \in States(graph) /\ IsFiniteSet(l.st.tries)
      /\ \A n \in Gates(graph) : l.st.nodes[n].status # "active"
      /\ \A n \in Workers(graph) : l.st.nodes[n].status = "active" => l.st.nodes[n].attempts # 0
  BY DEF LogTyped
<1> HIDE DEF to
<1>3. CASE r.key \in l.keys
  <2>1. to.st = l.st
    BY <1>1, <1>3
  <2> QED BY <1>1, <1>2, <2>1 DEF LogTyped, to
<1>4. CASE r.key \notin l.keys /\ Other1(graph, r)
  <2>1. to.st \in States(graph) /\ to.st.nodes = l.st.nodes /\ to.st.tries = l.st.tries
    BY <1>1, <1>2, <1>4, FoldsOther
  <2> QED BY <1>1, <1>2, <2>1 DEF LogTyped, to
<1>5. CASE r.key \notin l.keys /\ (Started(graph, r) \/ Ended(graph, r) \/ Gated1(graph, r))
  <2>1. Folded(l.st, to.st, r, seq)
    BY <1>1, <1>2, <1>5, FoldsNode
  <2>2. r.node \in DOMAIN graph.nodes /\ r.attempt \in Nat \ {0}
    BY <1>5 DEF Started, Ended, Gated1, Workers, Gates
  <2>3. l.st.nodes[r.node] \in NodeStates
    BY <1>2, <2>2 DEF States
  <2>4. to.st.nodes[r.node].attempts # 0
    <3>1. to.st.nodes[r.node].attempts = Max2(l.st.nodes[r.node].attempts, r.attempt)
      BY <2>1 DEF Folded, NodeFolded
    <3>2. l.st.nodes[r.node].attempts \in Nat
      BY <2>3 DEF NodeStates
    <3>3. r.attempt \in Nat /\ r.attempt # 0
      BY <2>2
    <3>4. to.st.nodes[r.node].attempts >= r.attempt
      BY <3>1, <3>2, <3>3, Max2Type
    <3>5. to.st.nodes[r.node].attempts \in Nat
      BY <3>1, <3>2, <3>3, Max2Type
    <3> QED BY <3>3, <3>4, <3>5
  <2>5. ASSUME r.node \in Gates(graph) PROVE to.st.nodes[r.node].status # "active"
    <3>1. Gated1(graph, r)
      BY <1>5, <2>5 DEF Started, Ended, Workers
    <3> QED BY <2>1, <3>1 DEF Folded, NodeFolded, Gated1
  <2>6. \A m \in DOMAIN graph.nodes : m # r.node => to.st.nodes[m] = l.st.nodes[m]
    BY <2>1 DEF Folded
  <2>7. /\ \A n \in Gates(graph) : to.st.nodes[n].status # "active"
        /\ \A n \in Workers(graph) : to.st.nodes[n].status = "active" => to.st.nodes[n].attempts # 0
    BY <1>2, <2>4, <2>5, <2>6 DEF Gates, Workers
  <2> QED BY <1>1, <1>2, <2>1, <2>7 DEF LogTyped, Folded, to
<1> QED BY <1>3, <1>4, <1>5, RowKinds

-----------------------------------------------------------------------------
(* Types are kept: processes.                                              *)
LEMMA OffTyped == \A g : ProcTyped(g, Off)
BY DEF ProcTyped, Off, Fields, Pcs

LEMMA BecomeKept ==
  ASSUME Base, UNCHANGED <<graph, log, subs>>, NEW p \in Processes, NEW r, Become(p, r),
         ProcTyped(graph, r)
  PROVE  Base' /\ proc'[p] = r /\ \A q \in Processes \ {p} : proc'[q] = proc[q]
<1>1. DOMAIN proc' = Processes /\ proc'[p] = r /\ \A q \in Processes \ {p} : proc'[q] = proc[q]
  BY DEF Become, Base
<1>2. \A q \in Processes : ProcTyped(graph, proc'[q])
  BY <1>1 DEF Base
<1> QED BY <1>1, <1>2 DEF Base

LEMMA EndKept ==
  ASSUME Base, UNCHANGED <<graph, log, subs>>, NEW p \in Processes, NEW how, End(p, how)
  PROVE  Base' /\ proc'[p] = Off /\ \A q \in Processes \ {p} : proc'[q] = proc[q]
BY BecomeKept, OffTyped DEF End

LEMMA CloseKept ==
  ASSUME Base, UNCHANGED <<graph, log, subs>>, NEW p \in Processes, proc[p].rows = <<>>, Close(p)
  PROVE  /\ Base' /\ \A q \in Processes \ {p} : proc'[q] = proc[q]
         /\ proc'[p].pc = "closing" /\ proc'[p].rows = <<FinishRow(log.len + 1)>>
         /\ proc'[p].seq = proc[p].seq /\ proc'[p].todo = proc[p].todo /\ proc'[p].wave = proc[p].wave
<1> DEFINE r == [proc[p] EXCEPT !.pc = "closing", !.rows = <<FinishRow(log.len + 1)>>,
                                !.snap = <<>>, !.route = <<>>]
<1>1. Become(p, r)
  BY DEF Close
<1>2. ProcTyped(graph, proc[p]) /\ log.len \in Nat
  BY DEF Base, LogTyped
<1>3. FinishRow(log.len + 1) \in Rows(graph)
  BY <1>2 DEF Rows, FinishRows
<1>4. /\ DOMAIN r = Fields /\ r.pc = "closing" /\ r.rows = <<FinishRow(log.len + 1)>>
      /\ r.seq = proc[p].seq /\ r.todo = proc[p].todo /\ r.wave = proc[p].wave
      /\ r.calls = proc[p].calls
  BY <1>2 DEF ProcTyped, Fields
<1> HIDE DEF r
<1>5. <<FinishRow(log.len + 1)>> \in Seq(Rows(graph)) /\ <<FinishRow(log.len + 1)>> # <<>>
  BY <1>3
<1>6. ProcTyped(graph, r)
  BY <1>2, <1>4, <1>5 DEF ProcTyped, Pcs
<1> QED BY <1>1, <1>4, <1>6, BecomeKept

LEMMA PrepareBase ==
  ASSUME Base, NEW p \in Processes, Prepare(p)
  PROVE  Base'
<1> DEFINE r == [proc[p] EXCEPT !.seq = log.seq + 1]
<1>1. UNCHANGED <<graph, log, subs>> /\ (End(p, "crashed") \/ Become(p, r)) /\ proc[p].rows # <<>>
  BY DEF Prepare
<1>2. CASE End(p, "crashed")
  BY <1>1, <1>2, EndKept
<1>3. CASE Become(p, r)
  <2>1. ProcTyped(graph, proc[p]) /\ log.seq \in Nat
    BY DEF Base, LogTyped
  <2>2. /\ DOMAIN r = Fields /\ r.seq = log.seq + 1 /\ r.pc = proc[p].pc /\ r.rows = proc[p].rows
        /\ r.todo = proc[p].todo /\ r.calls = proc[p].calls /\ r.route = proc[p].route
        /\ r.snap = proc[p].snap /\ r.wave = proc[p].wave
    BY <2>1 DEF ProcTyped, Fields
  <2>3. proc[p].pc # "off"
    BY <1>1, <2>1 DEF ProcTyped, Off
  <2> HIDE DEF r
  <2>4. ProcTyped(graph, r)
    BY <1>1, <2>1, <2>2, <2>3 DEF ProcTyped
  <2> QED BY <1>1, <1>3, <2>4, BecomeKept
<1> QED BY <1>1, <1>2, <1>3

LEMMA WriteBase ==
  ASSUME Base, NEW p \in Processes, Write(p)
  PROVE  /\ Base' /\ proc[p].rows \in Seq(Rows(graph)) /\ proc[p].rows # <<>> /\ proc[p].rows[1] \in Rows(graph)
         /\ proc[p].seq \in Nat \ {0} /\ proc[p].pc # "off"
         /\ proc'[p] = [proc[p] EXCEPT !.rows = Tail(@), !.seq = 0]
         /\ \A q \in Processes \ {p} : proc'[q] = proc[q]
<1> DEFINE r == [proc[p] EXCEPT !.rows = Tail(@), !.seq = 0]
           row == proc[p].rows[1]
<1>1. /\ UNCHANGED <<graph, subs>> /\ Become(p, r) /\ proc[p].seq # 0
      /\ log' = Appended(log, row, proc[p].seq)
  BY DEF Write
<1>2. ProcTyped(graph, proc[p]) /\ LogTyped(graph, log) /\ graph \in Specs
  BY DEF Base
<1>3. proc[p].rows \in Seq(Rows(graph)) /\ proc[p].rows # <<>> /\ proc[p].seq \in Nat
  BY <1>1, <1>2 DEF ProcTyped
<1>4. row \in Rows(graph) /\ Tail(proc[p].rows) \in Seq(Rows(graph))
  BY <1>3
<1>5. proc[p].pc # "off"
  BY <1>2, <1>3 DEF ProcTyped, Off
<1>6. /\ DOMAIN r = Fields /\ r.seq = 0 /\ r.pc = proc[p].pc /\ r.rows = Tail(proc[p].rows)
      /\ r.todo = proc[p].todo /\ r.calls = proc[p].calls /\ r.route = proc[p].route
      /\ r.snap = proc[p].snap /\ r.wave = proc[p].wave
  BY <1>2 DEF ProcTyped, Fields
<1> HIDE DEF r, row
<1>7. ProcTyped(graph, r)
  BY <1>2, <1>4, <1>5, <1>6 DEF ProcTyped
<1>8. LogTyped(graph, log')
  BY <1>1, <1>2, <1>3, <1>4, LogStays
<1>9. DOMAIN proc' = Processes /\ proc'[p] = r /\ \A q \in Processes \ {p} : proc'[q] = proc[q]
  BY <1>1 DEF Become, Base
<1>10. \A q \in Processes : ProcTyped(graph, proc'[q])
  BY <1>7, <1>9 DEF Base
<1>11. Base'
  BY <1>1, <1>8, <1>9, <1>10 DEF Base
<1> QED BY <1>1, <1>3, <1>4, <1>5, <1>9, <1>11 DEF r, row

LEMMA RunBase ==
  ASSUME Base, NEW p \in Runners, Run(p)
  PROVE  Base' /\ proc'[p] = [Off EXCEPT !.pc = "loop"] /\ \A q \in Processes \ {p} : proc'[q] = proc[q]
<1> DEFINE r == [Off EXCEPT !.pc = "loop"]
<1>1. Become(p, r) /\ UNCHANGED <<graph, log, subs>> /\ p \in Processes
  BY DEF Run, Processes
<1>2. ProcTyped(graph, r)
  BY DEF ProcTyped, Off, Fields, Pcs
<1> HIDE DEF r
<1> QED BY <1>1, <1>2, BecomeKept DEF r

FromPlanOutcomes == {"blocked", "completed", "unverified", "failed"}

LEMMA FromPlanType ==
  ASSUME NEW n, NEW t, NEW receipt
  PROVE  FromPlan(n, t, receipt) \in FromPlanOutcomes
BY DEF FromPlan, FromPlanOutcomes

LEMMA WithProofType ==
  ASSUME NEW c \in FromPlanOutcomes, NEW proved
  PROVE  WithProof(c, proved) \in FromPlanOutcomes
BY DEF WithProof, FromPlanOutcomes

LEMMA VerdictTypes ==
  ASSUME NEW n, NEW t, NEW exit
  PROVE  /\ exit \in {"ok", "error", "busy", "timeout"} =>
              LET v == AgentOutcome(n, t, exit) IN v.claimed \in Outcomes /\ v.outcome \in Outcomes
         /\ exit \in {"ok", "error", "timeout"} =>
              LET v == ToolOutcome(n, exit) IN v.claimed \in Outcomes /\ v.outcome \in Outcomes
<1> DEFINE claimed == FromPlan(n, t, TRUE)
           outcome == WithProof(claimed, Proves(n, t))
           tool == WithProof("completed", Proves(n, NoTask))
<1>1. claimed \in FromPlanOutcomes
  BY FromPlanType
<1>2. outcome \in FromPlanOutcomes
  BY <1>1, WithProofType
<1>3. tool \in FromPlanOutcomes
  BY WithProofType DEF FromPlanOutcomes
<1> HIDE DEF claimed, outcome, tool
<1>4. exit \in {"ok", "error", "busy", "timeout"} =>
        LET v == AgentOutcome(n, t, exit) IN v.claimed \in Outcomes /\ v.outcome \in Outcomes
  BY <1>1, <1>2 DEF AgentOutcome, Both, Verdicts, Outcomes, FromPlanOutcomes, claimed, outcome
<1>5. exit \in {"ok", "error", "timeout"} =>
        LET v == ToolOutcome(n, exit) IN v.claimed \in Outcomes /\ v.outcome \in Outcomes
  BY <1>3 DEF ToolOutcome, Both, Verdicts, Outcomes, FromPlanOutcomes, tool
<1> QED BY <1>4, <1>5

LEMMA ReconciledTyped ==
  ASSUME NEW i
  PROVE  Reconciled(i).claimed \in Outcomes /\ Reconciled(i).outcome \in Outcomes
<1> DEFINE c == WithProof(FromPlan(i.node, i.task, i.receipt), i.proved)
<1>1. c \in FromPlanOutcomes
  BY FromPlanType, WithProofType
<1> HIDE DEF c
<1>2. c \in Outcomes
  BY <1>1 DEF Outcomes, FromPlanOutcomes
<1>3. Reconciled(i) \in {Both("blocked"), Both(c), Both("unverified")}
  BY DEF Reconciled, c
<1> QED BY <1>2, <1>3 DEF Both, Verdicts, Outcomes

LEMMA ActiveWorkers ==
  ASSUME graph \in Specs, NEW l, LogTyped(graph, l)
  PROVE  /\ IsFiniteSet(Active(l.st)) /\ Active(l.st) \subseteq Workers(graph)
         /\ \A n \in Active(l.st) : l.st.nodes[n] \in NodeStates /\ l.st.nodes[n].attempts # 0
<1>1. l.st.nodes \in [DOMAIN graph.nodes -> NodeStates]
  BY DEF LogTyped, States
<1>2. Active(l.st) \subseteq DOMAIN graph.nodes
  BY <1>1 DEF Active
<1>3. Active(l.st) \subseteq Workers(graph)
  BY <1>2 DEF Active, LogTyped, Workers
<1>4. IsFiniteSet(Active(l.st))
  BY <1>2, GraphTyped, FS_Subset
<1> QED BY <1>1, <1>2, <1>3, <1>4 DEF LogTyped, Active

LEMMA StaticTaskTyped ==
  ASSUME graph \in Specs, NEW st \in States(graph), NEW n \in DOMAIN graph.nodes
  PROVE  StaticTask(st, n) \in TaskNames
<1>1. graph.nodes[n].task \in Tasks \cup {NoTask, "next", "bound"} /\ st.bound \in TaskNames
  BY GraphTyped DEF States
<1> QED BY <1>1 DEF StaticTask, Node, TaskNames

LEMMA ResumeBase ==
  ASSUME Base, NEW p \in Runners, Resume(p)
  PROVE  /\ Base' /\ \A q \in Processes \ {p} : proc'[q] = proc[q]
         /\ LET r == proc'[p] IN
            /\ r.pc = "reconcile" /\ r.rows = <<>> /\ r.seq = 0 /\ r.wave = {}
            /\ \A i \in DOMAIN r.todo : /\ r.todo[i].node \in Active(log.st)
                                        /\ r.todo[i].attempt = log.st.nodes[r.todo[i].node].attempts
<1> DEFINE Item(n) ==
             LET s == log.st.nodes[n]
                 t == IF s.task # NoTask THEN s.task ELSE StaticTask(log.st, n)
             IN  [node |-> n, attempt |-> Max2(s.attempts, 1), task |-> t,
                  receipt |-> t \in Tasks /\ plan[t].state = "done", proved |-> Proves(n, t)]
           active == SetToSeq(Active(log.st))
           todo == [i \in DOMAIN active |-> Item(active[i])]
           r == [Off EXCEPT !.pc = "reconcile", !.todo = todo]
<1>1. Become(p, r) /\ UNCHANGED <<graph, log, subs>> /\ p \in Processes
  BY DEF Resume, Processes
<1>2. graph \in Specs /\ LogTyped(graph, log) /\ log.st \in States(graph)
  BY DEF Base, LogTyped
<1>3. ASSUME NEW n \in Active(log.st)
      PROVE  Item(n) \in Items(graph) /\ Item(n).node = n /\ Item(n).attempt = log.st.nodes[n].attempts
  <2> DEFINE s == log.st.nodes[n]
             t == IF s.task # NoTask THEN s.task ELSE StaticTask(log.st, n)
             receipt == t \in Tasks /\ plan[t].state = "done"
             proved == Proves(n, t)
  <2>1. n \in Workers(graph) /\ s \in NodeStates /\ s.attempts # 0
    BY <1>2, ActiveWorkers
  <2>2. s.attempts \in Nat /\ s.task \in TaskNames
    BY <2>1 DEF NodeStates
  <2>3. StaticTask(log.st, n) \in TaskNames
    BY <1>2, <2>1, StaticTaskTyped DEF Workers
  <2>4. t \in TaskNames
    BY <2>2, <2>3
  <2>5. receipt \in BOOLEAN /\ proved \in BOOLEAN
    BY DEF Proves
  <2>6. Max2(s.attempts, 1) = s.attempts
    BY <2>1, <2>2 DEF Max2
  <2>7. Item(n) = [node |-> n, attempt |-> s.attempts, task |-> t, receipt |-> receipt, proved |-> proved]
    BY <2>6
  <2> HIDE DEF t, receipt, proved, Item
  <2> QED BY <2>1, <2>2, <2>4, <2>5, <2>7 DEF Items
<1> HIDE DEF Item
<1>4. active \in Seq(Active(log.st)) /\ DOMAIN active = 1 .. Len(active) /\ Len(active) \in Nat
  BY <1>2, ActiveWorkers, SeqOfSet
<1> HIDE DEF active
<1>5. /\ todo \in Seq(Items(graph))
      /\ \A i \in DOMAIN todo : /\ todo[i].node \in Active(log.st)
                                /\ todo[i].attempt = log.st.nodes[todo[i].node].attempts
  BY <1>3, <1>4
<1> HIDE DEF todo
<1>6. /\ DOMAIN r = Fields /\ r.pc = "reconcile" /\ r.rows = <<>> /\ r.seq = 0 /\ r.wave = {}
      /\ r.todo = todo /\ r.calls = 0
  BY DEF Off, Fields
<1> HIDE DEF r
<1>7. r.rows \in Seq(Rows(graph)) /\ r.wave \in SUBSET WaveItems(graph) /\ r.calls \in Nat /\ r.pc \in Pcs
  BY <1>6 DEF Pcs
<1>8. ProcTyped(graph, r)
  BY <1>5, <1>6, <1>7 DEF ProcTyped
<1> QED BY <1>1, <1>5, <1>6, <1>8, BecomeKept

LEMMA ReconcileBase ==
  ASSUME Base, NEW p \in Runners, Reconcile(p)
  PROVE  /\ Base' /\ \A q \in Processes \ {p} : proc'[q] = proc[q]
         /\ proc[p].rows = <<>> /\ proc[p].todo # <<>>
         /\ LET r == proc'[p]  i == proc[p].todo[1]  v == Reconciled(i) IN
            /\ i \in Items(graph)
            /\ r.pc = "reconcile" /\ r.todo = Tail(proc[p].todo) /\ r.seq = proc[p].seq
            /\ r.wave = proc[p].wave
            /\ \/ r.rows = <<>>
               \/ r.rows = <<OutcomeRow(i.node, i.attempt, i.task, v.claimed, v.outcome)>>
<1> DEFINE i == proc[p].todo[1]
           v == Reconciled(i)
           row == OutcomeRow(i.node, i.attempt, i.task, v.claimed, v.outcome)
           rest == [proc[p] EXCEPT !.todo = Tail(@)]
           r == [rest EXCEPT !.rows = <<row>>]
<1>1. /\ Become(p, rest) \/ Become(p, r)
      /\ proc[p].pc = "reconcile" /\ proc[p].rows = <<>> /\ proc[p].todo # <<>>
  BY DEF Reconcile, At, Processes
<1>1a. UNCHANGED <<graph, log, subs>> /\ p \in Processes
  BY DEF Reconcile, Processes
<1>2. ProcTyped(graph, proc[p])
  BY <1>1a DEF Base
<1>3. proc[p].todo \in Seq(Items(graph))
  BY <1>2 DEF ProcTyped
<1>4. i \in Items(graph) /\ Tail(proc[p].todo) \in Seq(Items(graph))
  BY <1>1, <1>3
<1>5. /\ DOMAIN rest = Fields /\ rest.todo = Tail(proc[p].todo) /\ rest.pc = "reconcile" /\ rest.rows = <<>>
      /\ rest.seq = proc[p].seq /\ rest.wave = proc[p].wave /\ rest.calls = proc[p].calls
  BY <1>1, <1>2 DEF ProcTyped, Fields
<1> HIDE DEF rest
<1>6. /\ DOMAIN r = Fields /\ r.todo = Tail(proc[p].todo) /\ r.pc = "reconcile" /\ r.rows = <<row>>
      /\ r.seq = proc[p].seq /\ r.wave = proc[p].wave /\ r.calls = proc[p].calls
  BY <1>5 DEF Fields
<1> HIDE DEF r
<1>7. v.claimed \in Outcomes /\ v.outcome \in Outcomes
  BY ReconciledTyped
<1>8. row \in Rows(graph)
  <2>1. /\ i.node \in Workers(graph) /\ i.attempt \in Nat \ {0} /\ i.task \in TaskNames
    BY <1>4 DEF Items
  <2> HIDE DEF i, v
  <2> QED BY <1>7, <2>1 DEF Rows, OutcomeRows
<1> HIDE DEF row, v, i
<1>9. <<row>> \in Seq(Rows(graph)) /\ <<row>> # <<>>
  BY <1>8
<1>10. ProcTyped(graph, rest)
  BY <1>1, <1>2, <1>4, <1>5 DEF ProcTyped
<1>11. ProcTyped(graph, r)
  BY <1>2, <1>4, <1>6, <1>9 DEF ProcTyped, Pcs
<1>12. CASE Become(p, rest)
  BY <1>1, <1>1a, <1>4, <1>5, <1>10, <1>12, BecomeKept DEF i, v, row
<1>13. CASE Become(p, r)
  BY <1>1, <1>1a, <1>4, <1>6, <1>11, <1>13, BecomeKept DEF i, v, row
<1> QED BY <1>1, <1>12, <1>13

LEMMA StepBase ==
  ASSUME Base, NEW p \in Runners, Step(p)
  PROVE  /\ Base' /\ \A q \in Processes \ {p} : proc'[q] = proc[q]
         /\ proc[p].rows = <<>> /\ proc[p].pc # "off"
         /\ LET r == proc'[p]  v == Evaluate(graph, log.st, Proved(log.st)) IN
            /\ r.seq = proc[p].seq /\ r.todo = proc[p].todo /\ r.wave = proc[p].wave
            /\ \/ r.pc = "closing" /\ r.rows = <<FinishRow(log.len + 1)>>
               \/ /\ r.pc = "routed" /\ r.snap = log.st /\ r.route = v
                  /\ r.rows = <<RouteRow(log.len + 1, v.repeats)>>
<1> DEFINE v == Evaluate(graph, log.st, Proved(log.st))
           row == RouteRow(log.len + 1, v.repeats)
           r == [proc[p] EXCEPT !.pc = "routed", !.calls = @ + 1, !.snap = log.st,
                                !.route = v, !.rows = <<row>>]
<1>1. /\ Close(p) \/ Become(p, r)
      /\ proc[p].pc \in {"loop", "reconcile", "recorded", "wave"} /\ proc[p].rows = <<>>
  BY DEF Step, At
<1>2. UNCHANGED <<graph, log, subs>> /\ p \in Processes
  BY DEF Step, Processes
<1>3. ProcTyped(graph, proc[p]) /\ IsGraph(graph) /\ log.st \in States(graph) /\ log.len \in Nat
  BY <1>2, GraphTyped DEF Base, LogTyped
<1>4. v.repeats \in Budgets(graph) /\ (v.status = "actionable" => v.nodes \in Seq(Workers(graph)))
  BY <1>3, EvaluateSound
<1> HIDE DEF v
<1>5. row \in Rows(graph)
  <2>1. log.len + 1 \in Nat
    BY <1>3
  <2>2. row \in RouteRows(graph)
    BY <1>4, <2>1 DEF RouteRows
  <2> QED BY <2>2 DEF Rows
<1> HIDE DEF row
<1>6. <<row>> \in Seq(Rows(graph)) /\ <<row>> # <<>>
  BY <1>5
<1>7. DOMAIN r = Fields /\ r.pc = "routed" /\ r.calls = proc[p].calls + 1 /\ r.snap = log.st
  BY <1>3 DEF ProcTyped, Fields
<1>8. r.route = v /\ r.rows = <<row>> /\ r.seq = proc[p].seq /\ r.todo = proc[p].todo /\ r.wave = proc[p].wave
  BY <1>3 DEF ProcTyped, Fields
<1> HIDE DEF r
<1>9. ProcTyped(graph, r)
  BY <1>3, <1>4, <1>6, <1>7, <1>8 DEF ProcTyped, Pcs
<1>10. CASE Close(p)
  BY <1>1, <1>2, <1>10, CloseKept DEF v, row
<1>11. CASE Become(p, r)
  BY <1>1, <1>2, <1>7, <1>8, <1>9, <1>11, BecomeKept DEF v, row
<1> QED BY <1>1, <1>10, <1>11

LEMMA StopBase ==
  ASSUME Base, NEW p \in Runners, Stop(p)
  PROVE  /\ Base' /\ \A q \in Processes \ {p} : proc'[q] = proc[q]
         /\ proc[p].rows = <<>> /\ proc[p].pc # "off"
         /\ LET r == proc'[p] IN
            \/ r = Off
            \/ /\ r.pc = "closing" /\ r.rows = <<FinishRow(log.len + 1)>>
               /\ r.seq = proc[p].seq /\ r.todo = proc[p].todo /\ r.wave = proc[p].wave
<1>1. /\ End(p, "gate") \/ Close(p)
      /\ proc[p].rows = <<>> /\ proc[p].pc = "routed" /\ UNCHANGED <<graph, log, subs>> /\ p \in Processes
  BY DEF Stop, At, Processes
<1>2. CASE End(p, "gate")
  BY <1>1, <1>2, EndKept
<1>3. CASE Close(p)
  BY <1>1, <1>3, CloseKept
<1> QED BY <1>1, <1>2, <1>3

LEMMA LeaveBase ==
  ASSUME Base, NEW p \in Runners, Leave(p)
  PROVE  Base' /\ proc'[p] = Off /\ \A q \in Processes \ {p} : proc'[q] = proc[q]
<1>1. End(p, "finished") /\ UNCHANGED <<graph, log, subs>> /\ p \in Processes
  BY DEF Leave, Processes
<1> QED BY <1>1, EndKept

\* The task that a candidate is planned with: what the plan offers, or its own.
PlannedTask(st, n, t) ==
  t \in TaskNames /\ IF Node(n).task = "next" THEN t \in Tasks ELSE t = StaticTask(st, n)
Tried(st, n) == st.nodes[n].attempts + 1

\* The rows of nodes for which the plan has nothing, and of a wave.
Refused(st, nodes, rows) ==
  \A i \in DOMAIN rows : \E n \in nodes :
    \/ rows[i] = StartRow(n, Tried(st, n), NoTask)
    \/ /\ i > 1 /\ rows[i - 1] = StartRow(n, Tried(st, n), NoTask)
       /\ rows[i] = OutcomeRow(n, Tried(st, n), NoTask, "blocked", "blocked")
Waved(st, nodes, rows, wave) ==
  /\ \A i \in DOMAIN rows : \E n \in nodes : \E t \in TaskNames :
       rows[i] = StartRow(n, Tried(st, n), t) /\ PlannedTask(st, n, t)
  /\ \A w \in wave : /\ w.node \in nodes /\ w.attempt = Tried(st, w.node)
                     /\ PlannedTask(st, w.node, w.task)
                     /\ \E i \in DOMAIN rows : rows[i] = StartRow(w.node, w.attempt, w.task)

Begins(r) == r.event = "node_started"
Apart(rows) ==
  \A i, j \in DOMAIN rows :
    Begins(rows[i]) /\ Begins(rows[j]) /\ rows[i].node = rows[j].node => i = j

LEMMA Halves ==
  ASSUME NEW k \in Nat, NEW i \in 1 .. 2 * k
  PROVE  /\ (i + 1) \div 2 \in 1 .. k
         /\ i % 2 # 1 => /\ i - 1 \in 1 .. 2 * k /\ i > 1 /\ (i - 1) % 2 = 1
                         /\ (i - 1 + 1) \div 2 = (i + 1) \div 2
         /\ \A j \in 1 .. 2 * k : i % 2 = 1 /\ j % 2 = 1 /\ (i + 1) \div 2 = (j + 1) \div 2 => i = j
OBVIOUS

LEMMA RefusedRows ==
  ASSUME graph \in Specs, NEW st \in States(graph), NEW nodes, nodes \subseteq Workers(graph),
         IsFiniteSet(nodes), NEW rows,
         LET none == SetToSeq(nodes) IN
         rows = [i \in 1..2 * Len(none) |->
                     LET n == none[(i + 1) \div 2] IN
                     IF i % 2 = 1 THEN StartRow(n, st.nodes[n].attempts + 1, NoTask)
                     ELSE OutcomeRow(n, st.nodes[n].attempts + 1, NoTask, "blocked", "blocked")]
  PROVE  rows \in Seq(Rows(graph)) /\ Refused(st, nodes, rows) /\ Apart(rows)
<1> DEFINE none == SetToSeq(nodes)
           node(i) == none[(i + 1) \div 2]
           start(n) == StartRow(n, Tried(st, n), NoTask)
           end(n) == OutcomeRow(n, Tried(st, n), NoTask, "blocked", "blocked")
<1>1. none \in Seq(nodes) /\ Len(none) \in Nat /\ DOMAIN none = 1 .. Len(none) /\ IsInjective(none)
  BY SeqOfSet
<1>2. rows = [i \in 1 .. 2 * Len(none) |-> IF i % 2 = 1 THEN start(node(i)) ELSE end(node(i))]
  BY DEF Tried
<1> HIDE DEF none, start, end
<1>3. DOMAIN rows = 1 .. 2 * Len(none) /\ 2 * Len(none) \in Nat
  <2>1. DOMAIN rows = 1 .. 2 * Len(none)
    <3> HIDE DEF node
    <3> QED BY <1>2
  <2>2. 2 * Len(none) \in Nat
    BY <1>1
  <2> QED BY <2>1, <2>2
<1>4. ASSUME NEW n \in nodes PROVE start(n) \in Rows(graph) /\ end(n) \in Rows(graph)
  <2>1. n \in Workers(graph) /\ Tried(st, n) \in Nat \ {0}
    BY DEF Tried, States, NodeStates, Workers
  <2>2. NoTask \in TaskNames /\ "blocked" \in Outcomes
    BY DEF TaskNames, Outcomes
  <2>3. start(n) \in StartRows(graph)
    BY <2>1, <2>2 DEF StartRows, start
  <2>4. end(n) \in OutcomeRows(graph)
    BY <2>1, <2>2 DEF OutcomeRows, end
  <2> QED BY <2>3, <2>4 DEF Rows
<1>5. ASSUME NEW i \in DOMAIN rows
      PROVE  /\ node(i) \in nodes /\ rows[i] \in {start(node(i)), end(node(i))}
             /\ rows[i] # start(node(i)) =>
                  i > 1 /\ i - 1 \in DOMAIN rows /\ rows[i - 1] = start(node(i)) /\ rows[i] = end(node(i))
  <2>1. (i + 1) \div 2 \in 1 .. Len(none)
    BY <1>1, <1>3, Halves
  <2>2. node(i) \in nodes
    BY <1>1, <2>1
  <2>3. rows[i] = IF i % 2 = 1 THEN start(node(i)) ELSE end(node(i))
    BY <1>2, <1>3
  <2>4. CASE i % 2 = 1
    BY <2>2, <2>3, <2>4
  <2>5. CASE i % 2 # 1
    <3>1. /\ i - 1 \in 1 .. 2 * Len(none) /\ i > 1 /\ (i - 1) % 2 = 1
          /\ (i - 1 + 1) \div 2 = (i + 1) \div 2
      BY <1>1, <1>3, <2>5, Halves
    <3>2. rows[i - 1] = start(node(i - 1)) /\ node(i - 1) = node(i)
      BY <1>2, <3>1
    <3> QED BY <1>3, <2>2, <2>3, <2>5, <3>1, <3>2
  <2> QED BY <2>4, <2>5
<1>6. Refused(st, nodes, rows)
  BY <1>5 DEF Refused, start, end
<1>7. rows \in Seq(Rows(graph))
  <2> DEFINE size == 2 * Len(none)
  <2>1. ASSUME NEW i \in 1 .. size PROVE rows[i] \in Rows(graph)
    <3>1. node(i) \in nodes /\ rows[i] \in {start(node(i)), end(node(i))}
      BY <1>3, <1>5
    <3> HIDE DEF node
    <3> QED BY <1>4, <3>1
  <2> HIDE DEF node
  <2>2. rows = [i \in 1 .. size |-> rows[i]]
    BY <1>2
  <2>3. DOMAIN rows = 1 .. size /\ size \in Nat
    BY <1>3
  <2> DEFINE Elements == Rows(graph)
  <2>4. \A i \in 1 .. size : rows[i] \in Elements
    BY <2>1
  <2> HIDE DEF size, Elements
  <2>5. rows \in [1 .. size -> Elements]
    BY <2>2, <2>4
  <2>6. rows \in Seq(Elements)
    BY <2>3, <2>5
  <2> QED BY <2>6 DEF Elements
<1>8. ASSUME NEW i \in DOMAIN rows, Begins(rows[i])
      PROVE  i % 2 = 1 /\ rows[i].node = node(i) /\ (i + 1) \div 2 \in DOMAIN none
  <2>1. rows[i] = IF i % 2 = 1 THEN start(node(i)) ELSE end(node(i))
    BY <1>2, <1>3
  <2>2. \A n : ~Begins(end(n)) /\ start(n).node = n
    BY DEF Begins, end, OutcomeRow, start, StartRow
  <2>3. (i + 1) \div 2 \in 1 .. Len(none)
    BY <1>1, <1>3, Halves
  <2> HIDE DEF node
  <2> QED BY <1>1, <1>8, <2>1, <2>2, <2>3
<1>9. Apart(rows)
  <2> SUFFICES ASSUME NEW i \in DOMAIN rows, NEW j \in DOMAIN rows,
                      Begins(rows[i]) /\ Begins(rows[j]) /\ rows[i].node = rows[j].node
               PROVE  i = j
    BY Zenon DEF Apart
  <2> DEFINE a == (i + 1) \div 2
             b == (j + 1) \div 2
  <2>1. /\ i % 2 = 1 /\ rows[i].node = none[a] /\ a \in DOMAIN none
        /\ j % 2 = 1 /\ rows[j].node = none[b] /\ b \in DOMAIN none
    BY <1>8
  <2> HIDE DEF a, b
  <2>2. a = b
    BY <1>1, <2>1 DEF IsInjective
  <2> QED BY <1>1, <1>3, <2>1, <2>2, Halves DEF a, b
<1> QED BY <1>6, <1>7, <1>9

LEMMA PlanBase ==
  ASSUME Base, NEW p \in Runners, Plan(p)
  PROVE  /\ Base' /\ \A q \in Processes \ {p} : proc'[q] = proc[q]
         /\ proc[p].rows = <<>> /\ proc[p].pc = "routed" /\ proc[p].route.status = "actionable"
         /\ LET o == proc[p]  r == proc'[p]  names == ToSet(o.route.nodes) IN
            /\ r.seq = o.seq /\ r.todo = o.todo /\ Apart(r.rows)
            /\ \/ r.pc = "closing" /\ r.rows = <<FinishRow(log.len + 1)>> /\ r.wave = o.wave
               \/ r.pc = "recorded" /\ r.wave = o.wave /\ Refused(o.snap, names, r.rows)
               \/ r.pc = "started" /\ Waved(o.snap, names, r.rows, r.wave)
<1> DEFINE o == proc[p]
           candidates == o.route.nodes
           st == o.snap
           names == ToSet(candidates)
           selectors == {n \in names : Node(n).task = "next"}
           active == Active(st)
           held == {st.nodes[n].task : n \in active} \ {NoTask}
           planned == [o EXCEPT !.snap = <<>>, !.route = <<>>]
           none == SetToSeq(selectors)
           refused == [i \in 1..2 * Len(none) |->
                     LET n == none[(i + 1) \div 2] IN
                     IF i % 2 = 1 THEN StartRow(n, st.nodes[n].attempts + 1, NoTask)
                     ELSE OutcomeRow(n, st.nodes[n].attempts + 1, NoTask, "blocked", "blocked")]
           task(peek) == [n \in names |-> IF n \in selectors THEN peek ELSE StaticTask(st, n)]
           order(peek) == Eligible(candidates, task(peek), active, held)
           rows(peek) == [i \in DOMAIN order(peek) |->
                            StartRow(order(peek)[i], st.nodes[order(peek)[i]].attempts + 1, task(peek)[order(peek)[i]])]
           wave(peek) == {[node |-> n, attempt |-> st.nodes[n].attempts + 1, task |-> task(peek)[n]] :
                            n \in ToSet(order(peek))}
           ra == [planned EXCEPT !.pc = "recorded", !.rows = refused]
           rc(peek) == [planned EXCEPT !.pc = "started", !.rows = rows(peek), !.wave = wave(peek)]
<1>1. /\ o.pc = "routed" /\ o.rows = <<>> /\ o.route.status = "actionable"
      /\ UNCHANGED <<graph, log, subs>> /\ p \in Processes
  BY DEF Plan, At, Processes
<1>2. PICK peek \in Peeks : IF selectors # {} /\ peek = NoTask THEN Become(p, ra)
                            ELSE IF order(peek) = <<>> THEN Close(p) ELSE Become(p, rc(peek))
  BY DEF Plan
<1>3. ProcTyped(graph, o) /\ graph \in Specs /\ st \in States(graph)
  BY <1>1 DEF Base, ProcTyped
<1>4. candidates \in Seq(Workers(graph))
  BY <1>1, <1>3 DEF ProcTyped
<1>5. names \subseteq Workers(graph) /\ candidates \in Seq(names)
  BY <1>4, SeqInto
<1>6. IsFiniteSet(names) /\ IsFiniteSet(selectors)
  BY <1>3, <1>5, GraphTyped, FS_Subset DEF Workers
<1>7. refused \in Seq(Rows(graph)) /\ Refused(st, selectors, refused) /\ Apart(refused)
  <2> HIDE DEF selectors, st, none
  <2>1. selectors \subseteq Workers(graph)
    BY <1>5 DEF selectors
  <2> QED BY <1>3, <1>6, <2>1, RefusedRows DEF none
<1>8. Refused(st, names, refused)
  BY <1>7 DEF Refused
<1> HIDE DEF refused
<1>9. /\ DOMAIN planned = Fields /\ planned.pc = o.pc /\ planned.rows = <<>> /\ planned.seq = o.seq
      /\ planned.todo = o.todo /\ planned.wave = o.wave /\ planned.calls = o.calls
  BY <1>1, <1>3 DEF ProcTyped, Fields
<1> HIDE DEF planned
<1>10. CASE Become(p, ra)
  <2>1. /\ DOMAIN ra = Fields /\ ra.pc = "recorded" /\ ra.rows = refused /\ ra.seq = o.seq
        /\ ra.todo = o.todo /\ ra.wave = o.wave /\ ra.calls = o.calls
    BY <1>9 DEF Fields
  <2> HIDE DEF ra
  <2>2. o.seq = 0
    BY <1>1, <1>3 DEF ProcTyped
  <2>3. ProcTyped(graph, ra)
    BY <1>3, <1>7, <2>1, <2>2 DEF ProcTyped, Pcs
  <2> QED BY <1>1, <1>7, <1>8, <1>10, <2>1, <2>3, BecomeKept
<1>11. CASE Close(p)
  <2>1. Apart(<<FinishRow(log.len + 1)>>)
    BY DEF Apart
  <2> QED BY <1>1, <1>11, <2>1, CloseKept
<1>12. CASE ~(selectors # {} /\ peek = NoTask) /\ Become(p, rc(peek))
  <2> DEFINE T == task(peek)
             ord == order(peek)
  <2>1. peek \in TaskNames /\ (selectors # {} => peek \in Tasks)
    BY <1>12 DEF Peeks, TaskNames
  <2>2. \A n \in names : T[n] \in TaskNames /\ PlannedTask(st, n, T[n])
    <3>1. ASSUME NEW n \in names PROVE T[n] \in TaskNames /\ PlannedTask(st, n, T[n])
      <4>1. n \in DOMAIN graph.nodes
        BY <1>5 DEF Workers
      <4>2. StaticTask(st, n) \in TaskNames
        BY <1>3, <4>1, StaticTaskTyped
      <4>3. T[n] = IF n \in selectors THEN peek ELSE StaticTask(st, n)
        OBVIOUS
      <4>4. n \in selectors <=> Node(n).task = "next"
        BY DEF selectors
      <4> QED BY <2>1, <4>2, <4>3, <4>4 DEF PlannedTask
    <3> QED BY <3>1
  <2> HIDE DEF T, names, active, held, st, candidates
  <2>3. ord \in Seq(ToSet(candidates)) /\ IsInjective(ord)
    BY <1>5, EligibleChooses DEF T
  <2>4. ord \in Seq(names)
    BY <2>3 DEF names
  <2> HIDE DEF ord
  <2>5. /\ Len(ord) \in Nat /\ DOMAIN ord = 1 .. Len(ord) /\ \A i \in DOMAIN ord : ord[i] \in names
        /\ ToSet(ord) \subseteq names
    BY <2>4, SeqInto
  <2>6. \A n \in names : /\ n \in Workers(graph) /\ st.nodes[n].attempts + 1 \in Nat \ {0}
                         /\ st.nodes[n].attempts + 1 = Tried(st, n)
    BY <1>3, <1>5 DEF States, NodeStates, Tried, Workers
  <2>7. rows(peek) = [i \in 1 .. Len(ord) |-> StartRow(ord[i], Tried(st, ord[i]), T[ord[i]])]
    BY <2>5 DEF ord, T, Tried
  <2>8. wave(peek) = {[node |-> n, attempt |-> Tried(st, n), task |-> T[n]] : n \in ToSet(ord)}
    BY DEF ord, T, Tried
  <2>9. rows(peek) \in Seq(Rows(graph))
    <3>1. ASSUME NEW i \in 1 .. Len(ord) PROVE StartRow(ord[i], Tried(st, ord[i]), T[ord[i]]) \in Rows(graph)
      <4>1. ord[i] \in names /\ ord[i] \in Workers(graph) /\ Tried(st, ord[i]) \in Nat \ {0} /\ T[ord[i]] \in TaskNames
        BY <2>2, <2>5, <2>6
      <4>2. StartRow(ord[i], Tried(st, ord[i]), T[ord[i]]) \in StartRows(graph)
        BY <4>1 DEF StartRows
      <4> QED BY <4>2 DEF Rows
    <3> HIDE DEF rows
    <3> QED BY <2>5, <2>7, <3>1
  <2>10. wave(peek) \in SUBSET WaveItems(graph)
    BY <2>2, <2>5, <2>6, <2>8 DEF WaveItems
  <2>11. Waved(st, names, rows(peek), wave(peek))
    <3>1. \A i \in DOMAIN rows(peek) : \E n \in names : \E t \in TaskNames :
            rows(peek)[i] = StartRow(n, Tried(st, n), t) /\ PlannedTask(st, n, t)
      <4> HIDE DEF rows
      <4> QED BY <2>2, <2>5, <2>7
    <3>2. ASSUME NEW w \in wave(peek)
          PROVE  /\ w.node \in names /\ w.attempt = Tried(st, w.node) /\ PlannedTask(st, w.node, w.task)
                 /\ \E i \in DOMAIN rows(peek) : rows(peek)[i] = StartRow(w.node, w.attempt, w.task)
      <4> HIDE DEF rows, wave
      <4>1. PICK n \in ToSet(ord) : w = [node |-> n, attempt |-> Tried(st, n), task |-> T[n]]
        BY <2>8, <3>2
      <4>2. PICK i \in DOMAIN ord : ord[i] = n
        BY DEF ToSet
      <4>3. i \in DOMAIN rows(peek) /\ rows(peek)[i] = StartRow(n, Tried(st, n), T[n])
        BY <2>5, <2>7, <4>2
      <4> QED BY <2>2, <2>5, <4>1, <4>3
    <3> HIDE DEF rows, wave
    <3> QED BY <3>1, <3>2 DEF Waved
  <2>11a. Apart(rows(peek))
    <3>1. \A i \in DOMAIN rows(peek) : i \in DOMAIN ord /\ rows(peek)[i].node = ord[i]
      <4> HIDE DEF rows
      <4> QED BY <2>5, <2>7 DEF StartRow
    <3> HIDE DEF rows
    <3> QED BY <2>3, <3>1 DEF Apart, IsInjective
  <2>12. /\ DOMAIN rc(peek) = Fields /\ rc(peek).pc = "started" /\ rc(peek).rows = rows(peek)
         /\ rc(peek).seq = o.seq /\ rc(peek).todo = o.todo /\ rc(peek).wave = wave(peek)
         /\ rc(peek).calls = o.calls
    <3> HIDE DEF rows, wave
    <3> QED BY <1>9 DEF Fields
  <2>13. o.seq = 0
    BY <1>1, <1>3 DEF ProcTyped
  <2> HIDE DEF rc, rows, wave
  <2>14. ProcTyped(graph, rc(peek))
    BY <1>3, <2>9, <2>10, <2>12, <2>13 DEF ProcTyped, Pcs
  <2> QED BY <1>1, <1>12, <2>11, <2>11a, <2>12, <2>14, BecomeKept DEF names, st, candidates
<1> HIDE DEF ra, rc, order, selectors
<1>13. CASE selectors # {} /\ peek = NoTask
  BY <1>2, <1>10, <1>13
<1>14. CASE ~(selectors # {} /\ peek = NoTask)
  BY <1>2, <1>11, <1>12, <1>14
<1> QED BY <1>13, <1>14

-----------------------------------------------------------------------------
(* Types are kept: what was started.                                       *)
LEMMA SubsKept ==
  ASSUME Base, UNCHANGED <<graph, log, proc>>, \A s \in subs' : s \in subs \/ SubTyped(graph, s)
  PROVE  Base'
BY DEF Base

LEMMA LaunchBase ==
  ASSUME Base, NEW p \in Runners, Launch(p)
  PROVE  /\ Base' /\ \A q \in Processes \ {p} : proc'[q] = proc[q]
         /\ proc[p].rows = <<>> /\ proc[p].pc # "off"
         /\ LET o == proc[p]  r == proc'[p] IN
            /\ r.pc = "wave" /\ r.rows = <<>> /\ r.seq = o.seq /\ r.todo = o.todo /\ r.wave = o.wave
            /\ \A s \in subs' : s \in subs \/ \E i \in o.wave :
                 /\ s.node = i.node /\ s.attempt = i.attempt /\ s.task = i.task
                 /\ s.phase = "launched"
<1> DEFINE o == proc[p]
           r == [o EXCEPT !.pc = "wave"]
           made(i) == [by |-> p, node |-> i.node, attempt |-> i.attempt, task |-> i.task,
                       phase |-> "launched", epoch |-> 0, exit |-> "none",
                       verdict |-> Both(NoOutcome)]
<1>1. /\ Become(p, r) /\ UNCHANGED <<graph, log>> /\ p \in Processes
      /\ o.pc = "started" /\ o.rows = <<>> /\ subs' = subs \cup {made(i) : i \in o.wave}
  BY DEF Launch, At, Processes
<1>2. ProcTyped(graph, o)
  BY <1>1 DEF Base
<1>3. /\ DOMAIN r = Fields /\ r.pc = "wave" /\ r.rows = <<>> /\ r.seq = o.seq /\ r.todo = o.todo
      /\ r.wave = o.wave /\ r.calls = o.calls
  BY <1>1, <1>2 DEF ProcTyped, Fields
<1> HIDE DEF r
<1>4. ProcTyped(graph, r)
  BY <1>1, <1>2, <1>3 DEF ProcTyped, Pcs
<1>5. ASSUME NEW i \in o.wave PROVE SubTyped(graph, made(i))
  <2>1. i.node \in Workers(graph) /\ i.attempt \in Nat \ {0} /\ i.task \in TaskNames
    BY <1>2 DEF ProcTyped, WaveItems
  <2>2. DOMAIN made(i) = {"by", "node", "attempt", "task", "phase", "epoch", "exit", "verdict"}
    OBVIOUS
  <2> QED BY <2>1, <2>2 DEF SubTyped, Phases
<1>6. \A i \in o.wave : /\ made(i).node = i.node /\ made(i).attempt = i.attempt /\ made(i).task = i.task
                        /\ made(i).phase = "launched"
  OBVIOUS
<1> HIDE DEF made
<1>7. \A s \in subs' : s \in subs \/ \E i \in o.wave : s = made(i)
  BY <1>1
<1>8. \A s \in subs' : SubTyped(graph, s)
  BY <1>5, <1>7 DEF Base
<1>9. DOMAIN proc' = Processes /\ proc'[p] = r /\ \A q \in Processes \ {p} : proc'[q] = proc[q]
  BY <1>1 DEF Become, Base
<1>10. \A q \in Processes : ProcTyped(graph, proc'[q])
  BY <1>4, <1>9 DEF Base
<1>11. Base'
  BY <1>1, <1>8, <1>9, <1>10 DEF Base
<1>12. \A s \in subs' : s \in subs \/ \E i \in o.wave :
                 /\ s.node = i.node /\ s.attempt = i.attempt /\ s.task = i.task
                 /\ s.phase = "launched"
  BY <1>6, <1>7
<1> HIDE DEF o
<1> QED BY <1>1, <1>3, <1>9, <1>11, <1>12 DEF o

LEMMA RecordBase ==
  ASSUME Base, NEW p \in Runners, NEW s \in subs, Record(p, s)
  PROVE  /\ Base' /\ \A q \in Processes \ {p} : proc'[q] = proc[q]
         /\ proc[p].rows = <<>> /\ subs' \subseteq subs
         /\ LET o == proc[p]  r == proc'[p]
                v == IF IsAgent(s.node) THEN s.verdict ELSE ToolOutcome(s.node, s.exit) IN
            /\ r.pc = "wave" /\ r.seq = o.seq /\ r.todo = o.todo /\ r.wave \subseteq o.wave
            /\ r.rows = <<OutcomeRow(s.node, s.attempt, s.task, v.claimed, v.outcome)>>
            /\ IsAgent(s.node) => s.phase = "read"
<1> DEFINE o == proc[p]
           v == IF IsAgent(s.node) THEN s.verdict ELSE ToolOutcome(s.node, s.exit)
           row == OutcomeRow(s.node, s.attempt, s.task, v.claimed, v.outcome)
           wave == {i \in o.wave : i.node # s.node}
           r == [o EXCEPT !.rows = <<row>>, !.wave = wave]
<1>1. /\ Become(p, r) /\ UNCHANGED <<graph, log>> /\ p \in Processes
      /\ o.pc = "wave" /\ o.rows = <<>> /\ subs' = subs \ {s}
      /\ s.phase = IF IsAgent(s.node) THEN "read" ELSE "exited"
  BY DEF Record, At, Processes
<1>2. ProcTyped(graph, o) /\ SubTyped(graph, s)
  BY <1>1 DEF Base
<1>3. v.claimed \in Outcomes /\ v.outcome \in Outcomes
  <2>1. CASE IsAgent(s.node)
    BY <1>1, <1>2, <2>1 DEF SubTyped
  <2>2. CASE ~IsAgent(s.node)
    <3>1. s.exit \in {"ok", "error", "timeout"}
      BY <1>1, <1>2, <2>2 DEF SubTyped, IsAgent, Node
    <3> QED BY <2>2, <3>1, VerdictTypes
  <2> QED BY <2>1, <2>2
<1> HIDE DEF v
<1>4. row \in Rows(graph)
  <2>1. s.node \in Workers(graph) /\ s.attempt \in Nat \ {0} /\ s.task \in TaskNames
    BY <1>2 DEF SubTyped
  <2>2. row \in OutcomeRows(graph)
    BY <1>3, <2>1 DEF OutcomeRows
  <2> QED BY <2>2 DEF Rows
<1> HIDE DEF row
<1>5. <<row>> \in Seq(Rows(graph)) /\ <<row>> # <<>>
  BY <1>4
<1>6. wave \subseteq o.wave
  OBVIOUS
<1> HIDE DEF wave
<1>7. /\ DOMAIN r = Fields /\ r.pc = "wave" /\ r.rows = <<row>> /\ r.seq = o.seq /\ r.todo = o.todo
      /\ r.wave = wave /\ r.calls = o.calls
  BY <1>1, <1>2 DEF ProcTyped, Fields
<1> HIDE DEF r
<1>8. ProcTyped(graph, r)
  BY <1>2, <1>5, <1>6, <1>7 DEF ProcTyped, Pcs
<1>9. DOMAIN proc' = Processes /\ proc'[p] = r /\ \A q \in Processes \ {p} : proc'[q] = proc[q]
  BY <1>1 DEF Become, Base
<1>10. \A q \in Processes : ProcTyped(graph, proc'[q])
  BY <1>8, <1>9 DEF Base
<1>11. Base' /\ subs' \subseteq subs
  BY <1>1, <1>9, <1>10 DEF Base
<1> QED BY <1>1, <1>6, <1>7, <1>9, <1>11 DEF v, row

\* What happens to something that was started: another state of the same attempt.
Same(s, new) == new.node = s.node /\ new.attempt = s.attempt /\ new.task = s.task

LEMMA ReplaceTyped ==
  ASSUME Base, UNCHANGED <<graph, log, proc>>, NEW s \in subs,
         \A new \in subs' : new \in subs \/ (SubTyped(graph, new) /\ Same(s, new))
  PROVE  Base' /\ \A new \in subs' : \E old \in subs : Same(old, new)
BY SubsKept DEF Same

LEMMA ExitsTyped ==
  ASSUME Base, NEW s \in subs, NEW exit \in {"ok", "error", "busy"}, Exits(s, exit),
         exit = "busy" => graph.nodes[s.node].kind = "agent"
  PROVE  \A new \in subs' : new \in subs \/
           (SubTyped(graph, new) /\ Same(s, new) /\ new.phase = "exited")
<1> DEFINE x == [s EXCEPT !.phase = "exited", !.exit = exit]
<1>1. subs' \subseteq subs \cup {x}
  BY DEF Exits, Replace
<1>2. SubTyped(graph, s)
  BY DEF Base
<1>3. /\ DOMAIN x = DOMAIN s /\ x.by = s.by /\ x.node = s.node /\ x.attempt = s.attempt /\ x.task = s.task
      /\ x.phase = "exited" /\ x.exit = exit
  BY <1>2 DEF SubTyped
<1> HIDE DEF x
<1>4. SubTyped(graph, x) /\ Same(s, x)
  BY <1>2, <1>3 DEF SubTyped, Phases, Same
<1> QED BY <1>1, <1>3, <1>4

LEMMA WorksBase ==
  ASSUME Base, NEW s \in subs, Enter(s) \/ Work(s) \/ Land(s) \/ Tool(s) \/ Return(s)
  PROVE  /\ Base' /\ UNCHANGED <<graph, log, proc>>
         /\ \A new \in subs' : new \in subs \/ 
              (Same(s, new) /\ (new.phase = "read" =>
                                s.phase = "exited" /\ new.verdict = AgentOutcome(s.node, s.task, s.exit)))
<1>1. UNCHANGED <<graph, log, proc>>
  BY DEF Enter, Work, Land, Tool, Return, Still
<1>2. SubTyped(graph, s)
  BY DEF Base
<1> DEFINE Good(new) == /\ SubTyped(graph, new) /\ Same(s, new)
                        /\ new.phase = "read" =>
                             s.phase = "exited" /\ new.verdict = AgentOutcome(s.node, s.task, s.exit)
<1>3. ASSUME NEW x, DOMAIN x = DOMAIN s, x.by = s.by, x.node = s.node, x.attempt = s.attempt,
             x.task = s.task, x.exit = s.exit, x.phase \in {"working", "landing"}, IsAgent(s.node),
             x.phase = "landing" => Lands(graph, s.node)
      PROVE  Good(x)
  BY <1>2, <1>3 DEF SubTyped, Phases, Same, IsAgent, Node
<1>4. \A new \in subs' : new \in subs \/ Good(new)
  <2>1. ASSUME NEW exit \in {"ok", "error", "busy"}, Exits(s, exit),
               exit = "busy" => graph.nodes[s.node].kind = "agent"
        PROVE  \A new \in subs' : new \in subs \/ Good(new)
    BY <2>1, ExitsTyped
  <2>2. CASE Enter(s)
    <3> DEFINE x == [s EXCEPT !.phase = "working", !.epoch = plan[s.task].epoch + 1]
               y == [s EXCEPT !.phase = "landing"]
    <3>1. /\ IsAgent(s.node)
          /\ Replace(s, x) \/ (Replace(s, y) /\ Node(s.node).mode = "land") \/ Exits(s, "error")
      BY <2>2 DEF Enter
    <3>2. Good(x)
      <4>1. /\ DOMAIN x = DOMAIN s /\ x.by = s.by /\ x.node = s.node /\ x.attempt = s.attempt
            /\ x.task = s.task /\ x.exit = s.exit /\ x.phase = "working"
        BY <1>2 DEF SubTyped
      <4> HIDE DEF x, Good
      <4> QED BY <1>3, <3>1, <4>1
    <3>3. ASSUME Node(s.node).mode = "land" PROVE Good(y)
      <4>1. /\ DOMAIN y = DOMAIN s /\ y.by = s.by /\ y.node = s.node /\ y.attempt = s.attempt
            /\ y.task = s.task /\ y.exit = s.exit /\ y.phase = "landing"
        BY <1>2 DEF SubTyped
      <4>2. Lands(graph, s.node)
        BY <3>1, <3>3 DEF Lands, IsAgent, Node
      <4> HIDE DEF y, Good
      <4> QED BY <1>3, <3>1, <4>1, <4>2
    <3> HIDE DEF x, y, Good
    <3> QED BY <2>1, <3>1, <3>2, <3>3 DEF Replace
  <2>3. CASE Work(s)
    <3> DEFINE y == [s EXCEPT !.phase = "landing"]
    <3>1. /\ s.phase = "working"
          /\ (Replace(s, y) /\ Node(s.node).mode = "land") \/ Exits(s, "ok") \/ Exits(s, "error")
      BY <2>3 DEF Work
    <3>2. IsAgent(s.node)
      BY <1>2, <3>1 DEF SubTyped, IsAgent, Node
    <3>3. ASSUME Node(s.node).mode = "land" PROVE Good(y)
      <4>1. /\ DOMAIN y = DOMAIN s /\ y.by = s.by /\ y.node = s.node /\ y.attempt = s.attempt
            /\ y.task = s.task /\ y.exit = s.exit /\ y.phase = "landing"
        BY <1>2 DEF SubTyped
      <4>2. Lands(graph, s.node)
        BY <3>2, <3>3 DEF Lands, IsAgent, Node
      <4> HIDE DEF y, Good
      <4> QED BY <1>3, <3>2, <4>1, <4>2
    <3> HIDE DEF y, Good
    <3> QED BY <2>1, <3>1, <3>3 DEF Replace
  <2>4. CASE Land(s)
    <3>1. s.phase = "landing" /\ (Exits(s, "ok") \/ Exits(s, "busy") \/ Exits(s, "error"))
      BY <2>4 DEF Land
    <3>2. graph.nodes[s.node].kind = "agent"
      BY <1>2, <3>1 DEF SubTyped
    <3> HIDE DEF Good
    <3> QED BY <2>1, <3>1, <3>2
  <2>5. CASE Tool(s)
    <3>1. Exits(s, "ok") \/ Exits(s, "error")
      BY <2>5 DEF Tool
    <3> HIDE DEF Good
    <3> QED BY <2>1, <3>1
  <2>6. CASE Return(s)
    <3> DEFINE v == AgentOutcome(s.node, s.task, s.exit)
               x == [s EXCEPT !.phase = "read", !.verdict = v]
    <3>1. IsAgent(s.node) /\ s.phase = "exited" /\ Replace(s, x)
      BY <2>6 DEF Return
    <3>2. s.exit \in {"ok", "error", "busy", "timeout"}
      BY <1>2, <3>1 DEF SubTyped
    <3>3. v.claimed \in Outcomes /\ v.outcome \in Outcomes
      BY <3>2, VerdictTypes
    <3> HIDE DEF v
    <3>4. /\ DOMAIN x = DOMAIN s /\ x.by = s.by /\ x.node = s.node /\ x.attempt = s.attempt
          /\ x.task = s.task /\ x.exit = s.exit /\ x.phase = "read" /\ x.verdict = v
      BY <1>2 DEF SubTyped
    <3> HIDE DEF x
    <3>5. Good(x)
      BY <1>2, <3>1, <3>3, <3>4 DEF SubTyped, Phases, Same, IsAgent, Node, v
    <3> HIDE DEF Good
    <3> QED BY <3>1, <3>5 DEF Replace
  <2> QED BY <2>2, <2>3, <2>4, <2>5, <2>6
<1> HIDE DEF Good
<1>5. Base'
  BY <1>1, <1>4, SubsKept DEF Good
<1> QED BY <1>1, <1>4, <1>5 DEF Good

LEMMA TimeoutBase ==
  ASSUME Base, NEW s \in subs, Timeout(s)
  PROVE  /\ Base' /\ UNCHANGED <<graph, log, proc>>
         /\ \A new \in subs' : new \in subs \/ (Same(s, new) /\ new.phase # "read")
<1> DEFINE over == [s EXCEPT !.phase = "exited", !.exit = "timeout"]
           alone == [s EXCEPT !.by = Nobody, !.exit = "timeout"]
<1>1. UNCHANGED <<graph, log, proc>> /\ s.phase \in {"launched", "working", "landing"}
      /\ subs' \subseteq subs \cup {over, alone}
  BY DEF Timeout, Replace
<1>2. SubTyped(graph, s)
  BY DEF Base
<1>3. /\ DOMAIN over = DOMAIN s /\ over.by = s.by /\ over.node = s.node /\ over.attempt = s.attempt
      /\ over.task = s.task /\ over.exit = "timeout" /\ over.phase = "exited"
  BY <1>2 DEF SubTyped
<1>4. /\ DOMAIN alone = DOMAIN s /\ alone.by = Nobody /\ alone.node = s.node /\ alone.attempt = s.attempt
      /\ alone.task = s.task /\ alone.exit = "timeout" /\ alone.phase = s.phase
  BY <1>2 DEF SubTyped
<1> HIDE DEF over, alone
<1>5. SubTyped(graph, over) /\ Same(s, over) /\ over.phase # "read"
  BY <1>2, <1>3 DEF SubTyped, Phases, Same
<1>6. SubTyped(graph, alone) /\ Same(s, alone) /\ alone.phase # "read"
  BY <1>1, <1>2, <1>4 DEF SubTyped, Phases, Same
<1>7. \A new \in subs' : new \in subs \/ (SubTyped(graph, new) /\ Same(s, new) /\ new.phase # "read")
  BY <1>1, <1>5, <1>6
<1> QED BY <1>1, <1>7, SubsKept

LEMMA CrashBase ==
  ASSUME Base, NEW p \in Processes, Crash(p)
  PROVE  /\ Base' /\ UNCHANGED <<graph, log>> /\ proc'[p] = Off
         /\ \A q \in Processes \ {p} : proc'[q] = proc[q]
         /\ \A new \in subs' : new \in subs \/ \E s \in subs : Same(s, new) /\ new.phase # "read"
<1> DEFINE alone(s) == [s EXCEPT !.by = Nobody]
           mine == {s \in subs : s.by = p}
           kept == {m \in mine : m.phase \in {"launched", "working", "landing"}}
<1>1. UNCHANGED <<graph, log>> /\ Become(p, Off)
      /\ subs' \subseteq subs \cup {alone(s) : s \in kept}
  BY DEF Crash, End
<1>2. ASSUME NEW s \in kept PROVE SubTyped(graph, alone(s)) /\ Same(s, alone(s)) /\ alone(s).phase # "read"
  <2> DEFINE x == alone(s)
  <2>1. SubTyped(graph, s) /\ s.phase \in {"launched", "working", "landing"}
    BY DEF Base
  <2>2. /\ DOMAIN x = DOMAIN s /\ x.by = Nobody /\ x.node = s.node /\ x.attempt = s.attempt
        /\ x.task = s.task /\ x.exit = s.exit /\ x.phase = s.phase
    BY <2>1 DEF SubTyped
  <2> HIDE DEF x
  <2>3. SubTyped(graph, x) /\ Same(s, x) /\ x.phase # "read"
    BY <2>1, <2>2 DEF SubTyped, Phases, Same
  <2> QED BY <2>3 DEF x
<1> HIDE DEF alone
<1>3. ASSUME NEW new \in subs', new \notin subs
      PROVE  SubTyped(graph, new) /\ \E s \in subs : Same(s, new) /\ new.phase # "read"
  <2>1. PICK s \in kept : new = alone(s)
    BY <1>1, <1>3
  <2> QED BY <1>2, <2>1
<1>4. \A s \in subs' : SubTyped(graph, s)
  BY <1>3 DEF Base
<1>5. DOMAIN proc' = Processes /\ proc'[p] = Off /\ \A q \in Processes \ {p} : proc'[q] = proc[q]
  BY <1>1 DEF Become, Base
<1>6. \A q \in Processes : ProcTyped(graph, proc'[q])
  BY <1>5, OffTyped DEF Base
<1>7. Base'
  BY <1>1, <1>4, <1>5, <1>6 DEF Base
<1> QED BY <1>1, <1>3, <1>5, <1>7

LEMMA DecideBase ==
  ASSUME Base, NEW n \in DOMAIN graph.nodes, NEW d \in Outcomes, Decide(n, d)
  PROVE  /\ Base' /\ IsGate(graph, n)
         /\ LET r == proc'[Parent] IN
            /\ r.pc = "started" /\ r.rows = <<GateRow(n, Tried(log.st, n), d)>>
            /\ r.seq = 0 /\ r.todo = <<>> /\ r.wave = {}
         /\ \A q \in Processes \ {Parent} : proc'[q] = proc[q]
<1> DEFINE row == GateRow(n, log.st.nodes[n].attempts + 1, d)
           r == [Off EXCEPT !.pc = "started", !.rows = <<row>>]
<1>1. Become(Parent, r) /\ UNCHANGED <<graph, log, subs>> /\ Parent \in Processes /\ IsGate(graph, n)
  BY DEF Decide, Processes, IsGate, Node
<1>2. log.st \in States(graph)
  BY DEF Base, LogTyped
<1>3. log.st.nodes[n].attempts + 1 \in Nat \ {0} /\ n \in Gates(graph)
  BY <1>1, <1>2 DEF States, NodeStates, Gates
<1>4. row \in Rows(graph)
  <2>1. row \in GateRows(graph)
    BY <1>3 DEF GateRows
  <2> QED BY <2>1 DEF Rows
<1>5. row = GateRow(n, Tried(log.st, n), d)
  BY DEF Tried
<1> HIDE DEF row
<1>6. <<row>> \in Seq(Rows(graph)) /\ <<row>> # <<>>
  BY <1>4
<1>7. /\ DOMAIN r = Fields /\ r.pc = "started" /\ r.rows = <<row>> /\ r.seq = 0 /\ r.todo = <<>>
      /\ r.wave = {} /\ r.calls = 0
  BY DEF Off, Fields
<1> HIDE DEF r
<1>8. r.todo \in Seq(Items(graph)) /\ r.wave \in SUBSET WaveItems(graph) /\ r.pc \in Pcs
  BY <1>7 DEF Pcs
<1>9. ProcTyped(graph, r)
  BY <1>6, <1>7, <1>8 DEF ProcTyped
<1> QED BY <1>1, <1>5, <1>7, <1>9, BecomeKept

LEMMA DecidedBase ==
  ASSUME Base, Decided
  PROVE  Base' /\ proc'[Parent] = Off /\ \A q \in Processes \ {Parent} : proc'[q] = proc[q]
BY BecomeKept, OffTyped DEF Decided, Processes

LEMMA TasksBase ==
  ASSUME Base, NEW t \in Tasks, Expire(t) \/ Other(t)
  PROVE  Base' /\ UNCHANGED <<graph, log, proc, subs>>
<1>1. UNCHANGED <<graph, log, proc, subs>>
  BY DEF Expire, Other, Still
<1> QED BY <1>1 DEF Base

LEMMA InitBase ==
  ASSUME Init
  PROVE  Base
<1> DEFINE st == [nodes |-> [n \in DOMAIN graph.nodes |-> Unvisited], steps |-> 0, tries |-> {},
                  repeats |-> Unspent(graph), bound |-> NoTask]
<1>1. graph \in Specs /\ subs = {} /\ proc = [p \in Processes |-> Off]
      /\ log = [keys |-> {}, len |-> 1, seq |-> 1, st |-> st]
  BY DEF Init, Processes
<1>2. Unvisited \in NodeStates
  BY DEF Unvisited, NodeStates, TaskNames, Results
<1>3. Unspent(graph) \in Budgets(graph)
  BY DEF Unspent, Budgets
<1>4. st \in States(graph)
  BY <1>2, <1>3 DEF States, TaskNames
<1>5. \A n \in DOMAIN graph.nodes : st.nodes[n].status # "active"
  BY DEF Unvisited
<1>6. st.tries = {} /\ IsFiniteSet(st.tries)
  BY FS_EmptySet
<1> HIDE DEF st
<1>7. LogTyped(graph, log)
  BY <1>1, <1>4, <1>5, <1>6 DEF LogTyped, Gates, Workers
<1>8. \A p \in Processes : ProcTyped(graph, proc[p])
  BY <1>1, OffTyped
<1> QED BY <1>1, <1>7, <1>8 DEF Base

\* Next, an action at a time.
LEMMA NextCases ==
  ASSUME Next
  PROVE  \/ \E p \in Runners : Run(p) \/ Resume(p) \/ Reconcile(p) \/ Step(p) \/ Stop(p) \/ Plan(p)
                               \/ Launch(p) \/ Leave(p) \/ \E s \in subs : Record(p, s)
         \/ \E p \in Processes : Prepare(p) \/ Write(p) \/ Crash(p)
         \/ \E n \in DOMAIN graph.nodes : \E d \in Outcomes : Decide(n, d)
         \/ Decided
         \/ \E s \in subs : Enter(s) \/ Work(s) \/ Land(s) \/ Tool(s) \/ Return(s) \/ Timeout(s)
         \/ \E t \in Tasks : Expire(t) \/ Other(t)
BY DEF Next, Calls, Coordinates, Appends, Works, Processes

\* Only an append changes the log, and nothing the graph.
LEMMA GraphFrozen ==
  ASSUME [Next]_vars
  PROVE  /\ UNCHANGED graph
         /\ UNCHANGED log \/ \E p \in Processes : Write(p)
<1>1. CASE UNCHANGED vars
  BY <1>1 DEF vars
<1>2. ASSUME NEW p \in Runners,
             Run(p) \/ Resume(p) \/ Reconcile(p) \/ Step(p) \/ Stop(p) \/ Plan(p) \/ Launch(p) \/ Leave(p)
      PROVE  UNCHANGED <<graph, log>>
  BY <1>2 DEF Run, Resume, Reconcile, Step, Stop, Plan, Launch, Leave
<1>3. ASSUME NEW p \in Runners, NEW s \in subs, Record(p, s)
      PROVE  UNCHANGED <<graph, log>>
  BY <1>3 DEF Record
<1>4. ASSUME NEW p \in Processes, Prepare(p) \/ Crash(p)
      PROVE  UNCHANGED <<graph, log>>
  BY <1>4 DEF Prepare, Crash
<1>5. ASSUME NEW p \in Processes, Write(p)
      PROVE  UNCHANGED graph
  BY <1>5 DEF Write
<1>6. CASE Decided \/ \E n \in DOMAIN graph.nodes : \E d \in Outcomes : Decide(n, d)
  BY <1>6 DEF Decided, Decide
<1>7. ASSUME NEW s \in subs, Enter(s) \/ Work(s) \/ Land(s) \/ Tool(s) \/ Return(s) \/ Timeout(s)
      PROVE  UNCHANGED <<graph, log>>
  BY <1>7 DEF Enter, Work, Land, Tool, Return, Timeout, Still
<1>8. ASSUME NEW t \in Tasks, Expire(t) \/ Other(t)
      PROVE  UNCHANGED <<graph, log>>
  BY <1>8 DEF Expire, Other, Still
<1> QED BY <1>1, <1>2, <1>3, <1>4, <1>5, <1>6, <1>7, <1>8, NextCases

LEMMA BaseStep ==
  ASSUME Base, [Next]_vars
  PROVE  Base'
<1>1. CASE UNCHANGED vars
  BY <1>1 DEF Base, vars
<1>2. CASE Next
  BY <1>2, NextCases, PrepareBase, WriteBase, CrashBase, RunBase, ResumeBase, ReconcileBase, StepBase,
     StopBase, PlanBase, LaunchBase, RecordBase, LeaveBase, DecideBase, DecidedBase, WorksBase,
     TimeoutBase, TasksBase
<1> QED BY <1>1, <1>2

\* What every run consists of: a graph, a log with its projection, invocations
\* with the rows that they still append, and what those have started.
THEOREM BaseCorrect == Spec => []Base
<1>1. Init => Base
  BY InitBase
<1>2. Base /\ [Next]_vars => Base'
  BY BaseStep
<1> QED BY <1>1, <1>2, PTL DEF Spec

-----------------------------------------------------------------------------
(* Attempts in order.                                                      *)
LEMMA KeysGrow ==
  ASSUME NEW keys, NEW more, keys \subseteq more
  PROVE  /\ \A n, a : Opened(keys, n, a) => Opened(more, n, a)
         /\ \A n, k : SettledTo(keys, n, k) => SettledTo(more, n, k)
BY DEF Opened, Settled, SettledTo

LEMMA ProcGrows ==
  ASSUME NEW keys, NEW more, keys \subseteq more, NEW r, ProcOrdered(keys, r)
  PROVE  ProcOrdered(more, r)
<1>1. ASSUME NEW i \in DOMAIN r.rows PROVE RowOrdered(more, r.rows, i)
  <2>1. RowOrdered(keys, r.rows, i)
    BY DEF ProcOrdered
  <2> QED BY <2>1, KeysGrow DEF RowOrdered
<1> QED BY <1>1, KeysGrow DEF ProcOrdered

\* A process that has nothing to append, and what it starts is open.
LEMMA QuietOrdered ==
  ASSUME NEW keys, NEW r, ProcOrdered(keys, r), r.rows = <<>>
  PROVE  \A i \in r.wave : Opened(keys, i.node, i.attempt)
BY DEF ProcOrdered

LEMMA OffOrdered == \A keys : ProcOrdered(keys, Off)
BY DEF ProcOrdered, Off

\* Nothing but a write changes the log.
LEMMA OrderedKept ==
  ASSUME Ordered, Base, UNCHANGED <<graph, log>>, NEW p \in Processes,
         \A q \in Processes \ {p} : proc'[q] = proc[q], ProcOrdered(log.keys, proc'[p]),
         \A s \in subs' : Opened(log.keys, s.node, s.attempt)
  PROVE  Ordered'
BY DEF Ordered

LEMMA SubsOrdered ==
  ASSUME Ordered, UNCHANGED <<graph, log, proc>>,
         \A new \in subs' : new \in subs \/ \E s \in subs : Same(s, new)
  PROVE  Ordered'
BY DEF Ordered, Same

\* A row that is new to the log begins the attempt after the last, or ends the
\* last, which is open.
LEMMA Fresh ==
  ASSUME Base, LogOrdered(graph, log), NEW rows, rows # <<>>, RowOrdered(log.keys, rows, 1),
         NEW r, r = rows[1], r.key \notin log.keys
  PROVE  LET s == log.st.nodes[r.node] IN
         /\ Started(graph, r) => r.attempt = s.attempts + 1 /\ SettledTo(log.keys, r.node, s.attempts)
         /\ Ended(graph, r) => r.attempt = s.attempts /\ s.status = "active"
         /\ Gated1(graph, r) => r.attempt = s.attempts + 1 /\ SettledTo(log.keys, r.node, s.attempts)
<1> DEFINE s == log.st.nodes[r.node]
           n == r.node
           a == r.attempt
           keys == log.keys
<1>1. LogTyped(graph, log)
  BY DEF Base
<1>2. ASSUME n \in DOMAIN graph.nodes
      PROVE  /\ s.attempts \in Nat
             /\ \A b \in 1 .. s.attempts : Opened(keys, n, b)
             /\ SettledTo(keys, n, IF s.status = "active" THEN s.attempts - 1 ELSE s.attempts)
             /\ \A b \in Nat : Opened(keys, n, b) \/ Settled(keys, n, b) => b <= s.attempts
             /\ \A b \in Nat : /\ <<"gate", n, b>> \in keys => IsGate(graph, n)
                               /\ <<"start", n, b>> \in keys \/ <<"outcome", n, b>> \in keys => ~IsGate(graph, n)
  BY <1>1, <1>2 DEF LogOrdered, LogTyped, States, NodeStates
<1> HIDE DEF s, n, a, keys
<1>3. ASSUME n \in DOMAIN graph.nodes, a \in Nat \ {0}, SettledTo(keys, n, a - 1)
      PROVE  a <= s.attempts + 1
  <2>1. SUFFICES ASSUME a > s.attempts + 1 PROVE FALSE
    BY <1>2, <1>3
  <2>2. s.attempts + 1 \in 1 .. a - 1 /\ s.attempts + 1 \in Nat
    BY <1>2, <1>3, <2>1
  <2>3. Settled(keys, n, s.attempts + 1)
    BY <1>3, <2>2 DEF SettledTo
  <2>4. s.attempts + 1 <= s.attempts
    BY <1>2, <1>3, <2>2, <2>3
  <2> QED BY <1>2, <1>3, <2>4
<1>4. ASSUME n \in DOMAIN graph.nodes, a \in Nat \ {0}, SettledTo(keys, n, a - 1), a = s.attempts + 1
      PROVE  SettledTo(keys, n, s.attempts)
  BY <1>2, <1>4
<1>5. CASE Started(graph, r)
  <2>1. /\ n \in DOMAIN graph.nodes /\ ~IsGate(graph, n) /\ a \in Nat \ {0}
        /\ r.key = <<"start", n, a>> /\ SettledTo(keys, n, a - 1)
    BY <1>5 DEF Started, Workers, Gates, RowOrdered, n, a, keys
  <2>2. ~(a <= s.attempts)
    <3>1. SUFFICES ASSUME a \in 1 .. s.attempts PROVE FALSE
      BY <1>2, <2>1
    <3>2. Opened(keys, n, a)
      BY <1>2, <2>1, <3>1
    <3> QED BY <1>2, <2>1, <3>2 DEF Opened, keys
  <2>3. a = s.attempts + 1
    BY <1>2, <1>3, <2>1, <2>2
  <2>4. SettledTo(keys, n, s.attempts) /\ r.event = "node_started"
    BY <1>4, <1>5, <2>1, <2>3 DEF Started
  <2> QED BY <2>3, <2>4 DEF Ended, Gated1, n, a, s, keys
<1>6. CASE Ended(graph, r)
  <2>1. /\ n \in DOMAIN graph.nodes /\ ~IsGate(graph, n) /\ a \in Nat \ {0}
        /\ r.key = <<"outcome", n, a>> /\ r.event = "node_outcome"
    BY <1>6 DEF Ended, Workers, Gates, n, a
  <2>2. Opened(keys, n, a)
    BY <2>1 DEF RowOrdered, n, a, keys
  <2>3. a <= s.attempts /\ a \in 1 .. s.attempts
    BY <1>2, <2>1, <2>2
  <2>4. ~Settled(keys, n, a)
    BY <1>2, <2>1 DEF Settled, keys
  <2>5. s.status = "active" /\ ~(a \in 1 .. s.attempts - 1)
    BY <1>2, <2>1, <2>3, <2>4 DEF SettledTo
  <2>6. a = s.attempts
    BY <1>2, <2>1, <2>3, <2>5
  <2> QED BY <2>1, <2>5, <2>6 DEF Started, Gated1, n, a, s
<1>7. CASE Gated1(graph, r)
  <2>1. /\ n \in DOMAIN graph.nodes /\ IsGate(graph, n) /\ n \in Gates(graph) /\ a \in Nat \ {0}
        /\ r.key = <<"gate", n, a>> /\ SettledTo(keys, n, a - 1) /\ r.event = "gate_decision"
    BY <1>7 DEF Gated1, Gates, RowOrdered, n, a, keys
  <2>2. s.status # "active"
    BY <1>1, <2>1 DEF LogTyped, s, n
  <2>3. ~(a <= s.attempts)
    <3>1. SUFFICES ASSUME a \in 1 .. s.attempts PROVE FALSE
      BY <1>2, <2>1
    <3>2. Settled(keys, n, a)
      BY <1>2, <2>1, <2>2, <3>1 DEF SettledTo
    <3> QED BY <1>2, <2>1, <3>2 DEF Settled, keys
  <2>4. a = s.attempts + 1
    BY <1>2, <1>3, <2>1, <2>3
  <2>5. SettledTo(keys, n, s.attempts)
    BY <1>4, <2>1, <2>4
  <2> QED BY <2>1, <2>4, <2>5 DEF Started, Ended, n, a, s, keys
<1>8. CASE ~Started(graph, r) /\ ~Ended(graph, r) /\ ~Gated1(graph, r)
  BY <1>8
<1> QED BY <1>5, <1>6, <1>7, <1>8

\* What one write makes of the log, as far as the order of attempts goes.
LEMMA LogOrderedStep ==
  ASSUME Base, LogOrdered(graph, log), NEW rows, rows # <<>>, RowOrdered(log.keys, rows, 1),
         rows[1] \in Rows(graph), NEW seq \in Nat
  PROVE  LogOrdered(graph, Appended(log, rows[1], seq))
<1> DEFINE r == rows[1]
           to == Appended(log, r, seq)
           n == r.node
           a == r.attempt
           keys == log.keys
           s == log.st.nodes[n]
           t == to.st.nodes[n]
<1>1. LogTyped(graph, log)
  BY DEF Base
<1>2. to.keys = keys \cup {r.key} /\ to.st = IF r.key \in keys THEN log.st ELSE Project(log.st, r, seq)
  BY AppendedIs
<1> HIDE DEF r, to
<1>3. \A k, i : Opened(keys, k, i) => Opened(to.keys, k, i)
  BY <1>2, KeysGrow
<1>4. \A k, i : SettledTo(keys, k, i) => SettledTo(to.keys, k, i)
  BY <1>2, KeysGrow
<1>5. CASE r.key \in keys
  <2>1. to.keys = keys /\ to.st = log.st
    BY <1>2, <1>5
  <2> QED BY <2>1 DEF LogOrdered, to, r
<1>6. CASE r.key \notin keys /\ Other1(graph, r)
  <2>1. to.st.nodes = log.st.nodes
    BY <1>1, <1>2, <1>6, FoldsOther DEF LogTyped
  <2>2. \A k, i : /\ <<"start", k, i>> \in to.keys <=> <<"start", k, i>> \in keys
                  /\ <<"outcome", k, i>> \in to.keys <=> <<"outcome", k, i>> \in keys
                  /\ <<"gate", k, i>> \in to.keys <=> <<"gate", k, i>> \in keys
    BY <1>2, <1>6 DEF Other1
  <2>3. \A k, i : /\ Opened(to.keys, k, i) <=> Opened(keys, k, i)
                  /\ Settled(to.keys, k, i) <=> Settled(keys, k, i)
    BY <2>2 DEF Opened, Settled
  <2>4. \A k \in DOMAIN graph.nodes, i \in Nat :
            /\ Opened(to.keys, k, i) \/ Settled(to.keys, k, i) => i <= to.st.nodes[k].attempts
            /\ <<"gate", k, i>> \in to.keys => IsGate(graph, k)
            /\ <<"start", k, i>> \in to.keys \/ <<"outcome", k, i>> \in to.keys => ~IsGate(graph, k)
    BY <2>1, <2>2, <2>3 DEF LogOrdered
  <2>5. \A k \in DOMAIN graph.nodes :
          /\ \A b \in 1 .. to.st.nodes[k].attempts : Opened(to.keys, k, b)
          /\ SettledTo(to.keys, k, IF to.st.nodes[k].status = "active" THEN to.st.nodes[k].attempts - 1
                                   ELSE to.st.nodes[k].attempts)
    BY <1>4, <2>1, <2>3 DEF LogOrdered
  <2> QED BY <2>4, <2>5 DEF LogOrdered, to, r
<1>7. CASE r.key \notin keys /\ (Started(graph, r) \/ Ended(graph, r) \/ Gated1(graph, r))
  <2>1. Folded(log.st, to.st, r, seq)
    BY <1>1, <1>2, <1>7, FoldsNode DEF LogTyped
  <2>2. n \in DOMAIN graph.nodes /\ a \in Nat \ {0} /\ s.attempts \in Nat
    BY <1>1, <1>7 DEF Started, Ended, Gated1, Workers, Gates, LogTyped, States, NodeStates
  <2>3. t.attempts = Max2(s.attempts, a)
    BY <2>1 DEF Folded, NodeFolded
  <2>4. /\ Started(graph, r) => a = s.attempts + 1 /\ SettledTo(keys, n, s.attempts)
        /\ Ended(graph, r) => a = s.attempts /\ s.status = "active"
        /\ Gated1(graph, r) => a = s.attempts + 1 /\ SettledTo(keys, n, s.attempts)
    BY <1>7, Fresh DEF r
  <2>5. \A m \in DOMAIN graph.nodes : m # n => to.st.nodes[m] = log.st.nodes[m]
    BY <2>1 DEF Folded
  <2>6. /\ \A b \in 1 .. s.attempts : Opened(keys, n, b)
        /\ SettledTo(keys, n, IF s.status = "active" THEN s.attempts - 1 ELSE s.attempts)
    BY <2>2 DEF LogOrdered
  <2>7. t.attempts = a
    BY <1>7, <2>2, <2>3, <2>4 DEF Max2
  <2> HIDE DEF n, a, s, t, keys
  <2>8. \A b \in 1 .. a : Opened(to.keys, n, b)
    <3>1. CASE Started(graph, r)
      <4>1. a = s.attempts + 1 /\ r.key = <<"start", n, a>>
        BY <2>4, <3>1 DEF Started, n, a
      <4>2. Opened(to.keys, n, a)
        BY <1>2, <4>1 DEF Opened
      <4>3. \A b \in 1 .. a : b = a \/ b \in 1 .. s.attempts
        BY <2>2, <4>1
      <4> QED BY <1>3, <2>6, <4>2, <4>3
    <3>2. CASE Ended(graph, r)
      BY <1>3, <2>4, <2>6, <3>2
    <3>3. CASE Gated1(graph, r)
      <4>1. a = s.attempts + 1 /\ r.key = <<"gate", n, a>>
        BY <2>4, <3>3 DEF Gated1, n, a
      <4>2. Opened(to.keys, n, a)
        BY <1>2, <4>1 DEF Opened
      <4>3. \A b \in 1 .. a : b = a \/ b \in 1 .. s.attempts
        BY <2>2, <4>1
      <4> QED BY <1>3, <2>6, <4>2, <4>3
    <3> QED BY <1>7, <3>1, <3>2, <3>3
  <2>9. SettledTo(to.keys, n, IF t.status = "active" THEN a - 1 ELSE a)
    <3>1. CASE Started(graph, r)
      <4>1. t.status = "active" /\ a - 1 = s.attempts /\ SettledTo(keys, n, s.attempts)
        BY <2>1, <2>2, <2>4, <3>1 DEF Folded, NodeFolded, Started, n, t
      <4> QED BY <1>4, <4>1
    <3>2. CASE Ended(graph, r)
      <4>1. t.status = "finished" /\ a = s.attempts /\ SettledTo(keys, n, s.attempts - 1)
            /\ r.key = <<"outcome", n, a>>
        BY <2>1, <2>4, <2>6, <3>2 DEF Folded, NodeFolded, Ended, n, a, t
      <4>2. SettledTo(to.keys, n, a - 1) /\ Settled(to.keys, n, a)
        BY <1>2, <1>4, <4>1 DEF Settled
      <4>3. \A b \in 1 .. a : b = a \/ b \in 1 .. a - 1
        BY <2>2
      <4> QED BY <4>1, <4>2, <4>3 DEF SettledTo
    <3>3. CASE Gated1(graph, r)
      <4>1. t.status = "finished" /\ a = s.attempts + 1 /\ SettledTo(keys, n, s.attempts)
            /\ r.key = <<"gate", n, a>>
        BY <2>1, <2>4, <3>3 DEF Folded, NodeFolded, Gated1, n, a, t
      <4>2. SettledTo(to.keys, n, s.attempts) /\ Settled(to.keys, n, a)
        BY <1>2, <1>4, <4>1 DEF Settled
      <4>3. \A b \in 1 .. a : b = a \/ b \in 1 .. s.attempts
        BY <2>2, <4>1
      <4> QED BY <4>1, <4>2, <4>3 DEF SettledTo
    <3> QED BY <1>7, <3>1, <3>2, <3>3
  <2>10. ASSUME NEW k \in DOMAIN graph.nodes
         PROVE  /\ \A b \in 1 .. to.st.nodes[k].attempts : Opened(to.keys, k, b)
                /\ SettledTo(to.keys, k, IF to.st.nodes[k].status = "active" THEN to.st.nodes[k].attempts - 1
                                         ELSE to.st.nodes[k].attempts)
    <3>1. CASE k = n
      BY <2>7, <2>8, <2>9, <3>1 DEF t
    <3>2. CASE k # n
      <4>1. to.st.nodes[k] = log.st.nodes[k]
        BY <2>5, <3>2
      <4>2. /\ \A b \in 1 .. log.st.nodes[k].attempts : Opened(keys, k, b)
            /\ SettledTo(keys, k, IF log.st.nodes[k].status = "active" THEN log.st.nodes[k].attempts - 1
                                  ELSE log.st.nodes[k].attempts)
        BY DEF LogOrdered, keys
      <4> QED BY <1>3, <1>4, <4>1, <4>2
    <3> QED BY <3>1, <3>2
  <2>11. \A k, i : /\ <<"start", k, i>> \in to.keys => <<"start", k, i>> \in keys \/ (k = n /\ i = a /\ ~IsGate(graph, n))
                   /\ <<"outcome", k, i>> \in to.keys => <<"outcome", k, i>> \in keys \/ (k = n /\ i = a /\ ~IsGate(graph, n))
                   /\ <<"gate", k, i>> \in to.keys => <<"gate", k, i>> \in keys \/ (k = n /\ i = a /\ IsGate(graph, n))
    BY <1>2, <1>7 DEF Started, Ended, Gated1, Workers, Gates, n, a
  <2>12. \A k \in DOMAIN graph.nodes : log.st.nodes[k].attempts \in Nat /\ to.st.nodes[k].attempts \in Nat
                                       /\ to.st.nodes[k].attempts >= log.st.nodes[k].attempts
    <3>1. ASSUME NEW k \in DOMAIN graph.nodes
          PROVE  log.st.nodes[k].attempts \in Nat /\ to.st.nodes[k].attempts \in Nat
                 /\ to.st.nodes[k].attempts >= log.st.nodes[k].attempts
      <4>1. log.st.nodes[k].attempts \in Nat
        BY <1>1 DEF LogTyped, States, NodeStates
      <4>2. CASE k = n
        BY <1>7, <2>2, <2>4, <2>7, <4>1, <4>2 DEF s, t
      <4>3. CASE k # n
        BY <2>5, <4>1, <4>3
      <4> QED BY <4>2, <4>3
    <3> QED BY <3>1
  <2>13. ASSUME NEW k \in DOMAIN graph.nodes, NEW i \in Nat
         PROVE  /\ Opened(to.keys, k, i) \/ Settled(to.keys, k, i) => i <= to.st.nodes[k].attempts
                /\ <<"gate", k, i>> \in to.keys => IsGate(graph, k)
                /\ <<"start", k, i>> \in to.keys \/ <<"outcome", k, i>> \in to.keys => ~IsGate(graph, k)
    <3>1. /\ Opened(keys, k, i) \/ Settled(keys, k, i) => i <= log.st.nodes[k].attempts
          /\ <<"gate", k, i>> \in keys => IsGate(graph, k)
          /\ <<"start", k, i>> \in keys \/ <<"outcome", k, i>> \in keys => ~IsGate(graph, k)
      BY DEF LogOrdered, keys
    <3>2. Opened(to.keys, k, i) \/ Settled(to.keys, k, i) =>
            Opened(keys, k, i) \/ Settled(keys, k, i) \/ (k = n /\ i = a)
      BY <2>11 DEF Opened, Settled
    <3>3. i <= log.st.nodes[k].attempts => i <= to.st.nodes[k].attempts
      BY <2>12
    <3>4. k = n => to.st.nodes[k].attempts = a
      BY <2>7 DEF t
    <3>5. a <= a
      BY <2>2
    <3>6. Opened(to.keys, k, i) \/ Settled(to.keys, k, i) => i <= to.st.nodes[k].attempts
      BY <3>1, <3>2, <3>3, <3>4, <3>5
    <3> QED BY <2>11, <3>1, <3>6
  <2> QED BY <2>10, <2>13 DEF LogOrdered, to, r
<1>8. Started(graph, r) \/ Ended(graph, r) \/ Gated1(graph, r) \/ Other1(graph, r)
  BY RowKinds DEF r
<1> QED BY <1>5, <1>6, <1>7, <1>8

LEMMA WriteOrdered ==
  ASSUME Base, Ordered, NEW p \in Processes, Write(p)
  PROVE  Ordered' /\ LogOrdered(graph, log)
         /\ proc[p].rows # <<>> /\ RowOrdered(log.keys, proc[p].rows, 1)
<1> DEFINE rows == proc[p].rows
           keys == log.keys
           more == log'.keys
           new == [proc[p] EXCEPT !.rows = Tail(@), !.seq = 0]
<1>1. /\ rows \in Seq(Rows(graph)) /\ rows # <<>> /\ rows[1] \in Rows(graph) /\ proc[p].seq \in Nat
      /\ proc'[p] = new /\ \A q \in Processes \ {p} : proc'[q] = proc[q]
  BY WriteBase
<1>2. log' = Appended(log, rows[1], proc[p].seq) /\ UNCHANGED <<graph, subs>>
  BY DEF Write
<1>3. ProcTyped(graph, proc[p]) /\ ProcOrdered(keys, proc[p]) /\ LogOrdered(graph, log)
  BY DEF Base, Ordered
<1>4. RowOrdered(keys, rows, 1)
  BY <1>1, <1>3 DEF ProcOrdered
<1>5. LogOrdered(graph, log')
  BY <1>1, <1>2, <1>3, <1>4, LogOrderedStep
<1>6. more = keys \cup {rows[1].key}
  BY <1>2, AppendedIs
<1>7. /\ new.rows = Tail(rows) /\ new.todo = proc[p].todo /\ new.wave = proc[p].wave
      /\ new.pc = proc[p].pc /\ new.route = proc[p].route /\ new.snap = proc[p].snap
  BY <1>3 DEF ProcTyped, Fields
<1> DEFINE rest == Tail(rows)
<1>8. \A i \in DOMAIN rest : i \in Nat \ {0} /\ i + 1 \in DOMAIN rows /\ rest[i] = rows[i + 1]
  BY <1>1
<1>9. \A j \in DOMAIN rows : j = 1 \/ (j - 1 \in DOMAIN rest /\ rest[j - 1] = rows[j])
  BY <1>1
<1> HIDE DEF rows, keys, more, new, rest
<1>10. ASSUME NEW i \in DOMAIN rest PROVE RowOrdered(more, rest, i)
  <2>1. i \in Nat \ {0} /\ i + 1 \in DOMAIN rows /\ rest[i] = rows[i + 1]
    BY <1>8
  <2>2. RowOrdered(keys, rows, i + 1)
    BY <1>3, <2>1 DEF ProcOrdered, rows
  <2> DEFINE r == rest[i]
  <2>3. /\ r.event \in {"node_started", "gate_decision"} => SettledTo(keys, r.node, r.attempt - 1)
        /\ r.event = "node_outcome" =>
             \/ Opened(keys, r.node, r.attempt)
             \/ \E j \in 1 .. i : rows[j].event = "node_started" /\ rows[j].key = <<"start", r.node, r.attempt>>
    BY <2>1, <2>2 DEF RowOrdered
  <2> HIDE DEF r
  <2>4. r.event \in {"node_started", "gate_decision"} => SettledTo(more, r.node, r.attempt - 1)
    BY <1>6, <2>3, KeysGrow
  <2>5. ASSUME r.event = "node_outcome"
        PROVE  \/ Opened(more, r.node, r.attempt)
               \/ \E j \in 1 .. i - 1 : rest[j].event = "node_started" /\ rest[j].key = <<"start", r.node, r.attempt>>
    <3>1. CASE Opened(keys, r.node, r.attempt)
      BY <1>6, <3>1, KeysGrow
    <3>2. ASSUME NEW j \in 1 .. i, rows[j].event = "node_started", rows[j].key = <<"start", r.node, r.attempt>>
          PROVE  \/ Opened(more, r.node, r.attempt)
                 \/ \E k \in 1 .. i - 1 : rest[k].event = "node_started" /\ rest[k].key = <<"start", r.node, r.attempt>>
      <4>1. CASE j = 1
        BY <1>6, <3>2, <4>1 DEF Opened
      <4>2. CASE j # 1
        <5>1. j - 1 \in 1 .. i - 1 /\ j \in 1 .. i + 1
          BY <2>1, <4>2
        <5>2. j \in DOMAIN rows
          BY <1>1, <2>1, <5>1 DEF rows
        <5>3. rest[j - 1] = rows[j]
          BY <1>9, <4>2, <5>2
        <5> QED BY <3>2, <5>1, <5>3
      <4> QED BY <4>1, <4>2
    <3> QED BY <2>3, <2>5, <3>1, <3>2
  <2> QED BY <2>4, <2>5 DEF RowOrdered, r
<1>11. ASSUME NEW i \in proc[p].wave
       PROVE  \/ Opened(more, i.node, i.attempt)
              \/ \E j \in DOMAIN rest : rest[j].key = <<"start", i.node, i.attempt>>
  <2>1. CASE Opened(keys, i.node, i.attempt)
    BY <1>6, <2>1, KeysGrow
  <2>2. ASSUME NEW j \in DOMAIN rows, rows[j].key = <<"start", i.node, i.attempt>>
        PROVE  \/ Opened(more, i.node, i.attempt)
               \/ \E k \in DOMAIN rest : rest[k].key = <<"start", i.node, i.attempt>>
    <3>1. CASE j = 1
      BY <1>6, <2>2, <3>1 DEF Opened
    <3>2. CASE j # 1
      BY <1>9, <2>2, <3>2
    <3> QED BY <3>1, <3>2
  <2> QED BY <1>3, <2>1, <2>2 DEF ProcOrdered, rows
<1>12. ProcOrdered(more, new)
  <2>1. \A i \in DOMAIN new.todo : Opened(more, new.todo[i].node, new.todo[i].attempt)
    <3>1. \A i \in DOMAIN new.todo : Opened(keys, new.todo[i].node, new.todo[i].attempt)
      BY <1>3, <1>7 DEF ProcOrdered
    <3> QED BY <1>6, <3>1, KeysGrow
  <2>2. new.pc = "routed" /\ new.route.status = "actionable" =>
          \A i \in DOMAIN new.route.nodes :
            SettledTo(more, new.route.nodes[i], new.snap.nodes[new.route.nodes[i]].attempts)
    <3>1. SUFFICES ASSUME new.pc = "routed", new.route.status = "actionable", NEW i \in DOMAIN new.route.nodes
                   PROVE  SettledTo(more, new.route.nodes[i], new.snap.nodes[new.route.nodes[i]].attempts)
      OBVIOUS
    <3>2. SettledTo(keys, new.route.nodes[i], new.snap.nodes[new.route.nodes[i]].attempts)
      BY <1>3, <1>7, <3>1 DEF ProcOrdered
    <3> QED BY <1>6, <3>2, KeysGrow
  <2> QED BY <1>7, <1>10, <1>11, <2>1, <2>2 DEF ProcOrdered, rest
<1>13. ASSUME NEW q \in Processes PROVE ProcOrdered(more, proc'[q])
  <2>1. CASE q = p
    BY <1>1, <1>12, <2>1
  <2>2. CASE q # p
    <3>1. ProcOrdered(keys, proc[q]) /\ proc'[q] = proc[q]
      BY <1>1, <2>2 DEF Ordered, keys
    <3> QED BY <1>6, <3>1, ProcGrows
  <2> QED BY <2>1, <2>2
<1>14. \A s \in subs' : Opened(more, s.node, s.attempt)
  BY <1>2, <1>6, KeysGrow DEF Ordered, keys
<1>15. Ordered'
  BY <1>2, <1>5, <1>13, <1>14 DEF Ordered, more
<1> QED BY <1>1, <1>3, <1>4, <1>15 DEF rows, keys

LEMMA PrepareOrdered ==
  ASSUME Base, Ordered, NEW p \in Processes, Prepare(p)
  PROVE  Ordered'
<1> DEFINE r == [proc[p] EXCEPT !.seq = log.seq + 1]
<1>1. UNCHANGED <<graph, log, subs>> /\ (End(p, "crashed") \/ Become(p, r)) /\ DOMAIN proc = Processes
  BY DEF Prepare, Base
<1>2. (proc'[p] = Off \/ proc'[p] = r) /\ \A q \in Processes \ {p} : proc'[q] = proc[q]
  BY <1>1 DEF End, Become
<1>3. ProcTyped(graph, proc[p]) /\ ProcOrdered(log.keys, proc[p])
  BY DEF Base, Ordered
<1>4. /\ r.pc = proc[p].pc /\ r.rows = proc[p].rows /\ r.todo = proc[p].todo /\ r.route = proc[p].route
      /\ r.snap = proc[p].snap /\ r.wave = proc[p].wave
  BY <1>3 DEF ProcTyped, Fields
<1> HIDE DEF r
<1>5. ProcOrdered(log.keys, r)
  BY <1>3, <1>4 DEF ProcOrdered
<1>6. ProcOrdered(log.keys, proc'[p])
  BY <1>2, <1>5, OffOrdered
<1> QED BY <1>1, <1>2, <1>6, OrderedKept DEF Ordered

LEMMA ResumeOrdered ==
  ASSUME Base, Ordered, NEW p \in Runners, Resume(p)
  PROVE  Ordered'
<1> DEFINE r == proc'[p]
<1>1. /\ r.pc = "reconcile" /\ r.rows = <<>> /\ r.wave = {}
      /\ \A i \in DOMAIN r.todo : /\ r.todo[i].node \in Active(log.st)
                                  /\ r.todo[i].attempt = log.st.nodes[r.todo[i].node].attempts
      /\ \A q \in Processes \ {p} : proc'[q] = proc[q]
  BY ResumeBase
<1>2. UNCHANGED <<graph, log, subs>> /\ p \in Processes
  BY DEF Resume, Processes
<1> HIDE DEF r
<1>3. ASSUME NEW n \in Active(log.st) PROVE Opened(log.keys, n, log.st.nodes[n].attempts)
  <2>1. /\ n \in DOMAIN graph.nodes /\ log.st.nodes[n].attempts \in Nat /\ log.st.nodes[n].attempts # 0
    BY ActiveWorkers DEF Base, Workers, NodeStates
  <2>2. log.st.nodes[n].attempts \in 1 .. log.st.nodes[n].attempts
    BY <2>1
  <2> QED BY <2>1, <2>2 DEF Ordered, LogOrdered
<1>4. ProcOrdered(log.keys, r)
  BY <1>1, <1>3 DEF ProcOrdered
<1> QED BY <1>1, <1>2, <1>4, OrderedKept DEF Ordered, r

LEMMA ReconcileOrdered ==
  ASSUME Base, Ordered, NEW p \in Runners, Reconcile(p)
  PROVE  Ordered'
<1> DEFINE o == proc[p]
           r == proc'[p]
           i == o.todo[1]
           v == Reconciled(i)
           row == OutcomeRow(i.node, i.attempt, i.task, v.claimed, v.outcome)
<1>1. /\ o.rows = <<>> /\ o.todo # <<>> /\ r.pc = "reconcile" /\ r.todo = Tail(o.todo) /\ r.wave = o.wave
      /\ r.rows = <<>> \/ r.rows = <<row>>
      /\ \A q \in Processes \ {p} : proc'[q] = proc[q]
  BY ReconcileBase
<1>2. UNCHANGED <<graph, log, subs>> /\ p \in Processes
  BY DEF Reconcile, Processes
<1>3. ProcOrdered(log.keys, o) /\ ProcTyped(graph, o)
  BY <1>2 DEF Ordered, Base
<1>4. o.todo \in Seq(Items(graph))
  BY <1>3 DEF ProcTyped
<1>5. 1 \in DOMAIN o.todo /\ \A k \in DOMAIN Tail(o.todo) : k + 1 \in DOMAIN o.todo /\ Tail(o.todo)[k] = o.todo[k + 1]
  BY <1>1, <1>4
<1>6. Opened(log.keys, i.node, i.attempt)
  BY <1>3, <1>5 DEF ProcOrdered
<1>7. row.event = "node_outcome" /\ row.node = i.node /\ row.attempt = i.attempt
  BY DEF OutcomeRow
<1> HIDE DEF o, r, i, row
<1>8. \A k \in DOMAIN r.todo : Opened(log.keys, r.todo[k].node, r.todo[k].attempt)
  BY <1>1, <1>3, <1>5 DEF ProcOrdered
<1>9. \A k \in DOMAIN r.rows : RowOrdered(log.keys, r.rows, k)
  BY <1>1, <1>6, <1>7 DEF RowOrdered
<1>10. \A w \in r.wave : Opened(log.keys, w.node, w.attempt)
  BY <1>1, <1>3, QuietOrdered
<1>11. ProcOrdered(log.keys, r)
  BY <1>1, <1>8, <1>9, <1>10 DEF ProcOrdered
<1> QED BY <1>1, <1>2, <1>11, OrderedKept DEF Ordered, r

\* The last row of an invocation.
LEMMA ClosingOrdered ==
  ASSUME NEW keys, NEW o, ProcOrdered(keys, o), o.rows = <<>>, NEW k, NEW r,
         r.pc = "closing", r.rows = <<FinishRow(k)>>, r.todo = o.todo, r.wave = o.wave
  PROVE  ProcOrdered(keys, r)
<1>1. FinishRow(k).event = "run_finished"
  BY DEF FinishRow
<1>2. \A i \in DOMAIN r.rows : RowOrdered(keys, r.rows, i)
  BY <1>1 DEF RowOrdered
<1>3. \A i \in r.wave : Opened(keys, i.node, i.attempt)
  BY QuietOrdered
<1> QED BY <1>2, <1>3 DEF ProcOrdered

LEMMA StepOrdered ==
  ASSUME Base, Ordered, Returns(graph), NEW p \in Runners, Step(p)
  PROVE  Ordered'
<1> DEFINE o == proc[p]
           r == proc'[p]
           v == Evaluate(graph, log.st, Proved(log.st))
           row == RouteRow(log.len + 1, v.repeats)
<1>1. /\ o.rows = <<>> /\ r.todo = o.todo /\ r.wave = o.wave
      /\ \/ r.pc = "closing" /\ r.rows = <<FinishRow(log.len + 1)>>
         \/ r.pc = "routed" /\ r.snap = log.st /\ r.route = v /\ r.rows = <<row>>
      /\ \A q \in Processes \ {p} : proc'[q] = proc[q]
  BY StepBase
<1>2. UNCHANGED <<graph, log, subs>> /\ p \in Processes
  BY DEF Step, Processes
<1>3. ProcOrdered(log.keys, o) /\ IsGraph(graph) /\ log.st \in States(graph) /\ LogOrdered(graph, log)
  BY <1>2, GraphTyped DEF Ordered, Base, LogTyped
<1>4. v.status = "actionable" =>
        v.nodes \in Seq(Workers(graph)) /\ \A i \in DOMAIN v.nodes : Candidate(graph, log.st, v.nodes[i])
  BY <1>3, EvaluateSound
<1>5. row.event = "route_evaluated"
  BY DEF RouteRow
<1> HIDE DEF o, r, v, row
<1>6. CASE r.pc = "closing" /\ r.rows = <<FinishRow(log.len + 1)>>
  <2>1. ProcOrdered(log.keys, r)
    BY <1>1, <1>3, <1>6, ClosingOrdered
  <2> QED BY <1>1, <1>2, <2>1, OrderedKept DEF Ordered, r
<1>7. CASE r.pc = "routed" /\ r.snap = log.st /\ r.route = v /\ r.rows = <<row>>
  <2>1. \A i \in DOMAIN r.rows : RowOrdered(log.keys, r.rows, i)
    BY <1>5, <1>7 DEF RowOrdered
  <2>2. \A i \in r.wave : Opened(log.keys, i.node, i.attempt)
    BY <1>1, <1>3, QuietOrdered
  <2>3. ASSUME v.status = "actionable", NEW i \in DOMAIN v.nodes
        PROVE  SettledTo(log.keys, v.nodes[i], log.st.nodes[v.nodes[i]].attempts)
    <3>1. v.nodes[i] \in DOMAIN graph.nodes /\ Idle(log.st, v.nodes[i])
      BY <1>4, <2>3 DEF Workers, Candidate
    <3> QED BY <1>3, <3>1 DEF LogOrdered, Idle
  <2>4. \A i \in DOMAIN r.todo : Opened(log.keys, r.todo[i].node, r.todo[i].attempt)
    BY <1>1, <1>3 DEF ProcOrdered
  <2>5. ProcOrdered(log.keys, r)
    BY <1>7, <2>1, <2>2, <2>3, <2>4 DEF ProcOrdered
  <2> QED BY <1>1, <1>2, <2>5, OrderedKept DEF Ordered, r
<1> QED BY <1>1, <1>6, <1>7

LEMMA StopOrdered ==
  ASSUME Base, Ordered, NEW p \in Runners, Stop(p)
  PROVE  Ordered'
<1> DEFINE o == proc[p]
           r == proc'[p]
<1>1. /\ o.rows = <<>>
      /\ \/ r = Off
         \/ /\ r.pc = "closing" /\ r.rows = <<FinishRow(log.len + 1)>>
            /\ r.todo = o.todo /\ r.wave = o.wave
      /\ \A q \in Processes \ {p} : proc'[q] = proc[q]
  BY StopBase
<1>2. UNCHANGED <<graph, log, subs>> /\ p \in Processes
  BY DEF Stop, Processes
<1>3. ProcOrdered(log.keys, o)
  BY <1>2 DEF Ordered
<1> HIDE DEF o, r
<1>4. ProcOrdered(log.keys, r)
  BY <1>1, <1>3, OffOrdered, ClosingOrdered
<1> QED BY <1>1, <1>2, <1>4, OrderedKept DEF Ordered, r

LEMMA PlanOrdered ==
  ASSUME Base, Ordered, NEW p \in Runners, Plan(p)
  PROVE  Ordered'
<1> DEFINE o == proc[p]
           r == proc'[p]
           st == o.snap
           names == ToSet(o.route.nodes)
           keys == log.keys
<1>1. /\ o.rows = <<>> /\ o.pc = "routed" /\ o.route.status = "actionable" /\ r.todo = o.todo
      /\ \/ r.pc = "closing" /\ r.rows = <<FinishRow(log.len + 1)>> /\ r.wave = o.wave
         \/ r.pc = "recorded" /\ r.wave = o.wave /\ Refused(st, names, r.rows)
         \/ r.pc = "started" /\ Waved(st, names, r.rows, r.wave)
      /\ \A q \in Processes \ {p} : proc'[q] = proc[q]
  BY PlanBase
<1>2. UNCHANGED <<graph, log, subs>> /\ p \in Processes
  BY DEF Plan, Processes
<1>3. ProcOrdered(keys, o) /\ ProcTyped(graph, o) /\ st \in States(graph) /\ r.rows \in Seq(Rows(graph))
  BY <1>1, <1>2, PlanBase DEF Ordered, Base, ProcTyped
<1>4. \A n \in names : st.nodes[n].attempts \in Nat /\ SettledTo(keys, n, st.nodes[n].attempts)
  <2>1. ASSUME NEW i \in DOMAIN o.route.nodes
        PROVE  LET n == o.route.nodes[i] IN
               st.nodes[n].attempts \in Nat /\ SettledTo(keys, n, st.nodes[n].attempts)
    <3>1. o.route.nodes[i] \in Workers(graph)
      BY <1>1, <1>3 DEF ProcTyped
    <3>2. SettledTo(keys, o.route.nodes[i], st.nodes[o.route.nodes[i]].attempts)
      BY <1>1, <1>3 DEF ProcOrdered
    <3> QED BY <1>3, <3>1, <3>2 DEF States, NodeStates, Workers
  <2> QED BY <2>1 DEF ToSet
<1>5. DOMAIN r.rows = 1 .. Len(r.rows) /\ Len(r.rows) \in Nat
  BY <1>3
<1> HIDE DEF o, r, st, names, keys
<1>6. CASE r.pc = "closing" /\ r.rows = <<FinishRow(log.len + 1)>> /\ r.wave = o.wave
  <2>1. ProcOrdered(keys, r)
    BY <1>1, <1>3, <1>6, ClosingOrdered
  <2> QED BY <1>1, <1>2, <2>1, OrderedKept DEF Ordered, r, keys
<1>7. \A n, t : LET row == StartRow(n, Tried(st, n), t) IN
        /\ row.event = "node_started" /\ row.node = n /\ row.attempt = st.nodes[n].attempts + 1
        /\ row.key = <<"start", n, Tried(st, n)>>
  BY DEF StartRow, Tried
<1>8. ASSUME NEW i \in DOMAIN r.rows, NEW n \in names, NEW t, r.rows[i] = StartRow(n, Tried(st, n), t)
      PROVE  RowOrdered(keys, r.rows, i)
  <2>1. SettledTo(keys, n, st.nodes[n].attempts) /\ st.nodes[n].attempts + 1 - 1 = st.nodes[n].attempts
    BY <1>4
  <2> DEFINE row == r.rows[i]
  <2>2. row.event = "node_started" /\ row.node = n /\ row.attempt = st.nodes[n].attempts + 1
    BY <1>8 DEF StartRow, Tried
  <2> HIDE DEF row
  <2>3. row.attempt - 1 = st.nodes[n].attempts
    BY <1>4, <2>2
  <2>4. SettledTo(keys, row.node, row.attempt - 1)
    BY <2>1, <2>2, <2>3
  <2> QED BY <2>2, <2>4 DEF RowOrdered, row
<1>9. CASE r.pc = "recorded" /\ r.wave = o.wave /\ Refused(st, names, r.rows)
  <2>1. ASSUME NEW i \in DOMAIN r.rows PROVE RowOrdered(keys, r.rows, i)
    <3>1. PICK n \in names :
            \/ r.rows[i] = StartRow(n, Tried(st, n), NoTask)
            \/ /\ i > 1 /\ r.rows[i - 1] = StartRow(n, Tried(st, n), NoTask)
               /\ r.rows[i] = OutcomeRow(n, Tried(st, n), NoTask, "blocked", "blocked")
      BY <1>9 DEF Refused
    <3>2. CASE r.rows[i] = StartRow(n, Tried(st, n), NoTask)
      BY <1>8, <3>2
    <3>3. CASE i > 1 /\ r.rows[i - 1] = StartRow(n, Tried(st, n), NoTask)
               /\ r.rows[i] = OutcomeRow(n, Tried(st, n), NoTask, "blocked", "blocked")
      <4>1. r.rows[i].event = "node_outcome" /\ r.rows[i].node = n /\ r.rows[i].attempt = Tried(st, n)
        BY <3>3 DEF OutcomeRow
      <4>2. r.rows[i - 1].event = "node_started" /\ r.rows[i - 1].key = <<"start", n, Tried(st, n)>>
        BY <1>7, <3>3
      <4>3. i - 1 \in 1 .. i - 1
        BY <1>5, <3>3
      <4> QED BY <4>1, <4>2, <4>3 DEF RowOrdered
    <3> QED BY <3>1, <3>2, <3>3
  <2>2. \A i \in r.wave : Opened(keys, i.node, i.attempt)
    BY <1>1, <1>3, <1>9, QuietOrdered
  <2>3. \A i \in DOMAIN r.todo : Opened(keys, r.todo[i].node, r.todo[i].attempt)
    BY <1>1, <1>3 DEF ProcOrdered
  <2>4. ProcOrdered(keys, r)
    BY <1>9, <2>1, <2>2, <2>3 DEF ProcOrdered
  <2> QED BY <1>1, <1>2, <2>4, OrderedKept DEF Ordered, r, keys
<1>10. CASE r.pc = "started" /\ Waved(st, names, r.rows, r.wave)
  <2>1. \A i \in DOMAIN r.rows : RowOrdered(keys, r.rows, i)
    BY <1>8, <1>10 DEF Waved
  <2>2. \A w \in r.wave : \E j \in DOMAIN r.rows : r.rows[j].key = <<"start", w.node, w.attempt>>
    <3>1. ASSUME NEW w \in r.wave PROVE \E j \in DOMAIN r.rows : r.rows[j].key = <<"start", w.node, w.attempt>>
      <4>1. PICK j \in DOMAIN r.rows : r.rows[j] = StartRow(w.node, w.attempt, w.task)
        BY <1>10 DEF Waved
      <4> QED BY <4>1 DEF StartRow
    <3> QED BY <3>1
  <2>3. \A i \in DOMAIN r.todo : Opened(keys, r.todo[i].node, r.todo[i].attempt)
    BY <1>1, <1>3 DEF ProcOrdered
  <2>4. ProcOrdered(keys, r)
    BY <1>10, <2>1, <2>2, <2>3 DEF ProcOrdered
  <2> QED BY <1>1, <1>2, <2>4, OrderedKept DEF Ordered, r, keys
<1> QED BY <1>1, <1>6, <1>9, <1>10

LEMMA LaunchOrdered ==
  ASSUME Base, Ordered, NEW p \in Runners, Launch(p)
  PROVE  Ordered'
<1> DEFINE o == proc[p]
           r == proc'[p]
<1>1. /\ o.rows = <<>> /\ r.pc = "wave" /\ r.rows = <<>> /\ r.todo = o.todo /\ r.wave = o.wave
      /\ \A q \in Processes \ {p} : proc'[q] = proc[q]
      /\ \A s \in subs' : s \in subs \/ \E i \in o.wave : s.node = i.node /\ s.attempt = i.attempt
  BY LaunchBase
<1>2. UNCHANGED <<graph, log>> /\ p \in Processes
  BY DEF Launch, Processes
<1>3. ProcOrdered(log.keys, o)
  BY <1>2 DEF Ordered
<1> HIDE DEF o, r
<1>4. \A i \in o.wave : Opened(log.keys, i.node, i.attempt)
  BY <1>1, <1>3, QuietOrdered
<1>5. ProcOrdered(log.keys, r)
  BY <1>1, <1>3, <1>4 DEF ProcOrdered
<1>6. \A s \in subs' : Opened(log.keys, s.node, s.attempt)
  BY <1>1, <1>4 DEF Ordered
<1> QED BY <1>1, <1>2, <1>5, <1>6, OrderedKept DEF r

LEMMA RecordOrdered ==
  ASSUME Base, Ordered, NEW p \in Runners, NEW s \in subs, Record(p, s)
  PROVE  Ordered'
<1> DEFINE o == proc[p]
           r == proc'[p]
           v == IF IsAgent(s.node) THEN s.verdict ELSE ToolOutcome(s.node, s.exit)
           row == OutcomeRow(s.node, s.attempt, s.task, v.claimed, v.outcome)
<1>1. /\ o.rows = <<>> /\ r.pc = "wave" /\ r.rows = <<row>> /\ r.todo = o.todo /\ r.wave \subseteq o.wave
      /\ subs' \subseteq subs /\ \A q \in Processes \ {p} : proc'[q] = proc[q]
  BY RecordBase
<1>2. UNCHANGED <<graph, log>> /\ p \in Processes
  BY DEF Record, Processes
<1>3. ProcOrdered(log.keys, o) /\ Opened(log.keys, s.node, s.attempt)
  BY <1>2 DEF Ordered
<1>4. row.event = "node_outcome" /\ row.node = s.node /\ row.attempt = s.attempt
  BY DEF OutcomeRow
<1> HIDE DEF o, r, v, row
<1>5. \A i \in r.wave : Opened(log.keys, i.node, i.attempt)
  BY <1>1, <1>3, QuietOrdered
<1>6. \A i \in DOMAIN r.rows : RowOrdered(log.keys, r.rows, i)
  BY <1>1, <1>3, <1>4 DEF RowOrdered
<1>7. ProcOrdered(log.keys, r)
  BY <1>1, <1>3, <1>5, <1>6 DEF ProcOrdered
<1>8. \A x \in subs' : Opened(log.keys, x.node, x.attempt)
  BY <1>1 DEF Ordered
<1> QED BY <1>1, <1>2, <1>7, <1>8, OrderedKept DEF r

LEMMA DecideOrdered ==
  ASSUME Base, Ordered, NEW n \in DOMAIN graph.nodes, NEW d \in Outcomes, Decide(n, d)
  PROVE  Ordered'
<1> DEFINE r == proc'[Parent]
           row == GateRow(n, Tried(log.st, n), d)
<1>1. /\ IsGate(graph, n) /\ r.pc = "started" /\ r.rows = <<row>> /\ r.todo = <<>> /\ r.wave = {}
      /\ \A q \in Processes \ {Parent} : proc'[q] = proc[q]
  BY DecideBase
<1>2. UNCHANGED <<graph, log, subs>> /\ Parent \in Processes
  BY DEF Decide, Processes
<1>3. row.event = "gate_decision" /\ row.node = n /\ row.attempt = log.st.nodes[n].attempts + 1
  BY DEF GateRow, Tried
<1> HIDE DEF r, row
<1>4. log.st.nodes[n].attempts \in Nat /\ log.st.nodes[n].status # "active"
  BY <1>1 DEF Base, LogTyped, States, NodeStates, Gates
<1>5. SettledTo(log.keys, row.node, row.attempt - 1)
  BY <1>3, <1>4 DEF Ordered, LogOrdered
<1>6. \A i \in DOMAIN r.rows : RowOrdered(log.keys, r.rows, i)
  BY <1>1, <1>3, <1>5 DEF RowOrdered
<1>7. ProcOrdered(log.keys, r)
  BY <1>1, <1>6 DEF ProcOrdered
<1> QED BY <1>1, <1>2, <1>7, OrderedKept DEF Ordered, r

LEMMA OthersOrdered ==
  ASSUME Base, Ordered
  PROVE  /\ \A p \in Runners : Run(p) \/ Leave(p) => Ordered'
         /\ \A p \in Processes : Crash(p) => Ordered'
         /\ Decided => Ordered'
         /\ \A s \in subs : Enter(s) \/ Work(s) \/ Land(s) \/ Tool(s) \/ Return(s) \/ Timeout(s) => Ordered'
         /\ \A t \in Tasks : Expire(t) \/ Other(t) => Ordered'
<1>1. ASSUME NEW p \in Runners, Run(p) PROVE Ordered'
  <2>1. proc'[p] = [Off EXCEPT !.pc = "loop"] /\ \A q \in Processes \ {p} : proc'[q] = proc[q]
    BY <1>1, RunBase
  <2>2. ProcOrdered(log.keys, proc'[p])
    BY <2>1 DEF ProcOrdered, Off
  <2>3. UNCHANGED <<graph, log, subs>> /\ p \in Processes
    BY <1>1 DEF Run, Processes
  <2> QED BY <2>1, <2>2, <2>3, OrderedKept DEF Ordered
<1>2. ASSUME NEW p \in Runners, Leave(p) PROVE Ordered'
  <2>1. UNCHANGED <<graph, log, subs>> /\ p \in Processes
    BY <1>2 DEF Leave, Processes
  <2> QED BY <1>2, <2>1, LeaveBase, OffOrdered, OrderedKept DEF Ordered
<1>3. ASSUME NEW p \in Processes, Crash(p) PROVE Ordered'
  <2>1. /\ UNCHANGED <<graph, log>> /\ proc'[p] = Off /\ \A q \in Processes \ {p} : proc'[q] = proc[q]
        /\ \A new \in subs' : new \in subs \/ \E s \in subs : Same(s, new)
    BY <1>3, CrashBase
  <2>2. \A s \in subs' : Opened(log.keys, s.node, s.attempt)
    BY <2>1 DEF Ordered, Same
  <2> QED BY <2>1, <2>2, OffOrdered, OrderedKept
<1>4. ASSUME Decided PROVE Ordered'
  <2>1. UNCHANGED <<graph, log, subs>> /\ Parent \in Processes
    BY <1>4 DEF Decided, Processes
  <2> QED BY <1>4, <2>1, DecidedBase, OffOrdered, OrderedKept DEF Ordered
<1>5. ASSUME NEW s \in subs, Enter(s) \/ Work(s) \/ Land(s) \/ Tool(s) \/ Return(s) \/ Timeout(s) PROVE Ordered'
  <2>1. UNCHANGED <<graph, log, proc>> /\ \A new \in subs' : new \in subs \/ Same(s, new)
    BY <1>5, WorksBase, TimeoutBase
  <2> QED BY <2>1, SubsOrdered
<1>6. ASSUME NEW t \in Tasks, Expire(t) \/ Other(t) PROVE Ordered'
  BY <1>6, TasksBase DEF Ordered
<1> QED BY <1>1, <1>2, <1>3, <1>4, <1>5, <1>6

LEMMA OrderedStep ==
  ASSUME Base, Ordered, Returns(graph), [Next]_vars
  PROVE  Ordered'
<1>1. CASE UNCHANGED vars
  BY <1>1 DEF Ordered, vars
<1>2. CASE Next
  BY <1>2, NextCases, PrepareOrdered, WriteOrdered, ResumeOrdered, ReconcileOrdered, StepOrdered,
     StopOrdered, PlanOrdered, LaunchOrdered, RecordOrdered, DecideOrdered, OthersOrdered
<1> QED BY <1>1, <1>2

LEMMA InitOrdered ==
  ASSUME Init
  PROVE  Ordered
<1>1. /\ subs = {} /\ proc = [p \in Processes |-> Off] /\ log.keys = {}
      /\ log.st.nodes = [n \in DOMAIN graph.nodes |-> Unvisited]
  BY DEF Init, Processes
<1>2. \A n \in DOMAIN graph.nodes : log.st.nodes[n].status = "pending" /\ log.st.nodes[n].attempts = 0
  BY <1>1 DEF Unvisited
<1>3. LogOrdered(graph, log)
  BY <1>1, <1>2 DEF LogOrdered, Opened, Settled, SettledTo
<1>4. \A p \in Processes : ProcOrdered(log.keys, proc[p])
  BY <1>1, OffOrdered
<1> QED BY <1>1, <1>3, <1>4 DEF Ordered

Stable ==
  \A n \in DOMAIN graph.nodes :
    LET s == log.st.nodes[n]  r == log'.st.nodes[n] IN
      /\ r.attempts >= s.attempts
      /\ s.status = "finished" =>
           r.attempts > s.attempts \/ (r.status = "finished" /\ r.outcome = s.outcome)

LEMMA StableStep ==
  ASSUME Base, Ordered, [Next]_vars
  PROVE  Stable
<1>1. LogTyped(graph, log)
  BY DEF Base
<1>2. \A n \in DOMAIN graph.nodes : log.st.nodes[n].attempts \in Nat
  BY <1>1 DEF LogTyped, States, NodeStates
<1>3. CASE UNCHANGED log
  BY <1>2, <1>3 DEF Stable
<1>4. ASSUME NEW p \in Processes, Write(p) PROVE Stable
  <2> DEFINE rows == proc[p].rows
             r == rows[1]
             seq == proc[p].seq
             s == log.st.nodes[r.node]
             t == log'.st.nodes[r.node]
  <2>1. /\ rows # <<>> /\ RowOrdered(log.keys, rows, 1) /\ LogOrdered(graph, log)
        /\ r \in Rows(graph) /\ seq \in Nat
    BY <1>4, WriteOrdered, WriteBase
  <2>2. log'.st = IF r.key \in log.keys THEN log.st ELSE Project(log.st, r, seq)
    BY <1>4, AppendedIs DEF Write
  <2>3. CASE r.key \in log.keys
    BY <1>2, <2>2, <2>3 DEF Stable
  <2>4. CASE r.key \notin log.keys /\ Other1(graph, r)
    <3>1. log'.st.nodes = log.st.nodes
      BY <1>1, <2>1, <2>2, <2>4, FoldsOther DEF LogTyped
    <3> QED BY <1>2, <3>1 DEF Stable
  <2>5. CASE r.key \notin log.keys /\ (Started(graph, r) \/ Ended(graph, r) \/ Gated1(graph, r))
    <3>1. Folded(log.st, log'.st, r, seq)
      BY <1>1, <2>1, <2>2, <2>5, FoldsNode DEF LogTyped
    <3>2. /\ Started(graph, r) => r.attempt = s.attempts + 1
          /\ Ended(graph, r) => r.attempt = s.attempts /\ s.status = "active"
          /\ Gated1(graph, r) => r.attempt = s.attempts + 1
      BY <2>1, <2>5, Fresh
    <3>3. r.node \in DOMAIN graph.nodes /\ t.attempts = Max2(s.attempts, r.attempt)
      BY <2>5, <3>1 DEF Folded, NodeFolded, Started, Ended, Gated1, Workers, Gates
    <3>4. s.attempts \in Nat
      BY <1>2, <3>3
    <3> HIDE DEF s, t
    <3>5. t.attempts > s.attempts \/ (t.attempts = s.attempts /\ s.status = "active")
      BY <2>5, <3>2, <3>3, <3>4 DEF Max2
    <3>6. ASSUME NEW n \in DOMAIN graph.nodes
          PROVE  /\ log'.st.nodes[n].attempts >= log.st.nodes[n].attempts
                 /\ log.st.nodes[n].status = "finished" =>
                      \/ log'.st.nodes[n].attempts > log.st.nodes[n].attempts
                      \/ /\ log'.st.nodes[n].status = "finished"
                         /\ log'.st.nodes[n].outcome = log.st.nodes[n].outcome
      <4>1. CASE n = r.node
        <5>1. t.attempts \in Nat
          BY <3>3, <3>4, <3>5, Max2Type, <2>5 DEF Started, Ended, Gated1
        <5>2. t.attempts >= s.attempts /\ (s.status = "finished" => t.attempts > s.attempts)
          BY <3>4, <3>5, <5>1
        <5>3. log.st.nodes[n] = s /\ log'.st.nodes[n] = t
          BY <4>1 DEF s, t
        <5> QED BY <5>2, <5>3
      <4>2. CASE n # r.node
        <5>1. log'.st.nodes[n] = log.st.nodes[n]
          BY <3>1, <4>2 DEF Folded
        <5> QED BY <1>2, <5>1
      <4> QED BY <4>1, <4>2
    <3> QED BY <3>6 DEF Stable
  <2> QED BY <2>1, <2>3, <2>4, <2>5, RowKinds
<1> QED BY <1>3, <1>4, GraphFrozen

\* In a run of a graph whose repeats go back, the outcome of an attempt never
\* changes: whatever is killed, resumed or run twice, only a newer attempt
\* replaces it.
THEOREM OutcomeStableCorrect ==
  ASSUME \A g \in Specs : Returns(g)
  PROVE  Spec => OutcomeStable
<1>1. Init => Base /\ Ordered
  BY InitBase, InitOrdered
<1>2. Base => Returns(graph)
  BY DEF Base
<1>3. Base /\ Ordered /\ [Next]_vars => (Base /\ Ordered)'
  BY <1>2, BaseStep, OrderedStep
<1>4. Base /\ Ordered /\ [Next]_vars => Stable
  BY StableStep
<1>5. [Stable]_vars => [\A n \in DOMAIN graph.nodes :
       LET s == log.st.nodes[n]  r == log'.st.nodes[n] IN
         /\ r.attempts >= s.attempts
         /\ s.status = "finished" =>
              r.attempts > s.attempts \/ (r.status = "finished" /\ r.outcome = s.outcome)]_vars
  BY DEF Stable
<1> QED BY <1>1, <1>3, <1>4, <1>5, PTL DEF Spec, OutcomeStable

-----------------------------------------------------------------------------
(* Approvals: what the plan and the parent's approvals say is never unsaid.  *)
Grows(pl, ok, pl2, ok2) ==
  ok \subseteq ok2 /\ \A t \in Tasks : Frozen(pl, t) => Frozen(pl2, t) /\ pl2[t].patch = pl[t].patch

LEMMA LicencesGrow ==
  ASSUME NEW pl, NEW ok, NEW pl2, NEW ok2, Grows(pl, ok, pl2, ok2), NEW g, NEW l
  PROVE  /\ \A t : Frozen(pl, t) => Frozen(pl2, t)
         /\ \A t : Licensed(pl, ok, t) => Licensed(pl2, ok2, t)
         /\ \A r : RunnerLicensed(g, l, pl, ok, r) => RunnerLicensed(g, l, pl2, ok2, r)
         /\ \A r : ParentLicensed(g, l, pl, ok, r) => ParentLicensed(g, l, pl2, ok2, r)
         /\ \A s : SubLicensed(g, pl, ok, s) => SubLicensed(g, pl2, ok2, s)
         /\ LogLicensed(g, l, pl, ok) => LogLicensed(g, l, pl2, ok2)
<1>1. \A t : Frozen(pl, t) => Frozen(pl2, t)
  BY DEF Grows, Frozen
<1>2. \A t : Licensed(pl, ok, t) => Licensed(pl2, ok2, t)
  BY <1>1 DEF Grows, Licensed, Frozen
<1>3. \A r : RunnerLicensed(g, l, pl, ok, r) => RunnerLicensed(g, l, pl2, ok2, r)
  <2>1. \A r : RowLicensed(g, pl, r) => RowLicensed(g, pl2, r)
    BY <1>1 DEF RowLicensed
  <2> QED BY <1>2, <2>1 DEF RunnerLicensed
<1>4. \A r : ParentLicensed(g, l, pl, ok, r) => ParentLicensed(g, l, pl2, ok2, r)
  BY <1>2 DEF ParentLicensed
<1>5. \A s : SubLicensed(g, pl, ok, s) => SubLicensed(g, pl2, ok2, s)
  BY <1>1, <1>2 DEF SubLicensed
<1>6. LogLicensed(g, l, pl, ok) => LogLicensed(g, l, pl2, ok2)
  BY <1>1, <1>2 DEF LogLicensed
<1> QED BY <1>1, <1>2, <1>3, <1>4, <1>5, <1>6

LEMMA SetGrows ==
  ASSUME plan \in [Tasks -> PlanRows], NEW t, NEW r, Set(t, r), NEW ok, NEW ok2, ok \subseteq ok2,
         t \in Tasks => /\ r \in PlanRows
                        /\ plan[t].state \in {"review", "done"} =>
                             r.state \in {"review", "done"} /\ r.patch = plan[t].patch
  PROVE  plan' \in [Tasks -> PlanRows] /\ Grows(plan, ok, plan', ok2)
<1>1. plan' = [plan EXCEPT ![t] = r]
  BY DEF Set
<1>2. \A u \in Tasks : plan'[u] = IF u = t THEN r ELSE plan[u]
  BY <1>1
<1>3. plan' \in [Tasks -> PlanRows]
  BY <1>1
<1> QED BY <1>2, <1>3 DEF Grows, Frozen

LEMMA MovedGrows ==
  ASSUME plan \in [Tasks -> PlanRows], NEW t, NEW state \in {"ready", "blocked", "done"}, Moved(t, state),
         NEW ok, NEW ok2, ok \subseteq ok2,
         t \in Tasks /\ plan[t].state \in {"review", "done"} => state = "done"
  PROVE  plan' \in [Tasks -> PlanRows] /\ Grows(plan, ok, plan', ok2)
<1> DEFINE r == [plan[t] EXCEPT !.state = state, !.expired = FALSE]
<1>1. Set(t, r)
  BY DEF Moved
<1>2. t \in Tasks => r \in PlanRows /\ r.state = state /\ r.patch = plan[t].patch
  BY DEF PlanRows
<1> HIDE DEF r
<1> QED BY <1>1, <1>2, SetGrows

LEMMA ClaimingGrows ==
  ASSUME plan \in [Tasks -> PlanRows], NEW t, Claiming(t), NEW ok, NEW ok2, ok \subseteq ok2,
         plan[t].state = "ready"
  PROVE  plan' \in [Tasks -> PlanRows] /\ Grows(plan, ok, plan', ok2)
<1> DEFINE r == [plan[t] EXCEPT !.state = "claimed", !.epoch = @ + 1, !.expired = FALSE]
<1>1. Set(t, r)
  BY DEF Claiming
<1>2. t \in Tasks => r \in PlanRows
  <2>1. SUFFICES ASSUME t \in Tasks PROVE r \in PlanRows
    OBVIOUS
  <2> DEFINE x == plan[t]
  <2>2. x \in PlanRows
    BY <2>1
  <2>3. x.epoch + 1 \in Nat
    BY <2>2 DEF PlanRows
  <2>4. r = [x EXCEPT !.state = "claimed", !.epoch = x.epoch + 1, !.expired = FALSE]
    OBVIOUS
  <2> HIDE DEF x, r
  <2> QED BY <2>2, <2>3, <2>4 DEF PlanRows
<1> HIDE DEF r
<1> QED BY <1>1, <1>2, SetGrows

LEMMA WorksGrow ==
  ASSUME Base, WorldTyped, NEW s \in subs, Enter(s) \/ Work(s) \/ Land(s) \/ Tool(s) \/ Return(s)
  PROVE  plan' \in [Tasks -> PlanRows] /\ Grows(plan, ghost.approved, plan', ghost'.approved)
<1> DEFINE ok == ghost.approved
           t == s.task
<1>1. plan \in [Tasks -> PlanRows] /\ DOMAIN ghost = {"approved", "landed"}
  BY DEF WorldTyped
<1>2. ghost'.approved = ok
  BY <1>1 DEF Enter, Work, Land, Tool, Return, world
<1> HIDE DEF ok
<1>3. ASSUME UNCHANGED plan PROVE plan' \in [Tasks -> PlanRows] /\ Grows(plan, ok, plan', ok)
  BY <1>1, <1>3 DEF Grows
<1>4. CASE Enter(s)
  <2>1. (Claiming(t) /\ plan[t].state = "ready") \/ UNCHANGED plan
    BY <1>4 DEF Enter
  <2> HIDE DEF t
  <2> QED BY <1>1, <1>2, <1>3, <2>1, ClaimingGrows DEF ok
<1>5. CASE Work(s)
  <2> DEFINE r == [plan[t] EXCEPT !.state = "review", !.patch = s.epoch, !.expired = FALSE]
  <2>1. \/ plan[t].state = "claimed" /\ plan[t].epoch = s.epoch /\ Set(t, r)
        \/ plan[t].state = "claimed" /\ (Moved(t, "ready") \/ Moved(t, "blocked"))
        \/ UNCHANGED plan
    BY <1>5 DEF Work, Holding
  <2>2. t \in Tasks /\ plan[t].epoch = s.epoch => r \in PlanRows
    BY <1>1 DEF PlanRows
  <2> HIDE DEF t, r
  <2>3. CASE plan[t].state = "claimed" /\ plan[t].epoch = s.epoch /\ Set(t, r)
    BY <1>1, <1>2, <2>2, <2>3, SetGrows DEF ok
  <2>4. CASE plan[t].state = "claimed" /\ (Moved(t, "ready") \/ Moved(t, "blocked"))
    BY <1>1, <1>2, <2>4, MovedGrows DEF ok
  <2> QED BY <1>2, <1>3, <2>1, <2>3, <2>4 DEF ok
<1>6. CASE Land(s)
  <2>1. Moved(t, "done") \/ UNCHANGED plan
    BY <1>6 DEF Land
  <2> HIDE DEF t
  <2> QED BY <1>1, <1>2, <1>3, <2>1, MovedGrows DEF ok
<1>7. CASE Tool(s) \/ Return(s)
  <2>1. UNCHANGED plan
    BY <1>7 DEF Tool, Return, world
  <2> QED BY <1>2, <1>3, <2>1 DEF ok
<1> QED BY <1>4, <1>5, <1>6, <1>7

LEMMA TasksGrow ==
  ASSUME Base, WorldTyped, NEW t \in Tasks, Expire(t) \/ (Other(t) /\ graph \notin Requeued)
  PROVE  plan' \in [Tasks -> PlanRows] /\ Grows(plan, ghost.approved, plan', ghost'.approved)
<1> DEFINE ok == ghost.approved
           old == [plan[t] EXCEPT !.expired = TRUE]
           r == [plan[t] EXCEPT !.state = "review", !.patch = plan[t].epoch, !.expired = FALSE]
<1>1. plan \in [Tasks -> PlanRows] /\ ghost' = ghost
  BY DEF WorldTyped, Expire, Other
<1>2. \/ plan[t].state = "claimed" /\ (Set(t, old) \/ Set(t, r) \/ Moved(t, "ready"))
      \/ plan[t].state = "ready" /\ Claiming(t)
      \/ plan[t].state = "review" /\ Moved(t, "done")
      \/ plan[t].state = "blocked" /\ Moved(t, "ready")
  BY DEF Expire, Other, Live
<1>3. old \in PlanRows /\ r \in PlanRows
  BY <1>1 DEF PlanRows
<1> HIDE DEF ok, old, r
<1>4. CASE plan[t].state = "claimed" /\ (Set(t, old) \/ Set(t, r))
  BY <1>1, <1>3, <1>4, SetGrows
<1>5. CASE plan[t].state = "claimed" /\ Moved(t, "ready")
  BY <1>1, <1>5, MovedGrows
<1>6. CASE plan[t].state = "ready" /\ Claiming(t)
  BY <1>1, <1>6, ClaimingGrows
<1>7. CASE plan[t].state = "review" /\ Moved(t, "done")
  BY <1>1, <1>7, MovedGrows
<1>8. CASE plan[t].state = "blocked" /\ Moved(t, "ready")
  BY <1>1, <1>8, MovedGrows
<1> QED BY <1>2, <1>4, <1>5, <1>6, <1>7, <1>8

\* Actions that leave the log, the plan and the approvals as they are.
LEMMA RunnerKept ==
  ASSUME Licences, UNCHANGED <<graph, log, plan, ghost>>, NEW p \in Runners,
         \A q \in Processes \ {p} : proc'[q] = proc[q], proc[p].pc # "off" \/ proc[Parent].pc = "off",
         RunnerLicensed(graph, log, plan, ghost.approved, proc'[p]),
         \A s \in subs' : s \in subs \/ SubLicensed(graph, plan, ghost.approved, s)
  PROVE  Licences'
<1>1. Parent \in Processes \ {p} /\ Runners \subseteq Processes
  BY ProcessAssumption DEF Processes
<1>2. proc'[Parent] = proc[Parent] /\ proc[Parent].pc = "off"
  BY <1>1 DEF Licences
<1>3. \A q \in Runners : RunnerLicensed(graph, log, plan, ghost.approved, proc'[q])
  <2>1. ASSUME NEW q \in Runners PROVE RunnerLicensed(graph, log, plan, ghost.approved, proc'[q])
    <3>1. CASE q = p
      BY <3>1
    <3>2. CASE q # p
      BY <1>1, <3>2 DEF Licences
    <3> QED BY <3>1, <3>2
  <2> QED BY <2>1
<1>4. \A s \in subs' : SubLicensed(graph, plan, ghost.approved, s)
  BY DEF Licences
<1> QED BY <1>2, <1>3, <1>4 DEF Licences

LEMMA OffLicensed ==
  ASSUME NEW g, NEW l, NEW pl, NEW ok
  PROVE  RunnerLicensed(g, l, pl, ok, Off) /\ ParentLicensed(g, l, pl, ok, Off)
BY DEF RunnerLicensed, ParentLicensed, Off

\* A row that is licensed whatever the plan.
LEMMA ClosingLicensed ==
  ASSUME NEW g, NEW l, NEW pl, NEW ok, NEW o, RunnerLicensed(g, l, pl, ok, o), NEW r, NEW k,
         r.pc = "closing", r.rows = <<FinishRow(k)>>, r.seq = o.seq, r.wave = o.wave
  PROVE  RunnerLicensed(g, l, pl, ok, r)
<1>1. FinishRow(k).event = "run_finished"
  BY DEF FinishRow
<1> QED BY <1>1 DEF RunnerLicensed, RowLicensed

LEMMA PrepareLicensed ==
  ASSUME Base, Licences, NEW p \in Processes, Prepare(p)
  PROVE  Licences'
<1> DEFINE r == [proc[p] EXCEPT !.seq = log.seq + 1]
           o == proc[p]
<1>1. UNCHANGED <<graph, log, subs, plan, ghost>> /\ (End(p, "crashed") \/ Become(p, r))
      /\ DOMAIN proc = Processes /\ o.rows # <<>>
  BY DEF Prepare, Base, world
<1>2. (proc'[p] = Off \/ proc'[p] = r) /\ \A q \in Processes \ {p} : proc'[q] = proc[q]
  BY <1>1 DEF End, Become
<1>3. ProcTyped(graph, o) /\ log.seq \in Nat /\ log.st \in States(graph)
  BY DEF Base, LogTyped
<1>4. o.pc # "off"
  BY <1>1, <1>3 DEF ProcTyped, Off
<1>5. /\ r.pc = o.pc /\ r.rows = o.rows /\ r.route = o.route /\ r.snap = o.snap /\ r.wave = o.wave
      /\ r.seq = log.seq + 1
  BY <1>3 DEF ProcTyped, Fields
<1> HIDE DEF r, o
<1>6. CASE p \in Runners
  <2>1. RunnerLicensed(graph, log, plan, ghost.approved, o)
    BY <1>6 DEF Licences, o
  <2>2. \A n \in Gates(graph) : log.seq + 1 > log.st.nodes[n].seq
    <3>1. \A n \in Gates(graph) : log.st.nodes[n].seq <= log.seq /\ log.st.nodes[n].seq \in Nat
      BY <1>3 DEF Licences, LogLicensed, States, NodeStates, Gates
    <3> QED BY <1>3, <3>1
  <2>3. RunnerLicensed(graph, log, plan, ghost.approved, r)
    BY <1>5, <2>1, <2>2 DEF RunnerLicensed
  <2>4. RunnerLicensed(graph, log, plan, ghost.approved, proc'[p])
    BY <1>2, <2>3, OffLicensed
  <2> QED BY <1>1, <1>2, <1>4, <1>6, <2>4, RunnerKept DEF o
<1>7. CASE p = Parent
  <2>1. ParentLicensed(graph, log, plan, ghost.approved, o)
    BY <1>7 DEF Licences, o
  <2>2. ParentLicensed(graph, log, plan, ghost.approved, r)
    BY <1>5, <2>1 DEF ParentLicensed
  <2>3. ParentLicensed(graph, log, plan, ghost.approved, proc'[Parent])
    BY <1>2, <1>7, <2>2, OffLicensed
  <2>4. \A q \in Runners : proc'[q] = proc[q] /\ proc[q].pc = "off"
    BY <1>2, <1>4, <1>7, ProcessAssumption DEF Licences, Processes, o
  <2> QED BY <1>1, <2>3, <2>4 DEF Licences
<1> QED BY <1>6, <1>7 DEF Processes

LEMMA ReconcileLicensed ==
  ASSUME Base, Licences, Guarded(graph), NEW p \in Runners, Reconcile(p)
  PROVE  Licences'
<1> DEFINE o == proc[p]
           r == proc'[p]
           i == o.todo[1]
           v == Reconciled(i)
           row == OutcomeRow(i.node, i.attempt, i.task, v.claimed, v.outcome)
<1>1. /\ i \in Items(graph) /\ r.pc = "reconcile" /\ r.seq = o.seq /\ r.wave = o.wave
      /\ r.rows = <<>> \/ r.rows = <<row>>
      /\ \A q \in Processes \ {p} : proc'[q] = proc[q]
  BY ReconcileBase
<1>2. UNCHANGED <<graph, log, subs, plan, ghost>> /\ o.pc = "reconcile"
  BY DEF Reconcile, At, world
<1>3. RunnerLicensed(graph, log, plan, ghost.approved, o)
  BY DEF Licences
<1>4. /\ row.event = "node_outcome" /\ row.node = i.node /\ row.task = i.task
      /\ row.claimed = v.claimed /\ row.outcome = v.outcome
  BY DEF OutcomeRow
<1>5. ASSUME graph.nodes[i.node].binds, "completed" \in {v.claimed, v.outcome}
      PROVE  Frozen(plan, i.task)
  <2>1. i.node \in DOMAIN graph.nodes
    BY <1>1 DEF Items, Workers
  <2>2. IsAgent(i.node) /\ Node(i.node).mode = "run"
    BY <1>5, <2>1 DEF Guarded, IsAgent, Node
  <2> DEFINE c == FromPlan(i.node, i.task, i.receipt)
             w == WithProof(c, i.proved)
  <2>3. v = IF i.task \in Tasks THEN Both(w) ELSE Both("unverified")
    BY <2>2 DEF Reconciled
  <2>4. i.task \in Tasks /\ w = "completed"
    <3> HIDE DEF v, w, i
    <3> QED BY <1>5, <2>3 DEF Both, Verdicts
  <2>5. c = "completed"
    <3> HIDE DEF c
    <3> QED BY <2>4 DEF WithProof
  <2>6. plan[i.task].state \in {"review", "done"}
    BY <2>2, <2>5 DEF FromPlan, StateProves
  <2> QED BY <2>4, <2>6 DEF Frozen
<1> HIDE DEF o, r, i, v, row
<1>6. RowLicensed(graph, plan, row)
  BY <1>4, <1>5 DEF RowLicensed
<1>7. RunnerLicensed(graph, log, plan, ghost.approved, r)
  BY <1>1, <1>3, <1>4, <1>6 DEF RunnerLicensed
<1> QED BY <1>1, <1>2, <1>7, RunnerKept DEF o, r

LEMMA StepLicensed ==
  ASSUME Base, Licences, Guarded(graph), NEW p \in Runners, Step(p)
  PROVE  Licences'
<1> DEFINE o == proc[p]
           r == proc'[p]
           v == Evaluate(graph, log.st, Proved(log.st))
           row == RouteRow(log.len + 1, v.repeats)
<1>1. /\ o.pc # "off" /\ r.seq = o.seq /\ r.wave = o.wave
      /\ \/ r.pc = "closing" /\ r.rows = <<FinishRow(log.len + 1)>>
         \/ r.pc = "routed" /\ r.snap = log.st /\ r.route = v /\ r.rows = <<row>>
      /\ \A q \in Processes \ {p} : proc'[q] = proc[q]
  BY StepBase
<1>2. UNCHANGED <<graph, log, subs, plan, ghost>>
  BY DEF Step, world
<1>3. RunnerLicensed(graph, log, plan, ghost.approved, o) /\ LogLicensed(graph, log, plan, ghost.approved)
  BY DEF Licences
<1>4. v.status = "actionable" =>
        v.nodes \in Seq(Workers(graph)) /\ \A i \in DOMAIN v.nodes : Candidate(graph, log.st, v.nodes[i])
  BY GraphTyped, EvaluateSound DEF Base, LogTyped
<1>5. row.event = "route_evaluated"
  BY DEF RouteRow
<1> HIDE DEF o, r, v, row
<1>6. CASE r.pc = "closing" /\ r.rows = <<FinishRow(log.len + 1)>>
  BY <1>1, <1>2, <1>3, <1>6, ClosingLicensed, RunnerKept DEF o, r
<1>7. CASE r.pc = "routed" /\ r.snap = log.st /\ r.route = v /\ r.rows = <<row>>
  <2>1. ASSUME v.status = "actionable", NEW i \in DOMAIN v.nodes, Lands(graph, v.nodes[i])
        PROVE  Licensed(plan, ghost.approved, log.st.bound)
    BY <1>3, <1>4, <2>1 DEF Candidate, LogLicensed
  <2>2. \A i \in DOMAIN r.rows : r.rows[i].event # "gate_decision" /\ RowLicensed(graph, plan, r.rows[i])
    BY <1>5, <1>7 DEF RowLicensed
  <2>3. RunnerLicensed(graph, log, plan, ghost.approved, r)
    BY <1>1, <1>3, <1>7, <2>1, <2>2 DEF RunnerLicensed
  <2> QED BY <1>1, <1>2, <2>3, RunnerKept DEF o, r
<1> QED BY <1>1, <1>6, <1>7

LEMMA StopLicensed ==
  ASSUME Base, Licences, NEW p \in Runners, Stop(p)
  PROVE  Licences'
<1> DEFINE o == proc[p]
           r == proc'[p]
<1>1. /\ o.pc # "off"
      /\ \/ r = Off
         \/ /\ r.pc = "closing" /\ r.rows = <<FinishRow(log.len + 1)>>
            /\ r.seq = o.seq /\ r.wave = o.wave
      /\ \A q \in Processes \ {p} : proc'[q] = proc[q]
  BY StopBase
<1>2. UNCHANGED <<graph, log, subs, plan, ghost>>
  BY DEF Stop, world
<1>3. RunnerLicensed(graph, log, plan, ghost.approved, o)
  BY DEF Licences
<1> HIDE DEF o, r
<1>4. RunnerLicensed(graph, log, plan, ghost.approved, r)
  BY <1>1, <1>3, OffLicensed, ClosingLicensed
<1> QED BY <1>1, <1>2, <1>4, RunnerKept DEF o, r

LEMMA PlanLicensed ==
  ASSUME Base, Licences, Guarded(graph), NEW p \in Runners, Plan(p)
  PROVE  Licences'
<1> DEFINE o == proc[p]
           r == proc'[p]
           st == o.snap
           names == ToSet(o.route.nodes)
           ok == ghost.approved
<1>1. /\ o.pc = "routed" /\ o.rows = <<>> /\ o.route.status = "actionable" /\ r.seq = o.seq
      /\ \/ r.pc = "closing" /\ r.rows = <<FinishRow(log.len + 1)>> /\ r.wave = o.wave
         \/ r.pc = "recorded" /\ r.wave = o.wave /\ Refused(st, names, r.rows)
         \/ r.pc = "started" /\ Waved(st, names, r.rows, r.wave)
      /\ \A q \in Processes \ {p} : proc'[q] = proc[q]
  BY PlanBase
<1>2. UNCHANGED <<graph, log, subs, plan, ghost>> /\ p \in Processes
  BY DEF Plan, world, Processes
<1>3. RunnerLicensed(graph, log, plan, ok, o) /\ ProcTyped(graph, o)
  BY <1>2 DEF Licences, Base
<1>4. o.seq = 0
  BY <1>1, <1>3 DEF ProcTyped
<1>5. ASSUME NEW n \in names
      PROVE  n \in DOMAIN graph.nodes /\ (Lands(graph, n) => Licensed(plan, ok, st.bound))
  <2>1. PICK i \in DOMAIN o.route.nodes : o.route.nodes[i] = n
    BY DEF ToSet
  <2>2. o.route.nodes \in Seq(Workers(graph))
    BY <1>1, <1>3 DEF ProcTyped
  <2>3. n \in Workers(graph)
    BY <2>1, <2>2
  <2> QED BY <1>1, <1>3, <2>1, <2>3 DEF RunnerLicensed, Workers
<1> HIDE DEF o, r, st, names, ok
<1>6. CASE r.pc = "closing" /\ r.rows = <<FinishRow(log.len + 1)>> /\ r.wave = o.wave
  <2>1. RunnerLicensed(graph, log, plan, ok, r)
    BY <1>1, <1>3, <1>6, ClosingLicensed
  <2> QED BY <1>1, <1>2, <2>1, RunnerKept DEF o, r, ok
<1>7. \A n, t : StartRow(n, Tried(st, n), t).event = "node_started"
  BY DEF StartRow
<1>8. CASE r.pc = "recorded" /\ r.wave = o.wave /\ Refused(st, names, r.rows)
  <2>1. ASSUME NEW i \in DOMAIN r.rows
        PROVE  r.rows[i].event # "gate_decision" /\ RowLicensed(graph, plan, r.rows[i])
    <3>1. PICK n \in names : \/ r.rows[i] = StartRow(n, Tried(st, n), NoTask)
                             \/ r.rows[i] = OutcomeRow(n, Tried(st, n), NoTask, "blocked", "blocked")
      BY <1>8 DEF Refused
    <3>2. CASE r.rows[i] = StartRow(n, Tried(st, n), NoTask)
      BY <1>7, <3>2 DEF RowLicensed
    <3>3. CASE r.rows[i] = OutcomeRow(n, Tried(st, n), NoTask, "blocked", "blocked")
      <4>1. /\ r.rows[i].event = "node_outcome" /\ r.rows[i].claimed = "blocked"
            /\ r.rows[i].outcome = "blocked"
        BY <3>3 DEF OutcomeRow
      <4> QED BY <4>1 DEF RowLicensed
    <3> QED BY <3>1, <3>2, <3>3
  <2>2. RunnerLicensed(graph, log, plan, ok, r)
    BY <1>1, <1>3, <1>4, <1>8, <2>1 DEF RunnerLicensed
  <2> QED BY <1>1, <1>2, <2>2, RunnerKept DEF o, r, ok
<1>9. CASE r.pc = "started" /\ Waved(st, names, r.rows, r.wave)
  <2>1. ASSUME NEW i \in DOMAIN r.rows
        PROVE  r.rows[i].event # "gate_decision" /\ RowLicensed(graph, plan, r.rows[i])
    <3>1. PICK n \in names, t \in TaskNames : r.rows[i] = StartRow(n, Tried(st, n), t)
      BY <1>9 DEF Waved
    <3> QED BY <1>7, <3>1 DEF RowLicensed
  <2>2. ASSUME NEW w \in r.wave
        PROVE  /\ Lands(graph, w.node) => Licensed(plan, ok, w.task)
               /\ graph.nodes[w.node].binds => w.task \in Tasks
    <3> DEFINE n == w.node
               kind == graph.nodes[n].task
    <3>1. n \in names /\ PlannedTask(st, n, w.task)
      BY <1>9 DEF Waved
    <3>2. n \in DOMAIN graph.nodes /\ (Lands(graph, n) => Licensed(plan, ok, st.bound))
      BY <1>5, <3>1
    <3>3. w.task = IF kind = "next" THEN w.task ELSE StaticTask(st, n)
      BY <3>1 DEF PlannedTask, Node
    <3>4. kind = "next" => w.task \in Tasks
      BY <3>1 DEF PlannedTask, Node
    <3>5. Lands(graph, n) => kind = "bound"
      BY <3>2 DEF Guarded
    <3>6. kind = "bound" => w.task = st.bound
      BY <3>3 DEF StaticTask, Node
    <3>7. graph.nodes[n].binds => kind \in Tasks \cup {"next"}
      BY <3>2 DEF Guarded
    <3>8. kind \in Tasks => w.task \in Tasks
      BY <3>3, TaskAssumption DEF StaticTask, Node
    <3> QED BY <3>2, <3>4, <3>5, <3>6, <3>7, <3>8
  <2>3. RunnerLicensed(graph, log, plan, ok, r)
    BY <1>1, <1>4, <1>9, <2>1, <2>2 DEF RunnerLicensed
  <2> QED BY <1>1, <1>2, <2>3, RunnerKept DEF o, r, ok
<1> QED BY <1>1, <1>6, <1>8, <1>9

LEMMA LaunchLicensed ==
  ASSUME Base, Licences, NEW p \in Runners, Launch(p)
  PROVE  Licences'
<1> DEFINE o == proc[p]
           r == proc'[p]
           ok == ghost.approved
<1>1. /\ o.pc # "off" /\ r.pc = "wave" /\ r.rows = <<>> /\ r.seq = o.seq /\ r.wave = o.wave
      /\ \A q \in Processes \ {p} : proc'[q] = proc[q]
      /\ \A s \in subs' : s \in subs \/ \E i \in o.wave :
           s.node = i.node /\ s.task = i.task /\ s.phase = "launched"
  BY LaunchBase
<1>2. UNCHANGED <<graph, log, plan, ghost>>
  BY DEF Launch, world
<1>3. RunnerLicensed(graph, log, plan, ok, o)
  BY DEF Licences
<1> HIDE DEF o, r, ok
<1>4. RunnerLicensed(graph, log, plan, ok, r)
  BY <1>1, <1>3 DEF RunnerLicensed
<1>5. ASSUME NEW s \in subs', s \notin subs PROVE SubLicensed(graph, plan, ok, s)
  <2>1. PICK i \in o.wave : s.node = i.node /\ s.task = i.task /\ s.phase = "launched"
    BY <1>1, <1>5
  <2> QED BY <1>3, <2>1 DEF RunnerLicensed, SubLicensed
<1> QED BY <1>1, <1>2, <1>4, <1>5, RunnerKept DEF o, r, ok

LEMMA RecordLicensed ==
  ASSUME Base, Licences, Guarded(graph), NEW p \in Runners, NEW s \in subs, Record(p, s)
  PROVE  Licences'
<1> DEFINE o == proc[p]
           r == proc'[p]
           ok == ghost.approved
           v == IF IsAgent(s.node) THEN s.verdict ELSE ToolOutcome(s.node, s.exit)
           row == OutcomeRow(s.node, s.attempt, s.task, v.claimed, v.outcome)
<1>1. /\ r.pc = "wave" /\ r.rows = <<row>> /\ r.seq = o.seq /\ r.wave \subseteq o.wave
      /\ subs' \subseteq subs /\ (IsAgent(s.node) => s.phase = "read")
      /\ \A q \in Processes \ {p} : proc'[q] = proc[q]
  BY RecordBase
<1>2. UNCHANGED <<graph, log, plan, ghost>> /\ o.pc = "wave"
  BY DEF Record, At, world
<1>3. RunnerLicensed(graph, log, plan, ok, o) /\ SubLicensed(graph, plan, ok, s) /\ SubTyped(graph, s)
  BY DEF Licences, Base
<1>4. /\ row.event = "node_outcome" /\ row.node = s.node /\ row.task = s.task
      /\ row.claimed = v.claimed /\ row.outcome = v.outcome
  BY DEF OutcomeRow
<1>5. ASSUME graph.nodes[s.node].binds, "completed" \in {v.claimed, v.outcome}
      PROVE  Frozen(plan, s.task)
  <2>1. IsAgent(s.node)
    BY <1>3, <1>5 DEF SubTyped, Workers, Guarded, IsAgent, Node
  <2>2. v = s.verdict /\ s.phase = "read"
    BY <1>1, <2>1
  <2> QED BY <1>3, <1>5, <2>2 DEF SubLicensed
<1> HIDE DEF o, r, ok, v, row
<1>6. RowLicensed(graph, plan, row)
  BY <1>4, <1>5 DEF RowLicensed
<1>7. RunnerLicensed(graph, log, plan, ok, r)
  BY <1>1, <1>3, <1>4, <1>6 DEF RunnerLicensed
<1> QED BY <1>1, <1>2, <1>7, RunnerKept DEF o, r, ok

LEMMA CallsLicensed ==
  ASSUME Base, Licences, Patient, NEW p \in Runners, Run(p) \/ Resume(p)
  PROVE  Licences'
<1> DEFINE r == proc'[p]
<1>1. UNCHANGED <<graph, log, subs, plan, ghost>> /\ proc[Parent].pc = "off"
  BY DEF Run, Resume, Typed, world
<1>2. /\ r.rows = <<>> /\ r.seq = 0 /\ r.wave = {} /\ r.pc # "routed"
      /\ \A q \in Processes \ {p} : proc'[q] = proc[q]
  <2>1. CASE Run(p)
    <3>1. r = [Off EXCEPT !.pc = "loop"] /\ \A q \in Processes \ {p} : proc'[q] = proc[q]
      BY <2>1, RunBase
    <3> QED BY <3>1 DEF Off
  <2>2. CASE Resume(p)
    BY <2>2, ResumeBase
  <2> QED BY <2>1, <2>2
<1> HIDE DEF r
<1>3. RunnerLicensed(graph, log, plan, ghost.approved, r)
  BY <1>2 DEF RunnerLicensed
<1> QED BY <1>1, <1>2, <1>3, RunnerKept DEF r

LEMMA LeaveLicensed ==
  ASSUME Base, Licences, NEW p \in Runners, Leave(p)
  PROVE  Licences'
<1>1. UNCHANGED <<graph, log, subs, plan, ghost>> /\ proc[p].pc = "closing"
  BY DEF Leave, At, world
<1> QED BY <1>1, LeaveBase, OffLicensed, RunnerKept

\* What was started, in another state.
LEMMA SameLicensed ==
  ASSUME NEW g, NEW pl, NEW ok, NEW s, NEW new, SubLicensed(g, pl, ok, s), Same(s, new),
         new.phase # "read"
  PROVE  SubLicensed(g, pl, ok, new)
BY DEF SubLicensed, Same

LEMMA CrashLicensed ==
  ASSUME Base, Licences, NEW p \in Processes, Crash(p)
  PROVE  Licences'
<1>1. UNCHANGED <<graph, log, plan, ghost>> /\ proc[p].pc # "off"
  BY DEF Crash, world
<1>2. /\ proc'[p] = Off /\ \A q \in Processes \ {p} : proc'[q] = proc[q]
      /\ \A new \in subs' : new \in subs \/ \E s \in subs : Same(s, new) /\ new.phase # "read"
  BY CrashBase
<1>3. \A s \in subs' : s \in subs \/ SubLicensed(graph, plan, ghost.approved, s)
  BY <1>2, SameLicensed DEF Licences
<1>4. CASE p \in Runners
  BY <1>1, <1>2, <1>3, <1>4, OffLicensed, RunnerKept
<1>5. CASE p = Parent
  <2>1. proc'[Parent] = Off /\ \A q \in Runners : proc'[q] = proc[q]
    BY <1>2, <1>5, ProcessAssumption DEF Processes
  <2>2. Off.pc = "off"
    BY DEF Off
  <2> QED BY <1>1, <1>3, <2>1, <2>2, OffLicensed DEF Licences
<1> QED BY <1>4, <1>5 DEF Processes

LEMMA DecidedLicensed ==
  ASSUME Base, Licences, Decided
  PROVE  Licences'
<1>1. UNCHANGED <<graph, log, subs, plan, ghost>>
  BY DEF Decided, world
<1>2. proc'[Parent] = Off /\ \A q \in Runners : proc'[q] = proc[q]
  BY DecidedBase, ProcessAssumption DEF Processes
<1>3. Off.pc = "off"
  BY DEF Off
<1> QED BY <1>1, <1>2, <1>3, OffLicensed DEF Licences

LEMMA DecideLicensed ==
  ASSUME Base, Licences, WorldTyped, Patient, NEW n \in DOMAIN graph.nodes, NEW d \in Outcomes, Decide(n, d)
  PROVE  Licences' /\ UNCHANGED plan /\ DOMAIN ghost' = DOMAIN ghost /\ UNCHANGED <<tree, left>>
<1> DEFINE r == proc'[Parent]
           row == GateRow(n, Tried(log.st, n), d)
           t == log.st.bound
           ok == ghost.approved
           ok2 == ghost'.approved
<1>1. UNCHANGED <<graph, log, subs, plan, tree, left>> /\ \A q \in Runners : proc[q].pc = "off"
  BY DEF Decide, Running
<1>2. /\ r.pc = "started" /\ r.rows = <<row>> /\ r.seq = 0
      /\ \A q \in Runners : proc'[q] = proc[q]
  BY DecideBase, ProcessAssumption DEF Processes
<1>3. DOMAIN ghost = {"approved", "landed"}
  BY DEF WorldTyped
<1>4. /\ ok \subseteq ok2 /\ ghost'.landed = ghost.landed /\ DOMAIN ghost' = DOMAIN ghost
      /\ d = "approved" /\ t # NoTask => <<t, plan[t].patch>> \in ok2
  <2>1. ghost' = IF d = "approved" /\ t # NoTask
                 THEN [ghost EXCEPT !.approved = @ \cup {<<t, plan[t].patch>>}] ELSE ghost
    BY DEF Decide
  <2> HIDE DEF t
  <2> QED BY <1>3, <2>1
<1>5. Grows(plan, ok, plan, ok2)
  BY <1>4 DEF Grows
<1>6. row.event = "gate_decision" /\ row.outcome = d
  BY DEF GateRow
<1>7. LogLicensed(graph, log, plan, ok) /\ ghost.landed \subseteq ok
  BY DEF Licences
<1> HIDE DEF r, row, t, ok, ok2
<1>8. ASSUME d = "approved", BoundDone(graph, log.st) PROVE Licensed(plan, ok2, t)
  <2>1. Frozen(plan, t)
    BY <1>7, <1>8 DEF LogLicensed, t
  <2>2. t # NoTask
    BY <2>1, TaskAssumption DEF Frozen
  <2> QED BY <1>4, <1>8, <2>1, <2>2 DEF Licensed
<1>9. ParentLicensed(graph, log, plan, ok2, r)
  BY <1>2, <1>6, <1>8 DEF ParentLicensed, t
<1>10. LogLicensed(graph, log, plan, ok2)
  BY <1>5, <1>7, LicencesGrow
<1>11. \A q \in Runners : RunnerLicensed(graph, log, plan, ok2, proc'[q]) /\ proc'[q].pc = "off"
  <2>1. \A q \in Runners : RunnerLicensed(graph, log, plan, ok, proc'[q])
    BY <1>2 DEF Licences, ok
  <2> QED BY <1>1, <1>2, <1>5, <2>1, LicencesGrow
<1>12. \A s \in subs' : SubLicensed(graph, plan, ok2, s)
  <2>1. \A s \in subs' : SubLicensed(graph, plan, ok, s)
    BY <1>1 DEF Licences, ok
  <2> QED BY <1>5, <2>1, LicencesGrow
<1>13. Licences'
  BY <1>1, <1>4, <1>7, <1>9, <1>10, <1>11, <1>12 DEF Licences, r, ok, ok2
<1> QED BY <1>1, <1>4, <1>13

LEMMA GrownLicensed ==
  ASSUME Licences, UNCHANGED <<graph, log, proc>>,
         Grows(plan, ghost.approved, plan', ghost'.approved), ghost'.landed \subseteq ghost'.approved,
         \A new \in subs' : new \in subs \/ SubLicensed(graph, plan, ghost.approved, new)
  PROVE  Licences'
<1> DEFINE ok == ghost.approved
           ok2 == ghost'.approved
           pl2 == plan'
<1>1. Grows(plan, ok, pl2, ok2)
  OBVIOUS
<1> HIDE DEF ok, ok2, pl2
<1>2. /\ LogLicensed(graph, log, plan, ok) /\ \A p \in Runners : RunnerLicensed(graph, log, plan, ok, proc[p])
      /\ ParentLicensed(graph, log, plan, ok, proc[Parent])
      /\ \A s \in subs' : SubLicensed(graph, plan, ok, s)
  BY DEF Licences, ok
<1>3. LogLicensed(graph, log, pl2, ok2)
  BY <1>1, <1>2, LicencesGrow
<1>4. \A p \in Runners : RunnerLicensed(graph, log, pl2, ok2, proc[p])
  BY <1>1, <1>2, LicencesGrow
<1>5. ParentLicensed(graph, log, pl2, ok2, proc[Parent])
  BY <1>1, <1>2, LicencesGrow
<1>6. \A s \in subs' : SubLicensed(graph, pl2, ok2, s)
  BY <1>1, <1>2, LicencesGrow
<1> QED BY <1>3, <1>4, <1>5, <1>6 DEF Licences, ok2, pl2

LEMMA WorksLicensed ==
  ASSUME Base, WorldTyped, Licences, Guarded(graph), NEW s \in subs,
         Enter(s) \/ Work(s) \/ Land(s) \/ Tool(s) \/ Return(s)
  PROVE  Licences' /\ DOMAIN ghost' = DOMAIN ghost
<1> DEFINE v == AgentOutcome(s.node, s.task, s.exit)
<1>1. /\ UNCHANGED <<graph, log, proc>>
      /\ \A new \in subs' : new \in subs \/
           (Same(s, new) /\ (new.phase = "read" => s.phase = "exited" /\ new.verdict = v))
  BY WorksBase
<1>2. Grows(plan, ghost.approved, plan', ghost'.approved)
  BY WorksGrow
<1>3. SubLicensed(graph, plan, ghost.approved, s) /\ SubTyped(graph, s)
  BY DEF Licences, Base
<1>4. ASSUME graph.nodes[s.node].binds, "completed" \in {v.claimed, v.outcome}, s.task \in Tasks,
             s.phase = "exited"
      PROVE  Frozen(plan, s.task)
  <2> DEFINE c == FromPlan(s.node, s.task, TRUE)
             w == WithProof(c, Proves(s.node, s.task))
  <2>1. IsAgent(s.node) /\ Node(s.node).mode = "run"
    BY <1>3, <1>4 DEF SubTyped, Workers, Guarded, IsAgent, Node
  <2>2. c \in FromPlanOutcomes /\ w \in {c, "unverified"}
    BY FromPlanType DEF WithProof
  <2>3. s.exit \in {"ok", "error"} => v.claimed = c /\ v.outcome \in {w, "failed"}
    <3> HIDE DEF c, w
    <3> QED BY DEF AgentOutcome, Verdicts, c, w
  <2>4. s.exit \in {"timeout", "busy"} => "completed" \notin {v.claimed, v.outcome}
    BY DEF AgentOutcome, Both, Verdicts
  <2>5. s.exit \in {"ok", "error", "timeout", "busy"}
    BY <1>3, <1>4 DEF SubTyped
  <2>6. c = "completed"
    <3> HIDE DEF c, w, v
    <3> QED BY <1>4, <2>2, <2>3, <2>4, <2>5
  <2>7. plan[s.task].state \in {"review", "done"}
    BY <2>1, <2>6 DEF FromPlan, StateProves
  <2> QED BY <1>4, <2>7 DEF Frozen
<1> HIDE DEF v
<1>5. ASSUME NEW new \in subs', new \notin subs PROVE SubLicensed(graph, plan, ghost.approved, new)
  BY <1>1, <1>3, <1>4, <1>5 DEF SubLicensed, Same
<1>6. DOMAIN ghost = {"approved", "landed"}
  BY DEF WorldTyped
<1>7. ghost'.landed \subseteq ghost'.approved /\ DOMAIN ghost' = DOMAIN ghost
  <2>1. CASE UNCHANGED ghost
    BY <2>1 DEF Licences
  <2>2. CASE ghost' = [ghost EXCEPT !.landed = @ \cup {<<s.task, plan[s.task].patch>>}] /\ s.phase = "landing"
    <3>1. Licensed(plan, ghost.approved, s.task)
      BY <1>3, <2>2 DEF SubTyped, SubLicensed
    <3> QED BY <1>6, <2>2, <3>1 DEF Licences, Licensed
  <2> QED BY <2>1, <2>2 DEF Enter, Work, Land, Tool, Return, world
<1> QED BY <1>1, <1>2, <1>5, <1>7, GrownLicensed

LEMMA OthersLicensed ==
  ASSUME Base, WorldTyped, Licences, graph \notin Requeued
  PROVE  /\ \A s \in subs : Timeout(s) => Licences'
         /\ \A t \in Tasks : Expire(t) \/ Other(t) => Licences'
<1>1. ASSUME NEW s \in subs, Timeout(s) PROVE Licences'
  <2>1. UNCHANGED <<graph, log, proc, plan, ghost>>
    BY <1>1 DEF Timeout, world
  <2>2. \A new \in subs' : new \in subs \/ (Same(s, new) /\ new.phase # "read")
    BY <1>1, TimeoutBase
  <2>3. \A new \in subs' : new \in subs \/ SubLicensed(graph, plan, ghost.approved, new)
    BY <2>2, SameLicensed DEF Licences
  <2>4. Grows(plan, ghost.approved, plan', ghost'.approved)
    BY <2>1 DEF Grows
  <2>5. ghost'.landed \subseteq ghost'.approved
    BY <2>1 DEF Licences
  <2> QED BY <2>1, <2>3, <2>4, <2>5, GrownLicensed
<1>2. ASSUME NEW t \in Tasks, Expire(t) \/ Other(t) PROVE Licences'
  <2>1. UNCHANGED <<graph, log, proc, subs, ghost>>
    BY <1>2 DEF Expire, Other, Still
  <2>2. Grows(plan, ghost.approved, plan', ghost'.approved)
    BY <1>2, TasksGrow
  <2>3. ghost'.landed \subseteq ghost'.approved
    BY <2>1 DEF Licences
  <2> QED BY <2>1, <2>2, <2>3, GrownLicensed
<1> QED BY <1>1, <1>2

\* A runner's row: nothing of the gates changes, and a binder that completes again
\* does so after every decision.
LEMMA RunnerRow ==
  ASSUME graph \in Specs, Guarded(graph), NEW l, LogTyped(graph, l), NEW pl, NEW ok,
         LogLicensed(graph, l, pl, ok), NEW r \in Rows(graph), r.event # "gate_decision",
         RowLicensed(graph, pl, r), NEW seq \in Nat, \A n \in Gates(graph) : seq > l.st.nodes[n].seq
  PROVE  LET to == Appended(l, r, seq) IN
         /\ LogLicensed(graph, to, pl, ok)
         /\ \A n \in Gates(graph) : to.st.nodes[n] = l.st.nodes[n]
<1> DEFINE to == Appended(l, r, seq)
           n == r.node
           st == l.st
           s2 == to.st
<1>1. to.seq = seq /\ s2 = IF r.key \in l.keys THEN st ELSE Project(st, r, seq)
  BY AppendedIs
<1>2. st \in States(graph) /\ IsFiniteSet(st.tries)
  BY DEF LogTyped
<1>3. \A k \in Gates(graph) : st.nodes[k].seq \in Nat
  BY <1>2 DEF States, NodeStates, Gates
<1> HIDE DEF to, n, st, s2
<1>4. ASSUME s2.nodes = st.nodes, s2.bound = st.bound
      PROVE  LogLicensed(graph, to, pl, ok) /\ \A k \in Gates(graph) : s2.nodes[k] = st.nodes[k]
  <2>1. /\ BoundDone(graph, s2) => BoundDone(graph, st)
        /\ Approved(graph, s2) => Approved(graph, st)
    BY <1>4 DEF BoundDone, Approved, Since, Finishes, Finished
  <2>2. \A k \in Gates(graph) : s2.nodes[k].seq <= seq
    BY <1>3, <1>4 DEF st
  <2> QED BY <1>1, <1>4, <2>1, <2>2 DEF LogLicensed, st, s2
<1>5. CASE r.key \in l.keys
  BY <1>1, <1>4, <1>5 DEF to, s2, st
<1>6. CASE r.key \notin l.keys /\ Other1(graph, r)
  <2>1. s2.nodes = st.nodes /\ s2.bound = st.bound
    BY <1>1, <1>2, <1>6, FoldsOther
  <2> QED BY <1>4, <2>1 DEF to, s2, st
<1>7. CASE r.key \notin l.keys /\ (Started(graph, r) \/ Ended(graph, r))
  <2>1. Folded(st, s2, r, seq)
    BY <1>1, <1>2, <1>7, FoldsNode
  <2>2. /\ n \in Workers(graph) /\ n \in DOMAIN graph.nodes /\ n \notin Gates(graph)
        /\ \A m \in DOMAIN graph.nodes : m # n => s2.nodes[m] = st.nodes[m]
    BY <1>7, <2>1 DEF Folded, Started, Ended, Workers, n
  <2>3. \A k \in Gates(graph) : s2.nodes[k] = st.nodes[k] /\ k \in DOMAIN graph.nodes
    BY <2>2 DEF Gates
  <2>4. CASE ~graph.nodes[n].binds
    <3>1. s2.bound = st.bound
      BY <2>1, <2>4 DEF Folded, Named, n
    <3>2. \A m \in DOMAIN graph.nodes : graph.nodes[m].binds => s2.nodes[m] = st.nodes[m]
      BY <2>2, <2>4
    <3>3. BoundDone(graph, s2) => BoundDone(graph, st)
      BY <3>2 DEF BoundDone, Finishes, Finished
    <3>4. Approved(graph, s2) => Approved(graph, st)
      BY <2>3, <3>2 DEF Approved, Since, Finishes, Finished
    <3>5. \A k \in Gates(graph) : s2.nodes[k].seq <= seq
      BY <1>3, <2>3 DEF st
    <3> QED BY <1>1, <2>3, <3>1, <3>3, <3>4, <3>5 DEF LogLicensed, to, s2, st
  <2>5. CASE graph.nodes[n].binds
    <3>1. \A m \in DOMAIN graph.nodes : graph.nodes[m].binds => m = n
      BY <2>2, <2>5 DEF Guarded
    <3>2. BoundDone(graph, s2) => Finishes(s2, n, "completed")
      BY <3>1 DEF BoundDone
    <3>3. Finishes(s2, n, "completed") => Frozen(pl, s2.bound)
      <4>1. SUFFICES ASSUME Finishes(s2, n, "completed") PROVE Frozen(pl, s2.bound)
        OBVIOUS
      <4>2. s2.nodes[n].status = "finished" /\ "completed" \in {s2.nodes[n].outcome, s2.nodes[n].claimed}
        BY <4>1 DEF Finishes, Finished
      <4>3. Ended(graph, r)
        BY <1>7, <2>1, <4>2 DEF Folded, NodeFolded, Started, n
      <4>4. r.event = "node_outcome" /\ "completed" \in {r.claimed, r.outcome}
        BY <2>1, <4>2, <4>3 DEF Folded, NodeFolded, Ended, n
      <4>5. Frozen(pl, r.task)
        BY <2>5, <4>4 DEF RowLicensed, n
      <4>6. r.task # NoTask
        BY <4>5, TaskAssumption DEF Frozen
      <4>7. s2.bound = r.task
        BY <2>1, <2>5, <4>4, <4>6 DEF Folded, Named, n
      <4> QED BY <4>5, <4>7
    <3>4. ~Approved(graph, s2)
      <4>1. SUFFICES ASSUME NEW k \in Gates(graph), Since(graph, s2, k) PROVE FALSE
        BY DEF Approved
      <4>2. s2.nodes[k].seq >= s2.nodes[n].seq
        BY <3>1, <4>1 DEF Since
      <4>3. s2.nodes[k].seq = st.nodes[k].seq /\ seq > st.nodes[k].seq /\ st.nodes[k].seq \in Nat
        BY <1>3, <2>3 DEF st
      <4>4. st.nodes[n].seq \in Nat
        BY <1>2, <2>2 DEF States, NodeStates
      <4>5. s2.nodes[n].seq >= seq /\ s2.nodes[n].seq \in Nat
        BY <2>1, <4>4, Max2Type DEF Folded, NodeFolded, n
      <4> QED BY <4>2, <4>3, <4>5
    <3>5. \A k \in Gates(graph) : s2.nodes[k].seq <= seq
      BY <1>3, <2>3 DEF st
    <3> QED BY <1>1, <2>3, <3>2, <3>3, <3>4, <3>5 DEF LogLicensed, to, s2, st
  <2> QED BY <2>4, <2>5
<1>8. Started(graph, r) \/ Ended(graph, r) \/ Other1(graph, r)
  BY RowKinds DEF Gated1
<1> QED BY <1>5, <1>6, <1>7, <1>8

\* The parent's row: a gate is decided, and nothing else is.
LEMMA ParentRow ==
  ASSUME graph \in Specs, Guarded(graph), NEW l, LogTyped(graph, l), NEW pl, NEW ok,
         LogLicensed(graph, l, pl, ok), NEW r \in Rows(graph), r.event = "gate_decision",
         r.outcome = "approved" /\ BoundDone(graph, l.st) => Licensed(pl, ok, l.st.bound)
  PROVE  LET to == Appended(l, r, l.seq + 1) IN
         /\ LogLicensed(graph, to, pl, ok)
         /\ to.st.bound = l.st.bound /\ (BoundDone(graph, to.st) => BoundDone(graph, l.st))
<1> DEFINE seq == l.seq + 1
           to == Appended(l, r, seq)
           n == r.node
           st == l.st
           s2 == to.st
<1>1. to.seq = seq /\ s2 = IF r.key \in l.keys THEN st ELSE Project(st, r, seq)
  BY AppendedIs
<1>2. st \in States(graph) /\ IsFiniteSet(st.tries) /\ l.seq \in Nat /\ seq \in Nat
  BY DEF LogTyped
<1>3. \A k \in Gates(graph) : st.nodes[k].seq \in Nat /\ st.nodes[k].seq <= l.seq /\ st.nodes[k].seq <= seq
  <2>1. \A k \in Gates(graph) : st.nodes[k].seq \in Nat /\ st.nodes[k].seq <= l.seq
    BY <1>2 DEF States, NodeStates, Gates, LogLicensed
  <2> QED BY <1>2, <2>1
<1> HIDE DEF to, n, st, s2, seq
<1>4. CASE r.key \in l.keys
  <2>1. s2 = st
    BY <1>1, <1>4
  <2> QED BY <1>1, <1>3, <2>1 DEF LogLicensed, to, s2, st, seq
<1>5. CASE r.key \notin l.keys
  <2>1. Gated1(graph, r)
    BY RowKinds DEF Started, Ended, Other1
  <2>2. Folded(st, s2, r, seq)
    BY <1>1, <1>2, <1>5, <2>1, FoldsNode
  <2>3. /\ n \in Gates(graph) /\ n \in DOMAIN graph.nodes
        /\ \A m \in DOMAIN graph.nodes : m # n => s2.nodes[m] = st.nodes[m]
    BY <2>1, <2>2 DEF Folded, Gated1, Gates, n
  <2>4. s2.bound = st.bound
    BY <2>2 DEF Folded
  <2>5. \A m \in DOMAIN graph.nodes : graph.nodes[m].binds => s2.nodes[m] = st.nodes[m]
    BY <2>3 DEF Guarded, Gates, IsGate
  <2>6. BoundDone(graph, s2) => BoundDone(graph, st)
    BY <2>5 DEF BoundDone, Finishes, Finished
  <2>7. ASSUME Approved(graph, s2) PROVE Licensed(pl, ok, st.bound)
    <3>1. PICK k \in Gates(graph) : Since(graph, s2, k) /\ Finishes(s2, k, "approved")
      BY <2>7 DEF Approved
    <3>2. CASE k = n
      <4>1. r.outcome = "approved"
        BY <2>1, <2>2, <3>1, <3>2 DEF Folded, NodeFolded, Gated1, Finishes, n
      <4>2. BoundDone(graph, s2)
        BY <3>1 DEF Since, BoundDone
      <4> QED BY <2>6, <4>1, <4>2 DEF st
    <3>3. CASE k # n
      <4>1. s2.nodes[k] = st.nodes[k] /\ k \in DOMAIN graph.nodes
        BY <2>3, <3>3 DEF Gates
      <4>2. Since(graph, st, k) /\ Finishes(st, k, "approved")
        BY <2>5, <3>1, <4>1 DEF Since, Finishes, Finished
      <4> QED BY <4>2 DEF Approved, LogLicensed, st
    <3> QED BY <3>2, <3>3
  <2>8. \A k \in Gates(graph) : s2.nodes[k].seq <= seq
    <3>1. ASSUME NEW k \in Gates(graph) PROVE s2.nodes[k].seq <= seq
      <4>1. CASE k = n
        <5>1. s2.nodes[n].seq = Max2(st.nodes[n].seq, seq)
          BY <2>2 DEF Folded, NodeFolded, n
        <5> QED BY <1>2, <1>3, <4>1, <5>1 DEF Max2
      <4>2. CASE k # n
        BY <1>3, <2>3, <4>2 DEF Gates
      <4> QED BY <4>1, <4>2
    <3> QED BY <3>1
  <2> QED BY <1>1, <2>4, <2>6, <2>7, <2>8 DEF LogLicensed, to, s2, st, seq
<1> QED BY <1>4, <1>5

LEMMA WriteLicensed ==
  ASSUME Base, Licences, Guarded(graph), NEW p \in Processes, Write(p)
  PROVE  Licences'
<1> DEFINE o == proc[p]
           r == proc'[p]
           row == o.rows[1]
           pl == plan
           ok == ghost.approved
<1>1. /\ UNCHANGED <<graph, subs, plan, ghost>> /\ o.seq # 0
      /\ log' = Appended(log, row, o.seq)
  BY DEF Write, world
<1>2. /\ o.rows \in Seq(Rows(graph)) /\ o.rows # <<>> /\ row \in Rows(graph)
      /\ o.seq \in Nat \ {0} /\ o.pc # "off"
      /\ r = [o EXCEPT !.rows = Tail(@), !.seq = 0]
      /\ \A q \in Processes \ {p} : proc'[q] = proc[q]
  BY WriteBase
<1>3. /\ LogTyped(graph, log) /\ graph \in Specs /\ \A q \in Processes : ProcTyped(graph, proc[q])
  BY DEF Base
<1>4. /\ r.rows = Tail(o.rows) /\ r.seq = 0 /\ r.pc = o.pc /\ r.route = o.route
      /\ r.snap = o.snap /\ r.wave = o.wave
  BY <1>2, <1>3 DEF ProcTyped, Fields
<1>5. /\ 1 \in DOMAIN o.rows
      /\ \A i \in DOMAIN r.rows : i + 1 \in DOMAIN o.rows /\ r.rows[i] = o.rows[i + 1]
  <2>1. Len(o.rows) \in Nat /\ Len(o.rows) > 0 /\ DOMAIN o.rows = 1 .. Len(o.rows)
    BY <1>2
  <2>2. Len(r.rows) = Len(o.rows) - 1 /\ DOMAIN r.rows = 1 .. Len(r.rows)
    BY <1>2, <1>4
  <2>3. \A i \in 1 .. Len(o.rows) - 1 : r.rows[i] = o.rows[i + 1]
    BY <1>2, <1>4
  <2> HIDE DEF o, r
  <2> QED BY <2>1, <2>2, <2>3
<1>6. /\ LogLicensed(graph, log, pl, ok)
      /\ \A q \in Runners : RunnerLicensed(graph, log, pl, ok, proc[q])
      /\ ParentLicensed(graph, log, pl, ok, proc[Parent])
      /\ proc[Parent].pc # "off" => \A q \in Runners : proc[q].pc = "off"
      /\ \A s \in subs : SubLicensed(graph, pl, ok, s)
      /\ ghost.landed \subseteq ok
  BY DEF Licences
<1>7. Runners \subseteq Processes /\ Parent \in Processes \ Runners
  BY ProcessAssumption DEF Processes
<1> HIDE DEF r, row, pl, ok
<1>8. CASE p \in Runners
  <2>1. RunnerLicensed(graph, log, pl, ok, o)
    BY <1>6, <1>8 DEF o
  <2>2. row.event # "gate_decision" /\ RowLicensed(graph, pl, row)
    BY <1>5, <2>1 DEF RunnerLicensed, row
  <2>3. \A n \in Gates(graph) : o.seq > log.st.nodes[n].seq
    BY <1>1, <2>1 DEF RunnerLicensed
  <2> HIDE DEF o
  <2>4. /\ LogLicensed(graph, log', pl, ok)
        /\ \A n \in Gates(graph) : log'.st.nodes[n] = log.st.nodes[n]
    BY <1>1, <1>2, <1>3, <1>6, <2>2, <2>3, RunnerRow
  <2>5. RunnerLicensed(graph, log', pl, ok, r)
    <3>1. \A i \in DOMAIN r.rows : r.rows[i].event # "gate_decision" /\ RowLicensed(graph, pl, r.rows[i])
      BY <1>5, <2>1 DEF RunnerLicensed
    <3> QED BY <1>4, <2>1, <3>1 DEF RunnerLicensed
  <2>6. \A q \in Runners \ {p} : RunnerLicensed(graph, log', pl, ok, proc'[q])
    <3>1. ASSUME NEW q \in Runners \ {p} PROVE RunnerLicensed(graph, log', pl, ok, proc'[q])
      <4>1. proc'[q] = proc[q] /\ RunnerLicensed(graph, log, pl, ok, proc[q])
        BY <1>2, <1>6, <1>7
      <4> QED BY <2>4, <4>1 DEF RunnerLicensed
    <3> QED BY <3>1
  <2>7. \A q \in Runners : RunnerLicensed(graph, log', pl, ok, proc'[q])
    BY <2>5, <2>6 DEF r
  <2>8. proc'[Parent] = proc[Parent] /\ proc[Parent].pc = "off"
    BY <1>2, <1>6, <1>7, <1>8 DEF o
  <2>9. ParentLicensed(graph, log', pl, ok, proc'[Parent])
    <3>1. proc'[Parent] = Off
      BY <1>3, <1>7, <2>8 DEF ProcTyped
    <3> QED BY <3>1, OffLicensed
  <2> QED BY <1>1, <1>6, <2>4, <2>7, <2>8, <2>9 DEF Licences, pl, ok
<1>9. CASE p = Parent
  <2>1. ParentLicensed(graph, log, pl, ok, o)
    BY <1>6, <1>9 DEF o
  <2>2. /\ row.event = "gate_decision"
        /\ row.outcome = "approved" /\ BoundDone(graph, log.st) => Licensed(pl, ok, log.st.bound)
    BY <1>5, <2>1 DEF ParentLicensed, row
  <2>3. o.seq = log.seq + 1
    BY <1>1, <2>1 DEF ParentLicensed
  <2>4. \A q \in Runners : proc'[q] = Off
    BY <1>2, <1>3, <1>6, <1>7, <1>9 DEF ProcTyped, o
  <2> HIDE DEF o
  <2>5. /\ LogLicensed(graph, log', pl, ok)
        /\ log'.st.bound = log.st.bound /\ (BoundDone(graph, log'.st) => BoundDone(graph, log.st))
    BY <1>1, <1>2, <1>3, <1>6, <2>2, <2>3, ParentRow
  <2>6. ParentLicensed(graph, log', pl, ok, r)
    <3>1. \A i \in DOMAIN r.rows :
            /\ r.rows[i].event = "gate_decision"
            /\ r.rows[i].outcome = "approved" /\ BoundDone(graph, log.st) => Licensed(pl, ok, log.st.bound)
      BY <1>5, <2>1 DEF ParentLicensed
    <3> QED BY <1>4, <2>1, <2>5, <3>1 DEF ParentLicensed
  <2>7. \A q \in Runners : RunnerLicensed(graph, log', pl, ok, proc'[q]) /\ proc'[q].pc = "off"
    BY <2>4, OffLicensed DEF Off
  <2> QED BY <1>1, <1>6, <1>9, <2>5, <2>6, <2>7 DEF Licences, pl, ok, r
<1> QED BY <1>8, <1>9 DEF Processes

LEMMA LicencesStep ==
  ASSUME Patient, Base, WorldTyped, Licences, Guarded(graph), graph \notin Requeued, [Next]_vars
  PROVE  Licences'
<1>1. CASE UNCHANGED vars
  <2>1. UNCHANGED <<graph, log, proc, subs, plan, ghost>>
    BY <1>1 DEF vars
  <2> QED BY <2>1 DEF Licences
<1>2. CASE Next
  <2>1. CASE \E p \in Runners : Run(p) \/ Resume(p) \/ Reconcile(p) \/ Step(p) \/ Stop(p) \/ Plan(p)
                               \/ Launch(p) \/ Leave(p) \/ \E s \in subs : Record(p, s)
    BY <2>1, CallsLicensed, ReconcileLicensed, StepLicensed, StopLicensed, PlanLicensed,
       LaunchLicensed, LeaveLicensed, RecordLicensed
  <2>2. CASE \E p \in Processes : Prepare(p) \/ Write(p) \/ Crash(p)
    BY <2>2, PrepareLicensed, WriteLicensed, CrashLicensed
  <2>3. CASE \E n \in DOMAIN graph.nodes : \E d \in Outcomes : Decide(n, d)
    BY <2>3, DecideLicensed
  <2>4. CASE Decided
    BY <2>4, DecidedLicensed
  <2>5. CASE \E s \in subs : Enter(s) \/ Work(s) \/ Land(s) \/ Tool(s) \/ Return(s) \/ Timeout(s)
    BY <2>5, WorksLicensed, OthersLicensed
  <2>6. CASE \E t \in Tasks : Expire(t) \/ Other(t)
    BY <2>6, OthersLicensed
  <2> QED BY <1>2, <2>1, <2>2, <2>3, <2>4, <2>5, <2>6, NextCases
<1> QED BY <1>1, <1>2

LEMMA InitLicences ==
  ASSUME Init
  PROVE  WorldTyped /\ Licences
<1>1. /\ subs = {} /\ proc = [p \in Processes |-> Off] /\ log.seq = 1
      /\ log.st.nodes = [n \in DOMAIN graph.nodes |-> Unvisited]
      /\ ghost = [approved |-> {}, landed |-> {}]
  BY DEF Init, Processes
<1>2. WorldTyped
  BY DEF Init, WorldTyped, PlanRows
<1>3. \A n \in DOMAIN graph.nodes : log.st.nodes[n].status = "pending" /\ log.st.nodes[n].seq = 0
  BY <1>1 DEF Unvisited
<1>4. LogLicensed(graph, log, plan, ghost.approved)
  BY <1>1, <1>3 DEF LogLicensed, BoundDone, Approved, Since, Finishes, Finished, Gates
<1>5. /\ \A p \in Runners : proc[p] = Off
      /\ proc[Parent] = Off /\ Off.pc = "off"
  BY <1>1 DEF Processes, Off
<1> QED BY <1>1, <1>2, <1>4, <1>5, OffLicensed DEF Licences

\* What others do to a task, in whatever graph, leaves a plan.
LEMMA TasksTyped ==
  ASSUME plan \in [Tasks -> PlanRows], NEW t \in Tasks, Expire(t) \/ Other(t)
  PROVE  plan' \in [Tasks -> PlanRows]
<1> DEFINE x == plan[t]
<1>1. x \in PlanRows /\ x.epoch + 1 \in Nat
  BY DEF PlanRows
<1>2. \/ Set(t, [x EXCEPT !.expired = TRUE])
      \/ Claiming(t)
      \/ Set(t, [x EXCEPT !.state = "review", !.patch = x.epoch, !.expired = FALSE])
      \/ Moved(t, "ready") \/ Moved(t, "done")
  BY DEF Expire, Other
<1>3. \E r \in PlanRows : Set(t, r)
  <2>1. CASE Set(t, [x EXCEPT !.expired = TRUE])
    <3>1. [x EXCEPT !.expired = TRUE] \in PlanRows
      BY <1>1 DEF PlanRows
    <3> QED BY <2>1, <3>1
  <2>2. CASE Claiming(t)
    <3> DEFINE r == [x EXCEPT !.state = "claimed", !.epoch = x.epoch + 1, !.expired = FALSE]
    <3>1. Set(t, r)
      BY <2>2 DEF Claiming
    <3>2. r \in PlanRows
      <4> HIDE DEF x
      <4> QED BY <1>1 DEF PlanRows
    <3> QED BY <3>1, <3>2
  <2>3. CASE Set(t, [x EXCEPT !.state = "review", !.patch = x.epoch, !.expired = FALSE])
    <3>1. [x EXCEPT !.state = "review", !.patch = x.epoch, !.expired = FALSE] \in PlanRows
      BY <1>1 DEF PlanRows
    <3> QED BY <2>3, <3>1
  <2>4. ASSUME NEW state \in {"ready", "done"}, Moved(t, state) PROVE \E r \in PlanRows : Set(t, r)
    <3> DEFINE r == [x EXCEPT !.state = state, !.expired = FALSE]
    <3>1. Set(t, r)
      BY <2>4 DEF Moved
    <3>2. r \in PlanRows
      BY <1>1 DEF PlanRows
    <3> QED BY <3>1, <3>2
  <2> QED BY <1>2, <2>1, <2>2, <2>3, <2>4
<1> QED BY <1>3 DEF Set

LEMMA WorldStep ==
  ASSUME Base, WorldTyped, [Next]_vars
  PROVE  WorldTyped'
<1> DEFINE Ends == {"fresh", "running", "crashed", "gate", "decided", "finished"}
           Trees == [dirty : BOOLEAN, accepted : {"none", "pass", "fail"}]
<1>1. plan \in [Tasks -> PlanRows] /\ tree \in Trees /\ left \in Ends /\ DOMAIN ghost = {"approved", "landed"}
  BY DEF WorldTyped
<1>2. CASE UNCHANGED vars
  BY <1>1, <1>2 DEF WorldTyped, vars
<1>3. ASSUME NEW p \in Processes,
             Prepare(p) \/ Write(p) \/ Crash(p) \/ Run(p) \/ Resume(p) \/ Reconcile(p) \/ Step(p)
               \/ Stop(p) \/ Plan(p) \/ Launch(p) \/ Leave(p) \/ (\E s \in subs : Record(p, s)) \/ Decided
      PROVE  WorldTyped'
  <2>1. UNCHANGED <<plan, tree, ghost>>
    BY <1>3 DEF Prepare, Write, Crash, Run, Resume, Reconcile, Step, Stop, Plan, Launch, Leave, Record,
       Decided, world
  <2>2. left' \in Ends
    BY <1>1, <1>3 DEF Prepare, Write, Crash, Run, Resume, Reconcile, Step, Stop, Plan, Launch, Leave,
       Record, Decided, End
  <2> QED BY <1>1, <2>1, <2>2 DEF WorldTyped
<1>4. ASSUME NEW n \in DOMAIN graph.nodes, NEW d \in Outcomes, Decide(n, d) PROVE WorldTyped'
  <2>1. UNCHANGED <<plan, tree, left>>
    BY <1>4 DEF Decide
  <2>2. DOMAIN ghost' = DOMAIN ghost
    BY <1>4 DEF Decide
  <2> QED BY <1>1, <2>1, <2>2 DEF WorldTyped
<1>5. ASSUME NEW s \in subs, Enter(s) \/ Work(s) \/ Land(s) \/ Tool(s) \/ Return(s) PROVE WorldTyped'
  <2>1. plan' \in [Tasks -> PlanRows]
    BY <1>5, WorksGrow
  <2>2. UNCHANGED left /\ DOMAIN ghost' = DOMAIN ghost
    BY <1>5 DEF Enter, Work, Land, Tool, Return, Still, world
  <2>3. \/ UNCHANGED tree \/ tree' = [tree EXCEPT !.dirty = TRUE]
        \/ \E a \in {"pass", "fail"} : tree' = [tree EXCEPT !.accepted = a]
        \/ tree' = [dirty |-> FALSE, accepted |-> "none"]
    BY <1>5 DEF Enter, Work, Land, Tool, Return, world
  <2>4. tree' \in Trees
    <3>1. [tree EXCEPT !.dirty = TRUE] \in Trees
      BY <1>1
    <3>2. \A a \in {"pass", "fail"} : [tree EXCEPT !.accepted = a] \in Trees
      BY <1>1
    <3>3. [dirty |-> FALSE, accepted |-> "none"] \in Trees
      OBVIOUS
    <3> HIDE DEF Trees
    <3> QED BY <1>1, <2>3, <3>1, <3>2, <3>3
  <2> QED BY <1>1, <2>1, <2>2, <2>4 DEF WorldTyped
<1>6. ASSUME NEW s \in subs, Timeout(s) PROVE WorldTyped'
  BY <1>1, <1>6 DEF WorldTyped, Timeout, world
<1>7. ASSUME NEW t \in Tasks, Expire(t) \/ Other(t) PROVE WorldTyped'
  <2>1. UNCHANGED <<tree, left, ghost>>
    BY <1>7 DEF Expire, Other, Still
  <2> QED BY <1>1, <1>7, <2>1, TasksTyped DEF WorldTyped
<1>8. CASE Next
  <2>1. Runners \subseteq Processes /\ Parent \in Processes
    BY DEF Processes
  <2> QED BY <1>3, <1>4, <1>5, <1>6, <1>7, <1>8, <2>1, NextCases
<1> QED BY <1>2, <1>8

\* In a graph with a gate, a run lands only patches that the parent approved,
\* whatever is killed, resumed, timed out or left to itself: if the parent decides
\* when no runner is at work, each landing of the graph follows an approval of its
\* one binder's work, and nobody makes a task in review ready again.
THEOREM GatedLandingCorrect ==
  ASSUME Patient,
         \A g \in Specs : (\E n \in DOMAIN g.nodes : IsGate(g, n)) => Guarded(g) /\ g \notin Requeued
  PROVE  Spec => []GatedLanding
<1> DEFINE Inv == Base /\ WorldTyped /\ (Gated => Licences)
<1>1. Init => Inv
  BY InitBase, InitLicences
<1>2. Inv /\ [Next]_vars => Inv'
  <2>1. SUFFICES ASSUME Inv, [Next]_vars PROVE Inv'
    OBVIOUS
  <2>2. Base' /\ WorldTyped'
    BY <2>1, BaseStep, WorldStep
  <2>3. ASSUME Gated' PROVE Licences'
    <3>1. UNCHANGED graph
      BY <2>1, GraphFrozen
    <3>2. Gated
      BY <2>3, <3>1 DEF Gated
    <3>3. Guarded(graph) /\ graph \notin Requeued
      BY <2>1, <3>2 DEF Gated, Base
    <3> QED BY <2>1, <3>2, <3>3, LicencesStep
  <2> QED BY <2>2, <2>3
<1>3. Inv => GatedLanding
  BY DEF GatedLanding, Licences
<1> QED BY <1>1, <1>2, <1>3, PTL DEF Spec

-----------------------------------------------------------------------------
(* Sequence numbers: two rows may have the same one, and none is past the    *)
(* end of the log.                                                           *)
Numbered ==
  /\ log.seq <= log.len
  /\ \A p \in Processes : proc[p].seq <= log.len + 1
  /\ \A n \in DOMAIN graph.nodes : log.st.nodes[n].seq <= log.len

\* Only the preparing of a row takes a number.
LEMMA NumbersKept ==
  ASSUME Base, [Next]_vars, NEW p \in Processes
  PROVE  proc'[p].seq \in {0, proc[p].seq, log.seq + 1}
<1>1. Off.seq = 0 /\ [Off EXCEPT !.pc = "loop"].seq = 0
  BY DEF Off
<1>2. CASE UNCHANGED proc
  BY <1>2
<1>3. ASSUME NEW q \in Runners,
             Run(q) \/ Resume(q) \/ Reconcile(q) \/ Step(q) \/ Stop(q) \/ Plan(q) \/ Launch(q) \/ Leave(q)
               \/ \E s \in subs : Record(q, s)
      PROVE  proc'[p].seq \in {0, proc[p].seq, log.seq + 1}
  <2>1. CASE Run(q) \/ Resume(q) \/ Leave(q)
    <3>1. proc'[q].seq = 0 /\ \A k \in Processes \ {q} : proc'[k] = proc[k]
      BY <1>1, <2>1, RunBase, ResumeBase, LeaveBase
    <3> QED BY <3>1
  <2>2. CASE Reconcile(q) \/ Step(q)
    <3>1. proc'[q].seq = proc[q].seq /\ \A k \in Processes \ {q} : proc'[k] = proc[k]
      BY <2>2, ReconcileBase, StepBase
    <3> QED BY <3>1
  <2>3. CASE Stop(q) \/ Plan(q)
    <3>1. proc'[q].seq \in {0, proc[q].seq} /\ \A k \in Processes \ {q} : proc'[k] = proc[k]
      BY <1>1, <2>3, StopBase, PlanBase
    <3> QED BY <3>1
  <2>4. CASE Launch(q) \/ \E s \in subs : Record(q, s)
    <3>1. proc'[q].seq = proc[q].seq /\ \A k \in Processes \ {q} : proc'[k] = proc[k]
      BY <2>4, LaunchBase, RecordBase
    <3> QED BY <3>1
  <2> QED BY <1>3, <2>1, <2>2, <2>3, <2>4
<1>4. ASSUME NEW q \in Processes, Prepare(q) PROVE proc'[p].seq \in {0, proc[p].seq, log.seq + 1}
  <2> DEFINE r == [proc[q] EXCEPT !.seq = log.seq + 1]
  <2>1. (Become(q, Off) \/ Become(q, r)) /\ DOMAIN proc = Processes /\ ProcTyped(graph, proc[q])
    BY <1>4 DEF Prepare, End, Base
  <2>2. r.seq = log.seq + 1
    BY <2>1 DEF ProcTyped, Fields
  <2> HIDE DEF r
  <2> QED BY <1>1, <2>1, <2>2 DEF Become
<1>5. ASSUME NEW q \in Processes, Write(q) PROVE proc'[p].seq \in {0, proc[p].seq, log.seq + 1}
  <2>1. ProcTyped(graph, proc[q]) /\ proc'[q] = [proc[q] EXCEPT !.rows = Tail(@), !.seq = 0]
        /\ \A k \in Processes \ {q} : proc'[k] = proc[k]
    BY <1>5, WriteBase DEF Base
  <2>2. proc'[q].seq = 0
    BY <2>1 DEF ProcTyped, Fields
  <2> QED BY <2>1, <2>2
<1>6. CASE \E q \in Processes : Crash(q)
  BY <1>1, <1>6, CrashBase
<1>7. CASE Decided \/ \E n \in DOMAIN graph.nodes : \E d \in Outcomes : Decide(n, d)
  BY <1>1, <1>7, DecideBase, DecidedBase
<1>8. CASE \/ \E s \in subs : Enter(s) \/ Work(s) \/ Land(s) \/ Tool(s) \/ Return(s) \/ Timeout(s)
           \/ \E t \in Tasks : Expire(t) \/ Other(t)
  BY <1>2, <1>8 DEF Enter, Work, Land, Tool, Return, Timeout, Expire, Other, Still
<1> QED BY <1>2, <1>3, <1>4, <1>5, <1>6, <1>7, <1>8, NextCases DEF vars

LEMMA NumberedStep ==
  ASSUME Base, Numbered, [Next]_vars
  PROVE  Numbered'
<1>1. /\ LogTyped(graph, log) /\ log.len \in Nat /\ log.seq \in Nat
      /\ \A p \in Processes : proc[p].seq \in Nat /\ proc'[p].seq \in {0, proc[p].seq, log.seq + 1}
      /\ \A n \in DOMAIN graph.nodes : log.st.nodes[n].seq \in Nat
  BY NumbersKept DEF Base, LogTyped, ProcTyped, States, NodeStates
<1>2. UNCHANGED graph
  BY GraphFrozen
<1>3. CASE UNCHANGED log
  BY <1>1, <1>2, <1>3 DEF Numbered
<1>4. ASSUME NEW p \in Processes, Write(p) PROVE Numbered'
  <2> DEFINE r == proc[p].rows[1]
             seq == proc[p].seq
  <2>1. r \in Rows(graph) /\ seq \in Nat /\ seq <= log.len + 1
    BY <1>1, <1>4, WriteBase DEF Numbered
  <2>2. /\ log'.len = log.len + 1 /\ log'.seq = seq
        /\ log'.st = IF r.key \in log.keys THEN log.st ELSE Project(log.st, r, seq)
    BY <1>4, AppendedIs DEF Write
  <2>3. \A n \in DOMAIN graph.nodes : log'.st.nodes[n].seq \in {log.st.nodes[n].seq, seq}
    <3>1. CASE r.key \in log.keys
      BY <2>2, <3>1
    <3>2. CASE r.key \notin log.keys /\ Other1(graph, r)
      <4>1. log'.st.nodes = log.st.nodes
        BY <1>1, <2>1, <2>2, <3>2, FoldsOther DEF LogTyped
      <4> QED BY <4>1
    <3>3. CASE r.key \notin log.keys /\ (Started(graph, r) \/ Ended(graph, r) \/ Gated1(graph, r))
      <4>1. Folded(log.st, log'.st, r, seq)
        BY <1>1, <2>1, <2>2, <3>3, FoldsNode DEF LogTyped
      <4>2. log'.st.nodes[r.node].seq = Max2(log.st.nodes[r.node].seq, seq)
        BY <4>1, <3>3 DEF Folded, NodeFolded, Started, Ended, Gated1, Workers, Gates
      <4>3. \A n \in DOMAIN graph.nodes : n # r.node => log'.st.nodes[n] = log.st.nodes[n]
        BY <4>1 DEF Folded
      <4> QED BY <4>2, <4>3 DEF Max2
    <3> QED BY <2>1, <3>1, <3>2, <3>3, RowKinds
  <2> HIDE DEF r, seq
  <2>4. \A n \in DOMAIN graph.nodes : log'.st.nodes[n].seq <= log'.len
    BY <1>1, <2>1, <2>2, <2>3 DEF Numbered
  <2>5. \A q \in Processes : proc'[q].seq <= log'.len + 1
    BY <1>1, <2>2 DEF Numbered
  <2> QED BY <1>1, <1>2, <2>1, <2>2, <2>4, <2>5 DEF Numbered
<1> QED BY <1>3, <1>4, GraphFrozen

\* Type correctness: what is logged, under way and planned is what a graph,
\* its nodes and the tasks allow, and no row of the log is numbered past its end.
THEOREM TypeCorrect == Spec => []TypeOK
<1>1. Init => Base /\ WorldTyped /\ Numbered
  <2>1. ASSUME Init PROVE Numbered
    <3>1. /\ proc = [p \in Processes |-> Off] /\ log.seq = 1 /\ log.len = 1
          /\ log.st.nodes = [n \in DOMAIN graph.nodes |-> Unvisited]
      BY <2>1 DEF Init, Processes
    <3>2. Off.seq = 0 /\ Unvisited.seq = 0
      BY DEF Off, Unvisited
    <3> QED BY <3>1, <3>2 DEF Numbered
  <2> QED BY <2>1, InitBase, InitLicences
<1>2. Base /\ WorldTyped /\ Numbered /\ [Next]_vars => (Base /\ WorldTyped /\ Numbered)'
  BY BaseStep, WorldStep, NumberedStep
<1>3. ASSUME Base, WorldTyped, Numbered PROVE TypeOK
  <2>1. /\ graph \in Specs /\ log.len \in Nat /\ log.seq \in Nat /\ log.st \in States(graph)
        /\ \A p \in Processes : proc[p].pc \in Pcs
        /\ \A s \in subs : SubTyped(graph, s)
    BY <1>3 DEF Base, LogTyped, ProcTyped
  <2>2. /\ log.st.steps \in Nat /\ log.st.bound \in Tasks \cup {NoTask}
        /\ DOMAIN log.st.nodes = DOMAIN graph.nodes
        /\ \A n \in DOMAIN graph.nodes : log.st.nodes[n] \in NodeStates
    BY <2>1 DEF States, TaskNames
  <2>3. ASSUME NEW n \in DOMAIN graph.nodes
        PROVE  /\ log.st.nodes[n].status \in {"pending", "active", "finished"}
               /\ log.st.nodes[n].outcome \in Outcomes \cup {NoOutcome}
               /\ log.st.nodes[n].attempts \in Nat /\ log.st.nodes[n].seq \in 0..log.len
               /\ log.st.nodes[n].task \in Tasks \cup {NoTask}
    BY <1>3, <2>1, <2>2 DEF NodeStates, Results, TaskNames, Numbered
  <2>4. \A s \in subs : /\ s.by \in Runners \cup {Nobody} /\ s.node \in DOMAIN graph.nodes
                         /\ s.phase \in {"launched", "working", "landing", "exited", "read"}
    BY <2>1 DEF SubTyped, Workers, Phases
  <2> QED BY <1>3, <2>1, <2>2, <2>3, <2>4 DEF TypeOK, WorldTyped, PlanRows, Processes
<1> QED BY <1>1, <1>2, <1>3, PTL DEF Spec

-----------------------------------------------------------------------------
(* Work is done again only where it was paid for.  First, counting.        *)
Pile(P, h) == UNION {{p} \X (1 .. h[p]) : p \in P}

LEMMA PileIs == \A P, h, p, k : <<p, k>> \in Pile(P, h) <=> p \in P /\ k \in 1 .. h[p]
BY DEF Pile

LEMMA PileOfPairs ==
  ASSUME NEW P, NEW h, NEW x \in Pile(P, h) PROVE \E p \in P : \E k \in 1 .. h[p] : x = <<p, k>>
BY DEF Pile

LEMMA MappedFinite ==
  ASSUME NEW D, IsFiniteSet(D), NEW f, f = [x \in D |-> f[x]]
  PROVE  IsFiniteSet({f[x] : x \in D})
<1> DEFINE T == {f[x] : x \in D}
<1>1. f \in [D -> T] /\ \A t \in T : \E x \in D : f[x] = t
  OBVIOUS
<1> HIDE DEF T
<1>2. f \in Surjection(D, T)
  BY <1>1 DEF Surjection
<1> QED BY <1>2, FS_Surjection DEF T

LEMMA PileFinite ==
  ASSUME NEW P, IsFiniteSet(P), NEW h, \A p \in P : h[p] \in Nat
  PROVE  IsFiniteSet(Pile(P, h)) /\ Cardinality(Pile(P, h)) \in Nat
<1> DEFINE f == [p \in P |-> {p} \X (1 .. h[p])]
           T == {f[p] : p \in P}
<1>1. IsFiniteSet(T)
  <2>1. f = [p \in P |-> f[p]]
    OBVIOUS
  <2> HIDE DEF f
  <2> QED BY <2>1, MappedFinite
<1>2. ASSUME NEW t \in T PROVE IsFiniteSet(t)
  <2>1. PICK p \in P : t = {p} \X (1 .. h[p])
    OBVIOUS
  <2>2. IsFiniteSet({p}) /\ IsFiniteSet(1 .. h[p])
    <3>1. 1 \in Int /\ h[p] \in Int
      OBVIOUS
    <3> QED BY <3>1, FS_Singleton, FS_Interval
  <2> QED BY <2>1, <2>2, FS_Product
<1>3. Pile(P, h) = UNION T
  BY DEF Pile
<1>4. IsFiniteSet(Pile(P, h))
  <2> HIDE DEF T
  <2> QED BY <1>1, <1>2, <1>3, FS_UNION
<1> QED BY <1>4, FS_CardinalityType

\* A larger pile.
LEMMA PileGrows ==
  ASSUME NEW P, NEW Q, P \subseteq Q, IsFiniteSet(Q), NEW h, NEW k, \A p \in Q : k[p] \in Nat,
         \A p \in P : h[p] \in Nat /\ h[p] <= k[p]
  PROVE  Cardinality(Pile(P, h)) <= Cardinality(Pile(Q, k)) /\ Cardinality(Pile(P, h)) \in Nat
<1>1. Pile(P, h) \subseteq Pile(Q, k)
  <2> SUFFICES ASSUME NEW x \in Pile(P, h) PROVE x \in Pile(Q, k)
    OBVIOUS
  <2>1. PICK p \in P : \E i \in 1 .. h[p] : x = <<p, i>>
    BY PileOfPairs
  <2>2. PICK i \in 1 .. h[p] : x = <<p, i>>
    BY <2>1
  <2>3. i \in 1 .. k[p]
    BY <2>2
  <2> QED BY <2>2, <2>3, PileIs
<1>2. IsFiniteSet(P)
  BY FS_Subset
<1> QED BY <1>1, <1>2, PileFinite, FS_Subset

\* One more.
LEMMA PileOneMore ==
  ASSUME NEW P, IsFiniteSet(P), NEW h, NEW k, NEW q \in P,
         \A p \in P : h[p] \in Nat /\ k[p] \in Nat /\ h[p] <= k[p], h[q] + 1 <= k[q]
  PROVE  Cardinality(Pile(P, h)) + 1 <= Cardinality(Pile(P, k))
<1> DEFINE x == <<q, h[q] + 1>>
           H == Pile(P, h)
           K == Pile(P, k)
<1>1. IsFiniteSet(H) /\ IsFiniteSet(K)
  BY PileFinite
<1>2. h[q] + 1 \in 1 .. k[q] /\ h[q] + 1 \notin 1 .. h[q]
  OBVIOUS
<1>3. x \notin H /\ x \in K
  BY <1>2, PileIs
<1>4. H \subseteq K
  <2> SUFFICES ASSUME NEW y \in H PROVE y \in K
    OBVIOUS
  <2>1. PICK p \in P : \E i \in 1 .. h[p] : y = <<p, i>>
    BY PileOfPairs
  <2>2. PICK i \in 1 .. h[p] : y = <<p, i>>
    BY <2>1
  <2>3. i \in 1 .. k[p]
    BY <2>2
  <2> QED BY <2>2, <2>3, PileIs
<1> HIDE DEF H, K, x
<1>5. H \cup {x} \subseteq K
  BY <1>3, <1>4
<1>6. Cardinality(H \cup {x}) = Cardinality(H) + 1
  BY <1>1, <1>3, FS_AddElement
<1>7. Cardinality(H \cup {x}) <= Cardinality(K)
  BY <1>1, <1>5, FS_Subset
<1> QED BY <1>6, <1>7 DEF H, K

\* Two piles of different things.
LEMMA PilesApart ==
  ASSUME NEW P, NEW Q, IsFiniteSet(P), IsFiniteSet(Q), P \cap Q = {}, NEW h, \A p \in P \cup Q : h[p] \in Nat
  PROVE  Cardinality(Pile(P \cup Q, h)) = Cardinality(Pile(P, h)) + Cardinality(Pile(Q, h))
<1> DEFINE A == Pile(P, h)
           B == Pile(Q, h)
<1>1. IsFiniteSet(A) /\ IsFiniteSet(B) /\ Cardinality(A) \in Nat /\ Cardinality(B) \in Nat
  BY PileFinite
<1>2. A \cap B = {}
  <2> SUFFICES ASSUME NEW x \in A, x \in B PROVE FALSE
    OBVIOUS
  <2>1. PICK p \in P : \E i \in 1 .. h[p] : x = <<p, i>>
    BY PileOfPairs
  <2>2. PICK i \in 1 .. h[p] : x = <<p, i>>
    BY <2>1
  <2>3. p \in Q
    BY <2>2, PileIs
  <2> QED BY <2>3
<1>3. Pile(P \cup Q, h) = A \cup B
  BY DEF Pile
<1> HIDE DEF A, B
<1>4. Cardinality(A \cap B) = 0
  BY <1>2, FS_EmptySet
<1>5. Cardinality(A \cup B) = Cardinality(A) + Cardinality(B) - Cardinality(A \cap B)
  BY <1>1, FS_Union
<1>6. Cardinality(A \cup B) = Cardinality(A) + Cardinality(B)
  BY <1>1, <1>4, <1>5
<1> QED BY <1>3, <1>6 DEF A, B

-----------------------------------------------------------------------------
(* The invariant.                                                          *)
Doers(g) == {n \in DOMAIN g.nodes : g.nodes[n].kind \in {"agent", "tool"}}

\* The nodes that run once, and those that lead to a node and run themselves.
Spared(g, S) ==
  \A n \in DOMAIN g.nodes \ S :
    \/ g.nodes[n].kind = "terminal"
    \/ \A l, m \in DOMAIN g.nodes : Feeds(g, l, n) /\ Feeds(g, m, n) => l = m
OnceNodes(g) == CHOOSE S \in SUBSET (DOMAIN g.nodes) : Once(g, S) /\ Spared(g, S)
Feeders(g, n) == {m \in DOMAIN g.nodes : Feeds(g, m, n) /\ g.nodes[m].kind # "router"}

\* The repeats that were spent on going back to n.
Back(g, n) == {p \in EdgePairs(g) : p[2] = n}
Count(g, repeats, n) == Cardinality(Pile(Back(g, n), repeats))

\* m is at work; m is at work or has finished since n last did anything.
Busy(st, m) == IF st.nodes[m].status = "active" THEN 1 ELSE 0
Ahead(st, m, n) == IF st.nodes[m].status = "active" \/ st.nodes[m].seq > st.nodes[n].seq THEN 1 ELSE 0

Visited(g, st, n) ==
  LET s == st.nodes[n] IN
  IF s.status = "pending" THEN s.attempts = 0 /\ s.seq = 0
  ELSE s.attempts >= 1 /\ s.seq >= 1 /\ g.nodes[n].kind \notin {"router", "terminal"}

\* A node has run as often as the one before it, but for the repeats that were spent
\* on it, and less often if that one is ahead.
NodePaid(g, st, n) ==
  LET a == st.nodes[n].attempts IN
  IF n \in OnceNodes(g)
  THEN a <= 1 /\ (a = 1 => \A m \in Feeders(g, n) : Finished(st, m) /\ st.nodes[m].seq < st.nodes[n].seq)
  ELSE /\ Feeders(g, n) = {} => a <= 1 + Count(g, st.repeats, n)
       /\ \A m \in Feeders(g, n) : a + Ahead(st, m, n) <= st.nodes[m].attempts + Count(g, st.repeats, n)

\* n may begin once more.
Owed(g, st, repeats, n) ==
  LET a == st.nodes[n].attempts IN
  /\ n \in Doers(g)
  /\ IF n \in OnceNodes(g)
     THEN a = 0 /\ \A m \in Feeders(g, n) : Finished(st, m)
     ELSE /\ Feeders(g, n) = {} => a < 1 + Count(g, repeats, n)
          /\ \A m \in Feeders(g, n) : a + Busy(st, m) < st.nodes[m].attempts + Count(g, repeats, n)

\* k is the number of the last row.
LogPaid(g, st, k) ==
  /\ \A n \in DOMAIN g.nodes : Visited(g, st, n) /\ st.nodes[n].seq <= k
  /\ \A n \in Doers(g) : NodePaid(g, st, n)

ProcPaid(g, l, r) ==
  /\ r.seq # 0 => r.seq = l.seq + 1 /\ r.rows[1].key \notin l.keys
  /\ \A i \in DOMAIN r.rows : Begins(r.rows[i]) => Owed(g, l.st, l.st.repeats, r.rows[i].node)
  /\ Apart(r.rows)
  /\ r.pc = "routed" /\ r.route.status = "actionable" =>
       /\ r.rows # <<>> => \E k \in Nat : r.rows = <<RouteRow(k, r.route.repeats)>>
       /\ \A i \in DOMAIN r.route.nodes :
            Owed(g, l.st, IF r.rows = <<>> THEN l.st.repeats ELSE r.route.repeats, r.route.nodes[i])

Lone == \A p, q \in Processes : proc[p].pc # "off" /\ proc[q].pc # "off" => p = q

Paid ==
  /\ LogPaid(graph, log.st, log.seq)
  /\ \A p \in Processes : ProcPaid(graph, log, proc[p])
  /\ Lone

-----------------------------------------------------------------------------
(* Graphs that branch.                                                     *)
LEMMA EdgesFinite ==
  ASSUME NEW g, IsGraph(g)
  PROVE  IsFiniteSet(EdgePairs(g)) /\ \A n : Back(g, n) \subseteq EdgePairs(g) /\ IsFiniteSet(Back(g, n))
<1> DEFINE f == [i \in DOMAIN g.edges |-> <<g.edges[i].src, g.edges[i].dst>>]
<1>1. g.edges \in Seq([src : DOMAIN g.nodes, dst : DOMAIN g.nodes, outs : SUBSET Outcomes,
                       kind : {"normal", "repeat"}])
  BY DEF IsGraph
<1>2. DOMAIN g.edges = 1 .. Len(g.edges) /\ Len(g.edges) \in Nat
  BY <1>1
<1>3. IsFiniteSet(DOMAIN g.edges)
  <2>1. 1 \in Int /\ Len(g.edges) \in Int
    BY <1>2
  <2> QED BY <1>2, <2>1, FS_Interval
<1>4. EdgePairs(g) = {f[i] : i \in DOMAIN g.edges} /\ f = [i \in DOMAIN g.edges |-> f[i]]
  BY DEF EdgePairs
<1> HIDE DEF f
<1>5. IsFiniteSet(EdgePairs(g))
  BY <1>3, <1>4, MappedFinite
<1>6. \A n : Back(g, n) \subseteq EdgePairs(g)
  BY DEF Back
<1> QED BY <1>5, <1>6, FS_Subset

LEMMA CountType ==
  ASSUME NEW g, IsGraph(g), NEW b \in Budgets(g), NEW n
  PROVE  Count(g, b, n) \in Nat
BY EdgesFinite, PileFinite DEF Count, Budgets

\* Repeats are only ever added.
LEMMA CountGrows ==
  ASSUME NEW g, IsGraph(g), NEW b \in Budgets(g), NEW c \in Budgets(g),
         \A p \in EdgePairs(g) : b[p] <= c[p], NEW n
  PROVE  Count(g, b, n) <= Count(g, c, n)
<1>1. \A p \in Back(g, n) : b[p] \in Nat /\ c[p] \in Nat /\ b[p] <= c[p]
  BY DEF Back, Budgets
<1>2. IsFiniteSet(Back(g, n))
  BY EdgesFinite
<1> QED BY <1>1, <1>2, PileGrows DEF Count

LEMMA CountCharged ==
  ASSUME NEW g, IsGraph(g), NEW b \in Budgets(g), NEW c \in Budgets(g),
         \A p \in EdgePairs(g) : b[p] <= c[p], NEW q \in EdgePairs(g), b[q] + 1 <= c[q]
  PROVE  Count(g, b, q[2]) + 1 <= Count(g, c, q[2])
<1>1. \A p \in Back(g, q[2]) : b[p] \in Nat /\ c[p] \in Nat /\ b[p] <= c[p]
  BY DEF Back, Budgets
<1>2. IsFiniteSet(Back(g, q[2])) /\ q \in Back(g, q[2])
  BY EdgesFinite DEF Back
<1> QED BY <1>1, <1>2, PileOneMore DEF Count

\* What Branching says, of the nodes that run once and of the others.
LEMMA OnceIs ==
  ASSUME NEW g, IsGraph(g), Branching(g)
  PROVE  /\ OnceNodes(g) \subseteq DOMAIN g.nodes /\ Once(g, OnceNodes(g)) /\ Spared(g, OnceNodes(g))
<1>1. \E S \in SUBSET (DOMAIN g.nodes) : Once(g, S) /\ Spared(g, S)
  BY DEF Branching, Spared
<1> QED BY <1>1 DEF OnceNodes

LEMMA FeederIs ==
  ASSUME NEW g, IsGraph(g), Branching(g), NEW i \in DOMAIN g.edges, g.edges[i].kind = "normal"
  PROVE  LET m == g.edges[i].src  n == g.edges[i].dst IN
         /\ Feeds(g, m, n) /\ m # n
         /\ n \in OnceNodes(g) => m \in OnceNodes(g)
         /\ n \notin OnceNodes(g) /\ g.nodes[n].kind # "terminal" => Feeders(g, n) \subseteq {m}
         /\ g.nodes[m].kind # "router" => m \in Feeders(g, n)
<1> DEFINE m == g.edges[i].src
           n == g.edges[i].dst
<1>1. m \in DOMAIN g.nodes /\ n \in DOMAIN g.nodes /\ Feeds(g, m, n)
  BY EdgeTyped DEF Feeds
<1>2. m # n
  <2>1. PICK S \in SUBSET (DOMAIN g.nodes) : n \notin S /\ \A l \in DOMAIN g.nodes : Feeds(g, l, n) => l \in S
    BY <1>1 DEF Branching
  <2> QED BY <1>1, <2>1
<1>3. n \in OnceNodes(g) => m \in OnceNodes(g)
  BY OnceIs DEF Once, Upward
<1>4. n \notin OnceNodes(g) /\ g.nodes[n].kind # "terminal" => Feeders(g, n) \subseteq {m}
  <2>1. Spared(g, OnceNodes(g))
    BY OnceIs
  <2> HIDE DEF m, n
  <2> QED BY <1>1, <2>1 DEF Spared, Feeders
<1> QED BY <1>1, <1>2, <1>3, <1>4 DEF Feeders

-----------------------------------------------------------------------------
(* What a row does.                                                        *)
LEMMA OwedMore ==
  ASSUME NEW g, IsGraph(g), NEW st \in States(g), NEW b \in Budgets(g), NEW c \in Budgets(g),
         \A p \in EdgePairs(g) : b[p] <= c[p], NEW n, Owed(g, st, b, n)
  PROVE  Owed(g, st, c, n)
<1>1. n \in DOMAIN g.nodes /\ n \in Doers(g)
  BY DEF Owed, Doers
<1>2. st.nodes[n].attempts \in Nat /\ \A m \in Feeders(g, n) : st.nodes[m].attempts \in Nat /\ Busy(st, m) \in Nat
  BY <1>1 DEF States, NodeStates, Feeders, Busy
<1>3. Count(g, b, n) \in Nat /\ Count(g, c, n) \in Nat /\ Count(g, b, n) <= Count(g, c, n)
  BY CountType, CountGrows
<1>4. CASE n \in OnceNodes(g)
  BY <1>4 DEF Owed
<1>5. CASE n \notin OnceNodes(g)
  <2> DEFINE a == st.nodes[n].attempts
  <2>1. /\ Feeders(g, n) = {} => a < 1 + Count(g, b, n)
        /\ \A m \in Feeders(g, n) : a + Busy(st, m) < st.nodes[m].attempts + Count(g, b, n)
    BY <1>5 DEF Owed
  <2>2. Feeders(g, n) = {} => a < 1 + Count(g, c, n)
    BY <1>2, <1>3, <2>1
  <2>3. ASSUME NEW m \in Feeders(g, n) PROVE a + Busy(st, m) < st.nodes[m].attempts + Count(g, c, n)
    BY <1>2, <1>3, <2>1
  <2> QED BY <1>1, <1>5, <2>2, <2>3 DEF Owed
<1> QED BY <1>4, <1>5

LEMMA NodeRowSpendsNothing ==
  ASSUME NEW st \in States(graph), NEW seq, NEW r, Started(graph, r) \/ Ended(graph, r) \/ Gated1(graph, r)
  PROVE  Project(st, r, seq).repeats = st.repeats
<1>1. Project(st, r, seq) = ProjectNode(st, r, seq)
  BY DEF Project, Started, Ended, Gated1
<1>2. DOMAIN st = {"nodes", "steps", "tries", "repeats", "bound"}
  BY DEF States
<1> QED BY <1>1, <1>2 DEF ProjectNode

LEMMA OtherRowSpends ==
  ASSUME NEW st \in States(graph), NEW seq, NEW r, Other1(graph, r)
  PROVE  LET to == Project(st, r, seq) IN
         /\ \A p \in EdgePairs(graph) : st.repeats[p] <= to.repeats[p]
         /\ r.event = "route_evaluated" => \A p \in EdgePairs(graph) : r.repeats[p] <= to.repeats[p]
<1>0. st.repeats \in Budgets(graph)
  BY DEF States
<1>1. CASE r.event = "run_finished"
  <2>1. Project(st, r, seq) = st
    BY <1>1 DEF Project
  <2> QED BY <1>0, <1>1, <2>1 DEF Budgets
<1>2. CASE r.event = "route_evaluated"
  <2> DEFINE b == [p \in DOMAIN st.repeats |-> Max2(st.repeats[p], r.repeats[p])]
  <2>1. r.repeats \in Budgets(graph)
    BY <1>2 DEF Other1
  <2>2. Project(st, r, seq).repeats = b
    BY <1>2 DEF Project, States
  <2>3. ASSUME NEW p \in EdgePairs(graph) PROVE st.repeats[p] <= b[p] /\ r.repeats[p] <= b[p]
    <3>1. st.repeats[p] \in Nat /\ r.repeats[p] \in Nat /\ b[p] = Max2(st.repeats[p], r.repeats[p])
      BY <1>0, <2>1 DEF Budgets
    <3> QED BY <3>1, Max2Type
  <2> QED BY <2>2, <2>3
<1> QED BY <1>1, <1>2 DEF Other1

\* A row that is new begins an attempt that is owed, ends the one that is open, or
\* decides a gate.
Turns(g, st, r) ==
  LET s == st.nodes[r.node] IN
  \/ Started(g, r) /\ r.attempt = s.attempts + 1 /\ Owed(g, st, st.repeats, r.node)
  \/ Ended(g, r) /\ r.attempt = s.attempts /\ s.status = "active"
  \/ Gated1(g, r) /\ r.attempt = s.attempts + 1

LEMMA TurnIs ==
  ASSUME NEW st \in States(graph), NEW to, NEW r, NEW k \in Nat, Folded(st, to, r, k + 1), Turns(graph, st, r),
         LogPaid(graph, st, k)
  PROVE  LET n == r.node  s == st.nodes[n]  t == to.nodes[n] IN
         /\ n \in DOMAIN graph.nodes /\ t.seq = k + 1
         /\ \/ /\ Started(graph, r) /\ t.status = "active" /\ t.attempts = s.attempts + 1
               /\ Owed(graph, st, st.repeats, n)
            \/ Ended(graph, r) /\ t.status = "finished" /\ t.attempts = s.attempts /\ s.status = "active"
            \/ Gated1(graph, r) /\ t.status = "finished" /\ t.attempts = s.attempts + 1 /\ n \notin Doers(graph)
<1> DEFINE n == r.node
           s == st.nodes[n]
           t == to.nodes[n]
<1>1. n \in DOMAIN graph.nodes
  BY DEF Turns, Started, Ended, Gated1, Workers, Gates
<1>2. s.attempts \in Nat /\ s.seq \in Nat /\ s.seq <= k
  BY <1>1 DEF States, NodeStates, LogPaid
<1>3. t.attempts = Max2(s.attempts, r.attempt) /\ t.seq = Max2(s.seq, k + 1)
  BY DEF Folded, NodeFolded
<1>4. t.seq = k + 1
  BY <1>2, <1>3 DEF Max2
<1>5. CASE Started(graph, r) /\ r.attempt = s.attempts + 1 /\ Owed(graph, st, st.repeats, n)
  <2>1. t.attempts = s.attempts + 1
    BY <1>2, <1>3, <1>5 DEF Max2
  <2>2. t.status = "active"
    BY <1>5 DEF Started, Folded, NodeFolded
  <2> QED BY <1>1, <1>4, <1>5, <2>1, <2>2
<1>6. CASE Ended(graph, r) /\ r.attempt = s.attempts /\ s.status = "active"
  <2>1. t.attempts = s.attempts
    BY <1>2, <1>3, <1>6 DEF Max2
  <2>2. t.status = "finished"
    BY <1>6 DEF Ended, Folded, NodeFolded
  <2> QED BY <1>1, <1>4, <1>6, <2>1, <2>2
<1>7. CASE Gated1(graph, r) /\ r.attempt = s.attempts + 1
  <2>1. t.attempts = s.attempts + 1
    BY <1>2, <1>3, <1>7 DEF Max2
  <2>2. t.status = "finished" /\ n \notin Doers(graph)
    BY <1>7 DEF Gated1, Folded, NodeFolded, Gates, IsGate, Doers
  <2> QED BY <1>1, <1>4, <1>7, <2>1, <2>2
<1> QED BY <1>5, <1>6, <1>7 DEF Turns

\* Who leads to a node that runs once runs once, too, and is no gate.
LEMMA FeederOf ==
  ASSUME NEW g, IsGraph(g), Branching(g), NEW n, NEW m \in Feeders(g, n)
  PROVE  /\ m \in DOMAIN g.nodes /\ m # n
         /\ n \in OnceNodes(g) => m \in OnceNodes(g) /\ g.nodes[m].kind # "gate"
<1>1. PICK i \in DOMAIN g.edges : g.edges[i].kind = "normal" /\ g.edges[i].src = m /\ g.edges[i].dst = n
  BY DEF Feeders, Feeds
<1>2. m # n /\ (n \in OnceNodes(g) => m \in OnceNodes(g))
  BY <1>1, FeederIs
<1> QED BY <1>2, OnceIs DEF Feeders, Once

LEMMA FoldPaid ==
  ASSUME IsGraph(graph), Branching(graph), NEW st \in States(graph), NEW to, NEW r, NEW k \in Nat,
         Folded(st, to, r, k + 1), to.repeats = st.repeats, Turns(graph, st, r), LogPaid(graph, st, k)
  PROVE  LogPaid(graph, to, k + 1)
<1> DEFINE n == r.node
           s == st.nodes[n]
           t == to.nodes[n]
           g == graph
<1>1. /\ n \in DOMAIN g.nodes /\ t.seq = k + 1
      /\ \/ Started(g, r) /\ t.status = "active" /\ t.attempts = s.attempts + 1 /\ Owed(g, st, st.repeats, n)
         \/ Ended(g, r) /\ t.status = "finished" /\ t.attempts = s.attempts /\ s.status = "active"
         \/ Gated1(g, r) /\ t.status = "finished" /\ t.attempts = s.attempts + 1 /\ n \notin Doers(g)
  BY TurnIs
<1>2. \A m \in DOMAIN g.nodes : m # n => to.nodes[m] = st.nodes[m]
  BY DEF Folded
<1>3. \A m \in DOMAIN g.nodes : /\ Visited(g, st, m) /\ st.nodes[m].seq <= k
                                /\ st.nodes[m].attempts \in Nat /\ st.nodes[m].seq \in Nat
                                /\ st.nodes[m].status \in {"pending", "active", "finished"}
  BY DEF LogPaid, States, NodeStates
<1>4. n \in Gates(g) => g.nodes[n].kind = "gate"
  BY DEF Gates, IsGate
<1>5. \A m \in Doers(g) : m \in DOMAIN g.nodes /\ g.nodes[m].kind \in {"agent", "tool"} /\ NodePaid(g, st, m)
  BY DEF LogPaid, Doers
<1>6. \A m : Count(g, st.repeats, m) \in Nat
  BY CountType DEF States
<1> HIDE DEF n, s, t, g
<1>7. ASSUME NEW m \in DOMAIN g.nodes PROVE Visited(g, to, m) /\ to.nodes[m].seq <= k + 1
  <2>1. CASE m # n
    BY <1>2, <1>3, <2>1 DEF Visited
  <2>2. CASE m = n
    <3>1. to.nodes[n] = t /\ st.nodes[n] = s
      BY DEF n, s, t
    <3>2. Visited(g, st, n) /\ s.attempts \in Nat
      BY <1>1, <1>3, <3>1
    <3>3. CASE Started(g, r) /\ t.status = "active" /\ t.attempts = s.attempts + 1 /\ Owed(g, st, st.repeats, n)
      <4>1. g.nodes[n].kind \in {"agent", "tool"}
        BY <3>3 DEF Owed, Doers
      <4> QED BY <1>1, <2>2, <3>1, <3>2, <3>3, <4>1 DEF Visited
    <3>4. CASE Ended(g, r) /\ t.status = "finished" /\ t.attempts = s.attempts /\ s.status = "active"
      BY <1>1, <2>2, <3>1, <3>2, <3>4 DEF Visited
    <3>5. CASE Gated1(g, r) /\ t.status = "finished" /\ t.attempts = s.attempts + 1
      <4>1. g.nodes[n].kind = "gate"
        BY <1>4, <3>5 DEF Gated1, n
      <4> QED BY <1>1, <2>2, <3>1, <3>2, <3>5, <4>1 DEF Visited
    <3> QED BY <1>1, <3>3, <3>4, <3>5
  <2> QED BY <2>1, <2>2
<1>8. ASSUME NEW m \in Doers(g) PROVE NodePaid(g, to, m)
  <2> DEFINE a == st.nodes[m].attempts
             b == to.nodes[m].attempts
             c == Count(g, st.repeats, m)
  <2>0. \A x \in Feeders(g, m) : x \in DOMAIN g.nodes /\ x # m
        /\ (m \in OnceNodes(g) => x \in OnceNodes(g) /\ g.nodes[x].kind # "gate")
    BY FeederOf DEF g
  <2>1. m \in DOMAIN g.nodes /\ a \in Nat /\ c \in Nat /\ NodePaid(g, st, m)
    BY <1>3, <1>5, <1>6
  <2>2. Count(g, to.repeats, m) = c
    OBVIOUS
  <2>3. /\ m # n => b = a /\ to.nodes[m] = st.nodes[m]
        /\ m = n => /\ to.nodes[m].seq = k + 1
                    /\ \/ b = a + 1 /\ Owed(g, st, st.repeats, m)
                       \/ b = a /\ st.nodes[m].status = "active"
    BY <1>1, <1>2, <2>1 DEF s, t
  <2>4. /\ n # m => to.nodes[m].seq = st.nodes[m].seq
        /\ st.nodes[m].seq <= to.nodes[m].seq /\ st.nodes[m].seq \in Nat /\ to.nodes[m].seq \in Nat
    BY <1>1, <1>2, <1>3, <2>1, <2>3
  <2>5. CASE m \in OnceNodes(g)
    <3>1. /\ a <= 1
          /\ a = 1 => \A x \in Feeders(g, m) : Finished(st, x) /\ st.nodes[x].seq < st.nodes[m].seq
      BY <2>1, <2>5 DEF NodePaid
    <3>2. b = a + 1 /\ m = n => a = 0 /\ \A x \in Feeders(g, m) : Finished(st, x)
      BY <2>1, <2>3, <2>5 DEF Owed
    <3>3. b <= 1
      BY <2>1, <2>3, <3>1, <3>2
    <3>4. ASSUME b = 1, NEW x \in Feeders(g, m)
          PROVE  Finished(to, x) /\ to.nodes[x].seq < to.nodes[m].seq
      <4>1. x \in DOMAIN g.nodes /\ x # m /\ x \in OnceNodes(g) /\ g.nodes[x].kind # "gate"
        BY <2>0, <2>5, <3>4
      <4>2. st.nodes[x].seq <= k /\ st.nodes[x].seq \in Nat /\ Visited(g, st, x)
        BY <1>3, <4>1
      <4>3. CASE m = n
        <5>1. to.nodes[x] = st.nodes[x]
          BY <1>2, <4>1, <4>3
        <5>2. Finished(st, x)
          BY <2>1, <2>3, <3>1, <3>2, <3>4, <4>3
        <5> QED BY <2>3, <4>2, <4>3, <5>1, <5>2 DEF Finished
      <4>4. CASE m # n
        <5>1. Finished(st, x) /\ st.nodes[x].seq < st.nodes[m].seq
          BY <2>3, <3>1, <3>4, <4>4
        <5>2. st.nodes[x].attempts >= 1 /\ st.nodes[x].status = "finished"
          BY <4>2, <5>1 DEF Visited, Finished
        <5>3. x # n
          <6> SUFFICES ASSUME x = n PROVE FALSE
            OBVIOUS
          <6>1. s.status = "finished" /\ s.attempts >= 1 /\ n \in OnceNodes(g) /\ g.nodes[n].kind # "gate"
            BY <4>1, <5>2 DEF s
          <6>2. ~Gated1(g, r)
            BY <1>4, <6>1 DEF Gated1, n
          <6>3. Owed(g, st, st.repeats, n)
            BY <1>1, <6>1, <6>2
          <6>4. s.attempts = 0
            BY <6>1, <6>3 DEF Owed, s
          <6> QED BY <6>1, <6>4
        <5>4. to.nodes[x] = st.nodes[x] /\ to.nodes[m] = st.nodes[m]
          BY <1>2, <2>1, <4>1, <4>4, <5>3
        <5> QED BY <5>1, <5>4 DEF Finished
      <4> QED BY <4>3, <4>4
    <3> QED BY <2>5, <3>3, <3>4 DEF NodePaid
  <2>6. CASE m \notin OnceNodes(g)
    <3>1. /\ Feeders(g, m) = {} => a <= 1 + c
          /\ \A x \in Feeders(g, m) : a + Ahead(st, x, m) <= st.nodes[x].attempts + c
      BY <2>1, <2>6 DEF NodePaid
    <3>2. b = a + 1 /\ m = n => /\ Feeders(g, m) = {} => a < 1 + c
                                /\ \A x \in Feeders(g, m) : a + Busy(st, x) < st.nodes[x].attempts + c
      BY <2>1, <2>3, <2>6 DEF Owed
    <3>3. Feeders(g, m) = {} => b <= 1 + c
      BY <2>1, <2>3, <3>1, <3>2
    <3>4. ASSUME NEW x \in Feeders(g, m) PROVE b + Ahead(to, x, m) <= to.nodes[x].attempts + c
      <4>1. x \in DOMAIN g.nodes /\ x # m
        BY <2>0, <3>4
      <4>2. st.nodes[x].seq <= k /\ st.nodes[x].seq \in Nat /\ st.nodes[x].attempts \in Nat
        BY <1>3, <4>1
      <4>3. /\ Ahead(st, x, m) \in {0, 1} /\ Ahead(to, x, m) \in {0, 1} /\ Busy(st, x) \in {0, 1}
            /\ a + Ahead(st, x, m) <= st.nodes[x].attempts + c
        BY <3>1, <3>4 DEF Ahead, Busy
      <4>4. CASE m = n
        <5>1. to.nodes[x] = st.nodes[x]
          BY <1>2, <4>1, <4>4
        <5>2. Ahead(to, x, m) = Busy(st, x)
          BY <2>3, <4>2, <4>4, <5>1 DEF Ahead, Busy
        <5>3. Busy(st, x) <= Ahead(st, x, m)
          BY DEF Ahead, Busy
        <5>4. CASE b = a + 1 /\ Owed(g, st, st.repeats, m)
          <6>1. a + Busy(st, x) < st.nodes[x].attempts + c
            BY <3>2, <3>4, <4>4, <5>4
          <6> QED BY <2>1, <4>2, <4>3, <5>1, <5>2, <5>4, <6>1
        <5>5. CASE b = a
          BY <2>1, <4>2, <4>3, <5>1, <5>2, <5>3, <5>5
        <5> QED BY <2>3, <4>4, <5>4, <5>5
      <4>5. CASE m # n /\ x = n
        <5>1. b = a
          BY <2>3, <4>5
        <5>2. CASE t.attempts = s.attempts + 1
          <6>1. to.nodes[x].attempts = st.nodes[x].attempts + 1
            BY <4>5, <5>2 DEF s, t
          <6> QED BY <2>1, <4>2, <4>3, <5>1, <6>1
        <5>3. CASE t.attempts = s.attempts /\ s.status = "active"
          <6>1. to.nodes[x].attempts = st.nodes[x].attempts /\ st.nodes[x].status = "active"
            BY <4>5, <5>3 DEF s, t
          <6>2. Ahead(st, x, m) = 1
            BY <6>1 DEF Ahead
          <6> QED BY <2>1, <4>2, <4>3, <5>1, <6>1, <6>2
        <5> QED BY <1>1, <5>2, <5>3
      <4>6. CASE m # n /\ x # n
        <5>1. to.nodes[x] = st.nodes[x] /\ to.nodes[m] = st.nodes[m]
          BY <1>2, <2>1, <4>1, <4>6
        <5>2. Ahead(to, x, m) = Ahead(st, x, m)
          BY <5>1 DEF Ahead
        <5> QED BY <4>3, <5>1, <5>2
      <4> QED BY <4>4, <4>5, <4>6
    <3> HIDE DEF b, c
    <3>5. /\ Feeders(g, m) = {} => to.nodes[m].attempts <= 1 + Count(g, to.repeats, m)
          /\ \A x \in Feeders(g, m) :
               to.nodes[m].attempts + Ahead(to, x, m) <= to.nodes[x].attempts + Count(g, to.repeats, m)
      BY <2>2, <3>3, <3>4 DEF b
    <3> QED BY <2>6, <3>5 DEF NodePaid
  <2> QED BY <2>5, <2>6
<1> QED BY <1>7, <1>8 DEF LogPaid, g

\* What is owed stays owed, but for the node that begins.
LEMMA FoldOwed ==
  ASSUME IsGraph(graph), Branching(graph), NEW st \in States(graph), NEW to, NEW r, NEW k \in Nat,
         Folded(st, to, r, k + 1), Turns(graph, st, r), LogPaid(graph, st, k),
         NEW m, NEW repeats \in Budgets(graph), Owed(graph, st, repeats, m), Started(graph, r) => m # r.node
  PROVE  Owed(graph, to, repeats, m)
<1> DEFINE n == r.node
           s == st.nodes[n]
           t == to.nodes[n]
           g == graph
           a == st.nodes[m].attempts
           c == Count(g, repeats, m)
<1>1. /\ n \in DOMAIN g.nodes
      /\ \/ Started(g, r) /\ t.status = "active" /\ t.attempts = s.attempts + 1 /\ Owed(g, st, st.repeats, n)
         \/ Ended(g, r) /\ t.status = "finished" /\ t.attempts = s.attempts /\ s.status = "active"
         \/ Gated1(g, r) /\ t.status = "finished" /\ t.attempts = s.attempts + 1 /\ n \notin Doers(g)
  BY TurnIs
<1>2. \A x \in DOMAIN g.nodes : x # n => to.nodes[x] = st.nodes[x]
  BY DEF Folded
<1>3. \A x \in DOMAIN g.nodes : Visited(g, st, x) /\ st.nodes[x].attempts \in Nat
  BY DEF LogPaid, States, NodeStates
<1>4. m \in Doers(g) /\ m \in DOMAIN g.nodes /\ Count(g, repeats, m) \in Nat
  BY CountType DEF Owed, Doers
<1>5. \A x \in Feeders(g, m) : x \in DOMAIN g.nodes /\ x # m
        /\ (m \in OnceNodes(g) => x \in OnceNodes(g) /\ g.nodes[x].kind # "gate")
  BY FeederOf
<1>6. to.nodes[m].attempts = a
  BY <1>1, <1>2, <1>4
<1> HIDE DEF n, s, t, g, c
<1>7. CASE m \in OnceNodes(g)
  <2>1. a = 0 /\ \A x \in Feeders(g, m) : Finished(st, x)
    BY <1>7 DEF Owed, g
  <2>2. ASSUME NEW x \in Feeders(g, m) PROVE Finished(to, x)
    <3>1. Finished(st, x) /\ x \in DOMAIN g.nodes /\ x \in OnceNodes(g)
      BY <1>5, <1>7, <2>1, <2>2
    <3>2. CASE x # n
      BY <1>2, <3>1, <3>2 DEF Finished
    <3>3. CASE x = n
      <4>1. s.status = "finished" /\ s.attempts >= 1
        BY <1>3, <3>1, <3>3 DEF Finished, Visited, s
      <4>2. ~Owed(g, st, st.repeats, n)
        BY <3>1, <3>3, <4>1 DEF Owed, s
      <4>3. t.status = "finished"
        BY <1>1, <4>2
      <4> QED BY <3>3, <4>3 DEF Finished, t
    <3> QED BY <3>2, <3>3
  <2> QED BY <1>4, <1>6, <1>7, <2>1, <2>2 DEF Owed, g
<1>8. CASE m \notin OnceNodes(g)
  <2>1. /\ Feeders(g, m) = {} => a < 1 + c
        /\ \A x \in Feeders(g, m) : a + Busy(st, x) < st.nodes[x].attempts + c
    BY <1>8 DEF Owed, g, c
  <2>2. ASSUME NEW x \in Feeders(g, m) PROVE a + Busy(to, x) < to.nodes[x].attempts + c
    <3>1. x \in DOMAIN g.nodes /\ st.nodes[x].attempts \in Nat /\ a \in Nat /\ c \in Nat
      BY <1>3, <1>4, <1>5, <2>2 DEF c
    <3>2. Busy(st, x) \in {0, 1} /\ Busy(to, x) \in {0, 1}
      BY DEF Busy
    <3>3. CASE x # n
      <4>1. to.nodes[x] = st.nodes[x]
        BY <1>2, <3>1, <3>3
      <4> QED BY <2>1, <2>2, <4>1 DEF Busy
    <3>4. CASE x = n
      <4>1. \/ to.nodes[x].attempts = st.nodes[x].attempts + 1
            \/ to.nodes[x].attempts = st.nodes[x].attempts /\ Busy(to, x) = 0
        BY <1>1, <3>4 DEF Busy, s, t
      <4>2. a + Busy(st, x) < st.nodes[x].attempts + c
        BY <2>1, <2>2
      <4> HIDE DEF a
      <4> QED BY <3>1, <3>2, <4>1, <4>2
    <3> QED BY <3>3, <3>4
  <2> HIDE DEF a
  <2> QED BY <1>4, <1>6, <1>8, <2>1, <2>2 DEF Owed, g, c
<1> QED BY <1>7, <1>8

-----------------------------------------------------------------------------
(* Where the walk comes by.                                                *)
Accounted(g, st) ==
  /\ IsGraph(g) /\ Returns(g) /\ Branching(g) /\ st \in States(g)
  /\ \E k \in Nat : LogPaid(g, st, k)

\* P is the path to n: it holds whatever every way to n passes, and only what leads
\* to n.
Behind(g, P, n) ==
  /\ P \subseteq DOMAIN g.nodes /\ n \in P
  /\ \A S \in SUBSET (DOMAIN g.nodes) : Upward(g, S) /\ n \in S => P \subseteq S
  /\ \A S \in SUBSET (DOMAIN g.nodes) :
       g.entry \in S /\ (\A j \in DOMAIN g.edges : g.edges[j].src \in S \cap P => g.edges[j].dst \in S) => n \in S

\* Normal edges go on.
LEMMA BehindOn ==
  ASSUME NEW g, IsGraph(g), Branching(g), NEW P, NEW i \in DOMAIN g.edges,
         Behind(g, P, g.edges[i].src), g.edges[i].kind = "normal"
  PROVE  g.edges[i].dst \notin P /\ Behind(g, P \cup {g.edges[i].dst}, g.edges[i].dst)
<1> DEFINE m == g.edges[i].src
           t == g.edges[i].dst
           Q == P \cup {t}
<1>1. m \in DOMAIN g.nodes /\ t \in DOMAIN g.nodes /\ Feeds(g, m, t)
  BY EdgeTyped DEF Feeds
<1>2. P \subseteq DOMAIN g.nodes /\ m \in P
  BY DEF Behind
<1>3. t \notin P
  <2>1. PICK S \in SUBSET (DOMAIN g.nodes) : t \notin S /\ Upward(g, S) /\ \A l \in DOMAIN g.nodes : Feeds(g, l, t) => l \in S
    BY <1>1 DEF Branching
  <2>2. P \subseteq S
    BY <1>1, <2>1 DEF Behind
  <2> QED BY <2>1, <2>2
<1>4. ASSUME NEW S \in SUBSET (DOMAIN g.nodes), Upward(g, S), t \in S PROVE Q \subseteq S
  <2>1. m \in S
    BY <1>4 DEF Upward
  <2>2. P \subseteq S
    BY <1>4, <2>1 DEF Behind
  <2> QED BY <1>4, <2>2
<1>5. ASSUME NEW S \in SUBSET (DOMAIN g.nodes), g.entry \in S,
             \A j \in DOMAIN g.edges : g.edges[j].src \in S \cap Q => g.edges[j].dst \in S
      PROVE  t \in S
  <2>1. m \in S
    BY <1>5 DEF Behind
  <2> QED BY <1>2, <1>5, <2>1
<1> QED BY <1>1, <1>2, <1>3, <1>4, <1>5 DEF Behind

\* Repeats go back.
LEMMA BehindBack ==
  ASSUME NEW g, IsGraph(g), Returns(g), NEW P, NEW i \in DOMAIN g.edges,
         Behind(g, P, g.edges[i].src), g.edges[i].kind = "repeat"
  PROVE  g.edges[i].dst \in P
<1> DEFINE m == g.edges[i].src
           t == g.edges[i].dst
<1>1. m \in P /\ m \in DOMAIN g.nodes
  BY DEF Behind
<1>2. SUFFICES ASSUME m # t, t \notin P PROVE FALSE
  BY <1>1
<1>3. PICK S \in SUBSET (DOMAIN g.nodes) :
        /\ g.entry \in S /\ m \notin S
        /\ \A j \in DOMAIN g.edges : g.edges[j].src \in S \ {t} => g.edges[j].dst \in S
  BY <1>2 DEF Returns
<1>4. \A j \in DOMAIN g.edges : g.edges[j].src \in S \cap P => g.edges[j].dst \in S
  BY <1>2, <1>3
<1>5. m \in S
  BY <1>3, <1>4 DEF Behind
<1> QED BY <1>3, <1>5

LEMMA BehindEntry ==
  ASSUME NEW g, IsGraph(g) PROVE Behind(g, {g.entry}, g.entry)
BY DEF Behind, IsGraph

\* What comes before a node that runs once is not reached from it.
LEMMA OnceUnreached ==
  ASSUME NEW g, IsGraph(g), Branching(g), NEW n \in OnceNodes(g), NEW i \in DOMAIN g.edges,
         g.edges[i].kind = "normal", g.edges[i].dst = n
  PROVE  g.edges[i].src \notin Reachable(g, n)
<1>0. n \in DOMAIN g.nodes
  BY OnceIs
<1>1. PICK S \in SUBSET (DOMAIN g.nodes) : n \notin S /\ Upward(g, S) /\ \A l \in DOMAIN g.nodes : Feeds(g, l, n) => l \in S
  BY <1>0 DEF Branching
<1> DEFINE K == S \cap OnceNodes(g)
           A == {p[2] : p \in EdgePairs(g)}
           Z == SUBSET (DOMAIN g.nodes \ K)
           After(ns) == {p[2] : p \in {q \in EdgePairs(g) : q[1] \in ns}}
           a == After({n})
           step == [x \in Nat \X Z |-> x[2] \cup After(x[2])]
           Equation(f) == f = [k \in Nat |-> IF k = 0 THEN a ELSE f[k - 1] \cup After(f[k - 1])]
           Within == CHOOSE f : Equation(f)
<1>2. g.edges[i].src \in K
  <2>1. g.edges[i].src \in S /\ g.edges[i].src \in DOMAIN g.nodes
    BY <1>1, EdgeTyped DEF Feeds
  <2>2. g.edges[i].src \in OnceNodes(g)
    BY OnceIs DEF Once, Upward
  <2> QED BY <2>1, <2>2
<1>3. ASSUME NEW j \in DOMAIN g.edges, g.edges[j].dst \in K PROVE g.edges[j].src \in K
  <2>1. g.edges[j].kind = "normal"
    BY <1>3, OnceIs, EdgeTyped DEF Once
  <2> QED BY <1>1, <1>3, <2>1, OnceIs DEF Once, Upward
<1>4. ASSUME NEW ns \in Z \cup {{n}} PROVE After(ns) \in Z
  <2> SUFFICES ASSUME NEW p \in EdgePairs(g), p[1] \in ns PROVE p[2] \in DOMAIN g.nodes \ K
    OBVIOUS
  <2>1. PICK j \in DOMAIN g.edges : p = <<g.edges[j].src, g.edges[j].dst>>
    BY DEF EdgePairs
  <2>2. g.edges[j].src \notin K /\ g.edges[j].dst \in DOMAIN g.nodes
    BY <1>1, <2>1, EdgeTyped
  <2> QED BY <1>3, <2>1, <2>2
<1>5. a \in Z
  BY <1>4
<1>6. step \in [Nat \X Z -> Z]
  <2> SUFFICES ASSUME NEW x \in Nat \X Z PROVE x[2] \cup After(x[2]) \in Z
    OBVIOUS
  <2>1. x[2] \in Z
    OBVIOUS
  <2> HIDE DEF After
  <2>2. After(x[2]) \in Z
    BY <1>4, <2>1
  <2> QED BY <2>1, <2>2
<1>7. \A k \in Nat, x \in Z : step[<<k, x>>] = x \cup After(x)
  OBVIOUS
<1> HIDE DEF K, Z, After, a, step
<1>8. PICK f \in [Nat -> Z] : Recurs(f, a, step)
  BY <1>5, <1>6, Iterates
<1>9. Equation(f)
  <2>1. ASSUME NEW k \in Nat PROVE f[k] = IF k = 0 THEN a ELSE f[k - 1] \cup After(f[k - 1])
    <3>1. CASE k = 0
      BY <1>8, <3>1 DEF Recurs
    <3>2. CASE k # 0
      <4>1. k - 1 \in Nat /\ f[k - 1] \in Z
        BY <1>8, <3>2
      <4>2. f[k] = step[<<k, f[k - 1]>>]
        BY <1>8, <3>2 DEF Recurs
      <4> QED BY <1>7, <3>2, <4>1, <4>2
    <3> QED BY <3>1, <3>2
  <2>2. f = [k \in Nat |-> f[k]]
    BY <1>8
  <2> QED BY <2>1, <2>2
<1> HIDE DEF Equation
<1>10. Equation(Within)
  BY <1>9
<1> HIDE DEF Within
<1> DEFINE T == {k \in Nat : Within[k] \in Z}
<1>11. 0 \in T
  BY <1>5, <1>10 DEF Equation
<1>12. ASSUME NEW k \in Nat, k \in T PROVE k + 1 \in T
  <2>1. k + 1 \in Nat /\ k + 1 # 0 /\ k + 1 - 1 = k
    OBVIOUS
  <2>2. Within[k + 1] = Within[k] \cup After(Within[k])
    <3>1. \A l \in Nat : Within[l] = IF l = 0 THEN a ELSE Within[l - 1] \cup After(Within[l - 1])
      BY <1>10, Zenon DEF Equation
    <3>2. ASSUME NEW l \in Nat, l # 0, l - 1 = k PROVE Within[l] = Within[k] \cup After(Within[k])
      BY <3>1, <3>2, Zenon
    <3> QED BY <2>1, <3>2
  <2>3. Within[k] \in Z
    BY <1>12
  <2>4. Within[k] \cup After(Within[k]) \in Z
    <3>1. After(Within[k]) \in Z
      BY <1>4, <2>3
    <3> QED BY <2>3, <3>1 DEF Z
  <2> QED BY <2>1, <2>2, <2>4
<1>13. T \subseteq Nat
  OBVIOUS
<1>14. T = Nat
  <2> HIDE DEF T
  <2> QED BY <1>11, <1>12, <1>13, NumbersFrom0
<1>15. Cardinality(DOMAIN g.nodes) \in Nat
  BY FS_CardinalityType DEF IsGraph
<1>16. Within[Cardinality(DOMAIN g.nodes)] \in Z
  BY <1>14, <1>15
<1>17. Reachable(g, n) = Within[Cardinality(DOMAIN g.nodes)]
  BY DEF Reachable, Within, Equation, a, After
<1> QED BY <1>2, <1>16, <1>17 DEF Z

\* What the walk finds to do was paid for: by the node before, that has come further;
LEMMA ReadyOnce ==
  ASSUME NEW g, NEW st, Accounted(g, st), NEW n \in OnceNodes(g), n \in Doers(g), NEW settled,
         JoinReady(g, st, n, settled),
         n # g.entry => \E i \in DOMAIN g.edges : /\ g.edges[i].kind = "normal" /\ g.edges[i].dst = n
                                                  /\ \E o : Told(g, st, g.edges[i].src, o)
  PROVE  \A m \in Feeders(g, n) : Finished(st, m)
<1> SUFFICES ASSUME NEW m \in Feeders(g, n) PROVE Finished(st, m)
  OBVIOUS
<1>0. IsGraph(g) /\ Branching(g) /\ m \in DOMAIN g.nodes /\ g.nodes[m].kind # "router"
  BY DEF Accounted, Feeders
<1>1. PICK j \in DOMAIN g.edges : g.edges[j].kind = "normal" /\ g.edges[j].src = m /\ g.edges[j].dst = n
  BY DEF Feeders, Feeds
<1>2. n # g.entry
  BY <1>0, <1>1 DEF Branching
<1>3. PICK i \in DOMAIN g.edges : /\ g.edges[i].kind = "normal" /\ g.edges[i].dst = n
                                 /\ \E o : Told(g, st, g.edges[i].src, o)
  BY <1>2
<1> DEFINE into == {e \in DOMAIN g.edges : /\ g.edges[e].dst = n /\ g.edges[e].src # n
                                           /\ g.edges[e].kind = "normal"
                                           /\ g.edges[e].src \notin Reachable(g, n)}
<1>4. i \in into /\ j \in into
  <2>1. g.edges[i].src # n /\ g.edges[j].src # n
    BY <1>0, <1>1, <1>3, FeederIs
  <2>2. g.edges[i].src \notin Reachable(g, n) /\ g.edges[j].src \notin Reachable(g, n)
    BY <1>0, <1>1, <1>3, OnceUnreached
  <2> QED BY <1>1, <1>3, <2>1, <2>2
<1>5. CASE \A e \in into : Finished(st, g.edges[e].src)
  BY <1>1, <1>4, <1>5
<1>6. CASE Cardinality(into) < 2
  <2>1. IsFiniteSet(into)
    <3>1. g.edges \in Seq([src : DOMAIN g.nodes, dst : DOMAIN g.nodes, outs : SUBSET Outcomes,
                           kind : {"normal", "repeat"}])
      BY <1>0 DEF IsGraph
    <3>2. DOMAIN g.edges = 1 .. Len(g.edges) /\ Len(g.edges) \in Int /\ 1 \in Int
      BY <3>1
    <3>3. IsFiniteSet(DOMAIN g.edges)
      BY <3>2, FS_Interval
    <3> QED BY <3>3, FS_Subset
  <2> HIDE DEF into
  <2>2. i = j
    <3> SUFFICES ASSUME i # j PROVE FALSE
      OBVIOUS
    <3>1. {i, j} \subseteq into
      BY <1>4
    <3>2. IsFiniteSet({i}) /\ Cardinality({i}) = 1
      BY FS_Singleton
    <3>3. {i} \cup {j} = {i, j} /\ j \notin {i}
      OBVIOUS
    <3>4. Cardinality({i} \cup {j}) = 1 + 1
      BY <3>2, <3>3, FS_AddElement
    <3>5. Cardinality({i, j}) <= Cardinality(into) /\ Cardinality(into) \in Nat
      BY <2>1, <3>1, FS_Subset, FS_CardinalityType
    <3> QED BY <1>6, <3>3, <3>4, <3>5
  <2> QED BY <1>0, <1>1, <1>3, <2>2 DEF Told
<1>7. Cardinality(into) < 2 \/ \A e \in into : Finished(st, g.edges[e].src)
  <2>1. g.nodes[n].kind # "terminal" /\ g.nodes[n].join = "all"
    BY <1>0, OnceIs DEF Doers, Once
  <2> QED BY <2>1 DEF JoinReady
<1> QED BY <1>5, <1>6, <1>7

LEMMA FirstOwed ==
  ASSUME NEW g, NEW st, Accounted(g, st), NEW n \in Doers(g), st.nodes[n].status = "pending", NEW settled,
         JoinReady(g, st, n, settled), NEW b \in Budgets(g),
         n # g.entry => \E i \in DOMAIN g.edges : /\ g.edges[i].kind = "normal" /\ g.edges[i].dst = n
                                                  /\ \E o : Told(g, st, g.edges[i].src, o)
  PROVE  Owed(g, st, b, n)
<1>0. IsGraph(g) /\ Branching(g) /\ st \in States(g) /\ n \in DOMAIN g.nodes /\ g.nodes[n].kind # "terminal"
  BY DEF Accounted, Doers
<1>1. st.nodes[n].attempts = 0
  BY <1>0 DEF Accounted, LogPaid, Visited
<1>2. CASE n \in OnceNodes(g)
  BY <1>1, <1>2, ReadyOnce DEF Owed
<1>3. CASE n \notin OnceNodes(g)
  <2>1. Count(g, b, n) \in Nat
    BY <1>0, CountType
  <2>2. ASSUME NEW m \in Feeders(g, n) PROVE 0 + Busy(st, m) < st.nodes[m].attempts + Count(g, b, n)
    <3>1. m \in DOMAIN g.nodes /\ g.nodes[m].kind # "router"
      BY DEF Feeders
    <3>2. n # g.entry
      BY <1>0 DEF Branching, Feeders, Feeds
    <3>3. PICK i \in DOMAIN g.edges : /\ g.edges[i].kind = "normal" /\ g.edges[i].dst = n
                                      /\ \E o : Told(g, st, g.edges[i].src, o)
      BY <3>2
    <3>4. g.edges[i].src = m
      BY <1>0, <1>3, <3>3, FeederIs
    <3>5. Finished(st, m)
      BY <3>1, <3>3, <3>4 DEF Told
    <3>6. Visited(g, st, m) /\ st.nodes[m].attempts \in Nat
      BY <1>0, <3>1 DEF Accounted, LogPaid, States, NodeStates
    <3>7. st.nodes[m].attempts >= 1 /\ Busy(st, m) = 0
      BY <3>5, <3>6 DEF Visited, Finished, Busy
    <3> QED BY <2>1, <3>6, <3>7
  <2>3. 0 < 1 + Count(g, b, n)
    BY <2>1
  <2> QED BY <1>1, <1>3, <2>2, <2>3 DEF Owed
<1> QED BY <1>2, <1>3

\* by what the node before has done since;
LEMMA StaleOwed ==
  ASSUME NEW g, NEW st, Accounted(g, st), NEW i \in DOMAIN g.edges, g.edges[i].kind = "normal",
         Stale(st, g.edges[i].src, g.edges[i].dst), NEW o, Told(g, st, g.edges[i].src, o),
         ~IsGate(g, g.edges[i].dst), NEW b \in Budgets(g), \A p \in EdgePairs(g) : st.repeats[p] <= b[p]
  PROVE  Owed(g, st, b, g.edges[i].dst)
<1> DEFINE m == g.edges[i].src
           n == g.edges[i].dst
<1>0. IsGraph(g) /\ Branching(g) /\ st \in States(g) /\ n \in DOMAIN g.nodes /\ m \in DOMAIN g.nodes
      /\ st.repeats \in Budgets(g)
  BY EdgeTyped DEF Accounted, States
<1>1. PICK k \in Nat : LogPaid(g, st, k)
  BY DEF Accounted
<1>2. /\ Visited(g, st, n) /\ Visited(g, st, m)
      /\ st.nodes[n].attempts \in Nat /\ st.nodes[n].seq \in Nat
      /\ st.nodes[m].attempts \in Nat /\ st.nodes[m].seq \in Nat
  BY <1>0, <1>1 DEF LogPaid, States, NodeStates
<1>3. Finished(st, n) /\ st.nodes[n].seq < st.nodes[m].seq
  BY DEF Stale
<1>4. n \in Doers(g) /\ st.nodes[n].attempts >= 1
  <2>1. g.nodes[n].kind \in NodeKinds
    BY <1>0 DEF IsGraph
  <2> QED BY <1>0, <1>2, <1>3, <2>1 DEF Visited, Finished, Doers, IsGate, NodeKinds
<1>5. Finished(st, m) /\ g.nodes[m].kind # "router"
  <2>1. st.nodes[m].status # "pending"
    <3> SUFFICES ASSUME st.nodes[m].status = "pending" PROVE FALSE
      OBVIOUS
    <3> HIDE DEF m, n
    <3>1. st.nodes[m].seq = 0
      BY <1>2 DEF Visited
    <3> QED BY <1>2, <1>3, <3>1
  <2>2. Finished(st, m)
    BY <2>1 DEF Told
  <2> QED BY <1>2, <2>1, <2>2 DEF Visited
<1>6. m \in Feeders(g, n)
  BY <1>0, <1>5, FeederIs
<1>7. NodePaid(g, st, n)
  BY <1>1, <1>4 DEF LogPaid
<1> HIDE DEF m, n
<1>8. n \notin OnceNodes(g)
  <2> SUFFICES ASSUME n \in OnceNodes(g) PROVE FALSE
    OBVIOUS
  <2>1. st.nodes[n].attempts = 1
    BY <1>2, <1>4, <1>7 DEF NodePaid
  <2>2. st.nodes[m].seq < st.nodes[n].seq
    BY <1>6, <1>7, <2>1 DEF NodePaid
  <2> QED BY <1>2, <1>3, <2>2
<1>9. Feeders(g, n) = {m}
  <2>1. Feeders(g, n) \subseteq {m}
    BY <1>0, <1>4, <1>8, FeederIs DEF m, n, Doers
  <2> QED BY <1>6, <2>1
<1>10. st.nodes[n].attempts + Ahead(st, m, n) <= st.nodes[m].attempts + Count(g, st.repeats, n)
  BY <1>6, <1>7, <1>8 DEF NodePaid
<1>11. Ahead(st, m, n) = 1 /\ Busy(st, m) = 0
  BY <1>2, <1>3, <1>5 DEF Ahead, Busy, Finished
<1>12. Count(g, st.repeats, n) <= Count(g, b, n) /\ Count(g, b, n) \in Nat /\ Count(g, st.repeats, n) \in Nat
  BY <1>0, CountGrows, CountType
<1>13. st.nodes[n].attempts + Busy(st, m) < st.nodes[m].attempts + Count(g, b, n)
  BY <1>2, <1>10, <1>11, <1>12
<1> QED BY <1>4, <1>8, <1>9, <1>13 DEF Owed, n

\* or by the repeat.
LEMMA RepeatOwed ==
  ASSUME NEW g, NEW st, Accounted(g, st), NEW i \in DOMAIN g.edges, g.edges[i].kind = "repeat",
         ~IsGate(g, g.edges[i].dst), NEW b \in Budgets(g), \A p \in EdgePairs(g) : st.repeats[p] <= b[p],
         st.repeats[<<g.edges[i].src, g.edges[i].dst>>] + 1 <= b[<<g.edges[i].src, g.edges[i].dst>>]
  PROVE  Owed(g, st, b, g.edges[i].dst)
<1> DEFINE n == g.edges[i].dst
           q == <<g.edges[i].src, n>>
<1>0. IsGraph(g) /\ Branching(g) /\ st \in States(g) /\ n \in DOMAIN g.nodes /\ q \in EdgePairs(g)
      /\ st.repeats \in Budgets(g)
  BY EdgeTyped DEF Accounted, States
<1>1. n \in Doers(g)
  <2>1. g.nodes[n].kind \in NodeKinds
    BY <1>0 DEF IsGraph
  <2>2. g.nodes[n].kind \notin {"router", "terminal"}
    BY <1>0 DEF Branching
  <2> QED BY <1>0, <2>1, <2>2 DEF Doers, IsGate, NodeKinds
<1>2. n \notin OnceNodes(g)
  BY <1>0, OnceIs DEF Once
<1>3. NodePaid(g, st, n)
  BY <1>1 DEF Accounted, LogPaid
<1>4. Count(g, st.repeats, n) + 1 <= Count(g, b, n) /\ Count(g, b, n) \in Nat /\ Count(g, st.repeats, n) \in Nat
  <2>1. Count(g, st.repeats, q[2]) + 1 <= Count(g, b, q[2])
    BY <1>0, CountCharged
  <2> QED BY <1>0, <2>1, CountType
<1>5. \A m \in DOMAIN g.nodes : st.nodes[m].attempts \in Nat
  BY <1>0 DEF States, NodeStates
<1> HIDE DEF n, q
<1>6. Feeders(g, n) = {} => st.nodes[n].attempts < 1 + Count(g, b, n)
  BY <1>0, <1>2, <1>3, <1>4, <1>5 DEF NodePaid
<1>7. ASSUME NEW m \in Feeders(g, n)
      PROVE  st.nodes[n].attempts + Busy(st, m) < st.nodes[m].attempts + Count(g, b, n)
  <2>1. m \in DOMAIN g.nodes
    BY DEF Feeders
  <2>2. st.nodes[n].attempts + Ahead(st, m, n) <= st.nodes[m].attempts + Count(g, st.repeats, n)
    BY <1>2, <1>3 DEF NodePaid
  <2>3. Busy(st, m) <= Ahead(st, m, n) /\ Busy(st, m) \in {0, 1} /\ Ahead(st, m, n) \in {0, 1}
    BY DEF Busy, Ahead
  <2> QED BY <1>0, <1>4, <1>5, <2>1, <2>2, <2>3
<1> QED BY <1>1, <1>2, <1>6, <1>7 DEF Owed, n

-----------------------------------------------------------------------------
(* The walk offers what is owed once its repeats are charged.              *)
PaidWalks(g, st) ==
  {w \in Walks(g, st) :
     /\ \A p \in EdgePairs(g) : st.repeats[p] <= w.repeats[p]
     /\ \A i \in DOMAIN w.frontier["candidate"] : Owed(g, st, w.repeats, w.frontier["candidate"][i])
     /\ \A i \in DOMAIN w.todo : \A e \in w.todo[i].edges : Behind(g, w.todo[i].path, g.edges[e].src)}

LEMMA PushIs ==
  ASSUME NEW g, NEW w \in WalkTypes(g), NEW kind \in Kinds, NEW n \in DOMAIN g.nodes
  PROVE  LET v == Push(w, kind, n) IN
         /\ v.repeats = w.repeats /\ v.todo = w.todo
         /\ \A i \in DOMAIN v.frontier["candidate"] :
              \/ kind = "candidate" /\ v.frontier["candidate"][i] = n
              \/ /\ i \in DOMAIN w.frontier["candidate"]
                 /\ v.frontier["candidate"][i] = w.frontier["candidate"][i]
<1> DEFINE old == w.frontier[kind]
           new == IF Contains(old, n) THEN old ELSE Append(old, n)
           v == [w EXCEPT !.frontier[kind] = new]
<1>1. old \in Seq(DOMAIN g.nodes)
  BY DEF WalkTypes
<1>2. \A i \in DOMAIN new : new[i] = n \/ (i \in DOMAIN old /\ new[i] = old[i])
  <2>1. \A i \in DOMAIN Append(old, n) :
             Append(old, n)[i] = n \/ (i \in DOMAIN old /\ Append(old, n)[i] = old[i])
    <3> HIDE DEF old
    <3> QED BY <1>1, Appends1
  <2> QED BY <2>1
<1> HIDE DEF new
<1>3. v.todo = w.todo /\ v.repeats = w.repeats /\ v.frontier = [w.frontier EXCEPT ![kind] = new]
  BY DEF WalkTypes
<1>4. v.frontier["candidate"] = IF kind = "candidate" THEN new ELSE w.frontier["candidate"]
  BY <1>3 DEF WalkTypes
<1>5. v = Push(w, kind, n)
  BY DEF Push, new
<1> HIDE DEF v
<1>6. ASSUME NEW i \in DOMAIN v.frontier["candidate"]
      PROVE  \/ kind = "candidate" /\ v.frontier["candidate"][i] = n
             \/ /\ i \in DOMAIN w.frontier["candidate"]
                /\ v.frontier["candidate"][i] = w.frontier["candidate"][i]
  BY <1>2, <1>4
<1> QED BY <1>3, <1>5, <1>6

LEMMA PushPaid ==
  ASSUME NEW g, NEW st, NEW w \in PaidWalks(g, st), NEW kind \in Kinds, NEW n \in DOMAIN g.nodes,
         kind = "candidate" => Candidate(g, st, n) /\ Owed(g, st, w.repeats, n)
  PROVE  Push(w, kind, n) \in PaidWalks(g, st)
<1> DEFINE v == Push(w, kind, n)
<1>1. w \in Walks(g, st) /\ w \in WalkTypes(g)
  BY DEF PaidWalks, Walks
<1>2. v \in Walks(g, st)
  BY <1>1, PushSound
<1>3. /\ v.repeats = w.repeats /\ v.todo = w.todo
      /\ \A i \in DOMAIN v.frontier["candidate"] :
           \/ kind = "candidate" /\ v.frontier["candidate"][i] = n
           \/ /\ i \in DOMAIN w.frontier["candidate"]
              /\ v.frontier["candidate"][i] = w.frontier["candidate"][i]
  BY <1>1, PushIs
<1> HIDE DEF v
<1>4. \A i \in DOMAIN v.frontier["candidate"] : Owed(g, st, v.repeats, v.frontier["candidate"][i])
  BY <1>3 DEF PaidWalks
<1>5. v \in PaidWalks(g, st)
  BY <1>2, <1>3, <1>4 DEF PaidWalks
<1> QED BY <1>5 DEF v

LEMMA FollowPaid ==
  ASSUME NEW g, NEW st, Accounted(g, st), NEW w \in PaidWalks(g, st), NEW n \in DOMAIN g.nodes,
         NEW path \in SUBSET (DOMAIN g.nodes), \A m \in path : Idle(st, m), Idle(st, n),
         Entered(g, st, n), NEW o \in Results, Told(g, st, n, o), Behind(g, path \cup {n}, n)
  PROVE  Follow(g, n, path, w, o) \in PaidWalks(g, st)
<1> DEFINE settled == [w EXCEPT !.settled[n] = o]
           edges == Selected(g, n, o)
           item == [edges |-> edges, path |-> path \cup {n}]
           todo == <<item>> \o w.todo
           v == [settled EXCEPT !.todo = todo]
           u == Follow(g, n, path, w, o)
<1>0. IsGraph(g) /\ st \in States(g) /\ w \in Walks(g, st) /\ w \in WalkTypes(g)
  BY DEF Accounted, PaidWalks, Walks
<1>1. u \in Walks(g, st)
  BY <1>0, FollowSound
<1>2. /\ settled.todo = w.todo /\ settled.frontier = w.frontier /\ settled.repeats = w.repeats
      /\ settled \in WalkTypes(g)
  BY <1>0 DEF WalkTypes
<1> HIDE DEF settled
<1>3. CASE edges = {}
  <2>1. u = Push(settled, "blocked", n)
    BY <1>3 DEF Follow, settled
  <2>2. /\ u.repeats = w.repeats /\ u.todo = w.todo
        /\ \A i \in DOMAIN u.frontier["candidate"] :
             /\ i \in DOMAIN w.frontier["candidate"]
             /\ u.frontier["candidate"][i] = w.frontier["candidate"][i]
    <3> HIDE DEF u
    <3> QED BY <1>2, <2>1, PushIs DEF Kinds
  <2> HIDE DEF u
  <2>3. u \in PaidWalks(g, st)
    BY <1>1, <2>2 DEF PaidWalks
  <2> QED BY <2>3 DEF u
<1>4. CASE edges # {}
  <2>1. u = v
    BY <1>4 DEF Follow, settled
  <2>2. item \in Pending(g) /\ w.todo \in Seq(Pending(g))
    BY <1>0 DEF Pending, Selected, WalkTypes
  <2>3. \A e \in item.edges : Behind(g, item.path, g.edges[e].src)
    BY DEF Selected
  <2> HIDE DEF item
  <2>4. \A i \in DOMAIN todo : todo[i] = item \/ \E j \in DOMAIN w.todo : todo[i] = w.todo[j]
    BY <2>2, Prepend
  <2> HIDE DEF todo
  <2>5. v.todo = todo /\ v.frontier = w.frontier /\ v.repeats = w.repeats
    BY <1>2 DEF WalkTypes
  <2>6. \A i \in DOMAIN todo : \A e \in todo[i].edges : Behind(g, todo[i].path, g.edges[e].src)
    BY <2>3, <2>4 DEF PaidWalks
  <2> HIDE DEF u, v
  <2>7. u \in PaidWalks(g, st)
    BY <1>1, <2>1, <2>5, <2>6 DEF PaidWalks
  <2> QED BY <2>7 DEF u
<1> QED BY <1>3, <1>4

LEMMA ExpandPaid ==
  ASSUME NEW g, NEW st, Accounted(g, st), NEW proved, NEW w \in PaidWalks(g, st), NEW n \in DOMAIN g.nodes,
         NEW path \in SUBSET (DOMAIN g.nodes), \A m \in path : Idle(st, m), Entered(g, st, n),
         n \notin path =>
           /\ Behind(g, path \cup {n}, n)
           /\ n # g.entry => \E i \in DOMAIN g.edges : /\ g.edges[i].kind = "normal" /\ g.edges[i].dst = n
                                                       /\ \E o : Told(g, st, g.edges[i].src, o)
  PROVE  Expand(g, st, proved, n, path, w) \in PaidWalks(g, st)
<1> DEFINE s == st.nodes[n]
<1>0. IsGraph(g) /\ st \in States(g) /\ w \in Walks(g, st) /\ w \in WalkTypes(g) /\ w.repeats \in Budgets(g)
  BY DEF Accounted, PaidWalks, Walks, WalkTypes
<1>1. s \in NodeStates /\ g.nodes[n].kind \in NodeKinds
  BY <1>0 DEF States, IsGraph
<1>2. ASSUME NEW kind \in Kinds, kind # "candidate" PROVE Push(w, kind, n) \in PaidWalks(g, st)
  BY <1>2, PushPaid
<1>3. s.status \in {"pending", "active", "finished"}
  BY <1>1 DEF NodeStates
<1>4. CASE n \in path
  BY <1>2, <1>4 DEF Expand, Kinds
<1>5. CASE n \notin path /\ ~JoinReady(g, st, n, w.settled)
  BY <1>2, <1>5 DEF Expand, Kinds
<1>6. CASE n \notin path /\ JoinReady(g, st, n, w.settled)
  <2>1. CASE s.status = "active"
    BY <1>2, <1>6, <2>1 DEF Expand, Kinds
  <2>2. CASE s.status = "finished"
    <3> DEFINE o == IF w.settled[n] = NoOutcome THEN Settle(g, st, proved, n, path) ELSE w.settled[n]
    <3>1. Finished(st, n) /\ Idle(st, n)
      BY <2>2 DEF Finished, Idle
    <3>2. o \in Results /\ Told(g, st, n, o)
      BY <1>0, <3>1, SettleTold DEF Walks, WalkTypes
    <3>3. Follow(g, n, path, w, o) \in PaidWalks(g, st)
      <4> HIDE DEF o
      <4> QED BY <1>6, <3>1, <3>2, FollowPaid
    <3>4. Expand(g, st, proved, n, path, w) = Follow(g, n, path, w, o)
      BY <1>6, <2>2 DEF Expand
    <3> QED BY <3>3, <3>4
  <2>3. CASE s.status = "pending"
    <3>1. Idle(st, n)
      BY <2>3 DEF Idle
    <3>2. CASE g.nodes[n].kind = "router"
      <4>1. Follow(g, n, path, w, "completed") \in PaidWalks(g, st)
        BY <1>6, <2>3, <3>1, <3>2, FollowPaid DEF Told, Results, Outcomes
      <4> QED BY <1>6, <2>3, <3>2, <4>1 DEF Expand
    <3>3. CASE g.nodes[n].kind = "terminal"
      BY <1>2, <1>6, <2>3, <3>3 DEF Expand, Kinds
    <3>4. CASE g.nodes[n].kind = "gate"
      BY <1>2, <1>6, <2>3, <3>4 DEF Expand, Kinds
    <3>5. CASE g.nodes[n].kind \in {"agent", "tool"}
      <4>1. Candidate(g, st, n)
        BY <3>1, <3>5 DEF Candidate, Entered, IsGate
      <4>2. Owed(g, st, w.repeats, n)
        <5>1. n \in Doers(g)
          BY <3>5 DEF Doers
        <5> QED BY <1>0, <1>6, <2>3, <5>1, FirstOwed
      <4>3. Push(w, "candidate", n) \in PaidWalks(g, st)
        BY <4>1, <4>2, PushPaid DEF Kinds
      <4> QED BY <1>2, <1>6, <2>3, <3>5, <4>3 DEF Expand, Kinds
    <3> QED BY <1>1, <3>2, <3>3, <3>4, <3>5 DEF NodeKinds
  <2> QED BY <1>3, <2>1, <2>2, <2>3
<1> QED BY <1>4, <1>5, <1>6

LEMMA DuePaid ==
  ASSUME NEW g, NEW st, NEW w \in PaidWalks(g, st), NEW n \in DOMAIN g.nodes,
         ~IsGate(g, n) => Candidate(g, st, n) /\ Owed(g, st, w.repeats, n)
  PROVE  Due(g, n, w) \in PaidWalks(g, st)
BY PushPaid DEF Due, Kinds, IsGate

\* A repeat adds to what is charged, and what was owed stays owed.
LEMMA SpentPaid ==
  ASSUME NEW g, NEW st, Accounted(g, st), NEW w \in PaidWalks(g, st), NEW i \in DOMAIN g.edges,
         g.edges[i].kind = "repeat", ~IsGate(g, g.edges[i].dst) => Candidate(g, st, g.edges[i].dst)
  PROVE  Spent(g, <<g.edges[i].src, g.edges[i].dst>>, g.edges[i].dst, w) \in PaidWalks(g, st)
<1> DEFINE n == g.edges[i].dst
           pair == <<g.edges[i].src, n>>
           b == [w.repeats EXCEPT ![pair] = @ + 1]
           v == [w EXCEPT !.repeats[pair] = @ + 1]
<1>0. /\ IsGraph(g) /\ st \in States(g) /\ w \in Walks(g, st) /\ w \in WalkTypes(g)
      /\ w.repeats \in Budgets(g) /\ st.repeats \in Budgets(g)
  BY DEF Accounted, PaidWalks, Walks, WalkTypes, States
<1>1. n \in DOMAIN g.nodes /\ pair \in EdgePairs(g)
  BY <1>0, EdgeTyped
<1>2. /\ b \in Budgets(g) /\ b[pair] = w.repeats[pair] + 1
      /\ \A p \in EdgePairs(g) : w.repeats[p] <= b[p] /\ w.repeats[p] \in Nat /\ st.repeats[p] \in Nat
  BY <1>0, <1>1 DEF Budgets
<1>3. \A p \in EdgePairs(g) : st.repeats[p] <= w.repeats[p]
  BY DEF PaidWalks
<1>4. /\ v \in WalkTypes(g) /\ v.todo = w.todo /\ v.settled = w.settled
      /\ v.frontier = w.frontier /\ v.repeats = b
  BY <1>0, <1>2 DEF WalkTypes
<1> HIDE DEF v, b, n, pair
<1>5. v \in Walks(g, st)
  BY <1>0, <1>4 DEF Walks
<1>6. \A p \in EdgePairs(g) : st.repeats[p] <= b[p]
  <2> TAKE p \in EdgePairs(g)
  <2>1. b[p] \in Nat
    BY <1>2 DEF Budgets
  <2> QED BY <1>2, <1>3, <2>1
<1>7. ASSUME NEW j \in DOMAIN w.frontier["candidate"] PROVE Owed(g, st, b, w.frontier["candidate"][j])
  <2>1. Owed(g, st, w.repeats, w.frontier["candidate"][j])
    BY DEF PaidWalks
  <2> QED BY <1>0, <1>2, <2>1, OwedMore
<1>8. v \in PaidWalks(g, st)
  BY <1>4, <1>5, <1>6, <1>7 DEF PaidWalks
<1>9. ~IsGate(g, n) => Candidate(g, st, n) /\ Owed(g, st, v.repeats, n)
  <2> SUFFICES ASSUME ~IsGate(g, n) PROVE Owed(g, st, b, n)
    BY <1>4 DEF n
  <2>1. st.repeats[pair] + 1 <= b[pair]
    BY <1>1, <1>2, <1>3
  <2> QED BY <1>2, <1>6, <2>1, RepeatOwed DEF n, pair
<1>10. Due(g, n, v) \in PaidWalks(g, st)
  BY <1>1, <1>8, <1>9, DuePaid
<1>11. Push(w, "exhausted", n) \in PaidWalks(g, st)
  BY <1>1, PushPaid DEF Kinds
<1>12. Spent(g, pair, n, w) \in PaidWalks(g, st)
  BY <1>10, <1>11 DEF Spent, v
<1> QED BY <1>12 DEF pair, n

LEMMA AlongPaid ==
  ASSUME NEW g, NEW st, Accounted(g, st), NEW proved, NEW w \in PaidWalks(g, st),
         NEW i \in DOMAIN g.edges, Followed(g, st, i), NEW path \in SUBSET (DOMAIN g.nodes),
         \A m \in path : Idle(st, m), Behind(g, path, g.edges[i].src)
  PROVE  Along(g, st, proved, g.edges[i], path, w) \in PaidWalks(g, st)
<1> DEFINE n == g.edges[i].src
           t == g.edges[i].dst
           back == g.edges[i].kind = "repeat" \/ t \in path
<1>0. /\ IsGraph(g) /\ Returns(g) /\ Branching(g) /\ st \in States(g)
      /\ w \in Walks(g, st) /\ w.repeats \in Budgets(g)
  BY DEF Accounted, PaidWalks, Walks, WalkTypes
<1>1. n \in DOMAIN g.nodes /\ t \in DOMAIN g.nodes /\ <<n, t>> \in EdgePairs(g)
      /\ g.edges[i].kind \in {"normal", "repeat"}
  BY <1>0, EdgeTyped
<1>2. t \in Reached(g, st)
  BY <1>0, BehindReached
<1>3. Guarded(g) /\ Lands(g, t) => Approved(g, st)
  BY <1>0, BehindApproved
<1>4. st.nodes[n].seq \in Nat /\ st.nodes[t].seq \in Nat
  BY <1>0, <1>1 DEF States, NodeStates
<1>k. /\ g.edges[i].kind = "normal" => t \notin path /\ Behind(g, path \cup {t}, t)
      /\ g.edges[i].kind = "repeat" => t \in path
  BY <1>0, BehindOn, BehindBack
<1>o. PICK o \in g.edges[i].outs : Told(g, st, n, o)
  BY DEF Followed
<1>5. ~Stale(st, n, t) => Expand(g, st, proved, t, path, w) \in PaidWalks(g, st)
  <2> HAVE ~Stale(st, n, t)
  <2>1. Guarded(g) /\ IsGate(g, t) /\ Finished(st, t) => Since(g, st, t)
    BY <1>0, BehindSince
  <2>2. Entered(g, st, t)
    BY <1>2, <1>3, <2>1 DEF Entered
  <2>3. t \notin path =>
           /\ Behind(g, path \cup {t}, t)
           /\ \E j \in DOMAIN g.edges : /\ g.edges[j].kind = "normal" /\ g.edges[j].dst = t
                                        /\ \E out : Told(g, st, g.edges[j].src, out)
    BY <1>1, <1>k, <1>o
  <2> HIDE DEF t, n
  <2> QED BY <1>1, <2>2, <2>3, ExpandPaid
<1>6. CASE Passed(st, n, t)
  <2>1. ~Stale(st, n, t)
    BY <1>4, <1>6 DEF Passed, Stale
  <2> QED BY <1>5, <1>6, <2>1 DEF Along
<1>7. CASE ~Passed(st, n, t) /\ back
  <2>0. g.edges[i].kind = "repeat"
    BY <1>1, <1>7, <1>k
  <2>1. Returns(g) => Idle(st, t)
    BY <1>0, <2>0, BehindIdle
  <2>2. ~IsGate(g, t) => Candidate(g, st, t)
    BY <1>3, <2>1 DEF Candidate
  <2>3. Spent(g, <<n, t>>, t, w) \in PaidWalks(g, st)
    BY <2>0, <2>2, SpentPaid
  <2> QED BY <1>7, <2>3 DEF Along
<1>8. CASE ~Passed(st, n, t) /\ ~back /\ Stale(st, n, t)
  <2>0. g.edges[i].kind = "normal"
    BY <1>1, <1>8
  <2>1. Idle(st, t)
    BY <1>8 DEF Stale, Finished, Idle
  <2>2. ~IsGate(g, t) => Candidate(g, st, t)
    BY <1>3, <2>1 DEF Candidate
  <2>3. ~IsGate(g, t) => Owed(g, st, w.repeats, t)
    BY <1>0, <1>8, <1>o, <2>0, StaleOwed DEF PaidWalks
  <2>4. Due(g, t, w) \in PaidWalks(g, st)
    BY <1>1, <2>2, <2>3, DuePaid
  <2> QED BY <1>8, <2>4 DEF Along
<1>9. CASE ~Passed(st, n, t) /\ ~back /\ ~Stale(st, n, t)
  BY <1>5, <1>9 DEF Along
<1> QED BY <1>6, <1>7, <1>8, <1>9

LEMMA AdvancePaid ==
  ASSUME NEW g, NEW st, Accounted(g, st), NEW proved, NEW w \in PaidWalks(g, st)
  PROVE  Advance(g, st, proved, w) \in PaidWalks(g, st)
<1>0. IsGraph(g) /\ w \in Walks(g, st) /\ w \in WalkTypes(g) /\ w.todo \in Seq(Pending(g))
  BY DEF Accounted, PaidWalks, Walks, WalkTypes
<1>1. CASE w.todo = <<>>
  BY <1>1 DEF Advance
<1>2. CASE w.todo # <<>>
  <2> DEFINE top == w.todo[1]
             i == Min(top.edges)
             rest == IF top.edges = {i} THEN Tail(w.todo)
                     ELSE [w.todo EXCEPT ![1].edges = @ \ {i}]
             v == [w EXCEPT !.todo = rest]
             Fine(item) == /\ PendingSound(g, st, item)
                           /\ \A e \in item.edges : Behind(g, item.path, g.edges[e].src)
  <2>1. \A k \in DOMAIN w.todo : Fine(w.todo[k])
    BY <1>0 DEF PaidWalks, Walks
  <2>2. /\ Tail(w.todo) \in Seq(Pending(g)) /\ 1 \in DOMAIN w.todo
        /\ \A k \in DOMAIN Tail(w.todo) : k + 1 \in DOMAIN w.todo /\ Tail(w.todo)[k] = w.todo[k + 1]
    BY <1>0, <1>2, Behead
  <2>3. top \in Pending(g) /\ Fine(top)
    BY <1>0, <2>1, <2>2
  <2>4. /\ top.edges # {} /\ top.edges \subseteq DOMAIN g.edges /\ top.path \in SUBSET (DOMAIN g.nodes)
        /\ \A m \in top.path : Idle(st, m)
    BY <2>3 DEF Pending, PendingSound
  <2>5. i \in top.edges
    <3>1. top.edges \subseteq Nat
      BY <1>0, <2>4, EdgeTyped
    <3> HIDE DEF top
    <3>2. \E x \in top.edges : \A y \in top.edges : x <= y
      BY <2>4, <3>1, LeastNumber
    <3> QED BY <3>2 DEF Min
  <2> HIDE DEF i
  <2>6. Followed(g, st, i) /\ Behind(g, top.path, g.edges[i].src)
    BY <2>3, <2>5 DEF PendingSound
  <2>7. /\ rest \in Seq(Pending(g))
        /\ \A k \in DOMAIN rest : Fine(rest[k])
    <3>1. CASE top.edges = {i}
      <4>1. rest = Tail(w.todo)
        BY <3>1
      <4> HIDE DEF rest, top, v, Fine
      <4> QED BY <2>1, <2>2, <4>1
    <3>2. CASE top.edges # {i}
      <4> DEFINE less == [top EXCEPT !.edges = @ \ {i}]
      <4>1. less \in Pending(g) /\ less.edges = top.edges \ {i} /\ less.path = top.path
        BY <2>3 DEF Pending
      <4>2. Fine(less)
        <5>1. top.edges \ {i} # {}
          BY <2>5, <3>2
        <5> HIDE DEF less
        <5> QED BY <2>3, <4>1, <5>1 DEF PendingSound
      <4>3. rest = [w.todo EXCEPT ![1] = less]
        BY <3>2
      <4> HIDE DEF less, rest, top, Fine
      <4>4. rest \in Seq(Pending(g)) /\ DOMAIN rest = DOMAIN w.todo
            /\ \A k \in DOMAIN rest : rest[k] = IF k = 1 THEN less ELSE w.todo[k]
        BY <1>0, <2>2, <4>1, <4>3
      <4> QED BY <2>1, <4>2, <4>4
    <3> QED BY <3>1, <3>2
  <2> HIDE DEF rest
  <2>8. /\ v \in WalkTypes(g) /\ v.todo = rest /\ v.settled = w.settled /\ v.frontier = w.frontier
        /\ v.repeats = w.repeats
    BY <1>0, <2>7 DEF WalkTypes
  <2> HIDE DEF v
  <2>9. v \in Walks(g, st)
    BY <1>0, <2>7, <2>8 DEF Walks
  <2>10. v \in PaidWalks(g, st)
    BY <2>7, <2>8, <2>9 DEF PaidWalks
  <2>11. Along(g, st, proved, g.edges[i], top.path, v) \in PaidWalks(g, st)
    BY <2>4, <2>5, <2>6, <2>10, AlongPaid
  <2> QED BY <1>2, <2>11 DEF Advance, v, rest, i
<1> QED BY <1>1, <1>2

LEMMA SetoutPaid ==
  ASSUME NEW g, NEW st, Accounted(g, st), NEW proved
  PROVE  Expand(g, st, proved, g.entry, {}, Setout(g, st)) \in PaidWalks(g, st)
<1> DEFINE w == Setout(g, st)
<1>0. IsGraph(g) /\ st \in States(g) /\ st.repeats \in Budgets(g) /\ g.entry \in DOMAIN g.nodes
  BY DEF Accounted, States, IsGraph
<1>1. /\ w \in WalkTypes(g) /\ w.todo = <<>> /\ w.frontier["candidate"] = <<>> /\ w.repeats = st.repeats
      /\ \A n \in DOMAIN g.nodes : w.settled[n] = NoOutcome
  BY <1>0 DEF Setout, WalkTypes, Kinds, Results
<1> HIDE DEF w
<1>2. w \in Walks(g, st)
  BY <1>1 DEF Walks
<1>3. \A p \in EdgePairs(g) : st.repeats[p] <= w.repeats[p]
  BY <1>0, <1>1 DEF Budgets
<1>4. w \in PaidWalks(g, st)
  BY <1>1, <1>2, <1>3 DEF PaidWalks
<1>5. Entered(g, st, g.entry)
  <2>1. g.entry \in Reached(g, st)
    BY <1>0 DEF Reached, Closed
  <2> QED BY <2>1 DEF Entered, Guarded
<1>6. Behind(g, {} \cup {g.entry}, g.entry)
  <2>1. {} \cup {g.entry} = {g.entry}
    OBVIOUS
  <2> QED BY <1>0, <2>1, BehindEntry
<1>7. \A m \in {} : Idle(st, m)
  OBVIOUS
<1>8. {} \in SUBSET (DOMAIN g.nodes)
  OBVIOUS
<1> QED BY <1>0, <1>4, <1>5, <1>6, <1>7, <1>8, ExpandPaid DEF w

LEMMA EvaluatePaid ==
  ASSUME NEW g, NEW st, Accounted(g, st), NEW proved
  PROVE  LET v == Evaluate(g, st, proved) IN
         /\ v.repeats \in Budgets(g) /\ \A p \in EdgePairs(g) : st.repeats[p] <= v.repeats[p]
         /\ v.status = "actionable" => \A i \in DOMAIN v.nodes : Owed(g, st, v.repeats, v.nodes[i])
<1> DEFINE walk == Walk(g, st, proved)
           nodes == walk.frontier["candidate"]
           v == Evaluate(g, st, proved)
<1>0. IsGraph(g) /\ st \in States(g) /\ st.repeats \in Budgets(g)
  BY DEF Accounted, States
<1>1. walk \in PaidWalks(g, st)
  <2> HIDE DEF walk
  <2> QED BY SetoutPaid, AdvancePaid, WalkWithin DEF walk
<1>2. v.repeats \in Budgets(g)
  BY <1>0, EvaluateSound
<1>3. /\ v.repeats \in {walk.repeats, st.repeats}
      /\ v.status = "actionable" => v.nodes = nodes /\ v.repeats = walk.repeats
  BY DEF Evaluate, Verdict
<1> HIDE DEF walk, v
<1>4. /\ \A p \in EdgePairs(g) : st.repeats[p] <= walk.repeats[p]
      /\ \A i \in DOMAIN nodes : Owed(g, st, walk.repeats, nodes[i])
  BY <1>1 DEF PaidWalks
<1>5. \A p \in EdgePairs(g) : st.repeats[p] <= st.repeats[p]
  BY <1>0 DEF Budgets
<1> HIDE DEF nodes
<1> QED BY <1>2, <1>3, <1>4, <1>5 DEF v

-----------------------------------------------------------------------------
(* The actions.                                                            *)
LEMMA OffPaid == \A g, l : ProcPaid(g, l, Off)
BY DEF ProcPaid, Off, Apart

\* A process that begins nothing and has not looked for its place in the log.
LEMMA QuietPaid ==
  ASSUME NEW g, NEW l, NEW r, r.seq = 0, r.pc # "routed", \A i \in DOMAIN r.rows : ~Begins(r.rows[i])
  PROVE  ProcPaid(g, l, r)
BY DEF ProcPaid, Apart

LEMMA PaidKept ==
  ASSUME Base, Paid, UNCHANGED <<graph, log>>, NEW p \in Processes,
         \A q \in Processes \ {p} : proc'[q] = proc[q], ProcPaid(graph, log, proc'[p]),
         proc[p].pc # "off" \/ proc'[p] = Off \/ \A q \in Processes : proc[q].pc = "off"
  PROVE  Paid'
<1>1. \A q \in Processes : ProcPaid(graph, log, proc'[q])
  BY DEF Paid
<1>2. Off.pc = "off"
  BY DEF Off
<1>3. Lone'
  BY <1>2 DEF Paid, Lone
<1> QED BY <1>1, <1>3 DEF Paid

LEMMA SamePaid ==
  ASSUME Paid, UNCHANGED <<graph, log, proc>>
  PROVE  Paid'
BY DEF Paid, Lone

LEMMA QuietStep ==
  ASSUME Base, Paid, UNCHANGED <<graph, log>>, NEW p \in Processes,
         \A q \in Processes \ {p} : proc'[q] = proc[q],
         proc[p].pc # "off" \/ \A q \in Processes : proc[q].pc = "off",
         proc'[p].seq = 0, proc'[p].pc # "routed", \A i \in DOMAIN proc'[p].rows : ~Begins(proc'[p].rows[i])
  PROVE  Paid'
BY QuietPaid, PaidKept

LEMMA OffStep ==
  ASSUME Base, Paid, UNCHANGED <<graph, log>>, NEW p \in Processes,
         \A q \in Processes \ {p} : proc'[q] = proc[q], proc'[p] = Off
  PROVE  Paid'
BY OffPaid, PaidKept

\* Nothing to append, so no place for it.
LEMMA Unplaced ==
  ASSUME Base, NEW p \in Processes, proc[p].rows = <<>>
  PROVE  proc[p].seq = 0
BY DEF Base, ProcTyped

LEMMA PreparePaid ==
  ASSUME Base, Paid, NEW p \in Processes, Prepare(p)
  PROVE  Paid'
<1> DEFINE o == proc[p]
           r == [o EXCEPT !.seq = log.seq + 1]
<1>1. /\ UNCHANGED <<graph, log>> /\ o.rows # <<>>
      /\ \/ End(p, "crashed")
         \/ Become(p, r) /\ o.rows[1].key \notin log.keys
  BY DEF Prepare, Seen
<1>2. DOMAIN proc = Processes /\ ProcTyped(graph, o) /\ ProcPaid(graph, log, o)
  BY DEF Base, Paid
<1>3. o.pc # "off"
  BY <1>1, <1>2 DEF ProcTyped, Off
<1>4. CASE End(p, "crashed")
  BY <1>1, <1>2, <1>4, OffStep DEF End, Become
<1>5. CASE Become(p, r) /\ o.rows[1].key \notin log.keys
  <2>1. proc'[p] = r /\ \A q \in Processes \ {p} : proc'[q] = proc[q]
    BY <1>2, <1>5 DEF Become
  <2>2. r.seq = log.seq + 1 /\ r.rows = o.rows /\ r.pc = o.pc /\ r.route = o.route
    BY <1>2 DEF ProcTyped, Fields
  <2> HIDE DEF r, o
  <2>3. ProcPaid(graph, log, r)
    BY <1>2, <1>5, <2>2 DEF ProcPaid
  <2> QED BY <1>1, <1>3, <2>1, <2>3, PaidKept DEF o
<1> QED BY <1>1, <1>4, <1>5

\* Whoever types a command types it alone.
LEMMA TypedAlone ==
  ASSUME Patient, Contended = {}, NEW p \in Runners, NEW awaited, awaited => ~Running, Typed(p, awaited)
  PROVE  \A q \in Processes : proc[q].pc = "off"
<1>1. proc[Parent].pc = "off" /\ ~Running
  BY DEF Typed
<1> QED BY <1>1 DEF Running, Processes

LEMMA CallsPaid ==
  ASSUME Patient, Contended = {}, Base, Paid, NEW p \in Runners, Run(p) \/ Resume(p)
  PROVE  Paid'
<1>1. UNCHANGED <<graph, log>> /\ p \in Processes
  BY DEF Run, Resume, Processes
<1>2. CASE Run(p)
  <2>1. Unfinished => ~Running
    BY DEF Unfinished
  <2>2. \A q \in Processes : proc[q].pc = "off"
    BY <1>2, <2>1, TypedAlone DEF Run
  <2>3. proc'[p] = [Off EXCEPT !.pc = "loop"] /\ \A q \in Processes \ {p} : proc'[q] = proc[q]
    BY <1>2, RunBase
  <2>4. proc'[p].seq = 0 /\ proc'[p].pc = "loop" /\ proc'[p].rows = <<>>
    BY <2>3 DEF Off
  <2>5. \A q \in Processes \ {p} : proc'[q] = proc[q]
    BY <2>3
  <2> QED BY <1>1, <2>2, <2>4, <2>5, QuietStep
<1>3. CASE Resume(p)
  <2>1. Awaited => ~Running
    BY DEF Awaited, Unfinished
  <2>2. \A q \in Processes : proc[q].pc = "off"
    BY <1>3, <2>1, TypedAlone DEF Resume
  <2>3. /\ proc'[p].pc = "reconcile" /\ proc'[p].rows = <<>> /\ proc'[p].seq = 0
        /\ \A q \in Processes \ {p} : proc'[q] = proc[q]
    BY <1>3, ResumeBase
  <2> QED BY <1>1, <2>2, <2>3, QuietStep
<1> QED BY <1>2, <1>3

LEMMA ReconcilePaid ==
  ASSUME Base, Paid, NEW p \in Runners, Reconcile(p)
  PROVE  Paid'
<1> DEFINE i == proc[p].todo[1]
           v == Reconciled(i)
           row == OutcomeRow(i.node, i.attempt, i.task, v.claimed, v.outcome)
<1>1. UNCHANGED <<graph, log>> /\ p \in Processes /\ proc[p].pc # "off"
  BY DEF Reconcile, Processes, At
<1>2. /\ \A q \in Processes \ {p} : proc'[q] = proc[q]
      /\ proc[p].rows = <<>> /\ proc'[p].pc = "reconcile" /\ proc'[p].seq = proc[p].seq
      /\ proc'[p].rows = <<>> \/ proc'[p].rows = <<row>>
  BY ReconcileBase
<1>3. ~Begins(row)
  BY DEF Begins, OutcomeRow
<1> HIDE DEF row
<1>4. proc'[p].seq = 0
  BY <1>1, <1>2, Unplaced
<1> QED BY <1>1, <1>2, <1>3, <1>4, QuietStep

LEMMA ClosingPaid ==
  ASSUME Base, Paid, UNCHANGED <<graph, log>>, NEW p \in Processes, proc[p].pc # "off",
         \A q \in Processes \ {p} : proc'[q] = proc[q], proc[p].rows = <<>>,
         proc'[p].pc = "closing", proc'[p].seq = proc[p].seq, NEW k, proc'[p].rows = <<FinishRow(k)>>
  PROVE  Paid'
<1>1. ~Begins(FinishRow(k))
  BY DEF Begins, FinishRow
<1>2. proc'[p].seq = 0
  BY Unplaced
<1> QED BY <1>1, <1>2, QuietStep

LEMMA StepPaid ==
  ASSUME Base, Paid, Returns(graph), Branching(graph), NEW p \in Runners, Step(p)
  PROVE  Paid'
<1> DEFINE o == proc[p]
           r == proc'[p]
           v == Evaluate(graph, log.st, Proved(log.st))
           row == RouteRow(log.len + 1, v.repeats)
<1>1. UNCHANGED <<graph, log>> /\ p \in Processes
  BY DEF Step, Processes
<1>2. /\ \A q \in Processes \ {p} : proc'[q] = proc[q]
      /\ o.rows = <<>> /\ o.pc # "off" /\ r.seq = o.seq
      /\ \/ r.pc = "closing" /\ r.rows = <<FinishRow(log.len + 1)>>
         \/ r.pc = "routed" /\ r.route = v /\ r.rows = <<row>>
  BY StepBase
<1>3. Accounted(graph, log.st) /\ log.len + 1 \in Nat
  BY GraphTyped DEF Base, LogTyped, Accounted, Paid
<1>4. v.status = "actionable" => \A i \in DOMAIN v.nodes : Owed(graph, log.st, v.repeats, v.nodes[i])
  BY <1>3, EvaluatePaid
<1>5. o.seq = 0
  BY <1>1, <1>2, Unplaced
<1>6. ~Begins(row)
  BY DEF Begins, RouteRow
<1> HIDE DEF v
<1>7. CASE r.pc = "closing" /\ r.rows = <<FinishRow(log.len + 1)>>
  BY <1>1, <1>2, <1>7, ClosingPaid
<1>8. CASE r.pc = "routed" /\ r.route = v /\ r.rows = <<row>>
  <2> HIDE DEF r, o
  <2>1. r.rows # <<>> /\ r.rows = <<RouteRow(log.len + 1, r.route.repeats)>>
    BY <1>8
  <2> HIDE DEF row
  <2>2. r.seq = 0 /\ \A i \in DOMAIN r.rows : ~Begins(r.rows[i])
    BY <1>2, <1>5, <1>6, <1>8
  <2>3. r.route.status = "actionable" => \A i \in DOMAIN r.route.nodes : Owed(graph, log.st, r.route.repeats, r.route.nodes[i])
    BY <1>4, <1>8
  <2>4. ProcPaid(graph, log, r)
    BY <1>3, <2>1, <2>2, <2>3 DEF ProcPaid, Apart
  <2> QED BY <1>1, <1>2, <2>4, PaidKept DEF r, o
<1> QED BY <1>2, <1>7, <1>8

LEMMA StopPaid ==
  ASSUME Base, Paid, NEW p \in Runners, Stop(p)
  PROVE  Paid'
<1>1. UNCHANGED <<graph, log>> /\ p \in Processes
  BY DEF Stop, Processes
<1>2. /\ \A q \in Processes \ {p} : proc'[q] = proc[q]
      /\ proc[p].rows = <<>> /\ proc[p].pc # "off"
      /\ \/ proc'[p] = Off
         \/ /\ proc'[p].pc = "closing" /\ proc'[p].rows = <<FinishRow(log.len + 1)>>
            /\ proc'[p].seq = proc[p].seq
  BY StopBase
<1> QED BY <1>1, <1>2, OffStep, ClosingPaid

LEMMA PlanPaid ==
  ASSUME Base, Paid, NEW p \in Runners, Plan(p)
  PROVE  Paid'
<1> DEFINE o == proc[p]
           r == proc'[p]
           names == ToSet(o.route.nodes)
<1>1. UNCHANGED <<graph, log>> /\ p \in Processes
  BY DEF Plan, Processes
<1>2. /\ \A q \in Processes \ {p} : proc'[q] = proc[q]
      /\ o.rows = <<>> /\ o.pc = "routed" /\ o.route.status = "actionable"
      /\ r.seq = o.seq /\ Apart(r.rows)
      /\ \/ r.pc = "closing" /\ r.rows = <<FinishRow(log.len + 1)>>
         \/ r.pc = "recorded" /\ Refused(o.snap, names, r.rows)
         \/ r.pc = "started" /\ Waved(o.snap, names, r.rows, r.wave)
  BY PlanBase
<1>3. CASE r.pc = "closing" /\ r.rows = <<FinishRow(log.len + 1)>>
  BY <1>1, <1>2, <1>3, ClosingPaid
<1>4. CASE \/ r.pc = "recorded" /\ Refused(o.snap, names, r.rows)
           \/ r.pc = "started" /\ Waved(o.snap, names, r.rows, r.wave)
  <2>1. ProcPaid(graph, log, o) /\ o.seq = 0
    BY <1>1, <1>2, Unplaced DEF Paid
  <2>2. \A i \in DOMAIN o.route.nodes : Owed(graph, log.st, log.st.repeats, o.route.nodes[i])
    BY <1>2, <2>1 DEF ProcPaid
  <2>3. \A n \in names : Owed(graph, log.st, log.st.repeats, n)
    BY <2>2 DEF ToSet
  <2> HIDE DEF r, o, names
  <2>4. ASSUME NEW i \in DOMAIN r.rows, Begins(r.rows[i]) PROVE r.rows[i].node \in names
    <3>1. \A n, a, t, c, d : /\ StartRow(n, a, t).node = n
                             /\ ~Begins(OutcomeRow(n, a, t, c, d))
      BY DEF StartRow, OutcomeRow, Begins
    <3>2. CASE Refused(o.snap, names, r.rows)
      BY <2>4, <3>1, <3>2 DEF Refused
    <3>3. CASE Waved(o.snap, names, r.rows, r.wave)
      BY <2>4, <3>1, <3>3 DEF Waved
    <3> QED BY <1>4, <3>2, <3>3
  <2>5. ProcPaid(graph, log, r)
    BY <1>2, <1>4, <2>1, <2>3, <2>4 DEF ProcPaid
  <2> QED BY <1>1, <1>2, <2>5, PaidKept DEF r, o
<1> QED BY <1>2, <1>3, <1>4

LEMMA WavePaid ==
  ASSUME Base, Paid, NEW p \in Runners, Launch(p) \/ Leave(p) \/ \E s \in subs : Record(p, s)
  PROVE  Paid'
<1>1. UNCHANGED <<graph, log>> /\ p \in Processes
  BY DEF Launch, Leave, Record, Processes
<1>2. CASE Launch(p)
  <2>1. /\ proc[p].rows = <<>> /\ proc'[p].pc = "wave" /\ proc'[p].rows = <<>>
        /\ \A q \in Processes \ {p} : proc'[q] = proc[q]
    BY <1>2, LaunchBase
  <2>2. proc[p].pc # "off" /\ Base'
    BY <1>2, LaunchBase DEF Launch, At
  <2>3. proc'[p].seq = 0
    BY <1>1, <2>1, <2>2 DEF Base, ProcTyped
  <2> QED BY <1>1, <2>1, <2>2, <2>3, QuietStep
<1>3. CASE Leave(p)
  BY <1>1, <1>3, LeaveBase, OffStep
<1>4. ASSUME NEW s \in subs, Record(p, s) PROVE Paid'
  <2> DEFINE v == IF IsAgent(s.node) THEN s.verdict ELSE ToolOutcome(s.node, s.exit)
             row == OutcomeRow(s.node, s.attempt, s.task, v.claimed, v.outcome)
  <2>1. /\ proc[p].rows = <<>> /\ proc'[p].pc = "wave" /\ proc'[p].rows = <<row>>
        /\ proc'[p].seq = proc[p].seq /\ \A q \in Processes \ {p} : proc'[q] = proc[q]
    BY <1>4, RecordBase
  <2>2. proc[p].pc # "off" /\ ~Begins(row)
    BY <1>4 DEF Record, At, Begins, OutcomeRow
  <2> HIDE DEF row
  <2>3. proc'[p].seq = 0
    BY <1>1, <2>1, Unplaced
  <2> QED BY <1>1, <2>1, <2>2, <2>3, QuietStep
<1> QED BY <1>2, <1>3, <1>4

LEMMA DecidePaid ==
  ASSUME Patient, Base, Paid, NEW n \in DOMAIN graph.nodes, NEW d \in Outcomes, Decide(n, d)
  PROVE  Paid'
<1> DEFINE row == GateRow(n, Tried(log.st, n), d)
<1>1. /\ proc'[Parent].pc = "started" /\ proc'[Parent].rows = <<row>> /\ proc'[Parent].seq = 0
      /\ \A q \in Processes \ {Parent} : proc'[q] = proc[q]
  BY DecideBase
<1>2. UNCHANGED <<graph, log>> /\ Parent \in Processes /\ proc[Parent].pc = "off" /\ ~Running
  BY DEF Decide, Processes
<1>3. \A q \in Processes : proc[q].pc = "off"
  BY <1>2 DEF Running, Processes
<1>4. ~Begins(row)
  BY DEF Begins, GateRow
<1> HIDE DEF row
<1> QED BY <1>1, <1>2, <1>3, <1>4, QuietStep

LEMMA OthersPaid ==
  ASSUME Base, Paid
  PROVE  /\ \A p \in Processes : Crash(p) => Paid'
         /\ Decided => Paid'
         /\ \A s \in subs : Enter(s) \/ Work(s) \/ Land(s) \/ Tool(s) \/ Return(s) \/ Timeout(s) => Paid'
         /\ \A t \in Tasks : Expire(t) \/ Other(t) => Paid'
<1>1. ASSUME NEW p \in Processes, Crash(p) PROVE Paid'
  BY <1>1, CrashBase, OffStep
<1>2. ASSUME Decided PROVE Paid'
  <2>1. UNCHANGED <<graph, log>> /\ Parent \in Processes
    BY <1>2 DEF Decided, Processes
  <2> QED BY <1>2, <2>1, DecidedBase, OffStep
<1>3. ASSUME NEW s \in subs, Enter(s) \/ Work(s) \/ Land(s) \/ Tool(s) \/ Return(s) \/ Timeout(s) PROVE Paid'
  BY <1>3, WorksBase, TimeoutBase, SamePaid
<1>4. ASSUME NEW t \in Tasks, Expire(t) \/ Other(t) PROVE Paid'
  BY <1>4, TasksBase, SamePaid
<1> QED BY <1>1, <1>2, <1>3, <1>4

LEMMA SameOwed ==
  ASSUME NEW g, NEW st, NEW to, to.nodes = st.nodes, NEW b, NEW n
  PROVE  Owed(g, st, b, n) <=> Owed(g, to, b, n)
BY DEF Owed, Busy, Finished

LEMMA OtherPaid ==
  ASSUME NEW g, IsGraph(g), NEW st \in States(g), NEW to \in States(g), to.nodes = st.nodes,
         \A p \in EdgePairs(g) : st.repeats[p] <= to.repeats[p], NEW k \in Nat, LogPaid(g, st, k)
  PROVE  LogPaid(g, to, k + 1)
<1>1. \A n \in DOMAIN g.nodes : /\ Visited(g, st, n) /\ st.nodes[n].seq <= k
                                /\ st.nodes[n].attempts \in Nat /\ st.nodes[n].seq \in Nat
  BY DEF LogPaid, States, NodeStates
<1>2. st.repeats \in Budgets(g) /\ to.repeats \in Budgets(g)
  BY DEF States
<1>3. \A n \in DOMAIN g.nodes : Visited(g, to, n) /\ to.nodes[n].seq <= k + 1
  BY <1>1 DEF Visited
<1>4. ASSUME NEW n \in Doers(g) PROVE NodePaid(g, to, n)
  <2> DEFINE a == st.nodes[n].attempts
             c == Count(g, st.repeats, n)
             d == Count(g, to.repeats, n)
  <2>1. n \in DOMAIN g.nodes /\ a \in Nat /\ NodePaid(g, st, n) /\ to.nodes[n].attempts = a
    BY <1>1 DEF LogPaid, Doers
  <2>2. c \in Nat /\ d \in Nat /\ c <= d
    BY <1>2, CountType, CountGrows
  <2>3. CASE n \in OnceNodes(g)
    BY <2>1, <2>3 DEF NodePaid, Finished
  <2>4. CASE n \notin OnceNodes(g)
    <3>1. /\ Feeders(g, n) = {} => a <= 1 + c
          /\ \A m \in Feeders(g, n) : a + Ahead(st, m, n) <= st.nodes[m].attempts + c
      BY <2>1, <2>4 DEF NodePaid
    <3> HIDE DEF a, c, d
    <3>2. Feeders(g, n) = {} => a <= 1 + d
      BY <2>1, <2>2, <3>1
    <3>3. ASSUME NEW m \in Feeders(g, n) PROVE a + Ahead(to, m, n) <= to.nodes[m].attempts + d
      <4>1. st.nodes[m].attempts \in Nat /\ Ahead(st, m, n) \in Nat
        BY <1>1 DEF Feeders, Ahead
      <4>2. Ahead(to, m, n) = Ahead(st, m, n)
        BY DEF Ahead
      <4>3. a + Ahead(st, m, n) <= st.nodes[m].attempts + c
        BY <3>1
      <4> QED BY <2>1, <2>2, <4>1, <4>2, <4>3
    <3> QED BY <2>1, <2>4, <3>2, <3>3 DEF NodePaid, d
  <2> QED BY <2>3, <2>4
<1> QED BY <1>3, <1>4 DEF LogPaid

\* What is left to append after the first row.
LEMMA RestPaid ==
  ASSUME NEW g, NEW l, NEW o, ProcPaid(g, l, o), NEW S, o.rows \in Seq(S), o.rows # <<>>
  PROVE  LET rest == Tail(o.rows) IN
         /\ Apart(rest)
         /\ \A i \in DOMAIN rest : Begins(rest[i]) =>
              /\ Owed(g, l.st, l.st.repeats, rest[i].node)
              /\ Begins(o.rows[1]) => rest[i].node # o.rows[1].node
<1> DEFINE rest == Tail(o.rows)
<1>1. /\ 1 \in DOMAIN o.rows
      /\ \A i \in DOMAIN rest : i \in Nat \ {0} /\ i + 1 \in DOMAIN o.rows /\ rest[i] = o.rows[i + 1]
  OBVIOUS
<1>2. /\ \A i \in DOMAIN o.rows : Begins(o.rows[i]) => Owed(g, l.st, l.st.repeats, o.rows[i].node)
      /\ Apart(o.rows)
  BY DEF ProcPaid
<1> HIDE DEF rest
<1>3. ASSUME NEW i \in DOMAIN rest, NEW j \in DOMAIN rest, Begins(rest[i]), Begins(rest[j]),
             rest[i].node = rest[j].node
      PROVE  i = j
  <2>1. i + 1 = j + 1
    BY <1>1, <1>2, <1>3 DEF Apart
  <2> QED BY <1>1, <2>1
<1>4. ASSUME NEW i \in DOMAIN rest, Begins(rest[i]), Begins(o.rows[1]) PROVE rest[i].node # o.rows[1].node
  <2>1. i + 1 # 1
    BY <1>1
  <2> QED BY <1>1, <1>2, <1>4, <2>1 DEF Apart
<1> QED BY <1>1, <1>2, <1>3, <1>4 DEF Apart, rest

LEMMA WritePaid ==
  ASSUME Base, Ordered, Paid, Branching(graph), NEW p \in Processes, Write(p)
  PROVE  Paid'
<1> DEFINE o == proc[p]
           rows == o.rows
           rest == Tail(rows)
           r == rows[1]
           st == log.st
           to == log'.st
           k == log.seq
           new == [o EXCEPT !.rows = Tail(@), !.seq = 0]
<1>1. /\ rows \in Seq(Rows(graph)) /\ rows # <<>> /\ r \in Rows(graph) /\ o.seq \in Nat \ {0} /\ o.pc # "off"
      /\ proc'[p] = new /\ \A q \in Processes \ {p} : proc'[q] = proc[q]
  BY WriteBase
<1>2. /\ UNCHANGED graph /\ IsGraph(graph) /\ LogTyped(graph, log) /\ st \in States(graph) /\ IsFiniteSet(st.tries)
      /\ k \in Nat /\ st.repeats \in Budgets(graph)
  BY GraphTyped DEF Write, Base, LogTyped, States
<1>3. ProcPaid(graph, log, o) /\ LogPaid(graph, st, k) /\ ProcTyped(graph, o)
  BY DEF Paid, Base
<1>4. o.seq = k + 1 /\ r.key \notin log.keys
  BY <1>1, <1>3 DEF ProcPaid
<1>5. log'.seq = k + 1 /\ to = Project(st, r, k + 1)
  BY <1>4, AppendedIs DEF Write
<1>6. RowOrdered(log.keys, rows, 1) /\ LogOrdered(graph, log)
  BY WriteOrdered
<1>7. /\ Apart(rest)
      /\ \A i \in DOMAIN rest : Begins(rest[i]) =>
              /\ Owed(graph, st, st.repeats, rest[i].node)
              /\ Begins(r) => rest[i].node # r.node
  BY <1>1, <1>3, RestPaid
<1>8. new.rows = rest /\ new.seq = 0 /\ new.pc = o.pc /\ new.route = o.route
  BY <1>3 DEF ProcTyped, Fields
<1>9. /\ Begins(r) => Owed(graph, st, st.repeats, r.node)
      /\ o.pc = "routed" /\ o.route.status = "actionable" =>
           /\ \E j \in Nat : rows = <<RouteRow(j, o.route.repeats)>>
           /\ \A i \in DOMAIN o.route.nodes : Owed(graph, st, o.route.repeats, o.route.nodes[i])
  <2>1. 1 \in DOMAIN rows
    BY <1>1
  <2> HIDE DEF o
  <2> QED BY <1>1, <1>3, <2>1 DEF ProcPaid
<1>10. ASSUME o.pc = "routed", o.route.status = "actionable"
       PROVE  r.event = "route_evaluated" /\ r.repeats = o.route.repeats /\ rest = <<>>
  <2>1. PICK j \in Nat : rows = <<RouteRow(j, o.route.repeats)>>
    BY <1>9, <1>10
  <2>2. r = RouteRow(j, o.route.repeats) /\ rest = <<>>
    BY <2>1
  <2> HIDE DEF r
  <2> QED BY <2>2 DEF RouteRow
<1> HIDE DEF o, rows, rest, r, st, to, k, new
<1>11. ASSUME LogPaid(graph, to, k + 1), ProcPaid(graph, log', new) PROVE Paid'
  <2>1. \A q \in Processes \ {p} : proc[q].pc = "off"
    BY <1>1 DEF Paid, Lone, o
  <2>2. \A q \in Processes \ {p} : proc'[q] = Off
    BY <1>1, <2>1 DEF Base, ProcTyped
  <2>3. \A q \in Processes : ProcPaid(graph, log', proc'[q])
    BY <1>1, <1>11, <2>2, OffPaid
  <2>4. Off.pc = "off"
    BY DEF Off
  <2>5. Lone'
    BY <2>2, <2>4 DEF Lone
  <2> QED BY <1>2, <1>5, <1>11, <2>3, <2>5 DEF Paid, to
<1>12. ASSUME LogPaid(graph, to, k + 1), to \in States(graph),
              \A i \in DOMAIN rest : Begins(rest[i]) => Owed(graph, to, to.repeats, rest[i].node),
              o.pc = "routed" /\ o.route.status = "actionable" =>
                 \A i \in DOMAIN o.route.nodes : Owed(graph, to, to.repeats, o.route.nodes[i])
       PROVE  Paid'
  <2>1. ASSUME new.pc = "routed", new.route.status = "actionable"
        PROVE  /\ new.rows = <<>>
               /\ \A i \in DOMAIN new.route.nodes :
                    Owed(graph, log'.st, IF new.rows = <<>> THEN log'.st.repeats ELSE new.route.repeats, new.route.nodes[i])
    BY <1>8, <1>10, <1>12, <2>1 DEF to
  <2>2. ProcPaid(graph, log', new)
    BY <1>7, <1>8, <1>12, <2>1 DEF ProcPaid, to
  <2> QED BY <1>11, <1>12, <2>2
<1>13. CASE Other1(graph, r)
  <2>0. k + 1 \in Nat
    BY <1>2
  <2>1a. to \in States(graph) /\ to.nodes = st.nodes
    BY <1>2, <1>5, <1>13, <2>0, FoldsOther
  <2>1. to \in States(graph) /\ to.nodes = st.nodes /\ to.repeats \in Budgets(graph)
    BY <2>1a DEF States
  <2>2. /\ \A q \in EdgePairs(graph) : st.repeats[q] <= to.repeats[q]
        /\ r.event = "route_evaluated" => \A q \in EdgePairs(graph) : r.repeats[q] <= to.repeats[q]
    BY <1>2, <1>5, <1>13, OtherRowSpends
  <2>3. LogPaid(graph, to, k + 1)
    BY <1>2, <1>3, <2>1, <2>2, OtherPaid
  <2>4. ASSUME NEW i \in DOMAIN rest, Begins(rest[i]) PROVE Owed(graph, to, to.repeats, rest[i].node)
    <3>1. Owed(graph, to, st.repeats, rest[i].node)
      BY <1>7, <2>1, <2>4, SameOwed
    <3> QED BY <1>2, <2>1, <2>2, <3>1, OwedMore
  <2>5. ASSUME o.pc = "routed", o.route.status = "actionable", NEW i \in DOMAIN o.route.nodes
        PROVE  Owed(graph, to, to.repeats, o.route.nodes[i])
    <3>1. r.event = "route_evaluated" /\ r.repeats = o.route.repeats
      BY <1>10, <2>5
    <3>2. r.repeats \in Budgets(graph)
      BY <1>13, <3>1 DEF Other1
    <3>3. Owed(graph, to, r.repeats, o.route.nodes[i])
      BY <1>9, <2>1, <2>5, <3>1, SameOwed
    <3> QED BY <1>2, <2>1, <2>2, <3>1, <3>2, <3>3, OwedMore
  <2> QED BY <1>12, <2>1, <2>3, <2>4, <2>5
<1>14. CASE Started(graph, r) \/ Ended(graph, r) \/ Gated1(graph, r)
  <2>1. k + 1 \in Nat
    BY <1>2
  <2>2. Folded(st, to, r, k + 1)
    BY <1>2, <1>5, <1>14, <2>1, FoldsNode
  <2>3. to.repeats = st.repeats
    BY <1>2, <1>5, <1>14, NodeRowSpendsNothing
  <2>4. LET s == log.st.nodes[r.node] IN
         /\ Started(graph, r) => r.attempt = s.attempts + 1
         /\ Ended(graph, r) => r.attempt = s.attempts /\ s.status = "active"
         /\ Gated1(graph, r) => r.attempt = s.attempts + 1
    BY <1>1, <1>4, <1>6, Fresh DEF r
  <2>5. Started(graph, r) => Begins(r)
    BY DEF Started, Begins
  <2>6. Turns(graph, st, r)
    BY <1>9, <1>14, <2>4, <2>5 DEF Turns, st
  <2>7. LogPaid(graph, to, k + 1)
    BY <1>2, <1>3, <2>2, <2>3, <2>6, FoldPaid
  <2>8. ASSUME NEW i \in DOMAIN rest, Begins(rest[i]) PROVE Owed(graph, to, to.repeats, rest[i].node)
    <3>1. Owed(graph, st, st.repeats, rest[i].node) /\ (Started(graph, r) => rest[i].node # r.node)
      BY <1>7, <2>5, <2>8
    <3> QED BY <1>2, <1>3, <2>2, <2>3, <2>6, <3>1, FoldOwed
  <2>9. ~(o.pc = "routed" /\ o.route.status = "actionable")
    BY <1>10, <1>14 DEF Started, Ended, Gated1
  <2>10. to \in States(graph)
    BY <2>2 DEF Folded
  <2> QED BY <1>12, <2>7, <2>8, <2>9, <2>10
<1> QED BY <1>1, <1>13, <1>14, RowKinds

LEMMA PaidStep ==
  ASSUME Patient, Contended = {}, Base, Ordered, Paid, Returns(graph), Branching(graph), [Next]_vars
  PROVE  Paid'
<1>1. CASE UNCHANGED vars
  BY <1>1, SamePaid DEF vars
<1>2. CASE Next
  BY <1>2, NextCases, PreparePaid, WritePaid, CallsPaid, ReconcilePaid, StepPaid, StopPaid, PlanPaid,
     WavePaid, DecidePaid, OthersPaid
<1> QED BY <1>1, <1>2

LEMMA InitPaid ==
  ASSUME Init, Branching(graph)
  PROVE  Paid
<1>1. /\ proc = [p \in Processes |-> Off] /\ log.seq = 1 /\ log.st.repeats = Unspent(graph)
      /\ log.st.nodes = [n \in DOMAIN graph.nodes |-> Unvisited]
  BY DEF Init, Processes
<1>2. Base /\ IsGraph(graph) /\ log.st \in States(graph)
  BY InitBase, GraphTyped DEF Base, LogTyped
<1>3. \A n \in DOMAIN graph.nodes :
        log.st.nodes[n].status = "pending" /\ log.st.nodes[n].attempts = 0 /\ log.st.nodes[n].seq = 0
  BY <1>1 DEF Unvisited
<1>4. \A n \in DOMAIN graph.nodes : Visited(graph, log.st, n) /\ log.st.nodes[n].seq <= log.seq
  BY <1>1, <1>3 DEF Visited
<1>5. ASSUME NEW n \in Doers(graph) PROVE NodePaid(graph, log.st, n)
  <2>1. Count(graph, log.st.repeats, n) \in Nat
    BY <1>2, CountType DEF States
  <2>2. \A m \in Feeders(graph, n) : log.st.nodes[m].attempts = 0 /\ Ahead(log.st, m, n) = 0
    BY <1>3 DEF Feeders, Ahead, Doers
  <2>3. log.st.nodes[n].attempts = 0
    BY <1>3 DEF Doers
  <2> QED BY <2>1, <2>2, <2>3 DEF NodePaid
<1>6. LogPaid(graph, log.st, log.seq)
  BY <1>4, <1>5 DEF LogPaid
<1>7. Lone /\ \A p \in Processes : ProcPaid(graph, log, proc[p])
  BY <1>1, OffPaid DEF Lone, Off
<1> QED BY <1>6, <1>7 DEF Paid

-----------------------------------------------------------------------------
(* What was paid for.                                                      *)
LEMMA GateCounted ==
  ASSUME NEW g, IsGraph(g), NEW st \in States(g)
  PROVE  /\ Cardinality(Decisions(g, st)) \in Nat
         /\ \A m \in Gates(g) : st.nodes[m].attempts <= Cardinality(Decisions(g, st))
<1> DEFINE h == [n \in DOMAIN g.nodes |-> st.nodes[n].attempts]
<1>1. Gates(g) \subseteq DOMAIN g.nodes /\ IsFiniteSet(Gates(g))
  BY FS_Subset DEF IsGraph, Gates
<1>2. \A n \in Gates(g) : h[n] = st.nodes[n].attempts /\ h[n] \in Nat
  BY <1>1 DEF States, NodeStates
<1> HIDE DEF h
<1>3. Decisions(g, st) = Pile(Gates(g), h)
  BY <1>2 DEF Decisions, Pile, Gates
<1>4. Cardinality(Decisions(g, st)) \in Nat
  BY <1>1, <1>2, <1>3, PileFinite
<1>5. ASSUME NEW m \in Gates(g) PROVE st.nodes[m].attempts <= Cardinality(Decisions(g, st))
  <2>1. Cardinality(Pile({m}, h)) <= Cardinality(Pile(Gates(g), h))
    <3>1. \A n \in {m} : h[n] \in Nat /\ h[n] <= h[n]
      BY <1>2
    <3> QED BY <1>1, <1>2, <3>1, PileGrows
  <2>2. Pile({m}, h) = {m} \X (1 .. h[m])
    BY DEF Pile
  <2>3. IsFiniteSet({m}) /\ Cardinality({m}) = 1
    BY FS_Singleton
  <2>4. IsFiniteSet(1 .. h[m]) /\ Cardinality(1 .. h[m]) = h[m]
    <3>1. 1 \in Int /\ h[m] \in Int /\ h[m] \in Nat
      BY <1>2
    <3>2. IsFiniteSet(1 .. h[m]) /\ Cardinality(1 .. h[m]) = IF 1 > h[m] THEN 0 ELSE h[m] - 1 + 1
      BY <3>1, FS_Interval
    <3> QED BY <3>1, <3>2
  <2>5. Cardinality({m} \X (1 .. h[m])) = Cardinality({m}) * Cardinality(1 .. h[m])
    BY <2>3, <2>4, FS_Product
  <2>6. Cardinality({m} \X (1 .. h[m])) = h[m]
    BY <1>2, <2>3, <2>4, <2>5
  <2> QED BY <1>2, <1>3, <2>1, <2>2, <2>6
<1> QED BY <1>4, <1>5

\* The repeats that go back into S, and the sets that lie before a node.
Into(g, S) == {p \in EdgePairs(g) : p[2] \in S}
Before(g, S, n) ==
  S \subseteq DOMAIN g.nodes /\ Upward(g, S) /\ n \notin S /\ \A m \in DOMAIN g.nodes : Feeds(g, m, n) => m \in S

LEMMA BeforeLess ==
  ASSUME NEW g, IsGraph(g), Branching(g), NEW S, NEW n, Before(g, S, n), NEW m \in DOMAIN g.nodes, Feeds(g, m, n)
  PROVE  \E T : /\ Before(g, T, m) /\ T \cup {m} \subseteq S /\ m \notin T
                /\ Cardinality(T) < Cardinality(S)
<1>1. PICK U \in SUBSET (DOMAIN g.nodes) : m \notin U /\ Upward(g, U) /\ \A l \in DOMAIN g.nodes : Feeds(g, l, m) => l \in U
  BY DEF Branching
<1> DEFINE T == S \cap U
<1>2. m \in S
  BY DEF Before
<1>3. \A l \in DOMAIN g.nodes : Feeds(g, l, m) => l \in S
  BY <1>2 DEF Before, Upward, Feeds
<1>4. Upward(g, T)
  BY <1>1 DEF Before, Upward
<1>5. Before(g, T, m)
  BY <1>1, <1>3, <1>4 DEF Before
<1>6. IsFiniteSet(S)
  BY FS_Subset DEF Before, IsGraph
<1>7. T \subseteq S /\ m \notin T /\ T # S
  BY <1>1, <1>2
<1> HIDE DEF T
<1>8. Cardinality(T) <= Cardinality(S) /\ Cardinality(T) # Cardinality(S)
  BY <1>6, <1>7, FS_Subset
<1>9. Cardinality(T) \in Nat /\ Cardinality(S) \in Nat
  BY <1>6, <1>7, FS_Subset, FS_CardinalityType
<1> QED BY <1>2, <1>5, <1>7, <1>8, <1>9

\* One node, given those before it.
LEMMA NodeCounted ==
  ASSUME NEW g, IsGraph(g), Branching(g), NEW st \in States(g), NEW k \in Nat, LogPaid(g, st, k),
         NEW n \in Doers(g), NEW S, Before(g, S, n),
         \A m \in Doers(g) : \A T : Before(g, T, m) /\ Cardinality(T) < Cardinality(S) =>
           st.nodes[m].attempts <= 1 + Cardinality(Pile(Into(g, T \cup {m}), st.repeats))
                                     + Cardinality(Decisions(g, st))
  PROVE  st.nodes[n].attempts <= 1 + Cardinality(Pile(Into(g, S \cup {n}), st.repeats))
                                   + Cardinality(Decisions(g, st))
<1> DEFINE a == st.nodes[n].attempts
           c == Count(g, st.repeats, n)
           w == Cardinality(Pile(Into(g, S \cup {n}), st.repeats))
           d == Cardinality(Decisions(g, st))
<1>1. st.repeats \in Budgets(g) /\ \A p \in EdgePairs(g) : st.repeats[p] \in Nat
  BY DEF States, Budgets
<1>2. n \in DOMAIN g.nodes /\ a \in Nat /\ c \in Nat /\ NodePaid(g, st, n)
  BY <1>1, CountType DEF Doers, States, NodeStates, LogPaid
<1>3. d \in Nat /\ \A m \in Gates(g) : st.nodes[m].attempts <= d
  BY GateCounted
<1>4. IsFiniteSet(EdgePairs(g)) /\ \A T : Into(g, T) \subseteq EdgePairs(g) /\ IsFiniteSet(Into(g, T))
  <2>1. IsFiniteSet(EdgePairs(g)) /\ \A T : Into(g, T) \subseteq EdgePairs(g)
    BY EdgesFinite DEF Into
  <2> QED BY <2>1, FS_Subset
<1>5. \A T : T \subseteq EdgePairs(g) => \A p \in T : st.repeats[p] \in Nat /\ st.repeats[p] <= st.repeats[p]
  BY <1>1
<1>6. w \in Nat
  <2>1. \A p \in Into(g, S \cup {n}) : st.repeats[p] \in Nat
    BY <1>1, <1>4
  <2> QED BY <1>4, <2>1, PileFinite
<1>7. ASSUME NEW T, T \subseteq S
      PROVE  c + Cardinality(Pile(Into(g, T), st.repeats)) <= w /\ Cardinality(Pile(Into(g, T), st.repeats)) \in Nat
  <2> DEFINE P == Back(g, n)
             Q == Into(g, T)
             R == Into(g, S \cup {n})
  <2>1. P \cap Q = {} /\ P \cup Q \subseteq R
    BY <1>7 DEF Back, Into, Before
  <2>2. P \subseteq EdgePairs(g) /\ Q \subseteq EdgePairs(g) /\ R \subseteq EdgePairs(g)
        /\ IsFiniteSet(P) /\ IsFiniteSet(Q) /\ IsFiniteSet(R)
    BY <1>4, EdgesFinite
  <2> HIDE DEF P, Q, R
  <2>3. /\ \A p \in P \cup Q : st.repeats[p] \in Nat /\ st.repeats[p] <= st.repeats[p]
        /\ \A p \in R : st.repeats[p] \in Nat
        /\ \A p \in Q : st.repeats[p] \in Nat
    BY <1>1, <2>2
  <2>4. Cardinality(Pile(P \cup Q, st.repeats)) = Cardinality(Pile(P, st.repeats)) + Cardinality(Pile(Q, st.repeats))
    BY <2>1, <2>2, <2>3, PilesApart
  <2>5. Cardinality(Pile(P \cup Q, st.repeats)) <= Cardinality(Pile(R, st.repeats))
    BY <2>1, <2>2, <2>3, PileGrows
  <2>6. Cardinality(Pile(Q, st.repeats)) \in Nat
    BY <2>2, <2>3, PileFinite
  <2> QED BY <2>4, <2>5, <2>6 DEF P, Q, R, Count
<1> HIDE DEF c, w, d
<1>8. c <= w
  BY <1>2, <1>6, <1>7
<1>9. CASE n \in OnceNodes(g)
  <2>1. a <= 1
    BY <1>2, <1>9 DEF NodePaid
  <2> HIDE DEF a
  <2> QED BY <1>2, <1>3, <1>6, <2>1 DEF a, w, d
<1>10. CASE n \notin OnceNodes(g) /\ Feeders(g, n) = {}
  <2>1. a <= 1 + c
    BY <1>2, <1>10 DEF NodePaid, c
  <2> HIDE DEF a
  <2> QED BY <1>2, <1>3, <1>6, <1>8, <2>1 DEF a, w, d
<1>11. CASE n \notin OnceNodes(g) /\ Feeders(g, n) # {}
  <2>1. PICK m \in Feeders(g, n) : TRUE
    BY <1>11
  <2> DEFINE b == st.nodes[m].attempts
  <2>2. m \in DOMAIN g.nodes /\ Feeds(g, m, n) /\ g.nodes[m].kind # "router" /\ b \in Nat
    BY DEF Feeders, States, NodeStates
  <2>3. Ahead(st, m, n) \in Nat /\ a + Ahead(st, m, n) <= b + c
    BY <1>2, <1>11 DEF NodePaid, Ahead, c
  <2>4. a <= b + c
    BY <1>2, <2>2, <2>3
  <2>5. PICK T : Before(g, T, m) /\ T \cup {m} \subseteq S /\ Cardinality(T) < Cardinality(S)
    BY <2>2, BeforeLess
  <2> DEFINE x == Cardinality(Pile(Into(g, T \cup {m}), st.repeats))
  <2>6. c + x <= w /\ x \in Nat
    BY <1>7, <2>5
  <2>7. b <= 1 + x + d
    <3>1. CASE m \in Doers(g)
      BY <2>5, <3>1 DEF d
    <3>2. CASE m \in Gates(g)
      <4>1. b <= d
        BY <1>3, <3>2
      <4> HIDE DEF b, x
      <4> QED BY <1>3, <2>2, <2>6, <4>1
    <3>3. CASE g.nodes[m].kind = "terminal"
      <4>1. Visited(g, st, m)
        BY <2>2 DEF LogPaid
      <4>2. b = 0
        BY <3>3, <4>1 DEF Visited
      <4> HIDE DEF b, x
      <4> QED BY <1>3, <2>2, <2>6, <4>2
    <3>4. g.nodes[m].kind \in {"agent", "tool", "gate", "router", "terminal"}
      BY <2>2 DEF IsGraph, NodeKinds
    <3> QED BY <2>2, <3>1, <3>2, <3>3, <3>4 DEF Doers, Gates, IsGate
  <2> HIDE DEF a, b, x
  <2>8. a <= 1 + w + d
    BY <1>2, <1>3, <1>6, <2>2, <2>4, <2>6, <2>7
  <2> QED BY <2>8 DEF a, w, d
<1> QED BY <1>9, <1>10, <1>11

LEMMA AllCounted ==
  ASSUME NEW g, IsGraph(g), Branching(g), NEW st \in States(g), NEW k \in Nat, LogPaid(g, st, k)
  PROVE  \A n \in Doers(g) : st.nodes[n].attempts <= 1 + Cardinality(Spendings(g, st.repeats))
                                                      + Cardinality(Decisions(g, st))
<1> DEFINE Holds1(n, S) == st.nodes[n].attempts <= 1 + Cardinality(Pile(Into(g, S \cup {n}), st.repeats))
                                                     + Cardinality(Decisions(g, st))
           K == {j \in Nat : \A n \in Doers(g) : \A S : Before(g, S, n) /\ Cardinality(S) < j => Holds1(n, S)}
<1>1. \A S, n : Before(g, S, n) => Cardinality(S) \in Nat
  BY FS_Subset, FS_CardinalityType DEF Before, IsGraph
<1>2. 0 \in K
  BY <1>1
<1>3. ASSUME NEW j \in Nat, j \in K PROVE j + 1 \in K
  <2>1. \A n \in Doers(g) : \A S : Before(g, S, n) /\ Cardinality(S) < j => Holds1(n, S)
    BY <1>3
  <2> HIDE DEF Holds1
  <2>2. ASSUME NEW n \in Doers(g), NEW S, Before(g, S, n), Cardinality(S) < j + 1 PROVE Holds1(n, S)
    <3>1. ASSUME NEW m \in Doers(g), NEW T, Before(g, T, m), Cardinality(T) < Cardinality(S) PROVE Holds1(m, T)
      <4>1. Cardinality(T) < j
        BY <1>1, <2>2, <3>1
      <4> QED BY <2>1, <3>1, <4>1
    <3> QED BY <2>2, <3>1, NodeCounted DEF Holds1
  <2> QED BY <2>2
<1>4. K = Nat
  <2>1. K \subseteq Nat
    OBVIOUS
  <2> HIDE DEF K
  <2> QED BY <1>2, <1>3, <2>1, NumbersFrom0
<1>5. ASSUME NEW n \in Doers(g)
      PROVE  st.nodes[n].attempts <= 1 + Cardinality(Spendings(g, st.repeats)) + Cardinality(Decisions(g, st))
  <2>1. n \in DOMAIN g.nodes /\ st.nodes[n].attempts \in Nat
    BY DEF Doers, States, NodeStates
  <2>2. PICK S \in SUBSET (DOMAIN g.nodes) : Before(g, S, n)
    BY <2>1 DEF Branching, Before
  <2>3. Cardinality(S) \in Nat /\ Cardinality(S) < Cardinality(S) + 1 /\ Cardinality(S) + 1 \in Nat
    BY <1>1, <2>2
  <2>4. Holds1(n, S)
    <3> HIDE DEF Holds1
    <3>1. Cardinality(S) + 1 \in K
      <4> HIDE DEF K
      <4> QED BY <1>4, <2>3
    <3> QED BY <2>2, <2>3, <3>1
  <2>5. /\ Cardinality(Pile(Into(g, S \cup {n}), st.repeats)) <= Cardinality(Pile(EdgePairs(g), st.repeats))
        /\ Cardinality(Pile(Into(g, S \cup {n}), st.repeats)) \in Nat
    <3>1. Into(g, S \cup {n}) \subseteq EdgePairs(g) /\ IsFiniteSet(EdgePairs(g))
      BY EdgesFinite DEF Into
    <3>2. \A p \in EdgePairs(g) : st.repeats[p] \in Nat /\ st.repeats[p] <= st.repeats[p]
      BY DEF States, Budgets
    <3> QED BY <3>1, <3>2, PileGrows
  <2>6. Cardinality(Pile(EdgePairs(g), st.repeats)) \in Nat /\ Cardinality(Decisions(g, st)) \in Nat
    <3>1. \A p \in EdgePairs(g) : st.repeats[p] \in Nat
      BY DEF States, Budgets
    <3> QED BY <3>1, EdgesFinite, PileFinite, GateCounted
  <2>7. Spendings(g, st.repeats) = Pile(EdgePairs(g), st.repeats)
    BY DEF Spendings, Pile
  <2> DEFINE x == Cardinality(Pile(Into(g, S \cup {n}), st.repeats))
             y == Cardinality(Pile(EdgePairs(g), st.repeats))
             d == Cardinality(Decisions(g, st))
             a == st.nodes[n].attempts
  <2>8. a <= 1 + x + d /\ x <= y /\ x \in Nat /\ y \in Nat /\ d \in Nat /\ a \in Nat
    BY <2>1, <2>4, <2>5, <2>6
  <2> HIDE DEF x, y, d, a
  <2>9. a <= 1 + y + d
    BY <2>8
  <2> QED BY <2>7, <2>9 DEF a, y, d
<1> QED BY <1>5

\* In a run of a graph whose repeats go back and whose branches meet only where
\* nothing before is done again, no node is tried more often than was paid for: once,
\* once more for each repeat that was spent, and once for each decision at a gate.
\* Two invocations at a time, or a decision while one is at work, are ruled out.
THEOREM RepeatsPaidCorrect ==
  ASSUME Patient, Contended = {}, \A g \in Specs : Returns(g) /\ Branching(g)
  PROVE  Spec => []RepeatsPaid
<1> DEFINE Inv == Base /\ Ordered /\ Paid
<1>1. Init => Inv
  BY InitBase, InitOrdered, InitPaid DEF Base
<1>2. Inv /\ [Next]_vars => Inv'
  <2>1. Base => Returns(graph) /\ Branching(graph)
    BY DEF Base
  <2> QED BY <2>1, BaseStep, OrderedStep, PaidStep
<1>3. Inv => RepeatsPaid
  <2>1. SUFFICES ASSUME Inv PROVE RepeatsPaid
    OBVIOUS
  <2>2. IsGraph(graph) /\ Branching(graph) /\ log.st \in States(graph) /\ log.seq \in Nat
    BY <2>1, GraphTyped DEF Base, LogTyped
  <2>3. LogPaid(graph, log.st, log.seq)
    BY <2>1 DEF Paid
  <2>4. \A n \in Doers(graph) :
          log.st.nodes[n].attempts <= 1 + Cardinality(Spendings(graph, log.st.repeats))
                                        + Cardinality(Decisions(graph, log.st))
    BY <2>2, <2>3, AllCounted
  <2> QED BY <2>4 DEF RepeatsPaid, Doers, IsAgent, Node
<1> QED BY <1>1, <1>2, <1>3, PTL DEF Spec

=============================================================================
