------------------------------- MODULE GraphRun ------------------------------
(***************************************************************************)
(* One run of an execution graph (lib/oms_graph/runner.py, events.py,      *)
(* scheduler.py, adapters/plan.py): `exec run`, `exec resume` and `exec    *)
(* decide`, which know of each other only through events.jsonl, the        *)
(* plan-runs and tools they start, the plan those work on, and whoever     *)
(* else works on that plan.                                                *)
(*                                                                         *)
(* A row is appended in two steps: the log is read for the row's sequence  *)
(* number and for a row with its key, then the row is written.  Only the   *)
(* writing is locked.  A process may be killed between any two steps, and  *)
(* what it started may die with it or work on.                             *)
(*                                                                         *)
(* The log is kept as what its readers take from it: its keys, its length, *)
(* the last sequence number, and its projection, folded a row at a time.   *)
(* The read cache, the context packs and the artifacts are not modelled.   *)
(***************************************************************************)
EXTENDS GraphRoute

CONSTANTS
  Specs,         \* the graphs that may be run
  Tasks,         \* plan tasks
  Runners,       \* processes that may run or resume
  Parent,        \* the process that decides a gate
  Nobody,        \* no process: the owner of what was left to itself
  Jobs,          \* --jobs
  Patient,       \* does the parent decide only when no runner is at work?
  Requeued,      \* the graphs during which others make a task in review ready again
  Overlaps,      \* pairs of tasks whose write scopes overlap
  Contended,     \* bound: the graphs that two invocations may work on at a time
  MaxDecisions,  \* bound: gate decisions
  MaxFaults      \* bound: processes killed, timeouts that leave something at work,
                 \* invocations with nothing new to do, and steps of others on the
                 \* plan, together

ASSUME TaskAssumption == Tasks \cap {NoTask, "next", "bound"} = {}
ASSUME GraphAssumption ==
  \A g \in Specs : IsGraph(g) /\ \A n \in DOMAIN g.nodes :
    g.nodes[n].task \in Tasks \cup {NoTask, "next", "bound"} /\ g.nodes[n].decisions \subseteq Outcomes
ASSUME ProcessAssumption == Parent \notin Runners /\ Nobody \notin Runners \cup {Parent}
ASSUME BoundsAssumption ==
  {MaxDecisions, MaxFaults} \subseteq Nat /\ Jobs \in Nat \ {0}
ASSUME SwitchAssumption == Patient \in BOOLEAN /\ Contended \cup Requeued \subseteq Specs

VARIABLES
  graph,  \* graph.json, frozen when the run starts
  log,    \* events.jsonl
  proc,   \* the invocations
  subs,   \* the plan-runs and tools that were started
  plan,   \* each task: its state, the epoch of its claim, that of its patch
  tree,   \* the worktree, and the last acceptance
  left,   \* how the last invocation ended
  ghost,  \* the patches that were approved, and those that landed
  spent   \* how much of each bound is used

vars == <<graph, log, proc, subs, plan, tree, left, ghost, spent>>
world == <<plan, tree, ghost>>

-----------------------------------------------------------------------------
(* Rows and their projection.                                               *)
NoRow == [event |-> "none"]
StartRow(n, a, t) ==
  [event |-> "node_started", key |-> <<"start", n, a>>, node |-> n, attempt |-> a, task |-> t]
OutcomeRow(n, a, t, claimed, outcome) ==
  [event |-> "node_outcome", key |-> <<"outcome", n, a>>, node |-> n, attempt |-> a,
   task |-> t, claimed |-> claimed, outcome |-> outcome]
GateRow(n, a, d) ==
  [event |-> "gate_decision", key |-> <<"gate", n, a>>, node |-> n, attempt |-> a, outcome |-> d]
RouteRow(k, repeats) == [event |-> "route_evaluated", key |-> <<"route", k>>, repeats |-> repeats]
FinishRow(k) == [event |-> "run_finished", key |-> <<"finish", k>>]

\* Slip: a row whose key is known is folded again.
NeverSeen(row, keys) == FALSE

\* project() folds a key once: the first row with it counts.
Seen(row, keys) == row.key \in keys

Max2(a, b) == IF a < b THEN b ELSE a
Named(row, n) == row.task # NoTask /\ graph.nodes[n].binds

ProjectNode(st, row, seq) ==
  LET n == row.node
      old == st.nodes[n]
      base == [old EXCEPT !.attempts = Max2(@, row.attempt), !.seq = Max2(@, seq)]
      new == CASE row.event = "node_started" ->
                    [base EXCEPT !.status = "active", !.outcome = NoOutcome, !.claimed = NoOutcome,
                                 !.task = IF row.task = NoTask THEN @ ELSE row.task]
               [] row.event = "node_outcome" ->
                    [base EXCEPT !.status = "finished", !.outcome = row.outcome,
                                 !.claimed = row.claimed,
                                 !.task = IF row.task = NoTask THEN @ ELSE row.task]
               [] row.event = "gate_decision" ->
                    [base EXCEPT !.status = "finished", !.outcome = row.outcome,
                                 !.claimed = row.outcome]
      seen == st.tries \cup {<<n, row.attempt>>}
  IN  [st EXCEPT !.nodes[n] = new, !.tries = seen, !.steps = Cardinality(seen),
                 !.bound = IF row.event # "gate_decision" /\ Named(row, n) THEN row.task ELSE @]

Project(st, row, seq) ==
  CASE row.event = "route_evaluated" ->
         [st EXCEPT !.repeats = [p \in DOMAIN @ |-> Max2(@[p], row.repeats[p])]]
    [] row.event = "run_finished" -> st
    [] OTHER -> ProjectNode(st, row, seq)

\* append_jsonl: the row as it was prepared, at the end of the log as it is.
Appended(l, row, seq) ==
  [keys |-> l.keys \cup {row.key}, len |-> l.len + 1, seq |-> seq,
   st |-> IF Seen(row, l.keys) THEN l.st ELSE Project(l.st, row, seq)]

-----------------------------------------------------------------------------
(* The plan as the adapter sees it, and the proofs.  A task in review has a *)
(* stored patch; a task that is done has a landing receipt.                 *)
Node(n) == graph.nodes[n]
IsAgent(n) == Node(n).kind = "agent"

\* resolve_static: the task that is bound, or named; none for a selector.
StaticTask(st, n) ==
  CASE Node(n).task = "bound" -> st.bound
    [] Node(n).task = "next" -> NoTask
    [] OTHER -> Node(n).task

Holds(proof, t) ==
  CASE proof = "reviewed" -> t # NoTask /\ plan[t].state = "review"
    [] proof = "landed" -> t # NoTask /\ plan[t].state = "done"
    [] proof = "clean" -> ~tree.dirty
    [] proof = "accepted" -> tree.accepted = "pass"
Proves(n, t) == \A p \in Node(n).proof : Holds(p, t)

\* augment_binding_facts: what a proof says of a binding, it says of the task
\* that is bound now.
Proved(st) ==
  {n \in DOMAIN graph.nodes : Proves(n, IF Node(n).binds THEN st.bound ELSE StaticTask(st, n))}

Live(t) == plan[t].state = "claimed" /\ ~plan[t].expired

StateProves(n, t, receipt) ==
  \/ Node(n).mode = "run" /\ plan[t].state = "review"
  \/ Node(n).mode = "land" /\ plan[t].state = "done" /\ receipt

FromPlan(n, t, receipt) ==
  CASE plan[t].state = "blocked" -> "blocked"
    [] StateProves(n, t, receipt) -> "completed"
    [] plan[t].state = "claimed" -> "unverified"
    [] plan[t].state = "done" /\ Node(n).mode = "run" -> "completed"
    [] OTHER -> "failed"

WithProof(claimed, proved) == IF claimed = "completed" /\ ~proved THEN "unverified" ELSE claimed
Verdicts(claimed, outcome) == [claimed |-> claimed, outcome |-> outcome]
Both(outcome) == Verdicts(outcome, outcome)

\* execute, agent_outcome: the exit, then the plan as it is afterwards.
AgentOutcome(n, t, exit) ==
  LET claimed == FromPlan(n, t, TRUE)
      outcome == WithProof(claimed, Proves(n, t))
  IN  CASE exit = "timeout" -> Both("unverified")
        [] exit = "busy" -> Both("partial")
        [] exit = "ok" -> Verdicts(claimed, outcome)
        [] exit = "error" ->
             Verdicts(claimed, IF outcome = "completed" /\ ~StateProves(n, t, TRUE)
                               THEN "failed" ELSE outcome)

\* _finish_tool: the proof against the facts after the command.
ToolOutcome(n, exit) ==
  CASE exit = "timeout" -> Both("unverified")
    [] exit = "ok" -> Verdicts("completed", WithProof("completed", Proves(n, NoTask)))
    [] exit = "error" -> Both("failed")

-----------------------------------------------------------------------------
(* Processes.                                                               *)
Pcs == {"off", "reconcile", "loop", "routed", "started", "wave", "recorded", "closing"}
Off == [pc |-> "off", rows |-> <<>>, seq |-> 0, todo |-> <<>>, calls |-> 0,
        route |-> <<>>, snap |-> <<>>, wave |-> {}]

Init ==
  /\ graph \in Specs
  /\ log = [keys |-> {}, len |-> 1, seq |-> 1,
            st |-> [nodes |-> [n \in DOMAIN graph.nodes |-> Unvisited], steps |-> 0, tries |-> {},
                    repeats |-> Unspent(graph), bound |-> NoTask]]
  /\ proc = [p \in Runners \cup {Parent} |-> Off]
  /\ subs = {}
  /\ plan = [t \in Tasks |-> [state |-> "ready", epoch |-> 0, patch |-> 0, expired |-> FALSE]]
  /\ tree = [dirty |-> FALSE, accepted |-> "none"]
  /\ left = "fresh"
  /\ ghost = [approved |-> {}, landed |-> {}]
  /\ spent = [decisions |-> 0, faults |-> 0]

At(p, pc) == proc[p].pc = pc /\ proc[p].rows = <<>>
Become(p, r) == proc' = [proc EXCEPT ![p] = r]
Running == \E p \in Runners : proc[p].pc # "off"
End(p, how) == Become(p, Off) /\ left' = how

\* append_event up to the write.  A known key is an error, which ends the process.
Prepare(p) ==
  /\ proc[p].rows # <<>> /\ proc[p].seq = 0
  /\ IF Seen(proc[p].rows[1], log.keys) THEN End(p, "crashed")
     ELSE Become(p, [proc[p] EXCEPT !.seq = log.seq + 1]) /\ UNCHANGED left
  /\ UNCHANGED <<graph, log, subs, world, spent>>

\* append_jsonl, under its own lock.
Write(p) ==
  /\ proc[p].seq # 0
  /\ log' = Appended(log, proc[p].rows[1], proc[p].seq)
  /\ Become(p, [proc[p] EXCEPT !.rows = Tail(@), !.seq = 0])
  /\ UNCHANGED <<graph, subs, world, left, spent>>

-----------------------------------------------------------------------------
(* run and resume.                                                          *)
Active(st) == {n \in DOMAIN st.nodes : st.nodes[n].status = "active"}

\* An attempt that nothing runs any more and whose task no live lease holds.
Stranded ==
  \E n \in Active(log.st) :
    /\ \A s \in subs : s.node # n
    /\ IsAgent(n) /\ log.st.nodes[n].task # NoTask => ~Live(log.st.nodes[n].task)

\* There is something for an invocation to do.
Unfinished == ~Running /\ left \in {"fresh", "crashed", "decided"}
Awaited == Unfinished \/ (~Running /\ Stranded)

\* The operator types a command: because it is awaited, or for no reason.
Typed(p, awaited) ==
  /\ proc[p].pc = "off"
  /\ Patient => proc[Parent].pc = "off"
  /\ \/ awaited /\ UNCHANGED spent
     \/ /\ ~awaited /\ left # "fresh" /\ (Running => graph \in Contended)
        /\ spent.faults < MaxFaults
        /\ spent' = [spent EXCEPT !.faults = @ + 1]

\* `exec run`, of a new run or of one that exists.
Run(p) ==
  /\ Typed(p, Unfinished)
  /\ Become(p, [Off EXCEPT !.pc = "loop"])
  /\ left' = "running"
  /\ UNCHANGED <<graph, log, subs, world>>

\* `exec resume` reads the log and the facts, then settles what is active.
Resume(p) ==
  /\ Typed(p, Awaited) /\ left # "fresh"
  /\ LET Item(n) ==
           LET s == log.st.nodes[n]
               t == IF s.task # NoTask THEN s.task ELSE StaticTask(log.st, n)
           IN  [node |-> n, attempt |-> Max2(s.attempts, 1), task |-> t,
                receipt |-> t \in Tasks /\ plan[t].state = "done", proved |-> Proves(n, t)]
         active == SetToSeq(Active(log.st))
     IN  Become(p, [Off EXCEPT !.pc = "reconcile", !.todo = [i \in DOMAIN active |-> Item(active[i])]])
  /\ left' = "running"
  /\ UNCHANGED <<graph, log, subs, world>>

Reconciled(i) ==
  CASE ~IsAgent(i.node) /\ Node(i.node).effect = "write" -> Both("blocked")
    [] IsAgent(i.node) /\ i.task \in Tasks ->
         Both(WithProof(FromPlan(i.node, i.task, i.receipt), i.proved))
    [] OTHER -> Both("unverified")

\* _reconcile, one node: a task under a live lease is left alone.
Reconcile(p) ==
  /\ At(p, "reconcile") /\ proc[p].todo # <<>>
  /\ LET i == proc[p].todo[1]
         v == Reconciled(i)
         rest == [proc[p] EXCEPT !.todo = Tail(@)]
     IN  IF IsAgent(i.node) /\ i.task \in Tasks /\ Live(i.task) THEN Become(p, rest)
         ELSE Become(p, [rest EXCEPT !.rows =
                           <<OutcomeRow(i.node, i.attempt, i.task, v.claimed, v.outcome)>>])
  /\ UNCHANGED <<graph, log, subs, world, left, spent>>

\* _finish: the row is numbered by the log as it is now.
Close(p) == Become(p, [proc[p] EXCEPT !.pc = "closing", !.rows = <<FinishRow(log.len + 1)>>,
                                      !.snap = <<>>, !.route = <<>>])

\* _loop: read, evaluate, record the route; or the step cap is reached.
Step(p) ==
  /\ At(p, "loop") \/ (At(p, "reconcile") /\ proc[p].todo = <<>>) \/ At(p, "recorded")
     \/ (At(p, "wave") /\ proc[p].wave = {})
  /\ LET verdict == Evaluate(graph, log.st, Proved(log.st))
     IN  IF proc[p].calls = graph.maxSteps THEN Close(p)
         ELSE Become(p, [proc[p] EXCEPT !.pc = "routed", !.calls = @ + 1, !.snap = log.st,
                           !.route = verdict, !.rows = <<RouteRow(log.len + 1, verdict.repeats)>>])
  /\ UNCHANGED <<graph, log, subs, world, left, spent>>

\* A gate leaves the run open; every other verdict that is not actionable ends it.
Stop(p) ==
  /\ At(p, "routed") /\ proc[p].route.status # "actionable"
  /\ IF proc[p].route.status = "gate" THEN End(p, "gate") ELSE Close(p) /\ UNCHANGED left
  /\ UNCHANGED <<graph, log, subs, world, spent>>

-----------------------------------------------------------------------------
(* A wave.                                                                  *)
Exclusive(n) == (IsAgent(n) /\ Node(n).mode = "land") \/ (~IsAgent(n) /\ Node(n).effect = "write")

\* One lease is one resource: no two nodes of a wave have the same task.
Shares(chosen, task, n, held) ==
  IsAgent(n) /\ (task[n] \in held \/ \E m \in chosen : IsAgent(m) /\ task[m] = task[n])

\* What defers a candidate: a second selector, an exclusive node, overlapping write
\* scopes, capacity.
Deferred(chosen, n, task, active, held) ==
  \/ n \in chosen
  \/ \E m \in chosen : Exclusive(m)
  \/ Shares(chosen, task, n, held)
  \/ Node(n).task = "next" /\ \E m \in chosen : Node(m).task = "next"
  \/ Exclusive(n) /\ chosen \cup active # {}
  \/ IsAgent(n) /\ \E m \in chosen : IsAgent(m) /\ {task[m], task[n]} \in Overlaps
  \/ IsAgent(n) /\ \E t \in held : {t, task[n]} \in Overlaps
  \/ Cardinality(chosen) >= Jobs

\* scheduler.eligible, over the candidates in order.
Eligible(candidates, task, active, held) ==
  LET Upto[i \in Nat] ==
        IF i = 0 THEN <<>>
        ELSE IF i > Len(candidates) \/ Deferred(ToSet(Upto[i - 1]), candidates[i], task, active, held)
             THEN Upto[i - 1] ELSE Append(Upto[i - 1], candidates[i])
  IN  Upto[Len(candidates)]

\* _resolve_tasks: one read-only peek at the plan for all the selectors.
Peeks == IF \E t \in Tasks : plan[t].state = "ready"
         THEN {t \in Tasks : plan[t].state = "ready"} ELSE {NoTask}

\* _resolve_tasks, eligible and _plan_node; or the plan offers a selector nothing.
Plan(p) ==
  /\ At(p, "routed") /\ proc[p].route.status = "actionable"
  /\ \E peek \in Peeks :
       LET candidates == proc[p].route.nodes
           st == proc[p].snap
           names == ToSet(candidates)
           selectors == {n \in names : Node(n).task = "next"}
           task == [n \in names |-> IF n \in selectors THEN peek ELSE StaticTask(st, n)]
           active == Active(st)
           order == Eligible(candidates, task, active, {st.nodes[n].task : n \in active} \ {NoTask})
           Attempt(n) == st.nodes[n].attempts + 1
           planned == [proc[p] EXCEPT !.snap = <<>>, !.route = <<>>]
           none == SetToSeq(selectors)
       IN  IF selectors # {} /\ peek = NoTask
           THEN Become(p, [planned EXCEPT !.pc = "recorded", !.rows =
                  [i \in 1..2 * Len(none) |->
                     LET n == none[(i + 1) \div 2] IN
                     IF i % 2 = 1 THEN StartRow(n, Attempt(n), NoTask)
                     ELSE OutcomeRow(n, Attempt(n), NoTask, "blocked", "blocked")]])
           ELSE IF order = <<>> THEN Close(p)
           ELSE Become(p, [planned EXCEPT !.pc = "started",
                  !.rows = [i \in DOMAIN order |-> StartRow(order[i], Attempt(order[i]), task[order[i]])],
                  !.wave = {[node |-> n, attempt |-> Attempt(n), task |-> task[n]] : n \in ToSet(order)}])
  /\ UNCHANGED <<graph, log, subs, world, left, spent>>

\* _execute_wave: every node of the wave is started in a thread of its own.
Launch(p) ==
  /\ At(p, "started")
  /\ subs' = subs \cup {[by |-> p, node |-> i.node, attempt |-> i.attempt, task |-> i.task,
                         phase |-> "launched", epoch |-> 0, exit |-> "none",
                         verdict |-> Both(NoOutcome)] : i \in proc[p].wave}
  /\ Become(p, [proc[p] EXCEPT !.pc = "wave"])
  /\ UNCHANGED <<graph, log, world, left, spent>>

\* _record: what a thread handed back.  The coordinator checks a tool's proof.
Record(p, s) ==
  /\ At(p, "wave") /\ s.by = p
  /\ s.phase = IF IsAgent(s.node) THEN "read" ELSE "exited"
  /\ LET v == IF IsAgent(s.node) THEN s.verdict ELSE ToolOutcome(s.node, s.exit)
     IN  Become(p, [proc[p] EXCEPT
                      !.rows = <<OutcomeRow(s.node, s.attempt, s.task, v.claimed, v.outcome)>>,
                      !.wave = {i \in @ : i.node # s.node}])
  /\ subs' = subs \ {s}
  /\ UNCHANGED <<graph, log, world, left, spent>>

Leave(p) ==
  /\ At(p, "closing")
  /\ End(p, "finished")
  /\ UNCHANGED <<graph, log, subs, world, spent>>

-----------------------------------------------------------------------------
(* decide.  It asks only that the node is a gate and the decision one of its *)
(* own; ghost keeps the patch the parent had before it.                      *)
Decide(n, d) ==
  /\ proc[Parent].pc = "off" /\ left # "fresh"
  /\ spent.decisions < MaxDecisions
  /\ Patient => ~Running
  /\ Node(n).kind = "gate" /\ d \in Node(n).decisions
  /\ LET t == log.st.bound IN
     ghost' = IF d = "approved" /\ t # NoTask
              THEN [ghost EXCEPT !.approved = @ \cup {<<t, plan[t].patch>>}] ELSE ghost
  /\ Become(Parent, [Off EXCEPT !.pc = "started",
                                !.rows = <<GateRow(n, log.st.nodes[n].attempts + 1, d)>>])
  /\ spent' = [spent EXCEPT !.decisions = @ + 1]
  /\ UNCHANGED <<graph, log, subs, plan, tree, left>>

Decided ==
  /\ At(Parent, "started")
  /\ Become(Parent, Off)
  /\ left' = IF Running THEN left ELSE "decided"
  /\ UNCHANGED <<graph, log, subs, world, spent>>

-----------------------------------------------------------------------------
(* What was started: `plan-run --id T [--land]`, and the tools.              *)
Replace(s, new) == subs' = (subs \ {s}) \cup {new}
Exits(s, exit) ==
  IF s.by = Nobody THEN subs' = subs \ {s}
  ELSE Replace(s, [s EXCEPT !.phase = "exited", !.exit = exit])
Set(t, r) == plan' = [plan EXCEPT ![t] = r]
Moved(t, state) == Set(t, [plan[t] EXCEPT !.state = state, !.expired = FALSE])
Still == UNCHANGED <<graph, log, proc, left, spent>>

Claiming(t) == Set(t, [plan[t] EXCEPT !.state = "claimed", !.epoch = @ + 1, !.expired = FALSE])
Holding(s) == plan[s.task].state = "claimed" /\ plan[s.task].epoch = s.epoch

\* A ready task is claimed; with --land, a reviewed one goes straight to its landing.
Enter(s) ==
  /\ IsAgent(s.node) /\ s.phase = "launched"
  /\ LET state == plan[s.task].state IN
     \/ /\ state = "ready"
        /\ Claiming(s.task)
        /\ Replace(s, [s EXCEPT !.phase = "working", !.epoch = plan[s.task].epoch + 1])
     \/ /\ state = "review" /\ Node(s.node).mode = "land"
        /\ Replace(s, [s EXCEPT !.phase = "landing"])
        /\ UNCHANGED plan
     \/ /\ ~(state = "ready" \/ (state = "review" /\ Node(s.node).mode = "land"))
        /\ Exits(s, "error")
        /\ UNCHANGED plan
  /\ UNCHANGED <<tree, ghost>> /\ Still

\* The worker delivers, fails or blocks the task; its verbs ask for its lease.  With
\* --land plan-run, unless it was killed, lands what was delivered.
Work(s) ==
  /\ s.phase = "working"
  /\ \/ /\ Holding(s)
        /\ Set(s.task, [plan[s.task] EXCEPT !.state = "review", !.patch = s.epoch, !.expired = FALSE])
        /\ IF Node(s.node).mode = "land" /\ s.exit = "none" THEN Replace(s, [s EXCEPT !.phase = "landing"])
           ELSE Exits(s, "ok")
     \/ /\ Holding(s)
        /\ \E state \in {"ready", "blocked"} : Moved(s.task, state)
        /\ Exits(s, "error")
     \/ ~Holding(s) /\ Exits(s, "error") /\ UNCHANGED plan
  /\ UNCHANGED <<tree, ghost>> /\ Still

\* patch-land: not onto a dirty tree; its lock may be held (exit 75).
Land(s) ==
  /\ s.phase = "landing"
  /\ \/ /\ plan[s.task].state = "review" /\ ~tree.dirty
        /\ Moved(s.task, "done")
        /\ tree' = [tree EXCEPT !.dirty = TRUE]
        /\ ghost' = [ghost EXCEPT !.landed = @ \cup {<<s.task, plan[s.task].patch>>}]
        /\ Exits(s, "ok")
     \/ /\ \E exit \in {"busy", "error"} : Exits(s, exit)
        /\ UNCHANGED <<plan, tree, ghost>>
  /\ Still

\* A tool: the exact commit of the bound task, which moves HEAD and so makes the
\* last acceptance stale; the plan's acceptance command; or one that only reads.
Tool(s) ==
  /\ ~IsAgent(s.node) /\ s.phase = "launched"
  /\ \/ Exits(s, "error") /\ tree' = IF "accepted" \in Node(s.node).proof
                                      THEN [tree EXCEPT !.accepted = "fail"] ELSE tree
     \/ /\ Exits(s, "ok")
        /\ IF Node(s.node).effect = "write"
           THEN /\ log.st.bound # NoTask /\ plan[log.st.bound].state = "done"
                /\ tree' = IF tree.dirty THEN [dirty |-> FALSE, accepted |-> "none"] ELSE tree
           ELSE tree' = IF "accepted" \in Node(s.node).proof
                        THEN [tree EXCEPT !.accepted = "pass"] ELSE tree
  /\ UNCHANGED <<plan, ghost>> /\ Still

\* subprocess.run kills a plan-run or a tool that outlives the node's timeout, and
\* neither its worker, its patch-land nor what the tool itself has started.
Timeout(s) ==
  /\ s.by # Nobody /\ s.phase \in {"launched", "working", "landing"}
  /\ LET over == [s EXCEPT !.phase = "exited", !.exit = "timeout"] IN
     \/ Replace(s, over) /\ UNCHANGED spent
     \/ /\ IsAgent(s.node) => s.phase # "launched"
        /\ spent.faults < MaxFaults
        /\ subs' = (subs \ {s}) \cup {over, [s EXCEPT !.by = Nobody, !.exit = "timeout"]}
        /\ spent' = [spent EXCEPT !.faults = @ + 1]
  /\ UNCHANGED <<graph, log, proc, world, left>>

\* The thread reads the task after plan-run has ended.
Return(s) ==
  /\ IsAgent(s.node) /\ s.phase = "exited"
  /\ Replace(s, [s EXCEPT !.phase = "read", !.verdict = AgentOutcome(s.node, s.task, s.exit)])
  /\ UNCHANGED world /\ Still

\* A claim grows old.
Expire(t) ==
  /\ Live(t)
  /\ Set(t, [plan[t] EXCEPT !.expired = TRUE])
  /\ UNCHANGED <<subs, tree, ghost>> /\ Still

\* Others: another lane claims, delivers, gives up or lands a task; an operator
\* releases a claim that is expired, reopens a blocked task, or requeues one.
Other(t) ==
  /\ spent.faults < MaxFaults
  /\ LET ours == \E s \in subs : s.task = t /\ s.phase = "working" /\ Holding(s)
         state == plan[t].state
     IN  \/ state = "ready" /\ Claiming(t)
         \/ /\ state = "claimed" /\ ~ours
            /\ \/ Set(t, [plan[t] EXCEPT !.state = "review", !.patch = plan[t].epoch, !.expired = FALSE])
               \/ Moved(t, "ready")
         \/ state = "claimed" /\ plan[t].expired /\ Moved(t, "ready")
         \/ state = "review" /\ Moved(t, "done")
         \/ state = "blocked" /\ Moved(t, "ready")
         \/ state = "review" /\ graph \in Requeued /\ Moved(t, "ready")
  /\ spent' = [spent EXCEPT !.faults = @ + 1]
  /\ UNCHANGED <<graph, log, proc, subs, tree, left, ghost>>

\* A killed coordinator takes what it started with it, or leaves it working.
Crash(p) ==
  /\ proc[p].pc # "off" /\ spent.faults < MaxFaults
  /\ LET mine == {s \in subs : s.by = p} IN
     \/ subs' = subs \ mine
     \/ /\ mine # {}
        /\ subs' = (subs \ mine) \cup {[s EXCEPT !.by = Nobody] :
                      s \in {m \in mine : m.phase \in {"launched", "working", "landing"}}}
  /\ End(p, "crashed")
  /\ spent' = [spent EXCEPT !.faults = @ + 1]
  /\ UNCHANGED <<graph, log, world>>

-----------------------------------------------------------------------------
Appends(p) == Prepare(p) \/ Write(p)
Coordinates(p) ==
  \/ Reconcile(p) \/ Step(p) \/ Stop(p) \/ Plan(p) \/ Launch(p) \/ Leave(p)
  \/ \E s \in subs : Record(p, s)
Works(s) == Enter(s) \/ Work(s) \/ Land(s) \/ Tool(s) \/ Return(s)
Calls(p) == Run(p) \/ Resume(p)

Next ==
  \/ \E p \in Runners : Calls(p) \/ Coordinates(p)
  \/ \E p \in Runners \cup {Parent} : Appends(p) \/ Crash(p)
  \/ \E n \in DOMAIN graph.nodes : \E d \in Outcomes : Decide(n, d)
  \/ Decided
  \/ \E s \in subs : Works(s) \/ Timeout(s)
  \/ \E t \in Tasks : Expire(t) \/ Other(t)

Spec == Init /\ [][Next]_vars

\* Processes that are not killed go on, what they started ends, claims grow old,
\* and the operator resumes a run that was interrupted, decided or stranded.
FairSpec ==
  /\ Spec
  /\ \A p \in Runners : WF_vars(Coordinates(p)) /\ WF_vars(Appends(p))
  /\ WF_vars(Appends(Parent)) /\ WF_vars(Decided)
  /\ WF_vars(\E s \in subs : Works(s))
  /\ \A t \in Tasks : WF_vars(Expire(t))
  /\ WF_vars(\E p \in Runners : Awaited /\ Resume(p))

-----------------------------------------------------------------------------
TypeOK ==
  /\ graph \in Specs
  /\ log.len \in Nat /\ log.seq \in Nat /\ log.st.steps \in Nat
  /\ DOMAIN log.st.nodes = DOMAIN graph.nodes
  /\ \A n \in DOMAIN log.st.nodes :
       /\ log.st.nodes[n].status \in {"pending", "active", "finished"}
       /\ log.st.nodes[n].outcome \in Outcomes \cup {NoOutcome}
       /\ log.st.nodes[n].attempts \in Nat /\ log.st.nodes[n].seq \in 0..log.len
       /\ log.st.nodes[n].task \in Tasks \cup {NoTask}
  /\ log.st.bound \in Tasks \cup {NoTask}
  /\ \A p \in Runners \cup {Parent} : proc[p].pc \in Pcs
  /\ \A s \in subs : /\ s.by \in Runners \cup {Nobody} /\ s.node \in DOMAIN graph.nodes
                      /\ s.phase \in {"launched", "working", "landing", "exited", "read"}
  /\ plan \in [Tasks -> [state : {"ready", "claimed", "review", "done", "blocked"},
                          epoch : Nat, patch : Nat, expired : BOOLEAN]]
  /\ tree \in [dirty : BOOLEAN, accepted : {"none", "pass", "fail"}]
  /\ left \in {"fresh", "running", "crashed", "gate", "decided", "finished"}

IsGate(g, n) == g.nodes[n].kind = "gate"
Lands(g, n) == g.nodes[n].kind = "agent" /\ g.nodes[n].mode = "land"
Gated == \E n \in DOMAIN graph.nodes : IsGate(graph, n)

\* What the graphs that ship have and validation does not ask for.
\* A repeat goes back to a node that every path to it has passed: without that
\* node, some set of nodes holds all that is reached, and not the repeat's source.
Returns(g) ==
  \A i \in DOMAIN g.edges : LET e == g.edges[i] IN
    \/ e.kind # "repeat" \/ e.src = e.dst
    \/ \E S \in SUBSET (DOMAIN g.nodes) :
         /\ g.entry \in S /\ e.src \notin S
         /\ \A j \in DOMAIN g.edges :
              g.edges[j].src \in S \ {e.dst} => g.edges[j].dst \in S

\* What leads to a node of S lies in S.
Upward(g, S) ==
  \A i \in DOMAIN g.edges :
    g.edges[i].kind = "normal" /\ g.edges[i].dst \in S => g.edges[i].src \in S
Feeds(g, m, n) ==
  \E i \in DOMAIN g.edges : g.edges[i].kind = "normal" /\ g.edges[i].src = m /\ g.edges[i].dst = n

\* Nothing in S is repeated or decided, and its joins wait for all.
Once(g, S) ==
  /\ Upward(g, S)
  /\ \A n \in S : g.nodes[n].kind # "gate" /\ g.nodes[n].join = "all"
  /\ \A i \in DOMAIN g.edges : g.edges[i].kind = "repeat" => g.edges[i].dst \notin S

\* Branches only meet where nothing before is ever done again.  Normal edges close no
\* cycle, and a repeat goes to a node that does something.
Branching(g) ==
  /\ \A i \in DOMAIN g.edges : LET e == g.edges[i] IN
       IF e.kind = "normal" THEN e.dst # g.entry ELSE g.nodes[e.dst].kind \notin {"router", "terminal"}
  /\ \A n \in DOMAIN g.nodes : \E S \in SUBSET (DOMAIN g.nodes) :
       n \notin S /\ Upward(g, S) /\ \A m \in DOMAIN g.nodes : Feeds(g, m, n) => m \in S
  /\ \E S \in SUBSET (DOMAIN g.nodes) :
       /\ Once(g, S)
       /\ \A n \in DOMAIN g.nodes \ S :
            \/ g.nodes[n].kind = "terminal"
            \/ \A l, m \in DOMAIN g.nodes : Feeds(g, l, n) /\ Feeds(g, m, n) => l = m

\* Only an approved gate leads to a landing of the bound task, and only the
\* completion of the one node that binds it leads to a gate.
Guarded(g) ==
  /\ ~IsGate(g, g.entry) /\ ~Lands(g, g.entry)
  /\ \A i \in DOMAIN g.edges : LET e == g.edges[i] IN
       /\ Lands(g, e.dst) => e.src = e.dst \/ (IsGate(g, e.src) /\ e.outs = {"approved"})
       /\ IsGate(g, e.dst) => g.nodes[e.src].binds /\ e.outs = {"completed"}
  /\ \A n \in DOMAIN g.nodes :
       /\ Lands(g, n) => g.nodes[n].task = "bound"
       /\ g.nodes[n].binds => /\ g.nodes[n].kind = "agent" /\ g.nodes[n].mode = "run"
                              /\ g.nodes[n].task \in Tasks \cup {"next"}
                              /\ \A m \in DOMAIN g.nodes : g.nodes[m].binds => m = n

\* In a graph with a gate, a run lands only patches that the parent approved:
\* an approval never outlives the work it was given for.
GatedLanding == Gated => ghost.landed \subseteq ghost.approved

\* The outcome of an attempt never changes: only a newer attempt replaces it.
OutcomeStable ==
  [][\A n \in DOMAIN graph.nodes :
       LET s == log.st.nodes[n]  r == log'.st.nodes[n] IN
         /\ r.attempts >= s.attempts
         /\ s.status = "finished" =>
              r.attempts > s.attempts \/ (r.status = "finished" /\ r.outcome = s.outcome)]_vars

\* Work is done again only where it was paid for, whatever was killed in between:
\* a node has one attempt, one more for each repeat that was spent, and one for
\* each time a gate was decided.  Both are counted one by one.
Spendings(g, repeats) == UNION {{p} \X (1 .. repeats[p]) : p \in EdgePairs(g)}
Decisions(g, st) == UNION {{n} \X (1 .. st.nodes[n].attempts) : n \in {m \in DOMAIN g.nodes : IsGate(g, m)}}
RepeatsPaid ==
  \A n \in DOMAIN graph.nodes :
    IsAgent(n) \/ Node(n).kind = "tool" =>
      log.st.nodes[n].attempts <= 1 + Cardinality(Spendings(graph, log.st.repeats))
                                    + Cardinality(Decisions(graph, log.st))

\* "`all` waits for every incoming source" (docs/GRAPH-ENGINEERING.md:307): a join
\* is not tried more often than any of the nodes it joins.  It does not hold of a
\* join that may be repeated: its sources lie behind it then, and join_ready
\* (route.py:233) leaves those out.
JoinWaits ==
  \A n \in DOMAIN graph.nodes :
    LET joined == {i \in DOMAIN graph.edges : /\ graph.edges[i].dst = n
                                             /\ graph.edges[i].kind = "normal"}
    IN  Cardinality(joined) > 1 /\ Node(n).join = "all" /\ Node(n).kind # "terminal" =>
          \A i \in joined : log.st.nodes[n].attempts <= log.st.nodes[graph.edges[i].src].attempts

\* No attempt stays open for ever.
NodeSettles == (Active(log.st) # {}) ~> (Active(log.st) = {})

=============================================================================
