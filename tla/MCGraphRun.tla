------------------------------ MODULE MCGraphRun -----------------------------
(* Instances of GraphRun for TLC. *)
EXTENDS GraphRun, TLC

CONSTANTS t1, t2, r1, r2

Plain(kind) == [kind |-> kind, task |-> NoTask, binds |-> FALSE, mode |-> "run", effect |-> "read",
                proof |-> {}, join |-> "all", decisions |-> {}]
Edge(s, d, outs) == [src |-> s, dst |-> d, outs |-> outs, kind |-> "normal"]
Repeat(s, d, outs) == [src |-> s, dst |-> d, outs |-> outs, kind |-> "repeat"]

\* config/graphs/coding-change.json, from its second node on.
Change ==
  [nodes |->
     [implement |-> [Plain("agent") EXCEPT !.task = "next", !.binds = TRUE, !.effect = "write",
                                           !.proof = {"reviewed"}],
      review |-> [Plain("gate") EXCEPT !.decisions = {"approved", "changes_requested"}],
      land |-> [Plain("agent") EXCEPT !.task = "bound", !.mode = "land", !.effect = "write",
                                      !.proof = {"landed"}],
      commit |-> [Plain("tool") EXCEPT !.effect = "write", !.proof = {"clean"}],
      acceptance |-> [Plain("tool") EXCEPT !.proof = {"accepted"}],
      done |-> Plain("terminal"), replan |-> Plain("terminal"), parked |-> Plain("terminal")],
   edges |-> <<
     Edge("implement", "review", {"completed"}),
     Repeat("implement", "implement", {"failed", "unverified"}),
     Edge("implement", "parked", {"blocked"}),
     Edge("review", "replan", {"changes_requested"}),
     Edge("review", "land", {"approved"}),
     Edge("land", "commit", {"completed"}),
     Repeat("land", "land", {"partial"}),
     Edge("land", "parked", {"failed", "unverified", "blocked"}),
     Edge("commit", "acceptance", {"completed"}),
     Edge("commit", "parked", {"failed", "unverified"}),
     Edge("acceptance", "done", {"completed"}),
     Repeat("acceptance", "implement", {"failed", "unverified"})>>,
   entry |-> "implement", maxSteps |-> 8, maxRepeats |-> 1]

\* config/graphs/goal-drive.json.
Drive ==
  [nodes |->
     [acceptance |-> [Plain("tool") EXCEPT !.proof = {"accepted"}],
      implement |-> [Plain("agent") EXCEPT !.task = "next", !.binds = TRUE, !.effect = "write",
                                           !.proof = {"reviewed"}],
      land |-> [Plain("agent") EXCEPT !.task = "bound", !.mode = "land", !.effect = "write",
                                      !.proof = {"landed"}],
      commit |-> [Plain("tool") EXCEPT !.effect = "write", !.proof = {"clean"}],
      done |-> Plain("terminal"), parked |-> Plain("terminal")],
   edges |-> <<
     Edge("acceptance", "done", {"completed"}),
     Edge("acceptance", "implement", {"failed", "unverified"}),
     Edge("implement", "land", {"completed"}),
     Repeat("implement", "implement", {"failed", "unverified"}),
     Edge("implement", "parked", {"blocked"}),
     Edge("land", "commit", {"completed"}),
     Repeat("land", "land", {"partial"}),
     Edge("land", "parked", {"failed", "unverified", "blocked"}),
     Repeat("commit", "acceptance", {"completed"}),
     Edge("commit", "parked", {"failed", "unverified"})>>,
   entry |-> "acceptance", maxSteps |-> 8, maxRepeats |-> 1]

\* A fan-out of two workers, one on a task of its own and one on the plan's next,
\* that join before a check.
Fork(t) ==
  [nodes |->
     [split |-> Plain("router"),
      one |-> [Plain("agent") EXCEPT !.task = t, !.effect = "write", !.proof = {"reviewed"}],
      two |-> [Plain("agent") EXCEPT !.task = "next", !.binds = TRUE, !.effect = "write",
                                     !.proof = {"reviewed"}],
      check |-> Plain("tool"),
      done |-> Plain("terminal"), parked |-> Plain("terminal")],
   edges |-> <<
     Edge("split", "one", {"completed"}), Edge("split", "two", {"completed"}),
     Edge("one", "check", {"completed"}), Edge("two", "check", {"completed"}),
     Edge("one", "parked", {"blocked"}), Edge("two", "parked", {"blocked"}),
     Edge("check", "done", {"completed"}), Edge("check", "parked", {"failed", "unverified"})>>,
   entry |-> "split", maxSteps |-> 8, maxRepeats |-> 1]

\* One worker, that may be sent again once.
Short(steps) ==
  [nodes |->
     [implement |-> [Plain("agent") EXCEPT !.task = "next", !.binds = TRUE, !.effect = "write",
                                           !.proof = {"reviewed"}],
      done |-> Plain("terminal"), parked |-> Plain("terminal")],
   edges |-> <<
     Edge("implement", "done", {"completed"}),
     Repeat("implement", "implement", {"failed", "unverified"}),
     Edge("implement", "parked", {"blocked"})>>,
   entry |-> "implement", maxSteps |-> steps, maxRepeats |-> 1]

\* A fan-out of two checks whose join may send everything back once.
Rejoin ==
  [nodes |-> [start |-> Plain("tool"), left |-> Plain("tool"), right |-> Plain("tool"), both |-> Plain("tool"),
              done |-> Plain("terminal"), parked |-> Plain("terminal")],
   edges |-> <<
     Edge("start", "left", {"completed"}), Edge("start", "right", {"completed"}),
     Edge("start", "parked", {"failed", "unverified"}),
     Edge("left", "both", {"completed"}), Edge("left", "parked", {"failed", "unverified"}),
     Edge("right", "both", {"completed"}), Edge("right", "parked", {"failed", "unverified"}),
     Edge("both", "done", {"completed"}), Repeat("both", "start", {"failed", "unverified"})>>,
   entry |-> "start", maxSteps |-> 12, maxRepeats |-> 1]

OnlyRejoin == {Rejoin}

\* A check and its repair, with the edge to the repair marked as the repeat.
Repair ==
  [nodes |-> [check |-> Plain("tool"), repair |-> Plain("tool"),
              done |-> Plain("terminal"), parked |-> Plain("terminal")],
   edges |-> <<
     Edge("check", "done", {"completed"}), Repeat("check", "repair", {"failed", "unverified"}),
     Edge("repair", "check", {"completed"}), Edge("repair", "parked", {"failed", "unverified"})>>,
   entry |-> "check", maxSteps |-> 6, maxRepeats |-> 2]

OnlyRepair == {Repair}

\* Three steps, one after the other.
Chain ==
  [nodes |-> [build |-> Plain("tool"), test |-> Plain("tool"), check |-> Plain("tool"),
              done |-> Plain("terminal")],
   edges |-> <<
     Edge("build", "test", {"completed"}), Edge("test", "check", {"completed"}),
     Edge("check", "done", {"completed"})>>,
   entry |-> "build", maxSteps |-> 6, maxRepeats |-> 0]

OnlyChain == {Chain}

\* A fan-out whose join takes the first of its branches.
AnyJoin ==
  [nodes |-> [start |-> Plain("tool"), left |-> Plain("tool"), right |-> Plain("tool"),
              both |-> [Plain("tool") EXCEPT !.join = "any"], done |-> Plain("terminal")],
   edges |-> <<
     Edge("start", "left", {"completed"}), Edge("start", "right", {"completed"}),
     Edge("left", "both", {"completed"}), Edge("right", "both", {"completed"}),
     Edge("both", "done", {"completed"})>>,
   entry |-> "start", maxSteps |-> 12, maxRepeats |-> 0]

OnlyAny == {AnyJoin}

Ungated == {Fork(t1), Fork(t2), Short(1)}
Graphs == Ungated \cup {Change}
OnlyChange == {Change}
OneStep == {Short(1)}
TwoSteps == {Short(2)}

\* The theorems' assumptions on graphs hold here.
ASSUME GraphsReturn == \A g \in Graphs \cup {Drive} : Returns(g)
ASSUME GraphsBranch == \A g \in Graphs \cup {Drive} : Branching(g)
ASSUME GraphsGuarded ==
  \A g \in Graphs : (\E n \in DOMAIN g.nodes : IsGate(g, n)) => Guarded(g)

Swaps == Permutations({t1, t2}) \cup Permutations({r1, r2})

=============================================================================
