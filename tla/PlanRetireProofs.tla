--------------------------- MODULE PlanRetireProofs ---------------------------
(* What PlanRetire keeps for every number of commands, plans, commits and  *)
(* kills: a plan gives way only once it is archived and receipted, a       *)
(* receipt stays true of the acceptance that answered it, and a plan is    *)
(* retired once.                                                           *)
EXTENDS PlanRetire, TLAPS

Pcs == {"idle"} \cup AcceptPcs \cup RetirePcs \cup InitPcs

-----------------------------------------------------------------------------
(* Types of the parts.                                                     *)

\* What a receipt adds to the ledger.
LEMMA AppendSet ==
  ASSUME NEW S, NEW s \in Seq(S), NEW e \in S
  PROVE  /\ Append(s, e) \in Seq(S)
         /\ ToSet(s) \subseteq S
         /\ ToSet(Append(s, e)) = ToSet(s) \cup {e}
         /\ \A i \in DOMAIN Append(s, e) :
              \/ i \in DOMAIN s /\ Append(s, e)[i] = s[i]
              \/ i = Len(s) + 1 /\ Append(s, e)[i] = e
<1> DEFINE t == Append(s, e)
<1>1. /\ t \in Seq(S) /\ DOMAIN t = 1 .. Len(s) + 1 /\ DOMAIN s = 1 .. Len(s)
      /\ t[Len(s) + 1] = e /\ \A i \in 1 .. Len(s) : t[i] = s[i]
  OBVIOUS
<1>2. Len(s) \in Nat /\ \A i \in 1 .. Len(s) : s[i] \in S OBVIOUS
<1> HIDE DEF t
<1>3. ToSet(s) \subseteq S BY <1>1, <1>2 DEF ToSet
<1>4. \A i \in DOMAIN t : \/ i \in DOMAIN s /\ t[i] = s[i]
                          \/ i = Len(s) + 1 /\ t[i] = e
  BY <1>1, <1>2
<1>5. ToSet(t) \subseteq ToSet(s) \cup {e} BY <1>4 DEF ToSet
<1>6. Len(s) + 1 \in DOMAIN t /\ \A i \in DOMAIN s : i \in DOMAIN t /\ t[i] = s[i]
  BY <1>1, <1>2
<1>7. ToSet(s) \cup {e} \subseteq ToSet(t) BY <1>1, <1>6 DEF ToSet
<1> QED BY <1>1, <1>3, <1>4, <1>5, <1>7 DEF t

\* A plan file and its bytes.
LEMMA PlanTyped ==
  ASSUME TypeOK
  PROVE  /\ BytesOf(plan) \in Bytes /\ plan.gen \in 0 .. MaxGen
         /\ plan.id \in 0 .. MaxPlans /\ plan.work \in Work
         /\ BytesOf(plan).id = plan.id /\ BytesOf(plan).work = plan.work
         /\ BytesOf(plan).rev = plan.rev
         /\ plan # NoPlan <=> plan.gen # 0
         /\ plan # NoPlan <=> plan.id # 0
         /\ plan # NoPlan => plan \in Plan
<1>1. MaxGen \in Nat \ {0} /\ MaxPlans \in Nat \ {0} BY BoundsAssumption
<1>2. plan \in Plan \/ plan = NoPlan BY DEF TypeOK
<1>3. CASE plan = NoPlan BY <1>1, <1>3 DEF NoPlan, BytesOf, Bytes, Work
<1>4. CASE plan \in Plan BY <1>1, <1>4 DEF Plan, NoPlan, BytesOf, Bytes, Work
<1> QED BY <1>2, <1>3, <1>4

\* A replacement is a receipt that is no retirement.
LEMMA ReplacedTyped ==
  ASSUME NEW sha \in Bytes
  PROVE  /\ Replaced(sha) \in Receipt /\ Replaced(sha).disp = "replaced"
         /\ Replaced(sha).sha = sha /\ Replaced(sha).disp \notin Retirements
BY BoundsAssumption DEF Replaced, Receipt, Retirements

\* An idle command.
LEMMA IdleTyped ==
  /\ Idle \in Process /\ Idle.pc = "idle" /\ Idle.op = NoOp /\ NoOp \in Receipt
  /\ Idle.sha \in Bytes /\ NoOp.disp = "replaced" /\ NoOp.disp \notin Retirements
<1>1. BytesOf(NoPlan) \in Bytes
  BY BoundsAssumption DEF BytesOf, NoPlan, Bytes, Work
<1>2. NoOp \in Receipt /\ NoOp.disp = "replaced" /\ NoOp.disp \notin Retirements
  BY <1>1, ReplacedTyped DEF NoOp
<1> HIDE DEF NoOp
<1> QED BY <1>1, <1>2, BoundsAssumption DEF Idle, Process

\* The fields of a command.
LEMMA ProcessTyped ==
  ASSUME TypeOK, NEW p \in Processes
  PROVE  /\ proc[p] \in Process /\ proc[p].op \in Receipt /\ proc[p].pc \in Pcs
         /\ proc[p].op.sha \in Bytes /\ proc[p].op.proof \in 0 .. MaxProofs
         /\ proc[p].op.gen \in 0 .. MaxGen /\ proc[p].op.head \in 0 .. MaxHead
         /\ proc[p].op.disp \in Retirements \cup {"replaced"}
         /\ proc[p].ran \in 0 .. MaxPlans /\ proc[p].sha \in Bytes
         /\ proc[p].seen \in 0 .. MaxHead /\ proc[p].on \in 0 .. MaxHead
         /\ proc[p].passed \in BOOLEAN
BY DEF TypeOK, Process, Receipt, Pcs

\* One command takes a step, the others do not.
Others(p) == \A q \in Processes \ {p} : proc'[q] = proc[q]

LEMMA TurnMoves ==
  ASSUME TypeOK, NEW p \in Processes, NEW v \in Process, proc' = [proc EXCEPT ![p] = v]
  PROVE  proc' \in [Processes -> Process] /\ Others(p) /\ proc'[p] = v
BY DEF TypeOK, Others

\* A command goes on to its next step, and keeps what it knows.
LEMMA GoMoves ==
  ASSUME TypeOK, NEW p \in Processes, NEW pc \in Pcs, Go(p, pc)
  PROVE  /\ proc' \in [Processes -> Process] /\ Others(p)
         /\ proc'[p].pc = pc /\ proc'[p].op = proc[p].op /\ proc'[p].ran = proc[p].ran
         /\ proc'[p].sha = proc[p].sha /\ proc'[p].seen = proc[p].seen
         /\ proc'[p].on = proc[p].on /\ proc'[p].passed = proc[p].passed
<1> DEFINE v == [proc[p] EXCEPT !.pc = pc]
<1>1. proc[p] \in Process BY ProcessTyped
<1>2. /\ v \in Process /\ v.pc = pc /\ v.op = proc[p].op /\ v.ran = proc[p].ran
      /\ v.sha = proc[p].sha /\ v.seen = proc[p].seen
      /\ v.on = proc[p].on /\ v.passed = proc[p].passed
  BY <1>1 DEF Process, Pcs
<1>3. proc' = [proc EXCEPT ![p] = v] BY DEF Go
<1> HIDE DEF v
<1> QED BY <1>2, <1>3, TurnMoves

\* A command ends.
LEMMA QuitMoves ==
  ASSUME TypeOK, NEW p \in Processes, Quit(p)
  PROVE  /\ proc' \in [Processes -> Process] /\ Others(p) /\ proc'[p] = Idle
         /\ proc'[p].pc = "idle" /\ proc'[p].op.disp \notin Retirements
<1>1. proc' \in [Processes -> Process] /\ Others(p) /\ proc'[p] = Idle
  BY TurnMoves, IdleTyped DEF Quit
<1> QED BY <1>1, IdleTyped

\* An operation to begin, or begun.
LEMMA OperationTyped ==
  ASSUME TypeOK, NEW disp \in Retirements, NEW sha \in Bytes, NEW proof \in 0 .. MaxProofs
  PROVE  /\ Operation(disp, sha, proof) \in Receipt
         /\ Operation(disp, sha, proof).disp = disp /\ Operation(disp, sha, proof).sha = sha
         /\ Operation(disp, sha, proof).gen = plan.gen
         /\ Operation(disp, sha, proof).head = head
         /\ Operation(disp, sha, proof).proof = proof
<1>1. plan.gen \in 0 .. MaxGen /\ head \in 0 .. MaxHead BY PlanTyped DEF TypeOK
<1> QED BY <1>1 DEF Operation, Receipt

LEMMA KnownTyped == ASSUME TypeOK PROVE Known \subseteq Bytes
<1>1. ToSet(ledger) \subseteq Receipt
  <2>1. \A i \in DOMAIN ledger : ledger[i] \in Receipt BY DEF TypeOK
  <2> QED BY <2>1 DEF ToSet
<1>2. \A r \in Receipt : r.sha \in Bytes BY DEF Receipt
<1> QED BY <1>1, <1>2, PlanTyped DEF Known, TypeOK

\* A retirement begins: its proof is fresh, or that of the operation it replays.
LEMMA PreflightMoves ==
  ASSUME TypeOK, NEW p \in Processes, NEW disp \in Retirements, NEW sha \in Known,
         Preflight(p, disp, sha)
  PROVE  /\ proc' \in [Processes -> Process] /\ Others(p)
         /\ proc'[p].op \in Receipt
         /\ proc'[p].op.disp = disp /\ proc'[p].op.sha = sha
         /\ proc'[p].op.gen = plan.gen /\ proc'[p].op.head = head
         /\ \/ /\ proc'[p].pc \in {"finalize", "guard"}
               /\ proc'[p].op.proof = made.proofs + 1
               /\ made' = [made EXCEPT !.proofs = @ + 1] /\ made.proofs < MaxProofs
            \/ /\ proc'[p].pc = "finalize" /\ proc'[p].op.proof \in Begun(disp, sha)
               /\ made' = made
<1>1. sha \in Bytes BY KnownTyped
<1>2. made.proofs \in 0 .. MaxProofs BY DEF TypeOK
<1>3. Begun(disp, sha) \subseteq 0 .. MaxProofs
  <2>1. \A r \in Receipt : r.proof \in 0 .. MaxProofs BY DEF Receipt
  <2>2. ToSet(ledger) \subseteq Receipt
    <3>1. \A i \in DOMAIN ledger : ledger[i] \in Receipt BY DEF TypeOK
    <3> QED BY <3>1 DEF ToSet
  <2>3. intents \subseteq Receipt BY DEF TypeOK
  <2>4. Prior(sha) \subseteq Receipt BY <2>2 DEF Prior, RowsOf
  <2> QED BY <2>1, <2>3, <2>4 DEF Begun
<1>4. ASSUME NEW pc \in {"finalize", "guard"}, NEW proof \in 0 .. MaxProofs,
             proc' = [proc EXCEPT ![p] = [Idle EXCEPT !.pc = pc,
                                                      !.op = Operation(disp, sha, proof)]]
      PROVE  /\ proc' \in [Processes -> Process] /\ Others(p)
             /\ proc'[p].op \in Receipt
             /\ proc'[p].op.disp = disp /\ proc'[p].op.sha = sha
             /\ proc'[p].op.gen = plan.gen /\ proc'[p].op.head = head
             /\ proc'[p].op.proof = proof /\ proc'[p].pc = pc
  <2> DEFINE op == Operation(disp, sha, proof)
             v == [Idle EXCEPT !.pc = pc, !.op = op]
  <2>1. op \in Receipt /\ op.disp = disp /\ op.sha = sha /\ op.gen = plan.gen
        /\ op.head = head /\ op.proof = proof
    BY <1>1, OperationTyped
  <2> HIDE DEF op
  <2>2. v \in Process /\ v.pc = pc /\ v.op = op
    BY <2>1, IdleTyped DEF Process, AcceptPcs, RetirePcs
  <2>3. proc' = [proc EXCEPT ![p] = v] BY <1>4 DEF op
  <2> HIDE DEF v
  <2> QED BY <2>1, <2>2, <2>3, TurnMoves
<1>5. CASE /\ Begun(disp, sha) = {} /\ made.proofs < MaxProofs
           /\ made' = [made EXCEPT !.proofs = @ + 1]
           /\ proc' = [proc EXCEPT ![p] =
                [Idle EXCEPT !.pc = IF disp = "superseded" THEN "finalize" ELSE "guard",
                             !.op = Operation(disp, sha, made.proofs + 1)]]
  <2>1. made.proofs + 1 \in 0 .. MaxProofs BY <1>2, <1>5, BoundsAssumption
  <2>2. PICK pc \in {"finalize", "guard"} :
          pc = IF disp = "superseded" THEN "finalize" ELSE "guard"
    OBVIOUS
  <2>3. proc' = [proc EXCEPT ![p] = [Idle EXCEPT !.pc = pc,
                              !.op = Operation(disp, sha, made.proofs + 1)]]
    BY <1>5, <2>2
  <2> QED BY <1>4, <1>5, <2>1, <2>3
<1>6. CASE /\ \E proof \in Begun(disp, sha) :
                proc' = [proc EXCEPT ![p] =
                  [Idle EXCEPT !.pc = "finalize", !.op = Operation(disp, sha, proof)]]
           /\ made' = made
  <2>1. PICK proof \in Begun(disp, sha) :
          proc' = [proc EXCEPT ![p] =
            [Idle EXCEPT !.pc = "finalize", !.op = Operation(disp, sha, proof)]]
    BY <1>6
  <2> QED BY <1>3, <1>4, <1>6, <2>1
<1> QED BY <1>5, <1>6 DEF Preflight

\* What the command reads, freezes and learns.
LEMMA ReadMoves ==
  ASSUME TypeOK, NEW p \in Processes, ReadCommand(p)
  PROVE  /\ proc' \in [Processes -> Process] /\ Others(p) /\ proc[p].pc = "command"
         /\ proc'[p].pc = "freeze" /\ proc'[p].op = proc[p].op /\ proc'[p].ran = plan.id
<1> DEFINE v == [proc[p] EXCEPT !.pc = "freeze", !.ran = plan.id]
<1>1. proc[p] \in Process /\ plan.id \in 0 .. MaxPlans BY ProcessTyped, PlanTyped
<1>2. v \in Process /\ v.pc = "freeze" /\ v.op = proc[p].op /\ v.ran = plan.id
  BY <1>1 DEF Process, AcceptPcs
<1>3. proc' = [proc EXCEPT ![p] = v] BY DEF ReadCommand
<1> HIDE DEF v
<1> QED BY <1>2, <1>3, TurnMoves DEF ReadCommand

LEMMA FreezeMoves ==
  ASSUME TypeOK, NEW p \in Processes, Freeze(p)
  PROVE  /\ proc' \in [Processes -> Process] /\ Others(p) /\ proc[p].pc = "freeze"
         /\ proc'[p].pc = "run" /\ proc'[p].op = proc[p].op /\ proc'[p].ran = proc[p].ran
         /\ proc'[p].sha = BytesOf(plan) /\ proc'[p].seen = head
<1> DEFINE v == [proc[p] EXCEPT !.pc = "run", !.sha = BytesOf(plan), !.seen = head]
<1>1. proc[p] \in Process /\ BytesOf(plan) \in Bytes /\ head \in 0 .. MaxHead
  BY ProcessTyped, PlanTyped DEF TypeOK
<1>2. v \in Process /\ v.pc = "run" /\ v.op = proc[p].op /\ v.ran = proc[p].ran
      /\ v.sha = BytesOf(plan) /\ v.seen = head
  BY <1>1 DEF Process, AcceptPcs
<1>3. proc' = [proc EXCEPT ![p] = v] BY DEF Freeze
<1> HIDE DEF v
<1> QED BY <1>2, <1>3, TurnMoves DEF Freeze

LEMMA RunMoves ==
  ASSUME TypeOK, NEW p \in Processes, RunCommand(p)
  PROVE  /\ proc' \in [Processes -> Process] /\ Others(p) /\ proc[p].pc = "run"
         /\ \/ /\ proc'[p].pc = "record" /\ proc'[p].op = proc[p].op
               /\ proc'[p].ran = proc[p].ran /\ proc'[p].seen = proc[p].seen
               /\ proc'[p].on = head /\ proc'[p].passed
            \/ proc'[p] = Idle
<1> DEFINE v == [proc[p] EXCEPT !.pc = "record", !.on = head, !.passed = TRUE]
<1>1. proc[p] \in Process /\ head \in 0 .. MaxHead BY ProcessTyped DEF TypeOK
<1>2. v \in Process /\ v.pc = "record" /\ v.op = proc[p].op /\ v.ran = proc[p].ran
      /\ v.seen = proc[p].seen /\ v.on = head /\ v.passed
  BY <1>1 DEF Process, AcceptPcs
<1>3. proc' = [proc EXCEPT ![p] = v] \/ Quit(p) BY DEF RunCommand
<1> HIDE DEF v
<1> QED BY <1>2, <1>3, TurnMoves, QuitMoves DEF RunCommand

LEMMA RecordMoves ==
  ASSUME TypeOK, NEW p \in Processes, Record(p)
  PROVE  /\ proc' \in [Processes -> Process] /\ Others(p) /\ proc[p].pc = "record"
         /\ \/ /\ Undisturbed(p) /\ proc[p].op # NoOp
               /\ progress' = progress \cup {Row(p)}
               /\ proc'[p].pc = "finalize" /\ proc'[p].op = proc[p].op
            \/ progress' = progress /\ proc'[p] = Idle
<1> DEFINE v == [Idle EXCEPT !.pc = "finalize", !.op = proc[p].op]
<1>1. v \in Process /\ v.pc = "finalize" /\ v.op = proc[p].op
  BY ProcessTyped, IdleTyped DEF Process, RetirePcs
<1>2. \/ /\ Undisturbed(p) /\ proc[p].op # NoOp
         /\ progress' = progress \cup {Row(p)} /\ proc' = [proc EXCEPT ![p] = v]
      \/ progress' = progress /\ Quit(p)
  BY DEF Record
<1> HIDE DEF v
<1> QED BY <1>1, <1>2, TurnMoves, QuitMoves DEF Record

\* The row of a verdict.
LEMMA RowTyped ==
  ASSUME TypeOK, NEW p \in Processes
  PROVE  /\ Row(p) \in Acceptance
         /\ Row(p).proof = proc[p].op.proof /\ Row(p).sha = proc[p].sha
         /\ Row(p).gen = proc[p].op.gen /\ Row(p).head = head /\ Row(p).ran = proc[p].ran
         /\ Row(p).on = proc[p].on /\ Row(p).passed = proc[p].passed
<1>1. head \in 0 .. MaxHead BY DEF TypeOK
<1> QED BY <1>1, ProcessTyped DEF Row, Acceptance

LEMMA InitOverMoves ==
  ASSUME TypeOK, NEW p \in Processes, InitOver(p)
  PROVE  /\ proc' \in [Processes -> Process] /\ Others(p) /\ proc[p].pc = "idle"
         /\ proc'[p].pc = "init_archive" /\ proc'[p].op = Replaced(BytesOf(plan))
<1> DEFINE v == [proc[p] EXCEPT !.pc = "init_archive", !.op = Replaced(BytesOf(plan))]
<1>1. proc[p] \in Process /\ Replaced(BytesOf(plan)) \in Receipt
  BY ProcessTyped, PlanTyped, ReplacedTyped
<1>2. v \in Process /\ v.pc = "init_archive" /\ v.op = Replaced(BytesOf(plan))
  BY <1>1 DEF Process, InitPcs
<1>3. proc' = [proc EXCEPT ![p] = v] BY DEF InitOver
<1> HIDE DEF v
<1> QED BY <1>2, <1>3, TurnMoves DEF InitOver

\* A new plan.
LEMMA NewPlanMoves ==
  ASSUME TypeOK, NewPlan
  PROVE  /\ plan' \in Plan /\ plan'.gen = made.gen + 1 /\ plan'.id = made.plans + 1
         /\ made' \in [gen : 1 .. MaxGen, plans : 1 .. MaxPlans, proofs : 0 .. MaxProofs]
         /\ made'.gen = made.gen + 1 /\ made'.proofs = made.proofs
<1>1. /\ made \in [gen : 1 .. MaxGen, plans : 1 .. MaxPlans, proofs : 0 .. MaxProofs]
      /\ made.gen < MaxGen /\ made.plans < MaxPlans /\ MaxGen \in Nat /\ MaxPlans \in Nat
  BY BoundsAssumption DEF NewPlan, NewGen, TypeOK
<1>2. made.gen + 1 \in 1 .. MaxGen /\ made.plans + 1 \in 1 .. MaxPlans BY <1>1
<1> QED BY <1>1, <1>2 DEF NewPlan, Plan, Work

-----------------------------------------------------------------------------
(* Types are kept.                                                         *)

\* The constants as numbers, and the counters that move.
LEMMA CountersTyped ==
  ASSUME TypeOK
  PROVE  /\ MaxGen \in Nat /\ MaxPlans \in Nat /\ MaxProofs \in Nat
         /\ MaxHead \in Nat /\ MaxFaults \in Nat
         /\ made \in [gen : 1 .. MaxGen, plans : 1 .. MaxPlans, proofs : 0 .. MaxProofs]
         /\ made.gen \in 1 .. MaxGen /\ made.proofs \in 0 .. MaxProofs
         /\ head \in 0 .. MaxHead /\ faults \in 0 .. MaxFaults
BY BoundsAssumption DEF TypeOK

\* What a step of a command leaves typed, when it writes no plan.
LEMMA AcceptTyped ==
  ASSUME TypeOK, NEW p \in Processes,
         \/ AcceptGuard(p) \/ ReadCommand(p) \/ Freeze(p) \/ RunCommand(p) \/ Refuse(p)
         \/ Record(p)
  PROVE  TypeOK'
<1>1. CASE AcceptGuard(p)
  <2>1. proc' \in [Processes -> Process]
    BY <1>1, GoMoves DEF AcceptGuard, Pcs, AcceptPcs
  <2> QED BY <1>1, <2>1 DEF AcceptGuard, Guard, TypeOK
<1>2. CASE ReadCommand(p) BY <1>2, ReadMoves DEF ReadCommand, TypeOK
<1>3. CASE Freeze(p) BY <1>3, FreezeMoves DEF Freeze, TypeOK
<1>4. CASE RunCommand(p) BY <1>4, RunMoves DEF RunCommand, TypeOK
<1>5. CASE Refuse(p) BY <1>5, QuitMoves DEF Refuse, TypeOK
<1>6. CASE Record(p)
  <2>1. proc' \in [Processes -> Process] /\ progress' \subseteq Acceptance
    BY <1>6, RecordMoves, RowTyped DEF TypeOK
  <2> QED BY <1>6, <2>1 DEF Record, TypeOK
<1> QED BY <1>1, <1>2, <1>3, <1>4, <1>5, <1>6

LEMMA RetireTyped ==
  ASSUME TypeOK, NEW p \in Processes,
         \/ Retire(p) \/ Finalize(p) \/ FinalizeDone(p) \/ WriteIntent(p)
         \/ WriteArchive(p) \/ WriteReceipt(p) \/ Unlink(p) \/ Clear(p)
  PROVE  TypeOK'
<1>1. CASE Retire(p)
  <2>1. PICK disp \in Retirements, sha \in Known : Preflight(p, disp, sha)
    BY <1>1 DEF Retire
  <2>2. proc' \in [Processes -> Process] BY <2>1, PreflightMoves
  <2>3. made' = made \/ (made' = [made EXCEPT !.proofs = @ + 1] /\ made.proofs < MaxProofs)
    BY <2>1 DEF Preflight
  <2>4. made' \in [gen : 1 .. MaxGen, plans : 1 .. MaxPlans, proofs : 0 .. MaxProofs]
    BY <2>3, CountersTyped
  <2> QED BY <2>1, <2>2, <2>4 DEF Preflight, TypeOK
<1>2. CASE Finalize(p)
  <2>1. NextWrite(proc[p].op) \in Pcs BY DEF NextWrite, Pcs, RetirePcs
  <2>2. proc' \in [Processes -> Process] BY <1>2, <2>1, GoMoves DEF Finalize
  <2> QED BY <1>2, <2>2 DEF Finalize, TypeOK
<1>3. CASE FinalizeDone(p) BY <1>3, QuitMoves DEF FinalizeDone, TypeOK
<1>4. CASE WriteIntent(p)
  <2>1. proc' \in [Processes -> Process] BY <1>4, GoMoves DEF WriteIntent, Pcs, RetirePcs
  <2>2. proc[p].op \in Receipt BY ProcessTyped
  <2> QED BY <1>4, <2>1, <2>2 DEF WriteIntent, TypeOK
<1>5. CASE WriteArchive(p)
  <2>1. proc' \in [Processes -> Process] BY <1>5, GoMoves DEF WriteArchive, Pcs, RetirePcs
  <2>2. proc[p].op.sha \in Bytes BY ProcessTyped
  <2> QED BY <1>5, <2>1, <2>2 DEF WriteArchive, TypeOK
<1>6. CASE WriteReceipt(p)
  <2>1. proc' \in [Processes -> Process] BY <1>6, GoMoves DEF WriteReceipt, Pcs, RetirePcs
  <2>2. proc[p].op \in Receipt BY ProcessTyped
  <2>3. ledger' \in Seq(Receipt)
    BY <1>6, <2>2, AppendSet DEF WriteReceipt, Receipted, TypeOK
  <2> QED BY <1>6, <2>1, <2>3 DEF WriteReceipt, TypeOK
<1>7. CASE Unlink(p)
  <2>1. proc' \in [Processes -> Process] BY <1>7, GoMoves DEF Unlink, Pcs, RetirePcs
  <2> QED BY <1>7, <2>1 DEF Unlink, TypeOK
<1>8. CASE Clear(p) BY <1>8, QuitMoves DEF Clear, TypeOK
<1> QED BY <1>1, <1>2, <1>3, <1>4, <1>5, <1>6, <1>7, <1>8

LEMMA InitTyped ==
  ASSUME TypeOK, NEW p \in Processes,
         \/ InitOver(p) \/ InitArchive(p) \/ InitReceipt(p) \/ InitSave(p) \/ Kill(p)
  PROVE  TypeOK'
<1>1. CASE InitOver(p)
  <2>1. proc' \in [Processes -> Process] BY <1>1, InitOverMoves
  <2> QED BY <1>1, <2>1 DEF InitOver, Guard, TypeOK
<1>2. CASE InitArchive(p)
  <2>1. proc' \in [Processes -> Process] BY <1>2, GoMoves DEF InitArchive, Pcs, InitPcs
  <2>2. proc[p].op.sha \in Bytes BY ProcessTyped
  <2> QED BY <1>2, <2>1, <2>2 DEF InitArchive, TypeOK
<1>3. CASE InitReceipt(p)
  <2>1. proc' \in [Processes -> Process] BY <1>3, GoMoves DEF InitReceipt, Pcs, InitPcs
  <2>2. proc[p].op \in Receipt BY ProcessTyped
  <2>3. ledger' \in Seq(Receipt) BY <1>3, <2>2, AppendSet DEF InitReceipt, TypeOK
  <2> QED BY <1>3, <2>1, <2>3 DEF InitReceipt, TypeOK
<1>4. CASE InitSave(p) BY <1>4, QuitMoves, NewPlanMoves DEF InitSave, TypeOK
<1>5. CASE Kill(p)
  <2>1. faults' \in 0 .. MaxFaults BY <1>5, CountersTyped DEF Kill
  <2> QED BY <1>5, <2>1, QuitMoves DEF Kill, TypeOK
<1> QED BY <1>1, <1>2, <1>3, <1>4, <1>5

\* Only a plan that was there has been archived.
ArchivesReal == \A b \in archives : b.id # 0 /\ b.rev # 0

LEMMA OutsideTyped ==
  ASSUME TypeOK, ArchivesReal,
         \/ \E disp \in Retirements, sha \in Known : PreflightDone(disp, sha)
         \/ InitFresh \/ WorkOn \/ Restore \/ Commit
  PROVE  TypeOK'
<1>1. CASE \E disp \in Retirements, sha \in Known : PreflightDone(disp, sha)
  BY <1>1 DEF PreflightDone, TypeOK
<1>2. CASE InitFresh BY <1>2, NewPlanMoves DEF InitFresh, Guard, TypeOK
<1>3. CASE WorkOn
  <2>1. PICK w \in Work :
          plan' = [plan EXCEPT !.work = w, !.rev = made.gen + 1, !.gen = made.gen + 1]
    BY <1>3 DEF WorkOn
  <2>2. plan \in Plan BY <1>3, PlanTyped DEF WorkOn
  <2>6. made.gen < MaxGen BY <1>3 DEF WorkOn, NewGen
  <2>3. made.gen + 1 \in 1 .. MaxGen BY <2>6, CountersTyped
  <2>4. plan' \in Plan BY <2>1, <2>2, <2>3 DEF Plan
  <2>5. made' \in [gen : 1 .. MaxGen, plans : 1 .. MaxPlans, proofs : 0 .. MaxProofs]
    BY <1>3, <2>3, CountersTyped DEF WorkOn
  <2> QED BY <1>3, <2>4, <2>5 DEF WorkOn, Guard, TypeOK
<1>4. CASE Restore
  <2>1. PICK b \in archives :
          plan' = [id |-> b.id, rev |-> b.rev, work |-> b.work, gen |-> made.gen + 1]
    BY <1>4 DEF Restore
  <2>2. b \in Bytes /\ b.id # 0 /\ b.rev # 0 BY DEF TypeOK, ArchivesReal
  <2>3. made.gen + 1 \in 1 .. MaxGen BY <1>4, CountersTyped DEF Restore, NewGen
  <2>4. b.id \in 1 .. MaxPlans /\ b.rev \in 1 .. MaxGen /\ b.work \in Work
    BY <2>2, CountersTyped DEF Bytes
  <2>6. plan' \in Plan BY <2>1, <2>3, <2>4 DEF Plan
  <2>5. made' \in [gen : 1 .. MaxGen, plans : 1 .. MaxPlans, proofs : 0 .. MaxProofs]
    BY <1>4, <2>3, CountersTyped DEF Restore
  <2> QED BY <1>4, <2>6, <2>5 DEF Restore, TypeOK
<1>5. CASE Commit
  <2>1. head' \in 0 .. MaxHead BY <1>5, CountersTyped DEF Commit
  <2> QED BY <1>5, <2>1 DEF Commit, TypeOK
<1> QED BY <1>1, <1>2, <1>3, <1>4, <1>5

-----------------------------------------------------------------------------
(* The operations under way or on record: what the commands at work carry,  *)
(* what the intents announce and what the receipts say.                     *)

Retiring(p) == proc[p].op.disp \in Retirements
RetiredRows == {r \in ToSet(ledger) : r.disp \in Retirements}
Operations == intents \cup RetiredRows \cup {proc[p].op : p \in {q \in Processes : Retiring(q)}}

\* An operation is of one generation of the file, which holds the bytes it
\* names, and its proof is of these bytes.
OperationsNamed ==
  /\ \A x \in Operations : /\ x.disp \in Retirements
                           /\ x.proof \in 1 .. made.proofs /\ x.gen \in 1 .. made.gen
                           /\ x.gen = plan.gen => x.sha = BytesOf(plan)
  /\ \A x, y \in Operations : x.proof = y.proof => x.sha = y.sha
  /\ plan.gen <= made.gen

\* Nothing answers to the proof of an acceptance that is still running.
Unanswered(p) ==
  Retiring(p) /\ proc[p].pc \in AcceptPcs =>
    /\ \A row \in progress : row.proof # proc[p].op.proof
    /\ \A x \in intents \cup RetiredRows : x.proof # proc[p].op.proof
    /\ \A q \in Processes \ {p} : Retiring(q) => proc[q].op.proof # proc[p].op.proof

\* What an acceptance has seen so far.
Witnessed(p) ==
  /\ Retiring(p) /\ proc[p].pc \in {"freeze", "run", "record"} /\ plan.gen = proc[p].op.gen =>
       proc[p].ran = proc[p].op.sha.id
  /\ proc[p].pc \in {"run", "record"} => proc[p].seen <= head
  /\ proc[p].pc = "record" =>
       proc[p].seen <= proc[p].on /\ proc[p].on <= head /\ proc[p].passed

\* Every acceptance row says what ran.
RowsTrue == \A row \in progress : /\ row.passed /\ row.ran = row.sha.id
                                 /\ row.on = row.head /\ row.proof <= made.proofs

\* Which operation a command carries, and which commands hold the plan lock.
WritePcs == {"intent", "archive", "receipt", "unlink", "clear"}
Carries(p) ==
  /\ proc[p].pc = "idle" => proc[p] = Idle
  /\ proc[p].pc \in RetirePcs => Retiring(p)
  /\ proc[p].pc \in AcceptPcs => Retiring(p) \/ proc[p].op = NoOp
  /\ proc[p].pc \in InitPcs => proc[p].op = Replaced(proc[p].op.sha)
  /\ proc[p].pc \in WritePcs \cup InitPcs => lock = p

\* What a retirement that holds the lock has checked and written, at its pc.
HoldsFor(pc, op) ==
  /\ pc \in WritePcs =>
       /\ op.sha.work # "busy" /\ (op.disp = "superseded" => op.sha.work = "closed")
       /\ op.disp = "completed-external" => Proven(op)
       /\ IntentsOf(op) \subseteq {op}
  /\ pc \in WritePcs \ {"clear"} => plan.gen = op.gen
  /\ pc \in WritePcs \ {"intent"} => op \in intents
  /\ pc \in {"receipt", "unlink", "clear"} => op.sha \in archives
  /\ pc \in {"unlink", "clear"} => op \in ToSet(ledger)
  /\ pc = "clear" => plan = NoPlan
RetireHolds(p) == HoldsFor(proc[p].pc, proc[p].op)

\* What an init that holds the lock has.
InitFor(pc, sha) ==
  /\ pc \in InitPcs => plan # NoPlan /\ BytesOf(plan) = sha /\ Prior(sha) = {}
  /\ pc \in {"init_receipt", "init_save"} => sha \in archives
  /\ pc = "init_save" => \E r \in ToSet(ledger) : r.sha = sha /\ r.disp = "replaced"
InitHolds(p) == InitFor(proc[p].pc, proc[p].op.sha)

\* A plan whose receipt is written, and that is still there, has its intent.
StillIntended == \A r \in RetiredRows : r.gen = plan.gen => r \in intents

RetireInv ==
  /\ OperationsNamed /\ RowsTrue /\ StillIntended /\ RetiredOnce /\ ArchivesReal
  /\ \A p \in Processes : /\ Unanswered(p) /\ Witnessed(p) /\ Carries(p)
                          /\ RetireHolds(p) /\ InitHolds(p)

IInv == TypeOK /\ RetireInv

-----------------------------------------------------------------------------
(* What a step may change.                                                 *)

Step(p) ==
  \/ Retire(p) \/ AcceptGuard(p) \/ ReadCommand(p) \/ Freeze(p) \/ RunCommand(p)
  \/ Record(p) \/ Finalize(p) \/ FinalizeDone(p) \/ WriteIntent(p) \/ WriteArchive(p)
  \/ WriteReceipt(p) \/ Unlink(p) \/ Clear(p) \/ InitOver(p) \/ InitArchive(p)
  \/ InitReceipt(p) \/ InitSave(p) \/ Refuse(p) \/ Kill(p)
Outside ==
  \/ \E disp \in Retirements, sha \in Known : PreflightDone(disp, sha)
  \/ InitFresh \/ WorkOn \/ Restore \/ Commit

LEMMA StepCases ==
  ASSUME Next
  PROVE  Outside \/ \E p \in Processes : Step(p)
BY DEF Next, Outside, Step

LEMMA OutsideProc == ASSUME Outside PROVE proc' = proc
BY DEF Outside, PreflightDone, InitFresh, WorkOn, Restore, Commit

\* Only the command that takes the step moves.
LEMMA StepOthers ==
  ASSUME TypeOK, NEW p \in Processes, Step(p)
  PROVE  Others(p)
<1>1. CASE Retire(p) BY <1>1, PreflightMoves DEF Retire
<1>2. CASE AcceptGuard(p) BY <1>2, GoMoves DEF AcceptGuard, Pcs, AcceptPcs
<1>3. CASE ReadCommand(p) BY <1>3, ReadMoves
<1>4. CASE Freeze(p) BY <1>4, FreezeMoves
<1>5. CASE RunCommand(p) BY <1>5, RunMoves
<1>6. CASE Record(p) BY <1>6, RecordMoves
<1>7. CASE Finalize(p)
  <2>1. NextWrite(proc[p].op) \in Pcs BY DEF NextWrite, Pcs, RetirePcs
  <2> QED BY <1>7, <2>1, GoMoves DEF Finalize
<1>8. CASE FinalizeDone(p) BY <1>8, QuitMoves DEF FinalizeDone
<1>9. CASE WriteIntent(p) BY <1>9, GoMoves DEF WriteIntent, Pcs, RetirePcs
<1>10. CASE WriteArchive(p) BY <1>10, GoMoves DEF WriteArchive, Pcs, RetirePcs
<1>11. CASE WriteReceipt(p) BY <1>11, GoMoves DEF WriteReceipt, Pcs, RetirePcs
<1>12. CASE Unlink(p) BY <1>12, GoMoves DEF Unlink, Pcs, RetirePcs
<1>13. CASE Clear(p) BY <1>13, QuitMoves DEF Clear
<1>14. CASE InitOver(p) BY <1>14, InitOverMoves
<1>15. CASE InitArchive(p) BY <1>15, GoMoves DEF InitArchive, Pcs, InitPcs
<1>16. CASE InitReceipt(p) BY <1>16, GoMoves DEF InitReceipt, Pcs, InitPcs
<1>17. CASE InitSave(p) BY <1>17, QuitMoves DEF InitSave
<1>18. CASE Refuse(p) BY <1>18, QuitMoves DEF Refuse
<1>19. CASE Kill(p) BY <1>19, QuitMoves DEF Kill
<1> QED
  BY <1>1, <1>2, <1>3, <1>4, <1>5, <1>6, <1>7, <1>8, <1>9, <1>10, <1>11, <1>12, <1>13,
     <1>14, <1>15, <1>16, <1>17, <1>18, <1>19 DEF Step

\* A command keeps its operation, begins one, or has none.
LEMMA StepOperation ==
  ASSUME TypeOK, NEW p \in Processes, Step(p), ~Retire(p)
  PROVE  proc'[p].op = proc[p].op \/ proc'[p].op.disp \notin Retirements
<1>2. CASE AcceptGuard(p) BY <1>2, GoMoves DEF AcceptGuard, Pcs, AcceptPcs
<1>3. CASE ReadCommand(p) BY <1>3, ReadMoves
<1>4. CASE Freeze(p) BY <1>4, FreezeMoves
<1>5. CASE RunCommand(p) BY <1>5, RunMoves, IdleTyped
<1>6. CASE Record(p) BY <1>6, RecordMoves, IdleTyped
<1>7. CASE Finalize(p)
  <2>1. NextWrite(proc[p].op) \in Pcs BY DEF NextWrite, Pcs, RetirePcs
  <2> QED BY <1>7, <2>1, GoMoves DEF Finalize
<1>8. CASE FinalizeDone(p) BY <1>8, QuitMoves DEF FinalizeDone
<1>9. CASE WriteIntent(p) BY <1>9, GoMoves DEF WriteIntent, Pcs, RetirePcs
<1>10. CASE WriteArchive(p) BY <1>10, GoMoves DEF WriteArchive, Pcs, RetirePcs
<1>11. CASE WriteReceipt(p) BY <1>11, GoMoves DEF WriteReceipt, Pcs, RetirePcs
<1>12. CASE Unlink(p) BY <1>12, GoMoves DEF Unlink, Pcs, RetirePcs
<1>13. CASE Clear(p) BY <1>13, QuitMoves DEF Clear
<1>14. CASE InitOver(p) BY <1>14, InitOverMoves, PlanTyped, ReplacedTyped
<1>15. CASE InitArchive(p) BY <1>15, GoMoves DEF InitArchive, Pcs, InitPcs
<1>16. CASE InitReceipt(p) BY <1>16, GoMoves DEF InitReceipt, Pcs, InitPcs
<1>17. CASE InitSave(p) BY <1>17, QuitMoves DEF InitSave
<1>18. CASE Refuse(p) BY <1>18, QuitMoves DEF Refuse
<1>19. CASE Kill(p) BY <1>19, QuitMoves DEF Kill
<1> QED
  BY <1>2, <1>3, <1>4, <1>5, <1>6, <1>7, <1>8, <1>9, <1>10, <1>11, <1>12, <1>13,
     <1>14, <1>15, <1>16, <1>17, <1>18, <1>19 DEF Step

\* How each shared record moves.
PlanMoves ==
  /\ made.gen <= made'.gen /\ made.proofs <= made'.proofs /\ head <= head'
  /\ plan' = plan \/ plan' = NoPlan \/ (made.gen < plan'.gen /\ plan'.gen <= made'.gen)

LEMMA PlanStep ==
  ASSUME TypeOK, Next
  PROVE  PlanMoves
<1>0. made.gen \in Nat /\ made.proofs \in Nat /\ head \in Nat BY CountersTyped
<1>1. CASE \E p \in Processes : Retire(p)
  <2>1. PICK p \in Processes, disp \in Retirements, sha \in Known : Preflight(p, disp, sha)
    BY <1>1 DEF Retire
  <2>2. plan' = plan /\ head' = head BY <2>1 DEF Preflight
  <2>3. made' = made \/ made' = [made EXCEPT !.proofs = @ + 1] BY <2>1 DEF Preflight
  <2>4. made'.gen = made.gen /\ made.proofs <= made'.proofs
    BY <1>0, <2>3, CountersTyped
  <2> QED BY <1>0, <2>2, <2>4 DEF PlanMoves
<1>2. CASE \E p \in Processes : InitSave(p)
  BY <1>0, <1>2, NewPlanMoves DEF InitSave, PlanMoves
<1>3. CASE InitFresh BY <1>0, <1>3, NewPlanMoves DEF InitFresh, PlanMoves
<1>4. CASE WorkOn
  <2>2. PICK w \in Work :
          plan' = [plan EXCEPT !.work = w, !.rev = made.gen + 1, !.gen = made.gen + 1]
    BY <1>4 DEF WorkOn
  <2>3. plan \in Plan BY <1>4, PlanTyped DEF WorkOn
  <2>4. plan'.gen = made.gen + 1 BY <2>2, <2>3 DEF Plan
  <2>5. made' = [made EXCEPT !.gen = @ + 1] /\ head' = head BY <1>4 DEF WorkOn
  <2>6. made'.gen = made.gen + 1 /\ made'.proofs = made.proofs BY <2>5, CountersTyped
  <2> QED BY <1>0, <2>4, <2>5, <2>6 DEF PlanMoves
<1>5. CASE Restore
  <2>1. plan'.gen = made.gen + 1 BY <1>5 DEF Restore
  <2>2. made' = [made EXCEPT !.gen = @ + 1] /\ head' = head BY <1>5 DEF Restore
  <2>3. made'.gen = made.gen + 1 /\ made'.proofs = made.proofs BY <2>2, CountersTyped
  <2> QED BY <1>0, <2>1, <2>2, <2>3 DEF PlanMoves
<1>6. CASE Commit BY <1>0, <1>6 DEF Commit, PlanMoves
<1>7. CASE \E p \in Processes : Unlink(p) BY <1>0, <1>7 DEF Unlink, PlanMoves
<1>8. CASE \E disp \in Retirements, sha \in Known : PreflightDone(disp, sha)
  BY <1>0, <1>8 DEF PreflightDone, PlanMoves
<1>9. ASSUME NEW p \in Processes, Step(p), ~Retire(p), ~InitSave(p), ~Unlink(p)
      PROVE  PlanMoves
  <2>1. plan' = plan /\ made' = made /\ head' = head
    BY <1>9 DEF Step, AcceptGuard, ReadCommand, Freeze, RunCommand, Record, Finalize,
                FinalizeDone, WriteIntent, WriteArchive, WriteReceipt, Clear, InitOver,
                InitArchive, InitReceipt, Refuse, Kill
  <2> QED BY <1>0, <2>1 DEF PlanMoves
<1> QED BY <1>1, <1>2, <1>3, <1>4, <1>5, <1>6, <1>7, <1>8, <1>9, StepCases DEF Outside

\* An intent appears when it is written, and goes when its retirement is over.
LEMMA IntentStep ==
  ASSUME Next
  PROVE  \/ intents' = intents
         \/ \E p \in Processes : WriteIntent(p)
         \/ Guard
         \/ \E p \in Processes : Clear(p)
         \/ \E disp \in Retirements, sha \in Known :
              /\ AlreadyRetired(disp, sha) /\ plan' = plan
              /\ intents' = {i \in intents : i.sha # sha}
         \/ \E p \in Processes : FinalizeDone(p)
<1>1. CASE Outside
  BY <1>1 DEF Outside, PreflightDone, InitFresh, WorkOn, Restore, Commit
<1>2. ASSUME NEW p \in Processes, Step(p), ~WriteIntent(p), ~Clear(p), ~FinalizeDone(p)
      PROVE  intents' = intents \/ Guard
  BY <1>2 DEF Step, Retire, Preflight, AcceptGuard, ReadCommand, Freeze, RunCommand,
              Record, Finalize, WriteArchive, WriteReceipt, Unlink, InitOver,
              InitArchive, InitReceipt, InitSave, Refuse, Kill
<1> QED BY <1>1, <1>2, StepCases

\* Who writes the other records.
LEMMA RecordStep ==
  ASSUME Next
  PROVE  /\ ledger' = ledger \/ \E p \in Processes : WriteReceipt(p) \/ InitReceipt(p)
         /\ archives' = archives \/ \E p \in Processes : WriteArchive(p) \/ InitArchive(p)
         /\ progress' = progress \/ \E p \in Processes : Record(p)
<1>1. CASE Outside
  BY <1>1 DEF Outside, PreflightDone, InitFresh, WorkOn, Restore, Commit
<1>2. ASSUME NEW p \in Processes, Step(p), ~WriteReceipt(p), ~InitReceipt(p)
      PROVE  ledger' = ledger
  BY <1>2 DEF Step, Retire, Preflight, AcceptGuard, ReadCommand, Freeze, RunCommand,
              Record, Finalize, FinalizeDone, WriteIntent, WriteArchive, Unlink, Clear,
              InitOver, InitArchive, InitSave, Refuse, Kill
<1>3. ASSUME NEW p \in Processes, Step(p), ~WriteArchive(p), ~InitArchive(p)
      PROVE  archives' = archives
  BY <1>3 DEF Step, Retire, Preflight, AcceptGuard, ReadCommand, Freeze, RunCommand,
              Record, Finalize, FinalizeDone, WriteIntent, WriteReceipt, Unlink, Clear,
              InitOver, InitReceipt, InitSave, Refuse, Kill
<1>4. ASSUME NEW p \in Processes, Step(p), ~Record(p)
      PROVE  progress' = progress
  BY <1>4 DEF Step, Retire, Preflight, AcceptGuard, ReadCommand, Freeze, RunCommand,
              Finalize, FinalizeDone, WriteIntent, WriteArchive, WriteReceipt, Unlink,
              Clear, InitOver, InitArchive, InitReceipt, InitSave, Refuse, Kill
<1> QED BY <1>1, <1>2, <1>3, <1>4, StepCases

LEMMA NextTyped ==
  ASSUME IInv, Next
  PROVE  TypeOK'
<1>1. TypeOK /\ ArchivesReal BY DEF IInv, RetireInv
<1>2. CASE Outside BY <1>1, <1>2, OutsideTyped DEF Outside
<1>3. CASE \E p \in Processes : Step(p)
  <2>1. PICK p \in Processes : Step(p) BY <1>3
  <2> QED BY <1>1, <2>1, AcceptTyped, RetireTyped, InitTyped DEF Step
<1> QED BY <1>2, <1>3, StepCases

-----------------------------------------------------------------------------
(* Operations are named once, and stay what they are.                      *)

LEMMA OperationsTyped ==
  ASSUME TypeOK
  PROVE  Operations \subseteq Receipt /\ ToSet(ledger) \subseteq Receipt
<1>1. \A i \in DOMAIN ledger : ledger[i] \in Receipt BY DEF TypeOK
<1>2. ToSet(ledger) \subseteq Receipt BY <1>1 DEF ToSet
<1>3. \A p \in Processes : proc[p].op \in Receipt BY ProcessTyped
<1> QED BY <1>2, <1>3 DEF Operations, RetiredRows, TypeOK

\* An operation begins on the plan as it is, with a fresh proof or with that of the
\* operation on the same bytes that it replays.
Began(x) ==
  /\ x.disp \in Retirements /\ x.gen = plan.gen /\ x.sha = BytesOf(plan)
  /\ plan' = plan /\ plan # NoPlan
  /\ \/ x.proof = made.proofs + 1 /\ made'.proofs = made.proofs + 1
     \/ \E y \in intents \cup RetiredRows : y.proof = x.proof /\ y.sha = x.sha

LEMMA RetireBegins ==
  ASSUME IInv, NEW p \in Processes, Retire(p)
  PROVE  /\ Began(proc'[p].op)
         /\ proc'[p].pc \in {"finalize", "guard"}
         /\ proc'[p].pc = "guard" => proc'[p].op.proof = made.proofs + 1
         /\ made'.proofs # made.proofs => proc'[p].op.proof = made.proofs + 1
<1>0. TypeOK BY DEF IInv
<1>1. PICK disp \in Retirements, sha \in Known : Preflight(p, disp, sha) BY DEF Retire
<1> DEFINE op == proc'[p].op
<1>2. /\ op.disp = disp /\ op.sha = sha /\ op.gen = plan.gen
      /\ \/ /\ proc'[p].pc \in {"finalize", "guard"} /\ op.proof = made.proofs + 1
            /\ made' = [made EXCEPT !.proofs = @ + 1]
         \/ /\ proc'[p].pc = "finalize" /\ op.proof \in Begun(disp, sha) /\ made' = made
  BY <1>0, <1>1, PreflightMoves
<1> HIDE DEF op
<1>3. plan # NoPlan /\ BytesOf(plan) = sha /\ plan' = plan
  BY <1>1 DEF Preflight, Retirable
<1>4. CASE op.proof \in Begun(disp, sha) /\ made' = made /\ proc'[p].pc = "finalize"
  <2>1. \E y \in intents \cup RetiredRows : y.proof = op.proof /\ y.sha = sha
    BY <1>4 DEF Begun, Prior, RowsOf, RetiredRows
  <2>2. Began(op) BY <1>2, <1>3, <2>1 DEF Began
  <2> QED BY <1>4, <2>2 DEF op
<1>5. CASE /\ op.proof = made.proofs + 1 /\ made' = [made EXCEPT !.proofs = @ + 1]
           /\ proc'[p].pc \in {"finalize", "guard"}
  <2>1. made'.proofs = made.proofs + 1 BY <1>0, <1>5, CountersTyped
  <2>2. Began(op) BY <1>2, <1>3, <1>5, <2>1 DEF Began
  <2> QED BY <1>5, <2>2 DEF op
<1> QED BY <1>2, <1>4, <1>5

LEMMA CarriesFacts ==
  ASSUME IInv, NEW p \in Processes
  PROVE  /\ proc[p].pc \in RetirePcs => Retiring(p) /\ proc[p].op \in Operations
         /\ proc[p].pc \in AcceptPcs => Retiring(p) \/ proc[p].op = NoOp
         /\ proc[p].pc = "idle" => proc[p] = Idle /\ ~Retiring(p)
         /\ proc[p].pc \in InitPcs =>
              proc[p].op = Replaced(proc[p].op.sha) /\ proc[p].op.disp = "replaced"
         /\ proc[p].pc \in WritePcs \cup InitPcs => lock = p /\ lock # NoOne
<1>1. Carries(p) /\ TypeOK BY DEF IInv, RetireInv
<1>2. p # NoOne BY NoOneAssumption
<1>3. Retiring(p) => proc[p].op \in Operations BY DEF Operations
<1>4. Idle.op.disp \notin Retirements BY IdleTyped
<1>5. Replaced(proc[p].op.sha).disp = "replaced" BY <1>1, ReplacedTyped, ProcessTyped
<1> QED BY <1>1, <1>2, <1>3, <1>4, <1>5 DEF Carries, Retiring

LEMMA OperationsStep ==
  ASSUME IInv, Next
  PROVE  /\ \A q \in Processes : proc'[q].op.disp \in Retirements =>
              proc'[q].op = proc[q].op \/ Began(proc'[q].op)
         /\ intents' \subseteq Operations
         /\ RetiredRows' \subseteq Operations
         /\ Operations' \subseteq {x \in Operations' : x \in Operations \/ Began(x)}
<1>0. TypeOK BY DEF IInv
<1>1. ASSUME NEW q \in Processes, proc'[q].op.disp \in Retirements
      PROVE  proc'[q].op = proc[q].op \/ Began(proc'[q].op)
  <2>1. CASE Outside BY <2>1, OutsideProc
  <2>2. CASE Step(q) BY <1>0, <1>1, <2>2, RetireBegins, StepOperation
  <2>3. CASE \E p \in Processes \ {q} : Step(p) BY <1>0, <2>3, StepOthers DEF Others
  <2> QED BY <2>1, <2>2, <2>3, StepCases
<1>2. intents' \subseteq Operations
  <2>1. CASE \E p \in Processes : WriteIntent(p)
    BY <2>1, CarriesFacts DEF WriteIntent, RetirePcs, Operations
  <2>2. CASE intents' \subseteq intents BY <2>2 DEF Operations
  <2>3. CASE \E p \in Processes : FinalizeDone(p) BY <2>3 DEF FinalizeDone, Operations
  <2>4. CASE \E p \in Processes : Clear(p) BY <2>4 DEF Clear, Operations
  <2>5. CASE Guard BY <2>5 DEF Guard, Operations
  <2> QED BY <2>1, <2>2, <2>3, <2>4, <2>5, IntentStep
<1>3. RetiredRows' \subseteq Operations
  <2>1. CASE ledger' = ledger BY <2>1 DEF RetiredRows, Operations
  <2>2. ASSUME NEW p \in Processes, WriteReceipt(p) PROVE RetiredRows' \subseteq Operations
    <3>1. proc[p].op \in Operations BY <2>2, CarriesFacts DEF WriteReceipt, RetirePcs
    <3>2. proc[p].op \in Receipt BY <1>0, ProcessTyped
    <3>3. ToSet(ledger') \subseteq ToSet(ledger) \cup {proc[p].op}
      BY <1>0, <2>2, <3>2, AppendSet DEF WriteReceipt, Receipted, TypeOK
    <3> QED BY <3>1, <3>3 DEF RetiredRows, Operations
  <2>3. ASSUME NEW p \in Processes, InitReceipt(p) PROVE RetiredRows' \subseteq Operations
    <3>1. proc[p].op.disp \notin Retirements
      BY <2>3, CarriesFacts DEF InitReceipt, InitPcs, Retirements
    <3>2. proc[p].op \in Receipt BY <1>0, ProcessTyped
    <3>3. ToSet(ledger') \subseteq ToSet(ledger) \cup {proc[p].op}
      BY <1>0, <2>3, <3>2, AppendSet DEF InitReceipt, TypeOK
    <3> QED BY <3>1, <3>3 DEF RetiredRows, Operations
  <2> QED BY <2>1, <2>2, <2>3, RecordStep
<1>4. ASSUME NEW x \in Operations' PROVE x \in Operations \/ Began(x)
  <2>1. CASE x \in intents' \cup RetiredRows' BY <1>2, <1>3, <2>1
  <2>2. CASE \E q \in Processes : proc'[q].op.disp \in Retirements /\ x = proc'[q].op
    <3>1. PICK q \in Processes : proc'[q].op.disp \in Retirements /\ x = proc'[q].op
      BY <2>2
    <3>2. CASE x = proc[q].op BY <3>1, <3>2 DEF Operations, Retiring
    <3>3. CASE Began(x) BY <3>3
    <3> QED BY <1>1, <3>1, <3>2, <3>3
  <2> QED BY <2>1, <2>2 DEF Operations, Retiring
<1> QED BY <1>1, <1>2, <1>3, <1>4

LEMMA OperationsNamedStep ==
  ASSUME IInv, Next
  PROVE  OperationsNamed'
<1>0. TypeOK /\ OperationsNamed BY DEF IInv, RetireInv
<1>1. PlanMoves BY <1>0, PlanStep
<1>2. made.gen \in Nat /\ made.proofs \in Nat /\ plan.gen \in Nat /\ MaxGen \in Nat
  BY <1>0, CountersTyped, PlanTyped
<1>3. \A x \in Operations' : x \in Operations \/ Began(x) BY OperationsStep
<1>4. \A x \in Operations : /\ x.disp \in Retirements
                            /\ x.proof \in 1 .. made.proofs /\ x.gen \in 1 .. made.gen
                            /\ x.gen = plan.gen => x.sha = BytesOf(plan)
  BY <1>0 DEF OperationsNamed
<1>5. \A x, y \in Operations : x.proof = y.proof => x.sha = y.sha
  BY <1>0 DEF OperationsNamed
<1>6. plan.gen <= made.gen BY <1>0 DEF OperationsNamed
<1>7. plan' = plan \/ plan'.gen = 0 \/ (made.gen < plan'.gen /\ plan'.gen <= made'.gen)
  BY <1>1 DEF PlanMoves, NoPlan
<1>8. /\ made.gen <= made'.gen /\ made.proofs <= made'.proofs
      /\ made'.gen \in Nat /\ made'.proofs \in Nat
  <2>1. made' \in [gen : 1 .. MaxGen, plans : 1 .. MaxPlans, proofs : 0 .. MaxProofs]
    BY NextTyped DEF TypeOK
  <2>2. made'.gen \in Nat /\ made'.proofs \in Nat BY <1>0, <2>1, CountersTyped
  <2> QED BY <1>1, <2>2 DEF PlanMoves
<1>9. plan'.gen <= made'.gen BY <1>2, <1>6, <1>7, <1>8
<1>10. plan # NoPlan => plan.gen \in 1 .. made.gen BY <1>0, <1>2, <1>6, PlanTyped
<1>11. ASSUME NEW x \in Operations'
       PROVE  /\ x.disp \in Retirements
              /\ x.proof \in 1 .. made'.proofs /\ x.gen \in 1 .. made'.gen
              /\ x.gen = plan'.gen => x.sha = BytesOf(plan')
  <2>1. CASE x \in Operations
    <3>1. x.proof \in 1 .. made'.proofs /\ x.gen \in 1 .. made'.gen
      BY <1>2, <1>4, <1>8, <2>1
    <3>2. plan' # plan => x.gen # plan'.gen BY <1>2, <1>4, <1>7, <2>1
    <3> QED BY <1>4, <2>1, <3>1, <3>2
  <2>2. CASE Began(x)
    <3>1. x.gen = plan.gen /\ x.sha = BytesOf(plan) /\ plan' = plan /\ plan # NoPlan
          /\ x.disp \in Retirements
      BY <2>2 DEF Began
    <3>2. x.gen \in 1 .. made'.gen BY <1>2, <1>8, <1>10, <3>1
    <3>3. x.proof \in 1 .. made'.proofs
      <4>1. CASE x.proof = made.proofs + 1 /\ made'.proofs = made.proofs + 1
        BY <1>2, <4>1
      <4>2. CASE \E y \in intents \cup RetiredRows : y.proof = x.proof /\ y.sha = x.sha
        BY <1>2, <1>4, <1>8, <4>2 DEF Operations
      <4> QED BY <2>2, <4>1, <4>2 DEF Began
    <3> QED BY <3>1, <3>2, <3>3
  <2> QED BY <1>3, <2>1, <2>2
<1>12. ASSUME NEW x \in Operations', NEW y \in Operations', x.proof = y.proof
       PROVE  x.sha = y.sha
  <2> DEFINE Fresh(z) == Began(z) /\ z.proof = made.proofs + 1
             Old(z) == \E o \in Operations : o.proof = z.proof /\ o.sha = z.sha
  <2>1. ASSUME NEW z \in Operations' PROVE Fresh(z) \/ Old(z)
    BY <1>3 DEF Began, Operations
  <2>2. CASE Fresh(x) /\ Fresh(y) BY <2>2 DEF Began
  <2>3. CASE Old(x) /\ Old(y) BY <1>5, <1>12, <2>3
  <2>4. ASSUME NEW z \in Operations' PROVE ~(Old(z) /\ z.proof = made.proofs + 1)
    BY <1>2, <1>4
  <2> QED BY <1>12, <2>1, <2>2, <2>3, <2>4
<1>13. OperationsNamed'
  <2>1. OperationsNamed' <=>
          /\ \A x \in Operations' : /\ x.disp \in Retirements
                                    /\ x.proof \in 1 .. made'.proofs
                                    /\ x.gen \in 1 .. made'.gen
                                    /\ x.gen = plan'.gen => x.sha = BytesOf(plan')
          /\ \A x, y \in Operations' : x.proof = y.proof => x.sha = y.sha
          /\ plan'.gen <= made'.gen
    BY DEF OperationsNamed, BytesOf
  <2> QED BY <1>9, <1>11, <1>12, <2>1
<1> QED BY <1>13

-----------------------------------------------------------------------------
(* The acceptance and its row.                                             *)

\* A file that is written again has a generation no operation has.
LEMMA GenMoves ==
  ASSUME IInv, Next
  PROVE  \A x \in Operations : plan' = plan \/ x.gen # plan'.gen
<1>1. PlanMoves /\ TypeOK BY PlanStep DEF IInv
<1>2. OperationsNamed BY DEF IInv, RetireInv
<1>3. \A x \in Operations : x.gen \in 1 .. made.gen /\ made.gen \in Nat
  BY <1>1, <1>2, CountersTyped DEF OperationsNamed
<1>4. plan' = plan \/ plan'.gen = 0 \/ made.gen < plan'.gen
  BY <1>1 DEF PlanMoves, NoPlan
<1>5. plan'.gen \in Nat
  <2>1. TypeOK' BY NextTyped
  <2>2. plan' \in Plan \cup {NoPlan} BY <2>1 DEF TypeOK
  <2> QED BY <1>1, <2>2, CountersTyped DEF Plan, NoPlan
<1> QED BY <1>3, <1>4, <1>5

LEMMA RetiringFacts ==
  ASSUME IInv, NEW p \in Processes, Retiring(p)
  PROVE  /\ proc[p].op \in Operations /\ proc[p].op # NoOp
         /\ proc[p].op.proof \in 1 .. made.proofs
         /\ proc[p].op.gen \in 1 .. made.gen
         /\ proc[p].op.gen = plan.gen => proc[p].op.sha = BytesOf(plan)
<1>1. proc[p].op \in Operations BY DEF Operations
<1>2. OperationsNamed BY DEF IInv, RetireInv
<1>3. proc[p].op # NoOp BY IdleTyped DEF Retiring
<1> QED BY <1>1, <1>2, <1>3 DEF OperationsNamed

LEMMA WitnessedStep ==
  ASSUME IInv, Next, NEW p \in Processes
  PROVE  Witnessed(p)'
<1>0. TypeOK /\ Witnessed(p) /\ PlanMoves BY PlanStep DEF IInv, RetireInv
<1>1. head \in Nat /\ head' \in Nat /\ head <= head'
  <2>1. TypeOK' BY NextTyped
  <2> QED BY <1>0, <2>1, CountersTyped DEF TypeOK, PlanMoves
<1>2. CASE proc'[p] = proc[p]
  <2>1. proc[p].seen \in Nat /\ proc[p].on \in Nat BY <1>0, ProcessTyped, CountersTyped
  <2>2. Retiring(p) => (plan'.gen = proc[p].op.gen => plan' = plan)
    BY RetiringFacts, GenMoves
  <2>3. Retiring(p)' = Retiring(p) BY <1>2 DEF Retiring
  <2> QED BY <1>0, <1>1, <1>2, <2>1, <2>2, <2>3 DEF Witnessed
<1>3. CASE Step(p)
  <2>1. CASE proc'[p].pc \notin {"freeze", "run", "record"} BY <2>1 DEF Witnessed
  <2>2. CASE ReadCommand(p)
    <3>1. /\ proc'[p].pc = "freeze" /\ proc'[p].op = proc[p].op /\ proc'[p].ran = plan.id
          /\ plan' = plan
      BY <1>0, <2>2, ReadMoves DEF ReadCommand
    <3>2. Retiring(p) => (proc[p].op.gen = plan.gen => proc[p].op.sha.id = plan.id)
      BY <1>0, RetiringFacts, PlanTyped
    <3> QED BY <3>1, <3>2 DEF Witnessed, Retiring
  <2>3. CASE Freeze(p)
    <3>1. /\ proc[p].pc = "freeze" /\ proc'[p].pc = "run" /\ proc'[p].op = proc[p].op
          /\ proc'[p].ran = proc[p].ran /\ proc'[p].seen = head /\ plan' = plan /\ head' = head
      BY <1>0, <2>3, FreezeMoves DEF Freeze
    <3> QED BY <1>0, <1>1, <3>1 DEF Witnessed, Retiring
  <2>4. CASE RunCommand(p)
    <3>1. proc[p].pc = "run" /\ plan' = plan /\ head' = head BY <2>4 DEF RunCommand
    <3>2. \/ /\ proc'[p].pc = "record" /\ proc'[p].op = proc[p].op
             /\ proc'[p].ran = proc[p].ran /\ proc'[p].seen = proc[p].seen
             /\ proc'[p].on = head /\ proc'[p].passed
          \/ proc'[p].pc = "idle"
      BY <1>0, <2>4, RunMoves, IdleTyped
    <3> QED BY <1>0, <1>1, <3>1, <3>2 DEF Witnessed, Retiring
  <2>5. CASE ~ReadCommand(p) /\ ~Freeze(p) /\ ~RunCommand(p)
    <3>1. proc'[p].pc \notin {"freeze", "run", "record"}
      <4>1. CASE Retire(p) BY <4>1, RetireBegins
      <4>2. CASE AcceptGuard(p) BY <1>0, <4>2, GoMoves DEF AcceptGuard, Pcs, AcceptPcs
      <4>3. CASE Record(p) BY <1>0, <4>3, RecordMoves, IdleTyped
      <4>4. CASE Finalize(p)
        <5>1. NextWrite(proc[p].op) \in Pcs /\ NextWrite(proc[p].op) \in RetirePcs
          BY DEF NextWrite, Pcs, RetirePcs
        <5> QED BY <1>0, <4>4, <5>1, GoMoves DEF Finalize, RetirePcs
      <4>5. CASE \/ WriteIntent(p) \/ WriteArchive(p) \/ WriteReceipt(p) \/ Unlink(p)
                 \/ InitArchive(p) \/ InitReceipt(p)
        BY <1>0, <4>5, GoMoves DEF WriteIntent, WriteArchive, WriteReceipt, Unlink,
           InitArchive, InitReceipt, Pcs, RetirePcs, InitPcs
      <4>6. CASE FinalizeDone(p) \/ Clear(p) \/ InitSave(p) \/ Refuse(p) \/ Kill(p)
        BY <1>0, <4>6, QuitMoves DEF FinalizeDone, Clear, InitSave, Refuse, Kill
      <4>7. CASE InitOver(p) BY <1>0, <4>7, InitOverMoves
      <4> QED BY <1>3, <2>5, <4>1, <4>2, <4>3, <4>4, <4>5, <4>6, <4>7 DEF Step
    <3> QED BY <3>1 DEF Witnessed
  <2> QED BY <2>2, <2>3, <2>4, <2>5
<1>4. proc'[p] = proc[p] \/ Step(p)
  BY <1>0, StepCases, StepOthers, OutsideProc DEF Others
<1> QED BY <1>2, <1>3, <1>4

\* The row of a verdict that nothing disturbed.
LEMMA RecordFacts ==
  ASSUME IInv, NEW p \in Processes, Record(p), progress' # progress
  PROVE  /\ Retiring(p) /\ proc[p].pc \in AcceptPcs
         /\ progress' = progress \cup {Row(p)} /\ Row(p).proof = proc[p].op.proof
         /\ Row(p).passed /\ Row(p).ran = Row(p).sha.id /\ Row(p).on = Row(p).head
         /\ Row(p).proof <= made.proofs
         /\ proc'[p].pc = "finalize" /\ proc'[p].op = proc[p].op
<1>0. TypeOK /\ Witnessed(p) BY DEF IInv, RetireInv
<1>1. /\ Undisturbed(p) /\ proc[p].op # NoOp /\ progress' = progress \cup {Row(p)}
      /\ proc[p].pc = "record" /\ proc'[p].pc = "finalize" /\ proc'[p].op = proc[p].op
  BY <1>0, RecordMoves
<1>2. Retiring(p) /\ proc[p].pc \in AcceptPcs BY <1>1, CarriesFacts DEF AcceptPcs
<1>3. /\ plan.gen = proc[p].op.gen /\ BytesOf(plan) = proc[p].op.sha
      /\ head = proc[p].seen /\ BytesOf(plan) = proc[p].sha
  BY <1>1 DEF Undisturbed, InContext
<1>4. /\ proc[p].ran = proc[p].op.sha.id /\ proc[p].passed
      /\ proc[p].seen <= proc[p].on /\ proc[p].on <= head
  BY <1>0, <1>1, <1>2, <1>3 DEF Witnessed
<1>5. proc[p].on = head
  <2>1. proc[p].on \in Nat /\ head \in Nat BY <1>0, ProcessTyped, CountersTyped
  <2> QED BY <1>3, <1>4, <2>1
<1>6. /\ Row(p).proof = proc[p].op.proof /\ Row(p).sha = proc[p].sha /\ Row(p).head = head
      /\ Row(p).ran = proc[p].ran /\ Row(p).on = proc[p].on
      /\ Row(p).passed = proc[p].passed
  BY <1>0, RowTyped
<1>7. proc[p].op.proof <= made.proofs BY <1>0, <1>2, RetiringFacts, CountersTyped
<1> QED BY <1>1, <1>2, <1>3, <1>4, <1>5, <1>6, <1>7

LEMMA RowsTrueStep ==
  ASSUME IInv, Next
  PROVE  RowsTrue'
<1>0. TypeOK /\ RowsTrue /\ PlanMoves BY PlanStep DEF IInv, RetireInv
<1>1. /\ made.proofs \in Nat /\ made'.proofs \in Nat /\ made.proofs <= made'.proofs
      /\ \A row \in progress : row.proof \in Nat
  <2>1. TypeOK' BY NextTyped
  <2>2. made'.proofs \in 0 .. MaxProofs BY <2>1 DEF TypeOK
  <2> QED BY <1>0, <2>2, CountersTyped DEF PlanMoves, TypeOK, Acceptance
<1>2. CASE progress' = progress BY <1>0, <1>1, <1>2 DEF RowsTrue
<1>3. CASE progress' # progress
  <2>1. PICK p \in Processes : Record(p) BY <1>3, RecordStep
  <2>2. /\ progress' = progress \cup {Row(p)} /\ Row(p).passed
        /\ Row(p).ran = Row(p).sha.id /\ Row(p).on = Row(p).head
        /\ Row(p).proof <= made.proofs
    BY <1>3, <2>1, RecordFacts
  <2>3. Row(p).proof \in Nat BY <1>0, RowTyped, ProcessTyped, CountersTyped
  <2>4. \A row \in progress' : /\ row.passed /\ row.ran = row.sha.id /\ row.on = row.head
                               /\ row.proof <= made'.proofs
    BY <1>0, <1>1, <2>2, <2>3 DEF RowsTrue
  <2> QED BY <2>4 DEF RowsTrue
<1> QED BY <1>2, <1>3

\* A proof under way is still nobody else's.
LEMMA UnansweredStep ==
  ASSUME IInv, Next, NEW p \in Processes
  PROVE  Unanswered(p)'
<1>0. TypeOK /\ Unanswered(p) /\ RowsTrue BY DEF IInv, RetireInv
<1>01. OperationsNamed BY DEF IInv, RetireInv
<1>02. made.proofs \in Nat /\ \A x \in Operations : x.proof <= made.proofs
  BY <1>0, <1>01, CountersTyped DEF OperationsNamed
<1> SUFFICES ASSUME Retiring(p)', proc'[p].pc \in AcceptPcs
             PROVE  /\ \A row \in progress' : row.proof # proc'[p].op.proof
                    /\ \A x \in (intents \cup RetiredRows)' : x.proof # proc'[p].op.proof
                    /\ \A q \in Processes \ {p} :
                         Retiring(q)' => proc'[q].op.proof # proc'[p].op.proof
  BY DEF Unanswered
<1>1. CASE Retire(p)
  <2>1. proc'[p].pc = "guard" BY <1>1, RetireBegins DEF AcceptPcs
  <2>2. proc'[p].op.proof = made.proofs + 1 BY <1>1, <2>1, RetireBegins
  <2>3. progress' = progress /\ intents' = intents /\ ledger' = ledger
    BY <1>1 DEF Retire, Preflight
  <2>4. \A q \in Processes \ {p} : proc'[q] = proc[q]
    BY <1>0, <1>1, StepOthers DEF Step, Others
  <2>5. \A row \in progress' : row.proof # made.proofs + 1
    BY <1>0, <1>02, <2>3 DEF RowsTrue, TypeOK, Acceptance
  <2>6. \A x \in (intents \cup RetiredRows)' : x.proof # made.proofs + 1
    BY <1>02, <2>3 DEF RetiredRows, Operations
  <2>7. \A q \in Processes \ {p} : Retiring(q)' => proc'[q].op.proof # made.proofs + 1
    BY <1>02, <2>4 DEF Retiring, Operations
  <2> QED BY <2>2, <2>5, <2>6, <2>7
<1>2. CASE ~Retire(p)
  <2>1. /\ proc'[p].op = proc[p].op /\ proc[p].pc \in AcceptPcs
        /\ ~Record(p) /\ ~WriteIntent(p) /\ ~WriteReceipt(p) /\ ~InitReceipt(p)
    <3>1. CASE proc'[p] = proc[p] /\ ~Step(p) BY <3>1 DEF Step
    <3>2. CASE Step(p)
      <4>1. CASE AcceptGuard(p)
        <5>1. proc'[p].op = proc[p].op
          BY <1>0, <4>1, GoMoves DEF AcceptGuard, Pcs, AcceptPcs
        <5>2. proc[p].pc = "guard" \/ proc[p].pc = "idle" BY <4>1 DEF AcceptGuard
        <5>3. proc[p].pc # "idle" BY <5>1, CarriesFacts DEF Retiring
        <5> QED BY <5>1, <5>2, <5>3 DEF Record, WriteIntent, WriteReceipt, InitReceipt,
                                        AcceptPcs
      <4>2. CASE ReadCommand(p)
        BY <1>0, <4>2, ReadMoves DEF AcceptPcs, Record, WriteIntent, WriteReceipt,
           InitReceipt
      <4>3. CASE Freeze(p)
        BY <1>0, <4>3, FreezeMoves DEF AcceptPcs, Record, WriteIntent, WriteReceipt,
           InitReceipt
      <4>4. CASE RunCommand(p)
        BY <1>0, <4>4, RunMoves, IdleTyped DEF AcceptPcs, Record, WriteIntent,
           WriteReceipt, InitReceipt
      <4>5. CASE Record(p) BY <1>0, <4>5, RecordMoves, IdleTyped DEF AcceptPcs
      <4>6. CASE Finalize(p)
        <5>1. NextWrite(proc[p].op) \in Pcs /\ NextWrite(proc[p].op) \in RetirePcs
          BY DEF NextWrite, Pcs, RetirePcs
        <5> QED BY <1>0, <4>6, <5>1, GoMoves DEF Finalize, RetirePcs, AcceptPcs
      <4>7. CASE \/ WriteIntent(p) \/ WriteArchive(p) \/ WriteReceipt(p) \/ Unlink(p)
                 \/ InitArchive(p) \/ InitReceipt(p)
        <5>1. CASE WriteIntent(p) \/ WriteArchive(p)
          BY <1>0, <5>1, GoMoves DEF WriteIntent, WriteArchive, Pcs, RetirePcs, AcceptPcs
        <5>2. CASE WriteReceipt(p) \/ Unlink(p)
          BY <1>0, <5>2, GoMoves DEF WriteReceipt, Unlink, Pcs, RetirePcs, AcceptPcs
        <5>3. CASE InitArchive(p) \/ InitReceipt(p)
          BY <1>0, <5>3, GoMoves DEF InitArchive, InitReceipt, Pcs, InitPcs, AcceptPcs
        <5> QED BY <4>7, <5>1, <5>2, <5>3
      <4>8. CASE FinalizeDone(p) \/ Clear(p) \/ InitSave(p) \/ Refuse(p) \/ Kill(p)
        BY <1>0, <4>8, QuitMoves DEF FinalizeDone, Clear, InitSave, Refuse, Kill,
           AcceptPcs
      <4>9. CASE InitOver(p) BY <1>0, <4>9, InitOverMoves DEF AcceptPcs
      <4> QED BY <1>2, <3>2, <4>1, <4>2, <4>3, <4>4, <4>5, <4>6, <4>7, <4>8, <4>9
              DEF Step
    <3>3. Step(p) \/ proc'[p] = proc[p]
      BY <1>0, StepCases, StepOthers, OutsideProc DEF Others
    <3>4. ~Step(p) => ~Record(p) /\ ~WriteIntent(p) /\ ~WriteReceipt(p) /\ ~InitReceipt(p)
      BY DEF Step
    <3> QED BY <3>1, <3>2, <3>3, <3>4
  <2>2. /\ \A row \in progress : row.proof # proc[p].op.proof
        /\ \A x \in intents \cup RetiredRows : x.proof # proc[p].op.proof
        /\ \A q \in Processes \ {p} : Retiring(q) => proc[q].op.proof # proc[p].op.proof
        /\ Retiring(p) /\ proc[p].op.proof <= made.proofs
    BY <1>0, <1>02, <2>1, RetiringFacts DEF Unanswered, Retiring, Operations
  <2>3. \A row \in progress' : row.proof # proc[p].op.proof
    <3>1. CASE progress' = progress BY <2>2, <3>1
    <3>2. CASE progress' # progress
      <4>1. PICK q \in Processes : Record(q) BY <3>2, RecordStep
      <4>2. q # p BY <2>1, <4>1
      <4>3. Retiring(q) /\ progress' = progress \cup {Row(q)}
            /\ Row(q).proof = proc[q].op.proof
        BY <3>2, <4>1, RecordFacts
      <4> QED BY <2>2, <4>2, <4>3
    <3> QED BY <3>1, <3>2
  <2>4. \A q \in Processes \ {p} :
          Retiring(q)' => proc'[q].op.proof # proc[p].op.proof
    <3> SUFFICES ASSUME NEW q \in Processes \ {p}, Retiring(q)'
                 PROVE  proc'[q].op.proof # proc[p].op.proof
      OBVIOUS
    <3>1. CASE proc'[q].op = proc[q].op BY <2>2, <3>1 DEF Retiring
    <3>2. CASE Began(proc'[q].op)
      <4>1. CASE proc'[q].op.proof = made.proofs + 1
        <5>1. proc[p].op.proof \in Nat BY <1>0, ProcessTyped, CountersTyped
        <5> QED BY <1>02, <2>2, <4>1, <5>1
      <4>2. CASE \E y \in intents \cup RetiredRows : y.proof = proc'[q].op.proof
        BY <2>2, <4>2
      <4> QED BY <3>2, <4>1, <4>2 DEF Began
    <3> QED BY <3>1, <3>2, OperationsStep DEF Retiring
  <2>5. \A x \in intents' : x.proof # proc[p].op.proof
    <3>1. CASE intents' \subseteq intents BY <2>2, <3>1
    <3>2. CASE \E q \in Processes : WriteIntent(q)
      <4>1. PICK q \in Processes : WriteIntent(q) BY <3>2
      <4>2. q # p /\ Retiring(q) BY <2>1, <4>1, CarriesFacts DEF WriteIntent, RetirePcs
      <4> QED BY <2>2, <4>1, <4>2 DEF WriteIntent
    <3>3. CASE \E q \in Processes : FinalizeDone(q) \/ Clear(q)
      BY <2>2, <3>3 DEF FinalizeDone, Clear
    <3> QED BY <3>1, <3>2, <3>3, IntentStep DEF Guard
  <2>6. \A x \in RetiredRows' : x.proof # proc[p].op.proof
    <3>1. CASE ledger' = ledger BY <2>2, <3>1 DEF RetiredRows
    <3>2. ASSUME NEW q \in Processes, WriteReceipt(q)
          PROVE  \A x \in RetiredRows' : x.proof # proc[p].op.proof
      <4>1. q # p /\ Retiring(q) BY <2>1, <3>2, CarriesFacts DEF WriteReceipt, RetirePcs
      <4>2. proc[q].op \in Receipt BY <1>0, ProcessTyped
      <4>3. ToSet(ledger') \subseteq ToSet(ledger) \cup {proc[q].op}
        BY <1>0, <3>2, <4>2, AppendSet DEF WriteReceipt, Receipted, TypeOK
      <4> QED BY <2>2, <4>1, <4>3 DEF RetiredRows
    <3>3. ASSUME NEW q \in Processes, InitReceipt(q)
          PROVE  \A x \in RetiredRows' : x.proof # proc[p].op.proof
      <4>1. proc[q].op.disp \notin Retirements
        BY <3>3, CarriesFacts DEF InitReceipt, InitPcs, Retirements
      <4>2. proc[q].op \in Receipt BY <1>0, ProcessTyped
      <4>3. ToSet(ledger') \subseteq ToSet(ledger) \cup {proc[q].op}
        BY <1>0, <3>3, <4>2, AppendSet DEF InitReceipt, TypeOK
      <4> QED BY <2>2, <4>1, <4>3 DEF RetiredRows
    <3> QED BY <3>1, <3>2, <3>3, RecordStep
  <2> QED BY <2>1, <2>3, <2>4, <2>5, <2>6
<1> QED BY <1>1, <1>2

-----------------------------------------------------------------------------
(* Under the plan lock.                                                    *)

\* An acceptance that is recorded answers its own operation and no other.
LEMMA ProvenKept ==
  ASSUME IInv, Next, NEW x, Proven(x),
         \A q \in Processes : Retiring(q) /\ proc[q].pc \in AcceptPcs =>
           x.proof # proc[q].op.proof
  PROVE  Proven(x)'
<1>1. {row \in progress' : row.proof = x.proof} = {row \in progress : row.proof = x.proof}
  <2>1. CASE progress' = progress BY <2>1
  <2>2. CASE progress' # progress
    <3>1. PICK q \in Processes : Record(q) BY <2>2, RecordStep
    <3>2. /\ Retiring(q) /\ proc[q].pc \in AcceptPcs
          /\ progress' = progress \cup {Row(q)} /\ Row(q).proof = proc[q].op.proof
      BY <2>2, <3>1, RecordFacts
    <3>3. Row(q).proof # x.proof BY <3>2
    <3> QED BY <3>2, <3>3
  <2> QED BY <2>1, <2>2
<1> QED BY <1>1 DEF Proven

\* No operation on record answers to the proof of an acceptance under way.
LEMMA OthersProven ==
  ASSUME IInv, Next, NEW x \in Operations,
         \/ x \in intents \cup RetiredRows
         \/ \E p \in Processes : x = proc[p].op /\ Retiring(p) /\ proc[p].pc \notin AcceptPcs,
         Proven(x)
  PROVE  Proven(x)'
<1>1. ASSUME NEW q \in Processes, Retiring(q), proc[q].pc \in AcceptPcs
      PROVE  x.proof # proc[q].op.proof
  <2>1. Unanswered(q) BY DEF IInv, RetireInv
  <2> QED BY <1>1, <2>1 DEF Unanswered
<1> QED BY <1>1, ProvenKept

\* While a command holds the lock, the others neither write nor take it.
LEMMA Held ==
  ASSUME IInv, Next, NEW p \in Processes, proc[p].pc \in WritePcs \cup InitPcs, ~Step(p)
  PROVE  /\ lock' = lock /\ plan' = plan /\ archives' = archives
         /\ ledger' = ledger /\ intents' = intents /\ proc'[p] = proc[p]
<1>0. TypeOK /\ lock = p /\ ~Free BY CarriesFacts DEF IInv, Free
<1>1. CASE Outside
  <2>1. Commit
    BY <1>0, <1>1 DEF Outside, PreflightDone, InitFresh, WorkOn, Restore
  <2> QED BY <2>1 DEF Commit
<1>2. ASSUME NEW q \in Processes, Step(q)
      PROVE  /\ lock' = lock /\ plan' = plan /\ archives' = archives
             /\ ledger' = ledger /\ intents' = intents /\ proc'[p] = proc[p]
  <2>1. q # p BY <1>2
  <2>2. proc[q].pc \notin WritePcs \cup InitPcs BY <1>0, <2>1, CarriesFacts
  <2>3. \/ ReadCommand(q) \/ Freeze(q) \/ RunCommand(q) \/ Record(q)
        \/ Refuse(q) \/ Kill(q)
    BY <1>0, <1>2, <2>2 DEF Step, Retire, Preflight, AcceptGuard, Finalize, FinalizeDone,
       WriteIntent, WriteArchive, WriteReceipt, Unlink, Clear, InitOver, InitArchive,
       InitReceipt, InitSave, WritePcs, InitPcs
  <2>4. /\ lock' = lock /\ plan' = plan /\ archives' = archives
        /\ ledger' = ledger /\ intents' = intents
    BY <1>0, <2>1, <2>3 DEF ReadCommand, Freeze, RunCommand, Record, Refuse, Kill
  <2>5. proc'[p] = proc[p] BY <1>0, <1>2, <2>1, StepOthers DEF Others
  <2> QED BY <2>4, <2>5
<1> QED BY <1>1, <1>2, StepCases

\* What a step of a command makes of itself and of the lock.
LEMMA CarriesStep ==
  ASSUME IInv, Next, NEW p \in Processes
  PROVE  Carries(p)'
<1>0. TypeOK /\ Carries(p) BY DEF IInv, RetireInv
<1>1. CASE ~Step(p)
  <2>1. proc'[p] = proc[p] BY <1>0, <1>1, StepCases, StepOthers, OutsideProc DEF Others
  <2>2. CASE proc[p].pc \in WritePcs \cup InitPcs
    <3>1. lock' = lock BY <1>1, <2>2, Held
    <3> QED BY <1>0, <2>1, <3>1 DEF Carries, Retiring
  <2>3. CASE proc[p].pc \notin WritePcs \cup InitPcs
    BY <1>0, <2>1, <2>3 DEF Carries, Retiring
  <2> QED BY <2>2, <2>3
<1>2. CASE proc'[p] = Idle
  <2>1. proc'[p].pc = "idle" BY <1>2, IdleTyped
  <2> QED BY <1>2, <2>1 DEF Carries, RetirePcs, AcceptPcs, InitPcs, WritePcs
<1>3. CASE Retire(p)
  BY <1>3, RetireBegins DEF Carries, Began, Retiring, RetirePcs, AcceptPcs, InitPcs, WritePcs
<1>4. CASE \/ AcceptGuard(p) \/ ReadCommand(p) \/ Freeze(p) \/ (RunCommand(p) /\ proc'[p] # Idle)
  <2>1. /\ proc'[p].op = proc[p].op /\ proc'[p].pc \in {"command", "freeze", "run", "record"}
        /\ proc[p].pc \in AcceptPcs \cup {"idle"}
    BY <1>0, <1>4, GoMoves, ReadMoves, FreezeMoves, RunMoves DEF AcceptGuard, Pcs, AcceptPcs
  <2>2. Retiring(p) \/ proc[p].op = NoOp BY <2>1, CarriesFacts, IdleTyped
  <2> QED BY <2>1, <2>2 DEF Carries, Retiring, RetirePcs, AcceptPcs, InitPcs, WritePcs
<1>5. CASE Record(p) /\ proc'[p] # Idle
  <2>1. proc'[p].pc = "finalize" /\ proc'[p].op = proc[p].op /\ proc[p].op # NoOp
        /\ proc[p].pc = "record"
    BY <1>0, <1>5, RecordMoves
  <2>2. Retiring(p) BY <2>1, CarriesFacts DEF AcceptPcs
  <2> QED BY <2>1, <2>2 DEF Carries, Retiring, RetirePcs, AcceptPcs, InitPcs, WritePcs
<1>6. CASE Finalize(p)
  <2>1. NextWrite(proc[p].op) \in {"intent", "archive"} BY DEF NextWrite
  <2>2. proc'[p].pc \in {"intent", "archive"} /\ proc'[p].op = proc[p].op /\ lock' = p
        /\ proc[p].pc = "finalize"
    BY <1>0, <1>6, <2>1, GoMoves DEF Finalize, Pcs, RetirePcs
  <2>3. Retiring(p) BY <2>2, CarriesFacts DEF RetirePcs
  <2> QED BY <2>2, <2>3 DEF Carries, Retiring, RetirePcs, AcceptPcs, InitPcs, WritePcs
<1>7. CASE WriteIntent(p) \/ WriteArchive(p) \/ WriteReceipt(p) \/ Unlink(p)
  <2>1. /\ proc'[p].pc \in WritePcs /\ proc'[p].op = proc[p].op /\ lock' = lock
        /\ proc[p].pc \in WritePcs
    BY <1>0, <1>7, GoMoves DEF WriteIntent, WriteArchive, WriteReceipt, Unlink, Pcs,
       RetirePcs, WritePcs
  <2>2. Retiring(p) /\ lock = p
    BY <2>1, CarriesFacts DEF RetirePcs, WritePcs
  <2> QED BY <2>1, <2>2 DEF Carries, Retiring, RetirePcs, AcceptPcs, InitPcs, WritePcs
<1>8. CASE InitOver(p)
  <2>1. /\ proc'[p].pc = "init_archive" /\ proc'[p].op = Replaced(BytesOf(plan)) /\ lock' = p
    BY <1>0, <1>8, InitOverMoves DEF InitOver
  <2>2. Replaced(BytesOf(plan)).sha = BytesOf(plan) BY DEF Replaced
  <2> QED BY <2>1, <2>2 DEF Carries, Retiring, RetirePcs, AcceptPcs, InitPcs, WritePcs
<1>9. CASE InitArchive(p) \/ InitReceipt(p)
  <2>1. /\ proc'[p].pc \in InitPcs /\ proc'[p].op = proc[p].op /\ lock' = lock
        /\ proc[p].pc \in InitPcs
    BY <1>0, <1>9, GoMoves DEF InitArchive, InitReceipt, Pcs, InitPcs
  <2>2. proc[p].op = Replaced(proc[p].op.sha) /\ lock = p BY <2>1, CarriesFacts
  <2> QED BY <2>1, <2>2 DEF Carries, Retiring, RetirePcs, AcceptPcs, InitPcs, WritePcs
<1>10. CASE FinalizeDone(p) \/ Clear(p) \/ InitSave(p) \/ Refuse(p) \/ Kill(p)
  <2>1. proc'[p] = Idle
    BY <1>0, <1>10, QuitMoves DEF FinalizeDone, Clear, InitSave, Refuse, Kill
  <2> QED BY <1>2, <2>1
<1> QED BY <1>1, <1>2, <1>3, <1>4, <1>5, <1>6, <1>7, <1>8, <1>9, <1>10 DEF Step

\* Which steps lead into the writes.
LEMMA PcFrom ==
  ASSUME IInv, NEW p \in Processes, Step(p)
  PROVE  /\ proc'[p].pc \in WritePcs =>
              \/ Finalize(p) \/ WriteIntent(p) \/ WriteArchive(p) \/ WriteReceipt(p)
              \/ Unlink(p)
         /\ proc'[p].pc \in InitPcs => InitOver(p) \/ InitArchive(p) \/ InitReceipt(p)
<1>0. TypeOK BY DEF IInv
<1>1. CASE Retire(p) BY <1>1, RetireBegins DEF WritePcs, InitPcs
<1>2. CASE AcceptGuard(p) \/ ReadCommand(p) \/ Freeze(p) \/ RunCommand(p) \/ Record(p)
  BY <1>0, <1>2, GoMoves, ReadMoves, FreezeMoves, RunMoves, RecordMoves, IdleTyped
     DEF AcceptGuard, Pcs, AcceptPcs, WritePcs, InitPcs
<1>3. CASE FinalizeDone(p) \/ Clear(p) \/ InitSave(p) \/ Refuse(p) \/ Kill(p)
  BY <1>0, <1>3, QuitMoves DEF FinalizeDone, Clear, InitSave, Refuse, Kill, WritePcs, InitPcs
<1>4. CASE Finalize(p)
  <2>1. NextWrite(proc[p].op) \in {"intent", "archive"} BY DEF NextWrite
  <2> QED BY <1>0, <1>4, <2>1, GoMoves DEF Finalize, Pcs, RetirePcs, InitPcs
<1>5. CASE WriteIntent(p) \/ WriteArchive(p) \/ WriteReceipt(p) \/ Unlink(p)
  BY <1>0, <1>5, GoMoves DEF WriteIntent, WriteArchive, WriteReceipt, Unlink, Pcs,
     RetirePcs, InitPcs
<1>6. CASE InitOver(p) BY <1>0, <1>6, InitOverMoves DEF WritePcs
<1>7. CASE InitArchive(p) \/ InitReceipt(p)
  BY <1>0, <1>7, GoMoves DEF InitArchive, InitReceipt, Pcs, InitPcs, WritePcs
<1> QED BY <1>1, <1>2, <1>3, <1>4, <1>5, <1>6, <1>7 DEF Step

\* Primed, with the command's own pc and operation named.
LEMMA HoldsPrimed ==
  ASSUME NEW p \in Processes, NEW c, NEW x, proc'[p].pc = c, proc'[p].op = x,
         HoldsFor(c, x)'
  PROVE  RetireHolds(p)'
<1>1. Proven(proc[p].op)' <=> Proven(x)'
  <2>1. {row \in progress' : row.proof = proc'[p].op.proof}
          = {row \in progress' : row.proof = x.proof}
    OBVIOUS
  <2> QED BY <2>1 DEF Proven
<1>2. IntentsOf(proc[p].op)' = IntentsOf(x)' BY DEF IntentsOf
<1> QED BY <1>1, <1>2 DEF RetireHolds, HoldsFor

LEMMA InitPrimed ==
  ASSUME NEW p \in Processes, NEW c, NEW sha, proc'[p].pc = c, proc'[p].op.sha = sha,
         InitFor(c, sha)'
  PROVE  InitHolds(p)'
<1>1. Prior(proc[p].op.sha)' = Prior(sha)' BY DEF Prior, RowsOf
<1> QED BY <1>1 DEF InitHolds, InitFor

LEMMA RetireHoldsStep ==
  ASSUME IInv, Next, NEW p \in Processes
  PROVE  RetireHolds(p)'
<1>0. TypeOK /\ RetireHolds(p) BY DEF IInv, RetireInv
<1>1. CASE proc'[p].pc \notin WritePcs
  BY <1>1 DEF RetireHolds, HoldsFor, WritePcs
<1>2. PICK x \in Receipt : x = proc[p].op BY <1>0, ProcessTyped
<1>3. CASE ~Step(p) /\ proc'[p].pc \in WritePcs
  <2>1. proc'[p] = proc[p] BY <1>0, <1>3, StepCases, StepOthers, OutsideProc DEF Others
  <2>2. PICK c \in Pcs : c = proc[p].pc BY <1>0, ProcessTyped
  <2>3. /\ plan' = plan /\ archives' = archives /\ ledger' = ledger /\ intents' = intents
    BY <1>3, <2>1, Held
  <2>4. HoldsFor(c, x) BY <1>0, <1>2, <2>2 DEF RetireHolds
  <2>5. x \in Operations /\ Retiring(p) /\ proc[p].pc \notin AcceptPcs
    BY <1>2, <1>3, <2>1, CarriesFacts DEF RetirePcs, WritePcs, AcceptPcs
  <2>6. Proven(x) => Proven(x)' BY <1>2, <2>5, OthersProven
  <2>7. HoldsFor(c, x)' BY <2>3, <2>4, <2>6 DEF HoldsFor, IntentsOf
  <2> QED BY <1>2, <2>1, <2>2, <2>7, HoldsPrimed
<1>4. CASE Finalize(p)
  <2>1. PICK c \in {"intent", "archive"} : c = NextWrite(x) BY DEF NextWrite
  <2>2. proc'[p].pc = c /\ proc'[p].op = x
    BY <1>0, <1>2, <1>4, <2>1, GoMoves DEF Finalize, Pcs, RetirePcs
  <2>3. /\ Retirable(x.disp, x.sha) /\ x.gen = plan.gen
        /\ x.disp = "completed-external" => Proven(x)
        /\ IntentsOf(x) \subseteq {x}
        /\ UNCHANGED <<plan, archives, ledger, intents, progress>>
    BY <1>2, <1>4 DEF Finalize, Confirmed
  <2>4. x.sha.work # "busy" /\ (x.disp = "superseded" => x.sha.work = "closed")
    BY <1>0, <2>3, PlanTyped DEF Retirable
  <2>5. c # "intent" => x \in intents
    BY <2>1, <2>3 DEF NextWrite, IntentsOf
  <2>6. HoldsFor(c, x) BY <2>1, <2>3, <2>4, <2>5 DEF HoldsFor, WritePcs
  <2>7. HoldsFor(c, x)' BY <2>3, <2>6 DEF HoldsFor, IntentsOf, Proven
  <2> QED BY <2>2, <2>7, HoldsPrimed
<1>5. CASE WriteIntent(p)
  <2>1. proc[p].pc = "intent" /\ proc'[p].pc = "archive" /\ proc'[p].op = x
    BY <1>0, <1>2, <1>5, GoMoves DEF WriteIntent, Pcs, RetirePcs
  <2>2. HoldsFor("intent", x) BY <1>0, <1>2, <2>1 DEF RetireHolds
  <2>3. intents' = intents \cup {x} /\ UNCHANGED <<plan, archives, ledger, progress>>
    BY <1>2, <1>5 DEF WriteIntent
  <2>4. Proven(x) => Proven(x)' BY <2>3 DEF Proven
  <2>5. HoldsFor("archive", x)'
    BY <2>2, <2>3, <2>4 DEF HoldsFor, IntentsOf, WritePcs
  <2> QED BY <2>1, <2>5, HoldsPrimed
<1>6. CASE WriteArchive(p)
  <2>1. proc[p].pc = "archive" /\ proc'[p].pc = "receipt" /\ proc'[p].op = x
    BY <1>0, <1>2, <1>6, GoMoves DEF WriteArchive, Pcs, RetirePcs
  <2>2. HoldsFor("archive", x) BY <1>0, <1>2, <2>1 DEF RetireHolds
  <2>3. archives' = archives \cup {x.sha} /\ UNCHANGED <<plan, intents, ledger, progress>>
    BY <1>2, <1>6 DEF WriteArchive
  <2>4. Proven(x) => Proven(x)' BY <2>3 DEF Proven
  <2>5. HoldsFor("receipt", x)'
    BY <2>2, <2>3, <2>4 DEF HoldsFor, IntentsOf, WritePcs
  <2> QED BY <2>1, <2>5, HoldsPrimed
<1>7. CASE WriteReceipt(p)
  <2>1. proc[p].pc = "receipt" /\ proc'[p].pc = "unlink" /\ proc'[p].op = x
    BY <1>0, <1>2, <1>7, GoMoves DEF WriteReceipt, Pcs, RetirePcs
  <2>2. HoldsFor("receipt", x) BY <1>0, <1>2, <2>1 DEF RetireHolds
  <2>3. /\ Prior(x.sha) \subseteq {x} /\ ledger' = Receipted(x)
        /\ UNCHANGED <<plan, archives, intents, progress>>
    BY <1>2, <1>7 DEF WriteReceipt
  <2>4. Proven(x) => Proven(x)' BY <2>3 DEF Proven
  <2>5. x \in ToSet(ledger')
    <3>1. CASE Prior(x.sha) = {}
      <4>1. ledger' = Append(ledger, x) /\ ledger \in Seq(Receipt)
        BY <1>0, <2>3, <3>1 DEF Receipted, TypeOK
      <4> QED BY <1>2, <4>1, AppendSet
    <3>2. CASE Prior(x.sha) # {}
      <4>1. x \in Prior(x.sha) /\ ledger' = ledger BY <2>3, <3>2 DEF Receipted
      <4> QED BY <4>1 DEF Prior, RowsOf
    <3> QED BY <3>1, <3>2
  <2>6. HoldsFor("unlink", x)'
    BY <2>2, <2>3, <2>4, <2>5 DEF HoldsFor, IntentsOf, WritePcs
  <2> QED BY <2>1, <2>6, HoldsPrimed
<1>8. CASE Unlink(p)
  <2>1. proc[p].pc = "unlink" /\ proc'[p].pc = "clear" /\ proc'[p].op = x
    BY <1>0, <1>2, <1>8, GoMoves DEF Unlink, Pcs, RetirePcs
  <2>2. HoldsFor("unlink", x) BY <1>0, <1>2, <2>1 DEF RetireHolds
  <2>3. plan' = NoPlan /\ UNCHANGED <<archives, intents, ledger, progress>>
    BY <1>2, <1>8 DEF Unlink
  <2>4. Proven(x) => Proven(x)' BY <2>3 DEF Proven
  <2>5. HoldsFor("clear", x)'
    BY <2>2, <2>3, <2>4 DEF HoldsFor, IntentsOf, WritePcs
  <2> QED BY <2>1, <2>5, HoldsPrimed
<1> QED BY <1>1, <1>3, <1>4, <1>5, <1>6, <1>7, <1>8, PcFrom

LEMMA InitHoldsStep ==
  ASSUME IInv, Next, NEW p \in Processes
  PROVE  InitHolds(p)'
<1>0. TypeOK /\ InitHolds(p) BY DEF IInv, RetireInv
<1>1. CASE proc'[p].pc \notin InitPcs BY <1>1 DEF InitHolds, InitFor, InitPcs
<1>2. PICK sha \in Bytes : sha = proc[p].op.sha BY <1>0, ProcessTyped
<1>3. CASE ~Step(p) /\ proc'[p].pc \in InitPcs
  <2>1. proc'[p] = proc[p] BY <1>0, <1>3, StepCases, StepOthers, OutsideProc DEF Others
  <2>2. PICK c \in Pcs : c = proc[p].pc BY <1>0, ProcessTyped
  <2>3. plan' = plan /\ archives' = archives /\ ledger' = ledger BY <1>3, <2>1, Held
  <2>4. InitFor(c, sha) BY <1>0, <1>2, <2>2 DEF InitHolds
  <2>5. InitFor(c, sha)' BY <2>3, <2>4 DEF InitFor, Prior, RowsOf
  <2> QED BY <1>2, <2>1, <2>2, <2>5, InitPrimed
<1>4. CASE InitOver(p)
  <2>1. PICK b \in Bytes : b = BytesOf(plan) BY <1>0, PlanTyped
  <2>2. proc'[p].pc = "init_archive" /\ proc'[p].op.sha = b
    BY <1>0, <1>4, <2>1, InitOverMoves, ReplacedTyped
  <2>3. plan # NoPlan /\ Prior(b) = {} /\ plan' = plan /\ ledger' = ledger
    BY <1>4, <2>1 DEF InitOver
  <2>4. InitFor("init_archive", b)'
    BY <2>1, <2>3 DEF InitFor, Prior, RowsOf
  <2> QED BY <2>2, <2>4, InitPrimed
<1>5. CASE InitArchive(p)
  <2>1. proc[p].pc = "init_archive" /\ proc'[p].pc = "init_receipt" /\ proc'[p].op.sha = sha
    BY <1>0, <1>2, <1>5, GoMoves DEF InitArchive, Pcs, InitPcs
  <2>2. InitFor("init_archive", sha) BY <1>0, <1>2, <2>1 DEF InitHolds
  <2>3. archives' = archives \cup {sha} /\ plan' = plan /\ ledger' = ledger
    BY <1>2, <1>5 DEF InitArchive
  <2>4. InitFor("init_receipt", sha)'
    BY <2>2, <2>3 DEF InitFor, Prior, RowsOf, InitPcs
  <2> QED BY <2>1, <2>4, InitPrimed
<1>6. CASE InitReceipt(p)
  <2>1. proc[p].pc = "init_receipt" /\ proc'[p].pc = "init_save" /\ proc'[p].op.sha = sha
    BY <1>0, <1>2, <1>6, GoMoves DEF InitReceipt, Pcs, InitPcs
  <2>2. InitFor("init_receipt", sha) BY <1>0, <1>2, <2>1 DEF InitHolds
  <2>3. /\ plan' = plan /\ archives' = archives
        /\ ledger' = IF RowsOf(sha) = {} THEN Append(ledger, proc[p].op) ELSE ledger
    BY <1>2, <1>6 DEF InitReceipt
  <2>4. /\ proc[p].op \in Receipt /\ proc[p].op.disp = "replaced" /\ proc[p].op.sha = sha
    BY <1>0, <1>2, <2>1, ProcessTyped, CarriesFacts DEF InitPcs
  <2>5. Prior(sha) = {} BY <2>2 DEF InitFor, InitPcs
  <2>6. /\ \E r \in ToSet(ledger') : r.sha = sha /\ r.disp = "replaced"
        /\ \A r \in ToSet(ledger') : r.sha = sha => r.disp \notin Retirements
    <3>1. CASE RowsOf(sha) = {}
      <4>1. ToSet(ledger') = ToSet(ledger) \cup {proc[p].op}
        BY <1>0, <2>3, <2>4, <3>1, AppendSet DEF TypeOK
      <4> QED BY <2>4, <3>1, <4>1 DEF RowsOf, Retirements
    <3>2. CASE RowsOf(sha) # {}
      <4>1. PICK r \in RowsOf(sha) : TRUE BY <3>2
      <4>2. r \in ToSet(ledger) /\ r.sha = sha /\ r \in Receipt
        BY <1>0, <4>1, OperationsTyped DEF RowsOf
      <4>3. \A s \in ToSet(ledger) : s.sha = sha => s.disp \notin Retirements
        BY <2>5 DEF Prior, RowsOf
      <4>4. r.disp = "replaced" BY <4>2, <4>3 DEF Receipt
      <4> QED BY <2>3, <3>2, <4>2, <4>3, <4>4
    <3> QED BY <3>1, <3>2
  <2>7. InitFor("init_save", sha)'
    BY <2>2, <2>3, <2>6 DEF InitFor, Prior, RowsOf, InitPcs
  <2> QED BY <2>1, <2>7, InitPrimed
<1> QED BY <1>1, <1>3, <1>4, <1>5, <1>6, PcFrom

-----------------------------------------------------------------------------
(* Receipts and intents.                                                   *)

LEMMA ArchivesStep ==
  ASSUME IInv, Next
  PROVE  ArchivesReal' /\ archives \subseteq archives'
<1>0. TypeOK /\ ArchivesReal /\ OperationsNamed BY DEF IInv, RetireInv
<1>1. CASE archives' = archives BY <1>0, <1>1 DEF ArchivesReal
<1>2. ASSUME NEW p \in Processes, WriteArchive(p) \/ InitArchive(p)
      PROVE  ArchivesReal' /\ archives \subseteq archives'
  <2>1. archives' = archives \cup {proc[p].op.sha} BY <1>2 DEF WriteArchive, InitArchive
  <2>2. plan # NoPlan /\ BytesOf(plan) = proc[p].op.sha
    <3>1. CASE WriteArchive(p)
      <4>1. proc[p].pc = "archive" BY <3>1 DEF WriteArchive
      <4>2. RetireHolds(p) BY DEF IInv, RetireInv
      <4>3. plan.gen = proc[p].op.gen BY <4>1, <4>2 DEF RetireHolds, HoldsFor, WritePcs
      <4>4. /\ proc[p].op.gen \in 1 .. made.gen /\ proc[p].op.sha = BytesOf(plan)
        BY <4>1, <4>3, RetiringFacts, CarriesFacts DEF RetirePcs
      <4> QED BY <1>0, <4>3, <4>4, PlanTyped, CountersTyped
    <3>2. CASE InitArchive(p)
      <4>1. proc[p].pc = "init_archive" BY <3>2 DEF InitArchive
      <4>2. InitHolds(p) BY DEF IInv, RetireInv
      <4> QED BY <4>1, <4>2 DEF InitHolds, InitFor, InitPcs
    <3> QED BY <1>2, <3>1, <3>2
  <2>3. BytesOf(plan).id # 0 /\ BytesOf(plan).rev # 0
    BY <1>0, <2>2, PlanTyped, CountersTyped DEF Plan
  <2> QED BY <1>0, <2>1, <2>2, <2>3 DEF ArchivesReal
<1> QED BY <1>1, <1>2, RecordStep

\* A retirement is over only once the plan is of another generation.
LEMMA StillIntendedStep ==
  ASSUME IInv, Next
  PROVE  StillIntended'
<1>0. TypeOK /\ StillIntended /\ OperationsNamed BY DEF IInv, RetireInv
<1> SUFFICES ASSUME NEW r \in RetiredRows', r.gen = plan'.gen PROVE r \in intents'
  BY DEF StillIntended
<1>1. r \in Operations BY OperationsStep
<1>2. plan' = plan BY <1>1, GenMoves
<1>3. r.gen = plan.gen BY <1>2
<1>4. r.sha = BytesOf(plan) /\ plan # NoPlan
  BY <1>0, <1>1, <1>3, PlanTyped, CountersTyped DEF OperationsNamed
<1>5. r \in intents
  <2>1. CASE r \in RetiredRows BY <1>0, <1>3, <2>1 DEF StillIntended
  <2>2. CASE r \notin RetiredRows
    <3>1. PICK p \in Processes : WriteReceipt(p) \/ InitReceipt(p)
      BY <2>2, RecordStep DEF RetiredRows
    <3>2. ToSet(ledger') \subseteq ToSet(ledger) \cup {proc[p].op}
      <4>1. proc[p].op \in Receipt BY <1>0, ProcessTyped
      <4>2. ledger \in Seq(Receipt) BY <1>0 DEF TypeOK
      <4>3. ledger' = ledger \/ ledger' = Append(ledger, proc[p].op)
        BY <3>1 DEF WriteReceipt, Receipted, InitReceipt
      <4>4. ToSet(Append(ledger, proc[p].op)) = ToSet(ledger) \cup {proc[p].op}
        BY <4>1, <4>2, AppendSet
      <4> QED BY <4>3, <4>4
    <3>3. r = proc[p].op /\ r.disp \in Retirements BY <2>2, <3>2 DEF RetiredRows
    <3>4. WriteReceipt(p)
      BY <3>1, <3>3, CarriesFacts DEF InitReceipt, InitPcs, Retirements
    <3>5. RetireHolds(p) /\ proc[p].pc = "receipt"
      BY <3>4 DEF IInv, RetireInv, WriteReceipt
    <3> QED BY <3>3, <3>5 DEF RetireHolds, HoldsFor, WritePcs
  <2> QED BY <2>1, <2>2
<1>6. ASSUME NEW disp, NEW sha, AlreadyRetired(disp, sha) PROVE r.sha # sha
  BY <1>4, <1>6 DEF AlreadyRetired
<1>7. CASE \E p \in Processes : WriteIntent(p) BY <1>5, <1>7 DEF WriteIntent
<1>8. CASE Guard BY <1>3, <1>5, <1>8 DEF Guard, GuardPasses, Leftover
<1>9. CASE \E p \in Processes : Clear(p)
  <2>1. PICK p \in Processes : Clear(p) BY <1>9
  <2>2. RetireHolds(p) /\ proc[p].pc = "clear" BY <2>1 DEF IInv, RetireInv, Clear
  <2>3. plan = NoPlan BY <2>2 DEF RetireHolds, HoldsFor
  <2> QED BY <1>4, <2>3
<1>10. CASE \E disp \in Retirements, sha \in Known :
              /\ AlreadyRetired(disp, sha) /\ plan' = plan
              /\ intents' = {i \in intents : i.sha # sha}
  BY <1>5, <1>6, <1>10
<1>11. CASE \E p \in Processes : FinalizeDone(p) BY <1>5, <1>6, <1>11 DEF FinalizeDone
<1> QED BY <1>5, <1>7, <1>8, <1>9, <1>10, <1>11, IntentStep

\* A receipt that was true stays true.
LEMMA ReceiptsStay ==
  ASSUME IInv, Next, NEW r \in ToSet(ledger)
  PROVE  ValidReceipt(r)'
<1>1. ValidReceipt(r) BY DEF IInv, RetireInv, RetiredOnce
<1>2. r.disp = "completed-external" => r \in RetiredRows BY DEF RetiredRows, Retirements
<1>3. Proven(r) /\ r \in RetiredRows => Proven(r)' BY OthersProven DEF Operations
<1> QED BY <1>1, <1>2, <1>3, ArchivesStep DEF ValidReceipt

LEMMA RetiredOnceStep ==
  ASSUME IInv, Next
  PROVE  RetiredOnce'
<1>0. TypeOK /\ RetiredOnce /\ OperationsNamed BY DEF IInv, RetireInv
<1> DEFINE Distinct(l) ==
      \A i, j \in DOMAIN l :
        i # j /\ {l[i].disp, l[j].disp} \subseteq Retirements
          => l[i].sha # l[j].sha /\ l[i].proof # l[j].proof
<1>1. CASE ledger' = ledger
  <2>1. \A r \in ToSet(ledger') : ValidReceipt(r)' BY <1>1, ReceiptsStay
  <2>2. Distinct(ledger') BY <1>0, <1>1 DEF RetiredOnce
  <2> QED BY <2>1, <2>2 DEF RetiredOnce
<1>2. ASSUME NEW p \in Processes, WriteReceipt(p), ledger' # ledger
      PROVE  RetiredOnce'
  <2>1. PICK x \in Receipt : x = proc[p].op BY <1>0, ProcessTyped
  <2>2. /\ Prior(x.sha) = {} /\ ledger' = Append(ledger, x) /\ proc[p].pc = "receipt"
        /\ UNCHANGED <<archives, progress>>
    BY <1>2, <2>1 DEF WriteReceipt, Receipted
  <2>3. ledger \in Seq(Receipt) BY <1>0 DEF TypeOK
  <2>4. RetireHolds(p) BY DEF IInv, RetireInv
  <2>5. HoldsFor("receipt", x) BY <2>1, <2>2, <2>4 DEF RetireHolds
  <2>6. ValidReceipt(x)
    BY <2>5 DEF HoldsFor, WritePcs, ValidReceipt
  <2>7. ValidReceipt(x)' BY <2>2, <2>6 DEF ValidReceipt, Proven
  <2>8. ToSet(ledger') = ToSet(ledger) \cup {x} BY <2>2, <2>3, AppendSet
  <2>9. \A r \in ToSet(ledger') : ValidReceipt(r)' BY <2>7, <2>8, ReceiptsStay
  <2>10. x \in Operations BY <2>1, <2>2, CarriesFacts DEF RetirePcs
  <2>11. ASSUME NEW r \in RetiredRows PROVE r.sha # x.sha /\ r.proof # x.proof
    <3>1. r.sha # x.sha BY <2>2 DEF Prior, RowsOf, RetiredRows
    <3>2. r \in Operations BY DEF Operations
    <3> QED BY <1>0, <2>10, <3>1, <3>2 DEF OperationsNamed
  <2>12. \A i \in DOMAIN ledger' :
           \/ i \in DOMAIN ledger /\ ledger'[i] = ledger[i]
           \/ i = Len(ledger) + 1 /\ ledger'[i] = x
    BY <2>2, <2>3, AppendSet
  <2>13. \A i \in DOMAIN ledger : ledger[i].disp \in Retirements => ledger[i] \in RetiredRows
    BY DEF RetiredRows, ToSet
  <2>14. ASSUME NEW i \in DOMAIN ledger', NEW j \in DOMAIN ledger', i # j,
                {ledger'[i].disp, ledger'[j].disp} \subseteq Retirements
         PROVE  ledger'[i].sha # ledger'[j].sha /\ ledger'[i].proof # ledger'[j].proof
    <3>1. CASE i \in DOMAIN ledger /\ ledger'[i] = ledger[i]
               /\ j \in DOMAIN ledger /\ ledger'[j] = ledger[j]
      BY <1>0, <2>14, <3>1 DEF RetiredOnce
    <3>2. CASE i \in DOMAIN ledger /\ ledger'[i] = ledger[i] /\ ledger'[j] = x
      <4>1. ledger[i] \in RetiredRows BY <2>13, <2>14, <3>2
      <4> QED BY <2>11, <3>2, <4>1
    <3>3. CASE j \in DOMAIN ledger /\ ledger'[j] = ledger[j] /\ ledger'[i] = x
      <4>1. ledger[j] \in RetiredRows BY <2>13, <2>14, <3>3
      <4> QED BY <2>11, <3>3, <4>1
    <3> QED BY <2>12, <2>14, <3>1, <3>2, <3>3
  <2>15. Distinct(ledger') BY <2>14
  <2> QED BY <2>9, <2>15 DEF RetiredOnce
<1>3. ASSUME NEW p \in Processes, InitReceipt(p), ledger' # ledger
      PROVE  RetiredOnce'
  <2>1. PICK x \in Receipt : x = proc[p].op BY <1>0, ProcessTyped
  <2>2. /\ ledger' = Append(ledger, x) /\ proc[p].pc = "init_receipt"
        /\ UNCHANGED <<archives, progress>>
    BY <1>3, <2>1 DEF InitReceipt
  <2>3. ledger \in Seq(Receipt) BY <1>0 DEF TypeOK
  <2>4. x.disp = "replaced" BY <2>1, <2>2, CarriesFacts DEF InitPcs
  <2>5. x.sha \in archives
    <3>1. InitHolds(p) BY DEF IInv, RetireInv
    <3> QED BY <2>1, <2>2, <3>1 DEF InitHolds, InitFor
  <2>6. ValidReceipt(x)' BY <2>2, <2>4, <2>5 DEF ValidReceipt, Retirements
  <2>7. ToSet(ledger') = ToSet(ledger) \cup {x} BY <2>2, <2>3, AppendSet
  <2>8. \A r \in ToSet(ledger') : ValidReceipt(r)' BY <2>6, <2>7, ReceiptsStay
  <2>9. \A i \in DOMAIN ledger' :
          \/ i \in DOMAIN ledger /\ ledger'[i] = ledger[i]
          \/ ledger'[i].disp \notin Retirements
    BY <2>2, <2>3, <2>4, AppendSet DEF Retirements
  <2>10. Distinct(ledger') BY <1>0, <2>9 DEF RetiredOnce
  <2> QED BY <2>8, <2>10 DEF RetiredOnce
<1> QED BY <1>1, <1>2, <1>3, RecordStep

-----------------------------------------------------------------------------
(* The invariant.                                                          *)

LEMMA InitInv == Init => IInv
<1> SUFFICES ASSUME Init PROVE IInv OBVIOUS
<1>1. \A p \in Processes : proc[p] = Idle /\ proc[p].pc = "idle" /\ proc[p].op = NoOp
                           /\ ~Retiring(p)
  BY IdleTyped DEF Init, Retiring
<1>2. ToSet(ledger) = {} BY DEF Init, ToSet
<1>3. plan.gen = 1 /\ made.gen = 1 /\ made.proofs = 0 BY DEF Init
<1>4. Operations = {} BY <1>1, <1>2 DEF Init, Operations, RetiredRows
<1>5. TypeOK
  <2>1. MaxGen \in Nat \ {0} /\ MaxPlans \in Nat \ {0} /\ MaxHead \in Nat
        /\ MaxProofs \in Nat /\ MaxFaults \in Nat
    BY BoundsAssumption
  <2>2. plan \in Plan BY <2>1 DEF Init, Plan, Work
  <2>3. made \in [gen : 1 .. MaxGen, plans : 1 .. MaxPlans, proofs : 0 .. MaxProofs]
    BY <2>1 DEF Init
  <2>4. proc \in [Processes -> Process] BY IdleTyped DEF Init
  <2>5. ledger \in Seq(Receipt) BY DEF Init
  <2>6. head \in 0 .. MaxHead /\ faults \in 0 .. MaxFaults BY <2>1 DEF Init
  <2> QED BY <2>2, <2>3, <2>4, <2>5, <2>6 DEF Init, TypeOK
<1>6. OperationsNamed BY <1>3, <1>4 DEF OperationsNamed
<1>7. RowsTrue /\ ArchivesReal BY DEF Init, RowsTrue, ArchivesReal
<1>8. StillIntended BY <1>2 DEF StillIntended, RetiredRows
<1>9. RetiredOnce BY <1>2 DEF RetiredOnce, Init
<1>10. ASSUME NEW p \in Processes
       PROVE  Unanswered(p) /\ Witnessed(p) /\ Carries(p) /\ RetireHolds(p) /\ InitHolds(p)
  <2>1. proc[p] = Idle /\ proc[p].pc = "idle" /\ ~Retiring(p) BY <1>1
  <2>2. Unanswered(p) /\ Witnessed(p) BY <2>1 DEF Unanswered, Witnessed
  <2>3. Carries(p) BY <2>1 DEF Carries, RetirePcs, AcceptPcs, InitPcs, WritePcs
  <2>4. RetireHolds(p) /\ InitHolds(p)
    BY <2>1 DEF RetireHolds, HoldsFor, InitHolds, InitFor, WritePcs, InitPcs
  <2> QED BY <2>2, <2>3, <2>4
<1> QED BY <1>5, <1>6, <1>7, <1>8, <1>9, <1>10 DEF IInv, RetireInv

LEMMA StepInv == IInv /\ [Next]_vars => IInv'
<1> SUFFICES ASSUME IInv, [Next]_vars PROVE IInv' OBVIOUS
<1>1. CASE Next
  <2>1. TypeOK' BY <1>1, NextTyped
  <2>2. /\ OperationsNamed' /\ RowsTrue' /\ StillIntended' /\ RetiredOnce' /\ ArchivesReal'
    BY <1>1, OperationsNamedStep, RowsTrueStep, StillIntendedStep, RetiredOnceStep,
       ArchivesStep
  <2>3. ASSUME NEW p \in Processes
        PROVE  /\ Unanswered(p)' /\ Witnessed(p)' /\ Carries(p)'
               /\ RetireHolds(p)' /\ InitHolds(p)'
    BY <1>1, UnansweredStep, WitnessedStep, CarriesStep, RetireHoldsStep, InitHoldsStep
  <2> QED BY <2>1, <2>2, <2>3 DEF IInv, RetireInv
<1>2. CASE UNCHANGED vars
  <2>1. TypeOK' BY <1>2 DEF IInv, TypeOK, vars
  <2>2. OperationsNamed'
    BY <1>2 DEF IInv, RetireInv, vars, OperationsNamed, Operations, RetiredRows, Retiring
  <2>3. RowsTrue' /\ ArchivesReal'
    BY <1>2 DEF IInv, RetireInv, vars, RowsTrue, ArchivesReal
  <2>4. StillIntended' BY <1>2 DEF IInv, RetireInv, vars, StillIntended, RetiredRows
  <2>5. RetiredOnce'
    <3>1. \A r : ValidReceipt(r) => ValidReceipt(r)'
      BY <1>2 DEF vars, ValidReceipt, Proven
    <3>2. RetiredOnce /\ ledger' = ledger BY <1>2 DEF IInv, RetireInv, vars
    <3> QED BY <3>1, <3>2 DEF RetiredOnce
  <2>6. ASSUME NEW p \in Processes
        PROVE  /\ Unanswered(p)' /\ Witnessed(p)' /\ Carries(p)'
               /\ RetireHolds(p)' /\ InitHolds(p)'
    <3>1. Unanswered(p)'
      BY <1>2 DEF IInv, RetireInv, vars, Unanswered, Retiring, RetiredRows
    <3>2. Witnessed(p)' /\ Carries(p)'
      BY <1>2 DEF IInv, RetireInv, vars, Witnessed, Carries, Retiring
    <3>3. RetireHolds(p)'
      BY <1>2 DEF IInv, RetireInv, vars, RetireHolds, HoldsFor, Proven, IntentsOf
    <3>4. InitHolds(p)'
      BY <1>2 DEF IInv, RetireInv, vars, InitHolds, InitFor, Prior, RowsOf
    <3> QED BY <3>1, <3>2, <3>3, <3>4
  <2>7. RetireInv' BY <2>2, <2>3, <2>4, <2>5, <2>6 DEF RetireInv
  <2> QED BY <2>1, <2>7 DEF IInv
<1> QED BY <1>1, <1>2

\* The inductive invariant holds, whatever is typed and killed.
THEOREM RetireInvariant == Spec => []IInv
BY InitInv, StepInv, PTL DEF Spec

\* Every state is well typed.
THEOREM RetireTypeCorrect == Spec => []TypeOK
<1>1. IInv => TypeOK BY DEF IInv
<1> QED BY <1>1, RetireInvariant, PTL

\* retire and its replays write one receipt per plan, with a proof of its own, and
\* every receipt stays true of the archive and of the acceptance rows.
THEOREM RetiredOnceCorrect == Spec => []RetiredOnce
<1>1. IInv => RetiredOnce BY DEF IInv, RetireInv
<1> QED BY <1>1, RetireInvariant, PTL

\* A plan retired as completed elsewhere was accepted as retired: one acceptance row
\* answers it, of its own command, which passed on the HEAD of the receipt.
THEOREM AcceptedAsRetiredCorrect == Spec => []AcceptedAsRetired
<1>1. IInv => AcceptedAsRetired
  <2> SUFFICES ASSUME IInv, NEW r \in ToSet(ledger), r.disp = "completed-external"
               PROVE  /\ Cardinality({row \in progress : row.proof = r.proof}) = 1
                      /\ \A row \in progress : row.proof = r.proof =>
                           row.passed /\ row.ran = r.sha.id /\ row.on = r.head
    BY DEF AcceptedAsRetired
  <2>1. Proven(r) BY DEF IInv, RetireInv, RetiredOnce, ValidReceipt
  <2>2. RowsTrue BY DEF IInv, RetireInv
  <2> QED BY <2>1, <2>2 DEF Proven, RowsTrue
<1> QED BY <1>1, RetireInvariant, PTL

\* However retirements, replays, inits and kills interleave, the plan in tasks.json
\* gives way only once its exact bytes are archived and receipted.
THEOREM PlanKeptCorrect == Spec => PlanKept
<1> DEFINE Kept ==
      plan # NoPlan /\ plan'.id # plan.id
        => /\ BytesOf(plan) \in archives'
           /\ \E r \in ToSet(ledger') :
                /\ r.sha = BytesOf(plan)
                /\ IF plan' = NoPlan THEN r.gen = plan.gen ELSE r.disp = "replaced"
<1>1. IInv /\ [Next]_vars => Kept
  <2> SUFFICES ASSUME IInv, [Next]_vars, plan # NoPlan, plan'.id # plan.id
               PROVE  /\ BytesOf(plan) \in archives'
                      /\ \E r \in ToSet(ledger') :
                           /\ r.sha = BytesOf(plan)
                           /\ IF plan' = NoPlan THEN r.gen = plan.gen
                              ELSE r.disp = "replaced"
    OBVIOUS
  <2>0. TypeOK BY DEF IInv
  <2>1. Next BY DEF vars
  <2>2. ASSUME NEW p \in Processes, Unlink(p)
        PROVE  /\ BytesOf(plan) \in archives' /\ plan' = NoPlan
               /\ \E r \in ToSet(ledger') : r.sha = BytesOf(plan) /\ r.gen = plan.gen
    <3>1. RetireHolds(p) BY DEF IInv, RetireInv
    <3> QED BY <2>2, <3>1 DEF Unlink, RetireHolds, HoldsFor
  <2>3. ASSUME NEW p \in Processes, InitSave(p)
        PROVE  /\ BytesOf(plan) \in archives' /\ plan' # NoPlan
               /\ \E r \in ToSet(ledger') : r.sha = BytesOf(plan) /\ r.disp = "replaced"
    <3>1. InitHolds(p) BY DEF IInv, RetireInv
    <3>2. plan' # NoPlan
      BY <2>0, <2>3, NewPlanMoves, CountersTyped DEF InitSave, Plan, NoPlan
    <3> QED BY <2>3, <3>1, <3>2 DEF InitSave, InitHolds, InitFor, InitPcs
  <2>4. ~WorkOn
    <3> SUFFICES ASSUME WorkOn PROVE FALSE OBVIOUS
    <3>1. plan \in Plan BY <2>0, PlanTyped
    <3>2. PICK w \in Work :
            plan' = [plan EXCEPT !.work = w, !.rev = made.gen + 1, !.gen = made.gen + 1]
      BY DEF WorkOn
    <3>3. plan'.id = plan.id BY <3>1, <3>2 DEF Plan
    <3> QED BY <3>3
  <2>5. \E p \in Processes : Unlink(p) \/ InitSave(p)
    <3>1. CASE Outside
      BY <2>4, <3>1 DEF Outside, PreflightDone, InitFresh, Restore, Commit
    <3>2. ASSUME NEW p \in Processes, Step(p), ~Unlink(p), ~InitSave(p) PROVE FALSE
      <4>1. plan' = plan
        BY <3>2 DEF Step, Retire, Preflight, AcceptGuard, ReadCommand, Freeze, RunCommand,
           Record, Finalize, FinalizeDone, WriteIntent, WriteArchive, WriteReceipt, Clear,
           InitOver, InitArchive, InitReceipt, Refuse, Kill
      <4> QED BY <4>1
    <3> QED BY <2>1, <3>1, <3>2, StepCases
  <2> QED BY <2>2, <2>3, <2>5
<1>2. [][Kept]_vars => PlanKept
  <2>1. [Kept]_vars => Kept BY DEF vars
  <2> QED BY <2>1, PTL DEF PlanKept
<1> QED BY <1>1, <1>2, RetireInvariant, PTL DEF Spec

\* A plan whose receipt is written, and whose unlink is still to come, is not worked
\* on: it stays as it is until it is unlinked.
THEOREM ReceiptedIsFrozenCorrect == Spec => ReceiptedIsFrozen
<1> DEFINE Frozen ==
      \A r \in ToSet(ledger) :
        r.disp \in Retirements /\ r.gen = plan.gen => plan' \in {plan, NoPlan}
<1>1. IInv /\ [Next]_vars => Frozen
  <2> SUFFICES ASSUME IInv, [Next]_vars, NEW r \in RetiredRows, r.gen = plan.gen
               PROVE  plan' \in {plan, NoPlan}
    BY DEF RetiredRows
  <2>0. TypeOK /\ OperationsNamed /\ StillIntended BY DEF IInv, RetireInv
  <2>1. r \in Operations /\ r \in intents BY <2>0 DEF Operations, StillIntended
  <2>2. plan # NoPlan /\ r.sha = BytesOf(plan)
    BY <2>0, <2>1, PlanTyped, CountersTyped DEF OperationsNamed
  <2>3. ~Guard BY <2>1 DEF Guard, GuardPasses, Leftover
  <2>4. ASSUME NEW p \in Processes, InitSave(p) PROVE FALSE
    <3>1. InitHolds(p) BY DEF IInv, RetireInv
    <3>2. Prior(BytesOf(plan)) = {} BY <2>4, <3>1 DEF InitSave, InitHolds, InitFor, InitPcs
    <3> QED BY <2>2, <3>2 DEF Prior, RowsOf, RetiredRows
  <2>5. CASE Next
    <3>1. CASE Outside
      BY <2>2, <2>3, <3>1 DEF Outside, PreflightDone, InitFresh, WorkOn, Restore, Commit
    <3>2. ASSUME NEW p \in Processes, Step(p) PROVE plan' = plan \/ plan' = NoPlan
      BY <2>4, <3>2 DEF Step, Retire, Preflight, AcceptGuard, ReadCommand, Freeze,
         RunCommand, Record, Finalize, FinalizeDone, WriteIntent, WriteArchive,
         WriteReceipt, Unlink, Clear, InitOver, InitArchive, InitReceipt, Refuse, Kill
    <3> QED BY <2>5, <3>1, <3>2, StepCases
  <2> QED BY <2>5 DEF vars
<1>2. [][Frozen]_vars => ReceiptedIsFrozen
  BY PTL DEF ReceiptedIsFrozen
<1> QED BY <1>1, <1>2, RetireInvariant, PTL DEF Spec

=============================================================================
