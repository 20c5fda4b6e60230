------------------------------ MODULE PlanRetire -----------------------------
(***************************************************************************)
(* How a plan leaves .oms/plan/tasks.json: `agent-plan retire` (lib/plan-  *)
(* retire.py), which runs the plan's acceptance command outside the plan   *)
(* lock and then archives, receipts and unlinks the plan under it, `init`  *)
(* over a plan, and the guard every other plan verb passes first.          *)
(*                                                                         *)
(* One action is one durable write, or one locked or unlocked read that a  *)
(* later step relies on; a process may die between any two.  The names a   *)
(* file has while it is being linked into place are not modelled: only     *)
(* the retirement that finds them looks at them.  Nor is a dirty worktree, *)
(* which only makes a retirement refuse.                                   *)
(***************************************************************************)
EXTENDS Naturals, Sequences, FiniteSets, SequencesExt

CONSTANTS
  Processes,   \* agent-plan commands that take more than one step
  NoOne,       \* not a process
  Commands,    \* what is typed: a subset of AllCommands
  Returns,     \* may a plan that `init` has receipted as replaced be active after
               \* all: init killed before its save, or its archive copied back?
  MaxGen,      \* bound: how often the plan file is written
  MaxPlans,    \* bound: plans
  MaxHead,     \* bound: commits
  MaxProofs,   \* bound: proof tokens minted
  Manual,      \* bound: the processes that run an acceptance by itself
  MaxFaults    \* bound: kills

AllCommands == {"retire", "accept", "init", "work", "restore", "commit"}

ASSUME CommandsAssumption == Commands \subseteq AllCommands /\ Returns \in BOOLEAN
ASSUME BoundsAssumption ==
  /\ {MaxGen, MaxPlans} \subseteq Nat \ {0}
  /\ {MaxHead, MaxProofs, MaxFaults} \subseteq Nat
ASSUME NoOneAssumption == NoOne \notin Processes

VARIABLES
  plan,      \* tasks.json, or NoPlan
  archives,  \* the bytes of the content-addressed archives
  ledger,    \* retirements.jsonl
  intents,   \* retire-intent files
  progress,  \* the passing acceptance rows of progress.jsonl
  head,      \* HEAD of the repository
  lock,      \* the plan lock
  proc,      \* the commands at work
  made,      \* how many generations, plans and proofs there have been
  faults     \* kills so far

vars == <<plan, archives, ledger, intents, progress, head, lock, proc, made, faults>>

-----------------------------------------------------------------------------
(* A plan is its bytes and the generation of the file that holds them.  The *)
(* acceptance command is fixed by `init`, so the plan's id names it.  work: *)
(* some task is claimed, running, in review or landing (busy); else some is *)
(* ready or blocked (open); else all are done or cancelled (closed).        *)
Work == {"open", "busy", "closed"}
Plan == [id : 1..MaxPlans, rev : 1..MaxGen, work : Work, gen : 1..MaxGen]
NoPlan == [id |-> 0, rev |-> 0, work |-> "closed", gen |-> 0]
BytesOf(pl) == [id |-> pl.id, rev |-> pl.rev, work |-> pl.work]
Bytes == [id : 0..MaxPlans, rev : 0..MaxGen, work : Work]

Retirements == {"completed-external", "superseded"}

\* A retirement: its intent, and its receipt.  A replacement has no generation,
\* head or proof.
Receipt == [disp : Retirements \cup {"replaced"}, sha : Bytes, gen : 0..MaxGen,
            head : 0..MaxHead, proof : 0..MaxProofs]
Replaced(sha) ==
  [disp |-> "replaced", sha |-> sha, gen |-> 0, head |-> 0, proof |-> 0]

\* An acceptance row, and what really ran: the command of the plan with id ran,
\* on HEAD on, which passed.
Acceptance == [proof : 0..MaxProofs, sha : Bytes, gen : 0..MaxGen, head : 0..MaxHead,
               ran : 0..MaxPlans, on : 0..MaxHead, passed : BOOLEAN]

AcceptPcs == {"guard", "command", "freeze", "run", "record"}
RetirePcs == {"finalize", "intent", "archive", "receipt", "unlink", "clear"}
InitPcs == {"init_archive", "init_receipt", "init_save"}
Process == [pc : {"idle"} \cup AcceptPcs \cup RetirePcs \cup InitPcs,
            op : Receipt, ran : 0..MaxPlans, sha : Bytes,
            seen : 0..MaxHead, on : 0..MaxHead, passed : BOOLEAN]
NoOp == Replaced(BytesOf(NoPlan))
Idle == [pc |-> "idle", op |-> NoOp, ran |-> 0, sha |-> BytesOf(NoPlan),
         seen |-> 0, on |-> 0, passed |-> FALSE]

TypeOK ==
  /\ plan \in Plan \cup {NoPlan}
  /\ archives \subseteq Bytes
  /\ ledger \in Seq(Receipt)
  /\ intents \subseteq Receipt
  /\ progress \subseteq Acceptance
  /\ head \in 0..MaxHead
  /\ lock \in Processes \cup {NoOne}
  /\ proc \in [Processes -> Process]
  /\ made \in [gen : 1..MaxGen, plans : 1..MaxPlans, proofs : 0..MaxProofs]
  /\ faults \in 0..MaxFaults

Init ==
  /\ plan = [id |-> 1, rev |-> 1, work |-> "open", gen |-> 1]
  /\ archives = {} /\ ledger = <<>> /\ intents = {} /\ progress = {}
  /\ head = 0
  /\ lock = NoOne
  /\ proc = [p \in Processes |-> Idle]
  /\ made = [gen |-> 1, plans |-> 1, proofs |-> 0]
  /\ faults = 0

-----------------------------------------------------------------------------
(* The ledger: every reader checks all of it and dies if a row is wrong.     *)

\* The rows of this proof, of which there must be exactly one, and fitting.
Proven(op) ==
  LET matched == {row \in progress : row.proof = op.proof} IN
  /\ Cardinality(matched) = 1
  /\ \A row \in matched : row.sha = op.sha /\ row.head = op.head /\ row.gen = op.gen

ValidReceipt(r) ==
  /\ r.sha \in archives
  /\ r.disp \in Retirements => r.sha.work # "busy"
  /\ r.disp = "superseded" => r.sha.work = "closed"
  /\ r.disp = "completed-external" => Proven(r)

Loads ==
  /\ \A r \in ToSet(ledger) : ValidReceipt(r)
  /\ \A i, j \in DOMAIN ledger :
       i # j => /\ ledger[i].sha # ledger[j].sha
                /\ (ledger[i].disp \in Retirements /\ ledger[j].disp \in Retirements)
                     => ledger[i].proof # ledger[j].proof

RowsOf(sha) == {r \in ToSet(ledger) : r.sha = sha}
Prior(sha) == {r \in RowsOf(sha) : r.disp \in Retirements}

-----------------------------------------------------------------------------
(* The guard of every verb that writes the plan: it removes the intent of a  *)
(* retirement that is done but for that, and dies on any other.              *)
LeftoverReceipted(i) == i \in Prior(i.sha)   \* Slip: the receipt ends a retirement.
Leftover(i) ==
  /\ i \in Prior(i.sha)
  /\ plan.gen # i.gen
  /\ plan.id # i.sha.id
GuardPasses == intents # {} => /\ Cardinality(intents) = 1
                               /\ Loads
                               /\ \A i \in intents : Leftover(i)
Guard == GuardPasses /\ intents' = {}

Free == lock = NoOne
Typed(c) == c \in Commands
Go(p, pc) == proc' = [proc EXCEPT ![p].pc = pc]
Quit(p) == proc' = [proc EXCEPT ![p] = Idle]
NewGen == made.gen < MaxGen

-----------------------------------------------------------------------------
(* retire: the two locked phases begin with the same checks.                 *)

\* The retirement is done: what is left is the intent.
AlreadyCleared(disp, sha) ==                 \* Slip: an intent is never left over.
  /\ \E r \in Prior(sha) : r.disp = disp /\ plan.gen # r.gen
  /\ \A i \in intents : i.sha # sha
AlreadyRetired(disp, sha) ==
  \E r \in Prior(sha) :
    /\ r.disp = disp
    /\ plan.gen # r.gen
    /\ plan # NoPlan => BytesOf(plan) # sha /\ plan.id # sha.id
    /\ \A i \in intents : i.sha = sha => i = r

\* The plan may be retired now.
Retirable(disp, sha) ==
  /\ plan # NoPlan /\ BytesOf(plan) = sha
  /\ plan.work # "busy"
  /\ disp = "superseded" => plan.work = "closed"
  /\ \A r \in Prior(sha) : r.disp = disp /\ r.gen = plan.gen
  /\ Prior(sha) # {} => \E i \in intents : i.sha = sha

\* An operation that has begun keeps its proof; its intent must fit the plan and
\* HEAD as they are now, unless the receipt is written.
Begun(disp, sha) ==
  IF Prior(sha) # {} THEN {r.proof : r \in Prior(sha)}
  ELSE {i.proof : i \in {i \in intents : i.sha = sha}}
IntentFits(disp, sha) ==
  \A i \in intents :
    i.sha = sha /\ Prior(sha) = {}
      => i.disp = disp /\ i.head = head /\ i.gen = plan.gen

Operation(disp, sha, proof) ==
  [disp |-> disp, sha |-> sha, gen |-> plan.gen, head |-> head, proof |-> proof]

PreflightDone(disp, sha) ==
  /\ Free /\ Loads /\ AlreadyRetired(disp, sha)
  /\ intents' = {i \in intents : i.sha # sha}
  /\ UNCHANGED <<plan, archives, ledger, progress, head, lock, proc, made, faults>>

\* The operator names bytes seen in the plan, in an intent or in a receipt.
Known == {BytesOf(plan)} \cup {i.sha : i \in intents} \cup {r.sha : r \in ToSet(ledger)}

Preflight(p, disp, sha) ==
  /\ proc[p].pc = "idle" /\ Free /\ Loads
  /\ ~AlreadyRetired(disp, sha) /\ Retirable(disp, sha) /\ IntentFits(disp, sha)
  /\ \/ /\ Begun(disp, sha) = {} /\ made.proofs < MaxProofs
        /\ made' = [made EXCEPT !.proofs = @ + 1]
        /\ proc' = [proc EXCEPT ![p] =
             [Idle EXCEPT !.pc = IF disp = "superseded" THEN "finalize" ELSE "guard",
                          !.op = Operation(disp, sha, made.proofs + 1)]]
     \/ /\ \E proof \in Begun(disp, sha) :
             proc' = [proc EXCEPT ![p] =
               [Idle EXCEPT !.pc = "finalize", !.op = Operation(disp, sha, proof)]]
        /\ made' = made
  /\ UNCHANGED <<plan, archives, ledger, intents, progress, head, lock, faults>>

-----------------------------------------------------------------------------
(* accept, alone or inside a retirement, which it then answers to.           *)

\* Plan and HEAD are those of the retirement's preflight.
InContext(op) ==
  op # NoOp => /\ plan.gen = op.gen /\ BytesOf(plan) = op.sha
               /\ head = op.head

AcceptGuard(p) ==
  /\ \/ proc[p].pc = "guard"
     \/ proc[p].pc = "idle" /\ Typed("accept") /\ p \in Manual
  /\ Free /\ Guard /\ plan # NoPlan
  /\ Go(p, "command")
  /\ UNCHANGED <<plan, archives, ledger, progress, head, lock, made, faults>>

ReadCommand(p) ==
  /\ proc[p].pc = "command" /\ plan # NoPlan
  /\ proc' = [proc EXCEPT ![p].pc = "freeze", ![p].ran = plan.id]
  /\ UNCHANGED <<plan, archives, ledger, intents, progress, head, lock, made, faults>>

\* The digest the verdict is filed against.  (The code reads it twice, before and
\* after the snapshot of the repository, and dies if the two differ.)
Freeze(p) ==
  /\ proc[p].pc = "freeze" /\ plan # NoPlan /\ InContext(proc[p].op)
  /\ proc' = [proc EXCEPT ![p].pc = "run", ![p].sha = BytesOf(plan), ![p].seen = head]
  /\ UNCHANGED <<plan, archives, ledger, intents, progress, head, lock, made, faults>>

\* Slip: the exit status of the command is lost.
RunCommandAnyExit(p) ==
  /\ proc[p].pc = "run"
  /\ \E passed \in BOOLEAN :
       proc' = [proc EXCEPT ![p].pc = "record", ![p].on = head, ![p].passed = passed]
  /\ UNCHANGED <<plan, archives, ledger, intents, progress, head, lock, made, faults>>

\* A command that fails ends here: its row answers nothing.
RunCommand(p) ==
  /\ proc[p].pc = "run"
  /\ \/ proc' = [proc EXCEPT ![p].pc = "record", ![p].on = head, ![p].passed = TRUE]
     \/ Quit(p)
  /\ UNCHANGED <<plan, archives, ledger, intents, progress, head, lock, made, faults>>

\* Nothing the verdict rests on has changed since it was frozen.
Undisturbed(p) ==
  /\ BytesOf(plan) = proc[p].sha /\ head = proc[p].seen /\ InContext(proc[p].op)

\* A row without a proof token answers no retirement and is not kept; a verdict
\* that is disturbed ends the command.
Row(p) ==
  [proof |-> proc[p].op.proof, sha |-> proc[p].sha, gen |-> proc[p].op.gen,
   head |-> head, ran |-> proc[p].ran, on |-> proc[p].on,
   passed |-> proc[p].passed]
Record(p) ==
  /\ proc[p].pc = "record"
  /\ IF Undisturbed(p) /\ proc[p].op # NoOp
     THEN /\ progress' = progress \cup {Row(p)}
          /\ proc' = [proc EXCEPT ![p] = [Idle EXCEPT !.pc = "finalize", !.op = proc[p].op]]
     ELSE progress' = progress /\ Quit(p)
  /\ UNCHANGED <<plan, archives, ledger, intents, head, lock, made, faults>>

-----------------------------------------------------------------------------
(* retire: the locked finalization, write by write.                          *)

IntentsOf(op) == {i \in intents : i.sha = op.sha}

\* A write that has been made may be made again but for the intent.
NextWriteTrusting(op) ==                     \* Slip: after the intent, the archive is there.
  IF IntentsOf(op) = {} THEN "intent" ELSE "receipt"
NextWrite(op) == IF IntentsOf(op) = {} THEN "intent" ELSE "archive"

\* The checks are made again, and the plan, HEAD and the proof are the preflight's.
Confirmed(op) ==
  /\ Retirable(op.disp, op.sha) /\ IntentFits(op.disp, op.sha)
  /\ op.gen = plan.gen /\ op.head = head
  /\ Begun(op.disp, op.sha) \subseteq {op.proof}
  /\ op.disp = "completed-external" => Proven(op)
  /\ IntentsOf(op) \subseteq {op}

Finalize(p) ==
  LET op == proc[p].op IN
  /\ proc[p].pc = "finalize" /\ Free /\ Loads
  /\ ~AlreadyRetired(op.disp, op.sha) /\ Confirmed(op)
  /\ lock' = p
  /\ Go(p, NextWrite(op))
  /\ UNCHANGED <<plan, archives, ledger, intents, progress, head, made, faults>>

FinalizeDone(p) ==
  LET op == proc[p].op IN
  /\ proc[p].pc = "finalize" /\ Free /\ Loads /\ AlreadyRetired(op.disp, op.sha)
  /\ intents' = {i \in intents : i.sha # op.sha}
  /\ Quit(p)
  /\ UNCHANGED <<plan, archives, ledger, progress, head, lock, made, faults>>

WriteIntent(p) ==
  /\ proc[p].pc = "intent"
  /\ intents' = intents \cup {proc[p].op}
  /\ Go(p, "archive")
  /\ UNCHANGED <<plan, archives, ledger, progress, head, lock, made, faults>>

WriteArchive(p) ==
  /\ proc[p].pc = "archive"
  /\ archives' = archives \cup {proc[p].op.sha}
  /\ Go(p, "receipt")
  /\ UNCHANGED <<plan, ledger, intents, progress, head, lock, made, faults>>

ReceiptedAgain(op) == Append(ledger, op)      \* Slip: a replay writes its receipt again.
Receipted(op) == IF Prior(op.sha) = {} THEN Append(ledger, op) ELSE ledger

WriteReceipt(p) ==
  /\ proc[p].pc = "receipt"
  /\ Prior(proc[p].op.sha) \subseteq {proc[p].op}
  /\ ledger' = Receipted(proc[p].op)
  /\ Go(p, "unlink")
  /\ UNCHANGED <<plan, archives, intents, progress, head, lock, made, faults>>

Unlink(p) ==
  /\ proc[p].pc = "unlink"
  /\ plan.gen = proc[p].op.gen /\ BytesOf(plan) = proc[p].op.sha
  /\ plan' = NoPlan
  /\ Go(p, "clear")
  /\ UNCHANGED <<archives, ledger, intents, progress, head, lock, made, faults>>

Clear(p) ==
  /\ proc[p].pc = "clear"
  /\ intents' = intents \ {proc[p].op}
  /\ lock' = NoOne
  /\ Quit(p)
  /\ UNCHANGED <<plan, archives, ledger, progress, head, made, faults>>

-----------------------------------------------------------------------------
(* init, which archives a plan it replaces.                                  *)

NewPlan ==
  /\ NewGen /\ made.plans < MaxPlans
  /\ plan' = [id |-> made.plans + 1, rev |-> made.gen + 1, work |-> "closed",
              gen |-> made.gen + 1]
  /\ made' = [made EXCEPT !.gen = @ + 1, !.plans = @ + 1]

InitFresh ==
  /\ Typed("init") /\ Free /\ Guard /\ plan = NoPlan /\ NewPlan
  /\ UNCHANGED <<archives, ledger, progress, head, lock, proc, faults>>

InitOver(p) ==
  /\ proc[p].pc = "idle" /\ Typed("init") /\ Free /\ Guard /\ plan # NoPlan
  /\ Loads /\ Prior(BytesOf(plan)) = {} /\ NewGen /\ made.plans < MaxPlans
  /\ lock' = p
  /\ proc' = [proc EXCEPT ![p].pc = "init_archive", ![p].op = Replaced(BytesOf(plan))]
  /\ UNCHANGED <<plan, archives, ledger, progress, head, made, faults>>

InitArchive(p) ==
  /\ proc[p].pc = "init_archive"
  /\ archives' = archives \cup {proc[p].op.sha}
  /\ Go(p, "init_receipt")
  /\ UNCHANGED <<plan, ledger, intents, progress, head, lock, made, faults>>

InitReceipt(p) ==
  /\ proc[p].pc = "init_receipt"
  /\ ledger' = IF RowsOf(proc[p].op.sha) = {} THEN Append(ledger, proc[p].op) ELSE ledger
  /\ Go(p, "init_save")
  /\ UNCHANGED <<plan, archives, intents, progress, head, lock, made, faults>>

InitSave(p) ==
  /\ proc[p].pc = "init_save" /\ NewPlan
  /\ lock' = NoOne
  /\ Quit(p)
  /\ UNCHANGED <<archives, ledger, intents, progress, head, faults>>

-----------------------------------------------------------------------------
(* Everything else.                                                          *)

\* A verb on a task: claim, release, finish, cancel, add, reopen.
WorkOn ==
  /\ Typed("work") /\ Free /\ Guard /\ plan # NoPlan /\ NewGen
  /\ \E w \in Work \ {plan.work} :
       plan' = [plan EXCEPT !.work = w, !.rev = made.gen + 1, !.gen = made.gen + 1]
  /\ made' = [made EXCEPT !.gen = @ + 1]
  /\ UNCHANGED <<archives, ledger, progress, head, lock, proc, faults>>

\* The operator copies an archive back.
Restore ==
  /\ Typed("restore") /\ Free /\ plan = NoPlan /\ NewGen
  /\ \E b \in archives :
       /\ RowsOf(b) \ Prior(b) # {} => Returns
       /\ plan' = [id |-> b.id, rev |-> b.rev, work |-> b.work, gen |-> made.gen + 1]
  /\ made' = [made EXCEPT !.gen = @ + 1]
  /\ UNCHANGED <<archives, ledger, intents, progress, head, lock, proc, faults>>

Commit ==
  /\ Typed("commit") /\ head < MaxHead
  /\ head' = head + 1
  /\ UNCHANGED <<plan, archives, ledger, intents, progress, lock, proc, made, faults>>

\* A check that fails ends the command.
Refuse(p) ==
  LET op == proc[p].op IN
  /\ \/ proc[p].pc = "guard" /\ Free /\ ~(GuardPasses /\ plan # NoPlan)
     \/ proc[p].pc = "command" /\ plan = NoPlan
     \/ proc[p].pc = "freeze" /\ ~(plan # NoPlan /\ InContext(op))
     \/ /\ proc[p].pc = "finalize" /\ Free
        /\ ~(Loads /\ (AlreadyRetired(op.disp, op.sha) \/ Confirmed(op)))
  /\ Quit(p)
  /\ UNCHANGED <<plan, archives, ledger, intents, progress, head, lock, made, faults>>

\* A dead process holds no lock: file-lock.sh takes it from it.
Kill(p) ==
  /\ proc[p].pc # "idle" /\ faults < MaxFaults
  /\ proc[p].pc = "init_save" => Returns
  /\ lock' = IF lock = p THEN NoOne ELSE lock
  /\ faults' = faults + 1
  /\ Quit(p)
  /\ UNCHANGED <<plan, archives, ledger, intents, progress, head, made>>

-----------------------------------------------------------------------------
Retire(p) == \E disp \in Retirements, sha \in Known : Preflight(p, disp, sha)

Steps(p) ==
  \/ (proc[p].pc # "idle" /\ AcceptGuard(p))
  \/ ReadCommand(p) \/ Freeze(p) \/ RunCommand(p) \/ Record(p)
  \/ Finalize(p) \/ FinalizeDone(p) \/ WriteIntent(p) \/ WriteArchive(p)
  \/ WriteReceipt(p) \/ Unlink(p) \/ Clear(p)
  \/ InitArchive(p) \/ InitReceipt(p) \/ InitSave(p) \/ Refuse(p)

Next ==
  \/ \E p \in Processes :
       \/ (Typed("retire") /\ Retire(p)) \/ AcceptGuard(p) \/ ReadCommand(p)
       \/ Freeze(p) \/ RunCommand(p) \/ Record(p) \/ Finalize(p) \/ FinalizeDone(p)
       \/ WriteIntent(p) \/ WriteArchive(p) \/ WriteReceipt(p) \/ Unlink(p) \/ Clear(p)
       \/ InitOver(p) \/ InitArchive(p) \/ InitReceipt(p) \/ InitSave(p)
       \/ Refuse(p) \/ Kill(p)
  \/ \E disp \in Retirements, sha \in Known : Typed("retire") /\ PreflightDone(disp, sha)
  \/ InitFresh \/ WorkOn \/ Restore \/ Commit

Spec == Init /\ [][Next]_vars

\* Live commands go on, and the operator replays an interrupted retirement.
Replay ==
  \/ \E p \in Processes, i \in intents : Preflight(p, i.disp, i.sha)
  \/ \E i \in intents : PreflightDone(i.disp, i.sha)

FairSpec == Spec /\ (\A p \in Processes : WF_vars(Steps(p))) /\ SF_vars(Replay)

-----------------------------------------------------------------------------
(* What must hold.                                                           *)

\* However retirements, replays, inits and kills interleave, the plan in
\* tasks.json gives way only once its exact bytes are archived and receipted:
\* unlinked by the retirement of this very generation of the file, or replaced
\* by `init`.
PlanKept ==
  [][plan # NoPlan /\ plan'.id # plan.id
       => /\ BytesOf(plan) \in archives'
          /\ \E r \in ToSet(ledger') :
               /\ r.sha = BytesOf(plan)
               /\ IF plan' = NoPlan THEN r.gen = plan.gen ELSE r.disp = "replaced"]_vars

\* A retirement for completion elsewhere is believed for ever: exactly one
\* acceptance row answers it, its command was the retired plan's own, and it
\* passed on the HEAD of the receipt.
AcceptedAsRetired ==
  \A r \in ToSet(ledger) :
    r.disp = "completed-external" =>
      /\ Cardinality({row \in progress : row.proof = r.proof}) = 1
      /\ \A row \in progress : row.proof = r.proof =>
           row.passed /\ row.ran = r.sha.id /\ row.on = r.head

\* Between the receipt and the unlink a crash may leave the plan in place; no
\* verb then works on it any more.
ReceiptedIsFrozen ==
  [][\A r \in ToSet(ledger) :
       r.disp \in Retirements /\ r.gen = plan.gen => plan' \in {plan, NoPlan}]_vars

\* Replays and concurrent retirements write one receipt per plan, with a proof of
\* its own, and every receipt stays true of archive and acceptance rows.
RetiredOnce ==
  /\ \A r \in ToSet(ledger) : ValidReceipt(r)
  /\ \A i, j \in DOMAIN ledger :
       i # j /\ {ledger[i].disp, ledger[j].disp} \subseteq Retirements
         => ledger[i].sha # ledger[j].sha /\ ledger[i].proof # ledger[j].proof

\* validate_retirement_ledger accepts what retire and init have written.
LedgerLoads == Loads

\* The command and the digest the verdict is filed against describe the same plan.
AcceptedAsFiled ==
  \A p \in Processes :
    proc[p].pc = "record" /\ Undisturbed(p) => proc[p].ran = proc[p].sha.id

\* A retirement that was interrupted is finished by its replay, unless HEAD moves
\* or the plan is copied back before.
StillFits(i) == i.head = head /\ (plan.id = i.sha.id => plan.gen = i.gen)
RetirementFinishes == intents # {} ~> intents = {} \/ \E i \in intents : ~StillFits(i)

\* Replaying the same operation completes an interrupted unlink.
ReplayCompletes == intents # {} ~> intents = {}

=============================================================================
