------------------------- MODULE PatchLandingProofs -------------------------
(* What PatchLanding keeps for every number of processes, intents,         *)
(* approvals, commits and faults: a landing that the journal calls         *)
(* complete is recorded everywhere, an approval lets one patch in, and a   *)
(* row in landing, a patch in the tree and a done row each have an intent  *)
(* that recovery can close, whatever died on the way.                      *)
EXTENDS PatchLanding, PlanTaskProofs, SequenceTheorems

Pcs == LandPcs \cup SettlePcs \cup RecoverPcs

-----------------------------------------------------------------------------
(* Types of the parts.                                                     *)

\* A receipt, wherever its patch is stored, is a digest.
LEMMA DigestTyped ==
  ASSUME NEW r \in Row, NEW path \in Nat PROVE Digest(r, path) \in Digests
BY ReceiptTyped DEF Digest, Digests

\* A process between two commands is a process.
LEMMA IdleTyped == NoIntent \in Intent /\ Idle \in Process
<1>1. NoPatch \in Patches BY NoOneAssumption DEF NoPatch, Patches
<1>2. Digest(Added, 0) \in Digests BY AddedTyped, DigestTyped
<1>3. NoIntent \in Intent BY <1>1, <1>2 DEF NoIntent, Intent
<1> QED BY <1>3 DEF Idle, Process, LandPcs

\* One field of a process at a time.
LEMMA ProcessFields ==
  ASSUME NEW v \in Process
  PROVE  /\ \A x \in Pcs : [v EXCEPT !.pc = x] \in Process
         /\ \A x \in BOOLEAN : [v EXCEPT !.ok = x] \in Process
         /\ \A x \in BOOLEAN : [v EXCEPT !.keep = x] \in Process
         /\ \A x \in BOOLEAN : [v EXCEPT !.recover = x] \in Process
         /\ \A x \in Nat : [v EXCEPT !.id = x] \in Process
         /\ \A x \in Intent : [v EXCEPT !.seen = x] \in Process
BY DEF Process, Pcs

\* Going on to the next command.
LEMMA GoTyped ==
  ASSUME TypeOK, NEW p \in Runners, NEW pc \in Pcs, NEW ok \in BOOLEAN,
         Go(p, pc) \/ GoOk(p, pc, ok)
  PROVE  proc' \in [Runners -> Process]
<1>1. proc[p] \in Process /\ proc[p].ok \in BOOLEAN BY DEF TypeOK, Process
<1>2. [proc[p] EXCEPT !.pc = pc] \in Process BY <1>1, ProcessFields
<1>3. \A b \in BOOLEAN : [proc[p] EXCEPT !.pc = pc, !.ok = b] \in Process
  BY <1>1 DEF Process, Pcs
<1>4. CASE Go(p, pc)
  <2>1. proc' = [proc EXCEPT ![p] = [proc[p] EXCEPT !.pc = pc]] BY <1>4 DEF Go
  <2> QED BY <2>1, <1>2 DEF TypeOK
<1>5. CASE GoOk(p, pc, ok)
  <2> DEFINE b == proc[p].ok /\ ok
  <2>1. proc' = [proc EXCEPT ![p] = [proc[p] EXCEPT !.pc = pc, !.ok = b]]
    BY <1>5 DEF GoOk
  <2>2. b \in BOOLEAN OBVIOUS
  <2> HIDE DEF b
  <2> QED BY <2>1, <2>2, <1>3 DEF TypeOK
<1> QED BY <1>4, <1>5

\* Leaving, or going on with the next intent.
LEMMA LeaveTyped ==
  ASSUME TypeOK, NEW p \in Runners, Exit(p) \/ NextIntent(p)
  PROVE  proc' \in [Runners -> Process] /\ lock' \in Runners \cup {NoOne}
<1>1. CASE Exit(p) BY <1>1, IdleTyped DEF Exit, TypeOK
<1>2. CASE NextIntent(p)
  <2>1. proc[p].id + 1 \in Nat BY DEF TypeOK, Process
  <2>2. [Idle EXCEPT !.pc = "decide", !.recover = TRUE, !.id = proc[p].id + 1] \in Process
    BY <2>1, IdleTyped DEF Process, RecoverPcs
  <2> QED BY <1>2, <2>2, IdleTyped DEF NextIntent, Exit, TypeOK
<1> QED BY <1>1, <1>2

\* A sequence changed in place.
LEMMA SameLength ==
  ASSUME NEW S, NEW q \in Seq(S), NEW f \in [1 .. Len(q) -> S]
  PROVE  f \in Seq(S) /\ DOMAIN f = DOMAIN q
<1>1. Len(q) \in Nat /\ DOMAIN q = 1 .. Len(q) BY LenProperties
<1>2. f \in Seq(S) BY <1>1, SeqDef
<1> QED BY <1>1, <1>2

\* A terminal row of an intent.
LEMMA EndedTyped ==
  ASSUME TypeOK, NEW i \in Nat, NEW how \in {"complete", "abandoned"}, Ended(i, how)
  PROVE  /\ journal' \in Seq(Intent) /\ DOMAIN journal' = DOMAIN journal
         /\ \A k \in DOMAIN journal :
              /\ journal'[k].grant = journal[k].grant
              /\ journal'[k].patch = journal[k].patch
              /\ k # i => journal'[k] = journal[k]
              /\ journal'[k].ended \subseteq journal[k].ended \cup {how}
<1>1. \A v \in Intent : [v EXCEPT !.ended = v.ended \cup {how}] \in Intent
  BY DEF Intent
<1>2. journal' = [journal EXCEPT ![i] = [journal[i] EXCEPT !.ended = journal[i].ended \cup {how}]]
  BY DEF Ended
<1>3. journal \in Seq(Intent) BY DEF TypeOK
<1>4. \A k \in DOMAIN journal : journal[k] \in Intent BY <1>3
<1>5. \A k \in DOMAIN journal : journal'[k] =
        IF k = i THEN [journal[k] EXCEPT !.ended = journal[k].ended \cup {how}] ELSE journal[k]
  BY <1>2
<1>6. journal' \in Seq(Intent) /\ DOMAIN journal' = DOMAIN journal
  <2>1. journal \in [1 .. Len(journal) -> Intent] BY <1>3, LenProperties
  <2>2. journal' \in [1 .. Len(journal) -> Intent] BY <1>1, <1>2, <2>1
  <2> QED BY <1>3, <2>2, SameLength
<1>7. ASSUME NEW k \in DOMAIN journal
      PROVE  /\ journal'[k].grant = journal[k].grant
             /\ journal'[k].patch = journal[k].patch
             /\ k # i => journal'[k] = journal[k]
             /\ journal'[k].ended \subseteq journal[k].ended \cup {how}
  <2>1. journal[k] \in Intent BY <1>4
  <2> QED BY <1>5, <2>1 DEF Intent
<1> QED BY <1>6, <1>7

\* A settled or reserved approval.
LEMMA GrantTyped ==
  ASSUME TypeOK, NEW g, NEW s \in GrantStates
  PROVE  /\ [grants EXCEPT ![g].state = s] \in Seq(Grant)
         /\ DOMAIN [grants EXCEPT ![g].state = s] = DOMAIN grants
<1>1. \A v \in Grant : [v EXCEPT !.state = s] \in Grant BY DEF Grant
<1>2. grants \in Seq(Grant) BY DEF TypeOK
<1>3. grants \in [1 .. Len(grants) -> Grant] BY <1>2, LenProperties
<1>4. [grants EXCEPT ![g] = [grants[g] EXCEPT !.state = s]] \in [1 .. Len(grants) -> Grant]
  BY <1>1, <1>3
<1> QED BY <1>2, <1>4, SameLength

-----------------------------------------------------------------------------
(* Type correctness, one lemma per group of actions.                       *)

\* Every step of a landing keeps the types.
LEMMA LandingTyped ==
  ASSUME TypeOK, NEW p \in Runners, Landing(p) PROVE TypeOK'
<1> DEFINE v == proc[p]
<1>0. /\ v \in Process /\ v.id \in Nat /\ v.seen \in Intent /\ v.ok \in BOOLEAN
      /\ v.seen.grant \in Nat /\ v.seen.patch \in Patches
  BY DEF TypeOK, Process, Intent
<1>1. CASE Snapshot(p)
  <2>1. PICK g \in {0} \cup DOMAIN grants :
          proc' = [proc EXCEPT ![p] = [v EXCEPT !.pc = "lock",
                     !.seen = [patch |-> row.patch, lease |-> row.lease,
                               receipt |-> Digest(row, frozen), base |-> 0,
                               grant |-> g, ended |-> {}]]]
    BY <1>1 DEF Snapshot
  <2>2. g \in Nat BY LenProperties DEF TypeOK
  <2>3. Digest(row, frozen) \in Digests /\ row.patch \in Patches /\ row.lease \in Nat
    BY DigestTyped DEF TypeOK, Row
  <2>4. [patch |-> row.patch, lease |-> row.lease, receipt |-> Digest(row, frozen),
         base |-> 0, grant |-> g, ended |-> {}] \in Intent
    BY <2>2, <2>3 DEF Intent
  <2>5. \A x \in Intent : [v EXCEPT !.pc = "lock", !.seen = x] \in Process
    BY <1>0 DEF Process, LandPcs
  <2>6. proc' \in [Runners -> Process] BY <2>1, <2>4, <2>5 DEF TypeOK
  <2> QED BY <1>1, <2>6 DEF Snapshot, TypeOK
<1>2. CASE Lock(p)
  <2>1. tree.head \in Nat BY DEF TypeOK, Tree
  <2>2. [v.seen EXCEPT !.base = tree.head] \in Intent BY <1>0, <2>1 DEF Intent
  <2>3. \A x \in Intent : [v EXCEPT !.pc = "admit", !.seen = x] \in Process
    BY <1>0 DEF Process, LandPcs
  <2>4. \/ proc' = [proc EXCEPT ![p] = [v EXCEPT !.pc = "admit",
                                      !.seen = [v.seen EXCEPT !.base = tree.head]]]
        \/ proc' = [proc EXCEPT ![p] = Idle]
    BY <1>2 DEF Lock
  <2>5. proc' \in [Runners -> Process] BY <2>2, <2>3, <2>4, IdleTyped DEF TypeOK
  <2>6. lock' \in Runners \cup {NoOne} BY <1>2 DEF Lock, TypeOK
  <2> QED BY <1>2, <2>5, <2>6 DEF Lock, TypeOK
<1>3. CASE Refuse(p)
  BY <1>3, LeaveTyped DEF Refuse, TypeOK
<1>4. CASE Admit(p)
  <2>1. Len(journal) + 1 \in Nat /\ journal' \in Seq(Intent)
    BY <1>0, <1>4 DEF Admit, TypeOK
  <2>2. \A n \in Nat : [v EXCEPT !.pc = "fence", !.id = n] \in Process
    BY <1>0 DEF Process, LandPcs
  <2>3. proc' = [proc EXCEPT ![p] = [v EXCEPT !.pc = "fence", !.id = Len(journal) + 1]]
    BY <1>4 DEF Admit
  <2>4. proc' \in [Runners -> Process] BY <2>1, <2>2, <2>3 DEF TypeOK
  <2> QED BY <1>4, <2>1, <2>4 DEF Admit, TypeOK
<1>5. CASE Fence(p)
  <2>1. row' \in Row BY <1>5, VerbsTyped DEF Fence, TypeOK
  <2>2. \A x \in {"apply", "reserve"} : [v EXCEPT !.pc = x] \in Process
    BY <1>0 DEF Process, LandPcs
  <2>3. [v EXCEPT !.pc = "settleGrant", !.keep = TRUE] \in Process
    BY <1>0 DEF Process, SettlePcs
  <2>4. proc' \in [Runners -> Process] BY <1>5, <2>2, <2>3 DEF Fence, TypeOK
  <2> QED BY <1>5, <2>1, <2>4 DEF Fence, TypeOK
<1>6. CASE Reserve(p)
  <2>1. grants' \in Seq(Grant) BY <1>0, <1>6, GrantTyped DEF Reserve, TypeOK, GrantStates
  <2>2. proc' \in [Runners -> Process]
    BY <1>6, GoTyped DEF Reserve, Pcs, LandPcs, SettlePcs
  <2> QED BY <1>6, <2>1, <2>2 DEF Reserve, TypeOK
<1>7. CASE Apply(p)
  <2>1. [tree EXCEPT !.work = tree.work \cup {v.seen.patch}] \in Tree
    BY <1>0 DEF TypeOK, Tree
  <2>2. tree' \in Tree /\ landed' \subseteq Nat BY <1>0, <1>7, <2>1 DEF Apply, TypeOK
  <2>3. proc' \in [Runners -> Process]
    BY <1>7, GoTyped DEF Apply, Pcs, LandPcs, SettlePcs
  <2> QED BY <1>7, <2>2, <2>3 DEF Apply, TypeOK
<1>8. CASE ApplyRefused(p)
  <2>1. proc' \in [Runners -> Process] BY <1>8, GoTyped DEF ApplyRefused, Pcs, SettlePcs
  <2> QED BY <1>8, <2>1 DEF ApplyRefused, Fault, TypeOK
<1>9. CASE Consume(p)
  <2>1. grants' \in Seq(Grant) BY <1>0, <1>9, GrantTyped DEF Consume, TypeOK, GrantStates
  <2>2. proc' \in [Runners -> Process] BY <1>9, GoTyped DEF Consume, Pcs, LandPcs
  <2> QED BY <1>9, <2>1, <2>2 DEF Consume, TypeOK
<1>10. CASE Record(p)
  <2>1. proc' \in [Runners -> Process] BY <1>10, GoTyped DEF Record, Pcs, LandPcs
  <2> QED BY <1>0, <1>10, <2>1 DEF Record, TypeOK
<1>11. CASE Finish(p)
  <2>1. proc' \in [Runners -> Process]
    <3>1. CanFinishLanding(row, frozen, v.seen) \in BOOLEAN
      BY DEF CanFinishLanding, CanFinish
    <3> QED BY <1>11, <3>1, GoTyped DEF Finish, Pcs, LandPcs
  <2>2. row' \in Row /\ frozen' \in Nat /\ closed' \subseteq Nat
    BY <1>0, <1>11, VerbsTyped DEF Finish, FinishRow, TypeOK
  <2> QED BY <1>11, <2>1, <2>2 DEF Finish, TypeOK
<1>12. CASE Complete(p)
  <2>1. journal' \in Seq(Intent) BY <1>0, <1>12, EndedTyped DEF Complete, TypeOK
  <2>2. proc' \in [Runners -> Process] /\ lock' \in Runners \cup {NoOne}
    BY <1>12, LeaveTyped DEF Complete
  <2> QED BY <1>12, <2>1, <2>2 DEF Complete, TypeOK
<1> QED BY <1>1, <1>2, <1>3, <1>4, <1>5, <1>6, <1>7, <1>8, <1>9, <1>10, <1>11, <1>12
        DEF Landing

\* So does settling a landing that was not applied.
LEMMA SettlingTyped ==
  ASSUME TypeOK, NEW p \in Runners, Settling(p) PROVE TypeOK'
<1>0. proc[p].id \in Nat /\ proc[p].keep \in BOOLEAN BY DEF TypeOK, Process
<1>1. CASE SettleGrant(p)
  <2> DEFINE g == Mine(p).grant
             pc == IF proc[p].keep THEN "settleClose" ELSE "settleShow"
             ok == g # 0 => grants[g].state \in {"failed", "approved", "consuming"}
  <2>1. grants' = [grants EXCEPT ![g].state = "failed"] \/ grants' = grants
    BY <1>1 DEF SettleGrant
  <2>2. grants' \in Seq(Grant)
    <3> HIDE DEF g
    <3>1. "failed" \in GrantStates BY DEF GrantStates
    <3>2. [grants EXCEPT ![g].state = "failed"] \in Seq(Grant) BY <3>1, GrantTyped
    <3> QED BY <2>1, <3>2 DEF TypeOK
  <2>3. pc \in Pcs /\ ok \in BOOLEAN /\ GoOk(p, pc, ok)
    BY <1>1 DEF SettleGrant, Pcs, SettlePcs
  <2> HIDE DEF pc, ok
  <2>4. proc' \in [Runners -> Process] BY <2>3, GoTyped
  <2> QED BY <1>1, <2>2, <2>4 DEF SettleGrant, TypeOK
<1>2. CASE SettleShow(p)
  <2>1. \/ Go(p, "settleRelease")
        \/ \E ok \in BOOLEAN : GoOk(p, "settleClose", ok)
    BY <1>2 DEF SettleShow
  <2>2. proc' \in [Runners -> Process] BY <2>1, GoTyped DEF Pcs, SettlePcs
  <2> QED BY <1>2, <2>2 DEF SettleShow, TypeOK
<1>3. CASE SettleRelease(p)
  <2>1. CanRelease(row, Mine(p).lease) \in BOOLEAN BY DEF CanRelease
  <2>2. proc' \in [Runners -> Process]
    BY <1>3, <2>1, GoTyped DEF SettleRelease, Pcs, SettlePcs
  <2>3. row' \in Row BY <1>3, VerbsTyped DEF SettleRelease, TypeOK
  <2> QED BY <1>3, <2>2, <2>3 DEF SettleRelease, TypeOK
<1>4. CASE SettleClose(p)
  <2>1. journal' \in Seq(Intent) BY <1>0, <1>4, EndedTyped DEF SettleClose, TypeOK
  <2>2. proc' \in [Runners -> Process] /\ lock' \in Runners \cup {NoOne}
    BY <1>4, LeaveTyped DEF SettleClose
  <2> QED BY <1>4, <2>1, <2>2 DEF SettleClose, TypeOK
<1> QED BY <1>1, <1>2, <1>3, <1>4 DEF Settling

\* So does a recovery.
LEMMA RecoveringTyped ==
  ASSUME TypeOK, NEW p \in Runners, Recovering(p) PROVE TypeOK'
<1>0. proc[p] \in Process /\ proc[p].id \in Nat BY DEF TypeOK, Process
<1>1. CASE Recover(p)
  <2>1. [proc[p] EXCEPT !.pc = "decide", !.recover = TRUE, !.id = 1] \in Process
    BY <1>0 DEF Process, RecoverPcs
  <2> QED BY <1>1, <2>1 DEF Recover, TypeOK
<1>2. CASE Decide(p)
  <2>1. \/ NextIntent(p)
        \/ \E pc \in {"superseded", "settleGrant", "recLineage", "recFinish"} :
             proc' = [proc EXCEPT ![p].pc = pc] /\ lock' = lock
    BY <1>2 DEF Decide
  <2>2. \A pc \in {"superseded", "settleGrant", "recLineage", "recFinish"} :
          proc' = [proc EXCEPT ![p].pc = pc] => proc' \in [Runners -> Process]
    BY GoTyped DEF Go, Pcs, SettlePcs, RecoverPcs
  <2>3. proc' \in [Runners -> Process] /\ lock' \in Runners \cup {NoOne}
    BY <2>1, <2>2, LeaveTyped DEF TypeOK
  <2> QED BY <1>2, <2>3 DEF Decide, TypeOK
<1>3. CASE Supersede(p)
  <2> DEFINE g == journal[proc[p].id].grant
             reserved == ~GrantDropped(proc[p].id) /\ grants[g].state = "consuming"
             ok == GrantDropped(proc[p].id) \/ reserved
  <2>1. grants' = [grants EXCEPT ![g].state = "failed"] \/ grants' = grants
    BY <1>3 DEF Supersede
  <2>2. ok \in BOOLEAN /\ GoOk(p, "settleClose", ok)
    BY <1>3 DEF Supersede, GrantDropped, GrantIn
  <2> HIDE DEF g, reserved, ok
  <2>3. grants' \in Seq(Grant)
    <3>1. "failed" \in GrantStates BY DEF GrantStates
    <3>2. [grants EXCEPT ![g].state = "failed"] \in Seq(Grant) BY <3>1, GrantTyped
    <3> QED BY <2>1, <3>2 DEF TypeOK
  <2>4. proc' \in [Runners -> Process] BY <2>2, GoTyped DEF Pcs, SettlePcs
  <2> QED BY <1>3, <2>3, <2>4 DEF Supersede, TypeOK
<1>4. CASE RecFinish(p)
  <2>1. \/ Go(p, "recLineage") /\ lock' = lock
        \/ NextIntent(p)
    BY <1>4 DEF RecFinish
  <2>2. proc' \in [Runners -> Process] /\ lock' \in Runners \cup {NoOne}
    BY <2>1, GoTyped, LeaveTyped DEF Pcs, RecoverPcs, TypeOK
  <2>3. row' \in Row /\ frozen' \in Nat /\ closed' \subseteq Nat
    BY <1>0, <1>4, VerbsTyped DEF RecFinish, FinishRow, TypeOK
  <2> QED BY <1>4, <2>2, <2>3 DEF RecFinish, TypeOK
<1>5. CASE RecLineage(p)
  <2>1. proc' \in [Runners -> Process]
    BY <1>5, GoTyped DEF RecLineage, Pcs, RecoverPcs
  <2> QED BY <1>0, <1>5, <2>1 DEF RecLineage, TypeOK
<1>6. CASE RecGrant(p)
  <2> DEFINE g == Mine(p).grant
  <2>1. \/ Go(p, "recClose") /\ lock' = lock
        \/ NextIntent(p)
    BY <1>6 DEF RecGrant
  <2>2. proc' \in [Runners -> Process] /\ lock' \in Runners \cup {NoOne}
    BY <2>1, GoTyped, LeaveTyped DEF Pcs, RecoverPcs, TypeOK
  <2>3. grants' = [grants EXCEPT ![g].state = "consumed"] \/ grants' = grants
    BY <1>6 DEF RecGrant
  <2> HIDE DEF g
  <2>4. grants' \in Seq(Grant)
    <3>1. "consumed" \in GrantStates BY DEF GrantStates
    <3>2. [grants EXCEPT ![g].state = "consumed"] \in Seq(Grant) BY <3>1, GrantTyped
    <3> QED BY <2>3, <3>2 DEF TypeOK
  <2> QED BY <1>6, <2>2, <2>4 DEF RecGrant, TypeOK
<1>7. CASE RecClose(p)
  <2>1. journal' \in Seq(Intent) BY <1>0, <1>7, EndedTyped DEF RecClose
  <2>2. proc' \in [Runners -> Process] /\ lock' \in Runners \cup {NoOne}
    BY <1>7, LeaveTyped DEF RecClose
  <2> QED BY <1>7, <2>1, <2>2 DEF RecClose, TypeOK
<1> QED BY <1>1, <1>2, <1>3, <1>4, <1>5, <1>6, <1>7 DEF Recovering

\* So does a failure.
LEMMA FailingTyped ==
  ASSUME TypeOK, NEW p \in Runners, Failing(p) PROVE TypeOK'
<1>0. proc[p] \in Process /\ proc[p].id \in Nat /\ proc[p].seen.patch \in Patches
  BY DEF TypeOK, Process, Intent
<1>1. faults' \in Nat
  <2>1. Fault BY DEF Failing, WriteFails, Kill, KillInApply
  <2> QED BY <2>1 DEF Fault, TypeOK
<1>2. CASE WriteFails(p)
  <2>1. \/ \E pc \in Pcs : GoOk(p, pc, FALSE) /\ lock' = lock
        \/ NextIntent(p) \/ Exit(p)
    BY <1>2 DEF WriteFails, Pcs, LandPcs, SettlePcs
  <2>2. proc' \in [Runners -> Process] /\ lock' \in Runners \cup {NoOne}
    BY <2>1, GoTyped, LeaveTyped DEF TypeOK
  <2> QED BY <1>1, <1>2, <2>2 DEF WriteFails, TypeOK
<1>3. CASE Kill(p)
  BY <1>1, <1>3, LeaveTyped DEF Kill, TypeOK
<1>4. CASE KillInApply(p)
  <2>1. /\ [tree EXCEPT !.work = tree.work \cup {proc[p].seen.patch}] \in Tree
        /\ [tree EXCEPT !.edited = TRUE] \in Tree
    BY <1>0 DEF TypeOK, Tree
  <2>2. tree' \in Tree /\ landed' \subseteq Nat
    BY <1>0, <1>4, <2>1 DEF KillInApply, TypeOK
  <2> QED BY <1>1, <1>4, <2>2, LeaveTyped DEF KillInApply, TypeOK
<1> QED BY <1>2, <1>3, <1>4 DEF Failing

\* So does everybody else.
LEMMA OthersTyped ==
  ASSUME TypeOK, Others \/ Git \/ Approve \/ Expire PROVE TypeOK'
<1>1. CASE Others
  <2>1. PatchOf(row) \in Patches BY DEF PatchOf, Patches, TypeOK, Row
  <2>2. row' \in Row /\ frozen' \in Nat
    <3>1. /\ \/ row' = Claimed(row) \/ row' = Reviewed(row, PatchOf(row))
             \/ row' = Repaired(row) \/ row' = ClearClaim(row) \/ row' = Blocked(row)
          /\ frozen' = 0 \/ frozen' = frozen
      BY <1>1 DEF Others, PlanVerb
    <3>2. row \in Row /\ frozen \in Nat BY DEF TypeOK
    <3>3. Reviewed(row, PatchOf(row)) \in Row BY <2>1, <3>2, ReviewedTyped
    <3>4. /\ Claimed(row) \in Row /\ Repaired(row) \in Row
          /\ ClearClaim(row) \in Row /\ Blocked(row) \in Row
      BY <3>2, VerbsTyped
    <3>5. row' \in Row BY <3>1, <3>3, <3>4
    <3>6. frozen' \in Nat BY <3>1, <3>2
    <3> QED BY <3>5, <3>6
  <2>3. UNCHANGED <<tree, journal, grants, lineage, lock, proc, faults, landed, closed>>
    BY <1>1 DEF Others, PlanVerb
  <2> QED BY <2>2, <2>3 DEF TypeOK
<1>2. CASE Git
  <2>1. tree \in Tree /\ tree.head \in Nat BY DEF TypeOK, Tree
  <2> DEFINE n == tree.head + 1
  <2>2. n \in Nat BY <2>1
  <2> HIDE DEF n
  <2>3. /\ [tree EXCEPT !.head = n, !.committed = tree.work] \in Tree
        /\ [tree EXCEPT !.head = n] \in Tree
        /\ [tree EXCEPT !.work = tree.committed, !.edited = FALSE] \in Tree
        /\ [tree EXCEPT !.edited = TRUE] \in Tree
    BY <2>1, <2>2 DEF Tree
  <2>4. tree' \in Tree BY <1>2, <2>3 DEF Git, n
  <2> QED BY <1>2, <2>4 DEF Git, TypeOK
<1>3. CASE Approve
  <2>1. [state |-> "approved", patch |-> row.patch, lease |-> row.lease,
         base |-> tree.head, late |-> FALSE] \in Grant
    BY DEF Grant, GrantStates, TypeOK, Row, Tree
  <2>2. grants' \in Seq(Grant) BY <1>3, <2>1 DEF Approve, TypeOK
  <2> QED BY <1>3, <2>2 DEF Approve, TypeOK
<1>4. CASE Expire
  <2>1. PICK g \in DOMAIN grants :
          \/ grants' = [grants EXCEPT ![g].state = "expired"]
          \/ grants' = [grants EXCEPT ![g].late = TRUE]
    BY <1>4 DEF Expire
  <2>2. grants \in Seq(Grant) BY DEF TypeOK
  <2>3. grants \in [1 .. Len(grants) -> Grant] BY <2>2, LenProperties
  <2>4. \A x \in Grant : [x EXCEPT !.late = TRUE] \in Grant BY DEF Grant
  <2>5. [grants EXCEPT ![g] = [grants[g] EXCEPT !.late = TRUE]] \in [1 .. Len(grants) -> Grant]
    BY <2>3, <2>4
  <2>6. [grants EXCEPT ![g].late = TRUE] \in Seq(Grant) BY <2>2, <2>5, SameLength
  <2>7. "expired" \in GrantStates BY DEF GrantStates
  <2>8. [grants EXCEPT ![g].state = "expired"] \in Seq(Grant) BY <2>7, GrantTyped
  <2>9. grants' \in Seq(Grant) BY <2>1, <2>6, <2>8
  <2> QED BY <1>4, <2>9 DEF Expire, TypeOK
<1> QED BY <1>1, <1>2, <1>3, <1>4

\* Every step keeps the types.
LEMMA TypeStep == TypeOK /\ [Next]_vars => TypeOK'
<1> SUFFICES ASSUME TypeOK, [Next]_vars PROVE TypeOK' OBVIOUS
<1>1. CASE UNCHANGED vars BY <1>1 DEF vars, TypeOK
<1>2. CASE Next
  BY <1>2, LandingTyped, SettlingTyped, RecoveringTyped, FailingTyped, OthersTyped DEF Next
<1> QED BY <1>1, <1>2

\* The initial state is typed.
LEMMA TypeInit == Init => TypeOK
<1> SUFFICES ASSUME Init PROVE TypeOK OBVIOUS
<1>1. Claimed(Added) \in Row BY AddedTyped, VerbsTyped
<1>2. PatchOf(Claimed(Added)) \in Patches BY <1>1 DEF PatchOf, Patches, Row
<1>3. row \in Row BY <1>1, <1>2, ReviewedTyped DEF Init
<1>4. tree \in Tree BY DEF Init, Tree
<1> QED BY <1>3, <1>4, IdleTyped DEF Init, TypeOK

\* The landing protocol is typed, whatever dies and whoever interferes.
THEOREM LandingTypeCorrect == Spec => []TypeOK
BY TypeInit, TypeStep, PTL DEF Spec

-----------------------------------------------------------------------------
(* A landing the journal calls complete is recorded everywhere.  What each *)
(* process has done so far is a fact about durable state that no step of   *)
(* another one takes back: the journal and the history only grow, and a    *)
(* consumed approval stays consumed.                                       *)

Applied(i) == \E k \in landed : journal[k].patch = journal[i].patch

GrantsKnown ==
  /\ \A i \in DOMAIN journal : journal[i].grant \in {0} \cup DOMAIN grants
  /\ \A p \in Runners : /\ proc[p].seen.grant \in {0} \cup DOMAIN grants
                         /\ proc[p].seen.ended = {}

\* Nothing but a landing brings a patch into the tree.
TreeExplained ==
  /\ landed \subseteq DOMAIN journal
  /\ \A x \in tree.work \cup tree.committed : \E k \in landed : journal[k].patch = x

\* Nothing but the finish of a landing makes a row done.
DoneNamed == row.state = "done" => frozen \in closed

\* What a process has done, by where it is.
HasIntent(p) ==
  /\ proc[p].pc \notin {"idle", "lock", "admit"} => proc[p].id \in DOMAIN journal
  /\ proc[p].pc \in {"fence", "reserve", "apply", "consume", "record", "finish", "complete"} =>
       /\ Mine(p).grant = proc[p].seen.grant
       /\ Mine(p).patch = proc[p].seen.patch

HasApplied(p) ==
  /\ proc[p].pc \in {"consume", "record", "finish", "complete"} => proc[p].id \in landed
  /\ proc[p].pc \in {"reserve", "consume"} => proc[p].seen.grant # 0
  /\ proc[p].pc \in {"recFinish", "recLineage", "recGrant", "recClose"} => Applied(proc[p].id)

HasSettled(p) ==
  \/ proc[p].pc \in {"record", "finish", "complete"} /\ proc[p].ok
  \/ proc[p].pc = "recClose"
  => GrantIn(proc[p].id, {"consumed"})

HasRecorded(p) ==
  \/ proc[p].pc \in {"finish", "complete"} /\ proc[p].ok
  \/ proc[p].pc \in {"recGrant", "recClose"}
  => proc[p].id \in lineage

HasFinished(p) ==
  \/ proc[p].pc = "complete" /\ proc[p].ok
  \/ proc[p].pc \in {"recLineage", "recGrant", "recClose"}
  => proc[p].id \in closed

Done(p) == HasIntent(p) /\ HasApplied(p) /\ HasSettled(p) /\ HasRecorded(p) /\ HasFinished(p)

RecordInv ==
  /\ GrantsKnown
  /\ TreeExplained
  /\ DoneNamed
  /\ \A p \in Runners : Done(p)
  /\ CompleteMeansRecorded

JournalGrows ==
  \A i \in DOMAIN journal : /\ i \in DOMAIN journal'
                            /\ journal'[i].grant = journal[i].grant
                            /\ journal'[i].patch = journal[i].patch

GrantsGrow ==
  \A g \in DOMAIN grants : /\ g \in DOMAIN grants'
                           /\ grants[g].state = "consumed" => grants'[g].state = "consumed"

HistoryGrows == lineage \subseteq lineage' /\ closed \subseteq closed' /\ landed \subseteq landed'

\* An approval is written by its present state, and consumed is final.
LEMMA GrantMoves ==
  ASSUME TypeOK, NEW g, NEW s,
         \/ grants' = grants
         \/ /\ grants' = [grants EXCEPT ![g].state = s]
            /\ g \in DOMAIN grants => grants[g].state # "consumed" \/ s = "consumed"
  PROVE  GrantsGrow
<1>1. CASE grants' = grants BY <1>1 DEF GrantsGrow
<1>2. CASE /\ grants' = [grants EXCEPT ![g].state = s]
           /\ g \in DOMAIN grants => grants[g].state # "consumed" \/ s = "consumed"
  <2>1. grants \in [1 .. Len(grants) -> Grant] BY LenProperties DEF TypeOK
  <2>2. grants' = [grants EXCEPT ![g] = [grants[g] EXCEPT !.state = s]] BY <1>2
  <2>3. ASSUME NEW k \in DOMAIN grants
        PROVE  /\ k \in DOMAIN grants'
               /\ grants[k].state = "consumed" => grants'[k].state = "consumed"
    <3>1. grants[k] \in Grant BY <2>1
    <3>2. [grants[k] EXCEPT !.state = s].state = s BY <3>1 DEF Grant
    <3>3. k \in DOMAIN grants' BY <2>1, <2>2
    <3>4. CASE k = g
      BY <1>2, <2>1, <2>2, <3>2, <3>3, <3>4
    <3>5. CASE k # g
      BY <2>1, <2>2, <3>3, <3>5
    <3> QED BY <3>4, <3>5
  <2> QED BY <2>3 DEF GrantsGrow
<1> QED BY <1>1, <1>2

\* No step takes an intent or a consumed approval back.
LEMMA JournalAndGrantsGrow ==
  ASSUME TypeOK, Next PROVE JournalGrows /\ GrantsGrow
<1> DEFINE Kept == journal' = journal /\ grants' = grants
<1>0. Kept => JournalGrows /\ GrantsGrow BY DEF JournalGrows, GrantsGrow
<1>1. ASSUME NEW p \in Runners, Landing(p) PROVE JournalGrows /\ GrantsGrow
  <2>0. proc[p].id \in Nat BY DEF TypeOK, Process
  <2>1. CASE Admit(p)
    <3>1. journal \in Seq(Intent) /\ proc[p].seen \in Intent BY DEF TypeOK, Process
    <3>2. JournalGrows BY <2>1, <3>1 DEF Admit, JournalGrows
    <3> QED BY <2>1, <3>2 DEF Admit, GrantsGrow
  <2>2. CASE Reserve(p)
    <3>1. \/ grants' = grants
          \/ /\ grants' = [grants EXCEPT ![proc[p].seen.grant].state = "consuming"]
             /\ grants[proc[p].seen.grant].state # "consumed"
      BY <2>2 DEF Reserve
    <3> QED BY <2>2, <3>1, GrantMoves DEF Reserve, JournalGrows
  <2>3. CASE Consume(p)
    <3>1. \/ grants' = grants
          \/ grants' = [grants EXCEPT ![proc[p].seen.grant].state = "consumed"]
      BY <2>3 DEF Consume
    <3> QED BY <2>3, <3>1, GrantMoves DEF Consume, JournalGrows
  <2>4. CASE Complete(p)
    <3>1. JournalGrows BY <2>0, <2>4, EndedTyped DEF Complete, JournalGrows
    <3> QED BY <2>4, <3>1 DEF Complete, GrantsGrow
  <2>5. CASE \/ Snapshot(p) \/ Lock(p) \/ Refuse(p) \/ Fence(p) \/ Apply(p)
             \/ ApplyRefused(p) \/ Record(p) \/ Finish(p)
    <3>1. Kept
      BY <2>5 DEF Snapshot, Lock, Refuse, Fence, Apply, ApplyRefused, Record, Finish
    <3> QED BY <1>0, <3>1
  <2> QED BY <1>1, <2>1, <2>2, <2>3, <2>4, <2>5 DEF Landing
<1>2. ASSUME NEW p \in Runners, Settling(p) PROVE JournalGrows /\ GrantsGrow
  <2>0. proc[p].id \in Nat BY DEF TypeOK, Process
  <2>1. CASE SettleGrant(p)
    <3> DEFINE g == Mine(p).grant
    <3>1. \/ grants' = grants
          \/ grants' = [grants EXCEPT ![g].state = "failed"] /\ grants[g].state # "consumed"
      BY <2>1 DEF SettleGrant
    <3> HIDE DEF g
    <3> QED BY <2>1, <3>1, GrantMoves DEF SettleGrant, JournalGrows
  <2>2. CASE SettleClose(p)
    <3>1. JournalGrows BY <2>0, <2>2, EndedTyped DEF SettleClose, JournalGrows
    <3> QED BY <2>2, <3>1 DEF SettleClose, GrantsGrow
  <2>3. CASE SettleShow(p) \/ SettleRelease(p)
    BY <1>0, <2>3 DEF SettleShow, SettleRelease
  <2> QED BY <1>2, <2>1, <2>2, <2>3 DEF Settling
<1>3. ASSUME NEW p \in Runners, Recovering(p) PROVE JournalGrows /\ GrantsGrow
  <2>0. proc[p].id \in Nat BY DEF TypeOK, Process
  <2>1. CASE Supersede(p)
    <3> DEFINE g == journal[proc[p].id].grant
    <3>1. \/ grants' = grants
          \/ grants' = [grants EXCEPT ![g].state = "failed"] /\ grants[g].state # "consumed"
      BY <2>1 DEF Supersede
    <3> HIDE DEF g
    <3> QED BY <2>1, <3>1, GrantMoves DEF Supersede, JournalGrows
  <2>2. CASE RecGrant(p)
    <3> DEFINE g == Mine(p).grant
    <3>1. \/ grants' = grants
          \/ grants' = [grants EXCEPT ![g].state = "consumed"]
      BY <2>2 DEF RecGrant
    <3> HIDE DEF g
    <3> QED BY <2>2, <3>1, GrantMoves DEF RecGrant, JournalGrows
  <2>3. CASE RecClose(p)
    <3>1. JournalGrows BY <2>0, <2>3, EndedTyped DEF RecClose, JournalGrows
    <3> QED BY <2>3, <3>1 DEF RecClose, GrantsGrow
  <2>4. CASE Recover(p) \/ Decide(p) \/ RecFinish(p) \/ RecLineage(p)
    BY <1>0, <2>4 DEF Recover, Decide, RecFinish, RecLineage
  <2> QED BY <1>3, <2>1, <2>2, <2>3, <2>4 DEF Recovering
<1>4. ASSUME NEW p \in Runners, Failing(p) PROVE JournalGrows /\ GrantsGrow
  BY <1>0, <1>4 DEF Failing, WriteFails, Kill, KillInApply
<1>5. ASSUME Others \/ Git PROVE JournalGrows /\ GrantsGrow
  BY <1>0, <1>5 DEF Others, Git, PlanVerb
<1>6. CASE Approve
  <2>1. grants \in Seq(Grant) BY DEF TypeOK
  <2>2. [state |-> "approved", patch |-> row.patch, lease |-> row.lease,
         base |-> tree.head, late |-> FALSE] \in Grant
    BY DEF Grant, GrantStates, TypeOK, Row, Tree
  <2>3. GrantsGrow BY <1>6, <2>1, <2>2 DEF Approve, GrantsGrow
  <2> QED BY <1>6, <2>3 DEF Approve, JournalGrows
<1>7. CASE Expire
  <2>1. PICK g \in DOMAIN grants :
          /\ grants[g].state = "approved"
          /\ \/ grants' = [grants EXCEPT ![g].state = "expired"]
             \/ grants' = [grants EXCEPT ![g].late = TRUE]
    BY <1>7 DEF Expire
  <2>2. CASE grants' = [grants EXCEPT ![g].state = "expired"]
    BY <1>7, <2>1, <2>2, GrantMoves DEF Expire, JournalGrows
  <2>3. CASE grants' = [grants EXCEPT ![g].late = TRUE]
    <3>1. grants \in [1 .. Len(grants) -> Grant] BY LenProperties DEF TypeOK
    <3>2. grants' = [grants EXCEPT ![g] = [grants[g] EXCEPT !.late = TRUE]] BY <2>3
    <3>3. [grants[g] EXCEPT !.late = TRUE].state = grants[g].state BY <3>1 DEF Grant
    <3>4. GrantsGrow BY <3>1, <3>2, <3>3 DEF GrantsGrow
    <3> QED BY <1>7, <3>4 DEF Expire, JournalGrows
  <2> QED BY <2>1, <2>2, <2>3
<1> QED BY <1>1, <1>2, <1>3, <1>4, <1>5, <1>6, <1>7 DEF Next

\* Nor a lineage row, a done receipt or an applied patch of the history.
LEMMA HistoryStep == ASSUME Next PROVE HistoryGrows
<1>1. ASSUME NEW p \in Runners, Landing(p) PROVE HistoryGrows
  BY <1>1 DEF Landing, Snapshot, Lock, Refuse, Admit, Fence, Reserve, Apply, ApplyRefused,
       Consume, Record, Finish, FinishRow, Complete, HistoryGrows
<1>2. ASSUME NEW p \in Runners, Settling(p) PROVE HistoryGrows
  BY <1>2 DEF Settling, SettleGrant, SettleShow, SettleRelease, SettleClose, HistoryGrows
<1>3. ASSUME NEW p \in Runners, Recovering(p) PROVE HistoryGrows
  BY <1>3 DEF Recovering, Recover, Decide, Supersede, RecFinish, FinishRow, RecLineage,
       RecGrant, RecClose, HistoryGrows
<1>4. ASSUME NEW p \in Runners, Failing(p) PROVE HistoryGrows
  BY <1>4 DEF Failing, WriteFails, Kill, KillInApply, HistoryGrows
<1>5. ASSUME Others \/ Git \/ Approve \/ Expire PROVE HistoryGrows
  BY <1>5 DEF Others, PlanVerb, Git, Approve, Expire, HistoryGrows
<1> QED BY <1>1, <1>2, <1>3, <1>4, <1>5 DEF Next

-----------------------------------------------------------------------------
(* What a step does to the processes.                                      *)

OthersStay(p) == \A q \in Runners : q # p => proc'[q] = proc[q]

\* p goes on to pc; ok may only fall.
Moved(p, pc, ok) == /\ OthersStay(p)
                    /\ proc'[p].pc = pc
                    /\ proc'[p].id = proc[p].id
                    /\ proc'[p].seen = proc[p].seen
                    /\ proc'[p].ok = (proc[p].ok /\ ok)

\* p has left, or is about to decide on the next intent.
Left(p) == /\ OthersStay(p)
           /\ proc'[p].seen = NoIntent
           /\ \/ proc'[p].pc = "idle"
              \/ proc'[p].pc = "decide" /\ proc'[p].id \in DOMAIN journal

\* The next command of the same landing or recovery.
LEMMA GoMoves ==
  ASSUME TypeOK, NEW p \in Runners, NEW pc \in Pcs, Go(p, pc) PROVE Moved(p, pc, TRUE)
<1>1. proc[p] \in Process BY DEF TypeOK
<1>2. proc' = [proc EXCEPT ![p] = [proc[p] EXCEPT !.pc = pc]] BY DEF Go
<1>3. proc'[p] = [proc[p] EXCEPT !.pc = pc] BY <1>2 DEF TypeOK
<1> QED BY <1>1, <1>2, <1>3 DEF TypeOK, Moved, OthersStay, Process

\* The next command, after one that may have failed.
LEMMA GoOkMoves ==
  ASSUME TypeOK, NEW p \in Runners, NEW pc \in Pcs, NEW ok \in BOOLEAN, GoOk(p, pc, ok)
  PROVE  Moved(p, pc, ok)
<1>1. proc[p] \in Process BY DEF TypeOK
<1> DEFINE b == proc[p].ok /\ ok
<1>2. proc' = [proc EXCEPT ![p] = [proc[p] EXCEPT !.pc = pc, !.ok = b]] BY DEF GoOk
<1>3. b \in BOOLEAN OBVIOUS
<1>4. b = (proc[p].ok /\ ok) OBVIOUS
<1> HIDE DEF b
<1>5. proc'[p] = [proc[p] EXCEPT !.pc = pc, !.ok = b] BY <1>2 DEF TypeOK
<1>6. /\ proc'[p].pc = pc /\ proc'[p].id = proc[p].id
      /\ proc'[p].seen = proc[p].seen /\ proc'[p].ok = b
  BY <1>1, <1>5 DEF Process
<1>7. OthersStay(p) BY <1>2 DEF TypeOK, OthersStay
<1> QED BY <1>4, <1>6, <1>7 DEF Moved

\* The end of one intent.
LEMMA LeaveMoves ==
  ASSUME TypeOK, NEW p \in Runners, Exit(p) \/ NextIntent(p) PROVE Left(p)
<1>1. Idle \in Process /\ Idle.pc = "idle" /\ Idle.seen = NoIntent BY IdleTyped DEF Idle
<1>2. CASE Exit(p) BY <1>1, <1>2 DEF Exit, Left, OthersStay, TypeOK
<1>3. CASE NextIntent(p)
  <2>1. CASE ~(proc[p].recover /\ proc[p].id < Len(journal))
    <3>1. Exit(p) BY <1>3, <2>1 DEF NextIntent
    <3> QED BY <1>2, <3>1
  <2>2. CASE proc[p].recover /\ proc[p].id < Len(journal)
    <3> DEFINE n == [Idle EXCEPT !.pc = "decide", !.recover = TRUE, !.id = proc[p].id + 1]
    <3>1. proc' = [proc EXCEPT ![p] = n] BY <1>3, <2>2 DEF NextIntent
    <3>2. n.pc = "decide" /\ n.id = proc[p].id + 1 /\ n.seen = NoIntent BY DEF Idle
    <3> HIDE DEF n
    <3>3. proc'[p] = n BY <3>1 DEF TypeOK
    <3>4. proc[p].id + 1 \in DOMAIN journal
      BY <2>2, LenProperties DEF TypeOK, Process
    <3> QED BY <3>1, <3>2, <3>3, <3>4 DEF Left, OthersStay, TypeOK
  <2> QED BY <2>1, <2>2
<1> QED BY <1>2, <1>3

-----------------------------------------------------------------------------
\* What has been written for an intent stays written.
LEMMA IntentKeeps ==
  ASSUME TypeOK, GrantsKnown, TreeExplained, JournalGrows, GrantsGrow, HistoryGrows,
         NEW i \in DOMAIN journal
  PROVE  /\ i \in DOMAIN journal'
         /\ journal'[i].grant = journal[i].grant /\ journal'[i].patch = journal[i].patch
         /\ i \in lineage => i \in lineage'
         /\ i \in closed => i \in closed'
         /\ i \in landed => i \in landed'
         /\ Applied(i) => Applied(i)'
         /\ GrantIn(i, {"consumed"}) => GrantIn(i, {"consumed"})'
<1>1. Applied(i) => Applied(i)'
  BY DEF Applied, TreeExplained, JournalGrows, HistoryGrows
<1>2. GrantIn(i, {"consumed"}) => GrantIn(i, {"consumed"})'
  BY DEF GrantIn, GrantsKnown, JournalGrows, GrantsGrow
<1> QED BY <1>1, <1>2 DEF JournalGrows, HistoryGrows

\* So a process that does not move keeps what it has done.
LEMMA DoneStays ==
  ASSUME TypeOK, GrantsKnown, TreeExplained, JournalGrows, GrantsGrow, HistoryGrows,
         NEW q \in Runners, Done(q), proc'[q] = proc[q]
  PROVE  Done(q)'
<1>1. CASE proc[q].pc \in {"idle", "lock", "admit"}
  BY <1>1 DEF Done, HasIntent, HasApplied, HasSettled, HasRecorded, HasFinished
<1>2. CASE proc[q].pc \notin {"idle", "lock", "admit"}
  <2>1. proc[q].id \in DOMAIN journal BY <1>2 DEF Done, HasIntent
  <2>2. HasIntent(q)' BY <2>1, IntentKeeps DEF Done, HasIntent, Mine
  <2>3. HasApplied(q)' BY <2>1, IntentKeeps DEF Done, HasApplied
  <2>4. HasSettled(q)' BY <2>1, IntentKeeps DEF Done, HasSettled
  <2>5. HasRecorded(q)' BY <2>1, IntentKeeps DEF Done, HasRecorded
  <2>6. HasFinished(q)' BY <2>1, IntentKeeps DEF Done, HasFinished
  <2> QED BY <2>2, <2>3, <2>4, <2>5, <2>6 DEF Done
<1> QED BY <1>1, <1>2

\* A process that has left claims nothing.
LEMMA DoneLeft ==
  ASSUME JournalGrows, NEW p \in Runners, Left(p)
  PROVE  Done(p)' /\ proc'[p].seen.grant = 0 /\ proc'[p].seen.ended = {}
BY DEF Left, JournalGrows, Done, HasIntent, HasApplied, HasSettled, HasRecorded, HasFinished,
       NoIntent

-----------------------------------------------------------------------------
(* What the acting process has done after each of its steps.               *)

Acted(p) == /\ OthersStay(p)
            /\ Done(p)'
            /\ proc'[p].seen.grant \in {0} \cup DOMAIN grants'
            /\ proc'[p].seen.ended = {}

\* The invariant but for its last part, and what every step preserves.
Before == /\ TypeOK /\ GrantsKnown /\ TreeExplained /\ DoneNamed
          /\ \A p \in Runners : Done(p)
          /\ JournalGrows /\ GrantsGrow /\ HistoryGrows

\* Leaving.
LEMMA LeftActed == ASSUME Before, NEW p \in Runners, Left(p) PROVE Acted(p)
BY DoneLeft DEF Before, Left, Acted

\* Going on with the intent it has.
LEMMA MovedActed ==
  ASSUME Before, NEW p \in Runners, NEW pc, NEW ok \in BOOLEAN, Moved(p, pc, ok),
         proc[p].id \in DOMAIN journal,
         \/ Mine(p).grant = proc[p].seen.grant /\ Mine(p).patch = proc[p].seen.patch
         \/ pc \in SettlePcs \cup RecoverPcs,
         HasApplied(p)', HasSettled(p)', HasRecorded(p)', HasFinished(p)'
  PROVE  Acted(p)
<1>1. HasIntent(p)'
  BY DEF Before, Moved, HasIntent, JournalGrows, Mine, SettlePcs, RecoverPcs
<1>2. proc'[p].seen.grant \in {0} \cup DOMAIN grants' /\ proc'[p].seen.ended = {}
  BY DEF Before, Moved, GrantsKnown, GrantsGrow
<1> QED BY <1>1, <1>2 DEF Moved, Acted, Done

\* Every step of a landing leaves what it has done durable.
LEMMA LandingActed == ASSUME Before, NEW p \in Runners, Landing(p) PROVE Acted(p)
<1> USE DEF Before
<1>0. proc[p] \in Process /\ Done(p) BY DEF TypeOK
<1>i. PICK i : i = proc[p].id OBVIOUS
<1>1. CASE Snapshot(p)
  <2>1. PICK g \in {0} \cup DOMAIN grants :
          proc' = [proc EXCEPT ![p].pc = "lock",
                               ![p].seen = [patch |-> row.patch, lease |-> row.lease,
                                            receipt |-> Digest(row, frozen), base |-> 0,
                                            grant |-> g, ended |-> {}]]
    BY <1>1 DEF Snapshot
  <2> DEFINE s == [patch |-> row.patch, lease |-> row.lease,
                   receipt |-> Digest(row, frozen), base |-> 0,
                   grant |-> g, ended |-> {}]
  <2>2. s.grant = g /\ s.ended = {} OBVIOUS
  <2>3. proc' = [proc EXCEPT ![p].pc = "lock", ![p].seen = s] BY <2>1
  <2> HIDE DEF s
  <2>4. proc' = [proc EXCEPT ![p] = [proc[p] EXCEPT !.pc = "lock", !.seen = s]]
    BY <2>3 DEF TypeOK
  <2>5. proc'[p].pc = "lock" /\ proc'[p].seen = s /\ OthersStay(p)
    BY <1>0, <2>4 DEF TypeOK, Process, OthersStay
  <2>6. Done(p)'
    BY <2>5 DEF Done, HasIntent, HasApplied, HasSettled, HasRecorded, HasFinished
  <2> QED BY <2>2, <2>5, <2>6 DEF Acted, GrantsGrow
<1>2. CASE Lock(p)
  <2>1. CASE proc' = [proc EXCEPT ![p] = Idle]
    <3>1. Left(p) BY <2>1 DEF Left, OthersStay, TypeOK, Idle
    <3> QED BY <3>1, LeftActed
  <2>2. CASE proc' = [proc EXCEPT ![p] =
                        [@ EXCEPT !.pc = "admit",
                                  !.seen = [proc[p].seen EXCEPT !.base = tree.head]]]
    <3> DEFINE s == [proc[p].seen EXCEPT !.base = tree.head]
    <3>1. s.grant = proc[p].seen.grant /\ s.ended = proc[p].seen.ended
      BY <1>0 DEF Process, Intent
    <3>2. proc' = [proc EXCEPT ![p] = [proc[p] EXCEPT !.pc = "admit", !.seen = s]]
      BY <2>2
    <3> HIDE DEF s
    <3>3. proc'[p].pc = "admit" /\ proc'[p].seen = s /\ OthersStay(p)
      BY <1>0, <3>2 DEF TypeOK, Process, OthersStay
    <3>4. Done(p)'
      BY <3>3 DEF Done, HasIntent, HasApplied, HasSettled, HasRecorded, HasFinished
    <3> QED BY <3>1, <3>3, <3>4 DEF Acted, GrantsKnown, GrantsGrow
  <2> QED BY <1>2, <2>1, <2>2 DEF Lock
<1>3. CASE Refuse(p) BY <1>3, LeaveMoves, LeftActed DEF Refuse
<1>4. CASE Admit(p)
  <2> DEFINE n == Len(journal) + 1
  <2>1. proc' = [proc EXCEPT ![p] = [proc[p] EXCEPT !.pc = "fence", !.id = n]]
    BY <1>4 DEF Admit, TypeOK
  <2>2. /\ proc'[p].pc = "fence" /\ proc'[p].seen = proc[p].seen
        /\ proc'[p].id = n /\ OthersStay(p)
    BY <1>0, <2>1 DEF TypeOK, Process, OthersStay
  <2>3. n \in DOMAIN journal' /\ journal'[n] = proc[p].seen
    BY <1>0, <1>4 DEF Admit, TypeOK, Process
  <2>4. Done(p)'
    BY <2>2, <2>3 DEF Done, HasIntent, HasApplied, HasSettled, HasRecorded, HasFinished, Mine
  <2> QED BY <2>2, <2>4 DEF Acted, GrantsKnown, GrantsGrow
<1> DEFINE Mid == {"fence", "reserve", "apply", "consume", "record", "finish", "complete"}
<1>5. ASSUME proc[p].pc \in Mid
      PROVE  /\ proc[p].id \in DOMAIN journal
             /\ Mine(p).grant = proc[p].seen.grant /\ Mine(p).patch = proc[p].seen.patch
  BY <1>0, <1>5 DEF Done, HasIntent
<1>6. CASE Fence(p)
  <2>1. \/ proc' = [proc EXCEPT ![p] = [proc[p] EXCEPT !.pc = "settleGrant", !.keep = TRUE]]
        \/ /\ proc' = [proc EXCEPT ![p] = [proc[p] EXCEPT !.pc = "apply"]]
        \/ /\ proc' = [proc EXCEPT ![p] = [proc[p] EXCEPT !.pc = "reserve"]]
           /\ proc[p].seen.grant # 0
    BY <1>6 DEF Fence
  <2>2. PICK pc \in {"settleGrant", "apply", "reserve"} :
          Moved(p, pc, TRUE) /\ (pc = "reserve" => proc[p].seen.grant # 0)
    BY <1>0, <2>1 DEF TypeOK, Process, Moved, OthersStay
  <2>3. HasApplied(p)' /\ HasSettled(p)' /\ HasRecorded(p)' /\ HasFinished(p)'
    BY <2>2 DEF Moved, HasApplied, HasSettled, HasRecorded, HasFinished
  <2> QED BY <1>5, <1>6, <2>2, <2>3, MovedActed DEF Fence
<1>7. CASE Reserve(p) \/ ApplyRefused(p)
  <2>1. PICK pc \in {"apply", "settleGrant"} : Go(p, pc)
    BY <1>7 DEF Reserve, ApplyRefused
  <2>2. Moved(p, pc, TRUE) BY <2>1, GoMoves DEF Pcs, LandPcs, SettlePcs
  <2>3. HasApplied(p)' /\ HasSettled(p)' /\ HasRecorded(p)' /\ HasFinished(p)'
    BY <2>2 DEF Moved, HasApplied, HasSettled, HasRecorded, HasFinished
  <2> QED BY <1>5, <1>7, <2>2, <2>3, MovedActed DEF Reserve, ApplyRefused
<1>8. CASE Apply(p)
  <2>1. PICK pc \in {"record", "consume", "settleGrant"} :
          /\ Go(p, pc)
          /\ pc # "settleGrant" => proc[p].id \in landed'
          /\ pc = "record" <=> pc # "settleGrant" /\ proc[p].seen.grant = 0
    BY <1>8 DEF Apply
  <2>2. Moved(p, pc, TRUE) BY <2>1, GoMoves DEF Pcs, LandPcs, SettlePcs
  <2>3. pc = "record" => GrantIn(i, {"consumed"})'
    BY <1>i, <1>5, <1>8, <2>1 DEF Apply, GrantIn, Mine
  <2>4. HasApplied(p)' /\ HasSettled(p)' /\ HasRecorded(p)' /\ HasFinished(p)'
    BY <1>i, <2>1, <2>2, <2>3 DEF Moved, HasApplied, HasSettled, HasRecorded, HasFinished
  <2> QED BY <1>5, <1>8, <2>2, <2>4, MovedActed DEF Apply
<1>9. CASE Consume(p)
  <2> DEFINE g == proc[p].seen.grant
             can == grants[g].state = "consuming"
  <2>1. can \in BOOLEAN /\ GoOk(p, "record", can) BY <1>9 DEF Consume
  <2>2. Moved(p, "record", can) BY <2>1, GoOkMoves DEF Pcs, LandPcs
  <2>3. g \in DOMAIN grants BY <1>0, <1>9 DEF Consume, Done, HasApplied, GrantsKnown
  <2>4. can => GrantIn(i, {"consumed"})'
    <3>1. SUFFICES ASSUME can PROVE grants'[g].state = "consumed"
      BY <1>i, <1>5, <1>9 DEF Consume, GrantIn, Mine
    <3>2. grants \in [1 .. Len(grants) -> Grant] BY LenProperties DEF TypeOK
    <3>3. grants' = [grants EXCEPT ![g] = [grants[g] EXCEPT !.state = "consumed"]]
      BY <1>9, <3>1 DEF Consume
    <3> QED BY <2>3, <3>2, <3>3 DEF Grant
  <2>5. proc[p].id \in landed' BY <1>0, <1>9 DEF Consume, Done, HasApplied
  <2>6. HasApplied(p)' /\ HasSettled(p)' /\ HasRecorded(p)' /\ HasFinished(p)'
    BY <1>i, <2>2, <2>4, <2>5 DEF Moved, HasApplied, HasSettled, HasRecorded, HasFinished
  <2> HIDE DEF can
  <2> QED BY <1>5, <1>9, <2>1, <2>2, <2>6, MovedActed DEF Consume
<1>10. CASE Record(p)
  <2>1. Moved(p, "finish", TRUE) BY <1>10, GoMoves DEF Record, Pcs, LandPcs
  <2>2. proc[p].id \in lineage' /\ proc[p].id \in landed'
    BY <1>0, <1>10 DEF Record, Done, HasApplied
  <2>3. proc[p].ok => GrantIn(i, {"consumed"})'
    BY <1>i, <1>0, <1>5, <1>10, IntentKeeps DEF Record, Done, HasSettled
  <2>4. HasApplied(p)' /\ HasSettled(p)' /\ HasRecorded(p)' /\ HasFinished(p)'
    BY <1>i, <2>1, <2>2, <2>3 DEF Moved, HasApplied, HasSettled, HasRecorded, HasFinished
  <2> QED BY <1>5, <1>10, <2>1, <2>4, MovedActed DEF Record
<1>11. CASE Finish(p)
  <2> DEFINE can == CanFinishLanding(row, frozen, proc[p].seen)
  <2>1. can \in BOOLEAN BY DEF CanFinishLanding, CanFinish
  <2>2. Moved(p, "complete", can) BY <1>11, <2>1, GoOkMoves DEF Finish, Pcs, LandPcs
  <2>3. can => proc[p].id \in closed' BY <1>11 DEF Finish, FinishRow
  <2>4. proc[p].id \in landed' BY <1>0, <1>11 DEF Finish, Done, HasApplied
  <2>5. proc[p].ok => GrantIn(i, {"consumed"})' /\ proc[p].id \in lineage'
    BY <1>i, <1>0, <1>5, <1>11, IntentKeeps DEF Finish, Done, HasSettled, HasRecorded
  <2> HIDE DEF can
  <2>6. HasApplied(p)' /\ HasSettled(p)' /\ HasRecorded(p)' /\ HasFinished(p)'
    BY <1>i, <2>2, <2>3, <2>4, <2>5 DEF Moved, HasApplied, HasSettled, HasRecorded, HasFinished
  <2> QED BY <1>5, <1>11, <2>1, <2>2, <2>6, MovedActed DEF Finish
<1>12. CASE Complete(p) BY <1>12, LeaveMoves, LeftActed DEF Complete
<1> QED BY <1>1, <1>2, <1>3, <1>4, <1>6, <1>7, <1>8, <1>9, <1>10, <1>11, <1>12 DEF Landing

\* Settling moves on or closes, and claims nothing new.
LEMMA SettlingActed == ASSUME Before, NEW p \in Runners, Settling(p) PROVE Acted(p)
<1> USE DEF Before
<1>1. CASE SettleClose(p) BY <1>1, LeaveMoves, LeftActed DEF SettleClose
<1>2. CASE SettleGrant(p) \/ SettleShow(p) \/ SettleRelease(p)
  <2>1. PICK pc \in SettlePcs : Go(p, pc) \/ \E ok \in BOOLEAN : GoOk(p, pc, ok)
    BY <1>2 DEF SettleGrant, SettleShow, SettleRelease, CanRelease, SettlePcs
  <2>2. PICK ok \in BOOLEAN : Moved(p, pc, ok)
    BY <2>1, GoMoves, GoOkMoves DEF Pcs
  <2>3. HasApplied(p)' /\ HasSettled(p)' /\ HasRecorded(p)' /\ HasFinished(p)'
    BY <2>2 DEF Moved, HasApplied, HasSettled, HasRecorded, HasFinished, SettlePcs
  <2>4. proc[p].id \in DOMAIN journal
    BY <1>2 DEF SettleGrant, SettleShow, SettleRelease, Done, HasIntent
  <2> QED BY <2>2, <2>3, <2>4, MovedActed
<1> QED BY <1>1, <1>2 DEF Settling

\* Recovery takes a landing as applied only if its patch is in the tree.
LEMMA AppliedInTree ==
  ASSUME NEW i, Verdict(i) = "applied" PROVE journal[i].patch \in tree.work
BY DEF Verdict, Reverse

\* Recovery redoes the writes in an order that leaves `complete` last.
LEMMA RecoveringActed == ASSUME Before, NEW p \in Runners, Recovering(p) PROVE Acted(p)
<1> USE DEF Before
<1>0. proc[p] \in Process /\ Done(p) BY DEF TypeOK
<1>i. PICK i : i = proc[p].id OBVIOUS
<1>1. CASE Recover(p)
  <2>1. proc' = [proc EXCEPT ![p] = [proc[p] EXCEPT !.pc = "decide", !.recover = TRUE,
                                                    !.id = 1]]
    BY <1>1 DEF Recover, TypeOK
  <2>2. /\ proc'[p].pc = "decide" /\ proc'[p].id = 1 /\ proc'[p].seen = proc[p].seen
        /\ OthersStay(p)
    BY <1>0, <2>1 DEF TypeOK, Process, OthersStay
  <2>3. journal \in Seq(Intent) /\ journal # << >> /\ journal' = journal
    BY <1>1 DEF Recover, TypeOK
  <2>4. 1 \in DOMAIN journal'
    BY <2>3, EmptySeq, LenProperties
  <2>5. Done(p)'
    BY <2>2, <2>4 DEF Done, HasIntent, HasApplied, HasSettled, HasRecorded, HasFinished
  <2> QED BY <2>2, <2>5 DEF Acted, GrantsKnown, GrantsGrow
<1>2. ASSUME proc[p].pc \in RecoverPcs PROVE i \in DOMAIN journal
  BY <1>0, <1>2, <1>i DEF Done, HasIntent, RecoverPcs
<1>3. ASSUME NEW pc \in RecoverPcs \cup SettlePcs, proc[p].pc \in RecoverPcs,
             NEW ok \in BOOLEAN, Moved(p, pc, ok),
             HasApplied(p)', HasSettled(p)', HasRecorded(p)', HasFinished(p)'
      PROVE  Acted(p)
  BY <1>2, <1>3, <1>i, MovedActed
<1>4. CASE Decide(p)
  <2>1. \/ NextIntent(p)
        \/ Go(p, "superseded") \/ Go(p, "settleGrant")
        \/ Verdict(i) = "applied" /\ DoneBy(i) /\ Go(p, "recLineage")
        \/ Verdict(i) = "applied" /\ Go(p, "recFinish")
    BY <1>4, <1>i DEF Decide, Go
  <2>2. i \in DOMAIN journal BY <1>2, <1>4 DEF Decide, RecoverPcs
  <2>3. Verdict(i) = "applied" => Applied(i)'
    BY <2>2, AppliedInTree, IntentKeeps DEF TreeExplained, Applied
  <2>4. DoneBy(i) => i \in closed'
    <3>1. SUFFICES ASSUME DoneBy(i) PROVE frozen = i
      BY <2>2, IntentKeeps DEF DoneNamed, DoneBy
    <3>a. journal[i] \in Intent BY <2>2, LenProperties DEF TypeOK
    <3>2. journal[i].receipt \in Digests BY <3>a DEF Intent
    <3>3. Digest(row, frozen).path = frozen BY DEF Digest
    <3>4. [journal[i].receipt EXCEPT !.path = i].path = i BY <3>2 DEF Digests
    <3> QED BY <3>1, <3>3, <3>4 DEF DoneBy, DoneReceipt
  <2>5. CASE NextIntent(p) BY <2>5, LeaveMoves, LeftActed
  <2>6. ASSUME NEW pc \in {"superseded", "settleGrant", "recLineage", "recFinish"},
               Go(p, pc),
               pc \in {"recLineage", "recFinish"} => Applied(i)',
               pc = "recLineage" => i \in closed'
        PROVE  Acted(p)
    <3>1. Moved(p, pc, TRUE) BY <2>6, GoMoves DEF Pcs, RecoverPcs, SettlePcs
    <3>2. HasApplied(p)' /\ HasSettled(p)' /\ HasRecorded(p)' /\ HasFinished(p)'
      BY <1>i, <2>6, <3>1 DEF Moved, HasApplied, HasSettled, HasRecorded, HasFinished
    <3> QED BY <1>3, <1>4, <3>1, <3>2 DEF Decide, RecoverPcs, SettlePcs
  <2> QED BY <2>1, <2>3, <2>4, <2>5, <2>6
<1>5. CASE Supersede(p)
  <2>1. PICK ok \in BOOLEAN : GoOk(p, "settleClose", ok)
    BY <1>5 DEF Supersede, GrantDropped, GrantIn
  <2>2. Moved(p, "settleClose", ok) BY <2>1, GoOkMoves DEF Pcs, SettlePcs
  <2>3. HasApplied(p)' /\ HasSettled(p)' /\ HasRecorded(p)' /\ HasFinished(p)'
    BY <2>2 DEF Moved, HasApplied, HasSettled, HasRecorded, HasFinished
  <2> QED BY <1>3, <1>5, <2>2, <2>3 DEF Supersede, RecoverPcs, SettlePcs
<1>6. CASE RecFinish(p)
  <2>1. CASE NextIntent(p) BY <2>1, LeaveMoves, LeftActed
  <2>2. CASE FinishRow(proc[p].id) /\ Go(p, "recLineage")
    <3>1. Moved(p, "recLineage", TRUE) BY <2>2, GoMoves DEF Pcs, RecoverPcs
    <3>2. i \in closed' BY <1>i, <2>2 DEF FinishRow
    <3>3. i \in DOMAIN journal BY <1>2, <1>6 DEF RecFinish, RecoverPcs
    <3>4. Applied(i)'
      BY <1>0, <1>i, <1>6, <3>3, IntentKeeps DEF RecFinish, Done, HasApplied
    <3>5. HasApplied(p)' /\ HasSettled(p)' /\ HasRecorded(p)' /\ HasFinished(p)'
      BY <1>i, <3>1, <3>2, <3>4 DEF Moved, HasApplied, HasSettled, HasRecorded, HasFinished
    <3> QED BY <1>3, <1>6, <3>1, <3>5 DEF RecFinish, RecoverPcs
  <2> QED BY <1>6, <2>1, <2>2 DEF RecFinish
<1>7. CASE RecLineage(p)
  <2>1. Moved(p, "recGrant", TRUE) BY <1>7, GoMoves DEF RecLineage, Pcs, RecoverPcs
  <2>2. i \in DOMAIN journal BY <1>2, <1>7 DEF RecLineage, RecoverPcs
  <2>3. Applied(i)' /\ i \in closed' /\ i \in lineage'
    BY <1>0, <1>i, <1>7, <2>2, IntentKeeps DEF RecLineage, Done, HasApplied, HasFinished
  <2>4. HasApplied(p)' /\ HasSettled(p)' /\ HasRecorded(p)' /\ HasFinished(p)'
    BY <1>i, <2>1, <2>3 DEF Moved, HasApplied, HasSettled, HasRecorded, HasFinished
  <2> QED BY <1>3, <1>7, <2>1, <2>4 DEF RecLineage, RecoverPcs
<1>8. CASE RecGrant(p)
  <2>1. CASE NextIntent(p) BY <2>1, LeaveMoves, LeftActed
  <2>2. CASE Go(p, "recClose") /\ ~NextIntent(p)
    <3>1. Moved(p, "recClose", TRUE) BY <2>2, GoMoves DEF Pcs, RecoverPcs
    <3>2. i \in DOMAIN journal BY <1>2, <1>8 DEF RecGrant, RecoverPcs
    <3>3. Applied(i)' /\ i \in closed' /\ i \in lineage'
      BY <1>0, <1>i, <1>8, <3>2, IntentKeeps
      DEF RecGrant, Done, HasApplied, HasRecorded, HasFinished
    <3>4. GrantIn(i, {"consumed"})'
      <4> DEFINE g == journal[i].grant
      <4>1. g # 0 => /\ g \in DOMAIN grants
                     /\ grants[g].state \in {"consuming", "consumed"}
        BY <1>8, <1>i, <2>2, <3>2 DEF RecGrant, Mine, GrantsKnown
      <4>2. CASE g = 0 BY <3>2, <4>2, IntentKeeps DEF GrantIn
      <4>3. CASE g # 0 /\ grants[g].state = "consumed"
        BY <3>2, <4>3, IntentKeeps DEF GrantIn
      <4>4. CASE g # 0 /\ grants[g].state = "consuming"
        <5>1. grants' = [grants EXCEPT ![g] = [grants[g] EXCEPT !.state = "consumed"]]
          BY <1>8, <1>i, <4>4 DEF RecGrant, Mine
        <5>2. grants[g] \in Grant BY <4>1, <4>4, LenProperties DEF TypeOK
        <5>3. grants'[g].state = "consumed" BY <4>1, <4>4, <5>1, <5>2 DEF Grant
        <5> QED BY <3>2, <5>3, IntentKeeps DEF GrantIn
      <4> QED BY <4>1, <4>2, <4>3, <4>4
    <3>5. HasApplied(p)' /\ HasSettled(p)' /\ HasRecorded(p)' /\ HasFinished(p)'
      BY <1>i, <3>1, <3>3, <3>4 DEF Moved, HasApplied, HasSettled, HasRecorded, HasFinished
    <3> QED BY <1>3, <1>8, <3>1, <3>5 DEF RecGrant, RecoverPcs
  <2> QED BY <1>8, <2>1, <2>2 DEF RecGrant
<1>9. CASE RecClose(p) BY <1>9, LeaveMoves, LeftActed DEF RecClose
<1> QED BY <1>1, <1>4, <1>5, <1>6, <1>7, <1>8, <1>9 DEF Recovering

\* A failed write is remembered in ok, a death forgets the process.
LEMMA FailingActed == ASSUME Before, NEW p \in Runners, Failing(p) PROVE Acted(p)
<1> USE DEF Before
<1>0. proc[p] \in Process /\ Done(p) BY DEF TypeOK
<1>i. PICK i : i = proc[p].id OBVIOUS
<1>1. CASE NextIntent(p) \/ Exit(p) BY <1>1, LeaveMoves, LeftActed
<1>2. CASE WriteFails(p) /\ ~NextIntent(p) /\ ~Exit(p)
  <2>1. PICK pc \in {"record", "finish", "complete", "settleShow", "settleClose"} :
          /\ GoOk(p, pc, FALSE)
          /\ \/ pc \in {"record", "finish", "complete"}
                /\ proc[p].pc \in {"consume", "record", "finish"}
             \/ pc \in SettlePcs /\ proc[p].pc \in SettlePcs \cup RecoverPcs
    BY <1>2 DEF WriteFails, SettlePcs, RecoverPcs
  <2>2. Moved(p, pc, FALSE) BY <2>1, GoOkMoves DEF Pcs, LandPcs, SettlePcs
  <2>3. i \in DOMAIN journal
    BY <1>0, <1>i, <2>1 DEF Done, HasIntent, SettlePcs, RecoverPcs
  <2>4. pc \in {"record", "finish", "complete"} =>
          /\ i \in landed'
          /\ Mine(p).grant = proc[p].seen.grant /\ Mine(p).patch = proc[p].seen.patch
    BY <1>0, <1>i, <2>1, <2>3, IntentKeeps DEF Done, HasIntent, HasApplied, SettlePcs
  <2>5. HasApplied(p)' /\ HasSettled(p)' /\ HasRecorded(p)' /\ HasFinished(p)'
    BY <1>i, <2>2, <2>4 DEF Moved, HasApplied, HasSettled, HasRecorded, HasFinished
  <2> QED BY <1>i, <2>1, <2>2, <2>3, <2>4, <2>5, MovedActed
<1> QED BY <1>1, <1>2 DEF Failing, WriteFails, Kill, KillInApply

-----------------------------------------------------------------------------
(* The other parts of the invariant, one step.                             *)

\* A patch gets into the tree and an id into the history only together, and
\* for an intent of the journal.
LEMMA TreeStep == ASSUME Before, Next PROVE TreeExplained'
<1> USE DEF Before
<1>1. ASSUME landed' = landed, \/ tree' = tree
                               \/ tree'.work \cup tree'.committed \subseteq tree.work \cup tree.committed
      PROVE  TreeExplained'
  BY <1>1, IntentKeeps DEF TreeExplained
<1>2. ASSUME NEW p \in Runners, proc[p].pc = "apply",
             landed' = landed \cup {proc[p].id},
             tree' = [tree EXCEPT !.work = @ \cup {proc[p].seen.patch}]
      PROVE  TreeExplained'
  <2>1. PICK i \in DOMAIN journal : i = proc[p].id /\ journal[i].patch = proc[p].seen.patch
    BY <1>2 DEF Done, HasIntent, Mine
  <2>2. /\ i \in DOMAIN journal' /\ landed' = landed \cup {i}
        /\ journal'[i].patch = proc[p].seen.patch
    BY <1>2, <2>1, IntentKeeps
  <2>3. /\ tree'.committed = tree.committed
        /\ tree'.work = tree.work \cup {proc[p].seen.patch}
    BY <1>2 DEF TypeOK, Tree
  <2>4. \A k \in landed : k \in DOMAIN journal' /\ journal'[k].patch = journal[k].patch
    BY IntentKeeps DEF TreeExplained
  <2> QED BY <2>2, <2>3, <2>4 DEF TreeExplained
<1>3. ASSUME NEW p \in Runners, Landing(p) PROVE TreeExplained'
  <2>1. CASE Apply(p) BY <1>1, <1>2, <2>1 DEF Apply
  <2> QED BY <1>1, <1>3, <2>1 DEF Landing, Snapshot, Lock, Refuse, Admit, Fence, Reserve,
             ApplyRefused, Consume, Record, Finish, Complete
<1>4. ASSUME NEW p \in Runners, Settling(p) PROVE TreeExplained'
  BY <1>1, <1>4 DEF Settling, SettleGrant, SettleShow, SettleRelease, SettleClose
<1>5. ASSUME NEW p \in Runners, Recovering(p) PROVE TreeExplained'
  BY <1>1, <1>5 DEF Recovering, Recover, Decide, Supersede, RecFinish, RecLineage, RecGrant,
     RecClose
<1>6. ASSUME NEW p \in Runners, Failing(p) PROVE TreeExplained'
  <2>1. CASE KillInApply(p)
    <3>1. CASE tree' = [tree EXCEPT !.edited = TRUE] /\ landed' = landed
      <4>1. tree'.work = tree.work /\ tree'.committed = tree.committed
        BY <3>1 DEF TypeOK, Tree
      <4> QED BY <1>1, <3>1, <4>1
    <3> QED BY <1>2, <2>1, <3>1 DEF KillInApply
  <2> QED BY <1>1, <1>6, <2>1 DEF Failing, WriteFails, Kill
<1>7. CASE Git
  <2>1. tree \in Tree BY DEF TypeOK
  <2>2. tree'.work \cup tree'.committed \subseteq tree.work \cup tree.committed
    BY <1>7, <2>1 DEF Git, Tree
  <2> QED BY <1>1, <1>7, <2>2 DEF Git
<1>8. CASE Others \/ Approve \/ Expire
  BY <1>1, <1>8 DEF Others, PlanVerb, Approve, Expire
<1> QED BY <1>3, <1>4, <1>5, <1>6, <1>7, <1>8 DEF Next

\* A verb other than `finish` leaves no done row behind it, unless it changed
\* nothing.
LEMMA DoneStep == ASSUME Before, Next PROVE DoneNamed'
<1> USE DEF Before
<1>0. row \in Row BY DEF TypeOK
<1>1. ASSUME row' = row /\ frozen' = frozen PROVE DoneNamed'
  BY <1>1 DEF DoneNamed, HistoryGrows
<1>2. ASSUME NEW i, FinishRow(i) PROVE DoneNamed'
  BY <1>2 DEF FinishRow, DoneNamed
<1>3. ASSUME row'.state # "done" PROVE DoneNamed' BY <1>3 DEF DoneNamed
<1>4. ASSUME NEW p \in Runners, Landing(p) PROVE DoneNamed'
  <2>1. CASE Finish(p) BY <1>1, <1>2, <2>1 DEF Finish
  <2>2. CASE Fence(p)
    <3>1. Fenced(row).state # "done" BY <1>0 DEF Fenced, Row
    <3> QED BY <1>1, <1>3, <2>2, <3>1 DEF Fence
  <2> QED BY <1>1, <1>4, <2>1, <2>2 DEF Landing, Snapshot, Lock, Refuse, Admit, Reserve,
             Apply, ApplyRefused, Consume, Record, Complete
<1>5. ClearClaim(row).state # "done" BY <1>0 DEF ClearClaim, Row
<1>6. ASSUME NEW p \in Runners, Settling(p) PROVE DoneNamed'
  BY <1>1, <1>3, <1>5, <1>6 DEF Settling, SettleGrant, SettleShow, SettleRelease, SettleClose
<1>7. ASSUME NEW p \in Runners, Recovering(p) PROVE DoneNamed'
  BY <1>1, <1>2, <1>7 DEF Recovering, Recover, Decide, Supersede, RecFinish, RecLineage,
     RecGrant, RecClose
<1>8. ASSUME NEW p \in Runners, Failing(p) PROVE DoneNamed'
  BY <1>1, <1>8 DEF Failing, WriteFails, Kill, KillInApply
<1>9. CASE Others
  <2>1. /\ Claimed(row).state # "done" /\ Repaired(row).state # "done"
        /\ Blocked(row).state # "done" /\ Reviewed(row, PatchOf(row)).state # "done"
    BY <1>0 DEF Claimed, Repaired, Blocked, Reviewed, Row
  <2> QED BY <1>3, <1>5, <1>9, <2>1 DEF Others, PlanVerb
<1>10. CASE Git \/ Approve \/ Expire BY <1>1, <1>10 DEF Git, Approve, Expire
<1> QED BY <1>4, <1>6, <1>7, <1>8, <1>9, <1>10 DEF Next

\* The journal gets an intent as some process has written it, and `complete`
\* from a process that is done with its intent.
LEMMA JournalStep ==
  ASSUME Before, Next
  PROVE  /\ \A i \in DOMAIN journal' : i \notin DOMAIN journal =>
              \E p \in Runners : proc[p].pc = "admit" /\ journal'[i] = proc[p].seen
         /\ \A i \in DOMAIN journal : "complete" \in journal'[i].ended =>
              \/ "complete" \in journal[i].ended
              \/ \E p \in Runners : /\ proc[p].id = i
                                    /\ \/ proc[p].pc = "complete" /\ proc[p].ok
                                       \/ proc[p].pc = "recClose"
<1> USE DEF Before
<1> DEFINE Goal ==
      /\ \A i \in DOMAIN journal' : i \notin DOMAIN journal =>
           \E p \in Runners : proc[p].pc = "admit" /\ journal'[i] = proc[p].seen
      /\ \A i \in DOMAIN journal : "complete" \in journal'[i].ended =>
           \/ "complete" \in journal[i].ended
           \/ \E p \in Runners : /\ proc[p].id = i
                                 /\ \/ proc[p].pc = "complete" /\ proc[p].ok
                                    \/ proc[p].pc = "recClose"
<1>1. journal' = journal => Goal OBVIOUS
<1>2. ASSUME NEW p \in Runners, Ended(proc[p].id, "complete"),
             \/ proc[p].pc = "complete" /\ proc[p].ok
             \/ proc[p].pc = "recClose"
      PROVE  Goal
  <2>1. PICK k \in Nat : k = proc[p].id BY DEF TypeOK, Process
  <2>2. Ended(k, "complete") BY <1>2, <2>1 DEF Ended
  <2> QED BY <1>2, <2>1, <2>2, EndedTyped
<1>3. ASSUME NEW p \in Runners, Landing(p) PROVE Goal
  <2>1. CASE Admit(p)
    <3>1. journal \in Seq(Intent) /\ proc[p].seen \in Intent BY DEF TypeOK, Process
    <3>2. journal' = Append(journal, proc[p].seen) BY <2>1 DEF Admit
    <3>3. \A i \in DOMAIN journal : journal'[i] = journal[i] BY <3>1, <3>2
    <3>4. \A i \in DOMAIN journal' : i \notin DOMAIN journal => journal'[i] = proc[p].seen
      BY <3>1, <3>2
    <3>5. proc[p].pc = "admit" BY <2>1 DEF Admit
    <3> QED BY <3>3, <3>4, <3>5
  <2>2. CASE Complete(p) BY <1>1, <1>2, <2>2 DEF Complete
  <2> QED BY <1>1, <1>3, <2>1, <2>2 DEF Landing, Snapshot, Lock, Refuse, Fence, Reserve,
             Apply, ApplyRefused, Consume, Record, Finish
<1>4. ASSUME NEW p \in Runners, Settling(p) PROVE Goal
  <2>1. CASE SettleClose(p)
    <3>1. PICK k \in Nat : k = proc[p].id BY DEF TypeOK, Process
    <3>2. journal' = journal \/ Ended(k, "abandoned")
      BY <2>1, <3>1 DEF SettleClose, Ended
    <3> QED BY <1>1, <3>2, EndedTyped
  <2> QED BY <1>1, <1>4, <2>1 DEF Settling, SettleGrant, SettleShow, SettleRelease
<1>5. ASSUME NEW p \in Runners, Recovering(p) PROVE Goal
  <2>1. CASE RecClose(p) BY <1>2, <2>1 DEF RecClose
  <2> QED BY <1>1, <1>5, <2>1 DEF Recovering, Recover, Decide, Supersede, RecFinish,
             RecLineage, RecGrant
<1>6. ASSUME NEW p \in Runners, Failing(p) PROVE Goal
  BY <1>1, <1>6 DEF Failing, WriteFails, Kill, KillInApply
<1>7. CASE Others \/ Git \/ Approve \/ Expire
  BY <1>1, <1>7 DEF Others, PlanVerb, Git, Approve, Expire
<1> QED BY <1>3, <1>4, <1>5, <1>6, <1>7 DEF Next

-----------------------------------------------------------------------------
(* The invariant.                                                          *)

\* It holds of an empty journal.
LEMMA RecordInit == Init => RecordInv
<1> SUFFICES ASSUME Init PROVE RecordInv OBVIOUS
<1>1. /\ journal = << >> /\ landed = {} /\ row.state = "review"
      /\ tree.work \cup tree.committed = {}
      /\ \A p \in Runners : proc[p] = Idle
  BY AddedTyped DEF Init, Reviewed, Claimed, Added
<1>2. Idle.pc = "idle" /\ Idle.seen.grant = 0 /\ Idle.seen.ended = {}
  BY DEF Idle, NoIntent
<1>3. \A p \in Runners : Done(p)
  BY <1>1, <1>2 DEF Done, HasIntent, HasApplied, HasSettled, HasRecorded, HasFinished
<1> QED BY <1>1, <1>2, <1>3
        DEF RecordInv, GrantsKnown, TreeExplained, DoneNamed, CompleteMeansRecorded

\* Every step keeps it.
LEMMA RecordStep == ASSUME TypeOK, RecordInv, Next PROVE RecordInv'
<1>0. Before BY JournalAndGrantsGrow, HistoryStep DEF Before, RecordInv
<1>1. ASSUME NEW q \in Runners
      PROVE  /\ Done(q)'
             /\ proc'[q].seen.grant \in {0} \cup DOMAIN grants' /\ proc'[q].seen.ended = {}
  <2>1. proc'[q] = proc[q] \/ Acted(q)
    <3>1. ASSUME NEW p \in Runners,
                 Landing(p) \/ Settling(p) \/ Recovering(p) \/ Failing(p)
          PROVE  proc'[q] = proc[q] \/ Acted(q)
      <4>1. Acted(p)
        BY <1>0, <3>1, LandingActed, SettlingActed, RecoveringActed, FailingActed
      <4> QED BY <4>1 DEF Acted, OthersStay
    <3>2. ASSUME Others \/ Git \/ Approve \/ Expire PROVE proc' = proc
      BY <3>2 DEF Others, PlanVerb, Git, Approve, Expire
    <3> QED BY <3>1, <3>2 DEF Next
  <2>2. CASE proc'[q] = proc[q]
    BY <1>0, <2>2, DoneStays DEF Before, GrantsKnown, GrantsGrow
  <2>3. CASE Acted(q) BY <2>3 DEF Acted
  <2> QED BY <2>1, <2>2, <2>3
<1>2. GrantsKnown'
  <2>1. ASSUME NEW i \in DOMAIN journal' PROVE journal'[i].grant \in {0} \cup DOMAIN grants'
    <3>1. CASE i \in DOMAIN journal
      BY <1>0, <3>1 DEF Before, GrantsKnown, JournalGrows, GrantsGrow
    <3>2. CASE i \notin DOMAIN journal
      BY <1>0, <3>2, JournalStep DEF Before, GrantsKnown, GrantsGrow
    <3> QED BY <3>1, <3>2
  <2> QED BY <1>1, <2>1 DEF GrantsKnown
<1>3. CompleteMeansRecorded'
  <2>1. SUFFICES ASSUME NEW i \in DOMAIN journal', "complete" \in journal'[i].ended
                 PROVE  /\ i \in lineage' /\ i \in closed' /\ GrantIn(i, {"consumed"})'
                        /\ Applied(i)'
    BY DEF CompleteMeansRecorded, Applied
  <2>2. i \in DOMAIN journal BY <1>0, <2>1, JournalStep DEF Before, GrantsKnown
  <2>3. /\ i \in lineage /\ i \in closed /\ GrantIn(i, {"consumed"}) /\ Applied(i)
    <3>1. CASE "complete" \in journal[i].ended
      BY <2>2, <3>1 DEF RecordInv, CompleteMeansRecorded, Applied
    <3>2. ASSUME NEW p \in Runners, proc[p].id = i,
                 \/ proc[p].pc = "complete" /\ proc[p].ok
                 \/ proc[p].pc = "recClose"
          PROVE  i \in lineage /\ i \in closed /\ GrantIn(i, {"consumed"}) /\ Applied(i)
      BY <1>0, <3>2
      DEF Before, Done, HasApplied, HasSettled, HasRecorded, HasFinished, Applied
    <3> QED BY <1>0, <2>1, <2>2, <3>1, <3>2, JournalStep
  <2> QED BY <1>0, <2>2, <2>3, IntentKeeps DEF Before
<1> QED BY <1>0, <1>1, <1>2, <1>3, TreeStep, DoneStep DEF RecordInv

\* Nothing happens.
LEMMA RecordStutters == ASSUME RecordInv, UNCHANGED vars PROVE RecordInv'
BY DEF RecordInv, vars, GrantsKnown, TreeExplained, DoneNamed, Done, HasIntent, HasApplied,
       HasSettled, HasRecorded, HasFinished, Applied, Mine, GrantIn, CompleteMeansRecorded

\* A landing that the journal calls complete has its lineage row, its done
\* receipt and its consumed approval, and its patch went into the tree: for any
\* number of processes, landings, approvals, kills and failed writes.
THEOREM CompleteCorrect == Spec => []CompleteMeansRecorded
<1>1. Init => RecordInv BY RecordInit
<1>2. TypeOK /\ RecordInv /\ [Next]_vars => RecordInv' BY RecordStep, RecordStutters
<1>3. RecordInv => CompleteMeansRecorded BY DEF RecordInv
<1> QED BY <1>1, <1>2, <1>3, LandingTypeCorrect, PTL DEF Spec

-----------------------------------------------------------------------------
(* The landings lock.                                                      *)

\* One process at a time is past the lock.
LockHeld == \A p \in Runners : proc[p].pc \notin {"idle", "lock"} => lock = p

Acts(p) == Landing(p) \/ Settling(p) \/ Recovering(p) \/ Failing(p)

\* While one process is past the lock, another one gets to the lock at most.
LEMMA AtTheDoor ==
  ASSUME TypeOK, LockHeld, NEW p \in Runners, NEW q \in Runners, p # q,
         proc[q].pc \notin {"idle", "lock"}, Acts(p)
  PROVE  /\ UNCHANGED <<row, frozen, tree, journal, grants, lineage, lock, landed, closed>>
         /\ proc'[q] = proc[q]
<1>1. lock = q /\ proc[p].pc \in {"idle", "lock"} BY DEF LockHeld
<1>2. lock # NoOne BY <1>1, NoOneAssumption
<1>3. Snapshot(p) \/ Lock(p)
  <2>1. Landing(p) => Snapshot(p) \/ Lock(p)
    BY <1>1 DEF Landing, Refuse, Admit, Fence, Reserve, Apply, ApplyRefused, Consume,
       Record, Finish, Complete
  <2>2. ~Settling(p)
    BY <1>1 DEF Settling, SettleGrant, SettleShow, SettleRelease, SettleClose
  <2>3. ~Recovering(p)
    BY <1>1, <1>2 DEF Recovering, Recover, Decide, Supersede, RecFinish, RecLineage,
       RecGrant, RecClose
  <2>4. ~Failing(p) BY <1>1 DEF Failing, WriteFails, Kill, KillInApply
  <2> QED BY <2>1, <2>2, <2>3, <2>4 DEF Acts
<1>4. CASE Snapshot(p) BY <1>4 DEF Snapshot, TypeOK
<1>5. CASE Lock(p)
  <2>1. lock' = lock /\ proc' = [proc EXCEPT ![p] = Idle] BY <1>2, <1>5 DEF Lock
  <2> QED BY <1>5, <2>1 DEF Lock, TypeOK
<1> QED BY <1>3, <1>4, <1>5

\* Leaving frees the lock; going on with the next intent keeps it.
LEMMA LeaveFrees ==
  ASSUME TypeOK, NEW p \in Runners, Exit(p) \/ NextIntent(p)
  PROVE  \/ proc'[p] = Idle /\ lock' = NoOne
         \/ /\ proc'[p].pc = "decide" /\ ~proc'[p].keep
            /\ lock' = lock
<1>1. CASE Exit(p) BY <1>1 DEF Exit, TypeOK
<1>2. CASE NextIntent(p) /\ ~Exit(p)
  <2> DEFINE n == [Idle EXCEPT !.pc = "decide", !.recover = TRUE, !.id = proc[p].id + 1]
  <2>1. proc' = [proc EXCEPT ![p] = n] /\ lock' = lock BY <1>2 DEF NextIntent
  <2>2. n.pc = "decide" /\ n.keep = FALSE BY DEF Idle
  <2> HIDE DEF n
  <2>3. proc'[p] = n BY <2>1 DEF TypeOK
  <2> QED BY <2>1, <2>2, <2>3
<1> QED BY <1>1, <1>2

\* The acting process is past the lock only as its holder.
LEMMA ActsLock ==
  ASSUME TypeOK, LockHeld, NEW p \in Runners, Acts(p)
  PROVE  /\ \A q \in Runners \ {p} : proc'[q] = proc[q]
         /\ proc'[p].pc \notin {"idle", "lock"} => lock' = p
<1> DEFINE Kept == \A q \in Runners \ {p} : proc'[q] = proc[q]
           Goal == Kept /\ (proc'[p].pc \notin {"idle", "lock"} => lock' = p)
<1>0. proc[p] \in Process BY DEF TypeOK
<1>1. ASSUME Exit(p) \/ NextIntent(p), proc[p].pc \notin {"idle", "lock"} PROVE Goal
  <2>1. Kept BY <1>1, LeaveMoves DEF Left, OthersStay
  <2>2. lock = p BY <1>1 DEF LockHeld
  <2>3. Idle.pc = "idle" BY DEF Idle
  <2> QED BY <1>1, <2>1, <2>2, <2>3, LeaveFrees
<1>2. ASSUME NEW pc \in Pcs, NEW ok \in BOOLEAN, Go(p, pc) \/ GoOk(p, pc, ok),
             lock' = lock, proc[p].pc \notin {"idle", "lock"}
      PROVE  Goal
  <2>1. Kept BY <1>2, GoMoves, GoOkMoves DEF Moved, OthersStay
  <2> QED BY <1>2, <2>1 DEF LockHeld
<1>3. CASE Landing(p)
  <2>1. CASE Snapshot(p)
    <3>1. PICK s : proc' = [proc EXCEPT ![p] = [proc[p] EXCEPT !.pc = "lock", !.seen = s]]
      BY <2>1 DEF Snapshot, TypeOK
    <3> QED BY <1>0, <3>1 DEF TypeOK, Process
  <2>2. CASE Lock(p)
    <3>1. Idle.pc = "idle" BY DEF Idle
    <3>2. \/ proc' = [proc EXCEPT ![p] = Idle]
          \/ /\ lock' = p
             /\ \E s : proc' = [proc EXCEPT ![p] = [proc[p] EXCEPT !.pc = "admit", !.seen = s]]
      BY <2>2 DEF Lock, TypeOK
    <3> QED BY <1>0, <3>1, <3>2 DEF TypeOK, Process
  <2>3. CASE Admit(p)
    <3>1. \E n : proc' = [proc EXCEPT ![p] = [proc[p] EXCEPT !.pc = "fence", !.id = n]]
      BY <2>3 DEF Admit, TypeOK
    <3>2. lock' = lock /\ lock = p BY <2>3 DEF Admit, LockHeld
    <3> QED BY <1>0, <3>1, <3>2 DEF TypeOK, Process
  <2>4. CASE Fence(p)
    <3>1. \E pc : \/ proc' = [proc EXCEPT ![p] = [proc[p] EXCEPT !.pc = pc]]
                  \/ proc' = [proc EXCEPT ![p] = [proc[p] EXCEPT !.pc = pc, !.keep = TRUE]]
      BY <2>4 DEF Fence
    <3>2. lock' = lock /\ lock = p BY <2>4 DEF Fence, LockHeld
    <3> QED BY <1>0, <3>1, <3>2 DEF TypeOK, Process
  <2>5. CASE Refuse(p) \/ Complete(p) BY <1>1, <2>5 DEF Refuse, Complete
  <2>6. CASE Reserve(p) \/ Apply(p) \/ ApplyRefused(p) \/ Consume(p) \/ Record(p) \/ Finish(p)
    <3>1. \E pc \in Pcs : Go(p, pc) \/ \E ok \in BOOLEAN : GoOk(p, pc, ok)
      BY <2>6 DEF Reserve, Apply, ApplyRefused, Consume, Record, Finish, CanFinishLanding,
         CanFinish, Pcs, LandPcs, SettlePcs
    <3>2. lock' = lock /\ proc[p].pc \notin {"idle", "lock"}
      BY <2>6 DEF Reserve, Apply, ApplyRefused, Consume, Record, Finish
    <3> QED BY <1>2, <3>1, <3>2
  <2> QED BY <1>3, <2>1, <2>2, <2>3, <2>4, <2>5, <2>6 DEF Landing
<1>4. CASE Settling(p)
  <2>1. CASE SettleClose(p) BY <1>1, <2>1 DEF SettleClose
  <2>2. CASE SettleGrant(p) \/ SettleShow(p) \/ SettleRelease(p)
    <3>1. \E pc \in Pcs : Go(p, pc) \/ \E ok \in BOOLEAN : GoOk(p, pc, ok)
      BY <2>2 DEF SettleGrant, SettleShow, SettleRelease, CanRelease, Pcs, SettlePcs
    <3>2. lock' = lock /\ proc[p].pc \notin {"idle", "lock"}
      BY <2>2 DEF SettleGrant, SettleShow, SettleRelease
    <3> QED BY <1>2, <3>1, <3>2
  <2> QED BY <1>4, <2>1, <2>2 DEF Settling
<1>5. CASE Recovering(p)
  <2>1. CASE Recover(p)
    <3>1. proc' = [proc EXCEPT ![p] = [proc[p] EXCEPT !.pc = "decide", !.recover = TRUE,
                                                      !.id = 1]]
      BY <2>1 DEF Recover, TypeOK
    <3> QED BY <2>1, <3>1 DEF Recover, TypeOK
  <2>2. CASE NextIntent(p) BY <1>1, <1>5, <2>1, <2>2
    DEF Recovering, Decide, Supersede, RecFinish, RecLineage, RecGrant, RecClose
  <2>3. CASE ~Recover(p) /\ ~NextIntent(p)
    <3>1. \E pc \in Pcs : Go(p, pc) \/ \E ok \in BOOLEAN : GoOk(p, pc, ok)
      BY <1>5, <2>3 DEF Recovering, Decide, Supersede, RecFinish, RecLineage, RecGrant,
         RecClose, Go, GrantDropped, GrantIn, Pcs, SettlePcs, RecoverPcs
    <3>2. lock' = lock /\ proc[p].pc \notin {"idle", "lock"}
      BY <1>5, <2>3 DEF Recovering, Decide, Supersede, RecFinish, RecLineage, RecGrant,
         RecClose
    <3> QED BY <1>2, <3>1, <3>2
  <2> QED BY <2>1, <2>2, <2>3
<1>6. CASE Failing(p)
  <2>1. CASE Kill(p) \/ KillInApply(p)
    <3>1. Exit(p) BY <2>1 DEF Kill, KillInApply
    <3>2. Kept BY <3>1, LeaveMoves DEF Left, OthersStay
    <3>3. proc'[p] = Idle BY <3>1 DEF Exit, TypeOK
    <3> QED BY <3>2, <3>3 DEF Idle
  <2>2. CASE WriteFails(p)
    <3>1. \/ NextIntent(p) \/ Exit(p)
          \/ (\E pc \in Pcs : GoOk(p, pc, FALSE)) /\ lock' = lock
      BY <2>2 DEF WriteFails, Pcs, LandPcs, SettlePcs
    <3>2. proc[p].pc \notin {"idle", "lock"} BY <2>2 DEF WriteFails
    <3> QED BY <1>1, <1>2, <3>1, <3>2
  <2> QED BY <1>6, <2>1, <2>2 DEF Failing
<1> QED BY <1>3, <1>4, <1>5, <1>6 DEF Acts

\* Everybody else leaves the processes alone.
LEMMA RestLeavesProcesses ==
  ASSUME Others \/ Git \/ Approve \/ Expire
  PROVE  UNCHANGED <<journal, lineage, lock, proc, landed, closed>>
BY DEF Others, PlanVerb, Git, Approve, Expire

\* The lock is held by one process at a time, through every death.
LEMMA LockStep == ASSUME TypeOK, LockHeld, Next PROVE LockHeld'
<1>1. CASE Others \/ Git \/ Approve \/ Expire
  BY <1>1, RestLeavesProcesses DEF LockHeld
<1>2. ASSUME NEW p \in Runners, Acts(p) PROVE LockHeld'
  <2>1. SUFFICES ASSUME NEW q \in Runners, proc'[q].pc \notin {"idle", "lock"} PROVE lock' = q
    BY DEF LockHeld
  <2>2. CASE q = p BY <1>2, <2>1, <2>2, ActsLock
  <2>3. CASE q # p
    <3>1. proc'[q] = proc[q] BY <1>2, <2>3, ActsLock
    <3>2. lock' = lock BY <1>2, <2>1, <2>3, <3>1, AtTheDoor
    <3> QED BY <2>1, <3>1, <3>2 DEF LockHeld
  <2> QED BY <2>2, <2>3
<1> QED BY <1>1, <1>2 DEF Next, Acts

-----------------------------------------------------------------------------
(* The approvals, one step.                                                *)

\* Approval g gets state s and stays otherwise as it is.
GrantMove(g, s) ==
  /\ g \in DOMAIN grants
  /\ grants' = [grants EXCEPT ![g] = [grants[g] EXCEPT !.state = s]]

\* Who reserves an approval, and who settles a reservation how.
GrantSteps ==
  \/ grants' = grants
  \/ Approve
  \/ Expire
  \/ \E p \in Runners :
       /\ Reserve(p) /\ Go(p, "apply")
       /\ grants[proc[p].seen.grant].state = "approved" /\ ~grants[proc[p].seen.grant].late
       /\ GrantMove(proc[p].seen.grant, "consuming")
  \/ \E p \in Runners, g \in DOMAIN grants :
       /\ grants[g].state = "consuming" /\ GrantMove(g, "consumed")
       /\ \/ proc[p].pc = "consume" /\ g = proc[p].seen.grant
          \/ proc[p].pc = "recGrant" /\ g = Mine(p).grant
  \/ \E p \in Runners, g \in DOMAIN grants :
       /\ grants[g].state = "consuming" /\ GrantMove(g, "failed")
       /\ proc[p].pc \in {"settleGrant", "superseded"}

\* Nothing else happens to an approval, whoever dies and whatever is retried.
LEMMA GrantsStep == ASSUME TypeOK, RecordInv, Next PROVE GrantSteps
<1>0. \A p \in Runners : Done(p) /\ proc[p].seen.grant \in {0} \cup DOMAIN grants
  BY DEF RecordInv, GrantsKnown
<1>1. ASSUME NEW p \in Runners, proc[p].pc \in SettlePcs \cup RecoverPcs
      PROVE  Mine(p).grant \in {0} \cup DOMAIN grants
  <2>1. proc[p].id \in DOMAIN journal
    BY <1>0, <1>1 DEF Done, HasIntent, SettlePcs, RecoverPcs
  <2> QED BY <2>1 DEF RecordInv, GrantsKnown, Mine
<1>2. ASSUME NEW p \in Runners, Landing(p) PROVE GrantSteps
  <2>1. CASE Reserve(p)
    <3>1. proc[p].seen.grant \in DOMAIN grants
      BY <1>0, <2>1 DEF Reserve, Done, HasApplied
    <3>2. grants' # grants =>
            /\ Go(p, "apply")
            /\ grants[proc[p].seen.grant].state = "approved"
            /\ ~grants[proc[p].seen.grant].late
            /\ grants' = [grants EXCEPT ![proc[p].seen.grant].state = "consuming"]
      BY <2>1 DEF Reserve
    <3> QED BY <2>1, <3>1, <3>2 DEF GrantSteps, GrantMove
  <2>2. CASE Consume(p)
    <3>1. PICK g : g = proc[p].seen.grant OBVIOUS
    <3>2. g \in DOMAIN grants BY <1>0, <2>2, <3>1 DEF Consume, Done, HasApplied
    <3>3. grants' # grants =>
            /\ grants[g].state = "consuming"
            /\ grants' = [grants EXCEPT ![g].state = "consumed"]
      BY <2>2, <3>1 DEF Consume
    <3>4. proc[p].pc = "consume" BY <2>2 DEF Consume
    <3> QED BY <3>1, <3>2, <3>3, <3>4 DEF GrantSteps, GrantMove
  <2> QED BY <1>2, <2>1, <2>2 DEF Landing, Snapshot, Lock, Refuse, Admit, Fence, Apply,
             ApplyRefused, Record, Finish, Complete, GrantSteps
<1>3. ASSUME NEW p \in Runners, NEW g, NEW s \in {"consumed", "failed"},
             g = Mine(p).grant, g # 0, grants[g].state = "consuming",
             grants' = [grants EXCEPT ![g].state = s],
             \/ s = "consumed" /\ proc[p].pc = "recGrant"
             \/ s = "failed" /\ proc[p].pc \in {"settleGrant", "superseded"}
      PROVE  GrantSteps
  <2>1. g \in DOMAIN grants BY <1>1, <1>3 DEF SettlePcs, RecoverPcs
  <2> QED BY <1>3, <2>1 DEF GrantSteps, GrantMove
<1>4. ASSUME NEW p \in Runners, Settling(p) PROVE GrantSteps
  <2>1. CASE SettleGrant(p)
    <3>1. PICK g : g = Mine(p).grant OBVIOUS
    <3>2. \/ grants' = grants
          \/ /\ g # 0 /\ grants[g].state = "consuming"
             /\ grants' = [grants EXCEPT ![g].state = "failed"]
      BY <2>1, <3>1 DEF SettleGrant
    <3>3. proc[p].pc = "settleGrant" BY <2>1 DEF SettleGrant
    <3>4. grants' = grants => GrantSteps BY DEF GrantSteps
    <3> QED BY <1>3, <3>1, <3>2, <3>3, <3>4
  <2> QED BY <1>4, <2>1 DEF Settling, SettleShow, SettleRelease, SettleClose, GrantSteps
<1>5. ASSUME NEW p \in Runners, Recovering(p) PROVE GrantSteps
  <2>0. grants' = grants => GrantSteps BY DEF GrantSteps
  <2>1. CASE Supersede(p)
    <3>1. PICK g : g = Mine(p).grant OBVIOUS
    <3>2. \/ grants' = grants
          \/ /\ g # 0 /\ grants[g].state = "consuming"
             /\ grants' = [grants EXCEPT ![g].state = "failed"]
      BY <2>1, <3>1 DEF Supersede, Mine, GrantDropped, GrantIn
    <3>3. proc[p].pc = "superseded" BY <2>1 DEF Supersede
    <3> QED BY <1>3, <2>0, <3>1, <3>2, <3>3
  <2>2. CASE RecGrant(p)
    <3>1. PICK g : g = Mine(p).grant OBVIOUS
    <3>2. \/ grants' = grants
          \/ /\ g # 0 /\ grants[g].state = "consuming"
             /\ grants' = [grants EXCEPT ![g].state = "consumed"]
      BY <2>2, <3>1 DEF RecGrant
    <3>3. proc[p].pc = "recGrant" BY <2>2 DEF RecGrant
    <3> QED BY <1>3, <2>0, <3>1, <3>2, <3>3
  <2> QED BY <1>5, <2>0, <2>1, <2>2 DEF Recovering, Recover, Decide, RecFinish, RecLineage,
             RecClose
<1>6. ASSUME NEW p \in Runners, Failing(p) PROVE GrantSteps
  BY <1>6 DEF Failing, WriteFails, Kill, KillInApply, GrantSteps
<1>7. ASSUME Others \/ Git \/ Approve \/ Expire PROVE GrantSteps
  BY <1>7 DEF Others, PlanVerb, Git, GrantSteps
<1> QED BY <1>2, <1>4, <1>5, <1>6, <1>7 DEF Next

\* One state of one approval changes.
LEMMA GrantMoved ==
  ASSUME TypeOK, NEW g, NEW s \in GrantStates, GrantMove(g, s)
  PROVE  /\ DOMAIN grants' = DOMAIN grants
         /\ \A k \in DOMAIN grants :
              /\ grants'[k].state = IF k = g THEN s ELSE grants[k].state
              /\ grants'[k].patch = grants[k].patch /\ grants'[k].late = grants[k].late
<1>1. grants \in [1 .. Len(grants) -> Grant] BY LenProperties DEF TypeOK
<1>2. grants[g] \in Grant BY <1>1 DEF GrantMove
<1>3. /\ [grants[g] EXCEPT !.state = s].state = s
      /\ [grants[g] EXCEPT !.state = s].patch = grants[g].patch
      /\ [grants[g] EXCEPT !.state = s].late = grants[g].late
  BY <1>2 DEF Grant
<1> QED BY <1>1, <1>3 DEF GrantMove

\* An unused approval runs out, or what has run out is recorded.
LEMMA GrantExpires ==
  ASSUME TypeOK, Expire
  PROVE  \E g \in DOMAIN grants :
           /\ grants[g].state = "approved" /\ DOMAIN grants' = DOMAIN grants
           /\ \A k \in DOMAIN grants :
                /\ grants'[k].patch = grants[k].patch
                /\ k # g => grants'[k] = grants[k]
           /\ \/ grants[g].late /\ grants'[g].state = "expired" /\ grants'[g].late
              \/ ~grants[g].late /\ grants'[g].state = "approved" /\ grants'[g].late
<1>1. PICK g \in DOMAIN grants :
        /\ grants[g].state = "approved"
        /\ grants' = IF grants[g].late THEN [grants EXCEPT ![g] = [grants[g] EXCEPT !.state = "expired"]]
                     ELSE [grants EXCEPT ![g] = [grants[g] EXCEPT !.late = TRUE]]
  BY DEF Expire
<1>2. grants \in [1 .. Len(grants) -> Grant] BY LenProperties DEF TypeOK
<1>3. grants[g] \in Grant BY <1>2
<1>4. /\ [grants[g] EXCEPT !.state = "expired"].state = "expired"
      /\ [grants[g] EXCEPT !.state = "expired"].late = grants[g].late
      /\ [grants[g] EXCEPT !.state = "expired"].patch = grants[g].patch
      /\ [grants[g] EXCEPT !.late = TRUE].state = grants[g].state
      /\ [grants[g] EXCEPT !.late = TRUE].late
      /\ [grants[g] EXCEPT !.late = TRUE].patch = grants[g].patch
  BY <1>3 DEF Grant
<1>5. DOMAIN grants' = DOMAIN grants BY <1>1, <1>2
<1>6. ASSUME NEW k \in DOMAIN grants
      PROVE  /\ grants'[k].patch = grants[k].patch
             /\ k # g => grants'[k] = grants[k]
  BY <1>1, <1>2, <1>4, <1>6
<1>7. \/ grants[g].late /\ grants'[g].state = "expired" /\ grants'[g].late
      \/ ~grants[g].late /\ grants'[g].state = "approved" /\ grants'[g].late
  BY <1>1, <1>2, <1>4
<1> QED BY <1>1, <1>5, <1>6, <1>7

\* A new approval goes behind the others.
LEMMA GrantGiven ==
  ASSUME TypeOK, Approve
  PROVE  /\ DOMAIN grants = 1 .. Len(grants) /\ Len(grants) \in Nat
         /\ DOMAIN grants' = 1 .. Len(grants) + 1 /\ Len(grants) < MaxGrants
         /\ \A k \in DOMAIN grants : grants'[k] = grants[k]
         /\ grants'[Len(grants) + 1].state = "approved"
         /\ ~grants'[Len(grants) + 1].late
<1>1. grants \in Seq(Grant) /\ Len(grants) \in Nat /\ DOMAIN grants = 1 .. Len(grants)
  BY LenProperties DEF TypeOK
<1> DEFINE v == [state |-> "approved", patch |-> row.patch, lease |-> row.lease,
                 base |-> tree.head, late |-> FALSE]
<1>2. v \in Grant /\ v.state = "approved" /\ ~v.late
  BY DEF Grant, GrantStates, TypeOK, Row, Tree
<1>3. grants' = Append(grants, v) /\ Len(grants) < MaxGrants BY DEF Approve
<1> HIDE DEF v
<1> QED BY <1>1, <1>2, <1>3

-----------------------------------------------------------------------------
(* One approval, one patch in the tree.  An approval that let a patch in   *)
(* was reserved for it under the lock and is never approved again, and a   *)
(* process about to apply has reserved an approval nobody landed with.     *)

\* The approval of an intent is for its patch.
GrantNames(x) == x.grant # 0 => grants[x.grant].patch = x.patch

OwnPcs == {"fence", "reserve", "apply", "consume", "record", "finish", "complete"}

HasReserved(p) ==
  /\ proc[p].pc \in {"admit"} \cup OwnPcs => GrantNames(proc[p].seen)
  /\ proc[p].pc = "apply" /\ proc[p].seen.grant # 0 =>
       /\ grants[proc[p].seen.grant].state = "consuming"
       /\ \A k \in landed : journal[k].grant # proc[p].seen.grant

UseInv ==
  /\ LockHeld
  /\ \A i \in DOMAIN journal : GrantNames(journal[i])
  /\ \A k \in landed : journal[k].grant # 0 => grants[journal[k].grant].state # "approved"
  /\ \A p \in Runners : HasReserved(p)
  /\ OneApplyPerGrant

\* No step changes what an approval is for, or approves it again.
GrantsKept ==
  \A g \in DOMAIN grants : /\ g \in DOMAIN grants'
                           /\ grants'[g].patch = grants[g].patch
                           /\ grants[g].state # "approved" => grants'[g].state # "approved"

LEMMA GrantsAreKept == ASSUME TypeOK, RecordInv, Next PROVE GrantsKept
<1>1. CASE grants' = grants BY <1>1 DEF GrantsKept
<1>2. CASE Approve BY <1>2, GrantGiven DEF GrantsKept
<1>3. CASE Expire BY <1>3, GrantExpires DEF GrantsKept
<1>4. ASSUME NEW g \in DOMAIN grants, NEW s \in {"consuming", "consumed", "failed"},
             GrantMove(g, s)
      PROVE  GrantsKept
  <2>1. s \in GrantStates BY DEF GrantStates
  <2> QED BY <1>4, <2>1, GrantMoved DEF GrantsKept
<1> QED BY <1>1, <1>2, <1>3, <1>4, GrantsStep DEF GrantSteps, GrantMove

\* The tree takes a patch from the process at `apply`, whose own step it is.
LEMMA LandedStep ==
  ASSUME Next
  PROVE  \/ landed' = landed
         \/ \E p \in Runners : /\ proc[p].pc = "apply" /\ landed' = landed \cup {proc[p].id}
                               /\ journal' = journal /\ grants' = grants
<1> DEFINE Goal == \/ landed' = landed
                   \/ \E p \in Runners : /\ proc[p].pc = "apply"
                                         /\ landed' = landed \cup {proc[p].id}
                                         /\ journal' = journal /\ grants' = grants
<1>1. ASSUME NEW p \in Runners, Landing(p) PROVE Goal
  BY <1>1 DEF Landing, Snapshot, Lock, Refuse, Admit, Fence, Reserve, Apply, ApplyRefused,
     Consume, Record, Finish, Complete
<1>2. ASSUME NEW p \in Runners, Settling(p) PROVE Goal
  BY <1>2 DEF Settling, SettleGrant, SettleShow, SettleRelease, SettleClose
<1>3. ASSUME NEW p \in Runners, Recovering(p) PROVE Goal
  BY <1>3 DEF Recovering, Recover, Decide, Supersede, RecFinish, RecLineage, RecGrant, RecClose
<1>4. ASSUME NEW p \in Runners, Failing(p) PROVE Goal
  BY <1>4 DEF Failing, WriteFails, Kill, KillInApply
<1>5. CASE Others \/ Git \/ Approve \/ Expire BY <1>5, RestLeavesProcesses
<1> QED BY <1>1, <1>2, <1>3, <1>4, <1>5 DEF Next

\* What the acting process takes along: the intent it has seen, from the check
\* of its approval on, and nothing when it leaves.
LEMMA SeenStep ==
  ASSUME TypeOK, NEW p \in Runners, Acts(p)
  PROVE  \/ proc'[p].pc \notin {"admit"} \cup OwnPcs
         \/ /\ Lock(p) /\ proc'[p].pc = "admit"
            /\ proc'[p].seen.grant = proc[p].seen.grant
            /\ proc'[p].seen.patch = proc[p].seen.patch
            /\ Approves(proc[p].seen.grant, proc[p].seen)
         \/ /\ proc[p].pc \in {"admit"} \cup OwnPcs /\ proc'[p].seen = proc[p].seen
            /\ proc'[p].pc = "apply" =>
                 \/ Fence(p) /\ proc[p].seen.grant = 0
                 \/ Reserve(p) /\ grants[proc[p].seen.grant].state = "approved"
<1> DEFINE Here == proc[p].pc \in {"admit"} \cup OwnPcs
           Gone == proc'[p].pc \notin {"admit"} \cup OwnPcs
           Same == proc'[p].seen = proc[p].seen
           Ready == proc'[p].pc = "apply" =>
                      \/ Fence(p) /\ proc[p].seen.grant = 0
                      \/ Reserve(p) /\ grants[proc[p].seen.grant].state = "approved"
<1>0. proc[p] \in Process BY DEF TypeOK
<1>1. Left(p) => Gone BY DEF Left, OwnPcs
<1>2. ASSUME Exit(p) \/ NextIntent(p) PROVE Gone BY <1>1, <1>2, LeaveMoves
<1>3. ASSUME NEW pc \in Pcs, NEW ok \in BOOLEAN, Go(p, pc) \/ GoOk(p, pc, ok)
      PROVE  proc'[p].pc = pc /\ Same
  BY <1>3, GoMoves, GoOkMoves DEF Moved
<1>4. CASE Snapshot(p)
  <2>1. PICK s : proc' = [proc EXCEPT ![p] = [proc[p] EXCEPT !.pc = "lock", !.seen = s]]
    BY <1>4 DEF Snapshot, TypeOK
  <2>2. proc'[p].pc = "lock" BY <1>0, <2>1 DEF TypeOK, Process
  <2> QED BY <2>2 DEF OwnPcs
<1>5. CASE Lock(p)
  <2>1. CASE proc' = [proc EXCEPT ![p] = Idle]
    <3>1. proc'[p].pc = "idle" BY <2>1 DEF TypeOK, Idle
    <3> QED BY <3>1 DEF OwnPcs
  <2>2. CASE proc' # [proc EXCEPT ![p] = Idle]
    <3> DEFINE s == [proc[p].seen EXCEPT !.base = tree.head]
    <3>1. /\ Approves(proc[p].seen.grant, proc[p].seen)
          /\ proc' = [proc EXCEPT ![p] = [proc[p] EXCEPT !.pc = "admit", !.seen = s]]
      BY <1>5, <2>2 DEF Lock
    <3>2. s.grant = proc[p].seen.grant /\ s.patch = proc[p].seen.patch
      BY <1>0 DEF Process, Intent
    <3> HIDE DEF s
    <3>3. proc'[p].pc = "admit" /\ proc'[p].seen = s BY <1>0, <3>1 DEF TypeOK, Process
    <3> QED BY <1>5, <3>1, <3>2, <3>3
  <2> QED BY <2>1, <2>2
<1>6. CASE Admit(p)
  <2>1. PICK n : proc' = [proc EXCEPT ![p] = [proc[p] EXCEPT !.pc = "fence", !.id = n]]
    BY <1>6 DEF Admit, TypeOK
  <2>2. proc'[p].pc = "fence" /\ Same BY <1>0, <2>1 DEF TypeOK, Process
  <2> QED BY <1>6, <2>2 DEF Admit, OwnPcs
<1>7. CASE Fence(p)
  <2>1. \/ proc' = [proc EXCEPT ![p] = [proc[p] EXCEPT !.pc = "settleGrant", !.keep = TRUE]]
        \/ proc' = [proc EXCEPT ![p] = [proc[p] EXCEPT !.pc = "apply"]]
           /\ proc[p].seen.grant = 0
        \/ proc' = [proc EXCEPT ![p] = [proc[p] EXCEPT !.pc = "reserve"]]
    BY <1>7 DEF Fence
  <2>2. Same /\ (proc'[p].pc = "apply" => proc[p].seen.grant = 0)
    BY <1>0, <2>1, ZenonT(60) DEF TypeOK, Process
  <2> QED BY <1>7, <2>2 DEF Fence, OwnPcs
<1>8. CASE Reserve(p)
  <2>1. \/ Go(p, "apply") /\ grants[proc[p].seen.grant].state = "approved"
        \/ Go(p, "settleGrant")
    BY <1>8 DEF Reserve
  <2>2. /\ proc'[p].pc = "apply" \/ proc'[p].pc = "settleGrant"
        /\ Same
    BY <2>1, GoMoves DEF Moved, Pcs, LandPcs, SettlePcs
  <2>3. proc'[p].pc = "apply" => grants[proc[p].seen.grant].state = "approved"
    BY <2>1, GoMoves DEF Moved, Pcs, SettlePcs
  <2> QED BY <1>8, <2>2, <2>3 DEF Reserve, OwnPcs
<1>9. CASE Apply(p) \/ ApplyRefused(p) \/ Consume(p) \/ Record(p) \/ Finish(p)
  <2>1. PICK pc \in {"record", "consume", "settleGrant", "finish", "complete"} :
          Go(p, pc) \/ \E ok \in BOOLEAN : GoOk(p, pc, ok)
    BY <1>9 DEF Apply, ApplyRefused, Consume, Record, Finish, CanFinishLanding, CanFinish
  <2>2. proc'[p].pc = pc /\ Same
    <3>1. pc \in Pcs BY DEF Pcs, LandPcs, SettlePcs
    <3> QED BY <1>3, <2>1, <3>1
  <2> QED BY <1>9, <2>2 DEF Apply, ApplyRefused, Consume, Record, Finish, OwnPcs
<1>10. CASE Refuse(p) \/ Complete(p) BY <1>2, <1>10 DEF Refuse, Complete
<1>11. CASE Settling(p) \/ Recovering(p)
  <2>1. CASE Recover(p)
    <3>1. proc' = [proc EXCEPT ![p] = [proc[p] EXCEPT !.pc = "decide", !.recover = TRUE,
                                                      !.id = 1]]
      BY <2>1 DEF Recover, TypeOK
    <3>2. proc'[p].pc = "decide" BY <1>0, <3>1 DEF TypeOK, Process
    <3> QED BY <3>2 DEF OwnPcs
  <2>2. CASE ~Recover(p) /\ ~NextIntent(p)
    <3>1. PICK pc \in SettlePcs \cup RecoverPcs :
            Go(p, pc) \/ \E ok \in BOOLEAN : GoOk(p, pc, ok)
      BY <1>11, <2>2 DEF Settling, SettleGrant, SettleShow, SettleRelease, SettleClose,
         CanRelease, Recovering, Decide, Supersede, RecFinish, RecLineage, RecGrant, RecClose,
         Go, GrantDropped, GrantIn, SettlePcs, RecoverPcs
    <3>2. proc'[p].pc = pc BY <1>3, <3>1 DEF Pcs
    <3> QED BY <3>2 DEF OwnPcs, SettlePcs, RecoverPcs
  <2> QED BY <1>2, <2>1, <2>2
<1>12. CASE Failing(p)
  <2>1. CASE Exit(p) \/ NextIntent(p) BY <1>2, <2>1
  <2>2. CASE WriteFails(p) /\ ~Exit(p) /\ ~NextIntent(p)
    <3>1. PICK pc \in {"record", "finish", "complete", "settleShow", "settleClose"} :
            /\ GoOk(p, pc, FALSE)
            /\ pc \in {"record", "finish", "complete"} => Here
      BY <2>2 DEF WriteFails, OwnPcs
    <3>2. proc'[p].pc = pc /\ Same
      <4>1. pc \in Pcs BY DEF Pcs, LandPcs, SettlePcs
      <4> QED BY <1>3, <3>1, <4>1
    <3> QED BY <3>1, <3>2 DEF OwnPcs
  <2> QED BY <1>12, <2>1, <2>2 DEF Failing, Kill, KillInApply
<1> QED BY <1>4, <1>5, <1>6, <1>7, <1>8, <1>9, <1>10, <1>11, <1>12 DEF Acts, Landing

\* A process that has checked its approval, or reserved it, keeps it so.
LEMMA ReservedStays ==
  ASSUME TypeOK, RecordInv, UseInv, Next, GrantsKept, NEW q \in Runners,
         proc'[q] = proc[q], proc[q].pc \in {"admit"} \cup OwnPcs, landed' = landed,
         GrantsGrow, JournalGrows
  PROVE  HasReserved(q)'
<1>1. proc[q].seen.grant \in {0} \cup DOMAIN grants BY DEF RecordInv, GrantsKnown
<1>2. GrantNames(proc[q].seen)' BY <1>1 DEF UseInv, HasReserved, GrantNames, GrantsKept
<1>3. ASSUME proc[q].pc = "apply", proc[q].seen.grant # 0
      PROVE  /\ grants'[proc[q].seen.grant].state = "consuming"
             /\ \A k \in landed : journal'[k].grant # proc[q].seen.grant
  <2>1. PICK g \in DOMAIN grants : g = proc[q].seen.grant BY <1>1, <1>3
  <2>2. /\ grants[g].state = "consuming"
        /\ \A k \in landed : journal[k].grant # g
    BY <1>3, <2>1 DEF UseInv, HasReserved
  <2>3. lock = q BY <1>3 DEF UseInv, LockHeld
  <2>4. grants'[g].state = "consuming"
    <3>1. CASE grants' = grants BY <2>2, <3>1
    <3>2. CASE Approve BY <2>2, <3>2, GrantGiven
    <3>3. CASE Expire BY <2>2, <3>3, GrantExpires
    <3>4. ASSUME NEW p \in Runners, NEW h \in DOMAIN grants,
                 NEW s \in {"consuming", "consumed", "failed"}, GrantMove(h, s),
                 proc[p].pc \in {"reserve", "consume", "recGrant", "settleGrant", "superseded"}
          PROVE  FALSE
      <4>1. p # q BY <1>3, <3>4
      <4> QED BY <2>3, <3>4, <4>1 DEF UseInv, LockHeld
    <3> QED BY <2>1, <3>1, <3>2, <3>3, <3>4, GrantsStep DEF GrantSteps, GrantMove, Reserve
  <2>5. \A k \in landed : journal'[k].grant # g
    BY <2>2 DEF RecordInv, TreeExplained, JournalGrows
  <2> QED BY <2>1, <2>4, <2>5
<1> QED BY <1>2, <1>3 DEF HasReserved

\* The process that acts: it names the approval it has checked, and reserves
\* one that is approved and so has let nothing in.
LEMMA ReservedActs ==
  ASSUME TypeOK, RecordInv, UseInv, Next, GrantsKept, JournalGrows,
         NEW p \in Runners, Acts(p)
  PROVE  HasReserved(p)'
<1>1. proc[p].seen.grant \in {0} \cup DOMAIN grants BY DEF RecordInv, GrantsKnown
<1>2. CASE proc'[p].pc \notin {"admit"} \cup OwnPcs
  <2>1. proc'[p].pc # "apply" BY <1>2 DEF OwnPcs
  <2> QED BY <1>2, <2>1 DEF HasReserved
<1>3. CASE /\ Lock(p) /\ proc'[p].pc = "admit"
           /\ proc'[p].seen.grant = proc[p].seen.grant
           /\ proc'[p].seen.patch = proc[p].seen.patch
           /\ Approves(proc[p].seen.grant, proc[p].seen)
  <2>1. GrantNames(proc[p].seen) BY <1>3 DEF Approves, GrantNames
  <2>2. GrantNames(proc[p].seen)' BY <1>1, <1>3, <2>1 DEF GrantNames, GrantsKept
  <2> QED BY <1>3, <2>2 DEF HasReserved, GrantNames
<1>4. CASE /\ proc[p].pc \in {"admit"} \cup OwnPcs /\ proc'[p].seen = proc[p].seen
           /\ proc'[p].pc = "apply" =>
                \/ Fence(p) /\ proc[p].seen.grant = 0
                \/ Reserve(p) /\ grants[proc[p].seen.grant].state = "approved"
  <2>1. GrantNames(proc[p].seen) BY <1>4 DEF UseInv, HasReserved
  <2>2. GrantNames(proc[p].seen)' BY <1>1, <1>4, <2>1 DEF GrantNames, GrantsKept
  <2>3. ASSUME proc'[p].pc = "apply", proc'[p].seen.grant # 0
        PROVE  /\ grants'[proc'[p].seen.grant].state = "consuming"
               /\ \A k \in landed' : journal'[k].grant # proc'[p].seen.grant
    <3>1. PICK g \in DOMAIN grants : g = proc[p].seen.grant /\ g = proc'[p].seen.grant
      BY <1>1, <1>4, <2>3
    <3>2. Reserve(p) /\ grants[g].state = "approved" BY <1>4, <2>3, <3>1
    <3>3. \A k \in landed : journal[k].grant # g
      <4>1. g # 0 BY <2>3, <3>1
      <4> QED BY <3>2, <4>1 DEF UseInv
    <3>4. landed' = landed /\ journal' = journal BY <3>2 DEF Reserve
    <3>5. grants' = [grants EXCEPT ![g] = [grants[g] EXCEPT !.state = "consuming"]]
      <4>1. "settleGrant" # "apply" OBVIOUS
      <4>2. Go(p, "settleGrant") => proc'[p].pc = "settleGrant"
        BY GoMoves DEF Moved, Pcs, SettlePcs
      <4> QED BY <2>3, <3>1, <3>2, <4>1, <4>2 DEF Reserve
    <3>6. GrantMove(g, "consuming") BY <3>5 DEF GrantMove
    <3>7. "consuming" \in GrantStates BY DEF GrantStates
    <3>8. grants'[g].state = "consuming" BY <3>6, <3>7, GrantMoved
    <3> QED BY <3>1, <3>3, <3>4, <3>8
  <2> QED BY <2>2, <2>3 DEF HasReserved, GrantNames
<1> QED BY <1>2, <1>3, <1>4, SeenStep

\* Every step keeps the approvals and the tree in step.
LEMMA UseStep == ASSUME TypeOK, RecordInv, UseInv, Next PROVE UseInv'
<1>0. GrantsKept /\ JournalGrows /\ GrantsGrow /\ GrantsKnown /\ TreeExplained
  BY GrantsAreKept, JournalAndGrantsGrow DEF RecordInv
<1>1. LockHeld' BY LockStep DEF UseInv
<1>2. ASSUME NEW i \in DOMAIN journal' PROVE GrantNames(journal[i])'
  <2>1. CASE i \in DOMAIN journal
    <3>1. GrantNames(journal[i]) /\ journal[i].grant \in {0} \cup DOMAIN grants
      BY <1>0, <2>1 DEF UseInv, GrantsKnown
    <3> QED BY <1>0, <2>1, <3>1 DEF GrantNames, JournalGrows, GrantsKept
  <2>2. CASE i \notin DOMAIN journal
    <3>1. Before BY <1>0, HistoryStep DEF Before, RecordInv
    <3>2. PICK p \in Runners : proc[p].pc = "admit" /\ journal'[i] = proc[p].seen
      BY <1>2, <2>2, <3>1, JournalStep
    <3>3. GrantNames(proc[p].seen) /\ proc[p].seen.grant \in {0} \cup DOMAIN grants
      BY <1>0, <3>2 DEF UseInv, HasReserved, GrantsKnown
    <3> QED BY <1>0, <3>2, <3>3 DEF GrantNames, GrantsKept
  <2> QED BY <2>1, <2>2
<1>3. ASSUME NEW k \in landed', journal'[k].grant # 0
      PROVE  grants'[journal'[k].grant].state # "approved"
  <2>1. CASE k \in landed
    <3>1. k \in DOMAIN journal BY <1>0, <2>1 DEF TreeExplained
    <3>2. journal'[k].grant = journal[k].grant BY <1>0, <3>1 DEF JournalGrows
    <3>3. journal[k].grant \in DOMAIN grants BY <1>0, <1>3, <3>1, <3>2 DEF GrantsKnown
    <3>4. grants[journal[k].grant].state # "approved" BY <1>3, <2>1, <3>2 DEF UseInv
    <3> QED BY <1>0, <3>2, <3>3, <3>4 DEF GrantsKept
  <2>2. CASE k \notin landed
    <3>1. PICK p \in Runners : /\ proc[p].pc = "apply" /\ k = proc[p].id
                               /\ journal' = journal /\ grants' = grants
      BY <1>3, <2>2, LandedStep
    <3>2. journal[k].grant = proc[p].seen.grant
      BY <3>1 DEF RecordInv, Done, HasIntent, Mine
    <3> QED BY <1>3, <3>1, <3>2 DEF UseInv, HasReserved
  <2> QED BY <2>1, <2>2
<1>4. ASSUME NEW q \in Runners PROVE HasReserved(q)'
  <2>1. CASE proc[q].pc \notin {"admit"} \cup OwnPcs /\ proc'[q] = proc[q]
    <3>1. proc'[q].pc # "apply" BY <2>1 DEF OwnPcs
    <3> QED BY <2>1, <3>1 DEF HasReserved
  <2>2. CASE Others \/ Git \/ Approve \/ Expire
    BY <1>0, <2>1, <2>2, RestLeavesProcesses, ReservedStays
  <2>3. ASSUME NEW p \in Runners, Acts(p) PROVE HasReserved(q)'
    <3>1. CASE q = p BY <1>0, <2>3, <3>1, ReservedActs
    <3>2. CASE q # p /\ proc[q].pc \in {"admit"} \cup OwnPcs
      <4>1. proc[q].pc \notin {"idle", "lock"} BY <3>2 DEF OwnPcs
      <4>2. landed' = landed /\ proc'[q] = proc[q]
        BY <2>3, <3>2, <4>1, AtTheDoor DEF UseInv
      <4> QED BY <1>0, <3>2, <4>2, ReservedStays
    <3>3. CASE q # p /\ proc[q].pc \notin {"admit"} \cup OwnPcs
      BY <2>1, <2>3, <3>3, ActsLock DEF UseInv
    <3> QED BY <3>1, <3>2, <3>3
  <2> QED BY <2>2, <2>3 DEF Next, Acts
<1>5. ASSUME NEW i \in landed', NEW k \in landed', journal'[i].grant # 0,
             journal'[i].grant = journal'[k].grant
      PROVE  i = k
  <2>1. CASE i \in landed /\ k \in landed
    <3>1. i \in DOMAIN journal /\ k \in DOMAIN journal BY <1>0, <2>1 DEF TreeExplained
    <3>2. journal[i].grant # 0 /\ journal[i].grant = journal[k].grant
      BY <1>0, <1>5, <3>1 DEF JournalGrows
    <3> QED BY <2>1, <3>2 DEF UseInv, OneApplyPerGrant
  <2>2. CASE ~(i \in landed /\ k \in landed)
    <3>1. PICK p \in Runners : /\ proc[p].pc = "apply" /\ landed' = landed \cup {proc[p].id}
                               /\ journal' = journal
      BY <1>5, <2>2, LandedStep
    <3>2. journal[proc[p].id].grant = proc[p].seen.grant
      BY <3>1 DEF RecordInv, Done, HasIntent, Mine
    <3>3. proc[p].seen.grant # 0 => \A j \in landed : journal[j].grant # proc[p].seen.grant
      BY <3>1 DEF UseInv, HasReserved
    <3> QED BY <1>5, <2>2, <3>1, <3>2, <3>3
  <2> QED BY <2>1, <2>2
<1>6. ASSUME NEW g \in DOMAIN grants', grants'[g].state = "consumed"
      PROVE  \E k \in landed' : journal'[k].patch = grants'[g].patch
  <2>1. HistoryGrows BY HistoryStep
  <2>2. ASSUME g \in DOMAIN grants, NEW k \in landed, journal[k].patch = grants[g].patch
        PROVE  \E j \in landed' : journal'[j].patch = grants'[g].patch
    <3>1. k \in DOMAIN journal BY <1>0 DEF TreeExplained
    <3>2. journal'[k].patch = journal[k].patch BY <1>0, <3>1 DEF JournalGrows
    <3>3. grants'[g].patch = grants[g].patch BY <1>0, <2>2 DEF GrantsKept
    <3> QED BY <2>1, <2>2, <3>2, <3>3 DEF HistoryGrows
  <2>3. CASE g \in DOMAIN grants /\ grants[g].state = "consumed"
    BY <2>2, <2>3 DEF UseInv, OneApplyPerGrant
  <2>4. CASE Approve BY <1>6, <2>3, <2>4, GrantGiven
  <2>5. CASE Expire BY <1>6, <2>3, <2>5, GrantExpires
  <2>6. ASSUME NEW h \in DOMAIN grants, NEW s \in {"consuming", "failed"}, GrantMove(h, s)
        PROVE  g \in DOMAIN grants /\ grants[g].state = "consumed"
    <3>1. s \in GrantStates BY DEF GrantStates
    <3> QED BY <1>6, <2>6, <3>1, GrantMoved
  <2>7. ASSUME NEW p \in Runners, NEW h \in DOMAIN grants, GrantMove(h, "consumed"),
               \/ proc[p].pc = "consume" /\ h = proc[p].seen.grant
               \/ proc[p].pc = "recGrant" /\ h = Mine(p).grant
        PROVE  \E k \in landed' : journal'[k].patch = grants'[g].patch
    <3>1. "consumed" \in GrantStates BY DEF GrantStates
    <3>2. g \in DOMAIN grants /\ (g # h => grants[g].state = "consumed")
      BY <1>6, <2>7, <3>1, GrantMoved
    <3>3. CASE g # h BY <2>3, <3>2, <3>3
    <3>4. h # 0 BY LenProperties DEF TypeOK
    <3>5. CASE g = h /\ proc[p].pc = "consume"
      <4>1. proc[p].id \in landed /\ journal[proc[p].id].patch = proc[p].seen.patch
        BY <3>5 DEF RecordInv, Done, HasIntent, HasApplied, Mine
      <4>2. grants[g].patch = proc[p].seen.patch
        BY <2>7, <3>4, <3>5 DEF UseInv, HasReserved, OwnPcs, GrantNames
      <4> QED BY <2>2, <3>2, <4>1, <4>2
    <3>6. CASE g = h /\ proc[p].pc = "recGrant"
      <4>1. proc[p].id \in DOMAIN journal /\ Applied(proc[p].id)
        BY <3>6 DEF RecordInv, Done, HasIntent, HasApplied
      <4>2. grants[g].patch = journal[proc[p].id].patch
        BY <2>7, <3>4, <3>6, <4>1 DEF UseInv, GrantNames, Mine
      <4> QED BY <2>2, <3>2, <4>1, <4>2 DEF Applied
    <3> QED BY <2>7, <3>3, <3>5, <3>6
  <2>8. CASE grants' = grants BY <1>6, <2>3, <2>8
  <2> QED BY <2>3, <2>4, <2>5, <2>6, <2>7, <2>8, GrantsStep DEF GrantSteps, GrantMove
<1>7. OneApplyPerGrant' BY <1>5, <1>6 DEF OneApplyPerGrant
<1> QED BY <1>1, <1>2, <1>3, <1>4, <1>7 DEF UseInv

\* Before the first approval.
LEMMA UseInit == Init => UseInv
<1> SUFFICES ASSUME Init PROVE UseInv OBVIOUS
<1>1. /\ journal = << >> /\ landed = {} /\ grants = << >>
      /\ \A p \in Runners : proc[p] = Idle
  BY DEF Init
<1>2. Idle.pc = "idle" BY DEF Idle
<1> QED BY <1>1, <1>2 DEF UseInv, LockHeld, HasReserved, OwnPcs, OneApplyPerGrant

\* An approval lets one patch into the tree once, and is consumed only if it
\* did, for any number of processes, approvals, kills and retries.
THEOREM OneApplyCorrect == Spec => []OneApplyPerGrant
<1>1. Init => RecordInv /\ UseInv BY RecordInit, UseInit
<1>2. UseInv /\ UNCHANGED vars => UseInv'
  BY DEF UseInv, vars, LockHeld, HasReserved, GrantNames, OneApplyPerGrant
<1>3. TypeOK /\ RecordInv /\ UseInv /\ [Next]_vars => RecordInv' /\ UseInv'
  BY <1>2, RecordStep, RecordStutters, UseStep
<1>4. UseInv => OneApplyPerGrant BY DEF UseInv
<1> QED BY <1>1, <1>3, <1>4, LandingTypeCorrect, PTL DEF Spec

-----------------------------------------------------------------------------
(* The approvals as the inbox sees them.                                   *)

InboxRow(state, late) == [state |-> state, late |-> late]

\* An approval runs out.
LEMMA LateRow ==
  ASSUME NEW x, x = InboxRow("approved", FALSE)
  PROVE  [x EXCEPT !.late = TRUE] = InboxRow("approved", TRUE) /\ x.late = FALSE
<1>1. PICK b : b = TRUE OBVIOUS
<1>2. [x EXCEPT !.late = b] = InboxRow("approved", b) BY DEF InboxRow
<1>3. x.late = FALSE BY DEF InboxRow
<1> QED BY <1>1, <1>2, <1>3

\* What the inbox shows of one approval.
LEMMA InboxShows ==
  ASSUME NEW g \in 1 .. MaxGrants
  PROVE  /\ g \in DOMAIN grants => InboxOf[g] = InboxRow(grants[g].state, grants[g].late)
         /\ g \notin DOMAIN grants => InboxOf[g] = InboxRow("requested", FALSE)
         /\ g \in DOMAIN grants' => InboxOf'[g] = InboxRow(grants'[g].state, grants'[g].late)
         /\ g \notin DOMAIN grants' => InboxOf'[g] = InboxRow("requested", FALSE)
BY DEF InboxOf, InboxRow

\* A step that shows one approval otherwise shows the others as before.
LEMMA InboxChanges ==
  ASSUME NEW g \in 1 .. MaxGrants,
         \A h \in 1 .. MaxGrants : h # g => InboxOf'[h] = InboxOf[h]
  PROVE  InboxOf' = [InboxOf EXCEPT ![g] = InboxOf'[g]]
<1>1. InboxOf = [h \in 1 .. MaxGrants |-> InboxOf[h]] BY DEF InboxOf
<1>2. InboxOf' = [h \in 1 .. MaxGrants |-> InboxOf'[h]] BY DEF InboxOf
<1> HIDE DEF InboxOf
<1> DEFINE f == InboxOf
           e == InboxOf'
<1>3. f = [h \in 1 .. MaxGrants |-> f[h]] /\ e = [h \in 1 .. MaxGrants |-> e[h]]
  BY <1>1, <1>2
<1>4. \A h \in 1 .. MaxGrants : h # g => e[h] = f[h] OBVIOUS
<1> HIDE DEF f, e
<1>5. e = [f EXCEPT ![g] = e[g]] BY <1>3, <1>4
<1> QED BY <1>5 DEF f, e

\* The life of one approval, as a move of the inbox.
LEMMA InboxMove ==
  ASSUME NEW g \in 1 .. MaxGrants, NEW from, NEW to, NEW late \in BOOLEAN,
         \A h \in 1 .. MaxGrants : h # g => InboxOf'[h] = InboxOf[h],
         InboxOf[g] = InboxRow(from, late), InboxOf'[g] = InboxRow(to, late),
         from \in {"requested", "approved", "consuming"}, to \in Inbox!Moves[from]
  PROVE  Inbox!Move(g, to)
<1>1. InboxOf[g].state = from /\ from \in DOMAIN Inbox!Moves BY DEF InboxRow, Inbox!Moves
<1>2. InboxOf' = [InboxOf EXCEPT ![g] = InboxRow(to, late)] BY InboxChanges
<1>3. [InboxOf[g] EXCEPT !.state = to] = InboxRow(to, late) BY DEF InboxRow
<1>4. InboxOf' = [InboxOf EXCEPT ![g] = [InboxOf[g] EXCEPT !.state = to]]
  BY <1>2, <1>3
<1> HIDE DEF InboxOf
<1> QED BY <1>1, <1>4 DEF Inbox!Move

\* Every step moves one approval as the inbox allows, or none.
LEMMA InboxStep ==
  ASSUME TypeOK, RecordInv, Len(grants) <= MaxGrants, [Next]_vars
  PROVE  [Inbox!Next]_InboxOf
<1>0. /\ Len(grants) \in Nat /\ DOMAIN grants = 1 .. Len(grants)
      /\ DOMAIN grants \subseteq 1 .. MaxGrants
      /\ \A g \in DOMAIN grants : grants[g].late \in BOOLEAN
  <2>1. grants \in Seq(Grant) BY DEF TypeOK
  <2>2. Len(grants) \in Nat /\ DOMAIN grants = 1 .. Len(grants) BY <2>1, LenProperties
  <2>3. MaxGrants \in Nat BY LandingConstants
  <2>4. \A g \in DOMAIN grants : grants[g] \in Grant BY <2>1
  <2> QED BY <2>2, <2>3, <2>4 DEF Grant
<1>1. CASE grants' = grants
  <2>1. InboxOf' = InboxOf BY <1>1 DEF InboxOf
  <2> QED BY <2>1
<1>2. ASSUME NEW g \in DOMAIN grants, NEW s \in {"consuming", "consumed", "failed"},
             GrantMove(g, s), s \in Inbox!Moves[grants[g].state],
             grants[g].state \in {"approved", "consuming"}
      PROVE  Inbox!Move(g, s) /\ InboxOf[g] = InboxRow(grants[g].state, grants[g].late)
  <2>1. s \in GrantStates BY DEF GrantStates
  <2>2. /\ DOMAIN grants' = DOMAIN grants
        /\ \A k \in DOMAIN grants :
             /\ grants'[k].state = IF k = g THEN s ELSE grants[k].state
             /\ grants'[k].late = grants[k].late
    BY <1>2, <2>1, GrantMoved
  <2>3. g \in 1 .. MaxGrants BY <1>0
  <2>4. ASSUME NEW h \in 1 .. MaxGrants, h # g PROVE InboxOf'[h] = InboxOf[h]
    BY <2>2, <2>4, InboxShows
  <2>5. /\ InboxOf[g] = InboxRow(grants[g].state, grants[g].late)
        /\ InboxOf'[g] = InboxRow(s, grants[g].late)
    BY <2>2, <2>3, InboxShows
  <2>6. grants[g].late \in BOOLEAN BY <1>0
  <2> HIDE DEF InboxOf
  <2> QED BY <1>2, <2>3, <2>4, <2>5, <2>6, InboxMove
<1>3. CASE Approve
  <2> DEFINE g == Len(grants) + 1
  <2>1. /\ DOMAIN grants' = 1 .. Len(grants) + 1 /\ Len(grants) < MaxGrants
        /\ \A k \in DOMAIN grants : grants'[k] = grants[k]
        /\ grants'[g].state = "approved" /\ ~grants'[g].late
    BY <1>3, GrantGiven
  <2>2. g \in 1 .. MaxGrants /\ g \notin DOMAIN grants /\ g \in DOMAIN grants'
    BY <1>0, <2>1, LandingConstants
  <2>3. InboxOf[g] = InboxRow("requested", FALSE) BY <2>2, InboxShows
  <2>4. InboxOf'[g] = InboxRow("approved", FALSE)
    <3>1. grants' \in Seq(Grant) BY <1>3, OthersTyped DEF TypeOK
    <3>2. grants'[g] \in Grant BY <2>2, <3>1
    <3>3. grants'[g].late = FALSE BY <2>1, <3>2 DEF Grant
    <3> QED BY <2>1, <2>2, <3>3, InboxShows
  <2>5. ASSUME NEW h \in 1 .. MaxGrants, h # g PROVE InboxOf'[h] = InboxOf[h]
    <3>1. h \in DOMAIN grants <=> h \in DOMAIN grants' BY <1>0, <2>1, <2>5
    <3> QED BY <2>1, <3>1, InboxShows
  <2>6. "approved" \in Inbox!Moves["requested"] BY DEF Inbox!Moves
  <2> HIDE DEF g, InboxOf
  <2>7. Inbox!Move(g, "approved") BY <2>2, <2>3, <2>4, <2>5, <2>6, InboxMove
  <2>8. Inbox!Usable(g) BY <2>3 DEF Inbox!Usable, InboxRow
  <2> QED BY <2>2, <2>7, <2>8 DEF Inbox!Next, Inbox!Decide
<1>4. CASE Expire
  <2>1. PICK g \in DOMAIN grants :
           /\ grants[g].state = "approved" /\ DOMAIN grants' = DOMAIN grants
           /\ \A k \in DOMAIN grants : k # g => grants'[k] = grants[k]
           /\ \/ grants[g].late /\ grants'[g].state = "expired" /\ grants'[g].late
              \/ ~grants[g].late /\ grants'[g].state = "approved" /\ grants'[g].late
    BY <1>4, GrantExpires
  <2>2. g \in 1 .. MaxGrants BY <1>0
  <2>3. ASSUME NEW h \in 1 .. MaxGrants, h # g PROVE InboxOf'[h] = InboxOf[h]
    BY <2>1, <2>3, InboxShows
  <2>4. InboxOf[g] = InboxRow("approved", grants[g].late) BY <2>1, <2>2, InboxShows
  <2>5. InboxOf'[g] = InboxRow(grants'[g].state, TRUE)
    <3>1. grants' \in Seq(Grant) BY <1>4, OthersTyped DEF TypeOK
    <3>2. grants'[g] \in Grant BY <2>1, <3>1
    <3>3. grants'[g].late = TRUE BY <2>1, <3>2 DEF Grant
    <3> QED BY <2>1, <2>2, <3>3, InboxShows
  <2>6. grants[g].late \in BOOLEAN BY <1>0
  <2> HIDE DEF InboxOf
  <2>7. CASE grants[g].late
    <3>1. InboxOf[g] = InboxRow("approved", TRUE) BY <2>4, <2>6, <2>7
    <3>2. InboxOf'[g] = InboxRow("expired", TRUE) BY <2>1, <2>5, <2>7
    <3>3. "expired" \in Inbox!Moves["approved"] BY DEF Inbox!Moves
    <3>4. Inbox!Move(g, "expired") BY <2>2, <2>3, <3>1, <3>2, <3>3, InboxMove
    <3>5. ~Inbox!Usable(g) BY <3>1 DEF Inbox!Usable, Inbox!Undecided, InboxRow
    <3> QED BY <2>2, <3>4, <3>5 DEF Inbox!Next, Inbox!Expire
  <2>8. CASE ~grants[g].late
    <3>1. InboxOf[g] = InboxRow("approved", FALSE) BY <2>4, <2>6, <2>8
    <3>2. InboxOf'[g] = InboxRow("approved", TRUE) BY <2>1, <2>5, <2>8
    <3>3. InboxOf' = [InboxOf EXCEPT ![g] = InboxRow("approved", TRUE)]
      BY <2>2, <2>3, <3>2, InboxChanges
    <3>4. [InboxOf[g] EXCEPT !.late = TRUE] = InboxRow("approved", TRUE)
      BY <3>1, LateRow
    <3>5. InboxOf[g].late = FALSE BY <3>1, LateRow
    <3>6. Inbox!RunsOut(g) BY <3>3, <3>4, <3>5 DEF Inbox!RunsOut
    <3> QED BY <2>2, <3>6 DEF Inbox!Next
  <2> QED BY <2>7, <2>8
<1>5. ASSUME NEW p \in Runners,
             grants[proc[p].seen.grant].state = "approved", ~grants[proc[p].seen.grant].late,
             GrantMove(proc[p].seen.grant, "consuming")
      PROVE  Inbox!Next
  <2>1. PICK g \in DOMAIN grants : g = proc[p].seen.grant BY <1>5 DEF GrantMove
  <2>2. "consuming" \in Inbox!Moves["approved"] BY DEF Inbox!Moves
  <2>3. Inbox!Move(g, "consuming") /\ InboxOf[g] = InboxRow("approved", grants[g].late)
    BY <1>2, <1>5, <2>1, <2>2
  <2>4. Inbox!Usable(g) BY <1>5, <2>1, <2>3 DEF Inbox!Usable, InboxRow
  <2> QED BY <1>0, <2>3, <2>4 DEF Inbox!Next, Inbox!BeginConsume
<1>6. ASSUME NEW g \in DOMAIN grants, NEW s \in {"consumed", "failed"},
             grants[g].state = "consuming", GrantMove(g, s)
      PROVE  Inbox!Next
  <2>1. s \in Inbox!Moves["consuming"] BY DEF Inbox!Moves
  <2>2. Inbox!Move(g, s) BY <1>2, <1>6, <2>1
  <2> QED BY <1>0, <1>6, <2>2 DEF Inbox!Next, Inbox!FinishConsume
<1>7. CASE UNCHANGED vars BY <1>1, <1>7 DEF vars
<1> QED BY <1>1, <1>3, <1>4, <1>5, <1>6, <1>7, GrantsStep DEF GrantSteps

\* Approvals beyond the bound are not given.
LEMMA GrantsBounded ==
  ASSUME TypeOK, RecordInv, Len(grants) <= MaxGrants, [Next]_vars
  PROVE  Len(grants') <= MaxGrants
<1>0. grants \in Seq(Grant) /\ grants' \in Seq(Grant) BY TypeStep DEF TypeOK
<1>1. ASSUME DOMAIN grants' = DOMAIN grants PROVE Len(grants') = Len(grants)
  BY <1>0, <1>1, LenProperties
<1>2. CASE Approve
  <2>1. Len(grants) < MaxGrants /\ \E v : grants' = Append(grants, v) BY <1>2 DEF Approve
  <2>2. Len(grants') = Len(grants) + 1
    <3>1. DOMAIN grants' = 1 .. Len(grants) + 1 /\ Len(grants) \in Nat BY <1>2, GrantGiven
    <3>2. DOMAIN grants' = 1 .. Len(grants') /\ Len(grants') \in Nat BY <1>0, LenProperties
    <3> QED BY <3>1, <3>2
  <2> QED BY <1>0, <2>1, <2>2, LandingConstants, LenProperties
<1>3. CASE Expire BY <1>1, <1>3, GrantExpires
<1>4. ASSUME NEW g \in DOMAIN grants, NEW s \in {"consuming", "consumed", "failed"},
             GrantMove(g, s)
      PROVE  Len(grants') <= MaxGrants
  <2>1. s \in GrantStates BY DEF GrantStates
  <2> QED BY <1>1, <1>4, <2>1, GrantMoved
<1>5. CASE UNCHANGED vars BY <1>5 DEF vars
<1> QED BY <1>2, <1>3, <1>4, <1>5, GrantsStep DEF GrantSteps, GrantMove

\* No approval has been given yet.
LEMMA InboxInit == Init => Len(grants) <= MaxGrants /\ Inbox!Init
<1> SUFFICES ASSUME Init PROVE Len(grants) <= MaxGrants /\ Inbox!Init OBVIOUS
<1>1. grants = << >> BY DEF Init
<1>2. InboxOf = [g \in 1 .. MaxGrants |-> [state |-> "requested", late |-> FALSE]]
  BY <1>1 DEF InboxOf
<1>3. Inbox!Init BY <1>2 DEF Inbox!Init
<1>4. Len(grants) <= MaxGrants BY <1>1, LandingConstants
<1> QED BY <1>3, <1>4

\* Landings and recoveries use the approvals as the inbox allows: nothing that
\* ran out is reserved, nothing is reserved or settled twice, nor settled
\* without a reservation, whatever dies and is retried.
THEOREM InboxCorrect == Spec => InboxImplemented
<1> DEFINE Bounded == Len(grants) <= MaxGrants
<1>1. Init => RecordInv /\ Bounded /\ Inbox!Init BY RecordInit, InboxInit
<1>2. TypeOK /\ RecordInv /\ Bounded /\ [Next]_vars =>
        RecordInv' /\ Bounded' /\ [Inbox!Next]_InboxOf
  BY RecordStep, RecordStutters, InboxStep, GrantsBounded
<1> HIDE DEF Bounded
<1> QED BY <1>1, <1>2, LandingTypeCorrect, PTL DEF Spec, InboxImplemented, Inbox!Spec

-----------------------------------------------------------------------------
(* The row, its frozen copies and the tree.  A landing that ends early     *)
(* leaves nothing that the journal does not account for: what a row in     *)
(* review can still become is told by the receipt of its review, and once  *)
(* the row has moved past a receipt it never comes back to it.             *)

\* A lease is the epoch that minted it; from review to done the row names the
\* patch of its lease and round, and no frozen copy before it is done.
RowNamed ==
  /\ row.lease \in {0, row.epoch}
  /\ row.state \in Active \cup {"done"} => row.lease = row.epoch /\ row.epoch # 0
  /\ row.state \in {"review", "landing", "done"} =>
       row.reviewLease = row.lease /\ row.patch = PatchOf(row)
  /\ row.state \in {"review", "landing"} => frozen = 0

\* The receipt of a review, told by its patch.
ReviewReceipt(x) ==
  [evidence |-> [epoch |-> x.lease, lease |-> x.lease, reviewLease |-> x.lease,
                 patch |-> x.patch, repair |-> x.patch.repair],
   path |-> 0, reason |-> FALSE]

Named(x) == /\ x.lease # 0 /\ x.patch.lease = x.lease /\ x.patch.by = NoOne
            /\ x.receipt = ReviewReceipt(x)

\* The row has been in the review of x.
Reached(x) ==
  /\ x.lease <= row.epoch
  /\ x.lease = row.epoch =>
       /\ x.patch.repair <= row.repair
       /\ row.state \in {"claimed", "running"} => x.patch.repair < row.repair

\* The row has left the review of x through the fence.
Passed(x) ==
  x.lease = row.epoch =>
    row.repair = x.patch.repair /\ row.state \notin {"claimed", "running", "review"}

\* The row is in the review of x, or fenced from it.
Live(x) == /\ row.state \in {"review", "landing"}
           /\ row.lease = x.lease /\ row.repair = x.patch.repair

\* What a verb of somebody else, or `release`, does to the row.
RowVerb ==
  \/ row' = row /\ frozen' = frozen
  \/ CanClaim(row) /\ row' = Claimed(row) /\ frozen' = frozen
  \/ CanReview(row, row.lease) /\ row' = Reviewed(row, PatchOf(row)) /\ frozen' = 0
  \/ CanRepair(row, row.lease) /\ row' = Repaired(row) /\ frozen' = frozen
  \/ row' = ClearClaim(row) /\ frozen' = frozen
  \/ row' = Blocked(row) /\ frozen' = frozen

\* The fields each verb changes and those it keeps.
LEMMA VerbFields ==
  ASSUME NEW r \in Row
  PROVE  /\ Claimed(r).state = "claimed" /\ Claimed(r).epoch = r.epoch + 1
         /\ Claimed(r).lease = r.epoch + 1 /\ Claimed(r).repair = r.repair
         /\ Reviewed(r, PatchOf(r)).state = "review"
         /\ Reviewed(r, PatchOf(r)).epoch = r.epoch
         /\ Reviewed(r, PatchOf(r)).lease = r.lease
         /\ Reviewed(r, PatchOf(r)).repair = r.repair
         /\ Reviewed(r, PatchOf(r)).reviewLease = r.lease
         /\ Reviewed(r, PatchOf(r)).patch = PatchOf(r)
         /\ Repaired(r).state = "claimed" /\ Repaired(r).epoch = r.epoch
         /\ Repaired(r).lease = r.lease /\ Repaired(r).repair = 1
         /\ ClearClaim(r).state = "ready" /\ ClearClaim(r).epoch = r.epoch
         /\ ClearClaim(r).lease = 0 /\ ClearClaim(r).repair = r.repair
         /\ Blocked(r).state = "blocked" /\ Blocked(r).epoch = r.epoch
         /\ Blocked(r).lease = r.lease /\ Blocked(r).repair = r.repair
<1>1. /\ Claimed(r).state = "claimed" /\ Claimed(r).epoch = r.epoch + 1
      /\ Claimed(r).lease = r.epoch + 1 /\ Claimed(r).repair = r.repair
  BY DEF Claimed, Row
<1>2. /\ Reviewed(r, PatchOf(r)).state = "review"
      /\ Reviewed(r, PatchOf(r)).epoch = r.epoch
      /\ Reviewed(r, PatchOf(r)).lease = r.lease
      /\ Reviewed(r, PatchOf(r)).repair = r.repair
      /\ Reviewed(r, PatchOf(r)).reviewLease = r.lease
      /\ Reviewed(r, PatchOf(r)).patch = PatchOf(r)
  BY DEF Reviewed, Row
<1>3. /\ Repaired(r).state = "claimed" /\ Repaired(r).epoch = r.epoch
      /\ Repaired(r).lease = r.lease /\ Repaired(r).repair = 1
  BY DEF Repaired, Row
<1>4. /\ ClearClaim(r).state = "ready" /\ ClearClaim(r).epoch = r.epoch
      /\ ClearClaim(r).lease = 0 /\ ClearClaim(r).repair = r.repair
  BY DEF ClearClaim, Row
<1>5. /\ Blocked(r).state = "blocked" /\ Blocked(r).epoch = r.epoch
      /\ Blocked(r).lease = r.lease /\ Blocked(r).repair = r.repair
  BY DEF Blocked, Row
<1> QED BY <1>1, <1>2, <1>3, <1>4, <1>5

\* The fence and the finish change the state alone.
LEMMA LandFields ==
  ASSUME NEW r \in Row
  PROVE  /\ Fenced(r).state = "landing" /\ Finished(r).state = "done"
         /\ \A s \in {Fenced(r), Finished(r)} :
              /\ s.epoch = r.epoch /\ s.lease = r.lease /\ s.reviewLease = r.reviewLease
              /\ s.patch = r.patch /\ s.repair = r.repair
BY DEF Fenced, Finished, Row

\* What is known of a row that a step leaves.
RowGoes ==
  /\ RowNamed'
  /\ \A x \in Intent :
       /\ Named(x) /\ Reached(x) => Reached(x)'
       /\ Reached(x) /\ Passed(x) => Passed(x)'
       /\ Named(x) /\ Reached(x) /\ ~Live(x) => ~Live(x)'

\* A row that is in landing or done after a verb was so before, unchanged.
LEMMA VerbGoes ==
  ASSUME TypeOK, RowNamed, RowVerb
  PROVE  /\ RowGoes
         /\ row'.state \in {"landing", "done"} => row' = row /\ frozen' = frozen
         /\ row.state = "landing" => row'.state # "review"
<1>0. /\ row \in Row /\ row.epoch \in Nat /\ row.lease \in Nat /\ row.repair \in {0, 1}
      /\ \A x \in Intent : x.lease \in Nat /\ x.patch.repair \in {0, 1}
  BY DEF TypeOK, Row, Intent, Patches
<1> DEFINE Goal == /\ RowGoes
                   /\ row'.state \in {"landing", "done"} => row' = row /\ frozen' = frozen
                   /\ row.state = "landing" => row'.state # "review"
<1>1. CASE row' = row /\ frozen' = frozen
  BY <1>1 DEF RowGoes, RowNamed, Reached, Passed, Live, PatchOf
<1>2. CASE CanClaim(row) /\ row' = Claimed(row) /\ frozen' = frozen
  <2>1. /\ row'.state = "claimed" /\ row'.epoch = row.epoch + 1
        /\ row'.lease = row.epoch + 1 /\ row'.repair = row.repair
    BY <1>0, <1>2, VerbFields
  <2>2. RowNamed' BY <1>0, <2>1 DEF RowNamed
  <2>3. ASSUME NEW x \in Intent
        PROVE  (Reached(x) => Reached(x)') /\ (Reached(x) => Passed(x)') /\ ~Live(x)'
    BY <1>0, <2>1 DEF Reached, Passed, Live
  <2>4. RowGoes BY <2>2, <2>3 DEF RowGoes
  <2> QED BY <2>1, <2>4
<1>3. CASE CanReview(row, row.lease) /\ row' = Reviewed(row, PatchOf(row)) /\ frozen' = 0
  <2>1. /\ row'.state = "review" /\ row'.epoch = row.epoch
        /\ row'.lease = row.lease /\ row'.repair = row.repair
        /\ row'.reviewLease = row.lease /\ row'.patch = PatchOf(row)
    BY <1>0, <1>3, VerbFields
  <2>2. row.state \in {"claimed", "running"} BY <1>3 DEF CanReview
  <2>3. RowNamed' BY <1>3, <2>1, <2>2 DEF RowNamed, PatchOf, Active
  <2>4. ASSUME NEW x \in Intent
        PROVE  /\ Reached(x) => Reached(x)'
               /\ Passed(x) => Passed(x)'
               /\ Reached(x) => ~Live(x)'
    BY <1>0, <2>1, <2>2 DEF Reached, Passed, Live, RowNamed, Active
  <2>5. RowGoes BY <2>3, <2>4 DEF RowGoes
  <2> QED BY <2>1, <2>2, <2>5
<1>4. CASE CanRepair(row, row.lease) /\ row' = Repaired(row) /\ frozen' = frozen
  <2>1. /\ row'.state = "claimed" /\ row'.epoch = row.epoch
        /\ row'.lease = row.lease /\ row'.repair = 1
    BY <1>0, <1>4, VerbFields
  <2>2. row.state = "review" /\ row.repair = 0 BY <1>4 DEF CanRepair, NamesReview
  <2>3. RowNamed' BY <2>1, <2>2 DEF RowNamed, Active
  <2>4. ASSUME NEW x \in Intent
        PROVE  /\ Reached(x) => Reached(x)'
               /\ Passed(x) => Passed(x)'
               /\ ~Live(x)'
    BY <1>0, <2>1, <2>2 DEF Reached, Passed, Live
  <2>5. RowGoes BY <2>3, <2>4 DEF RowGoes
  <2> QED BY <2>1, <2>5
<1>5. CASE row' = ClearClaim(row) /\ frozen' = frozen
  <2>1. /\ row'.state = "ready" /\ row'.epoch = row.epoch
        /\ row'.lease = 0 /\ row'.repair = row.repair
    BY <1>0, <1>5, VerbFields
  <2>2. RowNamed' BY <1>0, <2>1 DEF RowNamed, Active
  <2>3. ASSUME NEW x \in Intent
        PROVE  (Reached(x) => Reached(x)') /\ (Passed(x) => Passed(x)') /\ ~Live(x)'
    BY <1>0, <2>1 DEF Reached, Passed, Live
  <2>4. RowGoes BY <2>2, <2>3 DEF RowGoes
  <2> QED BY <2>1, <2>4
<1>6. CASE row' = Blocked(row) /\ frozen' = frozen
  <2>1. /\ row'.state = "blocked" /\ row'.epoch = row.epoch
        /\ row'.lease = row.lease /\ row'.repair = row.repair
    BY <1>0, <1>6, VerbFields
  <2>2. RowNamed' BY <1>0, <2>1 DEF RowNamed, Active
  <2>3. ASSUME NEW x \in Intent
        PROVE  (Reached(x) => Reached(x)') /\ (Passed(x) => Passed(x)') /\ ~Live(x)'
    BY <1>0, <2>1 DEF Reached, Passed, Live
  <2>4. RowGoes BY <2>2, <2>3 DEF RowGoes
  <2> QED BY <2>1, <2>4
<1> QED BY <1>1, <1>2, <1>3, <1>4, <1>5, <1>6 DEF RowVerb

\* So does the fence, and it passes the review it names.
LEMMA FenceGoes ==
  ASSUME TypeOK, RowNamed, row.state = "review", row' = Fenced(row), frozen' = frozen
  PROVE  /\ RowGoes /\ row'.state = "landing"
         /\ Digest(row, frozen)' = Digest(row, frozen)
         /\ \A x \in Intent : Live(x) => Passed(x)'
         /\ \A x \in Intent : Live(x)' => Live(x)
<1>0. /\ row \in Row /\ row.epoch \in Nat /\ row.lease \in Nat /\ row.repair \in {0, 1}
      /\ \A x \in Intent : x.lease \in Nat /\ x.patch.repair \in {0, 1}
  BY DEF TypeOK, Row, Intent, Patches
<1>1. /\ row'.state = "landing" /\ row'.epoch = row.epoch /\ row'.lease = row.lease
      /\ row'.reviewLease = row.reviewLease /\ row'.patch = row.patch
      /\ row'.repair = row.repair
  BY <1>0, LandFields
<1>2. RowNamed' BY <1>1 DEF RowNamed, PatchOf, Active
<1>3. Digest(row, frozen)' = Digest(row, frozen) BY <1>1 DEF Digest, Receipt
<1>4. ASSUME NEW x \in Intent
      PROVE  /\ Reached(x) => Reached(x)'
             /\ Passed(x) => Passed(x)'
             /\ Live(x)' => Live(x)
             /\ Live(x) => Passed(x)'
  BY <1>0, <1>1 DEF Reached, Passed, Live
<1> QED BY <1>1, <1>2, <1>3, <1>4 DEF RowGoes

\* So does the finish, whose receipt is that of the landing row.
LEMMA FinishGoes ==
  ASSUME TypeOK, RowNamed, row.state = "landing", NEW i \in Nat, FinishRow(i)
  PROVE  /\ RowGoes /\ row'.state = "done" /\ frozen' = i /\ row'.patch = row.patch
         /\ Digest(row, frozen)' = [Digest(row, frozen) EXCEPT !.path = i]
<1>0. /\ row \in Row /\ row.epoch \in Nat /\ row.lease \in Nat /\ row.repair \in {0, 1}
      /\ \A x \in Intent : x.lease \in Nat /\ x.patch.repair \in {0, 1}
  BY DEF TypeOK, Row, Intent, Patches
<1>1. row' = Finished(row) /\ frozen' = i BY DEF FinishRow
<1>2. /\ row'.state = "done" /\ row'.epoch = row.epoch /\ row'.lease = row.lease
      /\ row'.reviewLease = row.reviewLease /\ row'.patch = row.patch
      /\ row'.repair = row.repair
  BY <1>0, <1>1, LandFields
<1>3. RowNamed' BY <1>2 DEF RowNamed, PatchOf, Active
<1>4. Digest(row, frozen)' = [Digest(row, frozen) EXCEPT !.path = i]
  BY <1>1, <1>2 DEF Digest, Receipt
<1>5. ASSUME NEW x \in Intent
      PROVE  (Reached(x) => Reached(x)') /\ (Passed(x) => Passed(x)') /\ ~Live(x)'
  BY <1>0, <1>2 DEF Reached, Passed, Live
<1> QED BY <1>1, <1>2, <1>3, <1>4, <1>5 DEF RowGoes

\* The row of a review shows the receipt of its patch and no other.
LEMMA ReviewShows ==
  ASSUME TypeOK, RowNamed, row.state \in {"review", "landing"}
  PROVE  /\ row.lease # 0 /\ row.patch.lease = row.lease /\ row.patch.by = NoOne
         /\ Digest(row, frozen) = ReviewReceipt(row)
         /\ \A x \in Intent : Named(x) =>
              /\ Live(x) <=> Digest(row, frozen) = x.receipt
              /\ Live(x) <=> row.patch = x.patch
              /\ Live(x) => Reached(x)
<1>1. /\ row.lease = row.epoch /\ row.lease # 0 /\ frozen = 0
      /\ row.reviewLease = row.lease /\ row.patch = PatchOf(row)
  BY DEF RowNamed, Active
<1>2. /\ row.patch.lease = row.lease /\ row.patch.by = NoOne
      /\ row.patch.repair = row.repair
  BY <1>1 DEF PatchOf
<1>3. Digest(row, frozen) = ReviewReceipt(row)
  <2>1. PICK s \in {"review", "landing"} : s = row.state OBVIOUS
  <2>2. (s \in {"blocked", "cancelled"}) = FALSE OBVIOUS
  <2>3. Digest(row, frozen) = [evidence |-> Receipt(row), path |-> frozen, reason |-> FALSE]
    BY <2>1, <2>2, Zenon DEF Digest
  <2>4. Receipt(row) = [epoch |-> row.lease, lease |-> row.lease, reviewLease |-> row.lease,
                        patch |-> row.patch, repair |-> row.patch.repair]
    BY <1>1, <1>2 DEF Receipt
  <2> QED BY <1>1, <2>3, <2>4, Zenon DEF ReviewReceipt
<1>4. ASSUME NEW x \in Intent, Named(x)
      PROVE  /\ Live(x) <=> Digest(row, frozen) = x.receipt
             /\ Live(x) <=> row.patch = x.patch
             /\ Live(x) => Reached(x)
  <2>1. x.patch \in Patches /\ x.lease \in Nat /\ row.patch \in Patches
    BY DEF TypeOK, Row, Intent
  <2>2. row.patch = x.patch <=> row.lease = x.lease /\ row.repair = x.patch.repair
    BY <1>2, <1>4, <2>1 DEF Named, Patches
  <2>3. Digest(row, frozen) = x.receipt <=> row.patch = x.patch
    <3>1. x.receipt = ReviewReceipt(x) BY <1>4 DEF Named
    <3>2. ReviewReceipt(row).evidence.patch = row.patch
          /\ ReviewReceipt(x).evidence.patch = x.patch
      BY DEF ReviewReceipt
    <3>3. ASSUME row.patch = x.patch PROVE ReviewReceipt(row) = ReviewReceipt(x)
      <4>1. row.lease = x.lease BY <2>2, <3>3
      <4> QED BY <3>3, <4>1, Zenon DEF ReviewReceipt
    <3> QED BY <1>3, <3>1, <3>2, <3>3
  <2>4. Live(x) => Reached(x)
    BY <1>1, <2>1 DEF Live, Reached, TypeOK, Row, Patches
  <2> QED BY <2>2, <2>3, <2>4 DEF Live
<1> QED BY <1>1, <1>2, <1>3, <1>4

-----------------------------------------------------------------------------
\* The journal accounts for a patch of intent i: open, or applied.
Counted(i) == Open(i) \/ "complete" \in journal[i].ended

OtherOpen(i) ==
  \E j \in DOMAIN journal : j # i /\ Open(j) /\ journal[j].receipt = Digest(row, frozen)
OtherCounted(i) ==
  \E j \in DOMAIN journal : j # i /\ journal[j].patch = journal[i].patch /\ Counted(j)

\* What each process has seen: a review the row has reached, and from the
\* fence on its own open intent.  Only a landing that was not fenced keeps the
\* plan (PRESERVE_PLAN).
SeenNamed(p) ==
  /\ proc[p].pc \in LandPcs \ {"idle"} => Named(proc[p].seen) /\ Reached(proc[p].seen)
  /\ proc[p].pc \in OwnPcs => journal[proc[p].id] = proc[p].seen
  /\ proc[p].pc \in {"reserve", "apply"} => Passed(proc[p].seen)
  /\ proc[p].keep => proc[p].pc \in {"settleGrant", "settleClose"}

\* Until a landing applies, the tree is the one it was admitted against.
Unapplied(p) ==
  proc[p].pc \in {"fence", "reserve", "apply"} \/ proc[p].keep => tree.work = {}

\* The processes on their way to call an intent abandoned, and the one about
\* to try the fence.
Spares(p) ==
  \/ proc[p].pc \in {"fence", "superseded"}
  \/ proc[p].pc = "settleClose" /\ proc[p].ok
  \/ proc[p].keep

\* They leave a landing row and a done one to another intent, and the review
\* they give up is passed unless another landing has fenced it.
Sparing(p) ==
  Spares(p) =>
    /\ row.state = "landing" => OtherOpen(proc[p].id)
    /\ row.state = "done" => frozen # proc[p].id
    /\ proc[p].pc # "fence" /\ Live(journal[proc[p].id]) =>
         proc[p].keep /\ row.state = "landing"

\* Those on their way to call an intent complete find no row in landing, and
\* none that is to be called abandoned is the only one that has its patch in
\* the tree.
Closing(p) ==
  /\ \/ proc[p].pc \in {"recLineage", "recGrant", "recClose"}
     \/ proc[p].pc = "complete" /\ proc[p].ok
     => row.state # "landing"
  /\ proc[p].pc = "recFinish" => "abandoned" \notin journal[proc[p].id].ended
  /\ /\ proc[p].pc \in SettlePcs \cup {"superseded"}
     /\ journal[proc[p].id].patch \in tree.work
     => OtherCounted(proc[p].id)

Careful(p) == SeenNamed(p) /\ Unapplied(p) /\ Sparing(p) /\ Closing(p)

IntentsNamed ==
  /\ \A i \in DOMAIN journal : Named(journal[i]) /\ Reached(journal[i])
  /\ \A k \in landed : Passed(journal[k])

\* A done row is the finish of an intent that is open or complete.
DoneKept ==
  row.state = "done" =>
    /\ frozen \in DOMAIN journal /\ Counted(frozen)
    /\ Digest(row, frozen) = DoneReceipt(frozen)
    /\ \E k \in landed : journal[k].patch = row.patch

\* A review whose intent is abandoned is never landed again: if it is fenced,
\* it is by another landing that died before it applied.
AbandonedStays ==
  \A i \in DOMAIN journal : "abandoned" \in journal[i].ended /\ Live(journal[i]) =>
    /\ row.state = "landing" /\ tree.work = {}
    /\ \A p \in Runners : proc[p].pc \notin {"reserve", "apply"}

Accounts ==
  /\ RowNamed /\ IntentsNamed /\ DoneKept
  /\ tree.committed \subseteq tree.work
  /\ LandingExplained /\ AppliedAccounted

ExplainedInv ==
  /\ LockHeld /\ Accounts /\ AbandonedStays
  /\ \A p \in Runners : Careful(p)

Sound == TypeOK /\ RecordInv /\ ExplainedInv

\* A step that at most moves the row on by a verb, or takes a patch out of the
\* tree.
Calm ==
  /\ journal' = journal /\ landed' = landed /\ RowVerb
  /\ tree'.work \subseteq tree.work /\ tree'.committed \subseteq tree'.work

-----------------------------------------------------------------------------
(* Steps that change nothing the journal accounts for.                     *)

\* They keep the accounts.
LEMMA CalmAccounts == ASSUME Sound, Calm PROVE RowGoes /\ Accounts'
<1>1. /\ RowGoes
      /\ row'.state \in {"landing", "done"} => row' = row /\ frozen' = frozen
  BY VerbGoes DEF Sound, ExplainedInv, Accounts, Calm
<1>2. \A i \in DOMAIN journal : journal[i] \in Intent BY LenProperties DEF Sound, TypeOK
<1>3. landed \subseteq DOMAIN journal BY DEF Sound, RecordInv, TreeExplained
<1>4. IntentsNamed'
  BY <1>1, <1>2, <1>3 DEF Sound, ExplainedInv, Accounts, IntentsNamed, Calm, RowGoes, Named,
     ReviewReceipt
<1>5. DoneKept'
  BY <1>1 DEF Sound, ExplainedInv, Accounts, DoneKept, Calm, Counted, Open, Digest, DoneReceipt
<1>6. LandingExplained'
  BY <1>1 DEF Sound, ExplainedInv, Accounts, LandingExplained, Calm, Open, Digest
<1>7. AppliedAccounted'
  BY DEF Sound, ExplainedInv, Accounts, AppliedAccounted, Calm, Open
<1> QED BY <1>1, <1>4, <1>5, <1>6, <1>7 DEF Accounts, RowGoes, Calm

\* They bring no abandoned review back.
LEMMA CalmAbandoned ==
  ASSUME Sound, Calm,
         \A q \in Runners : proc'[q].pc \in {"reserve", "apply"} =>
           proc[q].pc \in {"reserve", "apply"}
  PROVE  AbandonedStays'
<1>1. RowGoes /\ (row.state = "landing" => row'.state # "review")
  BY VerbGoes DEF Sound, ExplainedInv, Accounts, Calm
<1>2. SUFFICES ASSUME NEW i \in DOMAIN journal, "abandoned" \in journal[i].ended,
                      Live(journal[i])'
               PROVE  /\ row'.state = "landing" /\ tree'.work = {}
                      /\ \A p \in Runners : proc'[p].pc \notin {"reserve", "apply"}
  BY DEF AbandonedStays, Calm
<1>3. journal[i] \in Intent /\ Named(journal[i]) /\ Reached(journal[i])
  BY LenProperties DEF Sound, TypeOK, ExplainedInv, Accounts, IntentsNamed
<1>4. Live(journal[i])
  <2>1. ~Live(journal[i]) => ~Live(journal[i])' BY <1>1, <1>3 DEF RowGoes, Calm, Live
  <2> QED BY <1>2, <2>1
<1>5. /\ row.state = "landing" /\ tree.work = {}
      /\ \A p \in Runners : proc[p].pc \notin {"reserve", "apply"}
  BY <1>2, <1>4 DEF Sound, ExplainedInv, AbandonedStays
<1>6. row'.state = "landing" BY <1>1, <1>2, <1>5 DEF Live
<1> QED BY <1>5, <1>6 DEF Calm

\* A process that does not move stays careful.
LEMMA CalmCareful ==
  ASSUME Sound, Calm, NEW q \in Runners, proc'[q] = proc[q] PROVE Careful(q)'
<1>1. /\ RowGoes
      /\ row'.state \in {"landing", "done"} => row' = row /\ frozen' = frozen
      /\ row.state = "landing" => row'.state # "review"
  BY VerbGoes DEF Sound, ExplainedInv, Accounts, Calm
<1>2. Careful(q) BY DEF Sound, ExplainedInv
<1>3. SeenNamed(q)'
  <2>1. proc[q].seen \in Intent BY DEF Sound, TypeOK, Process
  <2>2. Named(proc[q].seen) => Named(proc[q].seen)' BY DEF Named, ReviewReceipt
  <2>3. proc[q].pc \in {"reserve", "apply"} => proc[q].pc \in LandPcs \ {"idle"}
    BY DEF LandPcs
  <2>4. proc[q].pc \in LandPcs \ {"idle"} => Named(proc[q].seen)' /\ Reached(proc[q].seen)'
    BY <1>1, <1>2, <2>1, <2>2 DEF Careful, SeenNamed, RowGoes, Reached
  <2>5. proc[q].pc \in {"reserve", "apply"} => Passed(proc[q].seen)'
    BY <1>1, <1>2, <2>1, <2>3 DEF Careful, SeenNamed, RowGoes, Passed
  <2> QED BY <1>2, <2>4, <2>5 DEF Careful, SeenNamed, Calm
<1>4. Unapplied(q)' BY <1>2 DEF Careful, Unapplied, Calm
<1>5. ASSUME Spares(q)
      PROVE  /\ row'.state = "landing" => OtherOpen(proc[q].id)'
             /\ row'.state = "done" => frozen' # proc[q].id
             /\ proc[q].pc # "fence" /\ Live(journal[proc[q].id])' =>
                  proc[q].keep /\ row'.state = "landing"
  <2>1. row'.state = "landing" => OtherOpen(proc[q].id)'
    BY <1>1, <1>2, <1>5 DEF Careful, Sparing, OtherOpen, Calm, Open, Digest
  <2>2. row'.state = "done" => frozen' # proc[q].id
    BY <1>1, <1>2, <1>5 DEF Careful, Sparing
  <2>3. ASSUME proc[q].pc # "fence", Live(journal[proc[q].id])'
        PROVE  proc[q].keep /\ row'.state = "landing"
    <3>1. proc[q].id \in DOMAIN journal
      BY <1>2, <1>5, <2>3 DEF Spares, Careful, SeenNamed, Sound, RecordInv, Done, HasIntent
    <3>2. PICK i \in DOMAIN journal : i = proc[q].id BY <3>1
    <3>3. journal[i] \in Intent /\ Named(journal[i]) /\ Reached(journal[i])
      BY LenProperties DEF Sound, TypeOK, ExplainedInv, Accounts, IntentsNamed
    <3>4. ~Live(journal[i]) => ~Live(journal[i])' BY <1>1, <3>3 DEF RowGoes, Calm, Live
    <3>5. Live(journal[i])' BY <2>3, <3>2 DEF Live
    <3>6. proc[q].keep /\ row.state = "landing"
      BY <1>2, <1>5, <2>3, <3>2, <3>4, <3>5 DEF Careful, Sparing
    <3> QED BY <1>1, <3>5, <3>6 DEF Live
  <2> QED BY <2>1, <2>2, <2>3
<1>6. Sparing(q)' BY <1>5 DEF Sparing, Spares, Live
<1>7. Closing(q)'
  BY <1>1, <1>2 DEF Careful, Closing, Calm, OtherCounted, Counted, Open
<1> QED BY <1>3, <1>4, <1>6, <1>7 DEF Careful

\* A process before the lock stays careful whatever the row does.
LEMMA WaitingCareful ==
  ASSUME Sound, RowGoes, NEW q \in Runners, proc'[q] = proc[q],
         proc[q].pc \in {"idle", "lock"}
  PROVE  Careful(q)'
<1>1. SeenNamed(q) /\ ~proc[q].keep
  BY DEF Sound, ExplainedInv, Careful, SeenNamed
<1>2. proc[q].seen \in Intent BY DEF Sound, TypeOK, Process
<1>3. Named(proc[q].seen) => Named(proc[q].seen)' BY DEF Named, ReviewReceipt
<1>4. proc[q].pc = "lock" => Named(proc[q].seen)' /\ Reached(proc[q].seen)'
  BY <1>1, <1>2, <1>3 DEF SeenNamed, LandPcs, RowGoes, Reached
<1>5. SeenNamed(q)' BY <1>1, <1>4 DEF SeenNamed, OwnPcs
<1>6. Unapplied(q)' /\ Sparing(q)' /\ Closing(q)'
  BY <1>1 DEF Unapplied, Sparing, Spares, Closing, SettlePcs
<1> QED BY <1>5, <1>6 DEF Careful

\* So does one that has left its intent.
LEMMA LeftCareful ==
  ASSUME TypeOK, NEW p \in Runners, Exit(p) \/ NextIntent(p) PROVE Careful(p)'
<1>1. proc'[p].pc \in {"idle", "decide"} /\ ~proc'[p].keep
  BY LeaveFrees DEF Idle
<1> QED BY <1>1
  DEF Careful, SeenNamed, Unapplied, Sparing, Spares, Closing, LandPcs, OwnPcs, SettlePcs

-----------------------------------------------------------------------------
(* The steps of the acting process, one at a time.                         *)

\* What each of them keeps; the others are left where they were.
Keeps(p) == RowGoes /\ Accounts' /\ AbandonedStays' /\ Careful(p)'

\* A step that leaves the row, the tree and the journal alone is calm.
LEMMA SteadyCalm ==
  ASSUME Sound, UNCHANGED <<row, frozen, tree, journal, landed>> PROVE Calm
BY DEF Sound, ExplainedInv, Accounts, Calm, RowVerb

\* A calm step keeps what its process is careful of.
LEMMA CalmKeeps ==
  ASSUME Sound, Calm, NEW p \in Runners, OthersStay(p), Careful(p)',
         proc'[p].pc \in {"reserve", "apply"} => proc[p].pc \in {"reserve", "apply"}
  PROVE  Keeps(p)
<1>1. \A q \in Runners : proc'[q].pc \in {"reserve", "apply"} =>
                           proc[q].pc \in {"reserve", "apply"}
  BY DEF OthersStay
<1> QED BY <1>1, CalmAccounts, CalmAbandoned DEF Keeps

\* Leaving the intent, calmly.
LEMMA LeaveKeeps ==
  ASSUME Sound, Calm, NEW p \in Runners, Exit(p) \/ NextIntent(p) PROVE Keeps(p)
<1>0. TypeOK BY DEF Sound
<1>1. OthersStay(p) /\ proc'[p].pc \in {"idle", "decide"} BY <1>0, LeaveMoves DEF Left
<1> QED BY <1>0, <1>1, CalmKeeps, LeftCareful

\* No step but the fence changes whether the plan is kept.
LEMMA KeepMoves ==
  ASSUME TypeOK, NEW p \in Runners, NEW pc \in Pcs, NEW ok \in BOOLEAN,
         Go(p, pc) \/ GoOk(p, pc, ok)
  PROVE  proc'[p].keep = proc[p].keep
<1>1. proc[p] \in Process BY DEF TypeOK
<1>2. CASE Go(p, pc)
  <2>1. proc' = [proc EXCEPT ![p] = [proc[p] EXCEPT !.pc = pc]] BY <1>2 DEF Go
  <2> QED BY <1>1, <2>1 DEF TypeOK, Process
<1>3. CASE GoOk(p, pc, ok)
  <2> DEFINE b == proc[p].ok /\ ok
  <2>1. proc' = [proc EXCEPT ![p] = [proc[p] EXCEPT !.pc = pc, !.ok = b]] BY <1>3 DEF GoOk
  <2> HIDE DEF b
  <2>2. proc'[p] = [proc[p] EXCEPT !.pc = pc, !.ok = b] BY <2>1 DEF TypeOK
  <2> QED BY <1>1, <2>2 DEF Process
<1> QED BY <1>2, <1>3

\* What a process has seen goes with it to the next command.
LEMMA SeenGoes ==
  ASSUME Sound, RowGoes, journal' = journal, NEW p \in Runners, NEW pc, NEW ok \in BOOLEAN,
         Moved(p, pc, ok), proc'[p].keep = proc[p].keep,
         pc \in LandPcs => proc[p].pc \in OwnPcs /\ pc \in OwnPcs,
         pc \in {"reserve", "apply"} => proc[p].pc = "reserve",
         proc[p].keep => pc = "settleClose"
  PROVE  SeenNamed(p)'
<1>0. PICK x \in Intent : x = proc[p].seen BY DEF Sound, TypeOK, Process
<1>1. SeenNamed(p) BY DEF Sound, ExplainedInv, Careful
<1>2. OwnPcs \subseteq LandPcs \ {"idle"} BY DEF OwnPcs, LandPcs
<1>3. /\ proc'[p].pc = pc /\ proc'[p].seen = x /\ proc'[p].id = proc[p].id
  BY <1>0 DEF Moved
<1>4. pc \in LandPcs => Named(x) /\ Reached(x)'
  <2>1. pc \in LandPcs => Named(x) /\ Reached(x) BY <1>0, <1>1, <1>2 DEF SeenNamed
  <2> QED BY <2>1 DEF RowGoes
<1>5. pc \in {"reserve", "apply"} => Passed(x)'
  <2>1. pc \in {"reserve", "apply"} => Reached(x) /\ Passed(x)
    BY <1>0, <1>1, <1>2 DEF SeenNamed, LandPcs
  <2> QED BY <2>1 DEF RowGoes
<1>6. pc \in OwnPcs => journal'[proc'[p].id] = x
  <2>1. pc \in OwnPcs => proc[p].pc \in OwnPcs BY <1>2
  <2> QED BY <1>0, <1>1, <1>3, <2>1 DEF SeenNamed
<1>7. Reached(proc[p].seen)' <=> Reached(x)' BY <1>3 DEF Reached
<1>8. Passed(proc[p].seen)' <=> Passed(x)' BY <1>3 DEF Passed
<1>9. proc'[p].keep => proc'[p].pc \in {"settleGrant", "settleClose"} BY <1>3
<1> QED BY <1>3, <1>4, <1>5, <1>6, <1>7, <1>8, <1>9 DEF SeenNamed

\* A command that leaves everything the journal accounts for alone.
LEMMA MovedKeeps ==
  ASSUME Sound, Calm, NEW p \in Runners, NEW pc \in Pcs, NEW ok \in BOOLEAN,
         Go(p, pc) \/ GoOk(p, pc, ok),
         pc \in LandPcs => proc[p].pc \in OwnPcs /\ pc \in OwnPcs \ {"fence"},
         pc \in {"reserve", "apply"} => proc[p].pc = "reserve",
         proc[p].keep => pc = "settleClose",
         Sparing(p)', Closing(p)'
  PROVE  Keeps(p)
<1>0. TypeOK BY DEF Sound
<1>1. Moved(p, pc, TRUE) \/ Moved(p, pc, ok) BY <1>0, GoMoves, GoOkMoves
<1>2. proc'[p].keep = proc[p].keep BY <1>0, KeepMoves
<1>3. RowGoes BY CalmAccounts
<1>4. SeenNamed(p)'
  <2>1. PICK b \in BOOLEAN : Moved(p, pc, b) BY <1>1
  <2> QED BY <1>2, <1>3, <2>1, SeenGoes DEF Calm
<1>5. OthersStay(p) /\ proc'[p].pc = pc BY <1>1 DEF Moved
<1>6. Unapplied(p)'
  <2>1. Unapplied(p) BY DEF Sound, ExplainedInv, Careful
  <2>2. pc # "fence" BY DEF LandPcs
  <2> QED BY <1>2, <1>5, <2>1, <2>2 DEF Unapplied, Calm
<1>7. Careful(p)' BY <1>4, <1>6 DEF Careful
<1>8. pc \in {"reserve", "apply"} => proc[p].pc \in {"reserve", "apply"} OBVIOUS
<1> QED BY <1>5, <1>7, <1>8, CalmKeeps

\* A review is read as the row shows it.
LEMMA SnapshotKeeps ==
  ASSUME Sound, TypeOK', NEW p \in Runners, Snapshot(p) PROVE Keeps(p)
<1>0. TypeOK /\ proc[p] \in Process BY DEF Sound, TypeOK
<1>1. PICK g : proc' = [proc EXCEPT ![p] = [proc[p] EXCEPT !.pc = "lock",
                 !.seen = [patch |-> row.patch, lease |-> row.lease,
                           receipt |-> Digest(row, frozen), base |-> 0,
                           grant |-> g, ended |-> {}]]]
  BY DEF Snapshot
<1> DEFINE s == [patch |-> row.patch, lease |-> row.lease, receipt |-> Digest(row, frozen),
                 base |-> 0, grant |-> g, ended |-> {}]
<1>2. /\ s.patch = row.patch /\ s.lease = row.lease /\ s.receipt = Digest(row, frozen)
  OBVIOUS
<1> HIDE DEF s
<1>3. proc' = [proc EXCEPT ![p] = [proc[p] EXCEPT !.pc = "lock", !.seen = s]]
  BY <1>1 DEF s
<1>4. /\ proc'[p].pc = "lock" /\ proc'[p].seen = s /\ proc'[p].keep = proc[p].keep
      /\ OthersStay(p)
  BY <1>0, <1>3 DEF TypeOK, Process, OthersStay
<1>5. s \in Intent BY <1>4 DEF TypeOK, Process
<1>6. row.state = "review" BY DEF Snapshot, NamesReview
<1>7. RowNamed BY DEF Sound, ExplainedInv, Accounts
<1>8. /\ row.lease # 0 /\ row.patch.lease = row.lease /\ row.patch.by = NoOne
      /\ Digest(row, frozen) = ReviewReceipt(row)
      /\ Named(s) => (Live(s) => Reached(s)) /\ (row.patch = s.patch => Live(s))
  BY <1>0, <1>5, <1>6, <1>7, ReviewShows
<1>9. ReviewReceipt(s) = ReviewReceipt(row) BY <1>2, Zenon DEF ReviewReceipt
<1>10. Named(s) BY <1>2, <1>8, <1>9 DEF Named
<1>11. Reached(s) BY <1>2, <1>8, <1>10
<1>12. row' = row BY DEF Snapshot
<1>13. proc[p].keep = FALSE
  <2>1. SeenNamed(p) BY DEF Sound, ExplainedInv, Careful
  <2>2. proc[p].pc = "idle" /\ proc[p].keep \in BOOLEAN BY <1>0 DEF Snapshot, Process
  <2> QED BY <2>1, <2>2 DEF SeenNamed
<1>14. Careful(p)'
  BY <1>4, <1>10, <1>11, <1>12, <1>13
  DEF Careful, SeenNamed, Reached, Unapplied, Sparing, Spares, Closing, OwnPcs, SettlePcs
<1>15. Calm BY SteadyCalm DEF Snapshot
<1> QED BY <1>4, <1>14, <1>15, CalmKeeps

\* The base is noted.
LEMMA LockKeeps == ASSUME Sound, NEW p \in Runners, Lock(p) PROVE Keeps(p)
<1>0. TypeOK /\ proc[p] \in Process BY DEF Sound, TypeOK
<1>1. Calm BY SteadyCalm DEF Lock
<1>2. SeenNamed(p) /\ proc[p].keep \in BOOLEAN /\ proc[p].seen \in Intent
  BY <1>0 DEF Sound, ExplainedInv, Careful, Process
<1>3. proc[p].pc = "lock" /\ row' = row BY DEF Lock
<1>4. CASE proc' = [proc EXCEPT ![p] = Idle]
  <2>1. proc'[p] = Idle /\ OthersStay(p) BY <1>0, <1>4 DEF TypeOK, OthersStay
  <2>2. proc'[p].pc = "idle" /\ ~proc'[p].keep BY <2>1 DEF Idle
  <2>3. Careful(p)'
    BY <2>2 DEF Careful, SeenNamed, Unapplied, Sparing, Spares, Closing, LandPcs, OwnPcs,
       SettlePcs
  <2> QED BY <1>1, <2>1, <2>2, <2>3, CalmKeeps
<1>5. CASE proc' # [proc EXCEPT ![p] = Idle]
  <2> DEFINE s == [proc[p].seen EXCEPT !.base = tree.head]
  <2>1. proc' = [proc EXCEPT ![p] = [proc[p] EXCEPT !.pc = "admit", !.seen = s]]
    BY <1>5 DEF Lock
  <2>2. /\ s.patch = proc[p].seen.patch /\ s.lease = proc[p].seen.lease
        /\ s.receipt = proc[p].seen.receipt
    BY <1>2 DEF Intent
  <2> HIDE DEF s
  <2>3. /\ proc'[p].pc = "admit" /\ proc'[p].seen = s /\ proc'[p].keep = proc[p].keep
        /\ OthersStay(p)
    BY <1>0, <2>1 DEF TypeOK, Process, OthersStay
  <2>4. Named(proc[p].seen) /\ Reached(proc[p].seen) /\ proc[p].keep = FALSE
    BY <1>2, <1>3 DEF SeenNamed, LandPcs
  <2>5. ReviewReceipt(s) = ReviewReceipt(proc[p].seen) BY <2>2, Zenon DEF ReviewReceipt
  <2>6. Named(s) BY <2>2, <2>4, <2>5 DEF Named
  <2>7. Reached(s) BY <2>2, <2>4 DEF Reached
  <2>8. Careful(p)'
    BY <1>3, <2>3, <2>4, <2>6, <2>7
    DEF Careful, SeenNamed, Reached, Unapplied, Sparing, Spares, Closing, OwnPcs, SettlePcs
  <2> QED BY <1>1, <2>3, <2>8, CalmKeeps
<1> QED BY <1>4, <1>5

\* The intent goes to the journal before anything else, against a clean tree.
LEMMA AdmitKeeps == ASSUME Sound, TypeOK', NEW p \in Runners, Admit(p) PROVE Keeps(p)
<1>0. TypeOK /\ proc[p] \in Process /\ ExplainedInv BY DEF Sound, TypeOK
<1> DEFINE n == Len(journal) + 1
<1>1. /\ journal \in Seq(Intent) /\ Len(journal) \in Nat /\ DOMAIN journal = 1 .. Len(journal)
      /\ proc[p].seen \in Intent
  BY <1>0, LenProperties DEF TypeOK, Process
<1>2. /\ DOMAIN journal' = 1 .. n /\ journal'[n] = proc[p].seen
      /\ \A i \in DOMAIN journal : journal'[i] = journal[i]
  BY <1>1, AppendProperties DEF Admit
<1>3. n \notin DOMAIN journal /\ n \in DOMAIN journal' BY <1>1, <1>2
<1>4. proc' = [proc EXCEPT ![p] = [proc[p] EXCEPT !.pc = "fence", !.id = n]]
  BY <1>0 DEF Admit
<1>5. DOMAIN journal' = DOMAIN journal \cup {n} BY <1>1, <1>2
<1> HIDE DEF n
<1>6. /\ proc'[p].pc = "fence" /\ proc'[p].id = n /\ proc'[p].seen = proc[p].seen
      /\ proc'[p].keep = proc[p].keep /\ OthersStay(p)
  BY <1>0, <1>4 DEF TypeOK, Process, OthersStay
<1>7. /\ Named(proc[p].seen) /\ Reached(proc[p].seen) /\ proc[p].keep = FALSE
      /\ proc[p].seen.ended = {}
  <2>1. proc[p].pc = "admit" BY DEF Admit
  <2>2. SeenNamed(p) /\ proc[p].keep \in BOOLEAN BY <1>0 DEF ExplainedInv, Careful, Process
  <2> QED BY <2>1, <2>2 DEF SeenNamed, LandPcs, Sound, RecordInv, GrantsKnown
<1>8. UNCHANGED <<row, frozen, tree, landed>> BY DEF Admit
<1>9. RowGoes
  <2>1. RowVerb BY <1>8 DEF RowVerb
  <2> QED BY <1>0, <2>1, VerbGoes DEF ExplainedInv, Accounts
<1>10. \A i \in DOMAIN journal : Open(i)' = Open(i) /\ Counted(i)' = Counted(i)
  BY <1>2, <1>5 DEF Open, Counted
<1>11. Accounts'
  <2>1. IntentsNamed'
    <3>1. landed \subseteq DOMAIN journal BY DEF Sound, RecordInv, TreeExplained
    <3>2. ASSUME NEW i \in DOMAIN journal' PROVE Named(journal'[i]) /\ Reached(journal'[i])
      BY <1>0, <1>2, <1>5, <1>7, <3>2 DEF ExplainedInv, Accounts, IntentsNamed
    <3>3. ASSUME NEW k \in landed PROVE Passed(journal'[k])
      BY <1>0, <1>2, <3>1 DEF ExplainedInv, Accounts, IntentsNamed
    <3> QED BY <1>8, <3>2, <3>3 DEF IntentsNamed, Reached, Passed
  <2>2. DoneKept'
    <3>1. landed \subseteq DOMAIN journal BY DEF Sound, RecordInv, TreeExplained
    <3> QED BY <1>0, <1>2, <1>5, <1>8, <1>10, <3>1
      DEF ExplainedInv, Accounts, DoneKept, Digest, DoneReceipt
  <2>3. LandingExplained'
    BY <1>0, <1>2, <1>5, <1>8, <1>10 DEF ExplainedInv, Accounts, LandingExplained, Digest
  <2>4. AppliedAccounted'
    <3>1. SUFFICES ASSUME NEW x \in tree.work
                   PROVE  \E i \in DOMAIN journal' : journal'[i].patch = x /\ Counted(i)'
      BY <1>8 DEF AppliedAccounted, Counted
    <3>2. PICK i \in DOMAIN journal : journal[i].patch = x /\ Counted(i)
      BY <1>0, <3>1 DEF ExplainedInv, Accounts, AppliedAccounted, Counted
    <3> QED BY <1>2, <1>5, <1>10, <3>2
  <2> QED BY <1>0, <1>8, <1>9, <2>1, <2>2, <2>3, <2>4 DEF ExplainedInv, Accounts, RowGoes
<1>12. AbandonedStays'
  BY <1>0, <1>2, <1>5, <1>6, <1>7, <1>8
  DEF ExplainedInv, AbandonedStays, Live, OthersStay
<1>13. Careful(p)'
  <2>1. tree.work = {} BY DEF Admit, Clean
  <2>2. SeenNamed(p)'
    BY <1>2, <1>6, <1>7, <1>8 DEF SeenNamed, Reached, OwnPcs
  <2>3. Unapplied(p)' BY <1>8, <2>1 DEF Unapplied
  <2>4. row'.state = "landing" => OtherOpen(proc[p].id)'
    <3>1. row.state = "landing" =>
            \E j \in DOMAIN journal : Open(j) /\ journal[j].receipt = Digest(row, frozen)
      BY <1>0 DEF ExplainedInv, Accounts, LandingExplained
    <3>2. Digest(row, frozen)' = Digest(row, frozen) BY <1>8 DEF Digest
    <3> QED BY <1>2, <1>3, <1>5, <1>6, <1>8, <1>10, <3>1, <3>2 DEF OtherOpen
  <2>5. row'.state = "done" => frozen' # n
    BY <1>0, <1>3, <1>8 DEF ExplainedInv, Accounts, DoneKept
  <2>6. Sparing(p)' BY <1>6, <2>4, <2>5 DEF Sparing
  <2>7. Closing(p)' BY <1>6 DEF Closing, SettlePcs
  <2> QED BY <2>2, <2>3, <2>6, <2>7 DEF Careful
<1> QED BY <1>9, <1>11, <1>12, <1>13 DEF Keeps

\* What a process from the fence on has: its own open intent, as it has seen it.
LEMMA OwnIntent ==
  ASSUME Sound, NEW p \in Runners, proc[p].pc \in OwnPcs
  PROVE  /\ proc[p].id \in DOMAIN journal /\ journal[proc[p].id] = proc[p].seen
         /\ Open(proc[p].id) /\ proc[p].seen \in Intent
         /\ Named(proc[p].seen) /\ Reached(proc[p].seen) /\ proc[p].keep = FALSE
<1>1. SeenNamed(p) /\ HasIntent(p) /\ proc[p].seen.ended = {} /\ proc[p].keep \in BOOLEAN
      /\ proc[p].seen \in Intent
  BY DEF Sound, ExplainedInv, Careful, RecordInv, GrantsKnown, Done, TypeOK, Process
<1>2. /\ proc[p].pc \notin {"idle", "lock", "admit", "settleGrant", "settleClose"}
      /\ proc[p].pc \in LandPcs
  BY DEF OwnPcs, LandPcs
<1> QED BY <1>1, <1>2 DEF SeenNamed, HasIntent, Open

\* The fence: the intent already in the journal explains the landing row, and
\* one that does not get through leaves it to the landing that did.
LEMMA FenceKeeps == ASSUME Sound, NEW p \in Runners, Fence(p) PROVE Keeps(p)
<1>0. TypeOK /\ proc[p] \in Process /\ ExplainedInv /\ RowNamed
  BY DEF Sound, TypeOK, ExplainedInv, Accounts
<1>1. proc[p].pc = "fence" /\ UNCHANGED <<frozen, tree, journal, landed>> BY DEF Fence
<1>2. PICK x \in Intent : x = proc[p].seen BY <1>0 DEF Process
<1>3. PICK i \in DOMAIN journal : i = proc[p].id
  BY <1>1, OwnIntent DEF OwnPcs
<1>4. /\ journal[i] = x /\ Open(i) /\ Named(x) /\ Reached(x) /\ proc[p].keep = FALSE
  BY <1>1, <1>2, <1>3, OwnIntent DEF OwnPcs
<1>5. tree.work = {} BY <1>0, <1>1 DEF ExplainedInv, Careful, Unapplied
<1> DEFINE can == CanLand(row, x.lease, x.patch) /\ frozen = x.receipt.path
<1>6. CASE can
  <2>1. row.state = "review" /\ row.patch = x.patch BY <1>6 DEF CanLand, NamesReview
  <2>2. Live(x) /\ Digest(row, frozen) = x.receipt
    BY <1>0, <1>4, <2>1, ReviewShows
  <2>3. row' = Fenced(row) /\ frozen' = frozen BY <1>1, <1>2, <1>6 DEF Fence
  <2>4. /\ RowGoes /\ row'.state = "landing" /\ Digest(row, frozen)' = Digest(row, frozen)
        /\ \A y \in Intent : Live(y) => Passed(y)'
        /\ \A y \in Intent : Live(y)' => Live(y)
    BY <1>0, <2>1, <2>3, FenceGoes
  <2>5. \A k \in DOMAIN journal : journal[k] \in Intent
    BY <1>0, LenProperties DEF TypeOK
  <2>6. Accounts'
    <3>1. landed \subseteq DOMAIN journal BY DEF Sound, RecordInv, TreeExplained
    <3>2. ASSUME NEW k \in DOMAIN journal PROVE Named(journal[k]) /\ Reached(journal[k])'
      <4>1. PICK y \in Intent : y = journal[k] BY <2>5
      <4>2. Named(y) /\ Reached(y)
        BY <1>0, <4>1 DEF ExplainedInv, Accounts, IntentsNamed
      <4>3. Reached(y)' BY <2>4, <4>2 DEF RowGoes
      <4> QED BY <1>1, <4>1, <4>2, <4>3 DEF Reached
    <3>3. ASSUME NEW k \in landed PROVE Passed(journal[k])'
      <4>1. PICK y \in Intent : y = journal[k] BY <2>5, <3>1
      <4>2. Reached(y) /\ Passed(y)
        BY <1>0, <3>1, <4>1 DEF ExplainedInv, Accounts, IntentsNamed
      <4>3. Passed(y)' BY <2>4, <4>2 DEF RowGoes
      <4> QED BY <1>1, <4>1, <4>3 DEF Passed
    <3>4. IntentsNamed'
      BY <1>1, <3>2, <3>3 DEF IntentsNamed, Reached, Passed, Named
    <3>5. DoneKept' BY <2>4 DEF DoneKept
    <3>6. LandingExplained' BY <1>1, <1>4, <2>2, <2>4 DEF LandingExplained, Open
    <3>7. AppliedAccounted' BY <1>1, <1>5 DEF AppliedAccounted
    <3>8. tree'.committed \subseteq tree'.work BY <1>0, <1>1 DEF ExplainedInv, Accounts
    <3> QED BY <2>4, <3>4, <3>5, <3>6, <3>7, <3>8 DEF Accounts, RowGoes
  <2>7. AbandonedStays'
    <3>1. ASSUME NEW k \in DOMAIN journal, "abandoned" \in journal[k].ended,
                 Live(journal[k])'
          PROVE  FALSE
      <4>1. PICK y \in Intent : y = journal[k] BY <2>5
      <4>2. Live(y) BY <1>1, <2>4, <3>1, <4>1 DEF Live
      <4> QED BY <1>0, <2>1, <3>1, <4>1, <4>2 DEF ExplainedInv, AbandonedStays
    <3> QED BY <1>1, <3>1 DEF AbandonedStays, Live
  <2>8. PICK pc \in {"reserve", "apply"} :
          proc' = [proc EXCEPT ![p] = [proc[p] EXCEPT !.pc = pc]]
    BY <1>2, <1>6 DEF Fence
  <2>9. /\ proc'[p].pc = pc /\ proc'[p].seen = x /\ proc'[p].id = i
        /\ proc'[p].keep = proc[p].keep
    BY <1>0, <1>2, <1>3, <2>8 DEF TypeOK, Process
  <2>10. Careful(p)'
    <3>1. Reached(x)' /\ Passed(x)' BY <1>4, <2>2, <2>4 DEF RowGoes
    <3>2. SeenNamed(p)'
      BY <1>1, <1>4, <2>9, <3>1 DEF SeenNamed, Reached, Passed
    <3>3. Unapplied(p)' BY <1>1, <1>5 DEF Unapplied
    <3>4. Sparing(p)' /\ Closing(p)'
      BY <1>4, <2>9 DEF Sparing, Spares, Closing, SettlePcs
    <3> QED BY <3>2, <3>3, <3>4 DEF Careful
  <2> QED BY <2>4, <2>6, <2>7, <2>10 DEF Keeps
<1>7. CASE ~can
  <2>1. proc' = [proc EXCEPT ![p] = [proc[p] EXCEPT !.pc = "settleGrant", !.keep = TRUE]]
    BY <1>2, <1>7 DEF Fence
  <2>2. /\ proc'[p].pc = "settleGrant" /\ proc'[p].keep = TRUE /\ proc'[p].id = i
        /\ OthersStay(p)
    BY <1>0, <1>3, <2>1 DEF TypeOK, Process, OthersStay
  <2>3. row' = row BY <1>2, <1>7 DEF Fence
  <2>4. Calm BY <1>1, <2>3, SteadyCalm
  <2>5. Live(x) => row.state = "landing"
    <3>1. SUFFICES ASSUME Live(x), row.state = "review" PROVE can
      BY <1>7 DEF Live
    <3>2. /\ row.lease # 0 /\ row.patch = x.patch /\ row.patch.lease = row.lease
          /\ Digest(row, frozen) = x.receipt /\ Digest(row, frozen) = ReviewReceipt(row)
      BY <1>0, <1>4, <3>1, ReviewShows
    <3>3. frozen = x.receipt.path
      <4>1. Digest(row, frozen).path = frozen BY DEF Digest
      <4> QED BY <3>2, <4>1
    <3>4. row.lease = row.reviewLease /\ row.lease = x.lease
      BY <1>0, <3>1 DEF RowNamed, Live
    <3>5. row.patch # NoPatch BY <3>2 DEF NoPatch
    <3> QED BY <3>1, <3>2, <3>3, <3>4, <3>5 DEF CanLand, NamesReview
  <2>6. Sparing(p)'
    <3>1. Sparing(p) /\ Spares(p) BY <1>0, <1>1 DEF ExplainedInv, Careful, Spares
    <3>2. row'.state = "landing" => OtherOpen(i)'
      BY <1>1, <1>3, <2>3, <3>1 DEF Sparing, OtherOpen, Open, Digest
    <3>3. row'.state = "done" => frozen' # i
      BY <1>1, <1>3, <2>3, <3>1 DEF Sparing
    <3>4. Live(journal[i])' => row'.state = "landing"
      BY <1>1, <1>4, <2>3, <2>5 DEF Live
    <3> QED BY <2>2, <3>2, <3>3, <3>4 DEF Sparing, OtherOpen, Live
  <2>7. SeenNamed(p)' BY <2>2 DEF SeenNamed, LandPcs, OwnPcs
  <2>8. Unapplied(p)' BY <1>1, <1>5 DEF Unapplied
  <2>9. Closing(p)' BY <1>1, <1>5, <2>2 DEF Closing
  <2>10. Careful(p)' BY <2>6, <2>7, <2>8, <2>9 DEF Careful
  <2> QED BY <2>2, <2>4, <2>10, CalmKeeps
<1> QED BY <1>6, <1>7

\* The next command of a landing, or the end of one that did not apply.
LEMMA OwnMoves ==
  ASSUME Sound, Calm, NEW p \in Runners, proc[p].pc \in OwnPcs, NEW pc \in Pcs,
         NEW ok \in BOOLEAN, Go(p, pc) \/ GoOk(p, pc, ok),
         \/ pc \in {"record", "finish"}
         \/ pc = "consume"
         \/ pc = "apply" /\ proc[p].pc = "reserve"
         \/ pc = "settleGrant" /\ proc[p].pc \in {"reserve", "apply"}
         \/ pc = "complete" /\ GoOk(p, pc, ok) /\ ~ok
  PROVE  Keeps(p)
<1>0. TypeOK BY DEF Sound
<1>1. proc[p].keep = FALSE BY OwnIntent
<1>2. proc'[p].pc = pc /\ proc'[p].keep = FALSE /\ proc'[p].id = proc[p].id
  BY <1>0, <1>1, GoMoves, GoOkMoves, KeepMoves DEF Moved
<1>3. pc = "complete" => ~proc'[p].ok BY <1>0, GoOkMoves DEF Moved
<1>4. pc = "settleGrant" => tree'.work = {}
  BY DEF Sound, ExplainedInv, Careful, Unapplied, Calm
<1>5. Sparing(p)' BY <1>2 DEF Sparing, Spares
<1>6. Closing(p)' BY <1>2, <1>3, <1>4 DEF Closing, SettlePcs
<1>7. pc \in LandPcs => pc \in OwnPcs \ {"fence"} BY DEF LandPcs, OwnPcs
<1>8. pc \in {"reserve", "apply"} => proc[p].pc = "reserve" OBVIOUS
<1> QED BY <1>1, <1>5, <1>6, <1>7, <1>8, MovedKeeps

\* The steps of a landing that write the approval or the lineage alone.
LEMMA WritesKeep ==
  ASSUME Sound, NEW p \in Runners,
         Reserve(p) \/ ApplyRefused(p) \/ Consume(p) \/ Record(p)
  PROVE  Keeps(p)
<1>1. Calm BY SteadyCalm DEF Reserve, ApplyRefused, Consume, Record
<1>2. proc[p].pc \in OwnPcs BY DEF Reserve, ApplyRefused, Consume, Record, OwnPcs
<1>3. /\ {"apply", "settleGrant", "record", "finish"} \subseteq Pcs
  BY DEF Pcs, LandPcs, SettlePcs
<1>4. CASE Reserve(p)
  <2>1. proc[p].pc = "reserve" BY <1>4 DEF Reserve
  <2>2. CASE Go(p, "apply") BY <1>1, <1>2, <1>3, <2>1, <2>2, OwnMoves
  <2>3. CASE Go(p, "settleGrant") BY <1>1, <1>2, <1>3, <2>1, <2>3, OwnMoves
  <2> QED BY <1>4, <2>2, <2>3 DEF Reserve
<1>5. CASE ApplyRefused(p)
  <2>1. proc[p].pc = "apply" /\ Go(p, "settleGrant") BY <1>5 DEF ApplyRefused
  <2> QED BY <1>1, <1>2, <1>3, <2>1, OwnMoves
<1>6. CASE Consume(p)
  <2>1. PICK ok \in BOOLEAN : GoOk(p, "record", ok) BY <1>6 DEF Consume
  <2> QED BY <1>1, <1>2, <1>3, <2>1, OwnMoves
<1>7. CASE Record(p)
  <2>1. Go(p, "finish") BY <1>7 DEF Record
  <2> QED BY <1>1, <1>2, <1>3, <2>1, OwnMoves
<1> QED BY <1>4, <1>5, <1>6, <1>7

\* The patch goes into the tree, alone, on behalf of an open intent.
LEMMA TreeTakes ==
  ASSUME Sound, NEW p \in Runners, proc[p].pc = "apply",
         tree' = [tree EXCEPT !.work = tree.work \cup {proc[p].seen.patch}],
         landed' = landed \cup {proc[p].id}, UNCHANGED <<row, frozen, journal>>,
         proc'[p].pc \notin {"reserve", "apply"}
  PROVE  RowGoes /\ Accounts' /\ AbandonedStays'
<1>0. TypeOK /\ ExplainedInv BY DEF Sound
<1>1. PICK x \in Intent : x = proc[p].seen BY <1>0 DEF TypeOK, Process
<1>2. PICK i \in DOMAIN journal : i = proc[p].id BY OwnIntent DEF OwnPcs
<1>3. journal[i] = x /\ Open(i) BY <1>1, <1>2, OwnIntent DEF OwnPcs
<1>4. Passed(x) BY <1>0, <1>1 DEF ExplainedInv, Careful, SeenNamed
<1>5. tree'.work = tree.work \cup {x.patch} /\ tree'.committed = tree.committed
  BY <1>0, <1>1 DEF TypeOK, Tree
<1>6. RowVerb BY DEF RowVerb
<1>7. RowGoes BY <1>0, <1>6, VerbGoes DEF ExplainedInv, Accounts
<1>8. IntentsNamed'
  BY <1>0, <1>2, <1>3, <1>4 DEF ExplainedInv, Accounts, IntentsNamed, Named, Reached, Passed
<1>9. DoneKept'
  BY <1>0 DEF ExplainedInv, Accounts, DoneKept, Counted, Open, Digest, DoneReceipt
<1>10. LandingExplained'
  BY <1>0 DEF ExplainedInv, Accounts, LandingExplained, Open, Digest
<1>11. AppliedAccounted'
  BY <1>0, <1>3, <1>5 DEF ExplainedInv, Accounts, AppliedAccounted, Open
<1>12. tree'.committed \subseteq tree'.work BY <1>0, <1>5 DEF ExplainedInv, Accounts
<1>13. AbandonedStays'
  BY <1>0 DEF ExplainedInv, AbandonedStays, Live
<1> QED BY <1>7, <1>8, <1>9, <1>10, <1>11, <1>12, <1>13 DEF Accounts, RowGoes

LEMMA ApplyKeeps == ASSUME Sound, NEW p \in Runners, Apply(p) PROVE Keeps(p)
<1>0. TypeOK /\ proc[p].pc = "apply" BY DEF Sound, Apply
<1>1. {"record", "consume", "settleGrant"} \subseteq Pcs BY DEF Pcs, LandPcs, SettlePcs
<1>2. CASE Forward(proc[p].seen.patch)
  <2>1. PICK pc \in {"record", "consume"} : Go(p, pc)
    BY <1>2 DEF Apply
  <2>2. /\ tree' = [tree EXCEPT !.work = tree.work \cup {proc[p].seen.patch}]
        /\ landed' = landed \cup {proc[p].id} /\ UNCHANGED <<row, frozen, journal>>
    BY <1>2 DEF Apply
  <2>3. Moved(p, pc, TRUE) /\ proc'[p].keep = proc[p].keep
    BY <1>0, <1>1, <2>1, GoMoves, KeepMoves
  <2>4. RowGoes /\ Accounts' /\ AbandonedStays'
    BY <1>0, <2>2, <2>3, TreeTakes DEF Moved
  <2>5. proc[p].keep = FALSE BY <1>0, OwnIntent DEF OwnPcs
  <2>6. SeenNamed(p)'
    BY <1>0, <2>2, <2>3, <2>4, <2>5, SeenGoes DEF OwnPcs
  <2>7. Unapplied(p)' /\ Sparing(p)' /\ Closing(p)'
    BY <2>3, <2>5 DEF Moved, Unapplied, Sparing, Spares, Closing, SettlePcs
  <2> QED BY <2>4, <2>6, <2>7 DEF Keeps, Careful
<1>3. CASE ~Forward(proc[p].seen.patch)
  <2>1. Go(p, "settleGrant") /\ UNCHANGED <<row, frozen, tree, journal, landed>>
    BY <1>3 DEF Apply
  <2> QED BY <1>0, <1>1, <2>1, SteadyCalm, OwnMoves DEF OwnPcs
<1> QED BY <1>2, <1>3

\* The row is finished by an open intent or one called complete, whose patch
\* went in.
LEMMA DoneGoes ==
  ASSUME Sound, NEW p \in Runners, NEW i \in DOMAIN journal, FinishRow(i),
         row.state = "landing", Digest(row, frozen) = journal[i].receipt,
         Counted(i), Applied(i), UNCHANGED <<tree, journal, landed>>
  PROVE  RowGoes /\ Accounts' /\ AbandonedStays' /\ row'.state = "done"
<1>0. TypeOK /\ ExplainedInv /\ RowNamed BY DEF Sound, ExplainedInv, Accounts
<1>1. i \in Nat BY <1>0, LenProperties DEF TypeOK
<1>2. /\ RowGoes /\ row'.state = "done" /\ frozen' = i /\ row'.patch = row.patch
      /\ Digest(row, frozen)' = [Digest(row, frozen) EXCEPT !.path = i]
  BY <1>0, <1>1, FinishGoes
<1>3. \A k \in DOMAIN journal : journal[k] \in Intent BY <1>0, LenProperties DEF TypeOK
<1>4. row.patch = journal[i].patch
  <2>1. PICK x \in Intent : x = journal[i] BY <1>3
  <2>2. Named(x) BY <1>0, <2>1 DEF ExplainedInv, Accounts, IntentsNamed
  <2> QED BY <1>0, <2>1, <2>2, ReviewShows
<1>5. landed \subseteq DOMAIN journal BY DEF Sound, RecordInv, TreeExplained
<1>6. IntentsNamed'
  <2>1. ASSUME NEW k \in DOMAIN journal PROVE Named(journal[k]) /\ Reached(journal[k])'
    <3>1. PICK y \in Intent : y = journal[k] BY <1>3
    <3>2. Named(y) /\ Reached(y) BY <1>0, <3>1 DEF ExplainedInv, Accounts, IntentsNamed
    <3>3. Reached(y)' BY <1>2, <3>2 DEF RowGoes
    <3> QED BY <3>1, <3>2, <3>3 DEF Reached
  <2>2. ASSUME NEW k \in landed PROVE Passed(journal[k])'
    <3>1. PICK y \in Intent : y = journal[k] BY <1>3, <1>5
    <3>2. Reached(y) /\ Passed(y)
      BY <1>0, <1>5, <3>1 DEF ExplainedInv, Accounts, IntentsNamed
    <3>3. Passed(y)' BY <1>2, <3>2 DEF RowGoes
    <3> QED BY <3>1, <3>3 DEF Passed
  <2> QED BY <2>1, <2>2 DEF IntentsNamed, Reached, Passed, Named
<1>7. DoneKept'
  <2>1. Digest(row, frozen)' = DoneReceipt(i)' BY <1>2 DEF DoneReceipt
  <2>2. \E k \in landed : journal[k].patch = row'.patch BY <1>2, <1>4 DEF Applied
  <2>3. Counted(i)' BY DEF Counted, Open
  <2>4. DoneReceipt(frozen)' = DoneReceipt(i)' BY <1>2 DEF DoneReceipt
  <2>5. Counted(frozen)' BY <1>2, <2>3 DEF Counted, Open
  <2> QED BY <1>2, <2>1, <2>2, <2>4, <2>5 DEF DoneKept
<1>8. LandingExplained' BY <1>2 DEF LandingExplained
<1>9. AppliedAccounted' BY <1>0 DEF ExplainedInv, Accounts, AppliedAccounted, Open
<1>10. tree'.committed \subseteq tree'.work BY <1>0 DEF ExplainedInv, Accounts
<1>11. AbandonedStays' BY <1>2 DEF AbandonedStays, Live
<1> QED BY <1>2, <1>6, <1>7, <1>8, <1>9, <1>10, <1>11 DEF Accounts, RowGoes

LEMMA FinishKeeps == ASSUME Sound, NEW p \in Runners, Finish(p) PROVE Keeps(p)
<1>0. TypeOK /\ proc[p].pc = "finish" BY DEF Sound, Finish
<1> DEFINE can == CanFinishLanding(row, frozen, proc[p].seen)
<1>1. "complete" \in Pcs /\ can \in BOOLEAN
  BY DEF Pcs, LandPcs, CanFinishLanding, CanFinish
<1>2. GoOk(p, "complete", can) /\ UNCHANGED <<tree, journal, landed>> BY DEF Finish
<1>3. PICK i \in DOMAIN journal : i = proc[p].id BY <1>0, OwnIntent DEF OwnPcs
<1>4. journal[i] = proc[p].seen /\ Open(i) /\ proc[p].keep = FALSE
  BY <1>0, <1>3, OwnIntent DEF OwnPcs
<1>5. CASE can
  <2>1. FinishRow(i) BY <1>3, <1>5 DEF Finish
  <2>2. row.state = "landing" /\ Digest(row, frozen) = journal[i].receipt
    BY <1>4, <1>5 DEF CanFinishLanding, CanFinish
  <2>3. Applied(i)
    BY <1>0, <1>3 DEF Sound, RecordInv, Done, HasApplied, Applied
  <2>4. RowGoes /\ Accounts' /\ AbandonedStays' /\ row'.state = "done"
    BY <1>2, <1>4, <2>1, <2>2, <2>3, DoneGoes DEF Counted
  <2>5. Moved(p, "complete", can) /\ proc'[p].keep = proc[p].keep
    BY <1>0, <1>1, <1>2, GoOkMoves, KeepMoves
  <2> HIDE DEF can
  <2>6. SeenNamed(p)' BY <1>0, <1>1, <1>2, <1>4, <2>4, <2>5, SeenGoes DEF OwnPcs
  <2>7. Unapplied(p)' /\ Sparing(p)' /\ Closing(p)'
    BY <1>4, <2>4, <2>5 DEF Moved, Unapplied, Sparing, Spares, Closing, SettlePcs
  <2> QED BY <2>4, <2>6, <2>7 DEF Keeps, Careful
<1>6. CASE ~can
  <2>1. Calm BY <1>2, <1>6, SteadyCalm DEF Finish
  <2> HIDE DEF can
  <2> QED BY <1>0, <1>1, <1>2, <1>6, <2>1, OwnMoves DEF OwnPcs
<1> QED BY <1>5, <1>6

\* A terminal row adds to one intent how it ended, and changes nothing else.
LEMMA EndedMoves ==
  ASSUME TypeOK, NEW i \in Nat, NEW how, Ended(i, how)
  PROVE  /\ DOMAIN journal' = DOMAIN journal
         /\ \A k \in DOMAIN journal :
              /\ journal'[k].patch = journal[k].patch
              /\ journal'[k].lease = journal[k].lease
              /\ journal'[k].receipt = journal[k].receipt
              /\ journal'[k].ended = IF k = i THEN journal[k].ended \cup {how}
                                     ELSE journal[k].ended
<1>1. \A k \in DOMAIN journal : journal[k] \in Intent BY LenProperties DEF TypeOK
<1>2. journal' = [journal EXCEPT ![i] = [journal[i] EXCEPT !.ended = journal[i].ended \cup {how}]]
  BY DEF Ended
<1>3. DOMAIN journal' = DOMAIN journal BY <1>2
<1>4. ASSUME NEW k \in DOMAIN journal
      PROVE  /\ journal'[k].patch = journal[k].patch
             /\ journal'[k].lease = journal[k].lease
             /\ journal'[k].receipt = journal[k].receipt
             /\ journal'[k].ended = IF k = i THEN journal[k].ended \cup {how}
                                    ELSE journal[k].ended
  <2>1. journal'[k] = IF k = i THEN [journal[k] EXCEPT !.ended = journal[k].ended \cup {how}]
                      ELSE journal[k]
    BY <1>2
  <2> QED BY <1>1, <2>1 DEF Intent
<1> QED BY <1>3, <1>4

\* An intent is called complete when no landing row needs it open, and
\* abandoned when its process may: what it explained or accounted for has
\* another intent.
LEMMA EndKeeps ==
  ASSUME Sound, NEW p \in Runners, NEW how \in {"complete", "abandoned"},
         proc[p].id \in DOMAIN journal, proc[p].pc \notin {"idle", "lock"},
         Ended(proc[p].id, how),
         how = "complete" => row.state # "landing",
         how = "abandoned" => proc[p].pc = "settleClose" /\ proc[p].ok,
         UNCHANGED <<row, frozen, tree, landed>>, Exit(p) \/ NextIntent(p)
  PROVE  Keeps(p)
<1>0. TypeOK /\ ExplainedInv BY DEF Sound, ExplainedInv
<1>1. PICK i \in DOMAIN journal : i = proc[p].id OBVIOUS
<1>2. i \in Nat BY <1>0, LenProperties DEF TypeOK
<1>3. /\ DOMAIN journal' = DOMAIN journal
      /\ \A k \in DOMAIN journal :
           /\ journal'[k].patch = journal[k].patch
           /\ journal'[k].lease = journal[k].lease
           /\ journal'[k].receipt = journal[k].receipt
           /\ journal'[k].ended = IF k = i THEN journal[k].ended \cup {how}
                                  ELSE journal[k].ended
  BY <1>0, <1>1, <1>2, EndedMoves
<1>4. OthersStay(p) /\ proc'[p].pc \in {"idle", "decide"} BY <1>0, LeaveMoves DEF Left
<1>5. RowGoes
  <2>1. RowVerb BY DEF RowVerb
  <2> QED BY <1>0, <2>1, VerbGoes DEF ExplainedInv, Accounts
<1>6. landed \subseteq DOMAIN journal BY DEF Sound, RecordInv, TreeExplained
<1>7. \A k \in DOMAIN journal : how = "complete" \/ k # i => (Counted(k) => Counted(k)')
  BY <1>3 DEF Counted, Open
<1>8. how = "abandoned" =>
        /\ row.state = "landing" => OtherOpen(i)
        /\ row.state = "done" => frozen # i
        /\ Live(journal[i]) => row.state = "landing" /\ tree.work = {}
        /\ journal[i].patch \in tree.work => OtherCounted(i)
  <2>1. ASSUME how = "abandoned" PROVE Careful(p) /\ Spares(p) /\ proc[p].pc = "settleClose"
    BY <1>0, <2>1 DEF ExplainedInv, Spares
  <2> QED BY <1>1, <2>1 DEF Careful, Sparing, Unapplied, Closing, SettlePcs
<1>9. IntentsNamed'
  <2>1. ASSUME NEW k \in DOMAIN journal
        PROVE  /\ Named(journal'[k]) /\ Reached(journal'[k])
               /\ Passed(journal[k]) => Passed(journal'[k])
    <3>1. Named(journal[k]) /\ Reached(journal[k])
      BY <1>0 DEF ExplainedInv, Accounts, IntentsNamed
    <3>2. ReviewReceipt(journal'[k]) = ReviewReceipt(journal[k])
      BY <1>3, Zenon DEF ReviewReceipt
    <3>3. Named(journal'[k]) BY <1>3, <3>1, <3>2 DEF Named
    <3>4. Reached(journal'[k]) BY <1>3, <3>1 DEF Reached
    <3>5. Passed(journal[k]) => Passed(journal'[k]) BY <1>3 DEF Passed
    <3> QED BY <3>3, <3>4, <3>5
  <2>2. \A k \in landed : Passed(journal'[k])
    BY <1>0, <1>6, <2>1 DEF ExplainedInv, Accounts, IntentsNamed
  <2> QED BY <1>3, <2>1, <2>2 DEF IntentsNamed, Reached, Passed
<1>10. DoneKept'
  <2>1. SUFFICES ASSUME row.state = "done"
                 PROVE  /\ frozen \in DOMAIN journal /\ Counted(frozen)'
                        /\ Digest(row, frozen) = DoneReceipt(frozen)'
                        /\ \E k \in landed : journal'[k].patch = row.patch
    BY <1>3 DEF DoneKept, Digest, Counted, Open, DoneReceipt
  <2>2. /\ frozen \in DOMAIN journal /\ Counted(frozen)
        /\ Digest(row, frozen) = DoneReceipt(frozen)
        /\ \E k \in landed : journal[k].patch = row.patch
    BY <1>0, <2>1 DEF ExplainedInv, Accounts, DoneKept
  <2>3. Counted(frozen)'
    <3>1. how = "complete" \/ frozen # i BY <1>8, <2>1
    <3>2. PICK k \in DOMAIN journal : k = frozen BY <2>2
    <3>3. Counted(k)' BY <1>7, <2>2, <3>1, <3>2
    <3> QED BY <3>2, <3>3 DEF Counted, Open
  <2>4. DoneReceipt(frozen)' = DoneReceipt(frozen) BY <1>3, <2>2 DEF DoneReceipt
  <2> QED BY <1>3, <1>6, <2>2, <2>3, <2>4
<1>11. LandingExplained'
  <2>1. SUFFICES ASSUME row.state = "landing"
                 PROVE  \E k \in DOMAIN journal :
                          Open(k)' /\ journal'[k].receipt = Digest(row, frozen)
    BY <1>3 DEF LandingExplained, Digest
  <2>2. PICK k \in DOMAIN journal :
          k # i /\ Open(k) /\ journal[k].receipt = Digest(row, frozen)
    BY <1>8, <2>1 DEF OtherOpen
  <2> QED BY <1>3, <2>2 DEF Open
<1>12. AppliedAccounted'
  <2>1. SUFFICES ASSUME NEW x \in tree.work
                 PROVE  \E k \in DOMAIN journal : journal'[k].patch = x /\ Counted(k)'
    BY <1>3 DEF AppliedAccounted, Counted
  <2>2. PICK k \in DOMAIN journal : journal[k].patch = x /\ Counted(k)
    BY <1>0, <2>1 DEF ExplainedInv, Accounts, AppliedAccounted, Counted
  <2>3. CASE how = "complete" \/ k # i BY <1>3, <1>7, <2>2, <2>3
  <2>4. CASE how = "abandoned" /\ k = i
    <3>1. PICK j \in DOMAIN journal : j # i /\ journal[j].patch = journal[i].patch /\ Counted(j)
      BY <1>8, <2>2, <2>4 DEF OtherCounted
    <3> QED BY <1>3, <1>7, <2>2, <2>4, <3>1
  <2> QED BY <2>3, <2>4
<1>13. AbandonedStays'
  <2>1. SUFFICES ASSUME NEW k \in DOMAIN journal, "abandoned" \in journal'[k].ended,
                        Live(journal'[k])
                 PROVE  /\ row.state = "landing" /\ tree.work = {}
                        /\ \A q \in Runners : proc'[q].pc \notin {"reserve", "apply"}
    BY <1>3 DEF AbandonedStays, Live
  <2>2. Live(journal[k]) BY <1>3, <2>1 DEF Live
  <2>3. CASE "abandoned" \in journal[k].ended
    BY <1>0, <1>4, <2>2, <2>3 DEF ExplainedInv, AbandonedStays, OthersStay
  <2>4. CASE "abandoned" \notin journal[k].ended
    <3>1. k = i /\ how = "abandoned" BY <1>3, <2>1, <2>4
    <3>2. \A q \in Runners \ {p} : proc[q].pc \in {"idle", "lock"}
      BY <1>0 DEF ExplainedInv, LockHeld
    <3> QED BY <1>4, <1>8, <2>2, <3>1, <3>2 DEF OthersStay
  <2> QED BY <2>3, <2>4
<1>14. tree'.committed \subseteq tree'.work BY <1>0 DEF ExplainedInv, Accounts
<1>15. Careful(p)' BY <1>0, LeftCareful
<1> QED BY <1>5, <1>9, <1>10, <1>11, <1>12, <1>13, <1>14, <1>15 DEF Keeps, Accounts, RowGoes

\* The steps that end an intent, or would.
LEMMA EndsKeep ==
  ASSUME Sound, NEW p \in Runners, Complete(p) \/ SettleClose(p) \/ RecClose(p) \/ Refuse(p)
  PROVE  Keeps(p)
<1>1. Exit(p) \/ NextIntent(p) BY DEF Complete, SettleClose, RecClose, Refuse
<1>2. UNCHANGED <<row, frozen, tree, landed>> BY DEF Complete, SettleClose, RecClose, Refuse
<1>3. CASE journal' = journal BY <1>1, <1>2, <1>3, SteadyCalm, LeaveKeeps
<1>4. CASE journal' # journal
  <2>1. PICK how \in {"complete", "abandoned"} :
          /\ Ended(proc[p].id, how)
          /\ how = "complete" =>
               proc[p].pc = "recClose" \/ (proc[p].pc = "complete" /\ proc[p].ok)
          /\ how = "abandoned" => proc[p].pc = "settleClose" /\ proc[p].ok
    <3>1. \/ /\ Ended(proc[p].id, "complete")
             /\ proc[p].pc = "recClose" \/ (proc[p].pc = "complete" /\ proc[p].ok)
          \/ /\ Ended(proc[p].id, "abandoned")
             /\ proc[p].pc = "settleClose" /\ proc[p].ok
      BY <1>4 DEF Complete, SettleClose, RecClose, Refuse
    <3> QED BY <3>1
  <2>2. proc[p].pc \notin {"idle", "lock", "admit"} BY <2>1
  <2>3. proc[p].id \in DOMAIN journal BY <2>2 DEF Sound, RecordInv, Done, HasIntent
  <2>4. how = "complete" => row.state # "landing"
    BY <2>1 DEF Sound, ExplainedInv, Careful, Closing
  <2> QED BY <1>1, <1>2, <2>1, <2>2, <2>3, <2>4, EndKeeps
<1> QED BY <1>3, <1>4

\* The settling of an intent that was not applied: its patch is not in the
\* tree, or another one accounts for it, and its review is released only if
\* the row still shows it.
LEMMA SettleKeeps ==
  ASSUME Sound, NEW p \in Runners, SettleGrant(p) \/ SettleShow(p) \/ SettleRelease(p)
  PROVE  Keeps(p)
<1>0. TypeOK /\ ExplainedInv BY DEF Sound
<1>1. /\ SeenNamed(p) /\ Sparing(p) /\ Closing(p) /\ proc[p].keep \in BOOLEAN
  BY <1>0 DEF ExplainedInv, Careful, TypeOK, Process
<1>2. {"settleShow", "settleRelease", "settleClose"} \subseteq Pcs BY DEF Pcs, SettlePcs
<1>3. proc[p].pc \in {"settleGrant", "settleShow", "settleRelease"}
  BY DEF SettleGrant, SettleShow, SettleRelease
<1>4. PICK i \in DOMAIN journal : i = proc[p].id
  BY <1>3 DEF Sound, RecordInv, Done, HasIntent
<1>5. journal[i] \in Intent /\ Named(journal[i])
  BY <1>0, LenProperties DEF TypeOK, ExplainedInv, Accounts, IntentsNamed
<1>6. journal[i].patch \in tree.work => OtherCounted(i)
  BY <1>1, <1>3, <1>4 DEF Closing, SettlePcs
<1>7. ASSUME Calm, NEW pc \in {"settleShow", "settleRelease", "settleClose"},
             NEW ok \in BOOLEAN, Go(p, pc) \/ GoOk(p, pc, ok), proc[p].keep => pc = "settleClose",
             Spares(p)' =>
               /\ row'.state = "landing" => OtherOpen(i)'
               /\ row'.state = "done" => frozen' # i
               /\ Live(journal[i])' => proc[p].keep /\ row'.state = "landing"
      PROVE  Keeps(p)
  <2>1. pc \in Pcs /\ pc \notin LandPcs BY <1>2, <1>7 DEF LandPcs
  <2>2. /\ proc'[p].pc = pc /\ proc'[p].id = i /\ proc'[p].keep = proc[p].keep
    BY <1>0, <1>4, <1>7, <2>1, GoMoves, GoOkMoves, KeepMoves DEF Moved
  <2>3. Sparing(p)' BY <1>7, <2>2 DEF Sparing, OtherOpen, Live
  <2>4. Closing(p)'
    <3>1. journal[i].patch \in tree'.work => OtherCounted(i)'
      BY <1>6, <1>7 DEF Calm, OtherCounted, Counted, Open
    <3> QED BY <1>7, <2>2, <3>1 DEF Closing, OtherCounted, Calm
  <2> QED BY <1>7, <2>1, <2>3, <2>4, MovedKeeps
<1>8. CASE SettleGrant(p)
  <2> DEFINE pc == IF proc[p].keep THEN "settleClose" ELSE "settleShow"
             ok == Mine(p).grant # 0 =>
                     grants[Mine(p).grant].state \in {"failed", "approved", "consuming"}
  <2>1. GoOk(p, pc, ok) /\ UNCHANGED <<row, frozen, tree, journal, landed>>
    BY <1>8 DEF SettleGrant
  <2>2. pc \in {"settleShow", "settleRelease", "settleClose"} /\ ok \in BOOLEAN
        /\ (proc[p].keep => pc = "settleClose")
        /\ (~proc[p].keep => pc = "settleShow")
    OBVIOUS
  <2>3. Calm BY <2>1, SteadyCalm
  <2> HIDE DEF pc, ok
  <2>4. proc'[p].pc = pc /\ proc'[p].keep = proc[p].keep
    BY <1>0, <1>2, <2>1, <2>2, GoOkMoves, KeepMoves DEF Moved
  <2>5. ASSUME Spares(p)'
        PROVE  /\ row'.state = "landing" => OtherOpen(i)'
               /\ row'.state = "done" => frozen' # i
               /\ Live(journal[i])' => proc[p].keep /\ row'.state = "landing"
    <3>1. proc[p].keep BY <2>2, <2>4, <2>5 DEF Spares
    <3>2. Spares(p) /\ proc[p].pc # "fence" BY <1>3, <3>1 DEF Spares
    <3> QED BY <1>1, <1>4, <2>1, <3>1, <3>2 DEF Sparing, OtherOpen, Open, Digest, Live
  <2> QED BY <1>7, <2>1, <2>2, <2>3, <2>5
<1>9. CASE SettleShow(p)
  <2> DEFINE exact == Digest(row, frozen) = Mine(p).receipt
             ok == \/ row.state = "ready" /\ row.lease = 0
                   \/ row.state \in {"review", "landing"}
                   \/ row.state \in {"claimed", "running", "blocked"} /\ ~exact
  <2>1. UNCHANGED <<row, frozen, tree, journal, landed>> /\ proc[p].pc = "settleShow"
    BY <1>9 DEF SettleShow
  <2>2. Calm BY <2>1, SteadyCalm
  <2>3. ~proc[p].keep BY <1>1, <2>1 DEF SeenNamed
  <2>4. CASE Go(p, "settleRelease")
    <3>1. proc'[p].pc = "settleRelease" /\ proc'[p].keep = proc[p].keep
      BY <1>0, <1>2, <2>4, GoMoves, KeepMoves DEF Moved
    <3>2. ~Spares(p)' BY <2>3, <3>1 DEF Spares
    <3> QED BY <1>7, <2>2, <2>3, <2>4, <3>2
  <2>5. CASE ~Go(p, "settleRelease")
    <3>1. GoOk(p, "settleClose", ok) /\ ~(row.state \in {"review", "landing"} /\ exact)
      BY <1>9, <2>5 DEF SettleShow
    <3>2. proc'[p].ok => ok
      BY <1>0, <1>2, <3>1, GoOkMoves DEF Moved
    <3>3. proc'[p].pc = "settleClose" /\ proc'[p].keep = proc[p].keep
      BY <1>0, <1>2, <3>1, GoOkMoves, KeepMoves DEF Moved
    <3>4. ~Live(journal[i])
      <4>1. Live(journal[i]) => row.state \in {"review", "landing"} BY DEF Live
      <4>2. Live(journal[i]) => Digest(row, frozen) = journal[i].receipt
        BY <1>0, <1>5, <4>1, ReviewShows DEF ExplainedInv, Accounts
      <4> QED BY <1>4, <3>1, <4>1, <4>2 DEF Mine
    <3>5. row.state = "landing" => OtherOpen(i)
      <4>1. row.state = "landing" => ~exact BY <3>1
      <4>2. row.state = "landing" =>
              \E k \in DOMAIN journal : Open(k) /\ journal[k].receipt = Digest(row, frozen)
        BY <1>0 DEF ExplainedInv, Accounts, LandingExplained
      <4> QED BY <1>4, <4>1, <4>2 DEF OtherOpen, Mine
    <3>6. Spares(p)' => row.state # "done"
      <4>1. Spares(p)' => ok BY <2>3, <3>2, <3>3 DEF Spares
      <4> QED BY <4>1
    <3>7. ok \in BOOLEAN OBVIOUS
    <3> HIDE DEF ok
    <3>8. Spares(p)' =>
               /\ row'.state = "landing" => OtherOpen(i)'
               /\ row'.state = "done" => frozen' # i
               /\ Live(journal[i])' => proc[p].keep /\ row'.state = "landing"
      BY <2>1, <3>4, <3>5, <3>6 DEF OtherOpen, Open, Digest, Live
    <3> QED BY <1>7, <2>2, <2>3, <3>1, <3>7, <3>8
  <2> QED BY <2>4, <2>5
<1>10. CASE SettleRelease(p)
  <2> DEFINE can == CanRelease(row, Mine(p).lease)
  <2>1. /\ UNCHANGED <<frozen, tree, journal, landed>> /\ proc[p].pc = "settleRelease"
        /\ GoOk(p, "settleClose", can) /\ row' = IF can THEN ClearClaim(row) ELSE row
    BY <1>10 DEF SettleRelease
  <2>2. Calm
    BY <1>0, <2>1 DEF Calm, RowVerb, ExplainedInv, Accounts
  <2>3. ~proc[p].keep BY <1>1, <2>1 DEF SeenNamed
  <2>4. can \in BOOLEAN BY DEF CanRelease
  <2> HIDE DEF can
  <2>5. (proc'[p].ok => can) /\ proc'[p].pc = "settleClose" /\ proc'[p].keep = proc[p].keep
    BY <1>0, <1>2, <2>1, <2>4, GoOkMoves, KeepMoves DEF Moved
  <2>6. Spares(p)' => row'.state = "ready"
    <3>1. row \in Row BY <1>0 DEF TypeOK
    <3>2. Spares(p)' => can BY <2>3, <2>5 DEF Spares
    <3> QED BY <2>1, <3>1, <3>2, VerbFields
  <2> QED BY <1>7, <2>1, <2>2, <2>3, <2>4, <2>6 DEF Live
<1> QED BY <1>8, <1>9, <1>10

\* What a newer receipt of the lease leaves of an intent: it is neither the
\* live review nor the done one, and if its patch is in the tree, the done row
\* is that of another intent with the same patch.
LEMMA SupersededSpares ==
  ASSUME Sound, NEW i \in DOMAIN journal, Superseded(i)
  PROVE  /\ row.state = "landing" => OtherOpen(i)
         /\ row.state = "done" => frozen # i
         /\ ~Live(journal[i])
         /\ journal[i].patch \in tree.work => OtherCounted(i)
<1>0. TypeOK /\ ExplainedInv /\ RowNamed BY DEF Sound, ExplainedInv, Accounts
<1>1. \A k \in DOMAIN journal : journal[k] \in Intent /\ Named(journal[k])
  BY <1>0, LenProperties DEF TypeOK, ExplainedInv, Accounts, IntentsNamed
<1>2. PICK x \in Intent : x = journal[i] BY <1>1
<1>3. Named(x) BY <1>1, <1>2
<1>4. row.state = "landing" => Digest(row, frozen) # x.receipt /\ ~Live(x)
  BY <1>0, <1>2, <1>3, ReviewShows DEF Superseded
<1>5. row.state \in {"landing", "done"} /\ row.lease = x.lease
  BY <1>2 DEF Superseded
<1>6. ~Live(x) BY <1>4, <1>5 DEF Live
<1>7. row.state = "landing" => OtherOpen(i)
  BY <1>0, <1>2, <1>4 DEF ExplainedInv, Accounts, LandingExplained, OtherOpen
<1>8. row.state = "done" =>
        /\ frozen \in DOMAIN journal /\ Counted(frozen) /\ frozen # i
        /\ Digest(row, frozen) = DoneReceipt(frozen)
  BY <1>0 DEF Superseded, ExplainedInv, Accounts, DoneKept
<1>9. ASSUME x.patch \in tree.work PROVE OtherCounted(i)
  <2>1. PICK k \in landed : journal[k].patch = x.patch
    BY <1>9 DEF Sound, RecordInv, TreeExplained
  <2>2. k \in DOMAIN journal BY DEF Sound, RecordInv, TreeExplained
  <2>3. PICK y \in Intent : y = journal[k] /\ Named(y) BY <1>1, <2>2
  <2>4. Passed(y) BY <1>0, <2>3 DEF ExplainedInv, Accounts, IntentsNamed
  <2>5. y.lease = row.epoch
    BY <1>0, <1>3, <1>5, <2>1, <2>3 DEF Named, RowNamed, Active
  <2>6. row.repair = x.patch.repair BY <2>1, <2>3, <2>4, <2>5 DEF Passed
  <2>7. row.state = "done" BY <1>5, <1>6, <2>6 DEF Live
  <2>8. row.patch = x.patch
    <3>1. row.patch = PatchOf(row) BY <1>0, <2>7 DEF RowNamed
    <3>2. row.patch \in Patches /\ x.patch \in Patches BY <1>0 DEF TypeOK, Row, Intent
    <3>3. row.patch.by = NoOne /\ row.patch.lease = row.lease /\ row.patch.repair = row.repair
      BY <3>1 DEF PatchOf
    <3> QED BY <1>3, <1>5, <2>6, <3>2, <3>3 DEF Named, Patches
  <2>9. journal[frozen].patch = row.patch
    <3>1. PICK z \in Intent : z = journal[frozen] /\ Named(z) BY <1>1, <1>8, <2>7
    <3>2. z.receipt = ReviewReceipt(z) BY <3>1 DEF Named
    <3>3. DoneReceipt(frozen).evidence = z.receipt.evidence
      BY <3>1 DEF DoneReceipt, Intent, Digests
    <3>4. z.receipt.evidence.patch = z.patch BY <3>2 DEF ReviewReceipt
    <3>5. Digest(row, frozen).evidence.patch = row.patch BY DEF Digest, Receipt
    <3> QED BY <1>8, <2>7, <3>1, <3>3, <3>4, <3>5
  <2> QED BY <1>2, <1>8, <2>7, <2>8, <2>9 DEF OtherCounted
<1> QED BY <1>2, <1>6, <1>7, <1>8, <1>9

\* Recovery decides by the row and the tree what became of an intent.
LEMMA DecideKeeps == ASSUME Sound, NEW p \in Runners, Decide(p) PROVE Keeps(p)
<1>0. TypeOK /\ ExplainedInv /\ RowNamed BY DEF Sound, ExplainedInv, Accounts
<1>1. proc[p].pc = "decide" /\ UNCHANGED <<row, frozen, tree, journal, landed>> BY DEF Decide
<1>2. Calm BY <1>1, SteadyCalm
<1>3. PICK i \in DOMAIN journal : i = proc[p].id
  BY <1>1 DEF Sound, RecordInv, Done, HasIntent
<1>4. journal[i] \in Intent /\ Named(journal[i])
  BY <1>0, LenProperties DEF TypeOK, ExplainedInv, Accounts, IntentsNamed
<1>5. proc[p].keep = FALSE
  <2>1. SeenNamed(p) /\ proc[p].keep \in BOOLEAN
    BY <1>0 DEF ExplainedInv, Careful, TypeOK, Process
  <2> QED BY <1>1, <2>1 DEF SeenNamed
<1>6. ASSUME NEW pc \in {"superseded", "settleGrant", "recLineage", "recFinish"}, Go(p, pc),
             pc = "superseded" => Superseded(i),
             pc = "settleGrant" => tree.work = {},
             pc = "recLineage" => row.state = "done",
             pc = "recFinish" => "abandoned" \notin journal[i].ended
      PROVE  Keeps(p)
  <2>1. pc \in Pcs /\ pc \notin LandPcs
    BY DEF Pcs, LandPcs, SettlePcs, RecoverPcs
  <2>2. proc'[p].pc = pc /\ proc'[p].id = i /\ proc'[p].keep = FALSE
    BY <1>0, <1>3, <1>5, <1>6, <2>1, GoMoves, KeepMoves DEF Moved
  <2>3. pc = "superseded" =>
         /\ row.state = "landing" => OtherOpen(i)
         /\ row.state = "done" => frozen # i
         /\ ~Live(journal[i])
         /\ journal[i].patch \in tree.work => OtherCounted(i)
    BY <1>6, SupersededSpares
  <2>4. Sparing(p)'
    <3>1. Spares(p)' => pc = "superseded" BY <2>2 DEF Spares
    <3> QED BY <1>1, <2>2, <2>3, <3>1 DEF Sparing, OtherOpen, Open, Digest, Live
  <2>5. Closing(p)'
    <3>1. /\ pc \in SettlePcs => pc = "settleGrant"
          /\ pc \in {"recLineage", "recGrant", "recClose"} => pc = "recLineage"
      BY DEF SettlePcs
    <3>2. pc \in SettlePcs \cup {"superseded"} /\ journal[i].patch \in tree.work => OtherCounted(i)
      BY <1>6, <2>3, <3>1
    <3>3. pc # "complete" OBVIOUS
    <3> QED BY <1>1, <1>6, <2>2, <3>1, <3>2, <3>3 DEF Closing, OtherCounted, Counted, Open
  <2>6. pc \notin {"reserve", "apply"} OBVIOUS
  <2> QED BY <1>2, <1>5, <1>6, <2>1, <2>4, <2>5, <2>6, MovedKeeps
<1>7. CASE NextIntent(p) BY <1>2, <1>7, LeaveKeeps
<1>8. CASE Verdict(i) = "superseded" /\ Go(p, "superseded")
  <2>1. Superseded(i) BY <1>8 DEF Verdict
  <2> QED BY <1>6, <1>8, <2>1
<1>9. CASE Verdict(i) = "absent" /\ Go(p, "settleGrant")
  <2>1. tree.work = {} BY <1>9 DEF Verdict, Forward
  <2> QED BY <1>6, <1>9, <2>1
<1>10. CASE DoneBy(i) /\ Go(p, "recLineage")
  BY <1>6, <1>10 DEF DoneBy
<1>11. CASE Verdict(i) = "applied" /\ LandingBy(i) /\ Go(p, "recFinish")
  <2>1. journal[i].patch \in tree.work BY <1>11, AppliedInTree
  <2>2. row.state = "landing" /\ Digest(row, frozen) = journal[i].receipt
    BY <1>11 DEF LandingBy
  <2>3. Live(journal[i]) BY <1>0, <1>4, <2>2, ReviewShows
  <2>4. "abandoned" \notin journal[i].ended
    BY <1>0, <2>1, <2>3 DEF ExplainedInv, AbandonedStays
  <2> QED BY <1>6, <1>11, <2>4
<1> QED BY <1>3, <1>7, <1>8, <1>9, <1>10, <1>11 DEF Decide, Go

\* The recovery of an intent its receipts leave behind, or ahead.
LEMMA RecoveringKeeps ==
  ASSUME Sound, NEW p \in Runners, Recovering(p) PROVE Keeps(p)
<1>0. TypeOK /\ ExplainedInv BY DEF Sound
<1>1. /\ SeenNamed(p) /\ Sparing(p) /\ Closing(p) /\ proc[p].keep \in BOOLEAN
      /\ proc[p] \in Process
  BY <1>0 DEF ExplainedInv, Careful, TypeOK, Process
<1>2. CASE Recover(p)
  <2>1. proc' = [proc EXCEPT ![p] = [proc[p] EXCEPT !.pc = "decide", !.recover = TRUE,
                                                    !.id = 1]]
    BY <1>0, <1>2 DEF Recover, TypeOK
  <2>2. proc'[p].pc = "decide" /\ proc'[p].keep = proc[p].keep /\ OthersStay(p)
    BY <1>0, <1>1, <2>1 DEF TypeOK, Process, OthersStay
  <2>3. proc[p].keep = FALSE BY <1>1, <1>2 DEF SeenNamed, Recover
  <2>4. Calm BY <1>2, SteadyCalm DEF Recover
  <2>5. Careful(p)'
    BY <2>2, <2>3 DEF Careful, SeenNamed, Unapplied, Sparing, Spares, Closing, LandPcs, OwnPcs,
       SettlePcs
  <2> QED BY <2>2, <2>4, <2>5, CalmKeeps
<1>3. CASE Decide(p) BY <1>3, DecideKeeps
<1>4. CASE RecClose(p) BY <1>4, EndsKeep
<1>5. CASE Supersede(p)
  <2> DEFINE g == journal[proc[p].id].grant
             ok == \/ GrantDropped(proc[p].id)
                   \/ ~GrantDropped(proc[p].id) /\ grants[g].state = "consuming"
  <2>1. GoOk(p, "settleClose", ok) BY <1>5 DEF Supersede
  <2>2. /\ UNCHANGED <<row, frozen, tree, journal, landed>> /\ proc[p].pc = "superseded"
    BY <1>5 DEF Supersede
  <2>3. "settleClose" \in Pcs /\ "settleClose" \notin LandPcs /\ ok \in BOOLEAN
    BY DEF Pcs, SettlePcs, LandPcs, GrantDropped, GrantIn
  <2> HIDE DEF ok
  <2>4. proc'[p].pc = "settleClose" /\ proc'[p].id = proc[p].id /\ proc'[p].keep = proc[p].keep
    BY <1>0, <2>1, <2>3, GoOkMoves, KeepMoves DEF Moved
  <2>5. ~proc[p].keep BY <1>1, <2>2 DEF SeenNamed
  <2>6. Spares(p) BY <2>2 DEF Spares
  <2>7. Sparing(p)'
    BY <1>1, <2>2, <2>4, <2>6 DEF Sparing, OtherOpen, Open, Digest, Live
  <2>8. Closing(p)'
    BY <1>1, <2>2, <2>4 DEF Closing, OtherCounted, Counted, Open
  <2>9. Calm BY <2>2, SteadyCalm
  <2> QED BY <2>1, <2>3, <2>5, <2>7, <2>8, <2>9, MovedKeeps
<1>6. ASSUME Calm, row' = row, Go(p, "recGrant") \/ Go(p, "recClose"),
             proc[p].pc \in {"recLineage", "recGrant"}
      PROVE  Keeps(p)
  <2>1. PICK pc \in {"recGrant", "recClose"} : Go(p, pc) BY <1>6
  <2>2. pc \in Pcs /\ pc \notin LandPcs BY DEF Pcs, RecoverPcs, LandPcs
  <2>3. proc'[p].pc = pc /\ proc'[p].keep = proc[p].keep
    BY <1>0, <2>1, <2>2, GoMoves, KeepMoves DEF Moved
  <2>4. ~proc[p].keep BY <1>1, <1>6 DEF SeenNamed
  <2>5. Sparing(p)' BY <2>3, <2>4 DEF Sparing, Spares
  <2>6. Closing(p)' BY <1>1, <1>6, <2>3 DEF Closing, SettlePcs
  <2> QED BY <1>6, <2>1, <2>2, <2>4, <2>5, <2>6, MovedKeeps
<1>7. CASE RecLineage(p)
  BY <1>6, <1>7, SteadyCalm DEF RecLineage
<1>8. CASE RecGrant(p)
  <2>1. Calm BY <1>8, SteadyCalm DEF RecGrant
  <2>2. CASE NextIntent(p) BY <2>1, <2>2, LeaveKeeps
  <2>3. CASE Go(p, "recClose") BY <1>6, <1>8, <2>1, <2>3 DEF RecGrant
  <2> QED BY <1>8, <2>2, <2>3 DEF RecGrant
<1>9. CASE RecFinish(p)
  <2>1. proc[p].pc = "recFinish" /\ UNCHANGED <<tree, journal, landed>> BY <1>9 DEF RecFinish
  <2>2. PICK i \in DOMAIN journal : i = proc[p].id
    BY <2>1 DEF Sound, RecordInv, Done, HasIntent
  <2>3. CASE CanFinishLanding(row, frozen, journal[i])
    <3>1. FinishRow(i) /\ Go(p, "recLineage") BY <1>9, <2>2, <2>3 DEF RecFinish
    <3>2. row.state = "landing" /\ Digest(row, frozen) = journal[i].receipt
      BY <2>3 DEF CanFinishLanding, CanFinish
    <3>3. Applied(i) BY <2>1, <2>2 DEF Sound, RecordInv, Done, HasApplied
    <3>4. Counted(i)
      <4>1. "abandoned" \notin journal[i].ended BY <1>1, <2>1, <2>2 DEF Closing
      <4>2. journal[i] \in Intent BY <1>0, LenProperties DEF TypeOK
      <4> QED BY <4>1, <4>2 DEF Counted, Open, Intent
    <3>5. RowGoes /\ Accounts' /\ AbandonedStays' /\ row'.state = "done"
      BY <2>1, <3>1, <3>2, <3>3, <3>4, DoneGoes
    <3>6. "recLineage" \in Pcs /\ "recLineage" \notin LandPcs
      BY DEF Pcs, RecoverPcs, LandPcs
    <3>7. Moved(p, "recLineage", TRUE) /\ proc'[p].keep = proc[p].keep
      BY <1>0, <3>1, <3>6, GoMoves, KeepMoves
    <3>8. ~proc[p].keep BY <1>1, <2>1 DEF SeenNamed
    <3>9. Careful(p)'
      BY <3>5, <3>6, <3>7, <3>8
      DEF Moved, Careful, SeenNamed, Unapplied, Sparing, Spares, Closing, SettlePcs, OwnPcs,
          LandPcs
    <3> QED BY <3>5, <3>9 DEF Keeps
  <2>4. CASE ~CanFinishLanding(row, frozen, journal[i])
    <3>1. UNCHANGED <<row, frozen>> /\ NextIntent(p)
      BY <1>9, <2>2, <2>4 DEF RecFinish
    <3> QED BY <2>1, <3>1, SteadyCalm, LeaveKeeps
  <2> QED BY <2>3, <2>4
<1> QED BY <1>2, <1>3, <1>4, <1>5, <1>7, <1>8, <1>9 DEF Recovering

\* A death leaves the journal as it is, and a write that fails ends the intent
\* at most later.
LEMMA FailingKeeps == ASSUME Sound, NEW p \in Runners, Failing(p) PROVE Keeps(p)
<1>0. TypeOK /\ ExplainedInv BY DEF Sound
<1>1. CASE WriteFails(p)
  <2>1. Calm BY <1>1, SteadyCalm DEF WriteFails
  <2>2. CASE NextIntent(p) \/ Exit(p) BY <2>1, <2>2, LeaveKeeps
  <2>3. ASSUME NEW pc \in {"record", "finish", "complete"}, GoOk(p, pc, FALSE),
               proc[p].pc \in {"consume", "record", "finish"}
        PROVE  Keeps(p)
    <3>1. pc \in Pcs /\ proc[p].pc \in OwnPcs BY <2>3 DEF Pcs, LandPcs, OwnPcs
    <3> QED BY <2>1, <2>3, <3>1, OwnMoves
  <2>4. ASSUME NEW pc \in {"settleShow", "settleClose"}, GoOk(p, pc, FALSE),
               proc[p].pc \in {"settleGrant", "settleRelease", "superseded"},
               proc[p].keep => pc = "settleClose"
        PROVE  Keeps(p)
    <3>1. pc \in Pcs /\ pc \notin LandPcs BY DEF Pcs, SettlePcs, LandPcs
    <3>2. /\ proc'[p].pc = pc /\ proc'[p].id = proc[p].id /\ proc'[p].keep = proc[p].keep
          /\ ~proc'[p].ok
      BY <1>0, <2>4, <3>1, GoOkMoves, KeepMoves DEF Moved
    <3>3. Sparing(p) /\ Closing(p) BY <1>0 DEF ExplainedInv, Careful
    <3>4. UNCHANGED <<row, frozen, tree, journal>> BY <1>1 DEF WriteFails
    <3>5. Spares(p)' => Spares(p) /\ proc[p].keep /\ proc[p].pc # "fence"
      BY <2>4, <3>2 DEF Spares
    <3>6. Sparing(p)'
      BY <3>2, <3>3, <3>4, <3>5 DEF Sparing, OtherOpen, Open, Digest, Live
    <3>7. Closing(p)'
      <4>1. proc[p].pc \in SettlePcs \cup {"superseded"} BY <2>4 DEF SettlePcs
      <4> QED BY <3>2, <3>3, <3>4, <4>1 DEF Closing, OtherCounted, Counted, Open
    <3>8. pc \notin {"reserve", "apply"} OBVIOUS
    <3> QED BY <2>1, <2>4, <3>1, <3>6, <3>7, <3>8, MovedKeeps
  <2>5. CASE \/ proc[p].pc = "consume" /\ GoOk(p, "record", FALSE)
             \/ proc[p].pc = "record" /\ GoOk(p, "finish", FALSE)
             \/ proc[p].pc = "finish" /\ GoOk(p, "complete", FALSE)
    BY <2>3, <2>5
  <2>6. CASE \/ /\ proc[p].pc = "settleGrant"
                /\ GoOk(p, IF proc[p].keep THEN "settleClose" ELSE "settleShow", FALSE)
             \/ /\ proc[p].pc \in {"settleRelease", "superseded"}
                /\ GoOk(p, "settleClose", FALSE)
    <3> DEFINE pc == IF proc[p].keep THEN "settleClose" ELSE "settleShow"
    <3>1. pc \in {"settleShow", "settleClose"} /\ (proc[p].keep => pc = "settleClose")
      OBVIOUS
    <3> HIDE DEF pc
    <3>2. \/ proc[p].pc = "settleGrant" /\ GoOk(p, pc, FALSE)
          \/ proc[p].pc \in {"settleRelease", "superseded"} /\ GoOk(p, "settleClose", FALSE)
      BY <2>6 DEF pc
    <3> QED BY <2>4, <3>1, <3>2
  <2> QED BY <1>1, <2>2, <2>5, <2>6 DEF WriteFails
<1>2. CASE Kill(p)
  BY <1>2, SteadyCalm, LeaveKeeps DEF Kill
<1>3. CASE KillInApply(p)
  <2>1. /\ Exit(p) /\ proc[p].pc = "apply" /\ UNCHANGED <<row, frozen, journal>>
    BY <1>3 DEF KillInApply
  <2>2. CASE /\ tree' = [tree EXCEPT !.work = tree.work \cup {proc[p].seen.patch}]
             /\ landed' = landed \cup {proc[p].id}
    <3>1. proc'[p].pc = "idle" BY <1>0, <2>1 DEF Exit, TypeOK, Idle
    <3>2. Careful(p)' BY <1>0, <2>1, LeftCareful
    <3> QED BY <2>1, <2>2, <3>1, <3>2, TreeTakes DEF Keeps
  <2>3. CASE tree' = [tree EXCEPT !.edited = TRUE] /\ landed' = landed
    <3>1. tree'.work = tree.work /\ tree'.committed = tree.committed
      BY <1>0, <2>3 DEF TypeOK, Tree
    <3>2. Calm BY <1>0, <2>1, <2>3, <3>1 DEF Calm, RowVerb, ExplainedInv, Accounts
    <3> QED BY <2>1, <3>2, LeaveKeeps
  <2> QED BY <1>3, <2>2, <2>3 DEF KillInApply
<1> QED BY <1>1, <1>2, <1>3 DEF Failing

\* Whatever its step, a process keeps the accounts.
LEMMA ActsKeep == ASSUME Sound, TypeOK', NEW p \in Runners, Acts(p) PROVE Keeps(p)
BY SnapshotKeeps, LockKeeps, AdmitKeeps, FenceKeeps, WritesKeep, ApplyKeeps, FinishKeeps,
   EndsKeep, SettleKeeps, RecoveringKeeps, FailingKeeps
DEF Acts, Landing, Settling

\* Everybody else moves the row by a verb or takes a patch out of the tree.
LEMMA RestIsCalm == ASSUME Sound, Others \/ Git \/ Approve \/ Expire PROVE Calm
<1>0. TypeOK /\ tree.committed \subseteq tree.work
  BY DEF Sound, ExplainedInv, Accounts
<1>1. CASE Others
  BY <1>0, <1>1 DEF Others, PlanVerb, Calm, RowVerb
<1>2. CASE Git
  <2>1. /\ tree'.work \subseteq tree.work /\ tree'.committed \subseteq tree'.work
    BY <1>0, <1>2 DEF Git, TypeOK, Tree
  <2> QED BY <1>2, <2>1 DEF Git, Calm, RowVerb
<1>3. CASE Approve \/ Expire
  BY <1>3, SteadyCalm DEF Approve, Expire
<1> QED BY <1>1, <1>2, <1>3

LEMMA ExplainedStep == ASSUME Sound, TypeOK', Next PROVE ExplainedInv'
<1>0. TypeOK /\ LockHeld BY DEF Sound, ExplainedInv
<1>1. LockHeld' BY <1>0, LockStep
<1>2. ASSUME NEW p \in Runners, Acts(p) PROVE ExplainedInv'
  <2>1. Keeps(p) BY <1>2, ActsKeep
  <2>2. ASSUME NEW q \in Runners, q # p PROVE Careful(q)'
    <3>1. proc'[q] = proc[q] BY <1>0, <1>2, <2>2, ActsLock
    <3>2. CASE proc[q].pc \in {"idle", "lock"}
      BY <2>1, <3>1, <3>2, WaitingCareful DEF Keeps
    <3>3. CASE proc[q].pc \notin {"idle", "lock"}
      <4>1. UNCHANGED <<row, frozen, tree, journal, landed>>
        BY <1>0, <1>2, <2>2, <3>3, AtTheDoor
      <4> QED BY <3>1, <4>1, SteadyCalm, CalmCareful
    <3> QED BY <3>2, <3>3
  <2> QED BY <1>1, <2>1, <2>2 DEF Keeps, ExplainedInv
<1>3. CASE Others \/ Git \/ Approve \/ Expire
  <2>1. Calm BY <1>3, RestIsCalm
  <2>2. proc' = proc BY <1>3, RestLeavesProcesses
  <2>3. Accounts' /\ AbandonedStays' BY <2>1, <2>2, CalmAccounts, CalmAbandoned
  <2>4. \A q \in Runners : Careful(q)' BY <2>1, <2>2, CalmCareful
  <2> QED BY <1>1, <2>3, <2>4 DEF ExplainedInv
<1> QED BY <1>2, <1>3 DEF Next, Acts

\* Nothing happens.
LEMMA ExplainedStutters == ASSUME ExplainedInv, UNCHANGED vars PROVE ExplainedInv'
<1>1. UNCHANGED <<row, frozen, tree, journal, lock, proc, landed>> BY DEF vars
<1>2. LockHeld' BY <1>1 DEF ExplainedInv, LockHeld
<1>3. Accounts'
  BY <1>1 DEF ExplainedInv, Accounts, RowNamed, IntentsNamed, Reached, Passed, DoneKept,
     Counted,
     Open, Digest, DoneReceipt, LandingExplained, AppliedAccounted
<1>4. AbandonedStays' BY <1>1 DEF ExplainedInv, AbandonedStays, Live
<1>5. \A p \in Runners : Careful(p)'
  BY <1>1 DEF ExplainedInv, Careful, SeenNamed, Reached, Passed, Unapplied, Sparing, Spares,
     OtherOpen, Open, Digest, Live, Closing, OtherCounted, Counted
<1> QED BY <1>2, <1>3, <1>4, <1>5 DEF ExplainedInv

LEMMA ExplainedInit == Init => ExplainedInv
<1> SUFFICES ASSUME Init PROVE ExplainedInv OBVIOUS
<1>1. /\ journal = << >> /\ landed = {} /\ frozen = 0 /\ tree.work = {} /\ tree.committed = {}
      /\ row = Reviewed(Claimed(Added), PatchOf(Claimed(Added)))
      /\ \A p \in Runners : proc[p] = Idle
  BY DEF Init
<1>2. /\ row.state = "review" /\ row.epoch = 1 /\ row.lease = 1 /\ row.reviewLease = 1
      /\ row.patch = PatchOf(row)
  <2>1. Added \in Row /\ Claimed(Added) \in Row BY AddedTyped, VerbsTyped
  <2>2. Claimed(Added).epoch = 1 /\ Claimed(Added).lease = 1
    BY <2>1, VerbFields DEF Added
  <2>3. /\ row.state = "review" /\ row.epoch = 1 /\ row.lease = 1 /\ row.reviewLease = 1
        /\ row.repair = Claimed(Added).repair /\ row.patch = PatchOf(Claimed(Added))
    BY <1>1, <2>1, <2>2, VerbFields
  <2> QED BY <2>2, <2>3 DEF PatchOf
<1>3. DOMAIN journal = {} BY <1>1
<1>4. Idle.pc = "idle" /\ Idle.keep = FALSE BY DEF Idle
<1>5. RowNamed BY <1>1, <1>2 DEF RowNamed
<1>6. Accounts
  BY <1>1, <1>2, <1>3, <1>5 DEF Accounts, IntentsNamed, DoneKept, LandingExplained,
     AppliedAccounted
<1>7. \A p \in Runners : Careful(p)
  BY <1>1, <1>4 DEF Careful, SeenNamed, Unapplied, Sparing, Spares, Closing, LandPcs, OwnPcs,
     SettlePcs
<1> QED BY <1>1, <1>3, <1>4, <1>6, <1>7 DEF ExplainedInv, LockHeld, AbandonedStays

\* The accounts are kept, whatever dies, whatever interferes and for any number
\* of landings.
THEOREM AccountsKept == Spec => [](RecordInv /\ ExplainedInv)
<1>1. Init => RecordInv /\ ExplainedInv BY RecordInit, ExplainedInit
<1>2. /\ TypeOK /\ TypeOK'
      /\ RecordInv /\ ExplainedInv
      /\ [Next]_vars
      => RecordInv' /\ ExplainedInv'
  BY RecordStep, RecordStutters, ExplainedStep, ExplainedStutters DEF Sound
<1> QED BY <1>1, <1>2, LandingTypeCorrect, PTL DEF Spec

\* A row in landing has an open intent with its exact receipt: the intent is
\* durable before the fence and every early end of it spares the row.
THEOREM LandingExplainedCorrect == Spec => []LandingExplained
<1>1. ExplainedInv => LandingExplained BY DEF ExplainedInv, Accounts
<1> QED BY <1>1, AccountsKept, PTL

\* A patch in the tree has an intent that is open or complete: no recovery
\* calls a landing not applied that was.
THEOREM AppliedAccountedCorrect == Spec => []AppliedAccounted
<1>1. ExplainedInv => AppliedAccounted BY DEF ExplainedInv, Accounts
<1> QED BY <1>1, AccountsKept, PTL

\* A done row names a landing that is open or complete, and its patch went in.
THEOREM DoneExplainedCorrect == Spec => []DoneExplained
<1>1. ExplainedInv => DoneExplained
  BY DEF ExplainedInv, Accounts, DoneKept, DoneExplained, Counted
<1> QED BY <1>1, AccountsKept, PTL

=============================================================================
