--------------------------- MODULE PlanTaskProofs ---------------------------
(* What the verbs of PlanTask leave is a row, for every set of runners.    *)
EXTENDS PlanTask, TLAPS

\* A task as `add` leaves it.
LEMMA AddedTyped == Added \in Row
BY NoOneAssumption DEF Added, Row, States, NoPatch, Patches

\* What a landing binds is a receipt.
LEMMA ReceiptTyped == ASSUME NEW r \in Row PROVE Receipt(r) \in Receipts
BY DEF Receipt, Receipts, Row

\* Every verb without an argument leaves a row.
LEMMA VerbsTyped ==
  ASSUME NEW r \in Row
  PROVE  /\ Claimed(r) \in Row
         /\ ClearClaim(r) \in Row
         /\ Started(r) \in Row
         /\ Touched(r) \in Row
         /\ Repaired(r) \in Row
         /\ Fenced(r) \in Row
         /\ Finished(r) \in Row
         /\ Blocked(r) \in Row
         /\ Cancelled(r) \in Row
         /\ [r EXCEPT !.aged = TRUE] \in Row
<1>1. Claimed(r) \in Row
  <2>1. r.epoch + 1 \in Nat /\ "claimed" \in States BY DEF Row, States
  <2>2. Claimed(r) = [r EXCEPT !.state = "claimed", !.epoch = r.epoch + 1,
                               !.lease = r.epoch + 1, !.aged = FALSE]
    BY DEF Claimed
  <2> HIDE DEF States
  <2> DEFINE n == r.epoch + 1
  <2> HIDE DEF n
  <2>3. n \in Nat BY <2>1 DEF n
  <2>4. [r EXCEPT !.state = "claimed", !.epoch = n, !.lease = n, !.aged = FALSE] \in Row
    BY <2>1, <2>3 DEF Row
  <2> QED BY <2>2, <2>4 DEF n
<1>2. ClearClaim(r) \in Row /\ Started(r) \in Row /\ Touched(r) \in Row
  BY DEF ClearClaim, Started, Touched, Row, States
<1>3. Repaired(r) \in Row /\ Fenced(r) \in Row /\ Finished(r) \in Row
  BY DEF Repaired, Fenced, Finished, Row, States
<1>4. Blocked(r) \in Row /\ Cancelled(r) \in Row /\ [r EXCEPT !.aged = TRUE] \in Row
  BY DEF Blocked, Cancelled, Row, States
<1> QED BY <1>1, <1>2, <1>3, <1>4

\* A worker's review.
LEMMA ReviewedTyped ==
  ASSUME NEW r \in Row, NEW p \in Patches PROVE Reviewed(r, p) \in Row
BY DEF Reviewed, Row, States

\* A row that a worker put back over the present one.
LEMMA RestoredTyped ==
  ASSUME NEW r \in Row, NEW f \in Row PROVE Restored(r, f) \in Row
BY DEF Restored, RestoredEvidence, Row

=============================================================================
