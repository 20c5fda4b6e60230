-------------------------- MODULE MCAttemptRunner --------------------------
(* Instances of AttemptRunner for TLC. *)
EXTENDS AttemptRunner, TLC

DispatcherSymmetry == Permutations(Dispatchers)

MCProvider == [a \in Attempts |-> IF a = 3 THEN "q" ELSE "p"]
OneOfP == {[q \in {"p"} |-> 1]}
OneOfPOrAny == OneOfP \cup {[q \in {} |-> 1]}
=============================================================================
