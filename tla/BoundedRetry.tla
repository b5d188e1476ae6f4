----------------------------- MODULE BoundedRetry -----------------------------
(***************************************************************************)
(* What the recovery layer promises of anything it watches: a resource that *)
(* failed comes back only by an attempt, an attempt brings it back at most  *)
(* once, and at most Max attempts are made between two refills.             *)
(***************************************************************************)
EXTENDS Naturals

CONSTANT Max

VARIABLES up, tries, trying
vars == <<up, tries, trying>>

Init == up = TRUE /\ tries = 0 /\ trying = FALSE

Fail == up /\ up' = FALSE /\ UNCHANGED <<tries, trying>>

Try ==
  /\ ~trying /\ tries < Max
  /\ tries' = tries + 1 /\ trying' = TRUE
  /\ UNCHANGED up

Succeed == trying /\ trying' = FALSE /\ up' = TRUE /\ UNCHANGED tries

(* An attempt that fails leaves the resource down, even one that was up:   *)
(* the old surface may be gone before the new one fails to appear.         *)
Miss == trying /\ trying' = FALSE /\ up' \in {up, FALSE} /\ UNCHANGED tries

Refill == ~trying /\ tries' = 0 /\ UNCHANGED <<up, trying>>

Next == Fail \/ Try \/ Succeed \/ Miss \/ Refill

Spec == Init /\ [][Next]_vars
=============================================================================
