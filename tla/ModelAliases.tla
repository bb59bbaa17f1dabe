---------------------------- MODULE ModelAliases ----------------------------
(***************************************************************************)
(* What docs/gates.md and docs/rollback.md promise of a registered model:  *)
(* production only ever gets a version that is approved (one that passed   *)
(* the gates, or one an operator registered for production by hand), what  *)
(* a rollback would restore was in production, and nothing is withdrawn.   *)
(***************************************************************************)
VARIABLES
  approved,  \* the versions that may be put in production
  prod,      \* the version in production, 0 for none
  previous,  \* the version a rollback restores, 0 for none
  was_prod   \* the versions that are or were in production

vars == <<approved, prod, previous, was_prod>>

Init ==
  /\ prod \in approved \cup {0}
  /\ previous = 0
  /\ was_prod = {prod} \ {0}

Approve == approved \subseteq approved' /\ UNCHANGED <<prod, previous, was_prod>>

(* An operator approves a version and puts it in production at once. *)
Promote ==
  /\ approved \subseteq approved'
  /\ prod' \in approved'
  /\ was_prod' = was_prod \cup {prod'}
  /\ UNCHANGED previous

Save == previous' \in was_prod /\ UNCHANGED <<approved, prod, was_prod>>

Restore == prod' = previous /\ UNCHANGED <<approved, previous, was_prod>>

Next == Approve \/ Promote \/ Save \/ Restore

Spec == Init /\ [][Next]_vars
=============================================================================
