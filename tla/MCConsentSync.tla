---------------------------- MODULE MCConsentSync ----------------------------
(* A small instance of ConsentSync for TLC: workers that may outlive the    *)
(* stale window next to changes of the preference, or workers in time next  *)
(* to an edit of the profile and a crash.                                   *)
EXTENDS ConsentSync, TLC

Bounded == stalls => crashes' = 0 /\ \A p \in Person : person'[p].profile = 0
MCSpec == Init /\ [][Next /\ Bounded]_vars

Symmetry == Permutations(Worker)
=============================================================================
