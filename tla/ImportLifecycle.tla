--------------------------- MODULE ImportLifecycle ---------------------------
(***************************************************************************)
(* What the status of an ImportBatch promises to those who look at it: a   *)
(* batch is processed, staged if its source is Eventbrite, reviewed if need*)
(* be, and imported once or failed for good.                               *)
(***************************************************************************)
CONSTANT Batch
VARIABLE status   \* status[b]: NONE before the upload

Status == {"PROCESSING", "STAGED", "READY_FOR_REVIEW", "READY_FOR_IMPORT", "IMPORTED", "FAILED"}
Terminal == {"IMPORTED", "FAILED"}

Init == status = [b \in Batch |-> "NONE"]

Become(b, s) == status' = [status EXCEPT ![b] = s]

Upload(b) == status[b] = "NONE" /\ Become(b, "PROCESSING")
Stage(b) == status[b] = "PROCESSING" /\ Become(b, "STAGED")
Assess(b) == /\ status[b] \in Status \ Terminal
             /\ \E s \in {"READY_FOR_REVIEW", "READY_FOR_IMPORT"} : Become(b, s)
Import(b) == status[b] = "READY_FOR_IMPORT" /\ Become(b, "IMPORTED")
Fail(b) == status[b] \in Status \ Terminal /\ Become(b, "FAILED")

Next == \E b \in Batch : Upload(b) \/ Stage(b) \/ Assess(b) \/ Import(b) \/ Fail(b)

Spec == Init /\ [][Next]_status
=============================================================================
