------------------------ MODULE MCUnsubscribeWebhook ------------------------
(* Small instances of UnsubscribeWebhook for TLC.  Deliveries overlap, but  *)
(* in the behaviours that start with serial not those of one event.         *)
EXTENDS UnsubscribeWebhook, TLC

VARIABLE serial

MCInit == Init /\ serial \in BOOLEAN
MCNext == Next /\ (serial => Apart') /\ UNCHANGED serial
MCSpec == MCInit /\ [][MCNext]_<<vars, serial>>

(* Redelivery alone, however often, changes consent once.                   *)
OncePerEventInTurn == serial => LeavesOnce

Symmetry == Permutations(Handler) \cup Permutations(Person) \cup Permutations(Clerk)
=============================================================================
