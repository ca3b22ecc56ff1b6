------------------------------- MODULE Promise -------------------------------
(***************************************************************************)
(* What a oneshot channel promises: one value or none.  The sender keeps   *)
(* its promise or breaks it, once; a kept promise is claimed by at most    *)
(* one receiver, and one that is broken is not kept any more.              *)
(***************************************************************************)
VARIABLE promise

Init  == promise = "open"
Keep  == promise = "open" /\ promise' = "kept"
Break == promise = "open" /\ promise' = "broken"
Claim == promise = "kept" /\ promise' = "claimed"

Next == Keep \/ Break \/ Claim
Spec == Init /\ [][Next]_promise
=============================================================================
