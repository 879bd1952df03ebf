------------------------------- MODULE Exchange -------------------------------
(***************************************************************************)
(* What a service instance promises SOAM, with nothing of the worker       *)
(* process behind it: an invocation that was opened is closed once, either *)
(* with the result of that very request or with a failure.  The promise    *)
(* may be spoiled for good; from then on an invocation is still closed     *)
(* once, but possibly with what belongs to another one.                    *)
(***************************************************************************)
CONSTANT Requests

VARIABLES status, intact

States == {"new", "open", "own", "failed", "stray"}

Init == status = [r \in Requests |-> "new"] /\ intact = TRUE

Open(r) ==
    /\ status[r] = "new" /\ status' = [status EXCEPT ![r] = "open"]
    /\ UNCHANGED intact

Results == IF intact THEN {"own", "failed"} ELSE {"own", "failed", "stray"}

Close(r) ==
    /\ status[r] = "open"
    /\ \E result \in Results : status' = [status EXCEPT ![r] = result]
    /\ UNCHANGED intact

Spoil == intact /\ intact' = FALSE /\ UNCHANGED status

Next == Spoil \/ \E r \in Requests : Open(r) \/ Close(r)

Spec == Init /\ [][Next]_<<status, intact>>
=============================================================================
