------------------------ MODULE ApplicationLifecycle ------------------------
(***************************************************************************)
(* What the header of services/application_service.py promises of the      *)
(* status of an application:                                               *)
(*                                                                         *)
(*    draft -> signed -> waiting -> submitting -> submitted                *)
(*                                             \> error                    *)
(***************************************************************************)
CONSTANT Apps
VARIABLE status

Init == status = [a \in Apps |-> "draft"]

Move(a, from, to) ==
    /\ status[a] \in from
    /\ status' = [status EXCEPT ![a] = to]

Sign(a) == Move(a, {"draft"}, "signed")
Ready(a) == Move(a, {"draft", "signed"}, "waiting")
Submit(a) == Move(a, {"waiting"}, "submitting")
Conclude(a) ==
    Move(a, {"submitting"}, "submitted") \/ Move(a, {"submitting"}, "error")

Step(a) == Sign(a) \/ Ready(a) \/ Submit(a) \/ Conclude(a)

Next == \E a \in Apps : Step(a)

Spec == Init /\ [][Next]_status
=============================================================================
