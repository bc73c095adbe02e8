-------------------------- MODULE AbstractDelivery --------------------------
(***************************************************************************)
(* What a durable delivery promises to the business transaction that       *)
(* submitted it, without queues, clocks, attempts or processes: a delivery *)
(* is acknowledged only after its operation has succeeded at least once,   *)
(* nothing runs that was not submitted, and an acknowledged or dropped     *)
(* delivery stays so.  An operation may still be running when the delivery *)
(* is dropped, so it may succeed afterwards.                               *)
(***************************************************************************)
CONSTANT Events

VARIABLES
    delivery,  \* "absent", "open", "acknowledged" or "dropped"
    applied    \* the events whose operation has succeeded

vars == <<delivery, applied>>

Init ==
    /\ delivery = [e \in Events |-> "absent"]
    /\ applied = {}

Submit(e) ==
    /\ delivery[e] = "absent"
    /\ delivery' = [delivery EXCEPT ![e] = "open"]
    /\ UNCHANGED applied

Apply(e) ==
    /\ delivery[e] # "absent"
    /\ applied' = applied \cup {e}
    /\ UNCHANGED delivery

Acknowledge(e) ==
    /\ delivery[e] = "open"
    /\ e \in applied
    /\ delivery' = [delivery EXCEPT ![e] = "acknowledged"]
    /\ UNCHANGED applied

Drop(e) ==
    /\ delivery[e] = "open"
    /\ delivery' = [delivery EXCEPT ![e] = "dropped"]
    /\ UNCHANGED applied

Next == \E e \in Events : Submit(e) \/ Apply(e) \/ Acknowledge(e) \/ Drop(e)

Spec == Init /\ [][Next]_vars

=============================================================================
