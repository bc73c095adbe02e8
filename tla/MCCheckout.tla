----------------------------- MODULE MCCheckout -----------------------------
(***************************************************************************)
(* Checkout for TLC: either two calls with one key race while one handler  *)
(* sees a single attempt to pay, or two handlers race over the payments of *)
(* one caller.                                                             *)
(***************************************************************************)
EXTENDS Checkout

CONSTANTS c2, h2   \* the second caller and the second handler

VARIABLE part

MCInit == Init /\ part \in {"calls", "handlers"}

MCNext ==
    /\ Next /\ UNCHANGED part
    /\ part = "calls" => /\ task'[h2] = IdleTask
                         /\ \A b \in Bookings : charge'[b].tries <= 1
    /\ part = "handlers" => call'[c2] = IdleCall

MCSpec == MCInit /\ [][MCNext]_<<vars, part>> /\ Fairness

=============================================================================
