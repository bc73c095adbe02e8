------------------------- MODULE MCBookingLifecycle -------------------------
(***************************************************************************)
(* Small instances of BookingLifecycle for TLC: bookings one after the     *)
(* other, each of Length ticks and Gap ticks apart.                        *)
(***************************************************************************)
EXTENDS BookingLifecycle, TLC, SequencesExt

CONSTANTS First, Length, Gap

Nth(b) == CHOOSE i \in 1..Cardinality(Bookings) : SetToSeq(Bookings)[i] = b

MCStart == [b \in Bookings |-> First + (Nth(b) - 1) * (Length + Gap)]
MCEnd   == [b \in Bookings |-> MCStart[b] + Length]

Workers == Permutations(Runs)

=============================================================================
