--------------------------- MODULE MCDomainOutbox ---------------------------
(***************************************************************************)
(* Small instances of DomainOutbox for TLC.                                *)
(***************************************************************************)
EXTENDS DomainOutbox, TLC

CONSTANTS BackoffUnit, BackoffCap

(* computeNextAttemptAt: min(10 s * 2^(attempt - 1), 15 min), in units. *)
MCBackoff == [a \in 1..MaxClaims |->
                LET b == BackoffUnit * 2^(a - 1)
                IN  IF b < BackoffCap THEN b ELSE BackoffCap]

Processes == Permutations(Dispatchers) \cup Permutations(Workers)

=============================================================================
