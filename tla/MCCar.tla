------------------------------- MODULE MCCar --------------------------------
(***************************************************************************)
(* A car for TLC: its bookings, or the reminders of one of them, or its    *)
(* vetting, or that of a chauffeur.                                        *)
(* They share no state here, so a behaviour is a behaviour of one of them. *)
(***************************************************************************)
EXTENDS MCBookingLifecycle, CarApproval, Reminders

VARIABLE part

MReq(type, zone, from, hours, pickup, arrival) ==
    [type |-> type, zone |-> zone, start |-> 60 * from, end |-> 60 * (from + hours),
     pickup |-> [hour |-> pickup, pm |-> FALSE], now |-> 0, arrival |-> 60 * arrival, drive |-> 0]

Resting == MReq("DAY", 0, 72, 2, 9, 0)

MCRequests ==
    {Resting, MReq("DAY", 60, 72, 2, 9, 0), MReq("DAY", 60, 72, 25, 9, 0),
     MReq("NIGHT", 60, 95, 24, 9, 0), MReq("FULL_DAY", 60, 79, 48, 8, 0),
     MReq("AIRPORT_PICKUP", 60, 79, 3, 9, 80)}

MCInit ==
    \/ /\ part = "bookings" /\ Init
       /\ VInitWith(VMaxOps, {}, "DELETED") /\ MInitWith({Resting})
    \/ /\ part = "reminders" /\ Init
       /\ VInitWith(VMaxOps, {}, "DELETED") /\ MInit
    \/ /\ part = "vetting" /\ Init /\ MInitWith({Resting})
       /\ VInitWith(0, {}, "PENDING") \/ VInitWith(1, UserDocs, "DELETED")

MCNext ==
    /\ UNCHANGED part
    /\ \/ part = "bookings" /\ Next /\ UNCHANGED <<vvars, mvars>>
       \/ part = "reminders" /\ MNext /\ UNCHANGED <<vars, vvars>>
       \/ part = "vetting" /\ VNext /\ UNCHANGED <<vars, mvars>>

MCSpec ==
    /\ MCInit /\ [][MCNext]_<<vars, vvars, mvars, part>>
    /\ WF_vars(part = "bookings" /\ Tick)
    /\ \A j \in Runs : WF_vars(part = "bookings" /\ RunStep(j))

=============================================================================
