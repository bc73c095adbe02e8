\* A customer cancels the next booking of a car on the road.
CONSTANTS
    Bookings = {b1, b2}
    AirportBookings = {}
    Start <- MCStart
    End <- MCEnd
    Runs = {j1}
    NoBooking = NoBooking
    Hour = 2
    Buffer = 4
    Cutoff = 2
    ManualRuns = {}
    MaxRun = 1
    MaxLag = 1
    MaxTime = 16
    MaxCancels = 1
    MaxRefunds = 0
    MaxEdits = 0
    MaxFaults = 0
    First = 3
    Length = 3
    Gap = 4
SPECIFICATION Spec
SYMMETRY Workers
INVARIANTS
    ActiveCarIsBooked
CHECK_DEADLOCK FALSE
