\* Two bookings in a row, the second an airport pickup; one hourly run and one
\* that an operator may trigger.  Or the reminders of a trip of one or two days
\* or nights, with one more run of a job.  Or a car with two images and a
\* document, or a chauffeur with two documents, to be vetted.
CONSTANTS
    Bookings = {b1, b2}
    AirportBookings = {b2}
    Start <- MCStart
    End <- MCEnd
    Runs = {j1, j2}
    NoBooking = NoBooking
    Hour = 2
    Buffer = 4
    Cutoff = 2
    ManualRuns = {j2}
    MaxRun = 1
    MaxLag = 2
    MaxTime = 14
    MaxCancels = 1
    MaxRefunds = 1
    MaxEdits = 1
    MaxFaults = 1
    First = 3
    Length = 3
    Gap = 4
    Images = {i1, i2}
    CarDocs = {d1}
    UserDocs = {u1, u2}
    TheCar = TheCar
    TheUser = TheUser
    Reviews = {x1, x2}
    VMaxOps = 5
    VMaxFaults = 1
    MRequests <- MCRequests
    MDelays = {0, 20}
    MMargin = 1
    MMaxOps = 1
    MMaxFaults = 1
SPECIFICATION MCSpec
INVARIANTS
    ListingAgrees
    SomebodyGoesOn
PROPERTIES
    CancelledStays
    CompletionStands
    
    VettingKept
    RemindersRight
CHECK_DEADLOCK FALSE
