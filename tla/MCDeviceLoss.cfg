CONSTANTS
    None = None
    Devices = {d1}
    Readers = {poll, call, work}
    Worker = work
    Results = {"ok", "transport", "decode", "provider_lost"}
    MaxEdges = 5
    MaxRebuilds = 2
SPECIFICATION FairSpec
CHECK_DEADLOCK FALSE
INVARIANTS
    LossInv
PROPERTIES
    EventsAlternate
    ReturnEventuallySafed
