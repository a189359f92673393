SPECIFICATION OutboxSpec
CONSTANTS
    Events = {e1, p1}
    Poison = {p1}
    Drainers = {d1, d2}
    MaxAttempts = 2
    BatchSize = 2
    MaxGlitches = 3
    MaxStops = 1
INVARIANTS
    OutboxInv

PROPERTIES
    ImplementsDelivery
    EventsAreSettled

CHECK_DEADLOCK FALSE
