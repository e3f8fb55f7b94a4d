SPECIFICATION Spec
CONSTANTS
    h1 = h1
    h2 = h2
    Hooks = {h1, h2}
    EventTypes = {"created", "canceled"}
    Filter <- MCFilter
    Deliveries = {d1, d2}
    WebhookMaxAttempts = 3
    Limit = 1
    MaxFaults = 1
INVARIANTS
    TypeOK
    AttemptsBounded
    OutcomeTrue
PROPERTIES
    FinalStays
    EveryDeliveryEnds
