SPECIFICATION FairSpec
CONSTANTS
    gg_oferta = gg_oferta
    legacy = legacy
    dynamic = dynamic
    r1 = r1
    r2 = r2
    App <- OneApp
    Cred <- Creds
    Owner <- Owners
    Legacy <- LegacyCreds
    MaxLimit = 1
    Window = 1
    Request = {r1}
    Cap = {"ai", "search", "fetch"}
    Target <- Varied
    Payload <- Mixed
    Faults = {"store", "secret", "dropped", "crash"}
INVARIANTS
    RecordedAsAnswered
PROPERTIES
    Answered
