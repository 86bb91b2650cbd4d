SPECIFICATION Spec
CONSTANTS
    gg_oferta = gg_oferta
    claudiao = claudiao
    app3 = app3
    ai = ai
    search = search
    c1 = c1
    c2 = c2
    h1 = h1
    h2 = h2
    h3 = h3
    App = {gg_oferta, claudiao, app3}
    GgOferta = gg_oferta
    Claudiao = claudiao
    Cap = {ai}
    MaxLimit = 2
    Cred = {c1}
    Handler = {h1, h2, h3}
    LegacyKey = FALSE
    Faults = {"busy", "crash"}
SYMMETRY HandlerSymmetry
INVARIANTS
    TypeOK
    CapabilitiesHaveQuota
    ProtectedUntouched
    AuditTruthful
    MutationsAudited
PROPERTIES
    ActivationCounted
    RestartKeepsPolicies
CHECK_DEADLOCK FALSE
