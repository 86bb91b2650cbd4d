SPECIFICATION FairSpec
CONSTANTS
    Nothing = Nothing
    gg_oferta = gg_oferta
    claudiao = claudiao
    new = new
    k1 = k1
    k2 = k2
    App = {gg_oferta, claudiao, new}
    Bootstrapped = {gg_oferta, claudiao}
    Protected = {claudiao}
    Setting = {"ai", "fetch"}
    Offered = {"ai"}
    Key = {k1, k2}
    Period = {"7", "30"}
    Default = "7"
    MaxCalls = 5
    MaxEdits = 1
INVARIANTS
    TypeOK
    ShownIsCurrent
    EmptyTextTrue
    SecretDelivered
PROPERTIES
    LoadingEnds
CHECK_DEADLOCK FALSE
