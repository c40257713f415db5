SPECIFICATION Spec
CONSTANTS
    Users = {ann, bob}
    Openers = {ann}
    Tokens = {t1}
    NoToken = NoToken
    Sessions = {s1, s2}
    Perms = {p1}
    Custom = {"custom"}
    OtherNames = {"Other"}
INVARIANTS
    OneOwner
    RolesResolve
PROPERTIES
    JoinsByInvite
    OnlyNewOverridesSurvive
    TrialUnlessCut
CHECK_DEADLOCK FALSE
