SPECIFICATION Spec
CONSTANTS
    Users = {ann, bob}
    Openers = {ann}
    Tokens = {t1}
    NoToken = NoToken
    Sessions = {s1, s2}
    Perms = {p1}
    Custom = {"custom"}
    OtherNames = {"Other"}
PROPERTY NoOverrideSurvives
CHECK_DEADLOCK FALSE
