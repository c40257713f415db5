SPECIFICATION SubSpec
CONSTANTS
    basic = basic
    c1 = c1
    c2 = c2
    c3 = c3
    Shops = {a, b}
    Plans = {basic}
    NoPlan = NoPlan
    MaxInvoices = 1
    Codes = {}
    Grants <- MCGrants
    CodeLen <- MCCodeLen
    MaxUses <- MCMaxUses
    Length <- MCLength
    Longest = 4
    TrialLen = 2
    GraceLen = 2
    ChargeAhead = 1
    RemindAhead = 2
PROPERTIES
    GraceEnds
