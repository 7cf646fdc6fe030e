\* Two clients, at the gateway and at the port of user-service.
SPECIFICATION FairGatewaySpec
CONSTANTS
    None = None
    e1 = e1
    e2 = e2
    Handlers = {h1, h2}
    UserIds = {u1, u2}
    Names = {n1}
    Emails = {e1, e2}
    Patches <- SomePatches
    ClaimsSet = TRUE
    Requests <- SomeRequests
    Venues = {v1, v2}
INVARIANTS
    GatewayTypeOK
    OneUserPerEmail
    TokensOfUsers
    UnvouchedReadVenues
    SummaryWhole
PROPERTIES
    TokensSettle
    GrantSettles
    SummaryAnswered
