CONSTANTS
    None = None
    DefaultTransport = DefaultTransport
    OwnTransport = OwnTransport
    Authenticator = {basic, cookie, cookie2, xport, raw}
    Cookie = {cookie, cookie2}
    Xport = {xport}
    Raw = {raw}
    Reinstall = FALSE
    MaxInstalled = 2
    Statuses = {200, 400, 401, 404, 417}
    LoginStatuses = {200, 400, 401, 404, 500}
    MaxProcessed = 2
SPECIFICATION FairSpec
INVARIANTS TypeOK PassesEachOnce ProcessedRightly NothingLeftOpen ResultFromAnswer
PROPERTY CancelReturns
