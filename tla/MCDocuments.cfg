CONSTANTS
    Names = {1, 2}
    Fields = 2
    Quoted = {1}
    MaxLen = 1
    MaxPuts = 2
    None = None
    Offers <- MCOffers
SPECIFICATION Spec
INVARIANTS TypeOK StoredAsGiven SentWhole ContentsInTurn ContentsClosed GotAsServed BodyOwned RoundTrip
PROPERTY PutReturns
CHECK_DEADLOCK FALSE
