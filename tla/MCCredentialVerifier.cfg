SPECIFICATION FairSpec
CONSTANTS
    web = web  pki = pki  did = did  k = k  leaf = leaf  root = root  root2 = root2
    nokid = nokid  ann = ann  nobody = nobody  here = here
    Issuer = {web, pki, did}
    Key = {k, leaf, root, root2}
    Permission = {"pay"}
    NoKid = nokid
    Agent = {ann}
    Nobody = nobody
    Receiver = {here}
    Credential <- MCCredential
    Process = {p}
    Call = {c1, c2}
    Database = db
    TierOf <- MCTierOf
    Holds <- MCHolds
    FirstKeys <- MCFirstKeys
    Leads <- MCLeads
    Revocable <- MCRevocable
    Claims <- MCClaims
    Presentation <- MCPresentation
    EvaluatorIds = {here}
    RequireProof = FALSE
    Mechanism <- MCMechanism
    FailureMode <- MCFailureMode
    Retries = 0
    KeyTtl = 2
    StatusTtl = 1
    FetchTimeout = 1
    MaxChanges = 1
    MaxFailures = 1
INVARIANTS TypeOK
PROPERTIES VerifiedOnFreshTrust RevocationLagBounded AnswersBecomeRight
CHECK_DEADLOCK FALSE
