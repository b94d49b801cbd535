SPECIFICATION FairSpec
CONSTANTS
    Request = {r1, r2}
    r1 = r1  r2 = r2
    Format <- MCFormat
    Configured = {"did", "list", "x509"}
    X509Kid = 1
    Bits = 1
    MaxRotations = 2
    MaxFailures = 1
INVARIANTS TypeOK IndicesNotShared HandedOutVerifiable RetiredKeysSignNothing ListIsExact
PROPERTIES RequestsAnswered
CHECK_DEADLOCK FALSE
