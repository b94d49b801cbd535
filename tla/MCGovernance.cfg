SPECIFICATION FairSpec
CONSTANTS
    Call = {c1, c2}
    Issuer = {i}
    Row = {good, bad}
    TrustedRows = {good}
    ManifestTtl = 2
    MappingTtl = 1
    MaxWrites = 2
    MaxFailures = 1
INVARIANTS TypeOK OwnChangesShow ManifestLagBounded MappingsLagBounded
PROPERTIES CachesBecomeCurrent
CHECK_DEADLOCK FALSE
