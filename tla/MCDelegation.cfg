\* Chains of up to three credentials that spell out every restriction.
CONSTANTS
  Absent = Absent
  Null = Null
  Carried <- MCSpelledOut
  Strings <- MCStrings
  Credentials <- MCCredentials
  Requests <- MCRequests
  Fields = {"amount", "currency", "resource", "timestamp"}
  LocalTime <- MCTime
  Days = {"Mon", "Sun"}
  MaxDepth = 3
  RequireAttenuation = TRUE
SPECIFICATION Spec
INVARIANTS
  TypeOK
  NeverWidened
  LimitsOnlyLowered
