\* Windows and lists may leave parts out; "**" may end a segment of a glob.
CONSTANTS
  Absent = Absent
  Null = Null
  Carried <- MCLoose
  Strings <- MCStrings
  Credentials <- MCCredentials
  Requests <- MCRequests
  Fields = {"amount", "currency", "resource", "timestamp"}
  LocalTime <- MCTime
  Days = {"Mon", "Sun"}
  MaxDepth = 3
  RequireAttenuation = TRUE
SPECIFICATION Spec
INVARIANTS
  NeverWidened
