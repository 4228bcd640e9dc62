SPECIFICATION AllSpec
CONSTANTS
  Endpoints = {1, 2, 3}
  Name <- MCName
  Allowed <- MCAllowed
  RoleSets <- MCRoleSets
  Unknown = Unknown
  MaxInflight = 1
  MaxMessages = 2
  HeadLengths = {2, 3, 4, 5, 8}
  MaxHead = 3
  Chunk = 2
  Eager = 2
  Origins = {o1, o2}
  Toolboxes = {b1, b2}
  MaxDepth = 3
  Caps <- MCCaps
  Targets <- MCTargets
  MaxDirectives = 2
  MaxReloads = 2
  Headers <- MCHeaders
  Documents <- MCDocuments
  None = None
INVARIANTS AnswersExact ProtocolsAgree UpgradeExact OwnToolbox FilterExact HeaderRoundTrip SchemasClosed
CHECK_DEADLOCK FALSE
