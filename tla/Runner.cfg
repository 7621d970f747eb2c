SPECIFICATION Spec
CONSTANTS
  Posts = {p1, p2}
  Names <- MCNames
  Left <- MCLeft
  MaxCrashes = 1
INVARIANTS
  TypeOK
  OwnDirectories
  MetadataIsHonest
  OkMeansWhole
PROPERTIES
  EndedRunsAreFinal
  EveryRequestIsAnswered
