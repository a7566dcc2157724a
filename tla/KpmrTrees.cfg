SPECIFICATION Spec
CONSTANTS
  SourceDocuments <- MCSources
  ProfileDocuments <- MCProfiles
INVARIANTS
  TypeOK
  EveryIdIsInTheTree
  ProfilesHangWhereTheyBelong
  SourcesHangAbove
CHECK_DEADLOCK FALSE
