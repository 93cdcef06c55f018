CONSTANTS
  MaxContext = 2
  MaxMember = 2
  MaxRequests = 2
  MaxCatalog = 2
  MaxNet = 1
  Limit = 1
  MaxMade = 3
SPECIFICATION Spec
CONSTRAINT Region
PROPERTIES NewIdOnlyAfterAnswer StaleNeverShown WorkEnds PagesJoinUp OneAuthorityPerListing
CHECK_DEADLOCK FALSE
