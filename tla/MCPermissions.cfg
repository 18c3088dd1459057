\* Stacks of up to three documents - pool, organization, participant.
SPECIFICATION Spec
CONSTANTS
  Star = Star
  skip = skip
  limit = limit
  list = list
  one = one
  get = get
  put = put
  v1 = v1
  v2 = v2
  v3 = v3
  Paths = {list, one}
  Methods = {get, put}
  Keys = {skip, limit}
  Values = {v1, v2, v3}
  Patterns <- MCPatterns
  Catalog <- MCCatalog
  Documents <- MCDocuments
  MaxLayers = 3
CHECK_DEADLOCK FALSE
INVARIANTS
  TypeOK
  NoLayerIsWidened
  NothingIsLost
  GrantsAreDelivered
  WithinExceedsNothing
  NothingIsWithheld
