\* Two layers that restrict the same route by different parameters.
SPECIFICATION Spec
CONSTANTS
  Star = Star
  skip = skip
  limit = limit
  list = list
  one = one
  get = get
  put = put
  v1 = v1
  v2 = v2
  v3 = v3
  Paths = {list, one}
  Methods = {get, put}
  Keys = {skip, limit}
  Values = {v1, v2, v3}
  Patterns <- MCPatterns
  Catalog <- MCCatalog
  Documents <- MCListingDocuments
  MaxLayers = 2
CHECK_DEADLOCK FALSE
INVARIANTS
  LayersOnlyNarrow
