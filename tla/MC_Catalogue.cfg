SPECIFICATION Spec
CONSTANTS
  gold = gold
  verra = verra
  Credit = {1, 2, 3}
  Registry <- MCRegistry
  Vintage = {1, 2}
  Releases <- MCReleases
  Filter <- MCFilter
  Request <- MCRequest
  MaxLimit = 3
  DefaultLimit = 2
  Undefined = Undefined
  Empty = Empty
  NoRow = NoRow
  Nothing = Nothing
INVARIANTS
  PagingMissesNothing ListingsAgree 
