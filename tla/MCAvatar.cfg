\* Two requests, two keys, one picture that fits.
SPECIFICATION Spec
CONSTANTS
  o1 = o1
  o2 = o2
  Owners = {o1, o2}
  k1 = k1
  k2 = k2
  Keys = {k1, k2}
  OwnerOf <- OwnerOfDef
  picture = picture
  large = large
  Files = {picture, large}
  Fits <- FitsDef
  Handlers = {h1, h2}
  NoKey = NoKey
  NoFile = NoFile
SYMMETRY Alike
INVARIANTS
  TypeOK
  RowsNameTheirOwn
  NothingElseIsPublic
  RowNamesStoredObject
  NothingIsLeftBehind
PROPERTIES
  ImplementsGallery
