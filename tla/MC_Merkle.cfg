SPECIFICATION Spec
CONSTANTS
  k1 = k1
  k2 = k2
  gold = gold
  verra = verra
  noTree = noTree
  noLocation = noLocation
  noRoot = noRoot
  noReply = noReply
  Call <- TwoCalls
  Registry <- Registries
  Credit <- Credits
  Catalogue <- Offered
  RegistryOf <- Issuer
  TreeDepth = 3
  NoTree = noTree
  NoLocation = noLocation
  NoRoot = noRoot
  NoReply = noReply
CHECK_DEADLOCK FALSE
SYMMETRY CallSymmetry
INVARIANTS
  ProofIsOfItsCredit
  ProofsStayValid
PROPERTIES
  UnknownOnlyWhileUnbuilt
