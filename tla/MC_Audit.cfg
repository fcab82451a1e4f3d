SPECIFICATION FairSpec
CONSTANTS
  Retirement = {r1}
  Claim = {c1}
  FeedSize = 2
  Slot = {s1, s2}
  None = None
INVARIANTS
  AuditTypeOK CertificateSeenOnChain SpinnersAreHonest
PROPERTIES
  SpinnersStop
