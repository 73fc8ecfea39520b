SPECIFICATION ListSpec
CONSTANTS
  u1 = u1
  u2 = u2
  u3 = u3
  r1 = r1
  r2 = r2
  ReviewUploads <- MCReviewUploads
  Reads <- MCReads
  Pages <- MCPages
  MaxActive = 2
  MaxListFailures = 1
SYMMETRY Symmetry
INVARIANTS
  UploadsListed
  CachedIsNewest
  PageOfList
