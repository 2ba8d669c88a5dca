SPECIFICATION Spec
CONSTANTS
  Brands = {"ProxyShell"}
  Entities <- MCEntities
  Kind <- MCKind
  Sponsors <- MCSponsors
  Drafts = {"d1", "d2"}
  Techniques = {"t1", "t2"}
  Flow <- MCFlow
  Flagged = {"Other"}
  Corrected <- MCCorrected
  Draftings <- MCDraftings
  Additions <- MCAdditions
  MaxReviewed = 2
  MaxRejections = 1
CHECK_DEADLOCK FALSE
INVARIANT RollupsFollowEdges
