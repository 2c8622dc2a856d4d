SPECIFICATION DialogueSpec
CONSTANTS
  d1 = d1
  d2 = d2
  None = None
  District <- MCDistrict
  Price <- MCPrice
  Distance <- MCDistance
  Weight <- MCWeight
  HousingPlan <- MCHousingPlan
  Text <- MCText
  Reread <- MCReread
SYMMETRY MCSymmetry
INVARIANTS
  DialogueTypeOK
  SearchIsGrounded
  FollowUpKeepsScope
  SearchIsWellFormed
