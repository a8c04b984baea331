SPECIFICATION Spec
CONSTANTS
  HALF = 16
  PowersOfTwo <- ApiPowersOfTwo
  BASE_PAGE_SIZE = 4
  PMM_REGION_COUNT = 2
  SLAB_TOTAL = 3
  SLAB_RESERVE = 1
  ENABLE_ASSERTIONS = TRUE
  AddReqs <- ApiAdds
  RemoveReqs <- ApiRemoves
  AllocReqs <- ApiAllocs
  MaxGrants = 1
INVARIANTS
  TypeOK
  ListsAcyclic
  WholePages
CHECK_DEADLOCK FALSE
