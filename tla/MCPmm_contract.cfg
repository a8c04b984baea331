SPECIFICATION ContractSpec
CONSTANTS
  HALF = 32
  PowersOfTwo <- MCPowersOfTwo
  BASE_PAGE_SIZE = 4
  PMM_REGION_COUNT = 2
  SLAB_TOTAL = 6
  SLAB_RESERVE = 2
  ENABLE_ASSERTIONS = TRUE
  AddReqs <- ContractAdds
  RemoveReqs <- ContractRemoves
  AllocReqs <- ContractAllocs
  MaxGrants = 5
INVARIANTS
  GrantsApart
  FreeBlocksApart
  AllManaged
  CountersExact
  ListsSorted
  DescriptorsPaid
PROPERTY
  MemorySpec
CHECK_DEADLOCK FALSE
