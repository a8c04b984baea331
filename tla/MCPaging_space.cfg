SPECIFICATION Spec
CONSTANTS
  ENTRIES = 2
  BASE_PAGE_SIZE = 2
  TablePages <- MCTablePages
  ROOT = 30
  MapReqs <- MCMapReqs
  UnmapReqs <- MCUnmapReqs
INVARIANTS
  TypeOK
  TreeShaped
  NoTableLost
  WalksEndAtLeaf
PROPERTY
  SpaceSpec
