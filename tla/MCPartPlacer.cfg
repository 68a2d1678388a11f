SPECIFICATION RefineSpec
CONSTANTS
  Kinds <- MCKinds
  End <- MCEnd
  Inside <- MCInside
  Raster <- MCRaster
  Material <- MCMaterial
  OnSheet <- MCOnSheet
  Clash <- MCClash
  Rank <- MCRank
  Corners <- MCCorners
  Contacts <- MCContacts
  Pocketed <- MCPocketed
  Pattern <- MCPattern
  Orders <- MCOrders
  Batch = 2
  Coarse = 3
  Width = 2
  Stride = 2
  SheetWidth = 6
  SheetHeight = 2
  PixelAt <- MCPixelAt
  Core <- MCCore
  MaskArea <- MCMaskArea
  Fragments = 3
  Spot <- MCSpot
  TooClose <- MCTooClose
  OnStock <- MCOnStock
  Size <- MCSize
  Stock <- MCStock
  Edge = 0
  Gap = 4
  Cell = 3
  Resolution = 4
  Tolerance = 1
  Notch <- MCNotch
  Spread <- MCSpread
  MotifSides = {2, 3}
  SheetSides = {4, 6}
  Gaps = {0, 1}
  Edges = {0, 1}
INVARIANTS
  NothingHidden
  LayoutValid
  RefusedHonestly
  SpaceNeverMissed
  RefinedValid
  PatternLaidOut
CHECK_DEADLOCK FALSE
