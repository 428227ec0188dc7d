SPECIFICATION Spec
CONSTANTS
  Coords <- MCCoords
  Sizes <- MCSizes
  LineCoords <- MCLineCoords
INVARIANTS ShapesStayInVRAM OutlineEnclosesBody SquareIsRectangle LineNearIdeal LineReversible
CHECK_DEADLOCK FALSE
