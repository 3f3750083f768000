\* Every page, element, step and pair of boxes of MCTargetAlignment.
SPECIFICATION AlignmentSpec
CONSTANTS
    Width <- MCWidth
    Height <- MCHeight
    Palette <- MCPalette
    Pages <- MCPages
    Elements <- MCElements
    Boxes <- MCBoxes
    Steps <- MCSteps
    ButtonLabels <- MCButtonLabels
INVARIANTS
  TextGoesIntoAnEditor
  IdentityIsHit
\* A refused step, and a judged one, have nothing left to do.
CHECK_DEADLOCK FALSE
