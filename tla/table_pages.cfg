SPECIFICATION Spec
CONSTANTS
  Items <- ThreeItems
  Hits <- SomeHits
  PageSizes <- OneOrTwo
  MaxFirst = 2
CHECK_DEADLOCK FALSE
INVARIANTS TypeOK SpinnerEnds PageShown CheckboxesAreTrue
PROPERTY SelectionKept
