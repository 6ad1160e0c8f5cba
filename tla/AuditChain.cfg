SPECIFICATION Spec
CONSTANTS
  p1 = p1
  p2 = p2
  p3 = p3
  Processes = {p1, p2}
  Kinds = {"event", "console", "full", "sweep"}
  EditKinds = {"text", "rehashed", "lost"}
  MaxEvents = 3
  MaxEdits = 2
SYMMETRY ProcessSymmetry
INVARIANTS ChainUnbroken AnchorOnChain
PROPERTIES ProvedRowsAreIntact
