SPECIFICATION FairSpec
CONSTANT MaxElectors = 4
INVARIANTS StopBlocks PanicsInWindow
PROPERTIES Follows StopEnds
CHECK_DEADLOCK FALSE
