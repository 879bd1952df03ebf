SPECIFICATION Spec
CONSTANTS
    One = 12
    Scenes <- FullSplit
    Labels <- TheLabels
INVARIANTS
    OwnKit
