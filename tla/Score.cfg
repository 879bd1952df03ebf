SPECIFICATION Spec
CONSTANTS
    One = 12
    Scenes <- AllScenes
    Labels <- TheLabels
INVARIANTS
    ApIsArea
    StricterIsLower
    GateComparable
