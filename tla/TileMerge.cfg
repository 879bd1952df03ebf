SPECIFICATION Spec
CONSTANTS
    Scenes <- AllScenes
INVARIANTS
    LayoutFaithful
    CompleteSurvives
    ObjectRecovered
PROPERTIES
    FusionIsClosure
    SuppressionSound
