SPECIFICATION Spec
CONSTANTS
    Archives <- DataDir
    Order <- ByName
    Models <- Sizes
    Chunk = 1
    MaxScans = 2
    Users = {u1, u2}
    Views = {v1}
    Visible = {"tiled_yolov2_voc"}
    Asked = {5}
    Default = 2
    Noise = "random"
    MaxRuns = 3
SYMMETRY UserSymmetry
INVARIANTS
    PicturesMatch
    NeverScoresNoise
    ScanPreparesAll
