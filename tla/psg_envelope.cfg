SPECIFICATION EnvelopeSpec
CONSTANTS
    Tracks = {0, 1}
    Top = 2
    Shapes <- AsDrawn
    Periods = {1, 2}
    MaxWrites = 5
INVARIANTS
    FollowsDrawing
PROPERTIES
    OneShotEnds
VIEW SoundView
