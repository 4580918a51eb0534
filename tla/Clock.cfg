SPECIFICATION Spec
CONSTANTS
    NanosPerMs = 3
    MaxWall = 4
    MaxMono = 7
    MaxMs = 5
PROPERTIES
    StrictlyIncreasing
    NeverBehindWall
