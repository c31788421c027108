CONSTANTS
    Wires = {0, 1, 2}
    Channels <- MCChannels
    WriteErip = TRUE
    EripWidth = 4
    Rips = {9}
    Frames <- MCFrames
    MaxSteps = 3
INIT DumpInit
NEXT DumpNext
INVARIANTS
    WaveformShowsLastFrame
CHECK_DEADLOCK FALSE
