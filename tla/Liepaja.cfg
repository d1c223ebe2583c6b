SPECIFICATION FairSpec
CONSTANTS
    PacketLength = 3
    FrameBits = 2
    Places = {7}
    Interval = 1
    ByteMod = 4
    Saved = 2
    MaxSeconds = 4
    MaxSent = 4
    MaxResets = 2
INVARIANTS
    OnePacketAtATime
    DamageBounded
    NumbersNeverRepeat
    MeasurementsGoOn
PROPERTIES
    PacketsEnd
