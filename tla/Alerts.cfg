\* Two keys of every combination of kinds; one tap on Mute, one failover.  An
\* hour's mute is two cooldowns long here.
SPECIFICATION FairSpec
CONSTANTS
    Key = {k1, k2}
    Cooldown = 2
    MuteTime = 4
    MaxMutes = 1
    MaxFailovers = 1
INVARIANT TypeOK
PROPERTY Spacing
PROPERTY MuteHolds
PROPERTY PersistentReported
