CONSTANTS
    Files = {code, asset, dotfile}
    Unlisted = {dotfile}
    HeadOnBranch = TRUE
    MaxCL = 3
    SampleCount = 1
    Week = 2
    Month = 3
    MaxFaults = 1
    MaxDamage = 1
    MaxRestarts = 1
SPECIFICATION FairSpec
INVARIANTS
    TypeOK
    OpenMeansDifference
PROPERTIES
    DamageIsNoticed
    OpenIsAnnounced
