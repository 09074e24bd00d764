CONSTANTS
    Mutators = {m1, m2, m3}
    None = None
    MaxEpoch = 2
SPECIFICATION FairSpec
PROPERTIES
    WorldResumes
    ParkedReturns
    DriverReturns
