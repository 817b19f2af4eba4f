SPECIFICATION FairSpec
CONSTANTS
    Packages = {p1}
    NoPackage = none
    MaxSessions = 2
PROPERTIES LaunchResolves EndIsNoticed
