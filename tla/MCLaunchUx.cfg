SPECIFICATION LiveSpec
CONSTANTS
    Packages = {p1, p2}
    NoPackage = none
    MaxSessions = 2
INVARIANT ScreensFollowSession
PROPERTY LaunchResolves
