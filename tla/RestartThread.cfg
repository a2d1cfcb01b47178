SPECIFICATION FairSpec
CONSTANTS
    MaxJobs = 4
PROPERTIES
    ImplementsLatestJob
    DestructorReturns
    LatestJobServed
