SPECIFICATION FairSpec
CONSTANTS
    Templates = {t1, t2}
    Runs = {r1, r2}
    Horizon = 1
PROPERTY RunsEnd
