SPECIFICATION Spec
CONSTANTS
    i1 = i1
    i2 = i2
    s1 = s1
    s2 = s2
    s3 = s3
    Instances = {i1}
    Definition <- MCReview
    Signals = {s1}
    Target <- MCReviewer
    None = None
INVARIANT WaitingCaptures
CHECK_DEADLOCK FALSE
