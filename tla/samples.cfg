\* Two runs that may overlap, each of up to two of four requests.
CONSTANTS
    Inst = {i1}
    Monitored <- OneInstance
    Invocations = {p1, p2}
    Keys <- SampleKeys
    Vals <- RequestSets
    Batches = {}
    NoVal = NoVal
    DryRuns = {FALSE}
    Overlap = TRUE
    MaxTime = 0
    MaxRuns = 2
    Tasks <- AllTasks
    Request = {q1, q2, q3, q4}
    Returns <- UpToTwo
    SessionOf <- Sessions
    NameOf <- Names
    Collated <- CaseInsensitive
    Unnamed = Unnamed
    Overall = Overall
    Keep = 1
    p1 = p1
    p2 = p2
    i1 = i1
    q1 = q1
    q2 = q2
    q3 = q3
    q4 = q4
    s1 = s1
    s2 = s2
    lower = lower
    UPPER = UPPER
SPECIFICATION SamplesSpec
SYMMETRY Alike
INVARIANT SamplesTypeOK
INVARIANT SampleIsWhole
