\* The two tables at their limits while there are no flows: four group ids for three
\* entries, so that loops through three groups are tried, and fewer buckets than
\* entries; two meter ids for one meter, and a size_t of four values, so that the band
\* count starts anywhere and wraps. With flows, two of them over one group or one over
\* two. The reference counters, which no property reads, have one value.
CONSTANTS
    GroupId = {g1, g2, g3, g4}
    Port = {p1}
    ExistingPort = {}
    MaxEntries = 3
    MaxBuckets = 3
    ModBuckets = 2
    MeterId = {m1, m2}
    MaxMeters = 1
    MaxBands = 2
    ModBands = 2
    SizeMod = 4
    Flow = {f1, f2}
    CountMod = 1
SYMMETRY TableSymmetry
CONSTRAINT SmallWithFlows
SPECIFICATION ModifySpec
INVARIANTS
    GroupsAcyclic
    GroupsResolved
    EntriesCounted
    BucketsCounted
    LoopCheckExact
    BandsCountedFromBase
    GroupRefsExact
    FlowGroupsResolved
    MeterRefsLive
PROPERTIES
    SearchAdvances
    ModifyIsAtomic
    FlowLossExplained
