\* Two pushes of two branches, with compaction at the second pack, and a clone.
SPECIFICATION Spec
CHECK_DEADLOCK FALSE

CONSTANTS
    p1 = p1
    r1 = r1
    p2 = p2
    None = None
    Pushers = {p1, p2}
    Readers = {r1}
    Announcers = {}
    Refs <- MCRefs
    Branches <- MCRefs
    Main = 1
    Commits <- MCCommits
    Reach <- MCReach
    NumRefs = 2
    NumCommits = 3
    MaxPacks = 1
    CompactAt = 1

SYMMETRY MCSymmetry

INVARIANT Closed
INVARIANT HeadPublished
INVARIANT ReadersComplete
INVARIANT Linear
INVARIANT ConflictHasWinner
PROPERTY RefinesRefStore
