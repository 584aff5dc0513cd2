\* Two announcements and a push.
SPECIFICATION Spec
CHECK_DEADLOCK FALSE

CONSTANTS
    p1 = p1
    r1 = r1
    a1 = a1
    a2 = a2
    None = None
    Pushers = {p1}
    Readers = {r1}
    Announcers = {a1, a2}
    Refs <- MCRefs
    Branches <- MCRefs
    Main = 1
    Commits <- MCCommits
    Reach <- MCReach
    NumRefs = 1
    NumCommits = 1
    MaxPacks = 1
    CompactAt = 1

SYMMETRY MCSymmetry

INVARIANT AcceptedHasPointer
INVARIANT EventsCommitted
