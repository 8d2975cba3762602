\* Two submissions that can fail are enough for them to overtake each other on the list and
\* in the pool; three seconds of outage give each of them a wait of one and one of two seconds.
CONSTANTS
    Unlocks = {cup}
    Entries = {lap}
    Outage = 3
    None = None
SPECIFICATION FairSpec
INVARIANTS TypeOK NeverInflated
PROPERTIES SubmissionsKept OutageEnds ScheduleSound AlarmOnce
