SPECIFICATION Spec
CONSTANTS
    Players = {p1, p2}
    Limit <- MCLimit
    Interval = 1
    MaxKills = 3
SYMMETRY Symmetry
CONSTRAINT FewKills
INVARIANTS
    TypeOK
    StreakCounts
    TowersFollow
PROPERTIES
    SkillsSpaced
