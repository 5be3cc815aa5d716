\* Every pair of layouts, booted in every way, with one failed operation.
SPECIFICATION Spec
CONSTANTS
    Machines <- SmallMachines
    EntriesPerGrowth = 2
    MaxFaults = 1
    Selectors <- SmallSelectors
INVARIANTS
    TableIsExact
    EntriesAreReal
    PointersAreLive
    ConfigByPreference
    PathsLeadWhereTheySay
PROPERTY
    SearchEnds
