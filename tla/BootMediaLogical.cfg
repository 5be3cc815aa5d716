\* A disk with three logical partitions.
SPECIFICATION Spec
CONSTANTS
    Machines <- LogicalMachines
    EntriesPerGrowth = 2
    MaxFaults = 0
    Selectors <- SmallSelectors
INVARIANT
    TableIsExact
