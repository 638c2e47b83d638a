CONSTANT Machines <- MCMachines
SPECIFICATION NormalizeSpec
INVARIANT TypeOK
INVARIANT Topological
INVARIANT CycleAlarmJustified
INVARIANT DoneIsVerified
INVARIANT NamesFollow
INVARIANT ValidPrefixKept
INVARIANT Isomorphic
INVARIANT BinaryLayout
INVARIANT LayoutRepaired
PROPERTY Termination
