CONSTANT Machines <- MCMachines
SPECIFICATION CycleSpec
INVARIANT TypeOK
INVARIANT Settling
PROPERTY ImplementsCircuit
