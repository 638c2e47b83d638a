CONSTANT Machines <- MCMachines
CONSTANT Radix = 2
SPECIFICATION Spec
INVARIANT TypeOK
INVARIANT RoundTrip
INVARIANT WrittenIsReadable
INVARIANT UnderflowOnlyOnComplement
