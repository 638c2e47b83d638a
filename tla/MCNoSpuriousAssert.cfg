CONSTANT Machines <- OrderedMachines
CONSTANT Radix = 2
SPECIFICATION Spec
INVARIANT NoSpuriousAssert
