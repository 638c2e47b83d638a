CONSTANT Machines <- MCMachines
CONSTANT Cases <- MCCases
SPECIFICATION Spec
INVARIANT ModelCoversDesign
INVARIANT RebuiltVerifies
