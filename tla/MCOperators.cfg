SPECIFICATION Spec
CONSTANT Operands <- MCOperands
INVARIANTS TypeOK FormalMeans RuntimeMeans CirctMeans
