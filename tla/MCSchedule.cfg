CONSTANT Designs <- MCDesigns
SPECIFICATION Spec
INVARIANT OrderIrrelevant
