CONSTANT Designs <- MCDesigns
SPECIFICATION Spec
INVARIANT TypeOK
INVARIANT RefusedOnlyUnordered
INVARIANT RegistersAgree
INVARIANT OutputsAgree
INVARIANT Settled
INVARIANT PanicMeansNoFixedPoint
