CONSTANT Designs <- ArrayReadFirst
SPECIFICATION Spec
INVARIANT OutputsAgree
