SPECIFICATION Spec
CONSTANT
    Cases <- MCCases
INVARIANTS
    OneDescriptor
    ServerFound
    ListComplete
