SPECIFICATION Spec
CONSTANT Layout <- MCLayout
INVARIANT HalfIsCompleted
