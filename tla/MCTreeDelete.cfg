CONSTANT LastKey = 8
SPECIFICATION Spec
INVARIANT DeleteRebalances
