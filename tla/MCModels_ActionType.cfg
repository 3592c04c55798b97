CONSTANT None = None
SPECIFICATION Spec
INVARIANT ActionTypeKnown
