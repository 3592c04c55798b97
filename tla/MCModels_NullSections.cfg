CONSTANT None = None
SPECIFICATION Spec
INVARIANT GrantParseTotal
