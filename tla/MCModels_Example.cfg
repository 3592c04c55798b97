CONSTANT None = None
SPECIFICATION Spec
INVARIANT ExampleListsCapabilities
