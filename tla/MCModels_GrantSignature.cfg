\* A grant as create_trust_grant returns it, read back by parse_trust_grant.
CONSTANT None = None
SPECIFICATION Spec
INVARIANT GrantRoundTrip
