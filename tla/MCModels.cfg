CONSTANT None = None
SPECIFICATION Spec
INVARIANT ReceiptRoundTrip
