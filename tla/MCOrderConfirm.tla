--------------------------- MODULE MCOrderConfirm ---------------------------
EXTENDS OrderConfirm, TLC

\* Chats and symbols are interchangeable.
Interchangeable == Permutations(Chats) \cup Permutations(Symbols)

=============================================================================
