--------------------------- MODULE MCStudioBroker ---------------------------
EXTENDS StudioBrokerProperties, TLC
Interchangeable == Permutations(Sessions)
=============================================================================
