-------------------------- MODULE MCStoreReadModel --------------------------
EXTENDS StoreReadModel

CONSTANTS o1, s1

\* An offering with one specification.
MCPartsOf == [o \in Offerings |-> <<s1>>]
=============================================================================
