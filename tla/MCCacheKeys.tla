----------------------------- MODULE MCCacheKeys -----------------------------
EXTENDS CacheKeys

CONSTANTS p, c, e

Parents == [k \in Key |-> IF k = c THEN p ELSE NoKey]
=============================================================================
