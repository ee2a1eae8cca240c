\* Two keys; the clock runs for more than three times the TTL.
SPECIFICATION Spec
CONSTANTS
    Kids = {k1, k2}
    Ttl = 2
    MaxTime = 7
INVARIANTS WithdrawnKeyExpires PublishedKeyIsKnown
