SPECIFICATION Spec
CONSTANT Events <- MCEvents
INVARIANTS
    MCHitsHaveTheirRawHit
    DigiHitsExact
