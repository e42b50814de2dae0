SPECIFICATION Spec
CONSTANT Events <- MCEvents
INVARIANT CaloChargesAddUp
