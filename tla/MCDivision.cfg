SPECIFICATION Spec
CONSTANT W = 3
INVARIANTS TypeOK DividesCorrectly LeadingBitsDivided EntersAsCommented
