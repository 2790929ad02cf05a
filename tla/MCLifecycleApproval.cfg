SPECIFICATION OrderlySpec
CONSTANTS
    Capability = {c1, c2}
    MaxUses = 1
PROPERTIES
    ArrivesUnapproved
