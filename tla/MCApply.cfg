SPECIFICATION Spec
CONSTANTS
    Path = {1, 2, 3}
    Sensitive = {1, 3}
INVARIANTS SensitiveAuthentic NothingHalfApplied AppliedHonest AtMostOneExposed
