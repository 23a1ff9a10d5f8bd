SPECIFICATION Spec
CONSTANTS
    MaxQueue = 1
    MaxUiTests = 1
INVARIANTS
    NoUseAfterDestroy
