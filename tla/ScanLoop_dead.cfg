SPECIFICATION LiveSpec
CONSTANTS
    Calls = {c1, c2}
    MaxProviders = 3
    MaxErrs = 2
PROPERTIES
    DeadProviderReplaced
