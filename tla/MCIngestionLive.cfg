SPECIFICATION LiveSpec
CONSTANTS
    Files = {f1, f2}
    Requests = {r1, r2}
PROPERTIES EveryFileSettles EveryDeleteReturns
