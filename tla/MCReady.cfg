SPECIFICATION Spec
CONSTANTS
    Files = {f1}
    Requests = {r1}
INVARIANT ReadyIsInQdrant
