SPECIFICATION Spec
CONSTANTS
    Peer = {q1}
    Chain = {main}
    Conn = {c1, c2}
    MaxActivations = 2
SYMMETRY Symmetry
INVARIANTS
    ReadersCounted
    BindingsCounted
    RetiredStaysEmpty
