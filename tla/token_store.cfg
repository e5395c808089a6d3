SPECIFICATION Spec
CONSTANTS
    Tokens = {t1, t2, t3}
    Symbols = {w, x, y, z}
    Priorities = {0, 1}
SYMMETRY Symmetry
INVARIANTS
    TypeOK
    KeysApartInACycle
