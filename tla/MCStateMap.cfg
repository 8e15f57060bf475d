SPECIFICATION Spec
CONSTANTS
    Nodes = {1, 2, 3, 4, 5}
    Shapes = {1, 2, 3, 4}
    Shape <- ShapeOf5
    Hashes = {7, 8, 9}
    InitialCapacity = 1
INVARIANTS
    TableSound
PROPERTIES
    ImplementsRegistry
    CallsReturn
