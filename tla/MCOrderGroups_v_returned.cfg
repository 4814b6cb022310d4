SPECIFICATION Spec
CONSTANT Orders = {1, 2}
CONSTANT Handlers = {h1, h2}
CONSTANT None = None
CONSTANT MaxRequests = 2
SYMMETRY HandlerSymmetry
INVARIANT ReturnedOnce
CHECK_DEADLOCK FALSE
