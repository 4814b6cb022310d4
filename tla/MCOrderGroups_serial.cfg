SPECIFICATION Spec
CONSTANT Orders = {1, 2}
CONSTANT Handlers = {h1}
CONSTANT None = None
CONSTANT MaxRequests = 8
INVARIANT OneAtATime
PROPERTY StepsOneAtATime
PROPERTY ImplementsLifecycle
CHECK_DEADLOCK FALSE
