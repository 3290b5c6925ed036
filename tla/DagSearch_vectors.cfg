\* A root and three tasks, vectors of up to two names, every order of the keys.
CONSTANTS
    root = root
    a = a
    b = b
    c = c
    Name <- RootAndThree
    Root = root
    MaxListed = 2
SPECIFICATION Spec
INVARIANTS RunOrderIsComplete
PROPERTIES ImplementsTaskGraph SearchesEnd
