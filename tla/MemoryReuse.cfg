\* Every small program, both policies, every order of the tasks.
SPECIFICATION MemorySpec
CONSTANTS
    Program <- Programs
    Policy <- Both
    Alignment = 2
INVARIANTS
    InputsIntact
    EdgesAcyclic
CHECK_DEADLOCK FALSE
