\* The in-memory heap against the contract of JobQueue.
SPECIFICATION Spec
CONSTANTS
    fixed = fixed
    Details = {a1, a2, a3, a4, a5, fixed}
    JobKeys = {a1, a2, a3, a4, a5, fixed}
    KeyOf <- MCKeyOf
    Replace = {a1, a2, a3, a4, a5}
    Priorities = {0, 1, 2}
    Selections <- MCSelections
SYMMETRY MCSymmetry
INVARIANTS HeapOrdered
PROPERTIES ImplementsQueue
