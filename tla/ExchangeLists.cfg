CONSTANT Meshes <- MCMeshes
SPECIFICATION Spec
INVARIANTS MessagesMatchReceives EveryNeedIsMet
PROPERTY Terminates
CHECK_DEADLOCK FALSE
