\* Sizes are added modulo 8.
SPECIFICATION Spec
CONSTANTS
    Word = 8
    Machines <- MCMachines
INVARIANTS
    NothingHeldAtHalt
    ModulesAreListed
PROPERTY
    ReachesHalt
