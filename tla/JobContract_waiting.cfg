SPECIFICATION ContractSpec
CONSTANTS
    Machines = {"m1", "m2"}
    Texts <- SampleTexts
    Bodies <- SampleBodies
    Workers <- SampleWorkers
    MasterMaxItems = 2
INVARIANTS
    WaitingIsForTheNetwork
CHECK_DEADLOCK FALSE
