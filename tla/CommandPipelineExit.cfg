CONSTANTS
    Clients = {c1}
    Endings = {"exit"}
SPECIFICATION FairPipelineSpec
PROPERTIES ShutdownCompletes
CHECK_DEADLOCK FALSE
