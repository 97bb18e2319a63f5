CONSTANTS
    Clients = {c1, c2}
    Endings = {"exit", "eof"}
SPECIFICATION FairPipelineSpec
INVARIANTS OneRequestPerWaiter KernelStopsAlone
PROPERTIES ImplementsRequestService ClientAnswered ConsoleAnswered EofShutdownCompletes
CHECK_DEADLOCK FALSE
