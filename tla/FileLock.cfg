SPECIFICATION FairSpec
CONSTANTS
    a1 = a1
    a2 = a2
    b1 = b1
    b2 = b2
    app = app
    cli = cli
    Threads = {a1, a2, b1, b2}
    Procs = {app, cli}
    ProcOf <- MCProcOf
    MaxFaults = 3
INVARIANTS
    OneHolder
PROPERTIES
    WaiterServed
