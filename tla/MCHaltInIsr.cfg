SPECIFICATION Spec
CONSTANTS
    Costs = {4}
    HaltSites <- MCHaltSites
    StopSites <- MCStopSites
    MaxNest = 2
    IeStores <- MCIeStores
    IfStores <- MCIfStores
    Requests <- MCRequests
PROPERTIES
    HaltAlwaysHalts
