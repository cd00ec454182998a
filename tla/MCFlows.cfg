CONSTANTS
    Nodes = {n1, n2}
    MaxVersion = 2
    MaxCrashes = 1
SPECIFICATION FairSpec
INVARIANTS TypeOK OneLoad NoLostReload
PROPERTIES NeverOlder ReplicaSpec CatchesUp LoadsAgain
CHECK_DEADLOCK FALSE
