CONSTANTS Products = {TRUE, FALSE}
          MaxTries = 2
          MaxWait = 2
          MaxList = 2
          MaxRequests = 3
          MaxPresses = 2
          MaxCrashes = 2
SPECIFICATION FairSpec
INVARIANTS DeviceInv
PROPERTIES ErasedByReset ModesReached
