SPECIFICATION FairSpec
CONSTANTS
    d1 = d1
    Deliveries = {d1}
    NoDelivery = none
    MaxGen = 5
    MaxSends = 0
    MaxFaults = 2
    Faults = {"link"}
    CommandLimit = 1
PROPERTY
    PhoneLearnsTheMac
CHECK_DEADLOCK FALSE
