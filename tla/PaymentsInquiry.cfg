CONSTANTS
    o1 = o1
    o2 = o2
    t1 = t1
    Orders = {o1}
    Targets = {t1}
    TransportTargets = {}
    StayCarts = {t1}
    TargetOf <- OneTarget
    NoPayment = NoPayment
    StrayNotices <- Forged
SPECIFICATION FairSpec
PROPERTIES
    ImplementsLedger
    PaymentFollowsGateway
