CONSTANTS
    o1 = o1
    o2 = o2
    t1 = t1
    Orders = {o1, o2}
    Targets = {t1}
    TransportTargets = {t1}
    StayCarts = {}
    TargetOf <- OneTarget
    NoPayment = NoPayment
    StrayNotices <- ForgedAndMismatched
SPECIFICATION Spec
INVARIANTS
    TypeOK
    StatusIsEvidenced
    PaidMarkHasPayment
    SuccessLeavesMark
    OneReceiptPerSuccess
PROPERTIES
    FinalPaymentIsStable
