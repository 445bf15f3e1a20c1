SPECIFICATION ReadSpec
CONSTANTS
    Wanted = {s1}
    Strays = {x1}
    Contents = {a, b}
    Copies = 2
    Group = 2
    Supplies = {Unlimited, 0, 1, 2}
    Retries = 2
    Unlimited = Unlimited
INVARIANTS SectorsTrue GoodReadIsClean NoEarlyGivingUp
PROPERTIES ReadEnds
