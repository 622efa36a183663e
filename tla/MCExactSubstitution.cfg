\* One caller, call after call, over two tiers and two partitions, among
\* publishers of receipts; switch, policy and key registry edited under it.
SPECIFICATION LiveSpec
CONSTANTS
    near = near
    far = far
    a0 = a0
    a1 = a1
    tenant = tenant
    none = none
    us = us
    them = them
    k1 = k1
    k2 = k2
    Callers = {c1}
    Stores <- MCStores
    Actions = {a0, a1}
    PartitionOf <- MCPartitionOf
    Tokens = {tenant}
    NoToken = none
    Producers = {us}
    OwnProducer = us
    Keys = {k1, k2}
    NoKey = NoKey
    Documents <- MCDocuments
    Registries <- MCRegistries
    PublishTo = near
    NoTier = NoTier
    NoPolicy = NoPolicy
    Nothing = Nothing
    Freshness = 1
    Strangers <- MCStrangers
    MaxTime = 1
    MaxEdits = 1
    MaxWrites = 1
INVARIANTS PolicyHonoured PartitionsApart ReceiptHonoured
PROPERTY CallsEnd
