CONSTANTS
    n1 = n1
    n2 = n2
    t1 = t1
    none = none
    anonymous = anonymous
    NoNode = none
    NoToken = anonymous
    Nodes = {n1, n2}
    Tokens = {t1}
    connection_count = 1
    Clients = {"c1", "c2"}
    SlotOf <- MCSlotOf
    Batches <- MCBatches
    TokenOf <- MCTokenOf
    Slots <- MCSlots
    Setups <- MCSetups
    first_contact_points <- MCContacts
    MaxCalls = 2
    MaxFaults = 1
SPECIFICATION Spec
INVARIANTS
    AnsweredInOrder
    LanesAreSeparate
    SlotMapExact
    AwaitedIsPending
