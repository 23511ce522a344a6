------------------------ MODULE MCValkeySinkCluster ------------------------
(***************************************************************************)
(* ValkeySinkCluster on two nodes and three slots: both nodes are masters, *)
(* one of them of two ranges, or one is the replica of the other.          *)
(***************************************************************************)
EXTENDS ValkeySinkCluster

CONSTANTS n1, n2, t1, none, anonymous

MCSlots == 0..2
MCSlotOf == [k \in {"a", "b"} |-> IF k = "a" THEN 0 ELSE 2]

Unmoved == [s \in MCSlots |-> none]
Cluster(owner, replicas, auth) ==
    [owner |-> owner, replicas |-> replicas, auth |-> auth, migrating |-> Unmoved]

NoReplicas == [n \in {n1, n2} |-> <<>>]
TwoMasters == [s \in MCSlots |-> IF s = 1 THEN n2 ELSE n1]
OneMaster == [s \in MCSlots |-> IF s = 2 THEN none ELSE n1]

MCSetups ==
    {<<Cluster(TwoMasters, NoReplicas, {}), none>>,
     <<Cluster(TwoMasters, NoReplicas, {t1}), none>>,
     <<Cluster(OneMaster, [NoReplicas EXCEPT ![n1] = <<n2>>], {}), n2>>}

MCTokenOf == [p \in {"good", "bad"} |-> IF p = "good" THEN t1 ELSE anonymous]
MCBatches ==
    {<<<<"GET", "a">>, <<"GET", "b">>>>, <<<<"AUTH", "good">>, <<"DBSIZE">>>>,
     <<<<"PING">>, <<"SCAN">>>>}
MCContacts == {n1}
=============================================================================
