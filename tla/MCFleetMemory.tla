---------------------------- MODULE MCFleetMemory ----------------------------
EXTENDS FleetMemory

CONSTANTS a, b, t1, t2

MCWorkers == {a, b}
MCTasks == {t1, t2}
MCContracts == {[w \in MCWorkers |-> IF w = a THEN [task |-> t1, eligible |-> TRUE] ELSE k] :
                    k \in [task : MCTasks, eligible : BOOLEAN] \ {[task |-> t2, eligible |-> FALSE]}}
MCSkew == [w \in MCWorkers |-> IF w = b THEN 1 ELSE 0]
MCOrigins == {"absent", "foreign", "legacy", "reusable"}
=============================================================================
