------------------------------ MODULE MCMigration ------------------------------
EXTENDS Migration, TLC

CONSTANTS alice, bob, S, T

Row(role) == [role |-> role, active |-> TRUE, id |-> 0, password |-> 0]
MCWishes == {[Keep EXCEPT !.active = "off"], [Keep EXCEPT !.role = "admin"]}

(* What may still happen in a behaviour: each counter starts that far from *)
(* its bound.                                                              *)
Budgets == {[calls |-> 2, jobs |-> 0, switches |-> 0, writes |-> 0, faults |-> 0],
            [calls |-> 1, jobs |-> 0, switches |-> 0, writes |-> 0, faults |-> 1],
            [calls |-> 1, jobs |-> 1, switches |-> 1, writes |-> 0, faults |-> 0],
            [calls |-> 0, jobs |-> 1, switches |-> 1, writes |-> 2, faults |-> 1],
            [calls |-> 0, jobs |-> 2, switches |-> 2, writes |-> 1, faults |-> 1]}

(* Two superadmins, both logged in; a target that is empty, or holds what  *)
(* is left of a document that is gone.                                     *)
MCInit ==
  /\ \E b \in Budgets :
       /\ calls = MaxCalls - b.calls /\ jobs = MaxJobs - b.jobs
       /\ switches = MaxSwitches - b.switches /\ writes = MaxWrites - b.writes
       /\ faults = MaxFaults - b.faults
  /\ Started(alice :> Row("superadmin") @@ bob :> Row("superadmin"))
  /\ tokens = Users
  /\ docs = (S :> {1} @@ T :> {}) /\ points \in {S :> {1} @@ T :> {}, S :> {1} @@ T :> {2}}

MCSpec == MCInit /\ [][Next]_vars /\ WF_vars(Copy) /\ WF_vars(Serve)
================================================================================
