----------------------------- MODULE MCReflector -----------------------------
(***************************************************************************)
(* A machine of three CPUs in two cores, and the sensors of linux_sensors. *)
(***************************************************************************)
EXTENDS Reflector

\* The third CPU has a core to itself.
CoreIds == [cpu \in {0, 1, 2} |-> IF cpu = 2 THEN 1 ELSE 0]

SensorOrder ==
    <<"frequency", "idle", "thermal", "power", "scheduler", "interrupts", "counters">>
=============================================================================
