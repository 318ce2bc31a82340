--------------------------- MODULE MCDeviceConfig ---------------------------
(* DeviceConfig and DeviceMemory for TLC: drivers and pages are interchangeable. *)
EXTENDS DeviceMemory, TLC

Symmetry == Permutations(Drivers) \cup Permutations(Pages)

\* Bound on the reference counts, which the code does not keep above zero, and
\* which files of freed devices never give back.
RefBound ==
  /\ \A drv \in Drivers : module_refs[drv] \in -2 .. 2 * MaxOpen
  /\ core_refs \in 0 .. 3 * MaxOpen

=============================================================================
