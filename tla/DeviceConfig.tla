---------------------------- MODULE DeviceConfig ----------------------------
(***************************************************************************)
(* Configuring devices and keeping their drivers in memory: comedi_open,   *)
(* comedi_close and the COMEDI_DEVCONFIG ioctl of comedi_fops.c, attach,   *)
(* detach and the list of drivers of drivers.c.                            *)
(*                                                                         *)
(* A driver is a kernel module with a reference count; the kernel unloads  *)
(* it only at count 0.  Every operation here runs under the mutex of its   *)
(* device, except while comedi_open waits for request_module.              *)
(*                                                                         *)
(* use_count is what the device believes, files is the truth: they part    *)
(* when a device is freed under its files (DeviceMemory).                  *)
(***************************************************************************)
EXTENDS Integers, FiniteSets

CONSTANTS Devices,      \* the comedi_device of the legacy minors
          Drivers,      \* comedi_driver, one per kernel module
          None,         \* the null pointer
          MaxOpen,      \* bound on the open files of a device
          ConfigAlone   \* devices are configured by the only process with the
                        \* device open, as comedi_config is meant to be used

ASSUME DeviceConfigAssumption ==
  /\ IsFiniteSet(Devices)
  /\ None \notin Drivers
  /\ MaxOpen \in Nat
  /\ ConfigAlone \in BOOLEAN

VARIABLES driver,             \* dev->driver when dev->attached, else None
          use_count,          \* dev->use_count
          files,              \* files that are open on the minor of the device
          in_request_module,  \* dev->in_request_module
          requesting,         \* the opener that waits in request_module
          hook,               \* dev->open has run and dev->close has not
          comedi_drivers,     \* the list of registered drivers
          module_refs,        \* reference count of each driver's module
          core_refs           \* reference count of the comedi module

vars == <<driver, use_count, files, in_request_module, requesting, hook,
          comedi_drivers, module_refs, core_refs>>

Privileges == {"root", "user"}

Attached(d) == driver[d] # None

Bump(f, x, n) == [f EXCEPT ![x] = @ + n]

-----------------------------------------------------------------------------
\* Mutant: only the first user holds the driver's module.
OpenOkMutant(d) ==
  /\ files[d] < MaxOpen
  /\ files' = Bump(files, d, 1)
  /\ core_refs' = core_refs + 1
  /\ use_count' = Bump(use_count, d, 1)
  /\ IF Attached(d) /\ use_count[d] = 0
     THEN /\ module_refs' = Bump(module_refs, driver[d], 1)
          /\ hook' = [hook EXCEPT ![d] = TRUE]
     ELSE UNCHANGED <<module_refs, hook>>

\* The label ok of comedi_open: references are taken, the driver's open hook
\* runs for the first user, and the device is in use.
OpenOk(d) ==
  /\ files[d] < MaxOpen
  /\ files' = Bump(files, d, 1)
  /\ core_refs' = core_refs + 1
  /\ use_count' = Bump(use_count, d, 1)
  /\ IF Attached(d)
     THEN /\ module_refs' = Bump(module_refs, driver[d], 1)
          /\ hook' = [hook EXCEPT ![d] = @ \/ use_count[d] = 0]
     ELSE UNCHANGED <<module_refs, hook>>

\* comedi_open of an attached device, or by root from inside request_module.
Open(d, who) ==
  /\ Attached(d) \/ (who = "root" /\ in_request_module[d])
  /\ OpenOk(d)
  /\ UNCHANGED <<driver, in_request_module, requesting, comedi_drivers>>

\* comedi_open of an unattached device: it lets go of the mutex and asks for a
\* module.
OpenRequests(d, who) ==
  /\ ~Attached(d)
  /\ ~in_request_module[d]
  /\ in_request_module' = [in_request_module EXCEPT ![d] = TRUE]
  /\ requesting' = [requesting EXCEPT ![d] = who]
  /\ UNCHANGED <<driver, use_count, files, hook, comedi_drivers, module_refs, core_refs>>

\* Mutant: in_request_module stays set when the opener is refused.
OpenResumesMutant(d) ==
  /\ requesting[d] # "nobody"
  /\ requesting' = [requesting EXCEPT ![d] = "nobody"]
  /\ IF Attached(d) \/ requesting[d] = "root"
     THEN /\ OpenOk(d)
          /\ in_request_module' = [in_request_module EXCEPT ![d] = FALSE]
     ELSE UNCHANGED <<use_count, files, hook, module_refs, core_refs, in_request_module>>
  /\ UNCHANGED <<driver, comedi_drivers>>

\* request_module has returned.
OpenResumes(d) ==
  /\ requesting[d] # "nobody"
  /\ in_request_module' = [in_request_module EXCEPT ![d] = FALSE]
  /\ requesting' = [requesting EXCEPT ![d] = "nobody"]
  /\ IF Attached(d) \/ requesting[d] = "root"
     THEN OpenOk(d)
     ELSE UNCHANGED <<use_count, files, hook, module_refs, core_refs>>
  /\ UNCHANGED <<driver, comedi_drivers>>

\* Mutant: the close hook waits for a count of 0, which comes after it.
CloseMutant(d) ==
  /\ files[d] > 0
  /\ files' = Bump(files, d, -1)
  /\ hook' = [hook EXCEPT ![d] = @ /\ ~(Attached(d) /\ use_count[d] = 0)]
  /\ core_refs' = core_refs - 1
  /\ module_refs' = IF Attached(d)
                    THEN Bump(module_refs, driver[d], -1)
                    ELSE module_refs
  /\ use_count' = Bump(use_count, d, -1)
  /\ UNCHANGED <<driver, in_request_module, requesting, comedi_drivers>>

\* comedi_close; its subdevices are the matter of Subdevice.
Close(d) ==
  /\ files[d] > 0
  /\ files' = Bump(files, d, -1)
  /\ hook' = [hook EXCEPT ![d] = @ /\ ~(Attached(d) /\ use_count[d] = 1)]
  /\ core_refs' = core_refs - 1
  /\ module_refs' = IF Attached(d)
                    THEN Bump(module_refs, driver[d], -1)
                    ELSE module_refs
  /\ use_count' = Bump(use_count, d, -1)
  /\ UNCHANGED <<driver, in_request_module, requesting, comedi_drivers>>

\* A process that may use COMEDI_DEVCONFIG has the device open.
MayConfigure(d) ==
  /\ files[d] > 0
  /\ ConfigAlone => files[d] = 1

\* Mutant: the file that asked does not hold the module.
AttachMutant(d, drv) ==
  /\ MayConfigure(d)
  /\ ~Attached(d)
  /\ drv \in comedi_drivers
  /\ driver' = [driver EXCEPT ![d] = drv]
  /\ hook' = [hook EXCEPT ![d] = FALSE]
  /\ UNCHANGED <<use_count, files, in_request_module, requesting, comedi_drivers,
                 module_refs, core_refs>>

\* COMEDI_DEVCONFIG: comedi_device_attach succeeds with driver drv, whose
\* module is held for the file that asked.  The reference comedi_device_attach
\* takes and drops on the way is gone when the mutex is released, and an attach
\* that fails undoes itself.
Attach(d, drv) ==
  /\ MayConfigure(d)
  /\ ~Attached(d)
  /\ drv \in comedi_drivers
  /\ driver' = [driver EXCEPT ![d] = drv]
  /\ module_refs' = Bump(module_refs, drv, 1)
  /\ hook' = [hook EXCEPT ![d] = FALSE]
  /\ UNCHANGED <<use_count, files, in_request_module, requesting, comedi_drivers,
                 core_refs>>

\* COMEDI_DEVCONFIG without an argument, on a device with no busy subdevice and
\* no mapped buffer.
Detach(d) ==
  /\ MayConfigure(d)
  /\ Attached(d)
  /\ driver' = [driver EXCEPT ![d] = None]
  /\ module_refs' = Bump(module_refs, driver[d], -1)
  /\ UNCHANGED <<use_count, files, in_request_module, requesting, hook,
                 comedi_drivers, core_refs>>

\* insmod: comedi_driver_register.
Register(drv) ==
  /\ drv \notin comedi_drivers
  /\ comedi_drivers' = comedi_drivers \cup {drv}
  /\ UNCHANGED <<driver, use_count, files, in_request_module, requesting, hook,
                 module_refs, core_refs>>

\* rmmod, which the kernel allows when nobody holds the module; the devices ds are
\* detached.
Unload(drv, ds) ==
  /\ drv \in comedi_drivers
  /\ module_refs[drv] = 0
  /\ driver' = [d \in Devices |-> IF d \in ds THEN None ELSE driver[d]]
  /\ comedi_drivers' = comedi_drivers \ {drv}
  /\ UNCHANGED <<hook, module_refs>>

\* The devices that use the driver.
UsersOf(drv) == {d \in Devices : driver[d] = drv}

\* comedi_driver_unregister detaches them.
Unregister(drv) ==
  /\ Unload(drv, UsersOf(drv))
  /\ UNCHANGED <<use_count, files, in_request_module, requesting, core_refs>>

Init ==
  /\ driver = [d \in Devices |-> None]
  /\ use_count = [d \in Devices |-> 0]
  /\ files = [d \in Devices |-> 0]
  /\ in_request_module = [d \in Devices |-> FALSE]
  /\ requesting = [d \in Devices |-> "nobody"]
  /\ hook = [d \in Devices |-> FALSE]
  /\ comedi_drivers = {}
  /\ module_refs = [drv \in Drivers |-> 0]
  /\ core_refs = 0

Next ==
  \/ \E d \in Devices :
       \/ \E who \in Privileges : Open(d, who) \/ OpenRequests(d, who)
       \/ OpenResumes(d) \/ Close(d) \/ Detach(d)
       \/ \E drv \in Drivers : Attach(d, drv)
  \/ \E drv \in Drivers : Register(drv) \/ Unregister(drv)

Spec == Init /\ [][Next]_vars

-----------------------------------------------------------------------------
(* Properties. *)

\* Types; an attached device has a registered driver, no more uses are counted
\* than there are files, and one opener at a time waits for a module.
TypeOK ==
  /\ driver \in [Devices -> comedi_drivers \cup {None}]
  /\ files \in [Devices -> 0 .. MaxOpen]
  /\ use_count \in [Devices -> Int]
  /\ \A d \in Devices : use_count[d] \in (files[d] - MaxOpen) .. files[d]
  /\ in_request_module \in [Devices -> BOOLEAN]
  /\ requesting \in [Devices -> Privileges \cup {"nobody"}]
  /\ \A d \in Devices : in_request_module[d] <=> requesting[d] # "nobody"
  /\ hook \in [Devices -> BOOLEAN]
  /\ comedi_drivers \subseteq Drivers
  /\ module_refs \in [Drivers -> Int]
  /\ core_refs \in Int

\* The open files of the devices ds, as <<device, number>>.
OpenFiles(ds) == {f \in ds \X (1 .. MaxOpen) : f[2] <= files[f[1]]}

\* Every open file of an attached device holds its driver's module once,
\* whichever of open and attach came first, and nothing else holds it; every
\* open file holds comedi itself.
RefsCountOpens ==
  /\ \A drv \in Drivers : module_refs[drv] = Cardinality(OpenFiles(UsersOf(drv)))
  /\ core_refs = Cardinality(OpenFiles(Devices))

\* Unloading a driver never takes a device away from an open file
\* (the message "BUG! detaching device with use_count" in
\* comedi_driver_unregister).
NoDetachInUse ==
  [][\A d \in Devices :
       Attached(d) /\ driver[d] \notin comedi_drivers' => files[d] = 0]_vars

\* A device that is attached and that nobody has open has its close hook behind
\* it, even if use_count is wrong.
UnusedIsClosed ==
  \A d \in Devices : Attached(d) /\ files[d] = 0 => ~hook[d]

=============================================================================
