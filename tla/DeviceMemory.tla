---------------------------- MODULE DeviceMemory ----------------------------
(***************************************************************************)
(* What a device owns while it is attached: the pages of the buffer of its *)
(* streaming subdevice (comedi_buf_alloc, resize_async_buffer), what user  *)
(* processes have mapped of them, the ring of DMA descriptors its driver   *)
(* keeps in step with them (s->buf_change), the minor number of its        *)
(* subdevice; and the devices that drivers configure by themselves         *)
(* (comedi_auto_config).  DeviceConfig says when a device is attached.     *)
(*                                                                         *)
(* Every action runs under the mutex of its device, but for AutoProbe,     *)
(* which shows a device that is not attached, and for the freeing of a     *)
(* device, which does not wait for those who have it open.  Sizes are in   *)
(* pages.                                                                  *)
(***************************************************************************)
EXTENDS DeviceConfig, FiniteSetsExt

CONSTANTS AutoDevices,   \* the devices of boards that are found by their drivers
          Pages,         \* the memory for buffers
          DefaultPages,  \* DEFAULT_BUF_SIZE
          MaxPages,      \* async->max_bufsize
          MaxMaps,       \* bound on the mappings of a buffer
          NumMinors,     \* the minors from COMEDI_FIRST_SUBDEVICE_MINOR on
          ProbeAlone     \* root opens no device that its driver is about to
                         \* attach

ASSUME DeviceMemoryAssumption ==
  /\ AutoDevices \subseteq Devices
  /\ None \notin Devices
  /\ DefaultPages \in 1 .. MaxPages
  /\ MaxPages \in Nat
  /\ MaxMaps \in Nat
  /\ NumMinors \in Nat
  /\ ProbeAlone \in BOOLEAN

VARIABLES bound,    \* the driver that has found an automatic device
          probing,  \* the driver has not come to attach it
          buf,      \* buf_page_list; empty when prealloc_buf is null
          ring,     \* the pages the descriptors of the driver point to
          busy,     \* s->busy: a command runs
          maps,     \* async->mmap_count
          mapped,   \* the pages the mappings show
          table,    \* comedi_file_info_table: the device of each minor
          minor     \* s->minor, -1 before there is one

memory == <<bound, probing, buf, ring, busy, maps, mapped, table, minor>>
memvars == <<vars, memory>>

Minors == 1 .. NumMinors

\* There is a board minor for the device.
Exists(d) == d \notin AutoDevices \/ bound[d] # None

Put(f, d, x) == [f EXCEPT ![d] = x]

FreePages == Pages \ UNION {buf[d] : d \in Devices}

-----------------------------------------------------------------------------
(* Attaching and detaching. *)

\* comedi_alloc_subdevice_minor: the first free minor, or none at all; its
\* result is ignored.
AllocSubdeviceMinor(d) ==
  LET free == {m \in Minors : table[m] = None}
  IN  IF free = {} THEN UNCHANGED <<table, minor>>
      ELSE /\ minor' = Put(minor, d, Min(free))
           /\ table' = [table EXCEPT ![Min(free)] = d]

\* postconfig of a device that gets its memory; without it the attach fails and
\* is undone.
Postconfig(d) ==
  /\ \E new \in kSubset(DefaultPages, FreePages) :
       buf' = Put(buf, d, new) /\ ring' = Put(ring, d, new)
  /\ AllocSubdeviceMinor(d)
  /\ UNCHANGED <<busy, maps, mapped>>

\* comedi_free_subdevice_minor of the subdevices of the devices ds.
FreeSubdeviceMinors(ds) ==
  /\ table' = [m \in Minors |-> IF \E d \in ds : minor[d] = m THEN None ELSE table[m]]
  /\ minor' = [d \in Devices |-> IF d \in ds THEN -1 ELSE minor[d]]

\* Mutant: the minor is kept.
CleanupDevicesMutant(ds) ==
  /\ buf' = [d \in Devices |-> IF d \in ds THEN {} ELSE buf[d]]
  /\ ring' = [d \in Devices |-> IF d \in ds THEN {} ELSE ring[d]]
  /\ minor' = [d \in Devices |-> IF d \in ds THEN -1 ELSE minor[d]]
  /\ busy' = [d \in Devices |-> d \notin ds /\ busy[d]]
  /\ UNCHANGED <<maps, mapped, table>>

\* cleanup_device, and the detach of the driver, of the devices ds: the
\* subdevices go, and with them what s->busy says.
CleanupDevices(ds) ==
  /\ buf' = [d \in Devices |-> IF d \in ds THEN {} ELSE buf[d]]
  /\ ring' = [d \in Devices |-> IF d \in ds THEN {} ELSE ring[d]]
  /\ FreeSubdeviceMinors(ds)
  /\ busy' = [d \in Devices |-> d \notin ds /\ busy[d]]
  /\ UNCHANGED <<maps, mapped>>

\* COMEDI_DEVCONFIG.
ConfigAttach(d, drv) ==
  /\ Exists(d)
  /\ Attach(d, drv)
  /\ Postconfig(d)
  /\ UNCHANGED <<bound, probing>>

\* COMEDI_DEVCONFIG without an argument: not when is_device_busy.  A device that
\* its driver has configured is left to the driver.
ConfigDetach(d) ==
  /\ ~busy[d]
  /\ maps[d] = 0
  /\ ConfigAlone => d \notin AutoDevices
  /\ Detach(d)
  /\ CleanupDevices({d})
  /\ UNCHANGED <<bound, probing>>

\* comedi_free_board_minor of the devices ds: dev is freed, and whoever has it open
\* keeps a file that leads nowhere.  An opener that waits in request_module goes on
\* with what was freed: late are those who get such a file, too; the others are
\* refused.
FreeDevices(ds) ==
  /\ bound' = [d \in Devices |-> IF d \in ds THEN None ELSE bound[d]]
  /\ probing' = [d \in Devices |-> d \notin ds /\ probing[d]]
  /\ use_count' = [d \in Devices |-> IF d \in ds THEN 0 ELSE use_count[d]]
  /\ in_request_module' = [d \in Devices |-> d \notin ds /\ in_request_module[d]]
  /\ requesting' = [d \in Devices |-> IF d \in ds THEN "nobody" ELSE requesting[d]]
  /\ \E late \in SUBSET {d \in ds : requesting[d] = "root" /\ files[d] < MaxOpen} :
       /\ files' = [d \in Devices |-> IF d \in late THEN files[d] + 1 ELSE files[d]]
       /\ core_refs' = core_refs + Cardinality(late)

\* comedi_auto_config, from the probe of a driver: comedi_alloc_board_minor, which
\* shows the device to everybody before it is attached.
AutoProbe(d, drv) ==
  /\ d \in AutoDevices
  /\ bound[d] = None
  /\ drv \in comedi_drivers
  /\ bound' = Put(bound, d, drv)
  /\ probing' = Put(probing, d, TRUE)
  /\ UNCHANGED <<vars, buf, ring, busy, maps, mapped, table, minor>>

\* Then it takes the mutex and attaches the device; it holds no module when it is
\* over, for nobody.
AutoAttach(d) ==
  /\ probing[d]
  /\ ~Attached(d)
  /\ bound[d] \in comedi_drivers
  /\ probing' = Put(probing, d, FALSE)
  /\ driver' = Put(driver, d, bound[d])
  /\ hook' = Put(hook, d, FALSE)
  /\ Postconfig(d)
  /\ UNCHANGED <<use_count, files, in_request_module, requesting, comedi_drivers,
                 module_refs, core_refs, bound>>

\* The attach fails, or COMEDI_DEVCONFIG came first, and the device is freed.
AutoFails(d) ==
  /\ probing[d]
  /\ driver' = Put(driver, d, None)
  /\ FreeDevices({d})
  /\ CleanupDevices({d})
  /\ UNCHANGED <<hook, comedi_drivers, module_refs>>

\* rmmod of a driver that nobody holds, which waits for its probes:
\* comedi_auto_unconfig frees the devices it has found, whatever is attached to
\* them by now, and comedi_driver_unregister detaches the others.
DriverExit(drv) ==
  LET found == {d \in Devices : bound[d] = drv}
      gone  == UsersOf(drv) \cup found
  IN  /\ \A d \in found : ~probing[d]
      /\ Unload(drv, gone)
      /\ FreeDevices(found)
      /\ CleanupDevices(gone)

DriverInit(drv) == Register(drv) /\ UNCHANGED memory

-----------------------------------------------------------------------------
(* Open files. *)

FileOpen(d) ==
  /\ Exists(d)
  /\ \/ \E who \in Privileges :
          /\ ProbeAlone /\ probing[d] => who = "user"
          /\ Open(d, who) \/ OpenRequests(d, who)
     \/ OpenResumes(d)
  /\ UNCHANGED memory

\* comedi_close ends the command of its file.  A file that is mapped is not
\* closed: the mapping holds it.  A file whose device was freed leads to no device,
\* or to the one that has its minor now, and puts nothing or what it never took.
FileClose(d) ==
  /\ maps[d] > 0 => files[d] > 1
  /\ IF Exists(d)
     THEN /\ Close(d)
          /\ busy' \in {Put(busy, d, FALSE)} \cup (IF files[d] > 1 THEN {busy} ELSE {})
     ELSE /\ files[d] > 0
          /\ files' = Bump(files, d, -1)
          /\ UNCHANGED <<driver, use_count, in_request_module, requesting, hook,
                         comedi_drivers, module_refs, core_refs, busy>>
  /\ UNCHANGED <<bound, probing, buf, ring, maps, mapped, table, minor>>

\* Mutant: a command does not look for its buffer.
CmdMutant(d) ==
  /\ Attached(d)
  /\ files[d] > 0
  /\ ~busy[d]
  /\ busy' = Put(busy, d, TRUE)
  /\ UNCHANGED <<vars, bound, probing, buf, ring, maps, mapped, table, minor>>

\* do_cmd_ioctl: no command without a buffer.
Cmd(d) ==
  /\ Attached(d)
  /\ files[d] > 0
  /\ ~busy[d]
  /\ buf[d] # {}
  /\ busy' = Put(busy, d, TRUE)
  /\ UNCHANGED <<vars, bound, probing, buf, ring, maps, mapped, table, minor>>

\* do_become_nonbusy: the matter of Subdevice.
CmdEnds(d) ==
  /\ busy[d]
  /\ busy' = Put(busy, d, FALSE)
  /\ UNCHANGED <<vars, bound, probing, buf, ring, maps, mapped, table, minor>>

\* comedi_mmap of n pages.
Mmap(d, n) ==
  /\ Attached(d)
  /\ files[d] > 0
  /\ maps[d] < MaxMaps
  /\ \E shown \in kSubset(n, buf[d]) : mapped' = Put(mapped, d, mapped[d] \cup shown)
  /\ maps' = Put(maps, d, maps[d] + 1)
  /\ UNCHANGED <<vars, bound, probing, buf, ring, busy, table, minor>>

\* comedi_vm_open: a process with a mapping forks.
VmOpen(d) ==
  /\ maps[d] \in 1 .. (MaxMaps - 1)
  /\ maps' = Put(maps, d, maps[d] + 1)
  /\ UNCHANGED <<vars, bound, probing, buf, ring, busy, mapped, table, minor>>

\* comedi_vm_close; nothing is shown after the last.
VmClose(d) ==
  /\ maps[d] > 0
  /\ maps' = Put(maps, d, maps[d] - 1)
  /\ mapped' = IF maps[d] = 1 THEN Put(mapped, d, {}) ELSE mapped
  /\ UNCHANGED <<vars, bound, probing, buf, ring, busy, table, minor>>

-----------------------------------------------------------------------------
(* Resizing. *)

\* comedi_buf_alloc of n pages, and s->buf_change after it, for an unchanged size,
\* too.  The old pages are given back before the new ones are asked for; when there
\* are not enough, no buffer is left and buf_change is not called.  buf_change gives
\* the old descriptors back and may not get new ones: then there are none.
BufAlloc(d, n) ==
  \/ /\ n = Cardinality(buf[d])
     /\ UNCHANGED buf
     /\ ring' \in {Put(ring, d, buf[d]), Put(ring, d, {})}
  \/ /\ n # Cardinality(buf[d])
     /\ \E new \in kSubset(n, FreePages \cup buf[d]) :
          /\ buf' = Put(buf, d, new)
          /\ ring' \in {Put(ring, d, new), Put(ring, d, {})}
  \/ /\ n \notin {0, Cardinality(buf[d])}
     /\ buf' = Put(buf, d, {})
     /\ UNCHANGED ring

\* Mutant: mappings are not looked at.
ResizeMutant(d, n) ==
  /\ Attached(d)
  /\ ~busy[d]
  /\ buf[d] # {}
  /\ BufAlloc(d, n)
  /\ UNCHANGED <<vars, bound, probing, busy, maps, mapped, table, minor>>

\* resize_async_buffer: from COMEDI_BUFCONFIG of an open file, with n > 0, or from
\* a store to the files read_buffer_kb and write_buffer_kb of sysfs, which need no
\* open file.
Resize(d, n) ==
  /\ Attached(d)
  /\ ~busy[d]
  /\ maps[d] = 0
  /\ buf[d] # {}
  /\ BufAlloc(d, n)
  /\ UNCHANGED <<vars, bound, probing, busy, maps, mapped, table, minor>>

-----------------------------------------------------------------------------
MemoryInit ==
  /\ Init
  /\ bound = [d \in Devices |-> None]
  /\ probing = [d \in Devices |-> FALSE]
  /\ buf = [d \in Devices |-> {}]
  /\ ring = [d \in Devices |-> {}]
  /\ busy = [d \in Devices |-> FALSE]
  /\ maps = [d \in Devices |-> 0]
  /\ mapped = [d \in Devices |-> {}]
  /\ table = [m \in Minors |-> None]
  /\ minor = [d \in Devices |-> -1]

MemoryNext ==
  \/ \E d \in Devices :
       \/ FileOpen(d) \/ FileClose(d) \/ ConfigDetach(d)
       \/ AutoAttach(d) \/ AutoFails(d)
       \/ Cmd(d) \/ CmdEnds(d)
       \/ \E n \in 1 .. MaxPages : Mmap(d, n)
       \/ VmOpen(d) \/ VmClose(d)
       \/ \E n \in 0 .. MaxPages : Resize(d, n)
  \/ \E d \in Devices, drv \in Drivers : ConfigAttach(d, drv) \/ AutoProbe(d, drv)
  \/ \E drv \in Drivers : DriverInit(drv) \/ DriverExit(drv)

MemorySpec == MemoryInit /\ [][MemoryNext]_memvars

-----------------------------------------------------------------------------
(* Properties. *)

\* A page that a process has mapped is a page of the buffer: neither a resize,
\* nor a detach, nor the end of a driver's module gives it back to the kernel,
\* whatever was opened, closed, forked and unmapped in between.
MappedStaysAllocated == \A d \in Devices : mapped[d] \subseteq buf[d]

\* While a command runs, the descriptors of the board lead to pages of the
\* buffer and to no others, also after a resize that failed half-way.
DmaStaysInBuffer ==
  \A d \in Devices : busy[d] => buf[d] # {} /\ ring[d] \subseteq buf[d]

\* A subdevice minor leads to an attached device and to the subdevice that has
\* this minor; when no driver is registered none is left, as the BUG_ON of
\* comedi_cleanup demands.
MinorsFollowDevices ==
  \A m \in Minors :
    table[m] # None => Attached(table[m]) /\ minor[table[m]] = m

=============================================================================
