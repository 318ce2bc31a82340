-------------------------- MODULE DeviceMemoryProof --------------------------
(***************************************************************************)
(* Proofs about DeviceMemory, and so about DeviceConfig, for every number  *)
(* of devices, drivers, pages, minors and open files.                      *)
(***************************************************************************)
EXTENDS DeviceMemory, FiniteSetTheorems, WellFoundedInduction, TLAPS

-----------------------------------------------------------------------------
(* Types. *)

\* The types of what a device owns.
MemoryTypeOK ==
  /\ bound \in [Devices -> Drivers \cup {None}]
  /\ probing \in [Devices -> BOOLEAN]
  /\ buf \in [Devices -> SUBSET Pages]
  /\ ring \in [Devices -> SUBSET Pages]
  /\ busy \in [Devices -> BOOLEAN]
  /\ maps \in [Devices -> Nat]
  /\ mapped \in [Devices -> SUBSET Pages]
  /\ table \in [Minors -> Devices \cup {None}]
  /\ minor \in [Devices -> Minors \cup {-1}]

\* The uses of a device are forgotten when it is freed.
FreedIsUnused == \A d \in Devices : ~Exists(d) => use_count[d] = 0

TypeInv == TypeOK /\ MemoryTypeOK /\ FreedIsUnused

\* The least of some natural numbers: the first free minor exists.
LEMMA MinIsLeast ==
  ASSUME NEW S \in SUBSET Nat, S # {}
  PROVE  Min(S) \in S
<1> DEFINE R == OpToRel(<, Nat)
<1>1. R = {p \in Nat \X Nat : p[1] < p[2]}
  BY DEF OpToRel
<1>2. IsWellFoundedOn(R, Nat)
  BY NatLessThanWellFounded
<1> HIDE DEF R
<1>3. PICK x \in S : \A y \in S : ~(<<y, x>> \in R)
  BY <1>2, WFMin
<1>4. ASSUME NEW y \in S PROVE x <= y
  <2>1. <<y, x>> \in Nat \X Nat /\ <<y, x>>[1] = y /\ <<y, x>>[2] = x
    OBVIOUS
  <2>2. ~(y < x)
    BY <1>1, <1>3, <2>1, Zenon
  <2> QED BY <2>2
<1> QED BY <1>4 DEF Min

\* A new minor is a free one.
LEMMA MinorIsFree ==
  ASSUME MemoryTypeOK, NEW d \in Devices, AllocSubdeviceMinor(d)
  PROVE  \/ UNCHANGED <<table, minor>>
         \/ \E m \in Minors : /\ table[m] = None
                              /\ table' = [table EXCEPT ![m] = d]
                              /\ minor' = [minor EXCEPT ![d] = m]
<1> DEFINE free == {m \in Minors : table[m] = None}
<1>1. CASE free = {}
  BY <1>1 DEF AllocSubdeviceMinor
<1>2. CASE free # {}
  <2>1. free \in SUBSET Nat
    BY DeviceMemoryAssumption DEF Minors
  <2>2. Min(free) \in free
    BY <1>2, <2>1, MinIsLeast
  <2>3. table' = [table EXCEPT ![Min(free)] = d] /\ minor' = [minor EXCEPT ![d] = Min(free)]
    BY <1>2 DEF AllocSubdeviceMinor, Put
  <2> QED BY <2>2, <2>3
<1> QED BY <1>1, <1>2

\* What an attach gives a device: pages nobody has, a ring that leads to them,
\* and perhaps a minor.
LEMMA PostconfigGives ==
  ASSUME MemoryTypeOK, NEW d \in Devices, Postconfig(d)
  PROVE  /\ \E new \in SUBSET FreePages :
              /\ new # {}
              /\ buf' = [buf EXCEPT ![d] = new]
              /\ ring' = [ring EXCEPT ![d] = new]
         /\ UNCHANGED <<busy, maps, mapped>>
         /\ \/ UNCHANGED <<table, minor>>
            \/ \E m \in Minors : /\ table[m] = None
                                 /\ table' = [table EXCEPT ![m] = d]
                                 /\ minor' = [minor EXCEPT ![d] = m]
<1>1. PICK new \in kSubset(DefaultPages, FreePages) :
        buf' = Put(buf, d, new) /\ ring' = Put(ring, d, new)
  BY DEF Postconfig
<1>2. new \in SUBSET FreePages /\ Cardinality(new) = DefaultPages
  BY DEF kSubset
<1>3. new # {}
  <2>1. DefaultPages >= 1
    BY DeviceMemoryAssumption
  <2> QED BY <1>2, <2>1, FS_EmptySet
<1> QED BY <1>1, <1>2, <1>3, MinorIsFree DEF Postconfig, Put

\* How many files and uses there are, and what is held for them.
FilesType ==
  /\ files \in [Devices -> 0 .. MaxOpen]
  /\ use_count \in [Devices -> Int]
  /\ \A d \in Devices : use_count[d] \in (files[d] - MaxOpen) .. files[d]
  /\ core_refs \in Int

\* The step that takes a reference and makes the device used.
LEMMA OpenOkTypes ==
  ASSUME TypeOK, NEW d \in Devices, OpenOk(d)
  PROVE  /\ FilesType'
         /\ hook' \in [Devices -> BOOLEAN]
         /\ module_refs' \in [Drivers -> Int]
<1>1. FilesType'
  <2>1. files' = [files EXCEPT ![d] = @ + 1] /\ use_count' = [use_count EXCEPT ![d] = @ + 1]
    BY DEF OpenOk, Bump
  <2>2. files[d] < MaxOpen /\ MaxOpen \in Nat /\ core_refs' \in Int
    BY DeviceConfigAssumption DEF OpenOk, TypeOK
  <2> QED BY <2>1, <2>2 DEF TypeOK, FilesType
<1>2. hook' \in [Devices -> BOOLEAN]
  BY Zenon DEF TypeOK, OpenOk
<1>3. module_refs' \in [Drivers -> Int]
  BY DeviceConfigAssumption DEF TypeOK, OpenOk, Bump, Attached
<1> QED BY <1>1, <1>2, <1>3

\* Opening a file preserves the types.
LEMMA FileOpenTypes ==
  ASSUME TypeInv, NEW d \in Devices, FileOpen(d)
  PROVE  TypeInv'
<1> USE DEF TypeInv
<1>1. MemoryTypeOK' /\ FreedIsUnused'
  <2>1. Exists(d) /\ UNCHANGED memory
    BY DEF FileOpen
  <2>2. \A e \in Devices : e # d => use_count'[e] = use_count[e]
    BY DEF FileOpen, Open, OpenRequests, OpenResumes, OpenOk, Bump, TypeOK
  <2> QED BY <2>1, <2>2 DEF memory, MemoryTypeOK, FreedIsUnused, Exists
<1>2. ASSUME NEW who \in Privileges, Open(d, who) PROVE TypeOK'
  BY <1>2, OpenOkTypes DEF Open, TypeOK, FilesType
<1>3. ASSUME NEW who \in Privileges, OpenRequests(d, who) PROVE TypeOK'
  BY <1>3 DEF OpenRequests, TypeOK, Privileges
<1>4. ASSUME OpenResumes(d) PROVE TypeOK'
  <2>1. /\ FilesType'
        /\ hook' \in [Devices -> BOOLEAN]
        /\ module_refs' \in [Drivers -> Int]
    BY <1>4, OpenOkTypes DEF OpenResumes, TypeOK, FilesType
  <2> QED BY <1>4, <2>1 DEF OpenResumes, TypeOK, FilesType
<1>5. TypeOK'
  BY <1>2, <1>3, <1>4 DEF FileOpen
<1> QED BY <1>1, <1>5

\* Closing one, too, whether it leads to a device or not.
LEMMA FileCloseTypes ==
  ASSUME TypeInv, NEW d \in Devices, FileClose(d)
  PROVE  TypeInv'
<1> USE DEF TypeInv
<1>1. MemoryTypeOK'
  BY DEF MemoryTypeOK, FileClose, Put
<1>2. /\ files' = [files EXCEPT ![d] = @ + -1]
      /\ files[d] > 0
      /\ UNCHANGED <<driver, in_request_module, requesting, comedi_drivers>>
  BY DEF FileClose, Close, Bump
<1>3. files' \in [Devices -> 0 .. MaxOpen]
  BY <1>2, DeviceConfigAssumption DEF TypeOK
<1>4. CASE Exists(d)
  <2>0. bound' = bound
    BY DEF FileClose
  <2>1. Close(d)
    BY <1>4 DEF FileClose
  <2>2. /\ use_count' = [use_count EXCEPT ![d] = @ + -1]
        /\ hook' \in [Devices -> BOOLEAN]
    BY <2>1 DEF Close, Bump, TypeOK
  <2>3. module_refs' \in [Drivers -> Int] /\ core_refs' \in Int
    BY <2>1, DeviceConfigAssumption DEF Close, Bump, TypeOK, Attached
  <2>4. \A e \in Devices : use_count'[e] \in (files'[e] - MaxOpen) .. files'[e]
    BY <1>2, <2>2, DeviceConfigAssumption DEF TypeOK
  <2>5. FreedIsUnused'
    BY <1>4, <2>0, <2>2 DEF FreedIsUnused, Exists, TypeOK
  <2> QED BY <1>1, <1>2, <1>3, <2>2, <2>3, <2>4, <2>5 DEF TypeOK
<1>5. CASE ~Exists(d)
  <2>1. UNCHANGED <<use_count, hook, module_refs, core_refs>>
    BY <1>5 DEF FileClose
  <2>2. ASSUME NEW e \in Devices
        PROVE  use_count'[e] \in (files'[e] - MaxOpen) .. files'[e]
    BY <1>2, <1>5, <2>1, DeviceConfigAssumption DEF TypeOK, FreedIsUnused
  <2>3. FreedIsUnused'
    BY <2>1 DEF FileClose, FreedIsUnused, Exists
  <2> QED BY <1>1, <1>2, <1>3, <2>1, <2>2, <2>3 DEF TypeOK
<1> QED BY <1>4, <1>5

\* What an attach leaves behind has the right types.
LEMMA PostconfigTypes ==
  ASSUME MemoryTypeOK, NEW d \in Devices, Postconfig(d),
         bound' = bound, probing' \in [Devices -> BOOLEAN]
  PROVE  MemoryTypeOK'
<1>1. FreePages \in SUBSET Pages
  BY DEF FreePages
<1> QED BY <1>1, PostconfigGives DEF MemoryTypeOK

\* What a detach leaves behind, too.
LEMMA CleanupTypes ==
  ASSUME MemoryTypeOK, NEW ds \in SUBSET Devices, CleanupDevices(ds),
         bound' \in [Devices -> Drivers \cup {None}], probing' \in [Devices -> BOOLEAN]
  PROVE  MemoryTypeOK'
  BY DEF MemoryTypeOK, CleanupDevices, FreeSubdeviceMinors

\* And a device that is freed.
LEMMA FreeTypes ==
  ASSUME TypeInv, NEW ds \in SUBSET Devices, FreeDevices(ds)
  PROVE  /\ FilesType'
         /\ FreedIsUnused'
         /\ in_request_module' \in [Devices -> BOOLEAN]
         /\ requesting' \in [Devices -> Privileges \cup {"nobody"}]
         /\ \A d \in Devices : in_request_module'[d] <=> requesting'[d] # "nobody"
         /\ bound' \in [Devices -> Drivers \cup {None}]
         /\ probing' \in [Devices -> BOOLEAN]
<1> USE DEF TypeInv
<1>1. PICK late \in SUBSET {d \in ds : requesting[d] = "root" /\ files[d] < MaxOpen} :
        /\ files' = [d \in Devices |-> IF d \in late THEN files[d] + 1 ELSE files[d]]
        /\ core_refs' = core_refs + Cardinality(late)
  BY DEF FreeDevices
<1>2. use_count' = [d \in Devices |-> IF d \in ds THEN 0 ELSE use_count[d]]
  BY DEF FreeDevices
<1>3. Cardinality(late) \in Nat
  <2>1. IsFiniteSet(late)
    BY DeviceConfigAssumption, FS_Subset
  <2> QED BY <2>1, FS_CardinalityType
<1>4. FilesType'
  <2>1. files' \in [Devices -> 0 .. MaxOpen] /\ use_count' \in [Devices -> Int]
    BY <1>1, <1>2, DeviceConfigAssumption DEF TypeOK
  <2>2. ASSUME NEW d \in Devices PROVE use_count'[d] \in (files'[d] - MaxOpen) .. files'[d]
    BY <1>1, <1>2, <2>1, DeviceConfigAssumption DEF TypeOK
  <2>3. core_refs' \in Int
    BY <1>1, <1>3 DEF TypeOK
  <2> QED BY <2>1, <2>2, <2>3 DEF FilesType
<1>5. FreedIsUnused'
  BY <1>2 DEF FreeDevices, FreedIsUnused, Exists, TypeOK, MemoryTypeOK
<1> QED BY <1>4, <1>5 DEF FreeDevices, TypeOK, MemoryTypeOK

\* A resize leaves pages behind, or none.
LEMMA BufAllocTypes ==
  ASSUME MemoryTypeOK, NEW d \in Devices, NEW n, BufAlloc(d, n)
  PROVE  buf' \in [Devices -> SUBSET Pages] /\ ring' \in [Devices -> SUBSET Pages]
<1>1. FreePages \cup buf[d] \in SUBSET Pages
  BY DEF FreePages, MemoryTypeOK
<1> QED BY <1>1 DEF BufAlloc, MemoryTypeOK, Put, kSubset

\* What happens to the memory alone leaves the types of the configuration.
LEMMA ConfigKept ==
  ASSUME TypeInv, UNCHANGED <<vars, bound, probing>>
  PROVE  TypeOK' /\ FreedIsUnused' /\ UNCHANGED <<bound, probing>>
<1>1. TypeOK'
  BY DEF TypeInv, vars, TypeOK
<1>2. FreedIsUnused'
  BY DEF TypeInv, vars, FreedIsUnused, Exists
<1> QED BY <1>1, <1>2

\* No step breaks the types.
LEMMA TypeStep ==
  ASSUME TypeInv, [MemoryNext]_memvars
  PROVE  TypeInv'
<1> USE DEF TypeInv
<1>1. ASSUME NEW d \in Devices, FileOpen(d) PROVE TypeInv'
  BY <1>1, FileOpenTypes
<1>2. ASSUME NEW d \in Devices, FileClose(d) PROVE TypeInv'
  BY <1>2, FileCloseTypes
<1>3. ASSUME NEW d \in Devices, ConfigDetach(d) PROVE TypeInv'
  <2>1. TypeOK'
    BY <1>3, DeviceConfigAssumption DEF ConfigDetach, Detach, TypeOK, Attached, Bump
  <2>2. FreedIsUnused'
    BY <1>3 DEF ConfigDetach, Detach, FreedIsUnused, Exists
  <2> QED BY <1>3, <2>1, <2>2, CleanupTypes DEF ConfigDetach, MemoryTypeOK
<1>4. ASSUME NEW d \in Devices, Cmd(d) \/ CmdEnds(d) PROVE TypeInv'
  <2>1. UNCHANGED <<vars, bound, probing>>
    BY <1>4 DEF Cmd, CmdEnds
  <2>2. MemoryTypeOK'
    BY <1>4 DEF Cmd, CmdEnds, MemoryTypeOK, Put
  <2> QED BY <2>1, <2>2, ConfigKept
<1>5. ASSUME NEW d \in Devices, NEW n \in 1 .. MaxPages, Mmap(d, n) PROVE TypeInv'
  <2>1. UNCHANGED <<vars, bound, probing>>
    BY <1>5 DEF Mmap
  <2>2. MemoryTypeOK'
    BY <1>5 DEF Mmap, MemoryTypeOK, Put, kSubset
  <2> QED BY <2>1, <2>2, ConfigKept
<1>6. ASSUME NEW d \in Devices, VmOpen(d) \/ VmClose(d) PROVE TypeInv'
  <2>1. UNCHANGED <<vars, bound, probing>>
    BY <1>6 DEF VmOpen, VmClose
  <2>2. MemoryTypeOK'
    BY <1>6 DEF VmOpen, VmClose, MemoryTypeOK, Put
  <2> QED BY <2>1, <2>2, ConfigKept
<1>7. ASSUME NEW d \in Devices, NEW n \in 0 .. MaxPages, Resize(d, n) PROVE TypeInv'
  <2>1. UNCHANGED <<vars, bound, probing>>
    BY <1>7 DEF Resize
  <2>2. MemoryTypeOK'
    BY <1>7, BufAllocTypes DEF Resize, MemoryTypeOK
  <2> QED BY <2>1, <2>2, ConfigKept
<1>8. ASSUME NEW d \in Devices, NEW drv \in Drivers, ConfigAttach(d, drv) PROVE TypeInv'
  <2>1. TypeOK'
    BY <1>8, DeviceConfigAssumption DEF ConfigAttach, Attach, TypeOK, Bump
  <2>2. FreedIsUnused'
    BY <1>8 DEF ConfigAttach, Attach, FreedIsUnused, Exists
  <2> QED BY <1>8, <2>1, <2>2, PostconfigTypes DEF ConfigAttach, MemoryTypeOK
<1>9. ASSUME NEW d \in Devices, NEW drv \in Drivers, AutoProbe(d, drv) PROVE TypeInv'
  BY <1>9 DEF AutoProbe, vars, TypeOK, MemoryTypeOK, FreedIsUnused, Exists, Put
<1>10. ASSUME NEW d \in Devices, AutoAttach(d) PROVE TypeInv'
  <2>1. TypeOK'
    BY <1>10, DeviceConfigAssumption DEF AutoAttach, TypeOK, Put
  <2>2. FreedIsUnused'
    BY <1>10 DEF AutoAttach, FreedIsUnused, Exists
  <2> QED BY <1>10, <2>1, <2>2, PostconfigTypes DEF AutoAttach, MemoryTypeOK, Put
<1>11. ASSUME NEW d \in Devices, AutoFails(d) PROVE TypeInv'
  <2>1. /\ FreeDevices({d})
        /\ CleanupDevices({d})
        /\ driver' = [driver EXCEPT ![d] = None]
        /\ UNCHANGED <<hook, comedi_drivers, module_refs>>
    BY <1>11 DEF AutoFails, Put
  <2>2. TypeOK'
    BY <2>1, FreeTypes DEF TypeOK, FilesType
  <2> QED BY <2>1, <2>2, FreeTypes, CleanupTypes
<1>12. ASSUME NEW drv \in Drivers, DriverInit(drv) PROVE TypeInv'
  BY <1>12 DEF DriverInit, Register, memory, TypeOK, MemoryTypeOK, FreedIsUnused, Exists
<1>13. ASSUME NEW drv \in Drivers, DriverExit(drv) PROVE TypeInv'
  <2> DEFINE found == {d \in Devices : bound[d] = drv}
             gone == UsersOf(drv) \cup found
  <2>1. /\ found \in SUBSET Devices /\ gone \in SUBSET Devices
        /\ Unload(drv, gone) /\ FreeDevices(found) /\ CleanupDevices(gone)
    BY <1>13 DEF DriverExit, UsersOf
  <2>2. \A d \in Devices : driver[d] = drv => d \in gone
    BY DEF UsersOf
  <2> HIDE DEF gone, found
  <2>3. TypeOK'
    BY <2>1, <2>2, FreeTypes DEF Unload, TypeOK, FilesType
  <2> QED BY <2>1, <2>3, FreeTypes, CleanupTypes
<1>14. CASE UNCHANGED memvars
  BY <1>14 DEF memvars, vars, memory, TypeOK, MemoryTypeOK, FreedIsUnused, Exists
<1> QED
  BY <1>1, <1>2, <1>3, <1>4, <1>5, <1>6, <1>7, <1>8, <1>9, <1>10, <1>11, <1>12,
     <1>13, <1>14
     DEF MemoryNext

\* Before the first step there is nothing.
LEMMA TypeInit == MemoryInit => TypeInv
  BY DeviceConfigAssumption, DeviceMemoryAssumption
     DEF MemoryInit, Init, TypeInv, TypeOK, MemoryTypeOK, FreedIsUnused, Privileges

\* DeviceConfig!TypeOK: whatever processes open, close, configure and unload, an
\* attached device has a registered driver, and in_request_module says that
\* somebody waits in request_module.
THEOREM ConfigTypeCorrect == MemorySpec => []TypeOK
<1>1. MemoryInit => TypeInv
  BY TypeInit
<1>2. TypeInv /\ [MemoryNext]_memvars => TypeInv'
  BY TypeStep
<1>3. TypeInv => TypeOK
  BY DEF TypeInv
<1> QED BY <1>1, <1>2, <1>3, PTL DEF MemorySpec

-----------------------------------------------------------------------------
(* Pages and descriptors. *)

\* What DmaStaysInBuffer needs: the descriptors of a buffer lead to its pages, a
\* command has a buffer, and no page belongs to two buffers.
DmaInv ==
  /\ \A d \in Devices : buf[d] # {} => ring[d] \subseteq buf[d]
  /\ \A d \in Devices : busy[d] => buf[d] # {}
  /\ \A d, e \in Devices : d # e => buf[d] \cap buf[e] = {}

\* A resize keeps descriptors and pages together, unless it leaves no pages.
LEMMA ResizeDma ==
  ASSUME TypeInv, DmaInv, NEW d \in Devices, NEW n \in Nat, Resize(d, n)
  PROVE  DmaInv'
<1> USE DEF TypeInv, MemoryTypeOK, Put
<1>1. ~busy[d] /\ BufAlloc(d, n) /\ busy' = busy
  BY DEF Resize
<1>2. CASE buf' = buf /\ ring' \in {Put(ring, d, buf[d]), Put(ring, d, {})}
  BY <1>1, <1>2 DEF DmaInv
<1>3. CASE \E new \in kSubset(n, FreePages \cup buf[d]) :
             /\ buf' = Put(buf, d, new)
             /\ ring' \in {Put(ring, d, new), Put(ring, d, {})}
  <2>1. PICK new \in SUBSET (FreePages \cup buf[d]) :
          /\ buf' = [buf EXCEPT ![d] = new]
          /\ ring' \in {[ring EXCEPT ![d] = new], [ring EXCEPT ![d] = {}]}
    BY <1>3 DEF kSubset
  <2>2. \A e \in Devices : e # d => new \cap buf[e] = {}
    BY DEF DmaInv, FreePages
  <2> QED BY <1>1, <2>1, <2>2 DEF DmaInv
<1>4. CASE buf' = Put(buf, d, {}) /\ UNCHANGED ring
  BY <1>1, <1>4 DEF DmaInv
<1> QED BY <1>1, <1>2, <1>3, <1>4 DEF BufAlloc

\* An attach gives pages that nobody has.
LEMMA PostconfigDma ==
  ASSUME TypeInv, DmaInv, NEW d \in Devices, Postconfig(d)
  PROVE  DmaInv'
<1>1. PICK new \in SUBSET FreePages :
        /\ new # {}
        /\ buf' = [buf EXCEPT ![d] = new]
        /\ ring' = [ring EXCEPT ![d] = new]
  BY PostconfigGives DEF TypeInv
<1>2. busy' = busy
  BY DEF Postconfig
<1>3. \A e \in Devices : new \cap buf[e] = {}
  BY DEF FreePages
<1> QED BY <1>1, <1>2, <1>3 DEF DmaInv, TypeInv, MemoryTypeOK

\* A detach takes pages, descriptors and command together.
LEMMA CleanupDma ==
  ASSUME TypeInv, DmaInv, NEW ds \in SUBSET Devices, CleanupDevices(ds)
  PROVE  DmaInv'
  BY DEF DmaInv, CleanupDevices, TypeInv, MemoryTypeOK

\* No step breaks it.
LEMMA DmaStep ==
  ASSUME TypeInv, DmaInv, [MemoryNext]_memvars
  PROVE  DmaInv'
<1>1. ASSUME NEW d \in Devices, FileClose(d) \/ CmdEnds(d) PROVE DmaInv'
  BY <1>1 DEF FileClose, CmdEnds, Put, DmaInv, TypeInv, MemoryTypeOK
<1>2. ASSUME NEW d \in Devices, Cmd(d) PROVE DmaInv'
  BY <1>2 DEF Cmd, Put, DmaInv, TypeInv, MemoryTypeOK
<1>3. ASSUME NEW d \in Devices, NEW n \in 0 .. MaxPages, Resize(d, n) PROVE DmaInv'
  BY <1>3, ResizeDma, DeviceMemoryAssumption
<1>4. ASSUME NEW d \in Devices, NEW drv \in Drivers, ConfigAttach(d, drv) PROVE DmaInv'
  BY <1>4, PostconfigDma DEF ConfigAttach
<1>5. ASSUME NEW d \in Devices, AutoAttach(d) PROVE DmaInv'
  BY <1>5, PostconfigDma DEF AutoAttach
<1>6. ASSUME NEW d \in Devices, ConfigDetach(d) \/ AutoFails(d) PROVE DmaInv'
  BY <1>6, CleanupDma DEF ConfigDetach, AutoFails
<1>7. ASSUME NEW drv \in Drivers, DriverExit(drv) PROVE DmaInv'
  <2>1. PICK gone \in SUBSET Devices : CleanupDevices(gone)
    BY <1>7 DEF DriverExit, UsersOf
  <2> QED BY <2>1, CleanupDma
<1>8. CASE UNCHANGED <<buf, ring, busy>>
  BY <1>8 DEF DmaInv
<1> QED
  BY <1>1, <1>2, <1>3, <1>4, <1>5, <1>6, <1>7, <1>8
     DEF MemoryNext, memvars, memory, FileOpen, Mmap, VmOpen, VmClose, AutoProbe,
         DriverInit

\* The board of one device never transfers to the buffer of another.
NoForeignDma ==
  \A d, e \in Devices : busy[d] /\ d # e => ring[d] \cap buf[e] = {}

\* DmaStaysInBuffer: whatever resizes fail and in which order devices are attached,
\* resized, detached and unloaded, a command never runs on descriptors that lead
\* out of its buffer, and so not into pages that another device has got since.
THEOREM DmaIsConfined == MemorySpec => [](DmaStaysInBuffer /\ NoForeignDma)
<1>1. MemoryInit => TypeInv /\ DmaInv
  BY TypeInit DEF MemoryInit, DmaInv
<1>2. TypeInv /\ DmaInv /\ [MemoryNext]_memvars => (TypeInv /\ DmaInv)'
  BY TypeStep, DmaStep
<1>3. DmaInv => DmaStaysInBuffer /\ NoForeignDma
  BY DEF DmaInv, DmaStaysInBuffer, NoForeignDma
<1> QED BY <1>1, <1>2, <1>3, PTL DEF MemorySpec

-----------------------------------------------------------------------------
(* Minors, and the close hook. *)

\* What MinorsFollowDevices needs: an automatic device is attached only as long as
\* the driver that found it is there.
MinorsInv ==
  /\ MinorsFollowDevices
  /\ \A d \in AutoDevices : Attached(d) => bound[d] # None

\* A device that gets its memory and its minor was not attached, so that no minor
\* led to it.
LEMMA PostconfigMinors ==
  ASSUME TypeInv, MinorsInv, NEW d \in Devices, Postconfig(d), ~Attached(d),
         NEW drv \in Drivers, driver' = [driver EXCEPT ![d] = drv]
  PROVE  MinorsFollowDevices'
<1> USE DEF MinorsInv, MinorsFollowDevices, Attached, TypeInv, MemoryTypeOK, TypeOK
<1>1. \A m \in Minors : table[m] # d
  BY DeviceMemoryAssumption
<1>2. drv # None
  BY DeviceConfigAssumption
<1>3. CASE UNCHANGED <<table, minor>>
  BY <1>1, <1>2, <1>3
<1>4. CASE \E m \in Minors : /\ table[m] = None
                             /\ table' = [table EXCEPT ![m] = d]
                             /\ minor' = [minor EXCEPT ![d] = m]
  BY <1>1, <1>2, <1>4
<1> QED BY <1>3, <1>4, PostconfigGives

\* A detach frees the minors of the devices.
LEMMA CleanupMinors ==
  ASSUME TypeInv, MinorsInv, NEW ds \in SUBSET Devices, CleanupDevices(ds),
         \A d \in Devices \ ds : driver'[d] = driver[d]
  PROVE  MinorsFollowDevices'
<1>1. ASSUME NEW m \in Minors, table'[m] # None
      PROVE  /\ table'[m] = table[m]
             /\ table[m] \in Devices \ ds
             /\ minor'[table[m]] = minor[table[m]]
  BY <1>1 DEF CleanupDevices, FreeSubdeviceMinors, MinorsInv, MinorsFollowDevices,
              TypeInv, MemoryTypeOK
<1> QED BY <1>1 DEF MinorsInv, MinorsFollowDevices, Attached

\* No step breaks it.
LEMMA MinorsStep ==
  ASSUME TypeInv, MinorsInv, [MemoryNext]_memvars
  PROVE  MinorsInv'
<1> USE DEF MinorsInv
<1>1. ASSUME NEW d \in Devices, NEW drv \in Drivers, ConfigAttach(d, drv)
      PROVE  MinorsInv'
  <2>1. /\ ~Attached(d) /\ Exists(d) /\ Postconfig(d) /\ bound' = bound
        /\ driver' = [driver EXCEPT ![d] = drv]
    BY <1>1 DEF ConfigAttach, Attach
  <2>2. MinorsFollowDevices'
    BY <2>1, PostconfigMinors
  <2> QED BY <2>1, <2>2 DEF Attached, Exists, TypeInv, TypeOK
<1>2. ASSUME NEW d \in Devices, AutoAttach(d) PROVE MinorsInv'
  <2>1. /\ ~Attached(d) /\ Postconfig(d) /\ bound' = bound
        /\ bound[d] \in Drivers
        /\ driver' = [driver EXCEPT ![d] = bound[d]]
    BY <1>2 DEF AutoAttach, Put, TypeInv, TypeOK
  <2>2. MinorsFollowDevices'
    BY <2>1, PostconfigMinors
  <2> QED BY <2>1, <2>2, DeviceConfigAssumption DEF Attached, TypeInv, TypeOK
<1>3. ASSUME NEW d \in Devices, ConfigDetach(d) PROVE MinorsInv'
  <2>1. CleanupDevices({d}) /\ driver' = [driver EXCEPT ![d] = None] /\ bound' = bound
    BY <1>3 DEF ConfigDetach, Detach
  <2>2. MinorsFollowDevices'
    BY <2>1, CleanupMinors DEF TypeInv, TypeOK
  <2> QED BY <2>1, <2>2 DEF Attached, TypeInv, TypeOK
<1>4. ASSUME NEW drv \in Drivers, DriverExit(drv) PROVE MinorsInv'
  <2> DEFINE gone == UsersOf(drv) \cup {d \in Devices : bound[d] = drv}
  <2>1. /\ gone \in SUBSET Devices /\ CleanupDevices(gone)
        /\ driver' = [d \in Devices |-> IF d \in gone THEN None ELSE driver[d]]
        /\ bound' = [d \in Devices |-> IF bound[d] = drv THEN None ELSE bound[d]]
    BY <1>4 DEF DriverExit, Unload, FreeDevices, UsersOf
  <2>2. MinorsFollowDevices'
    <3> HIDE DEF gone
    <3> QED BY <2>1, CleanupMinors
  <2> QED BY <2>1, <2>2, DeviceMemoryAssumption DEF Attached
<1>6. ASSUME NEW d \in Devices, AutoFails(d) PROVE MinorsInv'
  <2>1. /\ CleanupDevices({d})
        /\ driver' = [driver EXCEPT ![d] = None]
        /\ bound' = [e \in Devices |-> IF e \in {d} THEN None ELSE bound[e]]
    BY <1>6 DEF AutoFails, FreeDevices, Put
  <2>2. MinorsFollowDevices'
    BY <2>1, CleanupMinors DEF TypeInv, TypeOK
  <2> QED BY <2>1, <2>2, DeviceMemoryAssumption DEF Attached, TypeInv, TypeOK
<1>7. ASSUME NEW d \in Devices, NEW drv \in Drivers, AutoProbe(d, drv) PROVE MinorsInv'
  <2>1. bound' = [bound EXCEPT ![d] = drv] /\ UNCHANGED <<driver, table, minor>>
    BY <1>7 DEF AutoProbe, Put, vars
  <2> QED BY <2>1, DeviceConfigAssumption, DeviceMemoryAssumption
          DEF MinorsFollowDevices, Attached, TypeInv, MemoryTypeOK
<1>5. CASE UNCHANGED <<driver, bound, table, minor>>
  BY <1>5 DEF MinorsFollowDevices, Attached
<1> QED
  BY <1>1, <1>2, <1>3, <1>4, <1>5, <1>6, <1>7
     DEF MemoryNext, memvars, vars, memory, FileOpen, Open, OpenRequests,
         OpenResumes, FileClose, Close, Cmd, CmdEnds, Mmap, VmOpen, VmClose,
         Resize, DriverInit, Register

\* MinorsFollowDevices: no minor outlives the attachment of its device, also when
\* the table was full at some attach and the device has none.
THEOREM MinorsAreFreed == MemorySpec => []MinorsFollowDevices
<1>1. MemoryInit => TypeInv /\ MinorsInv
  BY TypeInit DEF MemoryInit, Init, MinorsInv, MinorsFollowDevices, Attached
<1>2. TypeInv /\ MinorsInv /\ [MemoryNext]_memvars => (TypeInv /\ MinorsInv)'
  BY TypeStep, MinorsStep
<1>3. MinorsInv => MinorsFollowDevices
  BY DEF MinorsInv
<1> QED BY <1>1, <1>2, <1>3, PTL DEF MemorySpec

\* What UnusedIsClosed needs: the hook goes by use_count, which is never more than
\* the number of files.
HookInv == \A d \in Devices : Attached(d) /\ use_count[d] <= 0 => ~hook[d]

LEMMA HookStep ==
  ASSUME TypeInv, HookInv, [MemoryNext]_memvars
  PROVE  HookInv'
<1> USE DEF TypeInv, TypeOK, HookInv, Attached
<1>1. ASSUME NEW d \in Devices, OpenOk(d), driver' = driver PROVE HookInv'
  <2>1. use_count' = [use_count EXCEPT ![d] = @ + 1] /\ use_count[d] \in Int
    BY <1>1 DEF OpenOk, Bump
  <2>2. \A e \in Devices : e # d => hook'[e] = hook[e] /\ use_count'[e] = use_count[e]
    BY <1>1 DEF OpenOk, Bump
  <2>3. CASE use_count[d] >= 0
    <3>1. ~(use_count'[d] <= 0)
      BY <2>1, <2>3
    <3> QED BY <1>1, <2>2, <3>1
  <2>4. CASE use_count[d] < 0
    <3>1. driver[d] # None => ~hook[d]
      BY <2>4
    <3>2. ~(use_count[d] = 0)
      BY <2>4
    <3>3. driver[d] # None => ~hook'[d]
      BY <1>1, <3>1, <3>2, Zenon DEF OpenOk
    <3> QED BY <1>1, <2>2, <3>3
  <2> QED BY <2>1, <2>3, <2>4
<1>2. ASSUME NEW d \in Devices, FileOpen(d) PROVE HookInv'
  BY <1>1, <1>2 DEF FileOpen, Open, OpenRequests, OpenResumes
<1>3. ASSUME NEW d \in Devices, FileClose(d) PROVE HookInv'
  <2>1. CASE Exists(d)
    <3>1. /\ use_count' = [use_count EXCEPT ![d] = @ + -1]
          /\ driver' = driver
          /\ hook' = [hook EXCEPT ![d] = @ /\ ~(Attached(d) /\ use_count[d] = 1)]
      BY <1>3, <2>1 DEF FileClose, Close, Bump
    <3>2. use_count[d] \in Int /\ use_count'[d] = use_count[d] - 1
      BY <3>1
    <3>3. driver[d] # None /\ use_count[d] = 1 => ~hook'[d]
      BY <3>1, Zenon
    <3>4. ~hook[d] => ~hook'[d]
      BY <3>1, Zenon
    <3>5. driver[d] # None /\ use_count'[d] <= 0 => ~hook'[d]
      BY <3>2, <3>3, <3>4
    <3>6. \A e \in Devices : e # d => hook'[e] = hook[e] /\ use_count'[e] = use_count[e]
      BY <3>1
    <3> QED BY <3>1, <3>5, <3>6
  <2>2. CASE ~Exists(d)
    BY <1>3, <2>2 DEF FileClose
  <2> QED BY <2>1, <2>2
<1>4. ASSUME NEW d \in Devices, NEW drv \in Drivers, ConfigAttach(d, drv) PROVE HookInv'
  BY <1>4 DEF ConfigAttach, Attach
<1>5. ASSUME NEW d \in Devices, ConfigDetach(d) PROVE HookInv'
  BY <1>5 DEF ConfigDetach, Detach
<1>6. ASSUME NEW drv \in Drivers, DriverExit(drv) PROVE HookInv'
  <2> DEFINE found == {d \in Devices : bound[d] = drv}
             gone == UsersOf(drv) \cup found
  <2>1. /\ driver' = [d \in Devices |-> IF d \in gone THEN None ELSE driver[d]]
        /\ use_count' = [d \in Devices |-> IF d \in found THEN 0 ELSE use_count[d]]
        /\ hook' = hook
    BY <1>6 DEF DriverExit, Unload, FreeDevices
  <2>2. \A d \in found : d \in gone
    OBVIOUS
  <2> HIDE DEF gone, found
  <2> QED BY <2>1, <2>2
<1>7. ASSUME NEW d \in Devices, AutoAttach(d) PROVE HookInv'
  BY <1>7 DEF AutoAttach, Put
<1>8. ASSUME NEW d \in Devices, AutoFails(d) PROVE HookInv'
  <2>1. /\ driver' = [driver EXCEPT ![d] = None]
        /\ use_count' = [e \in Devices |-> IF e \in {d} THEN 0 ELSE use_count[e]]
        /\ hook' = hook
    BY <1>8 DEF AutoFails, FreeDevices, Put
  <2> QED BY <2>1
<1>9. CASE UNCHANGED <<driver, use_count, hook>>
  BY <1>9
<1> QED
  BY <1>2, <1>3, <1>4, <1>5, <1>6, <1>7, <1>8, <1>9
     DEF MemoryNext, memvars, vars, Cmd, CmdEnds, Mmap, VmOpen, VmClose, Resize,
         AutoProbe, DriverInit, Register

\* UnusedIsClosed: the driver's close hook runs for the last user at the latest,
\* however opens, closes, attaches, detaches and failing probes alternate.
THEOREM LastCloseRunsHook == MemorySpec => []UnusedIsClosed
<1>1. MemoryInit => TypeInv /\ HookInv
  BY TypeInit DEF MemoryInit, Init, HookInv, Attached
<1>2. TypeInv /\ HookInv /\ [MemoryNext]_memvars => (TypeInv /\ HookInv)'
  BY TypeStep, HookStep
<1>3. TypeInv /\ HookInv => UnusedIsClosed
  BY DEF TypeInv, TypeOK, HookInv, UnusedIsClosed
<1> QED BY <1>1, <1>2, <1>3, PTL DEF MemorySpec

-----------------------------------------------------------------------------
(* References. *)

\* The open files of the devices ds, when n says how many each has.
FilesOf(n, ds) == {f \in ds \X (1 .. MaxOpen) : f[2] <= n[f[1]]}

LEMMA FilesFinite ==
  ASSUME NEW n, NEW ds \in SUBSET Devices
  PROVE  IsFiniteSet(FilesOf(n, ds)) /\ Cardinality(FilesOf(n, ds)) \in Nat
<1>1. IsFiniteSet(ds) /\ IsFiniteSet(1 .. MaxOpen)
  BY DeviceConfigAssumption, FS_Subset, FS_Interval
<1>2. IsFiniteSet(ds \X (1 .. MaxOpen))
  BY <1>1, FS_Product
<1>3. FilesOf(n, ds) \in SUBSET (ds \X (1 .. MaxOpen))
  BY DEF FilesOf
<1> QED BY <1>2, <1>3, FS_Subset, FS_CardinalityType

\* One file more, of a device of the set or of another one.
LEMMA FilesAdd ==
  ASSUME NEW n \in [Devices -> 0 .. MaxOpen], NEW d \in Devices, n[d] < MaxOpen,
         NEW ds \in SUBSET Devices
  PROVE  Cardinality(FilesOf([n EXCEPT ![d] = @ + 1], ds))
           = Cardinality(FilesOf(n, ds)) + (IF d \in ds THEN 1 ELSE 0)
<1> DEFINE m == [n EXCEPT ![d] = @ + 1]
<1>0. n[d] \in 0 .. MaxOpen /\ MaxOpen \in Nat
  BY DeviceConfigAssumption
<1>1. CASE d \in ds
  <2>1. FilesOf(m, ds) = FilesOf(n, ds) \cup {<<d, n[d] + 1>>}
    BY <1>0, <1>1 DEF FilesOf
  <2>2. <<d, n[d] + 1>> \notin FilesOf(n, ds)
    BY <1>0 DEF FilesOf
  <2> QED BY <1>1, <2>1, <2>2, FilesFinite, FS_AddElement
<1>2. CASE d \notin ds
  <2>1. FilesOf(m, ds) = FilesOf(n, ds)
    BY <1>2 DEF FilesOf
  <2> QED BY <1>2, <2>1, FilesFinite
<1> QED BY <1>1, <1>2

\* One file less.
LEMMA FilesRemove ==
  ASSUME NEW n \in [Devices -> 0 .. MaxOpen], NEW d \in Devices, n[d] > 0,
         NEW ds \in SUBSET Devices
  PROVE  Cardinality(FilesOf([n EXCEPT ![d] = @ + -1], ds))
           = Cardinality(FilesOf(n, ds)) - (IF d \in ds THEN 1 ELSE 0)
<1> DEFINE m == [n EXCEPT ![d] = @ + -1]
<1>0. n[d] \in 1 .. MaxOpen /\ MaxOpen \in Nat /\ m \in [Devices -> 0 .. MaxOpen]
  BY DeviceConfigAssumption
<1>1. m[d] < MaxOpen
  BY <1>0
<1>2. [m EXCEPT ![d] = @ + 1] = n
  <2> DEFINE k == [m EXCEPT ![d] = @ + 1]
  <2>1. k = [e \in Devices |-> IF e = d THEN m[d] + 1 ELSE m[e]]
    BY <1>0
  <2>2. m[d] + 1 = n[d] /\ \A e \in Devices : e # d => m[e] = n[e]
    BY <1>0
  <2> HIDE DEF m
  <2>3. k = [e \in Devices |-> n[e]]
    BY <2>1, <2>2
  <2> QED BY <2>3
<1>3. FilesOf(m, ds) = FilesOf([n EXCEPT ![d] = @ + -1], ds)
  OBVIOUS
<1> HIDE DEF m
<1>4. Cardinality(FilesOf([m EXCEPT ![d] = @ + 1], ds))
        = Cardinality(FilesOf(m, ds)) + (IF d \in ds THEN 1 ELSE 0)
  BY <1>0, <1>1, FilesAdd
<1>5. Cardinality(FilesOf(m, ds)) \in Nat /\ Cardinality(FilesOf(n, ds)) \in Nat
  BY FilesFinite
<1>6. Cardinality(FilesOf(m, ds)) = Cardinality(FilesOf(n, ds)) - (IF d \in ds THEN 1 ELSE 0)
  <2>1. FilesOf([m EXCEPT ![d] = @ + 1], ds) = FilesOf(n, ds)
    BY <1>2, Zenon
  <2>2. Cardinality(FilesOf(n, ds)) = Cardinality(FilesOf(m, ds)) + (IF d \in ds THEN 1 ELSE 0)
    BY <1>4, <2>1, Zenon
  <2> QED BY <1>5, <2>2
<1> QED BY <1>3, <1>6

\* A device more, or less, counts as much as it has files.
LEMMA FilesOfOneMore ==
  ASSUME NEW n \in [Devices -> 0 .. MaxOpen], NEW d \in Devices, n[d] \in {0, 1},
         NEW ds \in SUBSET Devices, d \notin ds
  PROVE  Cardinality(FilesOf(n, ds \cup {d})) = Cardinality(FilesOf(n, ds)) + n[d]
<1>0. MaxOpen \in Nat /\ n[d] <= MaxOpen
  BY DeviceConfigAssumption
<1>1. CASE n[d] = 1
  <2>1. FilesOf(n, ds \cup {d}) = FilesOf(n, ds) \cup {<<d, 1>>}
    BY <1>0, <1>1 DEF FilesOf
  <2>2. <<d, 1>> \notin FilesOf(n, ds)
    BY DEF FilesOf
  <2> QED BY <1>1, <2>1, <2>2, FilesFinite, FS_AddElement
<1>2. CASE n[d] = 0
  <2>1. FilesOf(n, ds \cup {d}) = FilesOf(n, ds)
    BY <1>0, <1>2 DEF FilesOf
  <2> QED BY <1>2, <2>1, FilesFinite
<1> QED BY <1>1, <1>2

\* Devices without open files.
LEMMA NoFiles ==
  ASSUME NEW n \in [Devices -> 0 .. MaxOpen], NEW ds \in SUBSET Devices
  PROVE  Cardinality(FilesOf(n, ds)) = 0 <=> \A d \in ds : n[d] = 0
<1>0. MaxOpen \in Nat
  BY DeviceConfigAssumption
<1>1. FilesOf(n, ds) = {} <=> \A d \in ds : n[d] = 0
  <2>1. ASSUME NEW d \in ds, n[d] # 0 PROVE <<d, 1>> \in FilesOf(n, ds)
    BY <1>0, <2>1 DEF FilesOf
  <2>2. ASSUME NEW f \in FilesOf(n, ds) PROVE f[1] \in ds /\ n[f[1]] # 0
    BY <1>0 DEF FilesOf
  <2> QED BY <2>1, <2>2
<1> QED BY <1>1, FilesFinite, FS_EmptySet

\* RefsCountOpens with FilesOf.
LEMMA RefsAreFiles ==
  RefsCountOpens <=>
    /\ \A drv \in Drivers : module_refs[drv] = Cardinality(FilesOf(files, UsersOf(drv)))
    /\ core_refs = Cardinality(FilesOf(files, Devices))
  BY DEF RefsCountOpens, OpenFiles, FilesOf

\* What RefsCountOpens needs when devices are configured by their only user and
\* root waits for probes: an automatic device belongs to the driver that found it,
\* and nobody has it open before it is attached.
OwnersInv ==
  /\ \A d \in Devices \ AutoDevices : bound[d] = None /\ ~probing[d]
  /\ \A d \in AutoDevices : driver[d] = IF probing[d] THEN None ELSE bound[d]
  /\ \A d \in AutoDevices : probing[d] => bound[d] # None
  /\ \A d \in AutoDevices : requesting[d] # "root"
  /\ \A d \in AutoDevices : driver[d] = None => files[d] = 0

RefsInv == RefsCountOpens /\ OwnersInv

\* An open that comes to its end takes the references that are counted.
LEMMA OpenRefs ==
  ASSUME TypeInv, RefsCountOpens, NEW d \in Devices, OpenOk(d), driver' = driver
  PROVE  RefsCountOpens'
<1> USE DEF TypeInv, TypeOK, UsersOf
<1>1. /\ files' = [files EXCEPT ![d] = @ + 1]
      /\ files[d] < MaxOpen
      /\ core_refs' = core_refs + 1
  BY DEF OpenOk, Bump
<1>2. core_refs' = Cardinality(FilesOf(files', Devices))
  <2>1. Cardinality(FilesOf(files', Devices)) = Cardinality(FilesOf(files, Devices)) + 1
    BY <1>1, FilesAdd
  <2>2. core_refs = Cardinality(FilesOf(files, Devices))
    BY RefsAreFiles
  <2> QED BY <1>1, <2>1, <2>2
<1>3. ASSUME NEW drv \in Drivers
      PROVE  module_refs'[drv] = Cardinality(FilesOf(files', UsersOf(drv)))
  <2>1. Cardinality(FilesOf(files', UsersOf(drv)))
          = Cardinality(FilesOf(files, UsersOf(drv))) + (IF d \in UsersOf(drv) THEN 1 ELSE 0)
    BY <1>1, FilesAdd
  <2>2. module_refs'[drv] = module_refs[drv] + (IF driver[d] = drv THEN 1 ELSE 0)
    BY DeviceConfigAssumption DEF OpenOk, Bump, Attached
  <2> QED BY <2>1, <2>2, RefsAreFiles, FilesFinite
<1>4. \A drv \in Drivers : UsersOf(drv)' = UsersOf(drv)
  OBVIOUS
<1> QED BY ONLY <1>2, <1>3, <1>4 DEF RefsCountOpens, OpenFiles, FilesOf

\* A close gives them back.
LEMMA CloseRefs ==
  ASSUME TypeInv, RefsCountOpens, NEW d \in Devices, Close(d)
  PROVE  RefsCountOpens'
<1> USE DEF TypeInv, TypeOK, UsersOf
<1>1. /\ files' = [files EXCEPT ![d] = @ + -1]
      /\ files[d] > 0
      /\ core_refs' = core_refs - 1
      /\ driver' = driver
  BY DEF Close, Bump
<1>2. core_refs' = Cardinality(FilesOf(files', Devices))
  <2>1. Cardinality(FilesOf(files', Devices)) = Cardinality(FilesOf(files, Devices)) - 1
    BY <1>1, FilesRemove
  <2>2. core_refs = Cardinality(FilesOf(files, Devices))
    BY RefsAreFiles
  <2> QED BY <1>1, <2>1, <2>2
<1>3. ASSUME NEW drv \in Drivers
      PROVE  module_refs'[drv] = Cardinality(FilesOf(files', UsersOf(drv)))
  <2>1. Cardinality(FilesOf(files', UsersOf(drv)))
          = Cardinality(FilesOf(files, UsersOf(drv))) - (IF d \in UsersOf(drv) THEN 1 ELSE 0)
    BY <1>1, FilesRemove
  <2>2. module_refs'[drv] = module_refs[drv] - (IF driver[d] = drv THEN 1 ELSE 0)
    BY DeviceConfigAssumption DEF Close, Bump, Attached
  <2> QED BY <2>1, <2>2, RefsAreFiles, FilesFinite
<1>4. \A drv \in Drivers : UsersOf(drv)' = UsersOf(drv)
  BY <1>1
<1> QED BY ONLY <1>2, <1>3, <1>4 DEF RefsCountOpens, OpenFiles, FilesOf

\* A device that gets a driver while it has k users, k at most 1, adds k to what the
\* driver's module counts.
LEMMA AttachRefs ==
  ASSUME TypeInv, RefsCountOpens, NEW d \in Devices, NEW drv \in Drivers,
         driver[d] = None, files[d] \in {0, 1},
         driver' = [driver EXCEPT ![d] = drv],
         module_refs' = [module_refs EXCEPT ![drv] = @ + files[d]],
         UNCHANGED <<files, core_refs>>
  PROVE  RefsCountOpens'
<1> USE DEF TypeInv, TypeOK
<1>1. ASSUME NEW e \in Drivers
      PROVE  module_refs'[e] = Cardinality(FilesOf(files, UsersOf(e)'))
  <2>1. d \notin UsersOf(e)
    BY DeviceConfigAssumption DEF UsersOf
  <2>2. UsersOf(e)' = IF e = drv THEN UsersOf(e) \cup {d} ELSE UsersOf(e)
    BY DeviceConfigAssumption DEF UsersOf
  <2>3. Cardinality(FilesOf(files, UsersOf(e) \cup {d}))
          = Cardinality(FilesOf(files, UsersOf(e))) + files[d]
    BY <2>1, FilesOfOneMore DEF UsersOf
  <2> QED BY <2>2, <2>3, RefsAreFiles
<1> QED BY <1>1, RefsAreFiles DEF RefsCountOpens, OpenFiles, FilesOf

\* A device whose only user detaches it takes one use away.
LEMMA DetachRefs ==
  ASSUME TypeInv, RefsCountOpens, NEW d \in Devices, Attached(d),
         files[d] = 1, Detach(d)
  PROVE  RefsCountOpens'
<1> USE DEF TypeInv, TypeOK
<1>1. /\ driver' = [driver EXCEPT ![d] = None]
      /\ module_refs' = [module_refs EXCEPT ![driver[d]] = @ - 1]
      /\ UNCHANGED <<files, core_refs>>
  BY DEF Detach, Bump
<1>2. ASSUME NEW e \in Drivers
      PROVE  module_refs'[e] = Cardinality(FilesOf(files, UsersOf(e)'))
  <2>1. d \notin UsersOf(e)' /\ UsersOf(e)' \in SUBSET Devices
    BY <1>1, DeviceConfigAssumption DEF UsersOf
  <2>2. UsersOf(e) = IF e = driver[d] THEN UsersOf(e)' \cup {d} ELSE UsersOf(e)'
    BY <1>1, DeviceConfigAssumption DEF UsersOf
  <2>3. Cardinality(FilesOf(files, UsersOf(e)' \cup {d}))
          = Cardinality(FilesOf(files, UsersOf(e)')) + 1
    BY <2>1, FilesOfOneMore
  <2>4. Cardinality(FilesOf(files, UsersOf(e)')) \in Nat
    BY <2>1, FilesFinite
  <2>5. module_refs[e] = Cardinality(FilesOf(files, UsersOf(e)))
    BY RefsAreFiles
  <2> QED BY <1>1, <2>2, <2>3, <2>4, <2>5
<1> QED BY <1>1, <1>2, RefsAreFiles DEF RefsCountOpens, OpenFiles, FilesOf

\* A driver that can be unloaded has no users.
LEMMA UnusedDriver ==
  ASSUME TypeInv, RefsCountOpens, NEW drv \in Drivers, module_refs[drv] = 0
  PROVE  \A d \in UsersOf(drv) : files[d] = 0
  BY RefsAreFiles, NoFiles DEF TypeInv, TypeOK, UsersOf

\* Freeing devices that root does not wait for makes no file.
LEMMA FreeMakesNoFile ==
  ASSUME TypeInv, NEW ds \in SUBSET Devices, FreeDevices(ds),
         \A d \in ds : requesting[d] # "root"
  PROVE  UNCHANGED <<files, core_refs>>
<1>1. PICK late \in SUBSET {d \in ds : requesting[d] = "root" /\ files[d] < MaxOpen} :
        /\ files' = [d \in Devices |-> IF d \in late THEN files[d] + 1 ELSE files[d]]
        /\ core_refs' = core_refs + Cardinality(late)
  BY DEF FreeDevices
<1>2. late = {}
  OBVIOUS
<1>3. Cardinality(late) = 0
  BY <1>2, FS_EmptySet
<1> QED BY <1>1, <1>2, <1>3 DEF TypeInv, TypeOK

\* The devices a driver leaves, when the counts are right: those that use it, and
\* nobody has them open.
LEMMA ExitLeaves ==
  ASSUME TypeInv, RefsInv, NEW drv \in Drivers, DriverExit(drv)
  PROVE  /\ UsersOf(drv) \cup {d \in Devices : bound[d] = drv} = UsersOf(drv)
         /\ driver' = [d \in Devices |-> IF d \in UsersOf(drv) THEN None ELSE driver[d]]
         /\ UNCHANGED <<files, module_refs, core_refs>>
         /\ \A d \in UsersOf(drv) : files[d] = 0
<1> USE DEF RefsInv, OwnersInv
<1>1. ASSUME NEW d \in Devices, bound[d] = drv PROVE d \in AutoDevices /\ driver[d] = drv
  BY <1>1, DeviceConfigAssumption DEF DriverExit
<1>2. UsersOf(drv) \cup {d \in Devices : bound[d] = drv} = UsersOf(drv)
  BY <1>1 DEF UsersOf
<1>3. /\ module_refs[drv] = 0
      /\ driver' = [d \in Devices |-> IF d \in UsersOf(drv) THEN None ELSE driver[d]]
      /\ module_refs' = module_refs
  BY <1>2 DEF DriverExit, Unload
<1>4. UNCHANGED <<files, core_refs>>
  <2> DEFINE found == {d \in Devices : bound[d] = drv}
  <2>1. FreeDevices(found)
    BY DEF DriverExit
  <2>2. found \in SUBSET Devices /\ \A d \in found : requesting[d] # "root"
    BY <1>1
  <2> HIDE DEF found
  <2> QED BY <2>1, <2>2, FreeMakesNoFile
<1> QED BY <1>2, <1>3, <1>4, UnusedDriver

\* Unloading it changes no count.
LEMMA ExitRefs ==
  ASSUME TypeInv, RefsInv, NEW drv \in Drivers, DriverExit(drv)
  PROVE  RefsCountOpens'
<1> USE DEF TypeInv, TypeOK
<1>1. /\ module_refs[drv] = 0
      /\ driver' = [d \in Devices |-> IF d \in UsersOf(drv) THEN None ELSE driver[d]]
      /\ UNCHANGED <<files, module_refs, core_refs>>
  BY ExitLeaves DEF DriverExit, Unload
<1>2. ASSUME NEW e \in Drivers
      PROVE  module_refs[e] = Cardinality(FilesOf(files, UsersOf(e)'))
  <2>1. CASE e = drv
    <3>1. UsersOf(e)' = {}
      BY <1>1, <2>1, DeviceConfigAssumption DEF UsersOf
    <3>2. Cardinality(FilesOf(files, UsersOf(e)')) = 0
      BY <3>1, NoFiles
    <3> QED BY <1>1, <2>1, <3>2
  <2>2. CASE e # drv
    <3>1. UsersOf(e)' = UsersOf(e)
      BY <1>1, <2>2, DeviceConfigAssumption DEF UsersOf
    <3> QED BY <3>1, RefsAreFiles DEF RefsInv
  <2> QED BY <2>1, <2>2
<1> QED BY <1>1, <1>2, RefsAreFiles DEF RefsInv, RefsCountOpens, OpenFiles, FilesOf

\* A device whose attach failed had no files, and has none then.
LEMMA FailLeaves ==
  ASSUME TypeInv, RefsInv, NEW d \in Devices, AutoFails(d)
  PROVE  /\ d \in AutoDevices
         /\ driver[d] = None
         /\ UNCHANGED <<driver, files, module_refs, core_refs>>
<1>1. d \in AutoDevices /\ driver[d] = None /\ requesting[d] # "root"
  BY DEF AutoFails, RefsInv, OwnersInv
<1>2. driver' = driver
  BY <1>1 DEF AutoFails, Put, TypeInv, TypeOK
<1>3. UNCHANGED <<files, core_refs>>
  BY <1>1, FreeMakesNoFile, {d} \in SUBSET Devices DEF AutoFails
<1> QED BY <1>1, <1>2, <1>3 DEF AutoFails

\* The owners of devices change only together with their drivers.
LEMMA OwnersStep ==
  ASSUME TypeInv, RefsInv, [MemoryNext]_memvars, ConfigAlone, ProbeAlone
  PROVE  OwnersInv'
<1> USE DEF TypeInv, TypeOK, MemoryTypeOK, RefsInv, OwnersInv
<1>1. ASSUME NEW d \in Devices, FileOpen(d) PROVE OwnersInv'
  <2>1. Exists(d) /\ UNCHANGED <<bound, probing, driver>>
    BY <1>1 DEF FileOpen, memory, Open, OpenRequests, OpenResumes
  <2>2. d \in AutoDevices /\ driver[d] = None => probing[d]
    BY <2>1 DEF Exists
  <2>3. ASSUME NEW who \in Privileges, OpenRequests(d, who), probing[d] => who = "user"
        PROVE  OwnersInv'
    BY <2>1, <2>2, <2>3, DeviceMemoryAssumption DEF OpenRequests, Attached
  <2>4. ASSUME OpenOk(d), d \in AutoDevices => driver[d] # None,
               UNCHANGED requesting \/ requesting' = [requesting EXCEPT ![d] = "nobody"]
        PROVE  OwnersInv'
    BY <2>1, <2>4, DeviceMemoryAssumption DEF OpenOk, Bump
  <2>5. ASSUME UNCHANGED files, requesting' = [requesting EXCEPT ![d] = "nobody"]
        PROVE  OwnersInv'
    BY <2>1, <2>5, DeviceMemoryAssumption
  <2>6. ASSUME NEW who \in Privileges, Open(d, who), probing[d] => who = "user"
        PROVE  OwnersInv'
    BY <2>2, <2>4, <2>6 DEF Open, Attached
  <2>7. ASSUME OpenResumes(d) PROVE OwnersInv'
    BY <2>4, <2>5, <2>7 DEF OpenResumes, Attached
  <2> QED BY <1>1, <2>3, <2>6, <2>7 DEF FileOpen
<1>2. ASSUME NEW d \in Devices, FileClose(d) PROVE OwnersInv'
  <2>1. /\ files' = [files EXCEPT ![d] = @ + -1]
        /\ files[d] > 0
        /\ UNCHANGED <<driver, bound, probing, requesting>>
    BY <1>2 DEF FileClose, Close, Bump
  <2> QED BY <2>1, DeviceMemoryAssumption
<1>3. ASSUME NEW d \in Devices, NEW drv \in Drivers, ConfigAttach(d, drv) PROVE OwnersInv'
  <2>1. d \notin AutoDevices
    BY <1>3 DEF ConfigAttach, Attach, MayConfigure, Attached
  <2> QED BY <1>3, <2>1, DeviceMemoryAssumption DEF ConfigAttach, Attach
<1>4. ASSUME NEW d \in Devices, NEW drv \in Drivers, AutoProbe(d, drv) PROVE OwnersInv'
  BY <1>4, DeviceMemoryAssumption, DeviceConfigAssumption DEF AutoProbe, Put, vars
<1>5. ASSUME NEW d \in Devices, AutoAttach(d) PROVE OwnersInv'
  BY <1>5, DeviceMemoryAssumption, DeviceConfigAssumption DEF AutoAttach, Put
<1>6. ASSUME NEW d \in Devices, AutoFails(d) PROVE OwnersInv'
  <2>1. /\ bound' = [e \in Devices |-> IF e \in {d} THEN None ELSE bound[e]]
        /\ probing' = [e \in Devices |-> e \notin {d} /\ probing[e]]
        /\ requesting' = [e \in Devices |-> IF e \in {d} THEN "nobody" ELSE requesting[e]]
    BY <1>6 DEF AutoFails, FreeDevices
  <2>2. UNCHANGED <<driver, files>> /\ d \in AutoDevices /\ driver[d] = None
    BY <1>6, FailLeaves
  <2> QED BY <2>1, <2>2, DeviceMemoryAssumption
<1>7. ASSUME NEW d \in Devices, ConfigDetach(d) PROVE OwnersInv'
  BY <1>7, DeviceMemoryAssumption DEF ConfigDetach, Detach
<1>8. ASSUME NEW drv \in Drivers, DriverExit(drv) PROVE OwnersInv'
  <2> DEFINE found == {d \in Devices : bound[d] = drv}
  <2>1. /\ bound' = [d \in Devices |-> IF d \in found THEN None ELSE bound[d]]
        /\ probing' = [d \in Devices |-> d \notin found /\ probing[d]]
        /\ requesting' = [d \in Devices |-> IF d \in found THEN "nobody" ELSE requesting[d]]
        /\ \A d \in found : ~probing[d]
    BY <1>8 DEF DriverExit, FreeDevices
  <2>2. /\ driver' = [d \in Devices |-> IF d \in UsersOf(drv) THEN None ELSE driver[d]]
        /\ files' = files
        /\ \A d \in UsersOf(drv) : files[d] = 0
    BY <1>8, ExitLeaves
  <2>3. \A d \in Devices : d \in found <=> bound[d] = drv
    OBVIOUS
  <2>4. \A d \in AutoDevices : d \in UsersOf(drv) <=> d \in found
    BY <2>1, DeviceMemoryAssumption, DeviceConfigAssumption DEF UsersOf
  <2> HIDE DEF found
  <2> QED BY <2>1, <2>2, <2>3, <2>4, DeviceMemoryAssumption
<1>9. CASE UNCHANGED <<driver, bound, probing, files, requesting>>
  BY <1>9
<1> QED
  BY <1>1, <1>2, <1>3, <1>4, <1>5, <1>6, <1>7, <1>8, <1>9
     DEF MemoryNext, memvars, vars, memory, Cmd, CmdEnds, Mmap, VmOpen, VmClose,
         Resize, DriverInit, Register

\* The counts follow, whatever the step.
LEMMA RefsStep ==
  ASSUME TypeInv, RefsInv, [MemoryNext]_memvars, ConfigAlone, ProbeAlone
  PROVE  RefsInv'
<1>1. ASSUME UNCHANGED <<driver, files, module_refs, core_refs>>
      PROVE  RefsCountOpens'
  BY <1>1 DEF RefsInv, RefsCountOpens, OpenFiles, UsersOf
<1>2. ASSUME NEW d \in Devices, FileOpen(d) PROVE RefsCountOpens'
  <2>1. ASSUME OpenOk(d), driver' = driver PROVE RefsCountOpens'
    BY <2>1, OpenRefs DEF RefsInv
  <2> QED BY <1>1, <1>2, <2>1 DEF FileOpen, Open, OpenRequests, OpenResumes
<1>3. ASSUME NEW d \in Devices, FileClose(d) PROVE RefsCountOpens'
  <2>1. Exists(d)
    <3>1. files[d] > 0
      BY <1>3 DEF FileClose, Close
    <3> QED BY <3>1 DEF RefsInv, OwnersInv, Exists, TypeInv, TypeOK
  <2> QED BY <1>3, <2>1, CloseRefs DEF FileClose, RefsInv
<1>4. ASSUME NEW d \in Devices, NEW drv \in Drivers, ConfigAttach(d, drv) PROVE RefsCountOpens'
  <2>1. /\ driver[d] = None /\ files[d] = 1
        /\ driver' = [driver EXCEPT ![d] = drv]
        /\ module_refs' = [module_refs EXCEPT ![drv] = @ + files[d]]
        /\ UNCHANGED <<files, core_refs>>
    BY <1>4 DEF ConfigAttach, Attach, Attached, MayConfigure, Bump
  <2> QED BY <2>1, AttachRefs DEF RefsInv
<1>5. ASSUME NEW d \in Devices, AutoAttach(d) PROVE RefsCountOpens'
  <2>1. /\ driver[d] = None /\ files[d] = 0
        /\ bound[d] \in Drivers
        /\ driver' = [driver EXCEPT ![d] = bound[d]]
        /\ UNCHANGED <<files, module_refs, core_refs>>
    BY <1>5 DEF AutoAttach, Put, RefsInv, OwnersInv, TypeInv, TypeOK
  <2>2. module_refs' = [module_refs EXCEPT ![bound[d]] = @ + files[d]]
    BY <2>1 DEF TypeInv, TypeOK
  <2> QED BY <2>1, <2>2, AttachRefs DEF RefsInv
<1>6. ASSUME NEW d \in Devices, ConfigDetach(d) PROVE RefsCountOpens'
  BY <1>6, DetachRefs DEF ConfigDetach, Detach, MayConfigure, RefsInv
<1>7. ASSUME NEW drv \in Drivers, DriverExit(drv) PROVE RefsCountOpens'
  BY <1>7, ExitRefs
<1>8. ASSUME NEW d \in Devices, AutoFails(d) PROVE RefsCountOpens'
  BY <1>1, <1>8, FailLeaves
<1>9. RefsCountOpens'
  BY <1>1, <1>2, <1>3, <1>4, <1>5, <1>6, <1>7, <1>8
     DEF MemoryNext, memvars, vars, Cmd, CmdEnds, Mmap, VmOpen, VmClose, Resize,
         AutoProbe, DriverInit, Register
<1> QED BY <1>9, OwnersStep DEF RefsInv

\* Before the first step nothing is counted.
LEMMA RefsInit == MemoryInit => TypeInv /\ RefsInv
<1> SUFFICES ASSUME MemoryInit PROVE TypeInv /\ RefsInv
  OBVIOUS
<1>1. TypeInv
  BY TypeInit
<1>2. OwnersInv
  BY DeviceMemoryAssumption DEF MemoryInit, Init, OwnersInv
<1>3. files \in [Devices -> 0 .. MaxOpen] /\ \A d \in Devices : files[d] = 0
  BY <1>1 DEF TypeInv, TypeOK, MemoryInit, Init
<1>4. Cardinality(FilesOf(files, Devices)) = 0
  BY <1>3, NoFiles
<1>5. \A drv \in Drivers : Cardinality(FilesOf(files, UsersOf(drv))) = 0
  BY <1>3, NoFiles DEF UsersOf
<1> QED BY <1>1, <1>2, <1>4, <1>5, RefsAreFiles DEF MemoryInit, Init, RefsInv

\* RefsCountOpens: when devices are configured by their only user and root opens none
\* between its probe and its attach, every open file holds the module of its driver
\* exactly once, whichever of open, request_module, attach, detach and unload came
\* first.
THEOREM OpensHoldDrivers == ConfigAlone /\ ProbeAlone => (MemorySpec => []RefsCountOpens)
<1> SUFFICES ASSUME ConfigAlone, ProbeAlone PROVE MemorySpec => []RefsCountOpens
  OBVIOUS
<1>1. MemoryInit => TypeInv /\ RefsInv
  BY RefsInit
<1>2. TypeInv /\ RefsInv /\ [MemoryNext]_memvars => (TypeInv /\ RefsInv)'
  BY TypeStep, RefsStep
<1>3. RefsInv => RefsCountOpens
  BY DEF RefsInv
<1> QED BY <1>1, <1>2, <1>3, PTL DEF MemorySpec

\* What no step may do, when the counts are right: only DriverExit takes a driver
\* away, and only from devices that nobody has open.
LEMMA DetachStep ==
  ASSUME TypeInv, RefsInv, [MemoryNext]_memvars
  PROVE  [\A d \in Devices :
            Attached(d) /\ driver[d] \notin comedi_drivers' => files[d] = 0]_vars
<1> SUFFICES ASSUME NEW d \in Devices, Attached(d), driver[d] \notin comedi_drivers'
             PROVE  files[d] = 0
  OBVIOUS
<1>1. driver[d] \in comedi_drivers /\ driver[d] \in Drivers
  BY DEF Attached, TypeInv, TypeOK
<1>2. PICK drv \in Drivers : DriverExit(drv)
  BY <1>1 DEF MemoryNext, memvars, vars, FileOpen, Open, OpenRequests, OpenResumes,
              FileClose, Close, ConfigDetach, Detach, Cmd, CmdEnds, Mmap, VmOpen,
              VmClose, Resize, ConfigAttach, Attach, AutoProbe, AutoAttach, AutoFails,
              FreeDevices, DriverInit, Register
<1>3. driver[d] = drv /\ module_refs[drv] = 0
  BY <1>1, <1>2 DEF DriverExit, Unload
<1> QED BY <1>3, UnusedDriver DEF UsersOf, RefsInv

\* NoDetachInUse: then no driver is ever taken away from an open file.
THEOREM DriverStaysInUse == ConfigAlone /\ ProbeAlone => (MemorySpec => NoDetachInUse)
<1> SUFFICES ASSUME ConfigAlone, ProbeAlone PROVE MemorySpec => NoDetachInUse
  OBVIOUS
<1>1. MemoryInit => TypeInv /\ RefsInv
  BY RefsInit
<1>2. TypeInv /\ RefsInv /\ [MemoryNext]_memvars => (TypeInv /\ RefsInv)'
  BY TypeStep, RefsStep
<1>3. TypeInv /\ RefsInv /\ [MemoryNext]_memvars
        => [\A d \in Devices :
              Attached(d) /\ driver[d] \notin comedi_drivers' => files[d] = 0]_vars
  BY DetachStep
<1> QED BY <1>1, <1>2, <1>3, PTL DEF MemorySpec, NoDetachInUse

-----------------------------------------------------------------------------
(* Mappings. *)

\* What MappedStaysAllocated needs: a mapping is held by an open file of an
\* attached device, and the last one takes what it shows with it.
MappedInv ==
  /\ MappedStaysAllocated
  /\ \A d \in Devices : maps[d] > 0 => Attached(d) /\ files[d] > 0
  /\ \A d \in Devices : maps[d] = 0 => mapped[d] = {}

\* The device whose buffer is given, resized or given back is not mapped.
LEMMA UnmappedChange ==
  ASSUME TypeInv, MappedInv, NEW ds \in SUBSET Devices,
         \A d \in ds : maps[d] = 0,
         \A d \in Devices \ ds : /\ buf'[d] = buf[d]
                                 /\ driver'[d] = driver[d]
                                 /\ files'[d] = files[d],
         UNCHANGED <<maps, mapped>>
  PROVE  MappedInv'
  BY DEF MappedInv, MappedStaysAllocated, Attached

\* Opening and closing files leaves a mapped device with an open file.
LEMMA FilesMapped ==
  ASSUME TypeInv, MappedInv, NEW d \in Devices, FileOpen(d) \/ FileClose(d)
  PROVE  MappedInv'
<1>1. UNCHANGED <<driver, buf, maps, mapped>>
  BY DEF FileOpen, FileClose, memory, Open, OpenRequests, OpenResumes, Close
<1>2. ASSUME NEW e \in Devices, maps[e] > 0 PROVE files'[e] > 0
  <2>1. files[e] > 0 /\ files[e] \in Int
    BY <1>2, DeviceConfigAssumption DEF MappedInv, TypeInv, TypeOK
  <2>2. ASSUME OpenOk(d) PROVE files'[e] > 0
    BY <2>1, <2>2 DEF OpenOk, Bump, TypeInv, TypeOK
  <2>3. ASSUME FileClose(d) PROVE files'[e] > 0
    <3>1. files' = [files EXCEPT ![d] = @ + -1] /\ (maps[d] > 0 => files[d] > 1)
      BY <2>3 DEF FileClose, Close, Bump
    <3> QED BY <1>2, <2>1, <3>1 DEF TypeInv, TypeOK
  <2> QED BY <2>1, <2>2, <2>3 DEF FileOpen, Open, OpenRequests, OpenResumes
<1> QED BY <1>1, <1>2 DEF MappedInv, MappedStaysAllocated, Attached

\* No step breaks it, when the counts are right.
LEMMA MappedStep ==
  ASSUME TypeInv, RefsInv, MappedInv, [MemoryNext]_memvars, ConfigAlone, ProbeAlone
  PROVE  MappedInv'
<1> USE DEF TypeInv, TypeOK, MemoryTypeOK
<1>1. ASSUME NEW d \in Devices, FileOpen(d) \/ FileClose(d) PROVE MappedInv'
  BY <1>1, FilesMapped
<1>2. ASSUME NEW d \in Devices, NEW n \in 1 .. MaxPages, Mmap(d, n) PROVE MappedInv'
  <2>1. PICK shown \in SUBSET buf[d] : mapped' = [mapped EXCEPT ![d] = mapped[d] \cup shown]
    BY <1>2 DEF Mmap, Put, kSubset
  <2>2. /\ maps' = [maps EXCEPT ![d] = maps[d] + 1]
        /\ Attached(d) /\ files[d] > 0
        /\ UNCHANGED <<driver, files, buf>>
    BY <1>2 DEF Mmap, Put, vars
  <2> QED BY <2>1, <2>2 DEF MappedInv, MappedStaysAllocated, Attached
<1>3. ASSUME NEW d \in Devices, VmOpen(d) PROVE MappedInv'
  <2>1. /\ maps' = [maps EXCEPT ![d] = maps[d] + 1] /\ maps[d] > 0
        /\ UNCHANGED <<driver, files, buf, mapped>>
    BY <1>3, DeviceMemoryAssumption DEF VmOpen, Put, vars
  <2> QED BY <2>1 DEF MappedInv, MappedStaysAllocated, Attached
<1>4. ASSUME NEW d \in Devices, VmClose(d) PROVE MappedInv'
  <2>1. /\ maps' = [maps EXCEPT ![d] = maps[d] - 1] /\ maps[d] > 0
        /\ mapped' = IF maps[d] = 1 THEN [mapped EXCEPT ![d] = {}] ELSE mapped
        /\ UNCHANGED <<driver, files, buf>>
    BY <1>4 DEF VmClose, Put, vars
  <2> QED BY <2>1 DEF MappedInv, MappedStaysAllocated, Attached
<1>5. ASSUME NEW d \in Devices, NEW n \in 0 .. MaxPages, Resize(d, n) PROVE MappedInv'
  <2>1. \A e \in Devices \ {d} : buf'[e] = buf[e]
    BY <1>5 DEF Resize, BufAlloc, Put
  <2> QED BY <1>5, <2>1, UnmappedChange, {d} \in SUBSET Devices DEF Resize, vars
<1>6. ASSUME NEW d \in Devices, (\E drv \in Drivers : ConfigAttach(d, drv)) \/ AutoAttach(d)
      PROVE  MappedInv'
  <2>1. ~Attached(d) /\ Postconfig(d)
    BY <1>6 DEF ConfigAttach, Attach, AutoAttach
  <2>2. maps[d] = 0
    BY <2>1 DEF MappedInv
  <2>3. \A e \in Devices \ {d} : buf'[e] = buf[e] /\ driver'[e] = driver[e]
    BY <1>6, <2>1 DEF ConfigAttach, Attach, AutoAttach, Postconfig, Put
  <2>4. UNCHANGED <<files, maps, mapped>>
    BY <1>6, <2>1 DEF ConfigAttach, Attach, AutoAttach, Postconfig
  <2> QED BY <2>2, <2>3, <2>4, UnmappedChange, {d} \in SUBSET Devices
<1>7. ASSUME NEW d \in Devices, ConfigDetach(d) \/ AutoFails(d) PROVE MappedInv'
  <2>1. maps[d] = 0
    BY <1>7, FailLeaves DEF ConfigDetach, MappedInv, Attached
  <2>2. UNCHANGED <<files, maps, mapped>>
    BY <1>7, FailLeaves DEF ConfigDetach, Detach, AutoFails, CleanupDevices
  <2>3. \A e \in Devices \ {d} : buf'[e] = buf[e] /\ driver'[e] = driver[e]
    BY <1>7 DEF ConfigDetach, Detach, AutoFails, CleanupDevices, Put
  <2> QED BY <2>1, <2>2, <2>3, UnmappedChange, {d} \in SUBSET Devices
<1>8. ASSUME NEW drv \in Drivers, DriverExit(drv) PROVE MappedInv'
  <2>1. /\ UsersOf(drv) \cup {d \in Devices : bound[d] = drv} = UsersOf(drv)
        /\ files' = files
        /\ \A d \in UsersOf(drv) : files[d] = 0
    BY <1>8, ExitLeaves
  <2>2. UNCHANGED <<maps, mapped>>
    BY <1>8 DEF DriverExit, CleanupDevices
  <2>3. \A d \in UsersOf(drv) : maps[d] = 0
    BY <2>1 DEF MappedInv, UsersOf
  <2>4. \A e \in Devices \ UsersOf(drv) : buf'[e] = buf[e] /\ driver'[e] = driver[e]
    BY <1>8, <2>1 DEF DriverExit, Unload, CleanupDevices
  <2> QED BY <2>1, <2>2, <2>3, <2>4, UnmappedChange, UsersOf(drv) \in SUBSET Devices
          DEF UsersOf
<1>9. CASE UNCHANGED <<driver, files, buf, maps, mapped>>
  BY <1>9 DEF MappedInv, MappedStaysAllocated, Attached
<1> QED
  BY <1>1, <1>2, <1>3, <1>4, <1>5, <1>6, <1>7, <1>8, <1>9
     DEF MemoryNext, memvars, vars, memory, Cmd, CmdEnds, AutoProbe, DriverInit,
         Register

\* MappedStaysAllocated: when devices are configured by their only user and root
\* opens none between its probe and its attach, no page
\* goes back to the kernel while a process sees it, in any order of mmap, fork,
\* munmap, close, resize, detach and unload.
THEOREM MappedPagesStay == ConfigAlone /\ ProbeAlone => (MemorySpec => []MappedStaysAllocated)
<1> SUFFICES ASSUME ConfigAlone, ProbeAlone PROVE MemorySpec => []MappedStaysAllocated
  OBVIOUS
<1>1. MemoryInit => TypeInv /\ RefsInv /\ MappedInv
  BY RefsInit DEF MemoryInit, Init, MappedInv, MappedStaysAllocated
<1>2. TypeInv /\ RefsInv /\ MappedInv /\ [MemoryNext]_memvars
        => (TypeInv /\ RefsInv /\ MappedInv)'
  BY TypeStep, RefsStep, MappedStep
<1>3. MappedInv => MappedStaysAllocated
  BY DEF MappedInv
<1> QED BY <1>1, <1>2, <1>3, PTL DEF MemorySpec

=============================================================================
