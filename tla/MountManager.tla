---------------------------- MODULE MountManager ----------------------------
(***************************************************************************)
(* The table of mounted disks: class CMountManager of the driver.          *)
(*                                                                         *)
(* Every application mounts, uses and unmounts disks through its own       *)
(* handle, so the routines below run in many threads at once.  There is no *)
(* mutex: a slot of m_disk_map is claimed with a compare-and-exchange that *)
(* leaves the placeholder -1, m_disk_count follows a step later, and the   *)
(* device object takes the placeholder's place once it exists.  Unmount    *)
(* reads a slot, clears it and counts down in three steps.  Each access to *)
(* shared state is an action here.                                         *)
(*                                                                         *)
(* An application disconnects its disk, waits for its exchange thread for  *)
(* a minute, and unmounts.  The remove option of the tool disconnects and  *)
(* unmounts any disk it is given the number of, and waits for nobody.      *)
(***************************************************************************)
EXTENDS Integers, FiniteSets

CONSTANTS
  Clients,     \* applications, each with one thread in Mount or Unmount
  Devices,     \* addresses of device objects; one may be reused after IoDeleteDevice
  MaxDisks,    \* MAX_MOUNTED_DISK
  NULL,        \* an empty slot
  Placeholder  \* (PVOID)(-1)

ASSUME ManagerAssumption ==
  /\ MaxDisks \in Nat \ {0}
  /\ IsFiniteSet(Clients)
  /\ {NULL, Placeholder} \cap Devices = {} /\ NULL # Placeholder

VARIABLES
  slot,       \* m_disk_map
  count,      \* m_disk_count
  live,       \* device objects created and not yet deleted
  id,         \* the number at the end of the name of each of them
  pc,         \* where each client stands
  dev_id,     \* the slot it scans, mounts or unmounts
  fdo,        \* the device its present call into the driver works on
  held,       \* the disk its exchange thread is inside, after DiskId2Ptr
  swept,      \* slots emptied by CMountManager::Release; -1 before it starts
  abandoned,  \* history: slots whose application died
  leaked,     \* history: slots whose mount failed after claiming them
  lost,       \* history: devices whose symbolic link could not be created
  calm,       \* history: did no other mount or unmount overlap this scan?
  late,       \* clients whose exchange thread the unmount did not wait for
  clash       \* history: a remove has met another call on the same disk

table == <<slot, count, live, id>>
history == <<abandoned, leaked, lost, calm, late, clash>>
vars == <<table, pc, dev_id, fdo, held, swept, history>>

Slots  == 0 .. MaxDisks - 1
Places == {"idle", "scan", "count", "create", "link", "publish", "mounted", "dead",
           "disconnect", "join", "unmount", "detach", "remove",
           "clear", "decrement", "release", "delete"}

GoTo(c, place) == pc' = [pc EXCEPT ![c] = place]

Init ==
  /\ slot = [s \in Slots |-> NULL] /\ count = 0
  /\ live = {} /\ id = [d \in Devices |-> 0]
  /\ pc = [c \in Clients |-> "idle"]
  /\ dev_id = [c \in Clients |-> 0] /\ fdo = [c \in Clients |-> NULL]
  /\ held = [c \in Clients |-> NULL]
  /\ swept = -1
  /\ abandoned = {} /\ leaked = {} /\ lost = {} /\ calm = [c \in Clients |-> FALSE]
  /\ late = {} /\ clash = FALSE
-----------------------------------------------------------------------------
(* Mount.  A mount that finds m_disk_count at its limit returns at once    *)
(* and changes nothing.                                                    *)

(* Mutant: the limit is compared one too high.                             *)
StartMountOverLimit(c) ==
  /\ pc[c] = "idle" /\ held[c] = NULL /\ swept = -1
  /\ count <= MaxDisks
  /\ dev_id' = [dev_id EXCEPT ![c] = 0]
  /\ late' = late \ {c}
  /\ calm' = [calm EXCEPT ![c] = \A o \in Clients : pc[o] \notin {"count", "decrement"}]
  /\ GoTo(c, "scan")
  /\ UNCHANGED <<table, fdo, held, swept, abandoned, leaked, lost, clash>>

StartMount(c) ==
  /\ pc[c] = "idle" /\ held[c] = NULL /\ swept = -1
  /\ count < MaxDisks
  /\ dev_id' = [dev_id EXCEPT ![c] = 0]
  /\ late' = late \ {c}
  /\ calm' = [calm EXCEPT ![c] = \A o \in Clients : pc[o] \notin {"count", "decrement"}]
  /\ GoTo(c, "scan")
  /\ UNCHANGED <<table, fdo, held, swept, abandoned, leaked, lost, clash>>

(* Mutant: a slot that only holds the placeholder counts as empty.         *)
ClaimAnyUnmounted(c) ==
  /\ pc[c] = "scan" /\ slot[dev_id[c]] \notin Devices
  /\ slot' = [slot EXCEPT ![dev_id[c]] = Placeholder]
  /\ calm' = [o \in Clients |-> o = c /\ calm[c]]
  /\ GoTo(c, "count")
  /\ UNCHANGED <<count, live, id, dev_id, fdo, held, swept, abandoned, leaked, lost, late, clash>>

ClaimSlot(c) ==
  /\ pc[c] = "scan" /\ slot[dev_id[c]] = NULL
  /\ slot' = [slot EXCEPT ![dev_id[c]] = Placeholder]
  /\ calm' = [o \in Clients |-> o = c /\ calm[c]]
  /\ GoTo(c, "count")
  /\ UNCHANGED <<count, live, id, dev_id, fdo, held, swept, abandoned, leaked, lost, late, clash>>

NextSlot(c) ==
  /\ pc[c] = "scan" /\ slot[dev_id[c]] # NULL
  /\ dev_id[c] + 1 < MaxDisks
  /\ dev_id' = [dev_id EXCEPT ![c] = @ + 1]
  /\ UNCHANGED <<table, pc, fdo, held, swept, history>>

ScanFails(c) ==
  /\ pc[c] = "scan" /\ slot[dev_id[c]] # NULL
  /\ dev_id[c] + 1 = MaxDisks
  /\ GoTo(c, "idle")
  /\ UNCHANGED <<table, dev_id, fdo, held, swept, history>>

CountUp(c) ==
  /\ pc[c] = "count"
  /\ count' = count + 1
  /\ GoTo(c, "create")
  /\ UNCHANGED <<slot, live, id, dev_id, fdo, held, swept, history>>

NameTaken(n) == \E d \in live : id[d] = n

(* IoCreateDevice fails when a device of that name still exists, and may   *)
(* fail for want of memory.                                                *)
CreateDevice(c) ==
  /\ pc[c] = "create" /\ ~ NameTaken(dev_id[c])
  /\ \E d \in Devices \ live :
       /\ live' = live \cup {d}
       /\ id' = [id EXCEPT ![d] = dev_id[c]]
       /\ fdo' = [fdo EXCEPT ![c] = d]
  /\ GoTo(c, "link")
  /\ UNCHANGED <<slot, count, dev_id, held, swept, history>>

(* A failed mount returns with its slot claimed and counted,               *)
CreateFails(c) ==
  /\ pc[c] = "create"
  /\ leaked' = leaked \cup {dev_id[c]}
  /\ GoTo(c, "idle")
  /\ UNCHANGED <<table, dev_id, fdo, held, swept, abandoned, lost, calm, late, clash>>

CreateLink(c) ==
  /\ pc[c] = "link"
  /\ GoTo(c, "publish")
  /\ UNCHANGED <<table, dev_id, fdo, held, swept, history>>

(* and with its device, if only the link is missing.                       *)
LinkFails(c) ==
  /\ pc[c] = "link"
  /\ leaked' = leaked \cup {dev_id[c]} /\ lost' = lost \cup {fdo[c]}
  /\ GoTo(c, "idle")
  /\ UNCHANGED <<table, dev_id, fdo, held, swept, abandoned, calm, late, clash>>

Publish(c) ==
  /\ pc[c] = "publish"
  /\ slot' = [slot EXCEPT ![dev_id[c]] = fdo[c]]
  /\ GoTo(c, "mounted")
  /\ UNCHANGED <<count, live, id, dev_id, fdo, held, swept, history>>
-----------------------------------------------------------------------------
(* The exchange thread of an application calls the driver until it has got *)
(* the disconnect request; one that was not waited for goes on until its   *)
(* process ends, with whatever disk it finds in the slot.                  *)
Exchanging(c) ==
  pc[c] \in {"mounted", "disconnect", "join"} \/ (c \in late /\ pc[c] \notin {"idle", "dead"})

(* It is inside RequestExchange, with the pointer DiskId2Ptr gave it.      *)
EnterDisk(c) ==
  /\ Exchanging(c) /\ held[c] = NULL
  /\ slot[dev_id[c]] \in Devices
  /\ held' = [held EXCEPT ![c] = slot[dev_id[c]]]
  /\ UNCHANGED <<table, pc, dev_id, fdo, swept, history>>

LeaveDisk(c) ==
  /\ held[c] # NULL
  /\ held' = [held EXCEPT ![c] = NULL]
  /\ UNCHANGED <<table, pc, dev_id, fdo, swept, history>>

(* The application is killed; its disk stays mounted.                      *)
Die(c) ==
  /\ pc[c] \in {"mounted", "join", "unmount"}
  /\ abandoned' = abandoned \cup {dev_id[c]}
  /\ GoTo(c, "dead")
  /\ UNCHANGED <<table, dev_id, fdo, held, swept, leaked, lost, calm, late, clash>>
-----------------------------------------------------------------------------
(* Disconnect: the driver puts a disconnect request into the queue of the  *)
(* disk (module MountedDisk) with the pointer DiskId2Ptr gave it.          *)
Disconnect(c) ==
  /\ pc[c] = "mounted" /\ slot[dev_id[c]] \in Devices
  /\ fdo' = [fdo EXCEPT ![c] = slot[dev_id[c]]]
  /\ GoTo(c, "disconnect")
  /\ UNCHANGED <<table, dev_id, held, swept, history>>

Disconnected(c) ==
  /\ pc[c] = "disconnect"
  /\ GoTo(c, "join")
  /\ UNCHANGED <<table, dev_id, fdo, held, swept, history>>

(* Mutant: Disconnect does not wait for the exchange thread.               *)
JoinNothing(c) ==
  /\ pc[c] = "join"
  /\ GoTo(c, "unmount")
  /\ UNCHANGED <<table, dev_id, fdo, held, swept, history>>

(* The thread has got the request and ended,                               *)
Join(c) ==
  /\ pc[c] = "join" /\ held[c] = NULL
  /\ GoTo(c, "unmount")
  /\ UNCHANGED <<table, dev_id, fdo, held, swept, history>>

(* or has not within 60 seconds.                                           *)
JoinTimesOut(c) ==
  /\ pc[c] = "join"
  /\ late' = late \cup {c}
  /\ GoTo(c, "unmount")
  /\ UNCHANGED <<table, dev_id, fdo, held, swept, abandoned, leaked, lost, calm, clash>>

(* The remove option: the same request for disk n, whoever has it.         *)
StartRemove(c, n) ==
  /\ pc[c] = "idle" /\ held[c] = NULL /\ swept = -1
  /\ slot[n] \in Devices
  /\ dev_id' = [dev_id EXCEPT ![c] = n]
  /\ fdo' = [fdo EXCEPT ![c] = slot[n]]
  /\ late' = late \ {c} /\ clash' = (clash \/ n \notin abandoned)
  /\ GoTo(c, "detach")
  /\ UNCHANGED <<table, held, swept, abandoned, leaked, lost, calm>>

Detached(c) ==
  /\ pc[c] = "detach"
  /\ GoTo(c, "remove")
  /\ UNCHANGED <<table, dev_id, fdo, held, swept, history>>

(* A call for a slot that has become empty fails; the tool ends, and its   *)
(* exchange thread with it.                                                *)
NotExist(c) ==
  /\ pc[c] \in {"mounted", "unmount", "remove"} /\ slot[dev_id[c]] = NULL
  /\ GoTo(c, "idle")
  /\ UNCHANGED <<table, dev_id, fdo, held, swept, history>>
-----------------------------------------------------------------------------
(* Unmount, called by the destructor of CDriverControl.  Nothing in it     *)
(* looks for a thread inside the disk, or for another call on it.          *)
ReadSlot(c) ==
  /\ slot[dev_id[c]] # NULL
  /\ fdo' = [fdo EXCEPT ![c] = slot[dev_id[c]]]
  /\ GoTo(c, "clear")
  /\ UNCHANGED <<table, dev_id, held, swept, leaked, lost, calm>>

InsideDisconnect(c) == \E o \in Clients \ {c} :
  pc[o] \in {"disconnect", "detach"} /\ dev_id[o] = dev_id[c]

UnmountOwn(c) ==
  /\ pc[c] = "unmount"
  /\ ReadSlot(c)
  /\ clash' = (clash \/ InsideDisconnect(c))
  /\ UNCHANGED <<abandoned, late>>

(* The threads of the application that had the disk were not waited for.   *)
UnmountOther(c) ==
  /\ pc[c] = "remove"
  /\ ReadSlot(c)
  /\ clash' = (clash \/ InsideDisconnect(c) \/ dev_id[c] \notin abandoned)
  /\ late' = late \cup {o \in Clients : pc[o] = "dead" /\ dev_id[o] = dev_id[c]}
  /\ abandoned' = abandoned \ {dev_id[c]}

(* Mutant: the slot is not given back.                                     *)
KeepSlot(c) ==
  /\ pc[c] = "clear"
  /\ calm' = [o \in Clients |-> FALSE]
  /\ GoTo(c, "decrement")
  /\ UNCHANGED <<slot, count, live, id, dev_id, fdo, held, swept, abandoned, leaked, lost, late, clash>>

ClearSlot(c) ==
  /\ pc[c] = "clear"
  /\ slot' = [slot EXCEPT ![dev_id[c]] = NULL]
  /\ calm' = [o \in Clients |-> FALSE]
  /\ GoTo(c, "decrement")
  /\ UNCHANGED <<count, live, id, dev_id, fdo, held, swept, abandoned, leaked, lost, late, clash>>

(* Mutant: the count follows only the last disk.                           *)
CountDownOnce(c) ==
  /\ pc[c] = "decrement"
  /\ count' = IF count > 1 THEN count ELSE 0
  /\ GoTo(c, "release")
  /\ UNCHANGED <<slot, live, id, dev_id, fdo, held, swept, history>>

CountDown(c) ==
  /\ pc[c] = "decrement"
  /\ count' = count - 1
  /\ GoTo(c, "release")
  /\ UNCHANGED <<slot, live, id, dev_id, fdo, held, swept, history>>

(* CMountedDisk::Release, module MountedDisk.                              *)
ReleaseDisk(c) ==
  /\ pc[c] = "release" /\ fdo[c] # Placeholder
  /\ GoTo(c, "delete")
  /\ UNCHANGED <<table, dev_id, fdo, held, swept, history>>

(* Mutant: the device object is not deleted.                               *)
ForgetDevice(c) ==
  /\ pc[c] = "delete"
  /\ fdo' = [fdo EXCEPT ![c] = NULL]
  /\ GoTo(c, "idle")
  /\ UNCHANGED <<slot, count, live, id, dev_id, held, swept, history>>

DeleteDevice(c) ==
  /\ pc[c] = "delete"
  /\ live' = live \ {fdo[c]}
  /\ fdo' = [fdo EXCEPT ![c] = NULL]
  /\ GoTo(c, "idle")
  /\ UNCHANGED <<slot, count, id, dev_id, held, swept, history>>
-----------------------------------------------------------------------------
(* CMountManager::Release, called when the driver is unloaded or its own   *)
(* device removed; either needs every handle to that device closed.        *)
StartSweep ==
  /\ swept = -1
  /\ \A c \in Clients : pc[c] \in {"idle", "dead"} /\ held[c] = NULL
  /\ swept' = 0
  /\ UNCHANGED <<table, pc, dev_id, fdo, held, history>>

SweepSlot ==
  /\ swept \in Slots /\ slot[swept] # Placeholder
  /\ slot' = [slot EXCEPT ![swept] = NULL]
  /\ live' = live \ {slot[swept]}
  /\ swept' = swept + 1
  /\ UNCHANGED <<count, id, pc, dev_id, fdo, held, history>>

(* The disk numbers a client may pass to DiskId2Ptr.                       *)
Passed(c) ==
  IF Exchanging(c) THEN {dev_id[c]} ELSE IF pc[c] = "idle" /\ swept = -1 THEN Slots ELSE {}

(* DiskId2Ptr takes the placeholder for a device object; so does Release,  *)
(* this one and that of an unmount (which goes no further).  The machine   *)
(* stops, and when it is started again the driver has an empty table.      *)
UsePlaceholder ==
  /\ \E n \in UNION {Passed(c) : c \in Clients} \cup ({swept} \cap Slots) : slot[n] = Placeholder
  /\ slot' = [s \in Slots |-> NULL] /\ count' = 0
  /\ live' = {} /\ id' = [d \in Devices |-> 0]
  /\ pc' = [c \in Clients |-> "idle"]
  /\ dev_id' = [c \in Clients |-> 0] /\ fdo' = [c \in Clients |-> NULL]
  /\ held' = [c \in Clients |-> NULL]
  /\ swept' = -1
  /\ abandoned' = {} /\ leaked' = {} /\ lost' = {} /\ calm' = [c \in Clients |-> FALSE]
  /\ late' = {} /\ clash' = FALSE
-----------------------------------------------------------------------------
Mount(c) ==
  \/ StartMount(c) \/ ClaimSlot(c) \/ NextSlot(c) \/ ScanFails(c) \/ CountUp(c)
  \/ CreateDevice(c) \/ CreateFails(c) \/ CreateLink(c) \/ LinkFails(c) \/ Publish(c)

Unmount(c) ==
  \/ Disconnect(c) \/ Disconnected(c) \/ Join(c) \/ JoinTimesOut(c) \/ UnmountOwn(c)
  \/ (\E n \in Slots : StartRemove(c, n)) \/ Detached(c) \/ UnmountOther(c)
  \/ NotExist(c) \/ ClearSlot(c) \/ CountDown(c) \/ ReleaseDisk(c) \/ DeleteDevice(c)

Step(c) ==
  Mount(c) \/ Unmount(c) \/ EnterDisk(c) \/ LeaveDisk(c) \/ Die(c)

Next ==
  \/ \E c \in Clients : Mount(c) \/ Unmount(c) \/ EnterDisk(c) \/ LeaveDisk(c) \/ Die(c)
  \/ StartSweep \/ SweepSlot \/ UsePlaceholder

Spec == Init /\ [][Next]_vars
-----------------------------------------------------------------------------
At(places) == {c \in Clients : pc[c] \in places}
Mounting   == At({"count", "create", "link", "publish"})
Unmounting == At({"clear", "decrement", "release", "delete"})

(* Every variable has its type.                                            *)
TypeOK ==
  /\ slot \in [Slots -> Devices \cup {NULL, Placeholder}]
  /\ count \in Int
  /\ live \subseteq Devices /\ id \in [Devices -> Slots]
  /\ pc \in [Clients -> Places]
  /\ dev_id \in [Clients -> Slots]
  /\ fdo \in [Clients -> Devices \cup {NULL, Placeholder}]
  /\ held \in [Clients -> Devices \cup {NULL}]
  /\ swept \in -1 .. MaxDisks
  /\ abandoned \subseteq Slots /\ leaked \subseteq Slots
  /\ lost \subseteq Devices \cup {NULL, Placeholder}
  /\ calm \in [Clients -> BOOLEAN]
  /\ late \subseteq Clients /\ clash \in BOOLEAN

(* What follows holds until a remove clashes with another call on the same *)
(* disk: it was given the number of a disk that an application has or that *)
(* is being unmounted, or two calls are inside the disk when it goes.      *)

(* m_disk_count is the number of slots in use, but for the mounts that     *)
(* have claimed and not counted and the unmounts that have cleared and not *)
(* counted: each of those may put it off by one, beyond the limit too, and *)
(* it is right, and CanBeRemoved with it, whenever nobody is in between.   *)
CountAccounts ==
  swept = -1 /\ ~ clash =>
    count = Cardinality({s \in Slots : slot[s] # NULL})
            - Cardinality(At({"count"})) + Cardinality(At({"decrement"}))

(* The compare-and-exchange gives a slot to one mount only: a slot with    *)
(* the placeholder belongs to exactly one mount in progress, or to one     *)
(* that has failed and left it behind.                                     *)
PlaceholderOwned ==
  ~ clash =>
    /\ \A c, d \in Mounting : dev_id[c] = dev_id[d] => c = d
    /\ \A c \in Mounting : dev_id[c] \notin leaked
    /\ swept = -1 => \A s \in Slots :
         slot[s] = Placeholder <=> (s \in leaked \/ \E c \in Mounting : dev_id[c] = s)

(* A slot leads to its own disk: the device in it exists and is named      *)
(* after the slot, so no application exchanges with another one's disk.    *)
SlotHasItsDevice ==
  ~ clash =>
    \A s \in Slots : slot[s] \in Devices => slot[s] \in live /\ id[slot[s]] = s

(* "Interlocked functions keep the map intact": a device that exists is in *)
(* the map, or in the hands of one mount or unmount, or was left behind    *)
(* when its link could not be created; the map never loses a disk.         *)
MapIntact ==
  ~ clash => \A d \in live :
    \/ \E s \in Slots : slot[s] = d
    \/ \E c \in Clients : pc[c] \in {"link", "publish", "decrement", "release", "delete"} /\ fdo[c] = d
    \/ d \in lost

(* Nobody works on a device object that has been deleted, but for exchange *)
(* threads that the unmount did not wait for (a minute of Disconnect has   *)
(* passed, or the remove option took the disk of a dead application): not  *)
(* the other exchange threads, not a call that disconnects, not an unmount *)
(* about to release; and no two unmounts delete the same one.              *)
NoUseAfterDelete ==
  ~ clash =>
    /\ \A c \in Clients \ late : held[c] # NULL => held[c] \in live
    /\ \A c \in At({"disconnect", "detach"}) \cup Unmounting : fdo[c] \in live
    /\ \A c, d \in Unmounting : fdo[c] = fdo[d] => c = d

(* A mount that passed the check of m_disk_count fails to find a slot only *)
(* when another mount or unmount overlapped it: the case the source leaves *)
(* to a retry.                                                             *)
ScanFailsOnlyInRace == [][\A c \in Clients : ScanFails(c) => ~ calm[c] \/ clash]_vars
=============================================================================
