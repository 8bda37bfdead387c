------------------------ MODULE MountManagerProofs ------------------------
(***************************************************************************)
(* Theorems about MountManager, for any number of clients, devices and     *)
(* slots.  They say what holds until a remove clashes with another call on *)
(* the same disk, and again after the restart of the machine.              *)
(*                                                                         *)
(* The argument is ownership.  From the compare-and-exchange on, a slot in *)
(* use belongs to one client, or it is abandoned or leaked; and a device   *)
(* that exists belongs to one slot or to one client, or it is lost.        *)
(***************************************************************************)
EXTENDS MountManager, FiniteSetTheorems, TLAPS

Owning    == {"count", "create", "link", "publish",
              "mounted", "disconnect", "join", "unmount", "clear"}
HasDisk   == {"mounted", "disconnect", "join", "unmount", "clear"}
HoldsName == {"count", "create", "link", "publish"}
Building  == {"link", "publish"}
Dropping  == {"decrement", "release", "delete"}
OnDisk    == {"disconnect", "detach", "clear"}

(* A slot has one owner.                                                   *)
OneOwner ==
  /\ \A c, d \in At(Owning) : dev_id[c] = dev_id[d] => c = d
  /\ \A c \in At(Owning) : dev_id[c] \notin leaked \cup abandoned
  /\ leaked \cap abandoned = {}

(* What is in a slot tells who owns it.                                    *)
SlotTellsOwner ==
  swept = -1 => \A s \in Slots :
    /\ slot[s] = Placeholder <=> (s \in leaked \/ \E c \in At(HoldsName) : dev_id[c] = s)
    /\ slot[s] \in Devices <=>
         (s \in abandoned \/ \E c \in At(HasDisk) : dev_id[c] = s)

(* A device belongs to its slot or to the client that makes or drops it.   *)
OnePlace ==
  /\ \A c \in At(OnDisk) : fdo[c] = slot[dev_id[c]] /\ fdo[c] \in Devices
  /\ \A c \in At(Building) : fdo[c] \in live /\ id[fdo[c]] = dev_id[c]
  /\ \A c \in At(Dropping) : fdo[c] \in live
  /\ \A c \in At(Building \cup Dropping) :
       fdo[c] \notin lost /\ \A s \in Slots : slot[s] # fdo[c]
  /\ \A c, d \in At(Building \cup Dropping) : fdo[c] = fdo[d] => c = d
  /\ \A s \in Slots : slot[s] \notin lost
  /\ lost \subseteq live

(* A remove is inside a disk that nobody else unmounts.                    *)
DetachAlone == \A c \in At({"detach"}) : dev_id[c] \in abandoned

(* A thread is inside the disk of its own slot, which nobody unmounts      *)
(* before it has left or been given up.                                    *)
Own(c) ==
  \/ pc[c] \in {"mounted", "disconnect", "join"}
  \/ pc[c] = "dead" /\ dev_id[c] \in abandoned

InsideOwnDisk ==
  \A c \in Clients \ late : held[c] # NULL =>
    held[c] \in Devices /\ held[c] = slot[dev_id[c]] /\ Own(c)

(* SlotHasItsDevice and MapIntact, and the count, while nothing clashes.   *)
DevicesNamed == \A s \in Slots : slot[s] \in Devices => slot[s] \in live /\ id[slot[s]] = s

Placed(d) ==
  \/ \E s \in Slots : slot[s] = d
  \/ \E c \in At(Building \cup Dropping) : fdo[c] = d
  \/ d \in lost

DevicesPlaced == \A d \in live : Placed(d)

(* Nobody is at work once the driver clears the table.                     *)
SweepAlone ==
  swept # -1 => \A c \in Clients : pc[c] \in {"idle", "dead"} /\ held[c] = NULL

TableInv ==
  /\ OneOwner /\ SlotTellsOwner /\ OnePlace /\ DetachAlone /\ InsideOwnDisk
  /\ DevicesNamed /\ DevicesPlaced

ManagerInv == TypeOK /\ SweepAlone /\ (~ clash => TableInv)

(* A step that is not the restart.                                         *)
Work ==
  \/ \E c \in Clients : Mount(c) \/ Unmount(c) \/ EnterDisk(c) \/ LeaveDisk(c) \/ Die(c)
  \/ StartSweep \/ SweepSlot

-----------------------------------------------------------------------------
(* The clients that stay where they are, and the one that moves.           *)
LEMMA Moves ==
  ASSUME TypeOK, NEW c \in Clients, NEW place \in Places, GoTo(c, place)
  PROVE  /\ pc' \in [Clients -> Places] /\ pc'[c] = place
         /\ \A o \in Clients \ {c} : pc'[o] = pc[o]
  BY DEF GoTo, TypeOK

LEMMA ManagerTypes == TypeOK /\ [Work]_vars => TypeOK'
  <1> SUFFICES ASSUME TypeOK, [Work]_vars
               PROVE  TypeOK'
    OBVIOUS
  <1> USE ManagerAssumption
  <1>1. ASSUME NEW c \in Clients, StartMount(c) \/ NextSlot(c) \/ ScanFails(c)
        PROVE  TypeOK'
    <2>1. pc' \in [Clients -> Places]
      BY <1>1, Moves DEF StartMount, NextSlot, ScanFails, TypeOK, Places
    <2>2. dev_id' \in [Clients -> Slots]
      BY <1>1 DEF StartMount, NextSlot, ScanFails, TypeOK, Slots
    <2>3. calm' \in [Clients -> BOOLEAN] /\ late' \subseteq Clients
      BY <1>1 DEF StartMount, NextSlot, ScanFails, history, TypeOK
    <2> QED  BY <1>1, <2>1, <2>2, <2>3 DEF StartMount, NextSlot, ScanFails, table, history, TypeOK
  <1>2. ASSUME NEW c \in Clients, ClaimSlot(c) \/ ClearSlot(c)
        PROVE  TypeOK'
    <2>1. pc' \in [Clients -> Places]
      BY <1>2, Moves DEF ClaimSlot, ClearSlot, Places
    <2>2. slot' \in [Slots -> Devices \cup {NULL, Placeholder}]
      BY <1>2 DEF ClaimSlot, ClearSlot, TypeOK
    <2>3. calm' \in [Clients -> BOOLEAN]
      BY <1>2 DEF ClaimSlot, ClearSlot, TypeOK
    <2> QED  BY <1>2, <2>1, <2>2, <2>3 DEF ClaimSlot, ClearSlot, TypeOK
  <1>3. ASSUME NEW c \in Clients, CountUp(c) \/ CountDown(c)
        PROVE  TypeOK'
    <2>1. pc' \in [Clients -> Places]
      BY <1>3, Moves DEF CountUp, CountDown, Places
    <2>2. count' \in Int
      BY <1>3 DEF CountUp, CountDown, TypeOK
    <2> QED  BY <1>3, <2>1, <2>2 DEF CountUp, CountDown, history, TypeOK
  <1>4. ASSUME NEW c \in Clients, \/ CreateLink(c) \/ ReleaseDisk(c) \/ Disconnected(c)
                                  \/ Join(c) \/ Detached(c) \/ NotExist(c)
        PROVE  TypeOK'
    <2>1. pc' \in [Clients -> Places]
      BY <1>4, Moves DEF CreateLink, ReleaseDisk, Disconnected, Join, Detached, NotExist, Places
    <2> QED
      BY <1>4, <2>1
      DEF CreateLink, ReleaseDisk, Disconnected, Join, Detached, NotExist, table, history, TypeOK
  <1>5. ASSUME NEW c \in Clients, CreateDevice(c)
        PROVE  TypeOK'
    BY <1>5 DEF CreateDevice, GoTo, history, TypeOK, Places
  <1>6. ASSUME NEW c \in Clients, DeleteDevice(c)
        PROVE  TypeOK'
    BY <1>6 DEF DeleteDevice, GoTo, history, TypeOK, Places
  <1>7. ASSUME NEW c \in Clients, CreateFails(c) \/ LinkFails(c)
        PROVE  TypeOK'
    <2>1. leaked' \subseteq Slots /\ pc' \in [Clients -> Places]
      BY <1>7, Moves DEF CreateFails, LinkFails, TypeOK, Places
    <2>2. lost' \subseteq Devices \cup {NULL, Placeholder}
      BY <1>7 DEF CreateFails, LinkFails, TypeOK
    <2> QED  BY <1>7, <2>1, <2>2 DEF CreateFails, LinkFails, table, TypeOK
  <1>8. ASSUME NEW c \in Clients, JoinTimesOut(c)
        PROVE  TypeOK'
    <2>1. late' \subseteq Clients /\ pc' \in [Clients -> Places]
      BY <1>8, Moves DEF JoinTimesOut, TypeOK, Places
    <2> QED  BY <1>8, <2>1 DEF JoinTimesOut, table, TypeOK
  <1>9. ASSUME NEW c \in Clients, Publish(c)
        PROVE  TypeOK'
    BY <1>9 DEF Publish, GoTo, history, TypeOK, Places
  <1>10. ASSUME NEW c \in Clients, EnterDisk(c) \/ LeaveDisk(c)
         PROVE  TypeOK'
    BY <1>10 DEF EnterDisk, LeaveDisk, table, history, TypeOK
  <1>11. ASSUME NEW c \in Clients, Die(c)
         PROVE  TypeOK'
    <2>1. abandoned' \subseteq Slots /\ pc' \in [Clients -> Places]
      BY <1>11, Moves DEF Die, TypeOK, Places
    <2> QED  BY <1>11, <2>1 DEF Die, table, TypeOK
  <1>12. ASSUME NEW c \in Clients, Disconnect(c) \/ \E n \in Slots : StartRemove(c, n)
         PROVE  TypeOK'
    <2>1. pc' \in [Clients -> Places]
      BY <1>12, Moves DEF Disconnect, StartRemove, Places
    <2>2. /\ fdo' \in [Clients -> Devices \cup {NULL, Placeholder}]
          /\ dev_id' \in [Clients -> Slots]
      BY <1>12 DEF Disconnect, StartRemove, TypeOK
    <2>3. late' \subseteq Clients /\ clash' \in BOOLEAN
      BY <1>12 DEF Disconnect, StartRemove, history, TypeOK
    <2> QED  BY <1>12, <2>1, <2>2, <2>3 DEF Disconnect, StartRemove, table, history, TypeOK
  <1>13. ASSUME NEW c \in Clients, UnmountOwn(c) \/ UnmountOther(c)
         PROVE  TypeOK'
    <2>1. /\ pc' \in [Clients -> Places]
          /\ fdo' \in [Clients -> Devices \cup {NULL, Placeholder}]
      BY <1>13, Moves DEF UnmountOwn, UnmountOther, ReadSlot, TypeOK, Places
    <2>2. late' \subseteq Clients /\ clash' \in BOOLEAN /\ abandoned' \subseteq Slots
      BY <1>13 DEF UnmountOwn, UnmountOther, InsideDisconnect, TypeOK
    <2> QED  BY <1>13, <2>1, <2>2 DEF UnmountOwn, UnmountOther, ReadSlot, table, TypeOK
  <1>14. ASSUME StartSweep \/ SweepSlot
         PROVE  TypeOK'
    <2>1. CASE StartSweep
      BY <2>1 DEF StartSweep, table, history, TypeOK
    <2>2. CASE SweepSlot
      <3>1. swept' \in -1 .. MaxDisks
        BY <2>2 DEF SweepSlot, Slots
      <3> QED  BY <2>2, <3>1 DEF SweepSlot, history, TypeOK
    <2> QED  BY <1>14, <2>1, <2>2
  <1>15. ASSUME UNCHANGED vars
         PROVE  TypeOK'
    BY <1>15 DEF vars, table, history, TypeOK
  <1> QED
    BY <1>1, <1>2, <1>3, <1>4, <1>5, <1>6, <1>7, <1>8, <1>9, <1>10, <1>11, <1>12, <1>13,
       <1>14, <1>15 DEF Work, Mount, Unmount

(* Ownership of slots.  A claim finds the slot empty, so it has no owner.  *)
LEMMA OwnerStep ==
  ~ clash' /\ TypeOK /\ OneOwner /\ SlotTellsOwner /\ SweepAlone /\ [Work]_vars => OneOwner'
  <1> SUFFICES ASSUME ~ clash', TypeOK, OneOwner, SlotTellsOwner, SweepAlone, [Work]_vars
               PROVE  OneOwner'
    OBVIOUS
  <1> USE DEF At, Owning
  <1>1. ASSUME NEW c \in Clients, \/ StartMount(c) \/ NextSlot(c) \/ ScanFails(c) \/ Detached(c)
                                  \/ NotExist(c) \/ \E n \in Slots : StartRemove(c, n)
        PROVE  OneOwner'
    BY <1>1
    DEF StartMount, NextSlot, ScanFails, StartRemove, Detached, NotExist, GoTo, history, OneOwner, TypeOK
  <1>2. ASSUME NEW c \in Clients, ClaimSlot(c)
        PROVE  OneOwner'
    <2>1. swept = -1 /\ dev_id[c] \in Slots /\ slot[dev_id[c]] = NULL
      BY <1>2 DEF ClaimSlot, SweepAlone, TypeOK
    <2>2. /\ dev_id[c] \notin leaked \cup abandoned
          /\ \A o \in Clients : pc[o] \in Owning => dev_id[o] # dev_id[c]
      BY <2>1, ManagerAssumption DEF SlotTellsOwner, HoldsName, HasDisk
    <2> QED  BY <1>2, <2>2 DEF ClaimSlot, GoTo, OneOwner, TypeOK
  <1>3. ASSUME NEW c \in Clients, NEW from \in Owning, NEW to \in Places,
               pc[c] = from, GoTo(c, to), UNCHANGED <<dev_id, abandoned, leaked>>
        PROVE  OneOwner'
    BY <1>3 DEF GoTo, OneOwner, TypeOK
  <1>4. ASSUME NEW c \in Clients,
               \/ CountUp(c) \/ CreateDevice(c) \/ CreateLink(c) \/ Publish(c) \/ ClearSlot(c)
               \/ Disconnect(c) \/ Disconnected(c) \/ Join(c) \/ JoinTimesOut(c) \/ UnmountOwn(c)
        PROVE  OneOwner'
    BY <1>3, <1>4 DEF CountUp, CreateDevice, CreateLink, Publish, ClearSlot, Disconnect,
      Disconnected, Join, JoinTimesOut, UnmountOwn, ReadSlot, history, Places
  <1>5. ASSUME NEW c \in Clients, pc[c] \in Owning, pc'[c] \notin Owning,
               \A o \in Clients \ {c} : pc'[o] = pc[o], UNCHANGED dev_id,
               \/ leaked' = leaked \cup {dev_id[c]} /\ UNCHANGED abandoned
               \/ abandoned' = abandoned \cup {dev_id[c]} /\ UNCHANGED leaked
        PROVE  OneOwner'
    <2>1. \A o \in At(Owning)' : o # c /\ o \in At(Owning)
      BY <1>5
    <2>2. \A o \in At(Owning)' : dev_id'[o] # dev_id[c]
      BY <1>5, <2>1 DEF OneOwner
    <2> QED  BY <1>5, <2>1, <2>2 DEF OneOwner
  <1>6. ASSUME NEW c \in Clients, CreateFails(c) \/ LinkFails(c) \/ Die(c)
        PROVE  OneOwner'
    <2>1. GoTo(c, "idle") \/ GoTo(c, "dead")
      BY <1>6 DEF CreateFails, LinkFails, Die
    <2>2. pc'[c] \notin Owning /\ \A o \in Clients \ {c} : pc'[o] = pc[o]
      BY <2>1, Moves DEF Places
    <2> QED  BY <1>5, <1>6, <2>2 DEF CreateFails, LinkFails, Die
  <1>8. ASSUME NEW c \in Clients, UnmountOther(c)
        PROVE  OneOwner'
    <2>1. dev_id[c] \in abandoned /\ dev_id[c] \notin leaked
          /\ \A o \in Clients : pc[o] \in Owning => dev_id[o] # dev_id[c]
      BY <1>8 DEF UnmountOther, OneOwner
    <2> QED  BY <1>8, <2>1 DEF UnmountOther, ReadSlot, GoTo, OneOwner, TypeOK
  <1>9. ASSUME NEW c \in Clients, CountDown(c) \/ ReleaseDisk(c) \/ DeleteDevice(c)
        PROVE  OneOwner'
    BY <1>9 DEF CountDown, ReleaseDisk, DeleteDevice, GoTo, history, OneOwner, TypeOK
  <1>10. ASSUME UNCHANGED <<pc, dev_id, abandoned, leaked>>
         PROVE  OneOwner'
    BY <1>10 DEF OneOwner
  <1>11. ASSUME \/ \E c \in Clients : EnterDisk(c) \/ LeaveDisk(c)
                \/ StartSweep \/ SweepSlot \/ UNCHANGED vars
         PROVE  UNCHANGED <<pc, dev_id, abandoned, leaked>>
    BY <1>11 DEF EnterDisk, LeaveDisk, StartSweep, SweepSlot, history, vars
  <1> QED
    BY <1>1, <1>2, <1>4, <1>6, <1>8, <1>9, <1>10, <1>11 DEF Work, Mount, Unmount

(* A client that owns no slot moves on without owning one.                 *)
LEMMA StaysOutside ==
  ASSUME TypeOK, SlotTellsOwner, NEW c \in Clients,
         pc[c] \notin Owning, pc'[c] \notin Owning,
         \A o \in Clients \ {c} : pc'[o] = pc[o] /\ dev_id'[o] = dev_id[o],
         UNCHANGED <<slot, leaked, abandoned, swept>>
  PROVE  SlotTellsOwner'
  <1>1. ASSUME NEW o \in Clients, pc[o] \in Owning \/ pc'[o] \in Owning
        PROVE  pc'[o] = pc[o] /\ dev_id'[o] = dev_id[o]
    BY <1>1
  <1>2. At(HoldsName)' = At(HoldsName) /\ \A o \in At(HoldsName) : dev_id'[o] = dev_id[o]
    BY <1>1 DEF At, HoldsName, Owning
  <1>3. At(HasDisk)' = At(HasDisk) /\ \A o \in At(HasDisk) : dev_id'[o] = dev_id[o]
    BY <1>1 DEF At, HasDisk, Owning
  <1> QED  BY <1>2, <1>3 DEF SlotTellsOwner

LEMMA SlotStep ==
  ~ clash' /\ TypeOK /\ OneOwner /\ SlotTellsOwner /\ OnePlace /\ SweepAlone /\ [Work]_vars
    => SlotTellsOwner'
  <1> SUFFICES ASSUME ~ clash', TypeOK, OneOwner, SlotTellsOwner, OnePlace, SweepAlone,
                      [Work]_vars
               PROVE  SlotTellsOwner'
    OBVIOUS
  <1>n. NULL \notin Devices /\ Placeholder \notin Devices /\ NULL # Placeholder
    BY ManagerAssumption
  <1>1. ASSUME NEW c \in Clients, \/ StartMount(c) \/ NextSlot(c) \/ ScanFails(c)
                                  \/ CountDown(c) \/ ReleaseDisk(c) \/ DeleteDevice(c)
                                  \/ Detached(c) \/ \E n \in Slots : StartRemove(c, n)
        PROVE  SlotTellsOwner'
    <2>1. /\ pc[c] \notin Owning /\ UNCHANGED <<slot, leaked, abandoned, swept>>
          /\ \/ GoTo(c, "scan") \/ UNCHANGED pc \/ GoTo(c, "idle")
             \/ GoTo(c, "release") \/ GoTo(c, "delete") \/ GoTo(c, "detach") \/ GoTo(c, "remove")
          /\ \A o \in Clients \ {c} : dev_id'[o] = dev_id[o]
      BY <1>1 DEF StartMount, NextSlot, ScanFails, CountDown, ReleaseDisk, DeleteDevice,
                  Detached, StartRemove, table, history, Owning, TypeOK
    <2>2. pc'[c] \notin Owning /\ \A o \in Clients \ {c} : pc'[o] = pc[o]
      BY <2>1, Moves DEF Places, Owning
    <2> QED  BY <2>1, <2>2, StaysOutside
  <1>2. ASSUME NEW c \in Clients, ClaimSlot(c)
        PROVE  SlotTellsOwner'
    BY <1>2, <1>n DEF ClaimSlot, GoTo, SlotTellsOwner, At, HoldsName, HasDisk, TypeOK
  <1>3. ASSUME NEW c \in Clients, CountUp(c) \/ CreateDevice(c) \/ CreateLink(c)
        PROVE  SlotTellsOwner'
    BY <1>3 DEF CountUp, CreateDevice, CreateLink, GoTo, table, history,
                SlotTellsOwner, At, HoldsName, HasDisk, TypeOK
  <1>4. ASSUME NEW c \in Clients, CreateFails(c) \/ LinkFails(c)
        PROVE  SlotTellsOwner'
    BY <1>4 DEF CreateFails, LinkFails, GoTo, table, SlotTellsOwner, At, HoldsName, HasDisk, TypeOK
  <1>5. ASSUME NEW c \in Clients, Publish(c)
        PROVE  SlotTellsOwner'
    <2>1. fdo[c] \in Devices /\ dev_id[c] \notin leaked
      BY <1>5 DEF Publish, OnePlace, OneOwner, At, Building, Owning, TypeOK
    <2>2. \A o \in Clients \ {c} : pc[o] \in Owning => dev_id[o] # dev_id[c]
      BY <1>5 DEF Publish, OneOwner, At, Owning
    <2> QED
      BY <1>5, <2>1, <2>2, <1>n
      DEF Publish, GoTo, history, SlotTellsOwner, At, HoldsName, HasDisk, Owning, TypeOK
  <1>6. ASSUME NEW c \in Clients, Die(c)
        PROVE  SlotTellsOwner'
    BY <1>6 DEF Die, GoTo, table, SlotTellsOwner, At, HoldsName, HasDisk, TypeOK
  <1>7. ASSUME NEW c \in Clients, pc[c] \in HasDisk, pc'[c] \in HasDisk,
               \A o \in Clients \ {c} : pc'[o] = pc[o],
               UNCHANGED <<slot, dev_id, leaked, abandoned, swept>>
        PROVE  SlotTellsOwner'
    <2>1. At(HasDisk)' = At(HasDisk) /\ At(HoldsName)' = At(HoldsName)
      BY <1>7 DEF At, HasDisk, HoldsName
    <2> QED  BY <1>7, <2>1 DEF SlotTellsOwner
  <1>8. ASSUME NEW c \in Clients, \/ Disconnect(c) \/ Disconnected(c) \/ Join(c)
                                  \/ JoinTimesOut(c) \/ UnmountOwn(c)
        PROVE  SlotTellsOwner'
    <2>1. /\ pc[c] \in HasDisk /\ UNCHANGED <<slot, dev_id, leaked, abandoned, swept>>
          /\ GoTo(c, "disconnect") \/ GoTo(c, "join") \/ GoTo(c, "unmount") \/ GoTo(c, "clear")
      BY <1>8 DEF Disconnect, Disconnected, Join, JoinTimesOut, UnmountOwn, ReadSlot, HasDisk,
                  table, history
    <2>2. pc'[c] \in HasDisk /\ \A o \in Clients \ {c} : pc'[o] = pc[o]
      BY <2>1, Moves DEF Places, HasDisk
    <2> QED  BY <1>7, <2>1, <2>2
  <1>13. ASSUME NEW c \in Clients, NotExist(c)
         PROVE  SlotTellsOwner'
    <2>1. /\ pc'[c] = "idle" /\ \A o \in Clients \ {c} : pc'[o] = pc[o]
          /\ UNCHANGED <<slot, dev_id, leaked, abandoned, swept>>
      BY <1>13, Moves DEF NotExist, Places, table, history
    <2>2. pc[c] = "remove"
      BY <1>13, <1>n DEF NotExist, SlotTellsOwner, SweepAlone, TypeOK, At, HasDisk
    <2> QED  BY <2>1, <2>2, StaysOutside DEF Owning
  <1>14. ASSUME NEW c \in Clients, UnmountOther(c)
         PROVE  SlotTellsOwner'
    <2>1. /\ pc[c] = "remove" /\ pc'[c] = "clear" /\ \A o \in Clients \ {c} : pc'[o] = pc[o]
          /\ UNCHANGED <<slot, dev_id, leaked, swept>> /\ abandoned' = abandoned \ {dev_id[c]}
          /\ dev_id[c] \in abandoned
      BY <1>14 DEF UnmountOther, ReadSlot, GoTo, table, TypeOK
    <2>2. At(HoldsName)' = At(HoldsName) /\ At(HasDisk)' = At(HasDisk) \cup {c}
      BY <2>1 DEF At, HoldsName, HasDisk
    <2> QED  BY <2>1, <2>2 DEF SlotTellsOwner
  <1>9. ASSUME NEW c \in Clients, ClearSlot(c)
        PROVE  SlotTellsOwner'
    <2>1. dev_id[c] \notin leaked \cup abandoned
          /\ \A o \in Clients \ {c} : pc[o] \in Owning => dev_id[o] # dev_id[c]
      BY <1>9 DEF ClearSlot, OneOwner, At, Owning
    <2> QED
      BY <1>9, <2>1, <1>n
      DEF ClearSlot, GoTo, SlotTellsOwner, At, HoldsName, HasDisk, Owning, TypeOK
  <1>10. ASSUME UNCHANGED <<slot, pc, dev_id, leaked, abandoned, swept>>
         PROVE  SlotTellsOwner'
    BY <1>10 DEF SlotTellsOwner, At
  <1>11. ASSUME UNCHANGED vars \/ \E c \in Clients : EnterDisk(c) \/ LeaveDisk(c)
         PROVE  UNCHANGED <<slot, pc, dev_id, leaked, abandoned, swept>>
    BY <1>11 DEF EnterDisk, LeaveDisk, table, history, vars
  <1>12. ASSUME StartSweep \/ SweepSlot
         PROVE  SlotTellsOwner'
    BY <1>12 DEF StartSweep, SweepSlot, Slots, SlotTellsOwner
  <1> QED
    BY <1>1, <1>2, <1>3, <1>4, <1>5, <1>6, <1>7, <1>8, <1>9, <1>10, <1>11, <1>12,
       <1>13, <1>14
    DEF Work, Mount, Unmount

LEMMA SweepStep == TypeOK /\ SweepAlone /\ [Work]_vars => SweepAlone'
  <1> SUFFICES ASSUME TypeOK, SweepAlone, [Work]_vars
               PROVE  SweepAlone'
    OBVIOUS
  <1>1. CASE \E c \in Clients : Mount(c) \/ Unmount(c) \/ EnterDisk(c) \/ LeaveDisk(c) \/ Die(c)
    <2>1. PICK c \in Clients :
            Mount(c) \/ Unmount(c) \/ EnterDisk(c) \/ LeaveDisk(c) \/ Die(c)
      BY <1>1
    <2>2. swept = -1 \/ pc[c] \notin {"idle", "dead"} \/ held[c] # NULL
      BY <2>1 DEF Mount, Unmount, StartMount, ClaimSlot, NextSlot, ScanFails, CountUp,
        CreateDevice, CreateFails, CreateLink, LinkFails, Publish, UnmountOwn, UnmountOther,
        Disconnect, Disconnected, Join, JoinTimesOut, StartRemove, Detached, NotExist,
        ClearSlot, CountDown, ReleaseDisk, DeleteDevice, EnterDisk, Exchanging, LeaveDisk, Die, history, table
    <2>3. UNCHANGED swept
      BY <2>1 DEF Mount, Unmount, StartMount, ClaimSlot, NextSlot, ScanFails, CountUp,
        CreateDevice, CreateFails, CreateLink, LinkFails, Publish, UnmountOwn, UnmountOther,
        Disconnect, Disconnected, Join, JoinTimesOut, StartRemove, Detached, NotExist,
        ReadSlot, ClearSlot, CountDown, ReleaseDisk, DeleteDevice, EnterDisk, Exchanging, LeaveDisk, Die, history, table
    <2> QED  BY <2>2, <2>3 DEF SweepAlone
  <1>2. CASE StartSweep \/ SweepSlot
    BY <1>2 DEF StartSweep, SweepSlot, SweepAlone, Slots
  <1>3. CASE UNCHANGED vars
    BY <1>3 DEF vars, SweepAlone
  <1> QED  BY <1>1, <1>2, <1>3 DEF Work

(* A slot and its device.  Publish fills a slot with the device made for   *)
(* it; a device that goes is in no slot.                                   *)
LEMMA DeviceStep ==
  TypeOK /\ OnePlace /\ DevicesNamed /\ [Work]_vars => DevicesNamed'
  <1> SUFFICES ASSUME TypeOK, OnePlace, DevicesNamed, [Work]_vars
               PROVE  DevicesNamed'
    OBVIOUS
  <1>n. NULL \notin Devices /\ Placeholder \notin Devices
    BY ManagerAssumption
  <1>1. ASSUME UNCHANGED <<live, id>>, NEW s \in Slots, slot' = [slot EXCEPT ![s] = slot'[s]],
               slot'[s] \notin Devices
        PROVE  DevicesNamed'
    BY <1>1 DEF DevicesNamed, TypeOK
  <1>2. ASSUME NEW c \in Clients, ClaimSlot(c) \/ ClearSlot(c)
        PROVE  DevicesNamed'
    BY <1>1, <1>2, <1>n DEF ClaimSlot, ClearSlot, TypeOK
  <1>3. ASSUME NEW c \in Clients, CreateDevice(c)
        PROVE  DevicesNamed'
    BY <1>3 DEF CreateDevice, DevicesNamed, TypeOK
  <1>4. ASSUME NEW c \in Clients, Publish(c)
        PROVE  DevicesNamed'
    <2>1. fdo[c] \in live /\ id[fdo[c]] = dev_id[c]
      BY <1>4 DEF Publish, OnePlace, At, Building
    <2> QED  BY <1>4, <2>1 DEF Publish, DevicesNamed, TypeOK
  <1>5. ASSUME NEW c \in Clients, DeleteDevice(c)
        PROVE  DevicesNamed'
    <2>1. \A s \in Slots : slot[s] # fdo[c]
      BY <1>5 DEF DeleteDevice, OnePlace, At, Dropping
    <2> QED  BY <1>5, <2>1 DEF DeleteDevice, DevicesNamed
  <1>6. ASSUME SweepSlot
        PROVE  DevicesNamed'
    BY <1>6, <1>n DEF SweepSlot, DevicesNamed, TypeOK
  <1>7. ASSUME UNCHANGED <<slot, live, id>>
        PROVE  DevicesNamed'
    BY <1>7 DEF DevicesNamed
  <1>8. ASSUME NEW c \in Clients,
               \/ StartMount(c) \/ NextSlot(c) \/ ScanFails(c) \/ CountUp(c) \/ CreateFails(c)
               \/ CreateLink(c) \/ LinkFails(c) \/ CountDown(c) \/ ReleaseDisk(c)
               \/ EnterDisk(c) \/ LeaveDisk(c) \/ Die(c)
               \/ Disconnect(c) \/ Disconnected(c) \/ Join(c) \/ JoinTimesOut(c) \/ UnmountOwn(c)
               \/ (\E n \in Slots : StartRemove(c, n)) \/ Detached(c) \/ UnmountOther(c)
               \/ NotExist(c)
        PROVE  UNCHANGED <<slot, live, id>>
    BY <1>8 DEF StartMount, NextSlot, ScanFails, CountUp, CreateFails, CreateLink, LinkFails,
      CountDown, ReleaseDisk, EnterDisk, LeaveDisk, Die, UnmountOwn, UnmountOther, ReadSlot, Disconnect,
      Disconnected, Join, JoinTimesOut, StartRemove, Detached, NotExist, table
  <1>9. ASSUME StartSweep \/ UNCHANGED vars
        PROVE  UNCHANGED <<slot, live, id>>
    BY <1>9 DEF StartSweep, vars, table
  <1> QED
    BY <1>2, <1>3, <1>4, <1>5, <1>6, <1>7, <1>8, <1>9 DEF Work, Mount, Unmount

LEMMA PlaceStep ==
  ~ clash' /\ TypeOK /\ OneOwner /\ SlotTellsOwner /\ OnePlace /\ DetachAlone /\ SweepAlone
    /\ DevicesNamed /\ [Work]_vars => OnePlace'
  <1> SUFFICES ASSUME ~ clash', TypeOK, OneOwner, SlotTellsOwner, OnePlace, DetachAlone,
                      SweepAlone, DevicesNamed, [Work]_vars
               PROVE  OnePlace'
    OBVIOUS
  <1>n. NULL \notin Devices /\ Placeholder \notin Devices /\ NULL # Placeholder
    BY ManagerAssumption
  <1> USE DEF At, Building, Dropping, OnDisk
  <1>1. ASSUME NEW c \in Clients, StartMount(c) \/ NextSlot(c) \/ ScanFails(c) \/ CountUp(c)
        PROVE  OnePlace'
    BY <1>1 DEF StartMount, NextSlot, ScanFails, CountUp, GoTo, table, history, OnePlace, TypeOK
  <1>2. ASSUME NEW c \in Clients, ClaimSlot(c)
        PROVE  OnePlace'
    BY <1>2, <1>n DEF ClaimSlot, GoTo, OnePlace, TypeOK
  <1>3. ASSUME NEW c \in Clients, CreateDevice(c)
        PROVE  OnePlace'
    BY <1>3 DEF CreateDevice, GoTo, history, OnePlace, DevicesNamed, TypeOK
  <1>4. ASSUME NEW c \in Clients, \/ CreateFails(c) \/ CreateLink(c) \/ Die(c)
                                  \/ Disconnected(c) \/ Join(c) \/ JoinTimesOut(c)
                                  \/ Detached(c) \/ NotExist(c)
        PROVE  OnePlace'
    BY <1>4 DEF CreateFails, CreateLink, Die, Disconnected, Join, JoinTimesOut, Detached, NotExist, GoTo, table, history, OnePlace, TypeOK
  <1>5. ASSUME NEW c \in Clients, LinkFails(c)
        PROVE  OnePlace'
    BY <1>5 DEF LinkFails, GoTo, table, OnePlace, TypeOK
  <1>6. ASSUME NEW c \in Clients, Publish(c)
        PROVE  OnePlace'
    <2>1. swept = -1 /\ dev_id[c] \in Slots
      BY <1>6 DEF Publish, SweepAlone, TypeOK
    <2>2. slot[dev_id[c]] = Placeholder
      BY <1>6, <2>1 DEF Publish, SlotTellsOwner, HoldsName
    <2>3. \A o \in Clients : pc[o] \in OnDisk => dev_id[o] # dev_id[c]
      BY <2>2, <1>n DEF OnePlace
    <2> QED  BY <1>6, <2>3 DEF Publish, GoTo, history, OnePlace, TypeOK
  <1>7. ASSUME NEW c \in Clients, NEW n \in Slots, slot[n] \in Devices,
               pc[c] \in {"idle", "mounted", "unmount", "remove"}, pc'[c] \in OnDisk,
               fdo'[c] = slot[n], dev_id'[c] = n,
               \A o \in Clients \ {c} : pc'[o] = pc[o] /\ fdo'[o] = fdo[o] /\ dev_id'[o] = dev_id[o],
               UNCHANGED <<slot, live, id, lost>>
        PROVE  OnePlace'
    <2>1. At(Building \cup Dropping)' \subseteq At(Building \cup Dropping)
          /\ At(Building)' \subseteq At(Building) /\ At(Dropping)' \subseteq At(Dropping)
          /\ c \notin At(Building \cup Dropping)'
      BY <1>7
    <2> QED  BY <1>7, <2>1 DEF OnePlace
  <1>8. ASSUME NEW c \in Clients,
               \/ Disconnect(c) \/ UnmountOwn(c) \/ UnmountOther(c)
               \/ \E n \in Slots : StartRemove(c, n)
        PROVE  OnePlace'
    <2>1. /\ pc[c] \in {"idle", "mounted", "unmount", "remove"} /\ UNCHANGED <<slot, live, id, lost>>
          /\ GoTo(c, "disconnect") \/ GoTo(c, "detach") \/ GoTo(c, "clear")
          /\ fdo'[c] = slot[dev_id'[c]] /\ dev_id'[c] \in Slots
          /\ \A o \in Clients \ {c} : fdo'[o] = fdo[o] /\ dev_id'[o] = dev_id[o]
      BY <1>8 DEF Disconnect, UnmountOwn, UnmountOther, StartRemove, ReadSlot, table, history, TypeOK
    <2>2. pc'[c] \in OnDisk /\ \A o \in Clients \ {c} : pc'[o] = pc[o]
      BY <2>1, Moves DEF Places
    <2>3. slot[dev_id'[c]] \in Devices
      <3>1. CASE Disconnect(c) \/ \E n \in Slots : StartRemove(c, n)
        BY <3>1 DEF Disconnect, StartRemove, TypeOK
      <3>2. CASE UnmountOwn(c)
        <4>1. swept = -1 /\ dev_id[c] \in Slots /\ dev_id'[c] = dev_id[c] /\ pc[c] = "unmount"
          BY <3>2 DEF UnmountOwn, ReadSlot, SweepAlone, TypeOK
        <4> QED  BY <4>1 DEF SlotTellsOwner, HasDisk
      <3>3. CASE UnmountOther(c)
        <4>1. /\ swept = -1 /\ dev_id[c] \in Slots /\ dev_id'[c] = dev_id[c]
              /\ dev_id[c] \in abandoned
          BY <3>3 DEF UnmountOther, ReadSlot, SweepAlone, TypeOK
        <4> QED  BY <4>1 DEF SlotTellsOwner
      <3> QED  BY <1>8, <3>1, <3>2, <3>3
    <2> QED  BY <1>7, <2>1, <2>2, <2>3
  <1>10. ASSUME NEW c \in Clients, ClearSlot(c)
         PROVE  OnePlace'
    <2>1. /\ fdo[c] = slot[dev_id[c]] /\ fdo[c] \in Devices /\ dev_id[c] \in Slots
          /\ fdo[c] \in live /\ fdo[c] \notin lost
          /\ \A s \in Slots \ {dev_id[c]} : slot[s] # fdo[c]
          /\ \A o \in Clients : pc[o] \in Building \cup Dropping => fdo[o] # fdo[c]
      BY <1>10 DEF ClearSlot, OnePlace, DevicesNamed, TypeOK
    <2>2. \A o \in Clients \ {c} : pc[o] \in OnDisk => dev_id[o] # dev_id[c]
      BY <1>10 DEF ClearSlot, OneOwner, Owning, DetachAlone
    <2> QED  BY <1>10, <2>1, <2>2, <1>n DEF ClearSlot, GoTo, OnePlace, TypeOK
  <1>11. ASSUME NEW c \in Clients, CountDown(c) \/ ReleaseDisk(c)
         PROVE  OnePlace'
    BY <1>11 DEF CountDown, ReleaseDisk, GoTo, table, history, OnePlace, TypeOK
  <1>12. ASSUME NEW c \in Clients, DeleteDevice(c)
         PROVE  OnePlace'
    BY <1>12 DEF DeleteDevice, GoTo, history, OnePlace, TypeOK
  <1>13. ASSUME SweepSlot
         PROVE  OnePlace'
    <2>1. \A c \in Clients : pc'[c] \notin Building \cup Dropping \cup OnDisk
      BY <1>13 DEF SweepSlot, Slots, SweepAlone
    <2> QED  BY <1>13, <2>1, <1>n DEF SweepSlot, OnePlace, history, TypeOK
  <1>14. ASSUME UNCHANGED <<slot, live, id, pc, dev_id, fdo, lost>>
         PROVE  OnePlace'
    BY <1>14 DEF OnePlace
  <1>15. ASSUME \/ \E c \in Clients : EnterDisk(c) \/ LeaveDisk(c)
                \/ StartSweep \/ UNCHANGED vars
         PROVE  UNCHANGED <<slot, live, id, pc, dev_id, fdo, lost>>
    BY <1>15 DEF EnterDisk, LeaveDisk, StartSweep, table, history, vars
  <1> QED
    BY <1>1, <1>2, <1>3, <1>4, <1>5, <1>6, <1>8, <1>10, <1>11, <1>12, <1>13,
       <1>14, <1>15 DEF Work, Mount, Unmount

(* A remove keeps its disk for itself while it is inside.                  *)
LEMMA DetachStep ==
  ~ clash' /\ TypeOK /\ SweepAlone /\ DetachAlone /\ [Work]_vars => DetachAlone'
  <1> SUFFICES ASSUME ~ clash', TypeOK, SweepAlone, DetachAlone, [Work]_vars,
                      NEW o \in Clients, pc'[o] = "detach"
               PROVE  dev_id'[o] \in abandoned'
    BY DEF DetachAlone, At
  <1>1. ASSUME pc[o] = "detach", dev_id'[o] = dev_id[o], abandoned \subseteq abandoned'
        PROVE  dev_id'[o] \in abandoned'
    BY <1>1 DEF DetachAlone, At
  <1>2. ASSUME NEW c \in Clients, NEW n \in Slots, StartRemove(c, n)
        PROVE  dev_id'[o] \in abandoned'
    BY <1>1, <1>2 DEF StartRemove, GoTo, TypeOK
  <1>3. ASSUME NEW c \in Clients, UnmountOther(c)
        PROVE  dev_id'[o] \in abandoned'
    <2>1. pc[o] = "detach" /\ o # c /\ dev_id'[o] = dev_id[o] /\ abandoned' = abandoned \ {dev_id[c]}
      BY <1>3 DEF UnmountOther, ReadSlot, GoTo, TypeOK
    <2>2. dev_id[o] # dev_id[c]
      BY <1>3, <2>1 DEF UnmountOther, InsideDisconnect
    <2> QED  BY <2>1, <2>2 DEF DetachAlone, At
  <1>4. ASSUME NEW c \in Clients,
               \/ StartMount(c) \/ ClaimSlot(c) \/ NextSlot(c) \/ ScanFails(c) \/ CountUp(c)
               \/ CreateDevice(c) \/ CreateFails(c) \/ CreateLink(c) \/ LinkFails(c) \/ Publish(c)
        PROVE  dev_id'[o] \in abandoned'
    <2>1. pc[o] = "detach" /\ dev_id'[o] = dev_id[o] /\ UNCHANGED abandoned
      BY <1>4 DEF StartMount, ClaimSlot, NextSlot, ScanFails, CountUp, CreateDevice, CreateFails,
        CreateLink, LinkFails, Publish, GoTo, history, TypeOK
    <2> QED  BY <1>1, <2>1
  <1>5. ASSUME NEW c \in Clients,
               \/ Disconnect(c) \/ Disconnected(c) \/ Join(c) \/ JoinTimesOut(c) \/ UnmountOwn(c)
               \/ Detached(c) \/ NotExist(c) \/ ClearSlot(c) \/ CountDown(c) \/ ReleaseDisk(c)
               \/ DeleteDevice(c) \/ EnterDisk(c) \/ LeaveDisk(c) \/ Die(c)
        PROVE  dev_id'[o] \in abandoned'
    <2>1. pc[o] = "detach" /\ dev_id'[o] = dev_id[o] /\ abandoned \subseteq abandoned'
      BY <1>5 DEF Disconnect, Disconnected, Join, JoinTimesOut, UnmountOwn, ReadSlot, Detached,
        NotExist, ClearSlot, CountDown, ReleaseDisk, DeleteDevice, EnterDisk, LeaveDisk, Die,
        GoTo, table, history, TypeOK
    <2> QED  BY <1>1, <2>1
  <1>6. ASSUME StartSweep \/ SweepSlot \/ UNCHANGED vars
        PROVE  dev_id'[o] \in abandoned'
    BY <1>1, <1>6 DEF StartSweep, SweepSlot, vars, history
  <1> QED  BY <1>2, <1>3, <1>4, <1>5, <1>6 DEF Work, Mount, Unmount

(* A thread inside a disk and the unmount of its slot: Disconnect waits    *)
(* for the thread, or gives it up.                                         *)
LEMMA InsideStep ==
  ~ clash' /\ TypeOK /\ OneOwner /\ SlotTellsOwner /\ OnePlace /\ InsideOwnDisk
    /\ SweepAlone /\ [Work]_vars => InsideOwnDisk'
  <1> SUFFICES ASSUME ~ clash', TypeOK, OneOwner, SlotTellsOwner, OnePlace, InsideOwnDisk,
                      SweepAlone, [Work]_vars
               PROVE  InsideOwnDisk'
    OBVIOUS
  <1>n. NULL \notin Devices /\ Placeholder \notin Devices /\ NULL # Placeholder
    BY ManagerAssumption
  <1> DEFINE Safe(o) == held[o] # NULL =>
                          held[o] \in Devices /\ held[o] = slot[dev_id[o]] /\ Own(o)
  <1>s. \A o \in Clients \ late : Safe(o)
    BY DEF InsideOwnDisk
  <1>p. (\A o \in Clients \ late' : Safe(o)') => InsideOwnDisk'
    BY DEF InsideOwnDisk
  <1>1. ASSUME NEW c \in Clients, NEW o \in Clients \ {c}, o \notin late, UNCHANGED <<held, abandoned>>,
               pc'[o] = pc[o] /\ dev_id'[o] = dev_id[o],
               \A s \in Slots : slot'[s] = slot[s] \/ slot[s] \notin Devices
                                \/ (pc[c] = "clear" /\ s = dev_id[c])
        PROVE  Safe(o)'
    <2> SUFFICES ASSUME held[o] # NULL
                 PROVE  held[o] \in Devices /\ held[o] = slot'[dev_id'[o]] /\ Own(o)'
      BY <1>1
    <2>1. held[o] \in Devices /\ held[o] = slot[dev_id[o]] /\ dev_id[o] \in Slots /\ Own(o)
      BY <1>1, <1>s DEF TypeOK
    <2>2. pc[c] = "clear" => dev_id[o] # dev_id[c]
      BY <1>1, <2>1 DEF OneOwner, At, Owning, Own
    <2> QED  BY <1>1, <2>1, <2>2 DEF Own
  <1>2. ASSUME NEW c \in Clients, held[c] = NULL, UNCHANGED <<held, abandoned>>,
               late \ {c} \subseteq late',
               \A o \in Clients \ {c} : pc'[o] = pc[o] /\ dev_id'[o] = dev_id[o],
               \A s \in Slots : slot'[s] = slot[s] \/ slot[s] \notin Devices
                                \/ (pc[c] = "clear" /\ s = dev_id[c])
        PROVE  InsideOwnDisk'
    <2>1. Safe(c)'
      BY <1>2
    <2>2. ASSUME NEW o \in Clients \ late', o # c
          PROVE  Safe(o)'
      BY <1>1, <1>2, <2>2
    <2> QED  BY <1>p, <2>1, <2>2
  <1>3. ASSUME NEW c \in Clients, c \in late', late \subseteq late', UNCHANGED <<held, abandoned>>,
               \A o \in Clients \ {c} : pc'[o] = pc[o] /\ dev_id'[o] = dev_id[o],
               \A s \in Slots : slot'[s] = slot[s] \/ slot[s] \notin Devices
                                \/ (pc[c] = "clear" /\ s = dev_id[c])
        PROVE  InsideOwnDisk'
    <2>1. ASSUME NEW o \in Clients \ late'
          PROVE  Safe(o)'
      <3>1. o # c /\ o \notin late
        BY <1>3
      <3> QED  BY <1>1, <1>3, <3>1
    <2> QED  BY <1>p, <2>1
  <1>4. ASSUME NEW c \in Clients, ~ Own(c)
        PROVE  c \in late \/ held[c] = NULL
    BY <1>4, <1>s
  <1>5. ASSUME NEW c \in Clients,
               \/ StartMount(c) \/ ClaimSlot(c) \/ NextSlot(c) \/ ScanFails(c) \/ CountUp(c)
               \/ CreateDevice(c) \/ CreateFails(c) \/ CreateLink(c) \/ LinkFails(c)
               \/ UnmountOwn(c) \/ (\E n \in Slots : StartRemove(c, n)) \/ Detached(c)
               \/ ClearSlot(c) \/ CountDown(c) \/ ReleaseDisk(c) \/ DeleteDevice(c)
        PROVE  InsideOwnDisk'
    <2>1. /\ ~ Own(c) /\ UNCHANGED <<held, abandoned>>
          /\ \A o \in Clients \ {c} : pc'[o] = pc[o] /\ dev_id'[o] = dev_id[o]
      BY <1>5 DEF StartMount, ClaimSlot, NextSlot, ScanFails, CountUp, CreateDevice, CreateFails,
        CreateLink, LinkFails, UnmountOwn, ReadSlot, StartRemove, Detached, ClearSlot,
        CountDown, ReleaseDisk, DeleteDevice, GoTo, history, Own, TypeOK
    <2>2. \A s \in Slots : slot'[s] = slot[s] \/ slot[s] \notin Devices
                           \/ (pc[c] = "clear" /\ s = dev_id[c])
      BY <1>5, <1>n DEF StartMount, ClaimSlot, NextSlot, ScanFails, CountUp, CreateDevice,
        CreateFails, CreateLink, LinkFails, UnmountOwn, ReadSlot, StartRemove, Detached, ClearSlot,
        CountDown, ReleaseDisk, DeleteDevice, table, TypeOK
    <2>3. \/ late' = late
          \/ late' = late \ {c} /\ held[c] = NULL
      BY <1>5 DEF StartMount, ClaimSlot, NextSlot, ScanFails, CountUp, CreateDevice, CreateFails,
        CreateLink, LinkFails, UnmountOwn, ReadSlot, StartRemove, Detached, ClearSlot,
        CountDown, ReleaseDisk, DeleteDevice, history
    <2>4. CASE held[c] = NULL
      BY <1>2, <2>1, <2>2, <2>3, <2>4
    <2>5. CASE c \in late /\ late' = late
      BY <1>3, <2>1, <2>2, <2>5
    <2> QED  BY <1>4, <2>1, <2>3, <2>4, <2>5
  <1>6. ASSUME NEW c \in Clients, Publish(c)
        PROVE  InsideOwnDisk'
    <2>1. swept = -1 /\ dev_id[c] \in Slots
      BY <1>6 DEF Publish, SweepAlone, TypeOK
    <2>2. slot[dev_id[c]] = Placeholder
      BY <1>6, <2>1 DEF Publish, SlotTellsOwner, At, HoldsName
    <2>3. \A s \in Slots : slot'[s] = slot[s] \/ slot[s] \notin Devices
      BY <1>6, <2>2, <1>n DEF Publish, TypeOK
    <2>4. /\ ~ Own(c) /\ UNCHANGED <<held, abandoned, late>>
          /\ \A o \in Clients \ {c} : pc'[o] = pc[o] /\ dev_id'[o] = dev_id[o]
      BY <1>6 DEF Publish, GoTo, history, Own, TypeOK
    <2> QED  BY <1>2, <1>3, <1>4, <2>3, <2>4
  <1>7. ASSUME NEW c \in Clients, Disconnect(c) \/ Disconnected(c) \/ Join(c) \/ JoinTimesOut(c)
        PROVE  InsideOwnDisk'
    <2>1. /\ UNCHANGED <<held, abandoned, slot, dev_id>> /\ late \subseteq late'
          /\ \A o \in Clients \ {c} : pc'[o] = pc[o]
      BY <1>7 DEF Disconnect, Disconnected, Join, JoinTimesOut, GoTo, table, history, TypeOK
    <2>2. \/ c \in late' \/ held[c] = NULL
          \/ pc[c] \in {"mounted", "disconnect"} /\ pc'[c] \in {"disconnect", "join"} /\ c \notin late
      BY <1>7 DEF Disconnect, Disconnected, Join, JoinTimesOut, GoTo, history, TypeOK
    <2>3. CASE c \in late'
      BY <1>3, <2>1, <2>3
    <2>4. CASE held[c] = NULL
      BY <1>2, <2>1, <2>4
    <2>5. CASE pc[c] \in {"mounted", "disconnect"} /\ pc'[c] \in {"disconnect", "join"} /\ c \notin late
      <3>1. Safe(c)'
        BY <1>s, <2>1, <2>5 DEF Own
      <3>2. \A o \in Clients \ late' : o # c => Safe(o)'
        BY <1>1, <2>1
      <3> QED  BY <1>p, <3>1, <3>2
    <2> QED  BY <2>2, <2>3, <2>4, <2>5
  <1>8. ASSUME NEW c \in Clients, NotExist(c)
        PROVE  InsideOwnDisk'
    <2>1. /\ UNCHANGED <<held, abandoned, slot, dev_id, late>>
          /\ \A o \in Clients \ {c} : pc'[o] = pc[o]
      BY <1>8 DEF NotExist, GoTo, table, history, TypeOK
    <2>2. c \in late \/ held[c] = NULL
      BY <1>8, <1>n, <1>s DEF NotExist
    <2> QED  BY <1>2, <1>3, <2>1, <2>2
  <1>9. ASSUME NEW c \in Clients, UnmountOther(c)
        PROVE  InsideOwnDisk'
    <2>1. /\ UNCHANGED <<slot, held, dev_id>> /\ abandoned' = abandoned \ {dev_id[c]}
          /\ late' = late \cup {o \in Clients : pc[o] = "dead" /\ dev_id[o] = dev_id[c]}
          /\ \A o \in Clients \ {c} : pc'[o] = pc[o]
          /\ pc[c] = "remove"
      BY <1>9 DEF UnmountOther, ReadSlot, GoTo, table, TypeOK
    <2>2. ASSUME NEW o \in Clients \ late'
          PROVE  Safe(o)'
      <3>1. o \notin late /\ ~ (pc[o] = "dead" /\ dev_id[o] = dev_id[c])
        BY <2>1
      <3>2. CASE o = c
        BY <3>1, <3>2, <1>s, <2>1 DEF Own
      <3>3. CASE o # c
        BY <3>1, <3>3, <1>s, <2>1 DEF Own
      <3> QED  BY <3>2, <3>3
    <2> QED  BY <1>p, <2>2
  <1>10. ASSUME NEW c \in Clients, EnterDisk(c)
         PROVE  InsideOwnDisk'
    <2>1. /\ UNCHANGED <<slot, pc, dev_id, abandoned, late>> /\ held'[c] = slot[dev_id[c]]
          /\ slot[dev_id[c]] \in Devices /\ \A o \in Clients \ {c} : held'[o] = held[o]
          /\ c \in late \/ Own(c)
      BY <1>10 DEF EnterDisk, Exchanging, Own, table, history, TypeOK
    <2>2. ASSUME NEW o \in Clients \ late'
          PROVE  Safe(o)'
      <3>1. CASE o = c
        BY <2>1, <3>1 DEF Own
      <3>2. CASE o # c
        BY <2>1, <3>2, <1>s DEF Own
      <3> QED  BY <3>1, <3>2
    <2> QED  BY <1>p, <2>2
  <1>11. ASSUME NEW c \in Clients, LeaveDisk(c)
         PROVE  InsideOwnDisk'
    <2>1. /\ UNCHANGED <<slot, pc, dev_id, abandoned, late>> /\ held'[c] = NULL
          /\ \A o \in Clients \ {c} : held'[o] = held[o]
      BY <1>11 DEF LeaveDisk, table, history, TypeOK
    <2> QED  BY <1>p, <1>s, <2>1 DEF Own
  <1>12. ASSUME NEW c \in Clients, Die(c)
         PROVE  InsideOwnDisk'
    <2>1. /\ UNCHANGED <<slot, held, dev_id, late>> /\ abandoned' = abandoned \cup {dev_id[c]}
          /\ pc'[c] = "dead" /\ \A o \in Clients \ {c} : pc'[o] = pc[o]
      BY <1>12 DEF Die, GoTo, table, history, TypeOK
    <2>2. ASSUME NEW o \in Clients \ late'
          PROVE  Safe(o)'
      <3>1. CASE o = c
        BY <2>1, <3>1, <1>s DEF Own
      <3>2. CASE o # c
        BY <2>1, <3>2, <1>s DEF Own
      <3> QED  BY <3>1, <3>2
    <2> QED  BY <1>p, <2>2
  <1>13. ASSUME SweepSlot
         PROVE  InsideOwnDisk'
    BY <1>13 DEF SweepSlot, Slots, SweepAlone, InsideOwnDisk
  <1>14. ASSUME StartSweep \/ UNCHANGED vars
         PROVE  InsideOwnDisk'
    BY <1>14 DEF StartSweep, vars, table, history, InsideOwnDisk, Own
  <1> QED
    BY <1>5, <1>6, <1>7, <1>8, <1>9, <1>10, <1>11, <1>12, <1>13, <1>14 DEF Work, Mount, Unmount

(* A device changes hands and never drops out of them.                     *)
LEMMA IntactStep ==
  TypeOK /\ SlotTellsOwner /\ OnePlace /\ SweepAlone /\ DevicesPlaced /\ [Work]_vars => DevicesPlaced'
  <1> SUFFICES ASSUME TypeOK, SlotTellsOwner, OnePlace, SweepAlone, DevicesPlaced, [Work]_vars
               PROVE  DevicesPlaced'
    OBVIOUS
  <1>n. NULL \notin Devices /\ Placeholder \notin Devices /\ NULL # Placeholder
    BY ManagerAssumption
  <1> DEFINE Hands == Building \cup Dropping
  <1>m. DevicesPlaced <=> \A d \in live : Placed(d)
    BY DEF DevicesPlaced
  <1>p. (\A d \in live' : Placed(d)') => DevicesPlaced'
    BY DEF DevicesPlaced
  <1> USE DEF Placed, At, Building, Dropping
  <1>1. ASSUME NEW c \in Clients, pc[c] \notin Hands, UNCHANGED <<slot, live, lost>>,
               \A o \in Clients \ {c} : pc'[o] = pc[o] /\ fdo'[o] = fdo[o]
        PROVE  DevicesPlaced'
    BY <1>1, <1>m, <1>p
  <1>2. ASSUME NEW c \in Clients,
               \/ StartMount(c) \/ NextSlot(c) \/ ScanFails(c) \/ CountUp(c) \/ CreateFails(c)
               \/ Die(c) \/ Disconnect(c) \/ Disconnected(c) \/ Join(c) \/ JoinTimesOut(c)
               \/ UnmountOwn(c) \/ (\E n \in Slots : StartRemove(c, n)) \/ Detached(c)
               \/ UnmountOther(c) \/ NotExist(c)
        PROVE  DevicesPlaced'
    <2>1. /\ pc[c] \notin Hands /\ UNCHANGED <<slot, live, lost>>
          /\ \A o \in Clients \ {c} : pc'[o] = pc[o] /\ fdo'[o] = fdo[o]
      BY <1>2 DEF StartMount, NextSlot, ScanFails, CountUp, CreateFails, Die, Disconnect,
        Disconnected, Join, JoinTimesOut, UnmountOwn, StartRemove, Detached, UnmountOther,
        NotExist, ReadSlot, GoTo, table, history, TypeOK
    <2> QED  BY <1>1, <2>1
  <1>3. ASSUME NEW c \in Clients, ClaimSlot(c)
        PROVE  DevicesPlaced'
    <2>1. /\ pc[c] \notin Hands /\ UNCHANGED <<live, lost, fdo>> /\ live \subseteq Devices
          /\ \A o \in Clients \ {c} : pc'[o] = pc[o]
          /\ \A s \in Slots : slot[s] # NULL => slot'[s] = slot[s]
      BY <1>3 DEF ClaimSlot, GoTo, TypeOK
    <2> QED  BY <2>1, <1>m, <1>p, <1>n
  <1>4. ASSUME NEW c \in Clients, CreateDevice(c)
        PROVE  DevicesPlaced'
    <2>1. PICK d \in Devices \ live : live' = live \cup {d} /\ fdo' = [fdo EXCEPT ![c] = d]
      BY <1>4 DEF CreateDevice
    <2>2. /\ pc[c] \notin Hands /\ pc'[c] \in Hands /\ fdo'[c] = d /\ UNCHANGED <<slot, lost>>
          /\ \A o \in Clients \ {c} : pc'[o] = pc[o] /\ fdo'[o] = fdo[o]
      BY <1>4, <2>1 DEF CreateDevice, GoTo, history, TypeOK
    <2> QED  BY <2>1, <2>2, <1>m, <1>p
  <1>5. ASSUME NEW c \in Clients, CreateLink(c) \/ CountDown(c) \/ ReleaseDisk(c)
        PROVE  DevicesPlaced'
    <2>1. /\ pc[c] \in Hands /\ pc'[c] \in Hands /\ UNCHANGED <<slot, live, lost, fdo>>
          /\ \A o \in Clients \ {c} : pc'[o] = pc[o]
      BY <1>5 DEF CreateLink, CountDown, ReleaseDisk, GoTo, table, history, TypeOK
    <2> QED  BY <2>1, <1>m, <1>p
  <1>6. ASSUME NEW c \in Clients, LinkFails(c)
        PROVE  DevicesPlaced'
    <2>1. /\ lost' = lost \cup {fdo[c]} /\ UNCHANGED <<slot, live, fdo>>
          /\ \A o \in Clients \ {c} : pc'[o] = pc[o]
      BY <1>6 DEF LinkFails, GoTo, table, TypeOK
    <2> QED  BY <2>1, <1>m, <1>p
  <1>7. ASSUME NEW c \in Clients, Publish(c)
        PROVE  DevicesPlaced'
    <2>1. swept = -1 /\ dev_id[c] \in Slots
      BY <1>7 DEF Publish, SweepAlone, TypeOK
    <2>2. slot[dev_id[c]] = Placeholder
      BY <1>7, <2>1 DEF Publish, SlotTellsOwner, At, HoldsName
    <2>3. /\ slot'[dev_id[c]] = fdo[c] /\ UNCHANGED <<live, lost, fdo>> /\ live \subseteq Devices
          /\ \A o \in Clients \ {c} : pc'[o] = pc[o]
          /\ \A s \in Slots \ {dev_id[c]} : slot'[s] = slot[s]
      BY <1>7, <2>1 DEF Publish, GoTo, history, TypeOK
    <2> QED  BY <2>1, <2>2, <2>3, <1>m, <1>p, <1>n
  <1>8. ASSUME NEW c \in Clients, ClearSlot(c)
        PROVE  DevicesPlaced'
    <2>1. /\ fdo[c] = slot[dev_id[c]] /\ dev_id[c] \in Slots
      BY <1>8 DEF ClearSlot, OnePlace, OnDisk, At, TypeOK
    <2>2. /\ pc[c] \notin Hands /\ pc'[c] \in Hands /\ UNCHANGED <<live, lost, fdo>>
          /\ \A o \in Clients \ {c} : pc'[o] = pc[o]
          /\ \A s \in Slots \ {dev_id[c]} : slot'[s] = slot[s]
      BY <1>8, <2>1 DEF ClearSlot, GoTo, TypeOK
    <2> QED  BY <2>1, <2>2, <1>m, <1>p
  <1>9. ASSUME NEW c \in Clients, DeleteDevice(c)
        PROVE  DevicesPlaced'
    <2>1. /\ live' = live \ {fdo[c]} /\ UNCHANGED <<slot, lost>>
          /\ \A o \in Clients \ {c} : pc'[o] = pc[o] /\ fdo'[o] = fdo[o]
      BY <1>9 DEF DeleteDevice, GoTo, history, TypeOK
    <2> QED  BY <2>1, <1>m, <1>p
  <1>10. ASSUME SweepSlot
         PROVE  DevicesPlaced'
    <2>1. /\ live' = live \ {slot[swept]} /\ UNCHANGED <<pc, fdo, lost>>
          /\ \A s \in Slots \ {swept} : slot'[s] = slot[s]
      BY <1>10 DEF SweepSlot, history, TypeOK
    <2> QED  BY <2>1, <1>m, <1>p
  <1>11. ASSUME UNCHANGED <<slot, live, pc, fdo, lost>>
         PROVE  DevicesPlaced'
    BY <1>11 DEF DevicesPlaced
  <1>12. ASSUME \/ \E c \in Clients : EnterDisk(c) \/ LeaveDisk(c)
                \/ StartSweep \/ UNCHANGED vars
         PROVE  UNCHANGED <<slot, live, pc, fdo, lost>>
    BY <1>12 DEF EnterDisk, LeaveDisk, StartSweep, table, history, vars
  <1> QED
    BY <1>2, <1>3, <1>4, <1>5, <1>6, <1>7, <1>8, <1>9, <1>10, <1>11, <1>12
    DEF Work, Mount, Unmount

LEMMA ManagerInit == Init => ManagerInv
  <1> SUFFICES ASSUME Init
               PROVE  ManagerInv
    OBVIOUS
  <1> USE ManagerAssumption DEF Init
  <1>1. 0 \in Slots
    BY DEF Slots
  <1>2. TypeOK
    <2>1. count \in Int /\ swept \in -1 .. MaxDisks
      OBVIOUS
    <2>2. clash \in BOOLEAN /\ late \subseteq Clients
      OBVIOUS
    <2>3. /\ pc \in [Clients -> Places] /\ dev_id \in [Clients -> Slots]
          /\ id \in [Devices -> Slots] /\ calm \in [Clients -> BOOLEAN]
      BY <1>1 DEF Places
    <2>4. /\ slot \in [Slots -> Devices \cup {NULL, Placeholder}]
          /\ fdo \in [Clients -> Devices \cup {NULL, Placeholder}]
          /\ held \in [Clients -> Devices \cup {NULL}]
      OBVIOUS
    <2> QED  BY <2>1, <2>2, <2>3, <2>4 DEF TypeOK
  <1>3. OneOwner /\ SlotTellsOwner
    BY DEF OneOwner, SlotTellsOwner, At, Owning, HoldsName, HasDisk
  <1>4. OnePlace /\ DetachAlone /\ InsideOwnDisk /\ SweepAlone
    BY DEF OnePlace, DetachAlone, InsideOwnDisk, SweepAlone, At, Building, Dropping, OnDisk
  <1>5. DevicesNamed /\ DevicesPlaced
    BY DEF DevicesNamed, DevicesPlaced
  <1> QED  BY <1>2, <1>3, <1>4, <1>5 DEF ManagerInv, TableInv

(* A clash lasts until the restart.                                        *)
LEMMA ClashStays == [Work]_vars /\ ~ clash' => ~ clash
  <1> SUFFICES ASSUME [Work]_vars, ~ clash'
               PROVE  ~ clash
    OBVIOUS
  <1>1. ASSUME NEW c \in Clients, Mount(c)
        PROVE  ~ clash
    BY <1>1 DEF Mount, StartMount, ClaimSlot, NextSlot, ScanFails, CountUp, CreateDevice,
      CreateFails, CreateLink, LinkFails, Publish, history
  <1>2. ASSUME NEW c \in Clients, Unmount(c)
        PROVE  ~ clash
    BY <1>2 DEF Unmount, Disconnect, Disconnected, Join, JoinTimesOut, UnmountOwn, StartRemove,
      Detached, UnmountOther, NotExist, ClearSlot, CountDown, ReleaseDisk, DeleteDevice, history
  <1>3. ASSUME NEW c \in Clients, EnterDisk(c) \/ LeaveDisk(c) \/ Die(c)
        PROVE  ~ clash
    BY <1>3 DEF EnterDisk, LeaveDisk, Die, history
  <1>4. ASSUME StartSweep \/ SweepSlot \/ UNCHANGED vars
        PROVE  ~ clash
    BY <1>4 DEF StartSweep, SweepSlot, history, vars
  <1> QED  BY <1>1, <1>2, <1>3, <1>4 DEF Work

LEMMA WorkKeepsInv == ManagerInv /\ [Work]_vars => ManagerInv'
  <1> SUFFICES ASSUME ManagerInv, [Work]_vars
               PROVE  ManagerInv'
    OBVIOUS
  <1>1. TypeOK' /\ SweepAlone'
    BY ManagerTypes, SweepStep DEF ManagerInv
  <1>2. ASSUME ~ clash'
        PROVE  TableInv'
    BY <1>2, ClashStays, OwnerStep, SlotStep, PlaceStep, DetachStep, InsideStep, DeviceStep,
       IntactStep DEF ManagerInv, TableInv
  <1> QED  BY <1>1, <1>2 DEF ManagerInv

(* The restart begins the life of the table again.                         *)
LEMMA NextWorks == [Next]_vars => [Work]_vars \/ Init'
  <1> SUFFICES ASSUME Next
               PROVE  Work \/ Init'
    OBVIOUS
  <1>1. UsePlaceholder => Init'
    BY DEF UsePlaceholder, Init
  <1> QED  BY <1>1 DEF Next, Work
-----------------------------------------------------------------------------
(* The inductive invariant: slots and devices have one owner each, until a *)
(* remove clashes with another call.                                       *)
THEOREM ManagerInvariant == Spec => []ManagerInv
  <1> QED  BY ManagerInit, NextWorks, WorkKeepsInv, PTL DEF Spec

(* Every variable keeps its type.                                          *)
THEOREM ManagerHasTypes == Spec => []TypeOK
  <1>1. ManagerInv => TypeOK
    BY DEF ManagerInv
  <1> QED  BY <1>1, ManagerInvariant, PTL

(* The compare-and-exchange gives a slot to one mount, and only a mount in *)
(* progress or one that failed holds the placeholder.                      *)
THEOREM PlaceholdersOwned == Spec => []PlaceholderOwned
  <1>1. ManagerInv => PlaceholderOwned
    BY DEF ManagerInv, TableInv, OneOwner, SlotTellsOwner, PlaceholderOwned, Mounting, At, Owning,
           HoldsName
  <1> QED  BY <1>1, ManagerInvariant, PTL

(* A slot leads to its own disk, and the disk exists.                      *)
THEOREM SlotsHaveTheirDevice == Spec => []SlotHasItsDevice
  <1>1. ManagerInv => SlotHasItsDevice
    BY DEF ManagerInv, TableInv, DevicesNamed, SlotHasItsDevice
  <1> QED  BY <1>1, ManagerInvariant, PTL

(* The interlocked functions keep the map intact: no device drops out.     *)
THEOREM MapStaysIntact == Spec => []MapIntact
  <1>1. ManagerInv => MapIntact
    BY DEF ManagerInv, TableInv, DevicesPlaced, Placed, MapIntact, At, Building, Dropping
  <1> QED  BY <1>1, ManagerInvariant, PTL

(* Two unmounts that have read the same device have read it from the same  *)
(* slot, which only one of them can own.                                   *)
LEMMA UnmountsApart ==
  TypeOK /\ TableInv => \A c, d \in Unmounting : fdo[c] = fdo[d] => c = d
  <1> SUFFICES ASSUME TypeOK, TableInv, NEW c \in Unmounting, NEW d \in Unmounting, fdo[c] = fdo[d]
               PROVE  c = d
    OBVIOUS
  <1> USE DEF TableInv, TypeOK, Unmounting, At
  <1>1. CASE pc[c] = "clear" /\ pc[d] = "clear"
    <2>1. /\ slot[dev_id[c]] = slot[dev_id[d]] /\ slot[dev_id[c]] \in Devices
          /\ dev_id[c] \in Slots /\ dev_id[d] \in Slots
      BY <1>1 DEF OnePlace, OnDisk
    <2>2. dev_id[c] = dev_id[d]
      BY <2>1 DEF DevicesNamed
    <2> QED  BY <1>1, <2>2 DEF OneOwner, Owning
  <1>2. CASE pc[c] \in Dropping /\ pc[d] \in Dropping
    BY <1>2 DEF OnePlace
  <1>3. ASSUME NEW a \in Unmounting, NEW b \in Unmounting, pc[a] = "clear", pc[b] \in Dropping
        PROVE  fdo[a] # fdo[b]
    BY <1>3 DEF OnePlace, OnDisk
  <1> QED  BY <1>1, <1>2, <1>3 DEF Dropping

(* An unmount works on a device that exists and that no other unmount has, *)
(* whether or not a thread is still inside the disk; so does a call that   *)
(* disconnects.                                                            *)
UnmountHasItsDevice ==
  ~ clash =>
    /\ \A c \in At({"disconnect", "detach"}) \cup Unmounting : fdo[c] \in live
    /\ \A c, d \in Unmounting : fdo[c] = fdo[d] => c = d

(* No device object is deleted twice, nor released after its deletion.     *)
THEOREM DeletedOnce == Spec => []UnmountHasItsDevice
  <1>1. ManagerInv => UnmountHasItsDevice
    <2> SUFFICES ASSUME TypeOK, TableInv
                 PROVE  /\ \A c \in At({"disconnect", "detach"}) \cup Unmounting : fdo[c] \in live
                        /\ \A c, d \in Unmounting : fdo[c] = fdo[d] => c = d
      BY DEF ManagerInv, UnmountHasItsDevice
    <2>1. \A c \in At(OnDisk) : fdo[c] \in live
      BY DEF TableInv, OnePlace, DevicesNamed, TypeOK, At
    <2>2. \A c \in At(Dropping) : fdo[c] \in live
      BY DEF TableInv, OnePlace
    <2>3. At({"disconnect", "detach"}) \cup Unmounting = At(OnDisk) \cup At(Dropping)
      BY DEF Unmounting, At, OnDisk, Dropping
    <2> QED  BY <2>1, <2>2, <2>3, UnmountsApart
  <1> QED  BY <1>1, ManagerInvariant, PTL

(* Nobody works on a deleted device object but an exchange thread that the *)
(* unmount did not wait for, and none is deleted twice.  Every other       *)
(* thread is inside the disk of its own slot, which nobody unmounts before *)
(* it has left.                                                            *)
THEOREM NothingUsedAfterDelete == Spec => []NoUseAfterDelete
  <1>1. ManagerInv /\ UnmountHasItsDevice => NoUseAfterDelete
    <2> SUFFICES ASSUME ManagerInv, UnmountHasItsDevice, ~ clash
                 PROVE  \A c \in Clients \ late : held[c] # NULL => held[c] \in live
      BY DEF UnmountHasItsDevice, NoUseAfterDelete
    <2> QED  BY DEF ManagerInv, TableInv, InsideOwnDisk, DevicesNamed, TypeOK
  <1> QED  BY <1>1, ManagerInvariant, DeletedOnce, PTL
-----------------------------------------------------------------------------
(* The counter.  A claim takes an empty slot and a clear empties one in    *)
(* use, so each changes the number of slots in use by one, and the thread  *)
(* that did it is counted until it has changed m_disk_count.               *)
Used == {s \in Slots : slot[s] # NULL}

LEMMA FiniteParts ==
  /\ IsFiniteSet(Used) /\ Cardinality(Used) \in Int
  /\ \A places : IsFiniteSet(At(places)) /\ Cardinality(At(places)) \in Int
  <1>1. IsFiniteSet(Slots)
    BY ManagerAssumption, FS_Interval DEF Slots
  <1>2. IsFiniteSet(Used)
    BY <1>1, FS_Subset DEF Used
  <1>3. ASSUME NEW places
        PROVE  IsFiniteSet(At(places))
    BY ManagerAssumption, FS_Subset DEF At
  <1> QED  BY <1>2, <1>3, FS_CardinalityType

LEMMA CountStep ==
  ManagerInv /\ CountAccounts /\ [Work]_vars => CountAccounts'
  <1> SUFFICES ASSUME TypeOK, SlotTellsOwner, OnePlace, SweepAlone, CountAccounts, [Work]_vars,
                      ~ clash, ~ clash'
               PROVE  CountAccounts'
    BY ClashStays DEF ManagerInv, TableInv, CountAccounts
  <1> DEFINE Late  == At({"count"})
             Early == At({"decrement"})
  <1>n. NULL \notin Devices /\ Placeholder \notin Devices /\ NULL # Placeholder
    BY ManagerAssumption
  <1>f. /\ IsFiniteSet(Used) /\ IsFiniteSet(Late) /\ IsFiniteSet(Early) /\ count \in Int
        /\ Cardinality(Used) \in Int /\ Cardinality(Late) \in Int /\ Cardinality(Early) \in Int
    BY FiniteParts DEF TypeOK
  <1>c. swept = -1 => count = Cardinality(Used) - Cardinality(Late) + Cardinality(Early)
    BY DEF CountAccounts, Used
  <1>p. (swept' = -1 =>
           count' = Cardinality(Used') - Cardinality(Late') + Cardinality(Early'))
          => CountAccounts'
    BY DEF CountAccounts, Used
  <1> HIDE DEF Late, Early
  <1>1. ASSUME NEW c \in Clients, ClaimSlot(c)
        PROVE  CountAccounts'
    <2>1. dev_id[c] \in Slots /\ dev_id[c] \notin Used /\ c \notin Late
      BY <1>1 DEF ClaimSlot, TypeOK, Used, At, Late
    <2>2. Used' = Used \cup {dev_id[c]}
      BY <1>1, <2>1, <1>n DEF ClaimSlot, TypeOK, Used
    <2>3. Late' = Late \cup {c} /\ Early' = Early /\ UNCHANGED <<count, swept>>
      BY <1>1 DEF ClaimSlot, GoTo, TypeOK, At, Late, Early
    <2>4. Cardinality(Used') = Cardinality(Used) + 1 /\ Cardinality(Late') = Cardinality(Late) + 1
      BY <2>1, <2>2, <2>3, <1>f, FS_AddElement
    <2> QED  BY <2>3, <2>4, <1>f, <1>c, <1>p
  <1>2. ASSUME NEW c \in Clients, CountUp(c)
        PROVE  CountAccounts'
    <2>1. c \in Late /\ Late' = Late \ {c} /\ Early' = Early /\ Used' = Used
          /\ count' = count + 1 /\ UNCHANGED swept
      BY <1>2 DEF CountUp, GoTo, TypeOK, At, Late, Early, Used
    <2>2. Cardinality(Late') = Cardinality(Late) - 1
      BY <2>1, <1>f, FS_RemoveElement
    <2> QED  BY <2>1, <2>2, <1>f, <1>c, <1>p
  <1>3. ASSUME NEW c \in Clients, ClearSlot(c)
        PROVE  CountAccounts'
    <2>1. dev_id[c] \in Used /\ c \notin Early
      BY <1>3, <1>n DEF ClearSlot, OnePlace, OnDisk, TypeOK, Used, At, Early
    <2>2. Used' = Used \ {dev_id[c]}
      BY <1>3, <2>1 DEF ClearSlot, TypeOK, Used
    <2>3. Late' = Late /\ Early' = Early \cup {c} /\ UNCHANGED <<count, swept>>
      BY <1>3 DEF ClearSlot, GoTo, TypeOK, At, Late, Early
    <2>4. /\ Cardinality(Used') = Cardinality(Used) - 1
          /\ Cardinality(Early') = Cardinality(Early) + 1
      BY <2>1, <2>2, <2>3, <1>f, FS_AddElement, FS_RemoveElement
    <2> QED  BY <2>3, <2>4, <1>f, <1>c, <1>p
  <1>4. ASSUME NEW c \in Clients, CountDown(c)
        PROVE  CountAccounts'
    <2>1. c \in Early /\ Early' = Early \ {c} /\ Late' = Late /\ Used' = Used
          /\ count' = count - 1 /\ UNCHANGED swept
      BY <1>4 DEF CountDown, GoTo, TypeOK, At, Late, Early, Used
    <2>2. Cardinality(Early') = Cardinality(Early) - 1
      BY <2>1, <1>f, FS_RemoveElement
    <2> QED  BY <2>1, <2>2, <1>f, <1>c, <1>p
  <1>5. ASSUME NEW c \in Clients, Publish(c)
        PROVE  CountAccounts'
    <2>1. swept = -1 /\ dev_id[c] \in Slots
      BY <1>5 DEF Publish, SweepAlone, TypeOK
    <2>2. slot[dev_id[c]] = Placeholder /\ fdo[c] \in Devices
      BY <1>5, <2>1 DEF Publish, SlotTellsOwner, OnePlace, At, HoldsName, Building, TypeOK
    <2>3. Used' = Used
      BY <1>5, <2>1, <2>2, <1>n DEF Publish, TypeOK, Used
    <2>4. Late' = Late /\ Early' = Early /\ UNCHANGED <<count, swept>>
      BY <1>5 DEF Publish, GoTo, history, TypeOK, At, Late, Early
    <2> QED  BY <2>3, <2>4, <1>c, <1>p
  <1>6. ASSUME NEW c \in Clients, pc[c] \notin {"count", "decrement"},
               pc'[c] \notin {"count", "decrement"},
               \A o \in Clients \ {c} : pc'[o] = pc[o], UNCHANGED <<slot, count, swept>>
        PROVE  CountAccounts'
    <2>1. Late' = Late /\ Early' = Early /\ Used' = Used
      BY <1>6 DEF Late, Early, Used, At
    <2> QED  BY <1>6, <2>1, <1>c, <1>p
  <1>7. ASSUME NEW c \in Clients,
               \/ StartMount(c) \/ NextSlot(c) \/ ScanFails(c) \/ CreateDevice(c)
               \/ CreateFails(c) \/ CreateLink(c) \/ LinkFails(c) \/ ReleaseDisk(c)
               \/ DeleteDevice(c) \/ EnterDisk(c) \/ LeaveDisk(c) \/ Die(c)
               \/ Disconnect(c) \/ Disconnected(c) \/ Join(c) \/ JoinTimesOut(c) \/ UnmountOwn(c)
               \/ (\E n \in Slots : StartRemove(c, n)) \/ Detached(c) \/ UnmountOther(c)
               \/ NotExist(c)
        PROVE  CountAccounts'
    <2>1. /\ UNCHANGED <<slot, count, swept>>
          /\ UNCHANGED pc \/ \E place \in Places \ {"count", "decrement"} :
                               pc[c] \notin {"count", "decrement"} /\ GoTo(c, place)
      BY <1>7 DEF StartMount, NextSlot, ScanFails, CreateDevice, CreateFails, CreateLink,
        LinkFails, ReleaseDisk, DeleteDevice, EnterDisk, LeaveDisk, Die, Disconnect,
        Disconnected, Join, JoinTimesOut, UnmountOwn, StartRemove, Detached, UnmountOther,
        NotExist, ReadSlot, table, history, Places
    <2>2. CASE UNCHANGED pc
      <3>1. Late' = Late /\ Early' = Early /\ Used' = Used
        BY <2>1, <2>2 DEF Late, Early, Used, At
      <3> QED  BY <2>1, <3>1, <1>c, <1>p
    <2>3. ASSUME NEW place \in Places \ {"count", "decrement"},
                 pc[c] \notin {"count", "decrement"}, GoTo(c, place)
          PROVE  CountAccounts'
      BY <2>1, <2>3, <1>6, Moves
    <2> QED  BY <2>1, <2>2, <2>3
  <1>8. CASE StartSweep \/ SweepSlot
    <2>1. swept' # -1
      BY <1>8 DEF StartSweep, SweepSlot, Slots
    <2> QED  BY <2>1, <1>p
  <1>9. CASE UNCHANGED vars
    BY <1>9 DEF vars, table, CountAccounts, At
  <1> QED
    BY <1>1, <1>2, <1>3, <1>4, <1>5, <1>7, <1>8, <1>9 DEF Work, Mount, Unmount

LEMMA CountInit == Init => CountAccounts
  <1> SUFFICES ASSUME Init
               PROVE  CountAccounts
    OBVIOUS
  <1>1. /\ {s \in Slots : slot[s] # NULL} = {}
        /\ At({"count"}) = {} /\ At({"decrement"}) = {} /\ count = 0
    BY DEF Init, At
  <1> QED  BY <1>1, FS_EmptySet DEF CountAccounts

(* m_disk_count is the number of slots in use, but for the threads between *)
(* a slot and the counter.                                                 *)
THEOREM DisksCounted == Spec => []CountAccounts
  <1> QED  BY CountInit, NextWorks, CountStep, ManagerInvariant, PTL DEF Spec
-----------------------------------------------------------------------------
(* The scan.  A mount that nobody has overlapped so far started with fewer *)
(* disks counted than slots and with nobody between a slot and the count,  *)
(* so there was an empty slot, and it is still there and still ahead.      *)
EmptyAhead(c) == \E s \in Slots : dev_id[c] <= s /\ slot[s] = NULL
CalmFinds == ~ clash => \A c \in At({"scan"}) : calm[c] => EmptyAhead(c)

(* A count below the limit that is nobody's to correct leaves a slot empty.*)
LEMMA RoomLeft ==
  ASSUME TypeOK, CountAccounts, ~ clash, swept = -1, count < MaxDisks,
         At({"count"}) = {}, At({"decrement"}) = {}
  PROVE  \E s \in Slots : slot[s] = NULL
  <1>1. Cardinality(At({"count"})) = 0 /\ Cardinality(At({"decrement"})) = 0
    BY FS_EmptySet
  <1>2. count = Cardinality(Used)
    BY <1>1, FiniteParts DEF CountAccounts, Used
  <1>3. Cardinality(Slots) = MaxDisks
    BY ManagerAssumption, FS_Interval DEF Slots
  <1>4. Used # Slots
    BY <1>2, <1>3, FiniteParts, ManagerAssumption
  <1> QED  BY <1>4 DEF Used

LEMMA CalmStep ==
  ManagerInv /\ CountAccounts /\ CalmFinds /\ [Work]_vars => CalmFinds'
  <1> SUFFICES ASSUME ManagerInv, CountAccounts, CalmFinds, [Work]_vars, ~ clash,
                      NEW o \in Clients, pc'[o] = "scan", calm'[o]
               PROVE  EmptyAhead(o)'
    BY ClashStays DEF CalmFinds, At
  <1>t. TypeOK /\ SlotTellsOwner /\ OnePlace /\ SweepAlone /\ dev_id[o] \in Slots
    BY DEF ManagerInv, TableInv, TypeOK
  <1>n. NULL \notin Devices /\ Placeholder \notin Devices /\ NULL # Placeholder
    BY ManagerAssumption
  <1>1. ASSUME pc[o] = "scan", calm[o], dev_id'[o] = dev_id[o],
               \A s \in Slots : slot[s] = NULL => slot'[s] = NULL
        PROVE  EmptyAhead(o)'
    BY <1>1 DEF CalmFinds, At, EmptyAhead, Slots
  <1>2. ASSUME NEW c \in Clients, StartMount(c)
        PROVE  EmptyAhead(o)'
    <2>1. CASE o = c
      <3>1. At({"count"}) = {} /\ At({"decrement"}) = {}
        BY <1>2, <1>t, <2>1 DEF StartMount, TypeOK, At
      <3>2. PICK s \in Slots : slot[s] = NULL
        BY <1>2, <1>t, <3>1, RoomLeft DEF StartMount
      <3> QED  BY <1>2, <1>t, <2>1, <3>2, ManagerAssumption DEF StartMount, TypeOK, table, EmptyAhead, Slots
    <2>2. CASE o # c
      BY <1>1, <1>2, <1>t, <2>2 DEF StartMount, GoTo, TypeOK, table
    <2> QED  BY <2>1, <2>2
  <1>3. ASSUME NEW c \in Clients, ClaimSlot(c) \/ ClearSlot(c)
        PROVE  EmptyAhead(o)'
    <2>1. o = c
      BY <1>3, <1>t DEF ClaimSlot, ClearSlot, TypeOK
    <2> QED  BY <1>3, <1>t, <2>1 DEF ClaimSlot, ClearSlot, GoTo, TypeOK
  <1>4. ASSUME NEW c \in Clients, NextSlot(c)
        PROVE  EmptyAhead(o)'
    <2>1. CASE o = c
      <3>1. PICK s \in Slots : dev_id[o] <= s /\ slot[s] = NULL
        BY <1>4, <2>1, <1>t DEF NextSlot, history, CalmFinds, EmptyAhead, At
      <3>2. s # dev_id[o] /\ dev_id'[o] = dev_id[o] + 1 /\ slot' = slot
        BY <1>4, <2>1, <3>1, <1>t DEF NextSlot, table, TypeOK
      <3> QED  BY <3>1, <3>2, <1>t, ManagerAssumption DEF EmptyAhead, Slots
    <2>2. CASE o # c
      BY <1>1, <1>4, <1>t, <2>2 DEF NextSlot, history, table, TypeOK
    <2> QED  BY <2>1, <2>2
  <1>5. ASSUME NEW c \in Clients, Publish(c)
        PROVE  EmptyAhead(o)'
    <2>1. swept = -1 /\ dev_id[c] \in Slots
      BY <1>5, <1>t DEF Publish, SweepAlone, TypeOK
    <2>2. slot[dev_id[c]] # NULL
      BY <1>5, <1>t, <1>n, <2>1 DEF Publish, SlotTellsOwner, At, HoldsName
    <2> QED  BY <1>1, <1>5, <1>t, <2>2 DEF Publish, GoTo, history, TypeOK
  <1>6. ASSUME NEW c \in Clients,
               \/ ScanFails(c) \/ CountUp(c) \/ CreateDevice(c) \/ CreateFails(c) \/ CreateLink(c)
               \/ LinkFails(c) \/ CountDown(c) \/ ReleaseDisk(c) \/ DeleteDevice(c)
               \/ EnterDisk(c) \/ LeaveDisk(c) \/ Die(c)
        PROVE  EmptyAhead(o)'
    <2>1. UNCHANGED <<slot, calm, dev_id>> /\ pc[o] = "scan"
      BY <1>6, <1>t DEF ScanFails, CountUp, CreateDevice, CreateFails, CreateLink, LinkFails,
        CountDown, ReleaseDisk, DeleteDevice, EnterDisk, LeaveDisk, Die, GoTo, table, history, TypeOK
    <2> QED  BY <1>1, <2>1
  <1>7. ASSUME NEW c \in Clients,
               \/ Disconnect(c) \/ Disconnected(c) \/ Join(c) \/ JoinTimesOut(c) \/ UnmountOwn(c)
               \/ (\E n \in Slots : StartRemove(c, n)) \/ Detached(c) \/ UnmountOther(c)
               \/ NotExist(c)
        PROVE  EmptyAhead(o)'
    <2>1. UNCHANGED <<slot, calm>> /\ pc[o] = "scan" /\ dev_id'[o] = dev_id[o]
      BY <1>7, <1>t DEF Disconnect, Disconnected, Join, JoinTimesOut, UnmountOwn, StartRemove,
        Detached, UnmountOther, NotExist, ReadSlot, GoTo, table, history, TypeOK
    <2> QED  BY <1>1, <2>1
  <1>8. CASE StartSweep \/ SweepSlot
    BY <1>8, <1>t, SweepStep DEF StartSweep, SweepSlot, SweepAlone, Slots
  <1>9. CASE UNCHANGED vars
    BY <1>1, <1>9 DEF vars, table, history
  <1> QED
    BY <1>2, <1>3, <1>4, <1>5, <1>6, <1>7, <1>8, <1>9 DEF Work, Mount, Unmount

(* A mount that passed the check of m_disk_count and that no other mount   *)
(* or unmount has overlapped finds a slot; the retry the source leaves to  *)
(* the caller is for races only.                                           *)
THEOREM CalmScanFinds == Spec => ScanFailsOnlyInRace
  <1>1. Init => CalmFinds
    BY DEF Init, CalmFinds, At
  <1>2. ManagerInv /\ CountAccounts /\ CalmFinds /\ [Work]_vars => CalmFinds'
    BY CalmStep
  <1>3. ManagerInv /\ CalmFinds => \A c \in Clients : ScanFails(c) => ~ calm[c] \/ clash
    <2> SUFFICES ASSUME ManagerInv, CalmFinds, NEW c \in Clients, ScanFails(c), calm[c], ~ clash
                 PROVE  FALSE
      OBVIOUS
    <2>1. PICK s \in Slots : dev_id[c] <= s /\ slot[s] = NULL
      BY DEF ScanFails, CalmFinds, At, EmptyAhead
    <2> QED  BY <2>1, ManagerAssumption DEF ScanFails, ManagerInv, TypeOK, Slots
  <1> QED
    BY <1>1, <1>2, <1>3, NextWorks, ManagerInvariant, DisksCounted, PTL DEF Spec, ScanFailsOnlyInRace
=============================================================================
