-------------------------- MODULE MountToolProofs --------------------------
(***************************************************************************)
(* Theorems about MountTool, for every queue capacity and every number of  *)
(* requests: unless a wait timed out the exchange thread never works with  *)
(* something that is gone, and a tool that ended by itself left no disk.   *)
(***************************************************************************)
EXTENDS MountTool, TLAPS

Active == {"starting", "call", "pop", "image"}
Gone == {"none", "ended"}
Starting == {"install", "load", "create"}
Working == {"mount", "wait", "unmount", "disconnect"}
Ending == {"unload", "exit", "exited"}
Pcs == Starting \cup {"connect", "started", "join", "delete", "aborted"} \cup Working \cup Ending
Calls == {"install", "load", "create", "thread", "define", "undefine", "disconnect", "killed"}

ToolType == [pc : Pcs, status : 0 .. 4, install : BOOLEAN, driver : BOOLEAN,
             port : BOOLEAN, connect : BOOLEAN, mount : BOOLEAN]
PastType == [io : Nat, crowded : BOOLEAN, late : BOOLEAN, failed : SUBSET Calls]
Types ==
  /\ tool \in ToolType /\ past \in PastType
  /\ disk \in BOOLEAN /\ letter \in BOOLEAN /\ dll \in BOOLEAN

(* Where the exchange thread stands, given where the tool does.  A tool    *)
(* that has a thread has what the thread works with, and its status leads  *)
(* CleanUp through Disconnect, which waits for the thread.                 *)
ThreadStands ==
  /\ thd \in Active \cup Gone
  /\ tool.pc \in Starting \cup {"connect"} => thd = "none"
  /\ tool.pc \in {"connect", "started", "mount", "wait"} => obj = "live" /\ dll
  /\ tool.pc = "create" => dll
  /\ thd \in Active /\ Alive /\ ~past.late => obj = "live" /\ dll /\ "drv" \in refs
  /\ thd \in Active /\ ~Alive => thd = "pop"
  /\ thd \in Active /\ ~past.late /\ tool.pc \in Working => tool.status >= ST_DRV_CONNECTED
  /\ ~past.late /\ tool.pc \in Ending \cup {"delete"} => thd \in Gone \/ tool.pc = "exited"
  /\ ~past.late /\ thd = "pop" /\ other # "done" => disk

(* What is left to take down, given where the tool stands.                 *)
Excused == past.late \/ "thread" \in past.failed
DiskStands ==
  /\ tool.pc \in Starting => ~disk
  /\ tool.pc \in Starting \cup {"connect", "started", "mount"} => ~letter
  /\ letter /\ tool.pc \in {"wait", "unmount"} => tool.status = ST_MOUNTED
  /\ letter /\ tool.pc = "disconnect" => tool.status >= ST_DRV_CONNECTED
  /\ letter /\ tool.pc \in Ending \cup {"disconnect", "join", "delete"} =>
       "undefine" \in past.failed
  /\ disk /\ tool.connect /\ tool.pc \in Working => tool.status >= ST_DRV_CONNECTED \/ Excused
  /\ disk /\ tool.pc \in Ending => ~letter /\ (~tool.connect \/ Excused)

ToolInv == Types /\ ThreadStands /\ DiskStands

-----------------------------------------------------------------------------
(* What the helpers of the actions leave typed.                            *)
LEMMA GotoType ==
  ASSUME tool \in ToolType, NEW pc \in Pcs, Goto(pc)  PROVE tool' \in ToolType
  BY DEF ToolType, Goto

(* The same for a step that changes the status too.                        *)
LEMMA ReachedType ==
  ASSUME tool \in ToolType, NEW pc \in Pcs, NEW st \in 0 .. 4, Reached(pc, st)
  PROVE  tool' \in ToolType
  BY DEF ToolType, Reached

(* The same for a call that fails.                                         *)
LEMMA FailedType ==
  ASSUME past \in PastType, NEW call \in Calls, Failed(call)  PROVE past' \in PastType
  BY DEF PastType, Failed

(* The tool starts with nothing made.                                      *)
LEMMA InitInv == Init => ToolInv
PROOF
<1> SUFFICES ASSUME Init  PROVE ToolInv
  OBVIOUS
<1>1. tool.pc = "install" /\ tool.connect \in BOOLEAN  BY DEF Init
<1>2. tool \in ToolType  BY DEF Init, ToolType, ST_INIT, Pcs, Starting
<1>3. past \in PastType  BY DEF Init, PastType, Calls
<1>4. Types  BY <1>2, <1>3 DEF Init, Types
<1>5. ThreadStands
  BY <1>1 DEF Init, ThreadStands, Active, Gone, Starting, Working, Ending, Alive, Over
<1>6. DiskStands  BY <1>1 DEF Init, DiskStands, Starting, Working, Ending
<1>. QED  BY <1>4, <1>5, <1>6 DEF ToolInv

(* Every step keeps the invariant: those of Run and CleanUp, of the        *)
(* exchange thread, of the other runs of the tool, and of the driver.      *)
LEMMA StepInv == ToolInv /\ [Next]_vars => ToolInv'
PROOF
<1> SUFFICES ASSUME ToolInv, [Next]_vars  PROVE ToolInv'
  OBVIOUS
<1> USE DEF ST_INIT, ST_DRV_INSTALLED, ST_DRV_LOADED, ST_DRV_CONNECTED, ST_MOUNTED,
            userVars, kernelVars, Throw,
            Active, Gone, Starting, Working, Ending, Alive, Over, Excused
<1>1. CASE InstallDriver
  <2>1. /\ tool'.pc \in {"load", "unmount"} /\ tool'.connect = tool.connect
        /\ past'.late = past.late /\ past.failed \subseteq past'.failed
    <3>1. past' = past \/ Failed("install")  BY <1>1 DEF InstallDriver
    <3>2. past'.late = past.late /\ past.failed \subseteq past'.failed
      BY <3>1 DEF Failed, ToolInv, Types, PastType
    <3>3. tool'.pc \in {"load", "unmount"} /\ tool'.connect = tool.connect
      BY <1>1 DEF InstallDriver, Goto, Reached, ToolInv, Types, ToolType
    <3>. QED  BY <3>2, <3>3
  <2>2. Types'
    <3>1. Goto("load") \/ Goto("unmount") \/ Reached("load", ST_DRV_INSTALLED)
      BY <1>1 DEF InstallDriver
    <3>2. tool' \in ToolType
      BY <3>1, GotoType, ReachedType DEF ToolInv, Types, Pcs
    <3>3. past' = past \/ Failed("install")
      BY <1>1 DEF InstallDriver
    <3>4. past' \in PastType
      BY <3>3, FailedType DEF ToolInv, Types, Calls
    <3>. QED  BY <1>1, <3>2, <3>4 DEF InstallDriver, ToolInv, Types
  <2>3. ThreadStands'
    BY <1>1, <2>1 DEF InstallDriver, ToolInv, Types, ThreadStands
  <2>4. DiskStands'
    BY <1>1, <2>1 DEF InstallDriver, ToolInv, Types, ToolType, ThreadStands, DiskStands
  <2>. QED  BY <2>2, <2>3, <2>4 DEF ToolInv
<1>2. CASE LoadUserModeDriver
  <2>1. /\ tool'.pc \in {"create", "unmount"} /\ tool'.connect = tool.connect
        /\ tool'.pc = "create" => dll'
        /\ past'.late = past.late /\ past.failed \subseteq past'.failed
    BY <1>2 DEF LoadUserModeDriver, Goto, Reached, Failed, ToolInv, Types, ToolType, PastType,
         Pcs, Calls
  <2>2. Types'
    <3>1. Goto("unmount") \/ Reached("create", ST_DRV_LOADED)
      BY <1>2 DEF LoadUserModeDriver
    <3>2. tool' \in ToolType
      BY <3>1, GotoType, ReachedType DEF ToolInv, Types, Pcs
    <3>3. past' = past \/ Failed("load")
      BY <1>2 DEF LoadUserModeDriver
    <3>4. past' \in PastType
      BY <3>3, FailedType DEF ToolInv, Types, Calls
    <3>. QED  BY <1>2, <3>2, <3>4 DEF LoadUserModeDriver, ToolInv, Types
  <2>3. ThreadStands'
    BY <1>2, <2>1 DEF LoadUserModeDriver, ToolInv, Types, ThreadStands
  <2>4. DiskStands'
    BY <1>2, <2>1 DEF LoadUserModeDriver, ToolInv, Types, ToolType, ThreadStands, DiskStands
  <2>. QED  BY <2>2, <2>3, <2>4 DEF ToolInv
<1>3. CASE CreateDevice
  <2>1. /\ (tool'.pc = "connect" /\ obj' = "live") \/ (tool'.pc = "unmount" /\ disk' = disk)
        /\ tool'.connect = tool.connect
        /\ past'.late = past.late /\ past.failed \subseteq past'.failed
    <3>1. past' = past \/ Failed("create")  BY <1>3 DEF CreateDevice
    <3>2. past'.late = past.late /\ past.failed \subseteq past'.failed
      BY <3>1 DEF Failed, ToolInv, Types, PastType
    <3>3. (Goto("connect") /\ obj' = "live") \/ (Goto("unmount") /\ disk' = disk)
      BY <1>3 DEF CreateDevice
    <3>4. /\ (tool'.pc = "connect" /\ obj' = "live") \/ (tool'.pc = "unmount" /\ disk' = disk)
          /\ tool'.connect = tool.connect
      BY <3>3 DEF Goto, ToolInv, Types, ToolType
    <3>. QED  BY <3>2, <3>4
  <2>2. Types'
    <3>1. Goto("connect") \/ Goto("unmount")
      BY <1>3 DEF CreateDevice
    <3>2. tool' \in ToolType
      BY <3>1, GotoType, ReachedType DEF ToolInv, Types, Pcs
    <3>3. past' = past \/ Failed("create")
      BY <1>3 DEF CreateDevice
    <3>4. past' \in PastType
      BY <3>3, FailedType DEF ToolInv, Types, Calls
    <3>. QED  BY <1>3, <3>2, <3>4 DEF CreateDevice, ToolInv, Types
  <2>3. ThreadStands'
    BY <1>3, <2>1 DEF CreateDevice, ToolInv, Types, ThreadStands
  <2>4. DiskStands'
    BY <1>3, <2>1 DEF CreateDevice, ToolInv, Types, ToolType, ThreadStands, DiskStands
  <2>. QED  BY <2>2, <2>3, <2>4 DEF ToolInv
<1>4. CASE Connect
  <2>1. /\ \/ tool'.pc = "mount" /\ ~tool.connect /\ thd' = thd
           \/ tool'.pc = "started" /\ thd' = "starting" /\ "drv" \in refs'
           \/ tool'.pc = "unmount" /\ "thread" \in past'.failed /\ thd' = thd
        /\ tool'.connect = tool.connect
        /\ past'.late = past.late /\ past.failed \subseteq past'.failed
    BY <1>4 DEF Connect, Goto, Reached, Failed, ToolInv, Types, ToolType, PastType, Pcs, Calls
  <2>2. Types'
    <3>1. Goto("mount") \/ Goto("started") \/ Goto("unmount")
      BY <1>4 DEF Connect
    <3>2. tool' \in ToolType
      BY <3>1, GotoType, ReachedType DEF ToolInv, Types, Pcs
    <3>3. past' = past \/ Failed("thread")
      BY <1>4 DEF Connect
    <3>4. past' \in PastType
      BY <3>3, FailedType DEF ToolInv, Types, Calls
    <3>. QED  BY <1>4, <3>2, <3>4 DEF Connect, ToolInv, Types
  <2>3. ThreadStands'
    BY <1>4, <2>1 DEF Connect, ToolInv, Types, ThreadStands
  <2>4. DiskStands'
    BY <1>4, <2>1 DEF Connect, ToolInv, Types, ToolType, ThreadStands, DiskStands
  <2>. QED  BY <2>2, <2>3, <2>4 DEF ToolInv
<1>5. CASE WaitStarted
  <2>1. /\ \/ tool'.pc = "mount" /\ tool'.status = ST_DRV_CONNECTED /\ past' = past
           \/ tool'.pc = "unmount" /\ past'.late
        /\ tool'.connect = tool.connect
        /\ "drv" \in refs => "drv" \in refs'
    BY <1>5 DEF WaitStarted, Goto, Reached, Failed, ToolInv, Types, ToolType, PastType, Pcs, Calls
  <2>2. Types'
    <3>1. Reached("mount", ST_DRV_CONNECTED) \/ Goto("unmount")
      BY <1>5 DEF WaitStarted
    <3>2. tool' \in ToolType
      BY <3>1, GotoType, ReachedType DEF ToolInv, Types, Pcs
    <3>3. past' = past \/ past' = [past EXCEPT !.late = TRUE]
      BY <1>5 DEF WaitStarted
    <3>4. past' \in PastType
      BY <3>3, FailedType DEF ToolInv, Types, Calls, PastType
    <3>. QED  BY <1>5, <3>2, <3>4 DEF WaitStarted, ToolInv, Types
  <2>3. ThreadStands'
    BY <1>5, <2>1 DEF WaitStarted, ToolInv, Types, ThreadStands
  <2>4. DiskStands'
    BY <1>5, <2>1 DEF WaitStarted, ToolInv, Types, ToolType, ThreadStands, DiskStands
  <2>. QED  BY <2>2, <2>3, <2>4 DEF ToolInv
<1>6. CASE Mount
  <2>1. /\ \/ tool'.pc = "wait" /\ tool'.status = tool.status /\ letter' = letter
           \/ tool'.pc = "wait" /\ tool'.status = ST_MOUNTED
           \/ tool'.pc = "unmount" /\ tool'.status = tool.status /\ letter' = letter
        /\ tool'.connect = tool.connect
        /\ past'.late = past.late /\ past.failed \subseteq past'.failed
        /\ "drv" \in refs => "drv" \in refs'
    <3>1. past' = past \/ Failed("define")  BY <1>6 DEF Mount
    <3>2. past'.late = past.late /\ past.failed \subseteq past'.failed
      BY <3>1 DEF Failed, ToolInv, Types, PastType
    <3>3. \/ Goto("wait") /\ letter' = letter
          \/ Reached("wait", ST_MOUNTED)
          \/ Goto("unmount") /\ letter' = letter
      BY <1>6 DEF Mount
    <3>4. /\ \/ tool'.pc = "wait" /\ tool'.status = tool.status /\ letter' = letter
             \/ tool'.pc = "wait" /\ tool'.status = ST_MOUNTED
             \/ tool'.pc = "unmount" /\ tool'.status = tool.status /\ letter' = letter
          /\ tool'.connect = tool.connect
      BY <3>3 DEF Goto, Reached, ToolInv, Types, ToolType
    <3>5. "drv" \in refs => "drv" \in refs'  BY <1>6 DEF Mount
    <3>. QED  BY <3>2, <3>4, <3>5
  <2>2. Types'
    <3>1. Goto("wait") \/ Reached("wait", ST_MOUNTED) \/ Goto("unmount")
      BY <1>6 DEF Mount
    <3>2. tool' \in ToolType
      BY <3>1, GotoType, ReachedType DEF ToolInv, Types, Pcs
    <3>3. past' = past \/ Failed("define")
      BY <1>6 DEF Mount
    <3>4. past' \in PastType
      BY <3>3, FailedType DEF ToolInv, Types, Calls
    <3>. QED  BY <1>6, <3>2, <3>4 DEF Mount, ToolInv, Types
  <2>3. ThreadStands'
    BY <1>6, <2>1 DEF Mount, ToolInv, Types, ThreadStands
  <2>4. DiskStands'
    BY <1>6, <2>1 DEF Mount, ToolInv, Types, ToolType, ThreadStands, DiskStands
  <2>. QED  BY <2>2, <2>3, <2>4 DEF ToolInv
<1>7. CASE WaitExit
  <2>1. /\ tool'.pc = "unmount" /\ tool'.status = tool.status /\ tool'.connect = tool.connect
        /\ past' = past
        /\ "drv" \in refs => "drv" \in refs'
    BY <1>7 DEF WaitExit, Goto, Reached, Failed, ToolInv, Types, ToolType, PastType, Pcs, Calls
  <2>2. Types'
    <3>1. Goto("unmount")
      BY <1>7 DEF WaitExit
    <3>2. tool' \in ToolType
      BY <3>1, GotoType, ReachedType DEF ToolInv, Types, Pcs
    <3>4. past' \in PastType  BY <1>7 DEF WaitExit, ToolInv, Types
    <3>. QED  BY <1>7, <3>2, <3>4 DEF WaitExit, ToolInv, Types
  <2>3. ThreadStands'
    BY <1>7, <2>1 DEF WaitExit, ToolInv, Types, ThreadStands
  <2>4. DiskStands'
    BY <1>7, <2>1 DEF WaitExit, ToolInv, Types, ToolType, ThreadStands, DiskStands
  <2>. QED  BY <2>2, <2>3, <2>4 DEF ToolInv
<1>8. CASE UnmountImage
  <2>1. /\ tool'.pc = "disconnect" /\ tool'.connect = tool.connect
        /\ \/ tool.status < ST_MOUNTED /\ tool'.status = tool.status /\ letter' = letter
              /\ past' = past
           \/ /\ tool.status = ST_MOUNTED /\ tool'.status = ST_DRV_CONNECTED
              /\ letter' => "undefine" \in past'.failed
        /\ past'.late = past.late /\ past.failed \subseteq past'.failed
    <3>1. past' = past \/ Failed("undefine")  BY <1>8 DEF UnmountImage
    <3>2. past'.late = past.late /\ past.failed \subseteq past'.failed
      BY <3>1 DEF Failed, ToolInv, Types, PastType
    <3>3. CASE tool.status < ST_MOUNTED
      <4>1. Goto("disconnect") /\ letter' = letter /\ past' = past  BY <1>8, <3>3 DEF UnmountImage
      <4>. QED  BY <3>2, <3>3, <4>1 DEF Goto, ToolInv, Types, ToolType
    <3>4. CASE tool.status >= ST_MOUNTED
      <4>1. tool.status = ST_MOUNTED  BY <3>4 DEF ToolInv, Types, ToolType
      <4>2. Reached("disconnect", ST_DRV_CONNECTED)  BY <1>8, <4>1 DEF UnmountImage
      <4>3. letter' = FALSE \/ Failed("undefine")  BY <1>8, <4>1 DEF UnmountImage
      <4>4. letter' => "undefine" \in past'.failed  BY <4>3 DEF Failed, ToolInv, Types, PastType
      <4>. QED  BY <3>2, <4>1, <4>2, <4>4 DEF Reached, ToolInv, Types, ToolType
    <3>. QED  BY <3>3, <3>4 DEF ToolInv, Types, ToolType
  <2>2. Types'
    <3>1. Goto("disconnect") \/ Reached("disconnect", ST_DRV_CONNECTED)
      BY <1>8 DEF UnmountImage
    <3>2. tool' \in ToolType
      BY <3>1, GotoType, ReachedType DEF ToolInv, Types, Pcs
    <3>3. past' = past \/ Failed("undefine")
      BY <1>8 DEF UnmountImage
    <3>4. past' \in PastType
      BY <3>3, FailedType DEF ToolInv, Types, Calls
    <3>. QED  BY <1>8, <3>2, <3>4 DEF UnmountImage, ToolInv, Types
  <2>3. ThreadStands'
    BY <1>8, <2>1 DEF UnmountImage, ToolInv, Types, ThreadStands
  <2>4. DiskStands'
    BY <1>8, <2>1 DEF UnmountImage, ToolInv, Types, ToolType, ThreadStands, DiskStands
  <2>. QED  BY <2>2, <2>3, <2>4 DEF ToolInv
<1>9. CASE Disconnect
  <2>1. /\ \/ tool.status < ST_DRV_CONNECTED /\ tool'.pc = "unload" /\ thd' = thd
              /\ UNCHANGED <<obj, refs, dll, past>>
           \/ tool'.pc = "join" /\ thd' = thd /\ UNCHANGED <<obj, refs, dll, past>>
           \/ tool' = tool /\ thd' = thd /\ UNCHANGED <<obj, refs, dll>>
           \/ tool'.pc = "aborted" /\ (thd' \in Active => thd' = "pop" /\ thd = "pop") 
              /\ thd' \in Active \cup Gone
        /\ tool'.connect = tool.connect /\ tool'.status = tool.status
        /\ past'.late = past.late /\ past.failed \subseteq past'.failed
    BY <1>9 DEF Disconnect, EndProcess, Goto, Reached, Failed, Crowd, ToolInv, Types, ToolType, PastType,
         ThreadStands
  <2>2. Types'
    <3>1. Goto("unload") \/ Goto("join") \/ Goto("aborted") \/ tool' = tool
      BY <1>9 DEF Disconnect, EndProcess
    <3>2. tool' \in ToolType
      BY <3>1, GotoType, ReachedType DEF ToolInv, Types, Pcs
    <3>3. past' = past \/ Failed("disconnect") \/ Crowd
      BY <1>9 DEF Disconnect, EndProcess
    <3>4. past' \in PastType
      BY <3>3, FailedType DEF ToolInv, Types, Calls, Crowd, PastType
    <3>. QED  BY <1>9, <3>2, <3>4 DEF Disconnect, EndProcess, ToolInv, Types
  <2>3. ThreadStands'
    BY <1>9, <2>1 DEF Disconnect, ToolInv, Types, ToolType, ThreadStands
  <2>4. DiskStands'
    BY <1>9, <2>1 DEF Disconnect, ToolInv, Types, ToolType, ThreadStands, DiskStands
  <2>. QED  BY <2>2, <2>3, <2>4 DEF ToolInv
<1>10. CASE Join
  <2>1. /\ tool'.pc = "delete" /\ tool'.connect = tool.connect
        /\ past'.late <=> past.late \/ thd \notin {"none", "ended"}
        /\ past'.failed = past.failed
    BY <1>10 DEF Join, Goto, Reached, Failed, ToolInv, Types, ToolType, PastType, Pcs, Calls
  <2>2. Types'
    <3>1. Goto("delete")
      BY <1>10 DEF Join
    <3>2. tool' \in ToolType
      BY <3>1, GotoType, ReachedType DEF ToolInv, Types, Pcs
    <3>3. past' = [past EXCEPT !.late = @ \/ thd \notin {"none", "ended"}]
      BY <1>10 DEF Join
    <3>4. past' \in PastType
      BY <3>3, FailedType DEF ToolInv, Types, Calls, PastType
    <3>. QED  BY <1>10, <3>2, <3>4 DEF Join, ToolInv, Types
  <2>3. ThreadStands'
    BY <1>10, <2>1 DEF Join, ToolInv, Types, ThreadStands
  <2>4. DiskStands'
    BY <1>10, <2>1 DEF Join, ToolInv, Types, ToolType, ThreadStands, DiskStands
  <2>. QED  BY <2>2, <2>3, <2>4 DEF ToolInv
<1>11. CASE DeleteControl
  <2>1. /\ tool'.pc = "unload" /\ tool'.connect = tool.connect
        /\ disk' = FALSE /\ past' = past
    BY <1>11 DEF DeleteControl, ReleaseDisk, Goto, Reached, Failed, ToolInv, Types, ToolType,
         PastType, Pcs, Calls
  <2>2. Types'
    <3>1. Reached("unload", ST_DRV_LOADED)
      BY <1>11 DEF DeleteControl, ReleaseDisk
    <3>2. tool' \in ToolType
      BY <3>1, GotoType, ReachedType DEF ToolInv, Types, Pcs
    <3>4. past' \in PastType  BY <1>11 DEF DeleteControl, ReleaseDisk, ToolInv, Types
    <3>. QED  BY <1>11, <3>2, <3>4 DEF DeleteControl, ReleaseDisk, ToolInv, Types
  <2>3. ThreadStands'
    BY <1>11, <2>1 DEF DeleteControl, ReleaseDisk, ToolInv, Types, ThreadStands
  <2>4. DiskStands'
    BY <1>11, <2>1 DEF DeleteControl, ReleaseDisk, ToolInv, Types, ToolType, ThreadStands,
         DiskStands
  <2>. QED  BY <2>2, <2>3, <2>4 DEF ToolInv
<1>12. CASE UnloadDriver
  <2>1. /\ tool'.pc = "exit" /\ tool'.connect = tool.connect
        /\ past' = past
    BY <1>12 DEF UnloadDriver, Goto, Reached, Failed, ToolInv, Types, ToolType, PastType, Pcs,
         Calls
  <2>2. Types'
    <3>1. Reached("exit", ST_DRV_INSTALLED) \/ Goto("exit")
      BY <1>12 DEF UnloadDriver
    <3>2. tool' \in ToolType
      BY <3>1, GotoType, ReachedType DEF ToolInv, Types, Pcs
    <3>4. past' \in PastType  BY <1>12 DEF UnloadDriver, ToolInv, Types
    <3>. QED  BY <1>12, <3>2, <3>4 DEF UnloadDriver, ToolInv, Types
  <2>3. ThreadStands'
    BY <1>12, <2>1 DEF UnloadDriver, ToolInv, Types, ThreadStands
  <2>4. DiskStands'
    BY <1>12, <2>1 DEF UnloadDriver, ToolInv, Types, ToolType, ThreadStands, DiskStands
  <2>. QED  BY <2>2, <2>3, <2>4 DEF ToolInv
<1>13. CASE Exit
  <2>1. /\ tool'.pc = "exited" /\ tool'.connect = tool.connect
        /\ (thd' \in Active => thd' = "pop" /\ thd = "pop") /\ thd' \in Active \cup Gone
        /\ past' = past
    BY <1>13 DEF Exit, EndProcess, Goto, Reached, Failed, ToolInv, Types, ToolType, PastType,
         ThreadStands
  <2>2. Types'
    <3>1. Goto("exited")
      BY <1>13 DEF Exit, EndProcess
    <3>2. tool' \in ToolType
      BY <3>1, GotoType, ReachedType DEF ToolInv, Types, Pcs
    <3>4. past' \in PastType  BY <1>13 DEF Exit, EndProcess, ToolInv, Types
    <3>. QED  BY <1>13, <3>2, <3>4 DEF Exit, EndProcess, ToolInv, Types
  <2>3. ThreadStands'
    BY <1>13, <2>1 DEF Exit, ToolInv, Types, ThreadStands
  <2>4. DiskStands'
    BY <1>13, <2>1 DEF Exit, ToolInv, Types, ToolType, ThreadStands, DiskStands
  <2>. QED  BY <2>2, <2>3, <2>4 DEF ToolInv
<1>14. CASE Killed
  <2>1. /\ tool'.pc = "aborted" /\ tool'.connect = tool.connect
        /\ (thd' \in Active => thd' = "pop" /\ thd = "pop") /\ thd' \in Active \cup Gone
        /\ past'.late = past.late /\ past.failed \subseteq past'.failed
    BY <1>14 DEF Killed, EndProcess, Goto, Reached, Failed, ToolInv, Types, ToolType, PastType,
         ThreadStands
  <2>2. Types'
    <3>1. Goto("aborted")
      BY <1>14 DEF Killed, EndProcess
    <3>2. tool' \in ToolType
      BY <3>1, GotoType, ReachedType DEF ToolInv, Types, Pcs
    <3>3. Failed("killed")
      BY <1>14 DEF Killed, EndProcess
    <3>4. past' \in PastType
      BY <3>3, FailedType DEF ToolInv, Types, Calls
    <3>. QED  BY <1>14, <3>2, <3>4 DEF Killed, EndProcess, ToolInv, Types
  <2>3. ThreadStands'
    BY <1>14, <2>1 DEF Killed, ToolInv, Types, ThreadStands
  <2>4. DiskStands'
    BY <1>14, <2>1 DEF Killed, ToolInv, Types, ToolType, ThreadStands, DiskStands
  <2>. QED  BY <2>2, <2>3, <2>4 DEF ToolInv
<1>15. CASE CtrlC
  <2>1. tool' = tool /\ past'.late = past.late /\ past'.failed = past.failed
    BY <1>15 DEF CtrlC, ToolInv, Types, PastType
  <2>2. Types'  BY <1>15 DEF CtrlC, ToolInv, Types, PastType
  <2>3. ThreadStands'
    BY <1>15, <2>1 DEF CtrlC, ToolInv, Types, ThreadStands
  <2>4. DiskStands'
    BY <1>15, <2>1 DEF CtrlC, ToolInv, Types, DiskStands
  <2>. QED  BY <2>2, <2>3, <2>4 DEF ToolInv
<1>16. CASE Remove
  <2>1. tool' = tool /\ past'.late = past.late /\ past'.failed = past.failed
    BY <1>16 DEF Remove, RemoveOpen, RemoveDisconnect, RemoveUnmount, ReleaseDisk, Crowd, ToolInv, Types,
         PastType
  <2>2. Types'  BY <1>16 DEF Remove, RemoveOpen, RemoveDisconnect, RemoveUnmount, ReleaseDisk, Crowd,
      ToolInv, Types, PastType
  <2>3. ThreadStands'
    BY <1>16, <2>1 DEF Remove, RemoveOpen, RemoveDisconnect, RemoveUnmount, ReleaseDisk, Crowd, ToolInv,
         Types, ThreadStands
  <2>4. DiskStands'
    BY <1>16, <2>1 DEF Remove, RemoveOpen, RemoveDisconnect, RemoveUnmount, ReleaseDisk, Crowd, ToolInv,
         Types, DiskStands
  <2>. QED  BY <2>2, <2>3, <2>4 DEF ToolInv
<1>17. CASE ExchangeThread
  <2>1. tool' = tool /\ past'.late = past.late /\ past'.failed = past.failed
    BY <1>17 DEF ExchangeThread, OpenExchange, EnterExchange, PopRequest, ServeRequest,
         ThreadOnly, ToolInv, Types, PastType
  <2>2. Types'  BY <1>17 DEF ExchangeThread, OpenExchange, EnterExchange, PopRequest,
      ServeRequest, ThreadOnly, ToolInv, Types, PastType
  <2>3. ThreadStands'
    BY <1>17, <2>1 DEF ExchangeThread, OpenExchange, EnterExchange, PopRequest, ServeRequest,
         ThreadOnly, ToolInv, Types, ThreadStands
  <2>4. DiskStands'
    BY <1>17, <2>1 DEF ExchangeThread, OpenExchange, EnterExchange, PopRequest, ServeRequest,
         ThreadOnly, ToolInv, Types, DiskStands
  <2>. QED  BY <2>2, <2>3, <2>4 DEF ToolInv
<1>18. CASE UninstallDriver
  <2>1. tool' = tool /\ past'.late = past.late /\ past'.failed = past.failed
    BY <1>18 DEF UninstallDriver, ToolInv, Types, PastType
  <2>2. Types'  BY <1>18 DEF UninstallDriver, ToolInv, Types, PastType
  <2>3. ThreadStands'
    BY <1>18, <2>1 DEF UninstallDriver, ToolInv, Types, ThreadStands
  <2>4. DiskStands'
    BY <1>18, <2>1 DEF UninstallDriver, ToolInv, Types, DiskStands
  <2>. QED  BY <2>2, <2>3, <2>4 DEF ToolInv
<1>19. CASE CoreMntUnload
  <2>1. tool' = tool /\ past'.late = past.late /\ past'.failed = past.failed
    BY <1>19 DEF CoreMntUnload, ReleaseDisk, Handles, ToolInv, Types, PastType
  <2>2. Types'  BY <1>19 DEF CoreMntUnload, ReleaseDisk, Handles, ToolInv, Types, PastType
  <2>3. ThreadStands'
    BY <1>19, <2>1 DEF CoreMntUnload, ReleaseDisk, Handles, ToolInv, Types, ThreadStands
  <2>4. DiskStands'
    BY <1>19, <2>1 DEF CoreMntUnload, ReleaseDisk, Handles, ToolInv, Types, DiskStands
  <2>. QED  BY <2>2, <2>3, <2>4 DEF ToolInv
<1>20. CASE DispatchIrp
  <2>1. tool' = tool /\ past'.late = past.late /\ past'.failed = past.failed
    BY <1>20 DEF DispatchIrp, Crowd, ToolInv, Types, PastType
  <2>2. Types'
    <3>1. past' = [past EXCEPT !.io = @ + 1] \/ Crowd  BY <1>20 DEF DispatchIrp
    <3>3. past \in PastType  BY DEF ToolInv, Types
    <3>4. ASSUME past' = [past EXCEPT !.io = @ + 1]  PROVE past' \in PastType
      BY ONLY <3>3, <3>4 DEF PastType
    <3>5. ASSUME Crowd  PROVE past' \in PastType
      BY ONLY <3>3, <3>5 DEF Crowd, PastType
    <3>2. past' \in PastType  BY <3>1, <3>4, <3>5
    <3>. QED  BY <1>20, <3>2 DEF DispatchIrp, ToolInv, Types
  <2>3. ThreadStands'
    BY <1>20, <2>1 DEF DispatchIrp, Crowd, ToolInv, Types, ThreadStands
  <2>4. DiskStands'
    BY <1>20, <2>1 DEF DispatchIrp, Crowd, ToolInv, Types, DiskStands
  <2>. QED  BY <2>2, <2>3, <2>4 DEF ToolInv
<1>21. CASE UNCHANGED vars
  <2>1. tool' = tool /\ past'.late = past.late /\ past'.failed = past.failed
    BY <1>21 DEF vars, ToolInv, Types, PastType
  <2>2. Types'  BY <1>21 DEF vars, ToolInv, Types, PastType
  <2>3. ThreadStands'
    BY <1>21, <2>1 DEF vars, ToolInv, Types, ThreadStands
  <2>4. DiskStands'
    BY <1>21, <2>1 DEF vars, ToolInv, Types, DiskStands
  <2>. QED  BY <2>2, <2>3, <2>4 DEF ToolInv
<1>22. CASE MissEvent
  <2>1. tool' = tool /\ past'.late = past.late /\ past'.failed = past.failed
    BY <1>22 DEF MissEvent, ToolInv, Types, PastType
  <2>2. Types'  BY <1>22 DEF MissEvent, ToolInv, Types, PastType
  <2>3. ThreadStands'
    BY <1>22, <2>1 DEF MissEvent, ToolInv, Types, ThreadStands
  <2>4. DiskStands'
    BY <1>22, <2>1 DEF MissEvent, ToolInv, Types, DiskStands
  <2>. QED  BY <2>2, <2>3, <2>4 DEF ToolInv
<1>. QED
  BY <1>1, <1>2, <1>3, <1>4, <1>5, <1>6, <1>7, <1>8, <1>9, <1>10, <1>11,
     <1>12, <1>13, <1>14, <1>15, <1>16, <1>17, <1>18, <1>19, <1>20, <1>21, <1>22 DEF Next, Run, CleanUp

(* The invariant holds in every behaviour.                                 *)
THEOREM ToolAlwaysInv == Spec => []ToolInv
PROOF
<1>1. Init => ToolInv  BY InitInv
<1>2. ToolInv /\ [Next]_vars => ToolInv'  BY StepInv
<1>. QED  BY <1>1, <1>2, PTL DEF Spec

(* The exchange thread works with the control object, the image and the    *)
(* driver library only while all three are there: CleanUp waits for it     *)
(* before it deletes them.  Only a wait that timed out breaks that.        *)
THEOREM ThreadAlwaysHasItsObjects == Spec => []ThreadHasItsObjects
PROOF
<1>1. ToolInv => ThreadHasItsObjects
  BY DEF ToolInv, ThreadStands, ThreadHasItsObjects, Active, Alive, Over
<1>. QED  BY <1>1, ToolAlwaysInv, PTL

(* A tool that ended by itself leaves no disk and no drive letter behind,  *)
(* except for the calls of its clean-up that failed.                       *)
THEOREM AlwaysEndsWithoutDisk == Spec => []EndsWithoutDisk
PROOF
<1>1. ToolInv => EndsWithoutDisk
  BY DEF ToolInv, Types, DiskStands, EndsWithoutDisk, Ending, Excused
<1>. QED  BY <1>1, ToolAlwaysInv, PTL
=============================================================================
