------------------------------- MODULE MountTool -------------------------------
(***************************************************************************)
(* The life of a disk image: the mounting tool (CCoreMntTestApp), the      *)
(* library under it (CSyncMountManager, CDriverControl with its exchange   *)
(* thread), the user-mode driver it loads, and the driver's entry points.  *)
(* One run of the tool creates, connects and mounts a disk, waits for      *)
(* ctrl+c and takes all of it down again; other runs of it remove a dead   *)
(* device or uninstall the driver.                                         *)
(*                                                                         *)
(* The table of disks and the exchange protocol have modules of their own; *)
(* here the driver keeps at most this one disk, and the disk is its queue. *)
(***************************************************************************)
EXTENDS Integers, Sequences, FiniteSets

CONSTANTS
  Capacity,     \* MAX_IRP_QUEUE
  MaxIo         \* bound: requests of applications

ASSUME ToolAssumption == Capacity \in Nat \ {0} /\ MaxIo \in Nat

VARIABLES
  tool,     \* pc, options and m_status of the tool
  exitEvent,\* m_exit_event: ctrl+c has been pressed
  obj,      \* the CDriverControl: "none", "live" or "deleted"
  refs,     \* who holds a reference to the image
  dll,      \* the user-mode driver is loaded
  thd,      \* where the exchange thread stands
  started,  \* m_thd_event
  letter,   \* the drive letter is defined
  driver,   \* the kernel driver: running, a stop requested, a device left over
  disk,     \* the disk is in the driver's table
  queue,    \* m_irp_queue of the disk: "io" and the "bye" of Disconnect
  asleep,   \* sleep on its m_event: the tool's push, the thread's pop ("tool", "thread")
  other,    \* pc of the run that removes the device
  past      \* history: requests sent, whether a push has found the queue full,
            \* waits that timed out, calls that failed
vars == <<tool, exitEvent, obj, refs, dll, thd, started, letter, driver, disk, queue, asleep,
          other, past>>
userVars == <<exitEvent, obj, refs, dll, thd, started, letter>>
kernelVars == <<driver, disk, queue, asleep>>

ST_INIT == 0
ST_DRV_INSTALLED == 1
ST_DRV_LOADED == 2
ST_DRV_CONNECTED == 3
ST_MOUNTED == 4

Over == {"exited", "aborted"}
Alive == tool.pc \notin Over
Goto(pc) == tool' = [tool EXCEPT !.pc = pc]
Reached(pc, status) == tool' = [tool EXCEPT !.pc = pc, !.status = status]
Failed(call) == past' = [past EXCEPT !.failed = @ \cup {call}]

Init ==
  /\ tool \in [pc : {"install"}, status : {ST_INIT}, install : BOOLEAN, driver : BOOLEAN,
               port : BOOLEAN, connect : BOOLEAN, mount : BOOLEAN]
  /\ exitEvent = FALSE /\ obj = "none" /\ refs = {} /\ dll = FALSE
  /\ thd = "none" /\ started = FALSE /\ letter = FALSE
  /\ driver \in [running : BOOLEAN, stop : {FALSE}, orphan : {FALSE}]
  /\ disk = FALSE /\ queue = <<>> /\ asleep = {}
  /\ other = "idle"
  /\ past = [io |-> 0, crowded |-> FALSE, late |-> FALSE, failed |-> {}]

-----------------------------------------------------------------------------
(* The kernel driver.                                                      *)

\* DriverEntry: a device that gets no symbolic link stays behind, and its
\* name with it.
DriverEntry ==
  \/ /\ ~driver.orphan
     /\ \/ driver' = [driver EXCEPT !.running = TRUE]
        \/ driver' = [driver EXCEPT !.orphan = TRUE]
  \/ UNCHANGED driver

\* push and pop wake one thread that sleeps on m_event, of those that want
\* room and those that want a request.  While every request outstanding has
\* a slot it is the right one (IrpQueue!StoredIsPopped); once a push has
\* found the queue full, any of them may be left asleep.
SetEvent == \E t \in asleep \cup {"io"} : asleep' = asleep \ {t}
Crowd == past' = [past EXCEPT !.crowded = TRUE]

\* Release of the disk pops what waits in its queue.
ReleaseDisk == disk' = FALSE /\ queue' = <<>> /\ asleep' \in SUBSET asleep

\* Handles to the control device: of CDriverControl, of its exchange thread
\* (thd), and of the run that removes the device.
Handles == obj = "live" \/ thd \in {"call", "pop", "image"} \/ other \in {"opened", "sent"}

CoreMntUnload ==
  /\ driver.running /\ driver.stop /\ ~Handles
  /\ ReleaseDisk
  /\ driver' = [driver EXCEPT !.running = FALSE, !.stop = FALSE]
  /\ UNCHANGED <<tool, other, past, userVars>>

\* UninstallDriver: the service is told to stop.
UninstallDriver ==
  /\ driver.running /\ ~driver.stop
  /\ driver' = [driver EXCEPT !.stop = TRUE]
  /\ UNCHANGED <<tool, disk, queue, asleep, other, past, userVars>>

CanOpen == driver.running /\ ~driver.stop

\* A request of an application to the disk; its push waits for room.
DispatchIrp ==
  /\ disk /\ past.io < MaxIo
  /\ \/ /\ Len(queue) < Capacity
        /\ queue' = Append(queue, "io") /\ SetEvent
        /\ past' = [past EXCEPT !.io = @ + 1]
     \/ Len(queue) = Capacity /\ Crowd /\ UNCHANGED <<queue, asleep>>
  /\ UNCHANGED <<tool, driver, disk, other, userVars>>

\* The event the thread waits for went to a push that waits for room.
MissEvent ==
  /\ past.crowded /\ thd = "pop"
  /\ asleep' = asleep \cup {"thread"}
  /\ UNCHANGED <<tool, driver, disk, queue, other, past, userVars>>

-----------------------------------------------------------------------------
(* The exchange thread, CDriverControl::Run.                               *)

ThreadOnly == UNCHANGED <<tool, exitEvent, obj, refs, dll, letter, driver, disk, other, past>>

OpenExchange ==
  /\ thd = "starting"
  /\ \/ CanOpen /\ thd' = "call" /\ started' = TRUE
     \/ thd' = "ended" /\ UNCHANGED started
  /\ ThreadOnly /\ UNCHANGED <<queue, asleep>>

\* DeviceIoControl finds the disk, or the exchange fails and the thread ends.
EnterExchange ==
  /\ thd = "call"
  /\ thd' = IF disk THEN "pop" ELSE "ended"
  /\ ThreadOnly /\ UNCHANGED <<started, queue, asleep>>

\* pop returns a request; that of Disconnect ends the thread.  A thread
\* whose process is gone does not come back to user mode.
PopRequest ==
  /\ thd = "pop" /\ queue # <<>> /\ "thread" \notin asleep
  /\ queue' = Tail(queue) /\ SetEvent
  /\ thd' = IF Head(queue) = "bye" \/ ~Alive THEN "ended" ELSE "image"
  /\ ThreadOnly /\ UNCHANGED started

\* The image serves the request, or throws.
ServeRequest ==
  /\ thd = "image"
  /\ thd' \in {"call", "ended"}
  /\ ThreadOnly /\ UNCHANGED <<started, queue, asleep>>

ExchangeThread == OpenExchange \/ EnterExchange \/ PopRequest \/ ServeRequest

-----------------------------------------------------------------------------
(* CCoreMntTestApp::Run.  An exception releases Run's own reference to the *)
(* image and goes to CleanUp with the status reached so far.               *)

Throw(call) ==
  /\ refs' = refs \ {"run"}
  /\ Goto("unmount") /\ Failed(call)

InstallDriver ==
  /\ tool.pc = "install"
  /\ IF ~tool.install THEN Goto("load") /\ UNCHANGED <<refs, driver, past>>
     ELSE \/ /\ CanOpen
             /\ Reached("load", ST_DRV_INSTALLED) /\ UNCHANGED <<refs, driver, past>>
          \/ /\ ~driver.running /\ DriverEntry
             /\ IF driver'.running THEN Reached("load", ST_DRV_INSTALLED) /\ UNCHANGED <<refs, past>>
                ELSE Throw("install")
          \/ Throw("install") /\ UNCHANGED driver
  /\ UNCHANGED <<exitEvent, obj, dll, thd, started, letter, disk, queue, asleep, other>>

\* No driver named: nothing more to do.  A failure may come before or after
\* LoadLibrary.
LoadUserModeDriver ==
  /\ tool.pc = "load"
  /\ \/ ~tool.driver /\ Goto("unmount") /\ UNCHANGED <<refs, dll, past>>
     \/ /\ tool.driver
        /\ Reached("create", ST_DRV_LOADED)
        /\ dll' = TRUE /\ refs' = {"run"} \cup IF tool.port THEN {"port"} ELSE {}
        /\ UNCHANGED past
     \/ tool.driver /\ dll' \in BOOLEAN /\ Throw("load")
  /\ UNCHANGED <<exitEvent, obj, thd, started, letter, kernelVars, other>>

\* CDriverControl::CDriverControl mounts the disk in the driver.
CreateDevice ==
  /\ tool.pc = "create"
  /\ \/ CanOpen /\ obj' = "live" /\ disk' = TRUE /\ Goto("connect") /\ UNCHANGED <<refs, past>>
     \/ Throw("create") /\ UNCHANGED <<obj, disk>>
  /\ UNCHANGED <<exitEvent, dll, thd, started, letter, driver, queue, asleep, other>>

Connect ==
  /\ tool.pc = "connect"
  /\ \/ ~tool.connect /\ Goto("mount") /\ UNCHANGED <<refs, thd, past>>
     \/ tool.connect /\ refs' = refs \cup {"drv"} /\ thd' = "starting" /\ Goto("started") /\ UNCHANGED past
     \/ /\ tool.connect /\ refs' = (refs \cup {"drv"}) \ {"run"}
        /\ Goto("unmount") /\ Failed("thread") /\ UNCHANGED thd
  /\ UNCHANGED <<exitEvent, obj, dll, started, letter, kernelVars, other>>

\* Mutant: the status is not raised.
WaitStartedKeepsStatus ==
  /\ tool.pc = "started"
  /\ \/ started /\ started' = FALSE /\ Goto("mount") /\ UNCHANGED <<refs, past>>
     \/ ~started /\ refs' = refs \ {"run"} /\ Goto("unmount") /\ past' = [past EXCEPT !.late = TRUE] /\ UNCHANGED started
  /\ UNCHANGED <<exitEvent, obj, dll, thd, letter, kernelVars, other>>

\* The thread reports that it runs, within ten seconds or not.
WaitStarted ==
  /\ tool.pc = "started"
  /\ \/ started /\ started' = FALSE /\ Reached("mount", ST_DRV_CONNECTED) /\ UNCHANGED <<refs, past>>
     \/ ~started /\ refs' = refs \ {"run"} /\ Goto("unmount") /\ past' = [past EXCEPT !.late = TRUE] /\ UNCHANGED started
  /\ UNCHANGED <<exitEvent, obj, dll, thd, letter, kernelVars, other>>

Mount ==
  /\ tool.pc = "mount"
  /\ \/ ~tool.mount /\ Goto("wait") /\ UNCHANGED <<refs, letter, past>>
     \/ tool.mount /\ letter' = TRUE /\ Reached("wait", ST_MOUNTED) /\ UNCHANGED <<refs, past>>
     \/ tool.mount /\ Throw("define") /\ UNCHANGED letter
  /\ UNCHANGED <<exitEvent, obj, dll, thd, started, kernelVars, other>>

\* HandlerRoutine; the event remembers a press until somebody waits.
CtrlC ==
  /\ Alive /\ ~exitEvent
  /\ exitEvent' = TRUE
  /\ UNCHANGED <<tool, obj, refs, dll, thd, started, letter, kernelVars, other, past>>

WaitExit ==
  /\ tool.pc = "wait"
  /\ IF tool.status >= ST_DRV_CONNECTED THEN exitEvent /\ exitEvent' = FALSE ELSE UNCHANGED exitEvent
  /\ refs' = refs \ {"run"} /\ Goto("unmount")
  /\ UNCHANGED <<obj, dll, thd, started, letter, kernelVars, other, past>>

-----------------------------------------------------------------------------
(* CCoreMntTestApp::CleanUp, outside the handler of exceptions: one that   *)
(* is thrown here ends the process.                                        *)

\* At the end of a process its handles are closed and its threads die, but
\* for one that sleeps in the driver.
EndProcess(pc) ==
  /\ Goto(pc)
  /\ obj' = IF obj = "none" THEN "none" ELSE "deleted"
  /\ refs' = {} /\ dll' = FALSE
  /\ thd' = IF thd \in {"none", "pop"} THEN thd ELSE "ended"

\* A failure to take the letter away is logged.
UnmountImage ==
  /\ tool.pc = "unmount"
  /\ IF tool.status < ST_MOUNTED THEN Goto("disconnect") /\ UNCHANGED <<letter, past>>
     ELSE /\ Reached("disconnect", ST_DRV_CONNECTED)
          /\ \/ letter' = FALSE /\ UNCHANGED past
             \/ Failed("undefine") /\ UNCHANGED letter
  /\ UNCHANGED <<exitEvent, obj, refs, dll, thd, started, kernelVars, other>>

\* CDriverControl::Disconnect: the request goes through the queue of the
\* disk, and sleeps while that is full.
Disconnect ==
  /\ tool.pc = "disconnect"
  /\ \/ /\ tool.status < ST_DRV_CONNECTED
        /\ Goto("unload") /\ UNCHANGED <<obj, refs, dll, thd, queue, asleep, past>>
     \/ /\ tool.status >= ST_DRV_CONNECTED /\ disk /\ "tool" \notin asleep
        /\ \/ /\ Len(queue) < Capacity
              /\ queue' = Append(queue, "bye") /\ SetEvent /\ Goto("join") /\ UNCHANGED past
           \/ /\ Len(queue) = Capacity
              /\ asleep' = asleep \cup {"tool"} /\ Crowd /\ UNCHANGED <<tool, queue>>
        /\ UNCHANGED <<obj, refs, dll, thd>>
     \/ /\ tool.status >= ST_DRV_CONNECTED /\ ~disk /\ "tool" \notin asleep
        /\ EndProcess("aborted") /\ Failed("disconnect") /\ UNCHANGED <<queue, asleep>>
  /\ UNCHANGED <<exitEvent, started, letter, driver, disk, other>>

\* Mutants: the thread is not waited for, or without a limit.
JoinNothing ==
  /\ tool.pc = "join"
  /\ Goto("delete") /\ UNCHANGED past
  /\ UNCHANGED <<userVars, kernelVars, other>>
JoinForever ==
  /\ tool.pc = "join" /\ thd \in {"none", "ended"}
  /\ Goto("delete") /\ UNCHANGED past
  /\ UNCHANGED <<userVars, kernelVars, other>>

\* It waits for the thread, if there is one, for a minute.
Join ==
  /\ tool.pc = "join"
  /\ Goto("delete")
  /\ past' = [past EXCEPT !.late = @ \/ thd \notin {"none", "ended"}]
  /\ UNCHANGED <<userVars, kernelVars, other>>

\* CDriverControl::~CDriverControl unmounts the disk; a failure is logged.
DeleteControl ==
  /\ tool.pc = "delete"
  /\ ReleaseDisk
  /\ obj' = "deleted" /\ refs' = refs \ {"drv"}
  /\ Reached("unload", ST_DRV_LOADED)
  /\ UNCHANGED <<exitEvent, dll, thd, started, letter, driver, other, past>>

UnloadDriver ==
  /\ tool.pc = "unload"
  /\ IF tool.status >= ST_DRV_LOADED THEN dll' = FALSE /\ Reached("exit", ST_DRV_INSTALLED)
     ELSE Goto("exit") /\ UNCHANGED dll
  /\ UNCHANGED <<exitEvent, obj, refs, thd, started, letter, kernelVars, other, past>>

Exit ==
  /\ tool.pc = "exit"
  /\ EndProcess("exited")
  /\ UNCHANGED <<exitEvent, started, letter, kernelVars, other, past>>

\* The console window is closed or the process is killed; it does not end
\* while its own push sleeps in the driver.
Killed ==
  /\ Alive /\ "tool" \notin asleep
  /\ EndProcess("aborted") /\ Failed("killed")
  /\ UNCHANGED <<exitEvent, started, letter, kernelVars, other>>

-----------------------------------------------------------------------------
(* The tool with the option "remove dead device", in a process of its own. *)

RemoveOpen ==
  /\ other = "idle" /\ CanOpen
  /\ other' = "opened"
  /\ UNCHANGED <<tool, userVars, kernelVars, past>>

RemoveDisconnect ==
  /\ other = "opened"
  /\ \/ /\ disk /\ Len(queue) < Capacity
        /\ queue' = Append(queue, "bye") /\ SetEvent /\ other' = "sent" /\ UNCHANGED past
     \/ disk /\ Len(queue) = Capacity /\ Crowd /\ UNCHANGED <<queue, asleep, other>>
     \/ ~disk /\ other' = "failed" /\ UNCHANGED <<queue, asleep, past>>
  /\ UNCHANGED <<tool, userVars, driver, disk>>

\* It has no thread to wait for.
RemoveUnmount ==
  /\ other = "sent"
  /\ ReleaseDisk /\ other' = "done"
  /\ UNCHANGED <<tool, userVars, driver, past>>

-----------------------------------------------------------------------------
Run == InstallDriver \/ LoadUserModeDriver \/ CreateDevice \/ Connect \/ WaitStarted \/ Mount \/ WaitExit
CleanUp == UnmountImage \/ Disconnect \/ Join \/ DeleteControl \/ UnloadDriver \/ Exit
Remove == RemoveOpen \/ RemoveDisconnect \/ RemoveUnmount
Next ==
  \/ Run \/ CleanUp \/ CtrlC \/ Killed \/ Remove
  \/ ExchangeThread \/ DispatchIrp \/ MissEvent \/ UninstallDriver \/ CoreMntUnload

\* The tool and the exchange thread go on; nobody has to press ctrl+c.
Spec == Init /\ [][Next]_vars /\ WF_vars(Run \/ CleanUp) /\ WF_vars(ExchangeThread)

-----------------------------------------------------------------------------
(* Properties. *)

\* Unless a wait has timed out, the exchange thread works only with what is
\* there: the CDriverControl whose members it reads, the image and the
\* library with its code, and (but for a device removed under it) the disk.
ThreadHasItsObjects ==
  ~past.late =>
    /\ thd \in {"starting", "call", "image"} => obj = "live"
    /\ thd = "image" => refs # {} /\ dll
    /\ thd = "pop" /\ other # "done" => disk

\* When the tool has ended by itself, a disk it had connected is gone and so
\* is the drive letter, unless taking it away failed.
EndsWithoutDisk ==
  tool.pc = "exited" =>
    /\ disk => (~tool.connect /\ ~letter) \/ past.late \/ "thread" \in past.failed
    /\ letter => "undefine" \in past.failed

\* Ctrl+c ends a tool that waits for it, unless its request to disconnect
\* finds the queue full and sleeps while nobody empties the queue: the
\* exchange thread is gone, or sleeps too, on the same event.
SleepsForGood ==
  /\ tool.pc = "disconnect" /\ "tool" \in asleep
  /\ \/ thd \in {"none", "ended"}
     \/ thd = "pop" /\ (queue = <<>> \/ "thread" \in asleep)
CtrlCEnds == tool.pc = "wait" /\ exitEvent ~> tool.pc \in Over \/ SleepsForGood
=============================================================================
