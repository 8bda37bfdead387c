----------------------------- MODULE VendorChannel -----------------------------
(***************************************************************************)
(* The vendor command channel: the SmiDevice library on one side, the      *)
(* simulated controller CDriverImageFile on the other.  A vendor command   *)
(* travels in ordinary sector accesses: five reads of key sectors unlock   *)
(* the device, a write of sector 0x55AA carries the command, one more      *)
(* access of that sector carries its data.  The host ignores the status of *)
(* every access, so the device may not have seen one ("lost"), or the host *)
(* may not have seen the answer ("late").  A user of the disk shares the   *)
(* device whenever the host has not locked it.                             *)
(***************************************************************************)
EXTENDS Integers, Sequences, FiniteSets

CONSTANTS
  Probed,        \* the recognizers in the order of the map, as type names
  Signature,     \* the type the device's 0x55AA answer names
  InfoValid,     \* the flash id says there is an info block
  TabPage,       \* page of the info block with the table Initialize looks for
  SearchEnd,     \* last page it looks at (9 in the code)
  IspPages,      \* room for the ISP, in pages (m_max_isp_len)
  IspLen,        \* m_isp_len, in pages: 0 if there is no isp.bin
  DummyWrites,   \* sectors whose writes the configuration discards
  Retry,         \* VENDER_RETRY
  MaxCommands, MaxLost, MaxUser      \* bounds

Vendor  == "55AA"
KeySeq  == <<"00AA", "AA00", "0055", "5500", Vendor>>
Types   == {"LT2244", "SM2232", "SM2236", "SM2242", "SM2246"}
Shared  == {"data", Vendor} \cup DummyWrites        \* sectors the user works on

ASSUME VendorAssumption ==
  /\ Probed \in Seq(Types) /\ Probed # <<>> /\ Signature \in Types
  /\ InfoValid \in BOOLEAN /\ TabPage \in Nat /\ SearchEnd \in Nat
  /\ IspPages \in Nat /\ IspLen \in 0 .. IspPages
  /\ \A i \in DOMAIN KeySeq : KeySeq[i] \notin DummyWrites
  /\ {Retry, MaxCommands, MaxLost, MaxUser} \subseteq Nat /\ Retry > 0

VARIABLES
  dev,      \* the device: vds, the saved command, run type, isp, sectors
  host,     \* the process that uses the library
  locked,   \* the host holds the volume lock
  user,     \* history: the last value the user wrote to each shared sector
  seen      \* history: what was lost, what the device ran for the present call
vars == <<dev, host, locked, user, seen>>

-----------------------------------------------------------------------------
(* The device.  An access is a record [rw, lba, secs, data].               *)

Read(lba, secs)         == [rw |-> "read",  lba |-> lba, secs |-> secs, data |-> <<"none">>]
WriteTo(lba, secs, val) == [rw |-> "write", lba |-> lba, secs |-> secs, data |-> val]

NoCommand == [op |-> "none", dir |-> "read", secs |-> 1, page |-> 0]
VdsCmd  == 5
VdsData == 6

WriteFlashData(d, c, data) ==
  IF c.page >= IspPages THEN d ELSE [d EXCEPT !.isp[c.page] = data]
\* m_isp_len stays what it was when the device started.
ReadFlashData(d, c) == IF c.page >= IspLen THEN <<"blank">> ELSE <<"isp", d.isp[c.page]>>

\* ProcessVendorCommand: the device after the command, and what a read returns.
Effect(d, c, data) ==
  CASE c.op = "write_isp" -> WriteFlashData(d, c, data)
    [] c.op = "mpisp"     -> [d EXCEPT !.run = "mpisp"]
    [] c.op = "reset"     -> [d EXCEPT !.run = "isp"]
    [] OTHER              -> d
Answer(d, c) ==
  CASE c.op = "fid"      -> <<"fid", d.run>>
    [] c.op = "read_isp" -> ReadFlashData(d, c)
    [] c.op = "info"     -> <<"info", c.page>>
    [] c.op = "identify" -> <<"identify", d.isp[0]>>
    [] OTHER             -> <<c.op>>

\* Mutant: whatever comes after the command counts as its data.
FitsAnyData(d, a) ==
  CASE d.vds < VdsCmd  -> a.rw = "read" /\ a.secs = 1 /\ a.lba = KeySeq[d.vds + 1]
    [] d.vds = VdsCmd  -> a.rw = "write" /\ a.secs = 1 /\ a.lba = Vendor
    [] d.vds = VdsData -> TRUE

\* VendorCmdStatus: does the access fit the status, and the next status.
Fits(d, a) ==
  CASE d.vds < VdsCmd  -> a.rw = "read" /\ a.secs = 1 /\ a.lba = KeySeq[d.vds + 1]
    [] d.vds = VdsCmd  -> a.rw = "write" /\ a.secs = 1 /\ a.lba = Vendor
    [] d.vds = VdsData -> a.lba = Vendor

NextStatus(d, a) == IF Fits(d, a) /\ d.vds < VdsData THEN d.vds + 1 ELSE 0

\* From the fifth key on, an access that fits is not an access of the file.
Swallows(d, a) == d.vds >= VdsCmd - 1 /\ Fits(d, a)
Runs(d, a) == d.vds = VdsData /\ Fits(d, a)

\* A write to the file of the image.
Stored(s, a) == IF a.rw = "write" /\ a.lba \in Shared THEN [s EXCEPT !.sector[a.lba] = a.data] ELSE s

\* Mutant: after the command the data goes to the file as well.
ReceivedAndStored(d, a) ==
  LET s == [d EXCEPT !.vds = NextStatus(d, a)]
  IN  IF Runs(d, a) THEN Stored(Effect(s, d.cmd, a.data), a) ELSE Stored(s, a)

Received(d, a) ==
  LET s == [d EXCEPT !.vds = NextStatus(d, a)]
  IN  IF Runs(d, a) THEN Effect(s, d.cmd, a.data)
      ELSE IF d.vds = VdsCmd /\ Fits(d, a)
        THEN [s EXCEPT !.cmd = IF a.data[1] = "cmd" THEN a.data[2] ELSE NoCommand]
      ELSE Stored(s, a)
Deliver(d, a) == IF a.rw = "write" /\ a.lba \in DummyWrites THEN d ELSE Received(d, a)

Returned(d, a) ==
  IF Runs(d, a) THEN Answer(d, d.cmd)
  ELSE IF Swallows(d, a) THEN <<"signature">>
  ELSE IF a.lba \in Shared THEN <<"sector", d.sector[a.lba]>> ELSE <<"sector">>

-----------------------------------------------------------------------------
(* The host.  pc is "new", "probe" (in a recognizer), "keys", "command" and *)
(* "data" (in VendorCommand), "ready", "absent", "gave_up" (no signature),  *)
(* "failed" (Initialize threw) or "closed".                                *)

FlashId == [NoCommand EXCEPT !.op = "fid"]
Sfr     == [NoCommand EXCEPT !.op = "sfr"]
Info(p, secs) == [NoCommand EXCEPT !.op = "info", !.page = p, !.secs = secs]
Commands ==
  {[NoCommand EXCEPT !.op = o] : o \in {"fid", "identify", "reset"}}
    \cup {[NoCommand EXCEPT !.op = "mpisp", !.dir = "write", !.secs = 2]}
    \cup {[NoCommand EXCEPT !.op = "read_isp", !.page = p, !.secs = 2] : p \in 0 .. IspPages - 1}
    \cup [op : {"write_isp"}, dir : {"write"}, secs : 1 .. 2, page : 0 .. IspPages - 1]

NoHost == [pc |-> "new", probe |-> 1, step |-> 0, match |-> FALSE, type |-> "none", init |-> FALSE, junk |-> FALSE,
           cmd |-> NoCommand, left |-> 0, key |-> <<"junk">>, data |-> <<"zero">>]

\* The next access.  The sixth of a recognizer stops the vendor command.
Access(h) ==
  CASE h.pc \in {"probe", "keys"} -> Read(IF h.step = 6 THEN Vendor ELSE KeySeq[h.step], 1)
    [] h.pc = "command" -> WriteTo(Vendor, 1, <<"cmd", h.cmd>>)
    [] h.pc = "data" -> IF h.cmd.dir = "read" THEN Read(Vendor, h.cmd.secs)
                        ELSE WriteTo(Vendor, h.cmd.secs, <<"host", h.cmd.op>>)

\* VendorCommand begins; the caller cleared its buffer, or left it (data).
Call(h, c, data) ==
  [h EXCEPT !.pc = "keys", !.step = 1, !.cmd = c, !.left = Retry, !.key = <<"junk">>, !.data = data]

\* RecognizeDevice after a recognizer: create and initialize, or the next.
NextProbe(h) ==
  LET type == Probed[h.probe]
      created == [h EXCEPT !.type = type, !.step = 0]
  IN  IF h.match THEN IF type = "SM2246" THEN [created EXCEPT !.pc = "ready"]
                      ELSE Call([created EXCEPT !.init = TRUE], FlashId, <<"zero">>)
      ELSE IF h.probe = Len(Probed) THEN [h EXCEPT !.pc = "absent", !.step = 0]
      ELSE [h EXCEPT !.probe = @ + 1, !.step = 1]

\* Mutant: the last try is not made.
OneTryLess(h) ==
  IF h.key = <<"signature">> /\ h.type = Signature THEN [h EXCEPT !.pc = "command", !.step = 0]
  ELSE IF h.left <= 2 THEN [h EXCEPT !.pc = "gave_up", !.step = 0]
  ELSE [h EXCEPT !.step = 1, !.left = @ - 1]

\* CheckVenderCommand takes the fifth answer, or the keys are sent again.
NextTry(h) ==
  IF h.key = <<"signature">> /\ h.type = Signature THEN [h EXCEPT !.pc = "command", !.step = 0]
  ELSE IF h.left = 1 THEN [h EXCEPT !.pc = "gave_up", !.step = 0]
  ELSE [h EXCEPT !.step = 1, !.left = @ - 1]

\* The buffer holds neither the answer nor the zeros the host put into it.
Junk(h) == h.data[1] \notin {h.cmd.op, "zero"}

\* Fewer chips than the interleave of the info page: a mixture of answers.
CeTooFew(h) == h.init /\ h.type = "LT2244" /\ h.cmd = Info(0, 2) /\ (h.junk \/ Junk(h))
Threw(h) == IF CeTooFew(h) THEN {[h EXCEPT !.pc = "failed", !.step = 0]} ELSE {}

\* Initialize: flash id, SFR, first info page, then the search of the table.
\* An info block is assumed or not from whatever the flash id returned.
Initialize(h, valid) ==
  LET search == h.type \in {"LT2244", "SM2236"}
      found == h.cmd.page > 0 /\ h.data = <<"info", TabPage>>
      ready == [h EXCEPT !.pc = "ready", !.init = FALSE]
  IN  CASE h.cmd.op = "fid" /\ h.type = "SM2232" -> ready
        [] h.cmd.op = "fid" /\ h.type # "SM2232" -> Call([h EXCEPT !.match = valid, !.junk = Junk(h)], Sfr, <<"zero">>)
        [] h.cmd.op = "sfr" -> IF h.match THEN Call(h, Info(0, IF search THEN 2 ELSE 1), <<"zero">>) ELSE ready
        [] h.cmd.op = "info" -> IF search /\ ~found /\ h.cmd.page < SearchEnd
                                THEN Call(h, Info(h.cmd.page + 1, 1), h.data) ELSE ready

\* What the host makes of the flash id: its info flag, the zeros it put into
\* the buffer, or a byte of the sector it read instead.
InfoFlags(h) ==
  CASE h.data[1] = "fid"  -> {InfoValid}
    [] h.data[1] = "zero" -> {FALSE}
    [] OTHER              -> BOOLEAN

Advance(h) ==
  CASE h.pc \in {"probe", "keys"} /\ h.step < 5 -> {[h EXCEPT !.step = @ + 1]}
    [] h.pc = "probe" /\ h.step = 5 ->
         {[h EXCEPT !.step = 6, !.match = h.key = <<"signature">> /\ Probed[h.probe] = Signature]}
    [] h.pc = "probe" /\ h.step = 6 -> {NextProbe(h)}
    [] h.pc = "keys" /\ h.step = 5 -> {NextTry(h)}
    [] h.pc = "command" -> {[h EXCEPT !.pc = "data"]}
    [] h.pc = "data" -> IF h.init THEN {Initialize(h, v) : v \in InfoFlags(h)} \cup Threw(h)
                        ELSE {[h EXCEPT !.pc = "ready"]}

-----------------------------------------------------------------------------
NothingSeen == [lost |-> 0, ran |-> <<>>, clean |-> TRUE, unsent |-> FALSE, swallowed |-> FALSE,
                commands |-> 0, accesses |-> 0]

Init ==
  /\ dev = [vds |-> 0, cmd |-> NoCommand, run |-> IF IspLen > 0 THEN "isp" ELSE "rom",
            isp |-> [p \in 0 .. IspPages - 1 |-> <<"bin">>], sector |-> [s \in Shared |-> <<"user", 0>>]]
  /\ host = NoHost /\ locked = FALSE
  /\ user = [s \in Shared |-> <<"user", 0>>]
  /\ seen = NothingSeen

Open ==
  /\ host.pc = "new"
  /\ host' = [NoHost EXCEPT !.pc = "probe", !.step = 1]
  /\ UNCHANGED <<dev, locked, user, seen>>

\* One access, its answer and the code up to the next access.
HostAccess ==
  /\ host.pc \in {"probe", "keys", "command", "data"}
  /\ \E outcome \in {"ok", "lost", "late"} :
       LET a == Access(host)
           got == IF outcome = "ok" /\ a.rw = "read" THEN Returned(dev, a)
                  ELSE IF host.pc = "data" THEN host.data ELSE host.key
           h == IF host.pc = "data" THEN [host EXCEPT !.data = got] ELSE [host EXCEPT !.key = got]
           delivered == outcome # "lost"
           told == [seen EXCEPT
             !.lost = IF outcome = "ok" THEN @ ELSE @ + 1,
             !.ran = IF delivered /\ Runs(dev, a) THEN Append(@, dev.cmd) ELSE @,
             !.clean = @ /\ ~(host.pc \in {"command", "data"} /\ outcome # "ok"),
             !.unsent = @ \/ (host.pc = "command" /\ ~delivered)]
       IN  /\ outcome # "ok" => seen.lost < MaxLost
           /\ dev' = IF delivered THEN Deliver(dev, a) ELSE dev
           /\ host' \in Advance(h)
           /\ locked' = (locked \/ host.pc # "probe" \/ Probed[host.probe] # "SM2242" \/ host'.pc = "keys")
           /\ seen' = IF host'.pc = "keys" /\ host.pc \in {"probe", "data"}
                      THEN [told EXCEPT !.ran = <<>>, !.clean = TRUE] ELSE told
  /\ UNCHANGED user

\* The application asks for one more vendor command.
StartCommand(c) ==
  /\ host.pc = "ready" /\ host.type # "SM2246" /\ seen.commands < MaxCommands
  /\ host' = Call(host, c, <<"zero">>)
  /\ seen' = [seen EXCEPT !.commands = @ + 1, !.ran = <<>>, !.clean = TRUE]
  /\ UNCHANGED <<dev, locked, user>>

\* The library is closed, or gave up and was unwound: the volume is unlocked.
Close ==
  /\ host.pc \in {"ready", "absent", "gave_up", "failed"}
  /\ host' = [NoHost EXCEPT !.pc = "closed"] /\ locked' = FALSE
  /\ UNCHANGED <<dev, user, seen>>

UserRead(s) ==
  /\ ~locked /\ seen.accesses < MaxUser
  /\ dev' = Deliver(dev, Read(s, 1))
  /\ seen' = [seen EXCEPT !.accesses = @ + 1]
  /\ UNCHANGED <<host, locked, user>>

UserWrite(s) ==
  /\ ~locked /\ seen.accesses < MaxUser
  /\ LET a == WriteTo(s, 1, <<"user", seen.accesses + 1>>)
     IN  /\ dev' = Deliver(dev, a)
         /\ user' = [user EXCEPT ![s] = a.data]
         /\ seen' = [seen EXCEPT !.accesses = @ + 1, !.swallowed = @ \/ Swallows(dev, a)]
  /\ UNCHANGED <<host, locked>>

Next ==
  \/ Open \/ HostAccess \/ Close
  \/ \E c \in Commands : StartCommand(c)
  \/ \E s \in Shared : UserRead(s) \/ UserWrite(s)
Spec == Init /\ [][Next]_vars

-----------------------------------------------------------------------------
(* Properties. *)

\* Every recognizer but that of the SM2242 locks the volume before its first
\* access; the map of the recognizers begins with another one, but a device
\* forced to be an SM2242 is probed with the user let in.
LocksFirst == Probed[1] # "SM2242"

\* The sectors of the user hold what the user wrote.  The one way a vendor
\* command can write to sector 0x55AA is that its command write was lost;
\* the one way a user's write can vanish is a vendor command left half sent,
\* which takes a lost access too, or a probe without the lock.
UserSectorsIntact ==
  /\ \A s \in Shared \ DummyWrites : dev.sector[s] # user[s] => seen.unsent \/ seen.swallowed
  /\ seen.swallowed /\ LocksFirst => seen.lost > 0

\* The host gives a device up only if accesses were lost, one for every two
\* tries at least: a lost access costs its own try and perhaps the next.
GivesUpOnlyAfterLosses ==
  /\ host.pc = "gave_up" => 2 * seen.lost >= Retry
  /\ host.pc = "absent" /\ LocksFirst => seen.lost > 0 \/ \A i \in DOMAIN Probed : Probed[i] # Signature

\* The device runs, during a VendorCommand, nothing but that command, once,
\* and does run it if command and data arrived; it takes five lost accesses
\* before it runs the rest of an earlier command.  (The library opens an
\* SM2246 without a VendorCommand.)
RunsItsCommandOnce ==
  host.pc \in {"keys", "command", "data", "ready"} /\ host.type # "SM2246" /\ seen.lost < 5 =>
    /\ seen.ran \in {<<>>, <<host.cmd>>}
    /\ host.pc = "ready" /\ seen.clean => seen.ran = <<host.cmd>>

\* After the read that stops the vendor command, the device is out of it
\* (the comment in every recognizer says so).
StopEndsVendorMode ==
  (host.pc = "probe" /\ host.step = 1) \/ host.pc = "absent" => dev.vds = 0
=============================================================================
