------------------------ MODULE VendorChannelProofs ------------------------
(***************************************************************************)
(* Theorems about VendorChannel, for every list of recognizers, every kind *)
(* of device and every number of lost accesses: what happens to the user's *)
(* sectors, and when the host gives a device up.                           *)
(***************************************************************************)
EXTENDS VendorChannel, TLAPS

DevFields  == {"vds", "cmd", "run", "isp", "sector"}
HostFields == {"pc", "probe", "step", "match", "type", "init", "junk", "cmd", "left", "key", "data"}
SeenFields == {"lost", "ran", "clean", "unsent", "swallowed", "commands", "accesses"}

Signed == <<"signature">>

(* What is used of the device's fields; no command is called "signature".  *)
DevOK(d) ==
  /\ DOMAIN d = DevFields /\ DOMAIN d.sector = Shared
  /\ d.vds \in 0 .. 6 /\ d.cmd.op # "signature"

(* What is used of the host's: in a probe and in VendorCommand it knows    *)
(* which step it is at, VendorCommand works for a recognized device, and   *)
(* Initialize asks for the flash id, the SFR and info pages.               *)
Asked == {"fid", "sfr", "info"}
Mine == {"keys", "command", "data"}
HostOK(h) ==
  /\ DOMAIN h = HostFields /\ h.cmd.op # "signature"
  /\ h.pc = "probe" => h.step \in 1 .. 6 /\ h.probe \in 1 .. Len(Probed)
  /\ h.pc = "probe" /\ h.step = 6 /\ h.match => Probed[h.probe] = Signature
  /\ h.pc = "keys" => h.step \in 1 .. 5 /\ h.left \in 1 .. Retry
  /\ h.pc \in Mine \cup {"ready"} => h.type = Signature
  /\ h.pc \in Mine /\ h.init => h.cmd.op \in Asked
  /\ h.pc = "ready" /\ h.type # "SM2246" => ~h.init

Fields ==
  /\ DevOK(dev) /\ HostOK(host)
  /\ DOMAIN user = Shared /\ DOMAIN seen = SeenFields /\ seen.lost \in Nat

(* VendorCommand has the volume, and the fifth answer it believes is the   *)
(* device's answer to it.                                                  *)
Locks ==
  /\ host.pc \in Mine => host.type # "SM2246"
  /\ host.pc \in Mine \cup {"ready"} /\ host.type # "SM2246" => locked
InStep ==
  /\ host.pc = "keys" => host.key # Signed
  /\ host.pc = "command" => dev.vds = VdsCmd
  /\ host.pc = "data" /\ ~seen.unsent => dev.vds = VdsData
Intact ==
  \A s \in Shared \ DummyWrites : dev.sector[s] # user[s] => seen.unsent \/ seen.swallowed

(* Where the device stands as long as nothing has been lost.               *)
NoLoss ==
  seen.lost = 0 =>
    /\ ~seen.unsent
    /\ host.pc = "probe" /\ host.step = 6 /\ host.match => dev.vds \in {0, 5, 6}
    /\ host.pc = "ready" /\ host.type # "SM2246" => dev.vds = 0

(* What the tries made so far have cost.  A try that starts with the       *)
(* device at another status puts it back to the first key.                 *)
Paid == 2 * seen.lost - (Retry - host.left)
Tries ==
  /\ host.pc = "keys" =>
       \/ dev.vds = host.step - 1 /\ Paid >= 0
       \/ (dev.vds = 0 \/ host.step = 1) /\ Paid >= 1
       \/ Paid >= 2
  /\ host.pc = "gave_up" => 2 * seen.lost >= Retry

(* A host that locks first and loses nothing goes through the keys alone.  *)
Alone ==
  LocksFirst /\ seen.lost = 0 =>
    /\ ~seen.swallowed
    /\ IF host.pc = "probe"
       THEN /\ dev.vds = host.step - 1 /\ (host.step = 1 \/ locked)
            /\ host.step = 1 => host.probe = 1 \/ locked
            /\ \A i \in 1 .. host.probe - 1 : Probed[i] # Signature
            /\ host.step = 6 /\ ~host.match => Probed[host.probe] # Signature
       ELSE host.pc \notin Mine => dev.vds = 0
    /\ host.pc = "absent" => \A i \in DOMAIN Probed : Probed[i] # Signature

ChannelInv == Fields /\ Locks /\ InStep /\ Intact /\ NoLoss /\ Tries /\ Alone
-----------------------------------------------------------------------------
(* The keys are five different sectors, and only the last is the user's.   *)
LEMMA Keys ==
  /\ DOMAIN KeySeq = 1 .. 5 /\ KeySeq[5] = Vendor
  /\ \A i \in 1 .. 4 : KeySeq[i] # Vendor /\ KeySeq[i] \notin Shared
  /\ \A i, j \in 1 .. 5 : i # j => KeySeq[i] # KeySeq[j]
PROOF
<1>1. /\ KeySeq[1] = "00AA" /\ KeySeq[2] = "AA00" /\ KeySeq[3] = "0055" /\ KeySeq[4] = "5500"
      /\ KeySeq[5] = Vendor /\ Vendor = "55AA" /\ DOMAIN KeySeq = 1 .. 5
  BY DEF KeySeq, Vendor
<1>2. \A i \in 1 .. 5 : i = 1 \/ i = 2 \/ i = 3 \/ i = 4 \/ i = 5
  OBVIOUS
<1>3. \A i, j \in 1 .. 5 : i # j => KeySeq[i] # KeySeq[j]
  BY <1>1, <1>2
<1>4. \A i \in 1 .. 4 : KeySeq[i] # Vendor /\ KeySeq[i] # "data" /\ KeySeq[i] \notin DummyWrites
  BY <1>1, <1>2, VendorAssumption
<1>. QED  BY <1>1, <1>3, <1>4 DEF Shared

(* Sector 0x55AA is a sector of the user that no configuration discards.   *)
LEMMA VendorShared == Vendor \in Shared \ DummyWrites /\ Shared \ DummyWrites \subseteq Shared
  BY Keys, VendorAssumption DEF Shared

(* A command that arrives in a write is one the library knows.             *)
Sane(a) == a.data[1] = "cmd" => a.data[2].op # "signature"

(* Which accesses fit the device's status.                                 *)
LEMMA FitsIs ==
  ASSUME NEW d, DevOK(d), NEW a
  PROVE  Fits(d, a) <=> \/ d.vds \in 0 .. 4 /\ a.rw = "read" /\ a.secs = 1 /\ a.lba = KeySeq[d.vds + 1]
                        \/ d.vds = 5 /\ a.rw = "write" /\ a.secs = 1 /\ a.lba = Vendor
                        \/ d.vds = 6 /\ a.lba = Vendor
PROOF
<1>. USE DEF VdsCmd, VdsData
<1>1. d.vds \in 0 .. 6  BY DEF DevOK
<1>2. CASE d.vds \in 0 .. 4
  <2>1. d.vds < 5 /\ d.vds # 5 /\ d.vds # 6  BY <1>2
  <2>2. Fits(d, a) <=> a.rw = "read" /\ a.secs = 1 /\ a.lba = KeySeq[d.vds + 1]
    <3>. DEFINE K == a.rw = "read" /\ a.secs = 1 /\ a.lba = KeySeq[d.vds + 1]
    <3>1. CASE K  BY <2>1, <3>1 DEF Fits
    <3>2. CASE ~K  BY <2>1, <3>2 DEF Fits
    <3>. QED  BY <3>1, <3>2
  <2>. QED  BY <1>2, <2>1, <2>2
<1>3. CASE d.vds = 5  BY <1>3 DEF Fits
<1>4. CASE d.vds = 6  BY <1>4 DEF Fits
<1>. QED  BY <1>1, <1>2, <1>3, <1>4

(* What an access does to the device.                                      *)
LEMMA ReceivedOK ==
  ASSUME NEW d, DevOK(d), NEW a, Sane(a), NEW e, e = Received(d, a)
  PROVE  /\ DevOK(e) /\ e.vds = NextStatus(d, a)
         /\ IF a.rw = "write" /\ a.lba \in Shared /\ ~Swallows(d, a)
            THEN e.sector = [d.sector EXCEPT ![a.lba] = a.data]
            ELSE e.sector = d.sector
PROOF
<1> DEFINE s == [d EXCEPT !.vds = NextStatus(d, a)]
<1>0. NextStatus(d, a) \in 0 .. 6  BY DEF NextStatus, DevOK, VdsData
<1>1. DevOK(s) /\ s.vds = NextStatus(d, a) /\ s.sector = d.sector  BY <1>0 DEF DevOK, DevFields
<1>. HIDE DEF s
<1>2. e = IF Runs(d, a) THEN Effect(s, d.cmd, a.data)
          ELSE IF d.vds = VdsCmd /\ Fits(d, a)
            THEN [s EXCEPT !.cmd = IF a.data[1] = "cmd" THEN a.data[2] ELSE NoCommand]
          ELSE Stored(s, a)
  BY DEF Received, s
<1>3. CASE Runs(d, a)
  <2>1. e = Effect(s, d.cmd, a.data) /\ Swallows(d, a)
    BY <1>2, <1>3 DEF Runs, Swallows, VdsData, VdsCmd
  <2>2. DOMAIN e = DOMAIN s /\ e.vds = s.vds /\ e.cmd = s.cmd /\ e.sector = s.sector
    BY <1>1, <2>1 DEF Effect, WriteFlashData, DevOK, DevFields
  <2>. QED  BY <1>1, <2>1, <2>2 DEF DevOK
<1>4. CASE ~Runs(d, a) /\ d.vds = VdsCmd /\ Fits(d, a)
  <2>1. e = [s EXCEPT !.cmd = IF a.data[1] = "cmd" THEN a.data[2] ELSE NoCommand]  BY <1>2, <1>4
  <2>2. Swallows(d, a)  BY <1>4 DEF Swallows, VdsCmd
  <2>3. e.cmd.op # "signature"  BY <1>1, <2>1 DEF Sane, NoCommand, DevOK, DevFields
  <2>4. DOMAIN e = DOMAIN s /\ e.vds = s.vds /\ e.sector = s.sector
    BY <1>1, <2>1 DEF DevOK, DevFields
  <2>. QED  BY <1>1, <2>2, <2>3, <2>4 DEF DevOK
<1>5. CASE ~Runs(d, a) /\ ~(d.vds = VdsCmd /\ Fits(d, a))
  <2>1. e = Stored(s, a)  BY <1>2, <1>5
  <2>2. CASE Swallows(d, a)
    <3>1. d.vds = 4 /\ a.rw = "read"  BY <1>5, <2>2, FitsIs DEF Swallows, Runs, VdsCmd, VdsData
    <3>. QED  BY <1>1, <2>1, <2>2, <3>1 DEF Stored
  <2>3. CASE ~Swallows(d, a)
    <3>1. CASE a.rw = "write" /\ a.lba \in Shared
      <4>1. e = [s EXCEPT !.sector = [s.sector EXCEPT ![a.lba] = a.data]]  BY <2>1, <3>1 DEF Stored
      <4>2. DOMAIN e = DOMAIN s /\ e.vds = s.vds /\ e.cmd = s.cmd
            /\ e.sector = [s.sector EXCEPT ![a.lba] = a.data]
        BY <1>1, <4>1 DEF DevOK, DevFields
      <4>. QED  BY <1>1, <2>3, <3>1, <4>2 DEF DevOK
    <3>2. CASE ~(a.rw = "write" /\ a.lba \in Shared)  BY <1>1, <2>1, <3>2 DEF Stored
    <3>. QED  BY <3>1, <3>2
  <2>. QED  BY <2>2, <2>3
<1>. QED  BY <1>3, <1>4, <1>5

(* What a read returns is the signature only when it is the fifth key.     *)
LEMMA SignatureIsFifthKey ==
  ASSUME NEW d, DevOK(d), NEW lba, NEW secs, Returned(d, Read(lba, secs)) = Signed
  PROVE  d.vds = 4 /\ lba = Vendor /\ NextStatus(d, Read(lba, secs)) = 5
PROOF
<1> DEFINE a == Read(lba, secs)
<1>1. a.rw = "read" /\ a.lba = lba  BY DEF Read
<1>2. CASE Runs(d, a)
  <2>1. Returned(d, a) = Answer(d, d.cmd)  BY <1>2 DEF Returned
  <2>2. Answer(d, d.cmd) # Signed  BY DEF Answer, ReadFlashData, Signed, DevOK
  <2>. QED  BY <2>1, <2>2
<1>3. CASE ~Runs(d, a)
  <2>1. Swallows(d, a)  BY <1>3 DEF Returned, Signed
  <2>2. d.vds = 4 /\ Fits(d, a)
    BY <1>1, <1>3, <2>1, FitsIs DEF Swallows, Runs, VdsCmd, VdsData
  <2>3. KeySeq[d.vds + 1] = KeySeq[5]  BY <2>2
  <2>. QED  BY <1>1, <2>2, <2>3, Keys DEF Fits, NextStatus, VdsCmd, VdsData
<1>. QED  BY <1>2, <1>3
-----------------------------------------------------------------------------
(* The device starts before the first key, with the user's sectors.        *)
LEMMA InitInv == Init => ChannelInv
PROOF
<1> SUFFICES ASSUME Init  PROVE ChannelInv
  OBVIOUS
<1>1. DevOK(dev) /\ dev.vds = 0 /\ dev.sector = user /\ DOMAIN user = Shared
  BY DEF Init, DevOK, DevFields, NoCommand
<1>2. DOMAIN seen = SeenFields /\ seen.lost = 0 /\ ~seen.unsent /\ ~seen.swallowed
  BY DEF Init, NothingSeen, SeenFields
<1>3. HostOK(host) /\ host.pc = "new"  BY DEF Init, NoHost, NoCommand, HostOK, HostFields, Mine
<1>4. Fields /\ Locks /\ InStep  BY <1>1, <1>2, <1>3 DEF Fields, Locks, InStep, Mine
<1>5. Intact /\ NoLoss  BY <1>1, <1>2, <1>3 DEF Intact, NoLoss
<1>6. Tries /\ Alone  BY <1>1, <1>2, <1>3 DEF Tries, Alone
<1>. QED  BY <1>4, <1>5, <1>6 DEF ChannelInv

(* The library is opened, or closed: the device stands where it stood.     *)
LEMMA OpenInv == ChannelInv /\ Open => ChannelInv'
PROOF
<1> SUFFICES ASSUME ChannelInv, Open  PROVE ChannelInv'
  OBVIOUS
<1>1. host.pc = "new" /\ UNCHANGED <<dev, locked, user, seen>>  BY DEF Open
<1>2. host' = [NoHost EXCEPT !.pc = "probe", !.step = 1]  BY DEF Open
<1>3. /\ DOMAIN host' = HostFields /\ host'.cmd.op # "signature" /\ host'.pc = "probe"
      /\ host'.step = 1 /\ host'.probe = 1
  BY <1>2 DEF NoHost, NoCommand, HostFields
<1>4. HostOK(host')  BY <1>3, VendorAssumption DEF HostOK, Mine
<1>5. Fields'  BY <1>1, <1>4 DEF ChannelInv, Fields
<1>6. Locks' /\ InStep' /\ Intact'  BY <1>1, <1>3 DEF ChannelInv, Locks, InStep, Intact, Mine
<1>7. NoLoss' /\ Tries'  BY <1>1, <1>3 DEF ChannelInv, NoLoss, Tries
<1>8. Alone'  BY <1>1, <1>3 DEF ChannelInv, Alone, Mine
<1>. QED  BY <1>5, <1>6, <1>7, <1>8 DEF ChannelInv

(* Closing the library, or unwinding it, gives the volume back.            *)
LEMMA CloseInv == ChannelInv /\ Close => ChannelInv'
PROOF
<1> SUFFICES ASSUME ChannelInv, Close  PROVE ChannelInv'
  OBVIOUS
<1>1. host.pc \in {"ready", "absent", "gave_up", "failed"} /\ UNCHANGED <<dev, user, seen>>
  BY DEF Close
<1>2. host' = [NoHost EXCEPT !.pc = "closed"]  BY DEF Close
<1>3. DOMAIN host' = HostFields /\ host'.cmd.op # "signature" /\ host'.pc = "closed"
  BY <1>2 DEF NoHost, NoCommand, HostFields
<1>4. HostOK(host')  BY <1>3 DEF HostOK, Mine
<1>5. Fields'  BY <1>1, <1>4 DEF ChannelInv, Fields
<1>6. Locks' /\ InStep' /\ Intact'  BY <1>1, <1>3 DEF ChannelInv, Locks, InStep, Intact, Mine
<1>7. NoLoss' /\ Tries'  BY <1>1, <1>3 DEF ChannelInv, NoLoss, Tries
<1>8. Alone'  BY <1>1, <1>3 DEF ChannelInv, Alone, Mine
<1>. QED  BY <1>5, <1>6, <1>7, <1>8 DEF ChannelInv

(* The beginning of VendorCommand.                                         *)
LEMMA CallIs ==
  ASSUME NEW h, DOMAIN h = HostFields, NEW c, NEW data, NEW g, g = Call(h, c, data)
  PROVE  /\ DOMAIN g = HostFields /\ g.pc = "keys" /\ g.step = 1 /\ g.cmd = c
         /\ g.left = Retry /\ g.key # Signed /\ g.type = h.type /\ (g.init <=> h.init)
PROOF
<1>1. <<"junk">> # Signed  BY DEF Signed
<1>. QED  BY <1>1 DEF Call, HostFields

(* The application's command begins with the first key, as the device does *)
(* if nothing was lost.                                                    *)
LEMMA StartInv == ASSUME NEW c \in Commands, ChannelInv, StartCommand(c)  PROVE ChannelInv'
PROOF
<1>1. /\ host.pc = "ready" /\ host.type # "SM2246" /\ UNCHANGED <<dev, locked, user>>
      /\ host' = Call(host, c, <<"zero">>)
  BY DEF StartCommand
<1>2. c.op # "signature"
  <2>1. CASE c \in {[NoCommand EXCEPT !.op = o] : o \in {"fid", "identify", "reset"}}
    BY <2>1 DEF NoCommand
  <2>2. CASE c \in {[NoCommand EXCEPT !.op = "mpisp", !.dir = "write", !.secs = 2]}
    BY <2>2 DEF NoCommand
  <2>3. CASE c \in {[NoCommand EXCEPT !.op = "read_isp", !.page = p, !.secs = 2] : p \in 0 .. IspPages - 1}
    BY <2>3 DEF NoCommand
  <2>4. CASE c \in [op : {"write_isp"}, dir : {"write"}, secs : 1 .. 2, page : 0 .. IspPages - 1]
    BY <2>4
  <2>. QED  BY <2>1, <2>2, <2>3, <2>4 DEF Commands
<1>3. /\ DOMAIN host' = HostFields /\ host'.pc = "keys" /\ host'.step = 1 /\ host'.cmd = c
      /\ host'.left = Retry /\ host'.key # Signed /\ host'.type = host.type
      /\ (host'.init <=> host.init)
  BY <1>1, CallIs DEF ChannelInv, Fields, HostOK
<1>4. /\ DOMAIN seen' = SeenFields /\ seen'.lost = seen.lost /\ seen'.unsent = seen.unsent
      /\ seen'.swallowed = seen.swallowed
  BY DEF StartCommand, ChannelInv, Fields, SeenFields
<1>5. HostOK(host')  BY <1>1, <1>2, <1>3, VendorAssumption DEF HostOK, Mine, ChannelInv, Fields
<1>6. Fields'  BY <1>1, <1>4, <1>5 DEF ChannelInv, Fields
<1>7. Locks' /\ InStep' /\ Intact'  BY <1>1, <1>3, <1>4 DEF ChannelInv, Locks, InStep, Intact, Mine
<1>8. NoLoss'  BY <1>1, <1>3, <1>4 DEF ChannelInv, NoLoss
<1>9. Tries'
  <2>1. seen.lost \in Nat /\ Retry \in Nat  BY VendorAssumption DEF ChannelInv, Fields
  <2>2. Paid' = 2 * seen.lost  BY <1>3, <1>4, <2>1 DEF Paid
  <2>3. seen.lost = 0 => dev'.vds = host'.step - 1  BY <1>1, <1>3 DEF ChannelInv, NoLoss
  <2>. QED  BY <1>3, <2>1, <2>2, <2>3 DEF Tries
<1>10. Alone'  BY <1>1, <1>3, <1>4 DEF ChannelInv, Alone, Mine
<1>. QED  BY <1>6, <1>7, <1>8, <1>9, <1>10 DEF ChannelInv
-----------------------------------------------------------------------------
(* An access of the user leaves a device that has seen no key where it is, *)
(* and takes one that expects a command or its data out of it or a step on.*)
LEMMA UserStatus ==
  ASSUME NEW d, DevOK(d), NEW a, a.lba \in Shared
  PROVE  /\ d.vds = 0 => NextStatus(d, a) = 0
         /\ d.vds = 5 => NextStatus(d, a) \in {0, 6}
         /\ d.vds = 6 => NextStatus(d, a) = 0
PROOF
<1>1. CASE d.vds = 0
  <2>1. a.lba # KeySeq[d.vds + 1]
    <3>1. d.vds + 1 = 1  BY <1>1
    <3>2. KeySeq[1] \notin Shared  BY Keys
    <3>. QED  BY <3>1, <3>2
  <2>. QED  BY <1>1, <2>1, FitsIs DEF NextStatus
<1>2. CASE d.vds = 5  BY <1>2 DEF NextStatus, VdsData
<1>3. CASE d.vds = 6  BY <1>3 DEF NextStatus, VdsData
<1>. QED  BY <1>1, <1>2, <1>3

(* What an access of the user does to everything but the sectors.          *)
LEMMA UserStep ==
  ASSUME ChannelInv, ~locked, host' = host, locked' = locked,
         NEW a, Sane(a), a.lba \in Shared, dev' = Deliver(dev, a),
         DOMAIN user' = Shared, DOMAIN seen' = SeenFields,
         seen'.lost = seen.lost, seen'.unsent = seen.unsent,
         seen'.swallowed = TRUE => seen.swallowed \/ Swallows(dev, a)
  PROVE  Fields' /\ Locks' /\ InStep' /\ NoLoss' /\ Tries' /\ Alone'
PROOF
<1>1. DevOK(dev) /\ HostOK(host)  BY DEF ChannelInv, Fields
<1>2. dev' = dev \/ dev' = Received(dev, a)  BY DEF Deliver
<1>3. DevOK(dev') /\ (dev'.vds = dev.vds \/ dev'.vds = NextStatus(dev, a))
  BY <1>1, <1>2, ReceivedOK
<1>4. /\ dev.vds = 0 => dev'.vds = 0
      /\ dev.vds \in {0, 5, 6} => dev'.vds \in {0, 5, 6}
  BY <1>1, <1>3, UserStatus
<1>5. host.pc \notin Mine /\ (host.pc = "ready" => host.type = "SM2246")
  BY DEF ChannelInv, Locks
<1>6. Fields'  BY <1>1, <1>3 DEF ChannelInv, Fields
<1>7. Locks' /\ InStep' /\ Tries'  BY <1>5 DEF ChannelInv, Locks, InStep, Tries, Mine
<1>8. NoLoss'  BY <1>4, <1>5 DEF ChannelInv, NoLoss
<1>9. ASSUME LocksFirst, seen.lost = 0  PROVE dev.vds = 0 /\ ~Swallows(dev, a)
  <2>1. dev.vds = 0  BY <1>1, <1>5, <1>9 DEF ChannelInv, Alone, HostOK
  <2>. QED  BY <2>1 DEF Swallows, VdsCmd
<1>10. Alone'  BY <1>4, <1>9 DEF ChannelInv, Alone, LocksFirst
<1>. QED  BY <1>6, <1>7, <1>8, <1>10

(* A read of the user disturbs no sector.                                  *)
LEMMA ReadInv == ASSUME NEW s \in Shared, ChannelInv, UserRead(s)  PROVE ChannelInv'
PROOF
<1> DEFINE a == Read(s, 1)
<1>1. a.rw = "read" /\ a.lba = s /\ a.data[1] = "none"  BY DEF Read
<1>2. ~locked /\ dev' = Deliver(dev, a) /\ UNCHANGED <<host, locked, user>>  BY DEF UserRead
<1>3. /\ DOMAIN seen' = SeenFields /\ seen'.lost = seen.lost /\ seen'.unsent = seen.unsent
      /\ seen'.swallowed = seen.swallowed
  BY DEF UserRead, ChannelInv, Fields, SeenFields
<1>4. Sane(a)  BY <1>1 DEF Sane
<1>5. DOMAIN user' = Shared  BY <1>2 DEF ChannelInv, Fields
<1>. HIDE DEF a
<1>6. Fields' /\ Locks' /\ InStep' /\ NoLoss' /\ Tries' /\ Alone'
  BY <1>1, <1>2, <1>3, <1>4, <1>5, UserStep
<1>7. dev'.sector = dev.sector
  <2>1. dev' = Received(dev, a)  BY <1>1, <1>2 DEF Deliver
  <2>. QED  BY <1>1, <1>4, <2>1, ReceivedOK DEF ChannelInv, Fields
<1>8. Intact'  BY <1>2, <1>3, <1>7 DEF ChannelInv, Intact
<1>. QED  BY <1>6, <1>8 DEF ChannelInv

(* A write of the user reaches its sector, or is noted as swallowed.       *)
LEMMA WriteInv == ASSUME NEW s \in Shared, ChannelInv, UserWrite(s)  PROVE ChannelInv'
PROOF
<1> DEFINE a == WriteTo(s, 1, <<"user", seen.accesses + 1>>)
<1>1. a.rw = "write" /\ a.lba = s /\ a.data[1] = "user"  BY DEF WriteTo
<1>2. /\ ~locked /\ dev' = Deliver(dev, a) /\ UNCHANGED <<host, locked>>
      /\ user' = [user EXCEPT ![s] = a.data]
  BY DEF UserWrite
<1>3. /\ DOMAIN seen' = SeenFields /\ seen'.lost = seen.lost /\ seen'.unsent = seen.unsent
      /\ seen'.swallowed = (seen.swallowed \/ Swallows(dev, a))
  BY DEF UserWrite, ChannelInv, Fields, SeenFields
<1>4. Sane(a)  BY <1>1 DEF Sane
<1>5. DOMAIN user' = Shared  BY <1>2 DEF ChannelInv, Fields
<1>. HIDE DEF a
<1>6. Fields' /\ Locks' /\ InStep' /\ NoLoss' /\ Tries' /\ Alone'
  BY <1>1, <1>2, <1>3, <1>4, <1>5, UserStep
<1>7. Intact'
  <2>1. SUFFICES ASSUME NEW r \in Shared \ DummyWrites, dev'.sector[r] # user'[r], ~Swallows(dev, a)
                 PROVE  seen'.unsent \/ seen'.swallowed
    BY <1>3 DEF Intact
  <2>2. r \in Shared  OBVIOUS
  <2>3. CASE r = s
    <3>1. dev' = Received(dev, a)  BY <1>1, <1>2, <2>3 DEF Deliver
    <3>2. dev'.sector = [dev.sector EXCEPT ![s] = a.data]
      BY <1>1, <1>4, <2>1, <3>1, ReceivedOK DEF ChannelInv, Fields
    <3>. QED  BY <1>2, <2>1, <2>3, <3>2 DEF ChannelInv, Fields, DevOK
  <2>4. CASE r # s
    <3>1. dev'.sector[r] = dev.sector[r]
      <4>1. CASE s \in DummyWrites  BY <1>1, <1>2, <4>1 DEF Deliver
      <4>2. CASE s \notin DummyWrites
        <5>1. dev' = Received(dev, a)  BY <1>1, <1>2, <4>2 DEF Deliver
        <5>2. dev'.sector = [dev.sector EXCEPT ![s] = a.data]
          BY <1>1, <1>4, <2>1, <5>1, ReceivedOK DEF ChannelInv, Fields
        <5>. QED  BY <2>2, <2>4, <5>2 DEF ChannelInv, Fields, DevOK
      <4>. QED  BY <4>1, <4>2
    <3>2. user'[r] = user[r]  BY <1>2, <2>2, <2>4 DEF ChannelInv, Fields
    <3>. QED  BY <1>3, <2>1, <3>1, <3>2 DEF ChannelInv, Intact
  <2>. QED  BY <2>3, <2>4
<1>. QED  BY <1>6, <1>7 DEF ChannelInv
-----------------------------------------------------------------------------
(* An access of the host with its outcome o, and the host h that has the   *)
(* answer but has not gone on.                                             *)
Done(o, h) ==
  /\ host.pc \in {"probe", "keys", "command", "data"} /\ o \in {"ok", "lost", "late"}
  /\ DOMAIN h = HostFields
  /\ h.pc = host.pc /\ h.probe = host.probe /\ h.step = host.step /\ h.match = host.match
  /\ h.type = host.type /\ h.cmd = host.cmd /\ h.left = host.left /\ (h.init <=> host.init)
  /\ host.pc # "data" => h.key = IF o = "ok" /\ Access(host).rw = "read"
                                 THEN Returned(dev, Access(host)) ELSE host.key
  /\ host' \in Advance(h)
  /\ dev' = IF o = "lost" THEN dev ELSE Deliver(dev, Access(host))
  /\ seen'.lost = IF o = "ok" THEN seen.lost ELSE seen.lost + 1
  /\ seen'.unsent = (seen.unsent \/ (host.pc = "command" /\ o = "lost"))
  /\ seen'.swallowed = seen.swallowed
  /\ DOMAIN seen' = SeenFields
  /\ locked' = (locked \/ host.pc # "probe" \/ Probed[host.probe] # "SM2242" \/ host'.pc = "keys")
  /\ user' = user

(* What the device has run for the present VendorCommand, and whether its  *)
(* command and its data both arrived and were answered.                    *)
Told(o) ==
  IF host'.pc = "keys" /\ host.pc \in {"probe", "data"}
  THEN seen'.ran = <<>>
  ELSE /\ seen'.ran = IF o # "lost" /\ Runs(dev, Access(host)) THEN Append(seen.ran, dev.cmd) ELSE seen.ran
       /\ seen'.clean => seen.clean /\ (host.pc \in {"command", "data"} => o = "ok")

(* Each access of the host is one in this sense.                           *)
LEMMA HostDone == ASSUME ChannelInv, HostAccess  PROVE \E o, h : Done(o, h) /\ Told(o)
PROOF
<1>1. PICK outcome \in {"ok", "lost", "late"} :
       LET a == Access(host)
           got == IF outcome = "ok" /\ a.rw = "read" THEN Returned(dev, a)
                  ELSE IF host.pc = "data" THEN host.data ELSE host.key
           h == IF host.pc = "data" THEN [host EXCEPT !.data = got] ELSE [host EXCEPT !.key = got]
           delivered == outcome # "lost"
           told == [seen EXCEPT
             !.lost = IF outcome = "ok" THEN @ ELSE @ + 1,
             !.ran = IF delivered /\ Runs(dev, a) THEN Append(@, dev.cmd) ELSE @,
             !.clean = @ /\ ~(host.pc \in {"command", "data"} /\ outcome # "ok"),
             !.unsent = @ \/ (host.pc = "command" /\ ~delivered)]
       IN  /\ outcome # "ok" => seen.lost < MaxLost
           /\ dev' = IF delivered THEN Deliver(dev, a) ELSE dev
           /\ host' \in Advance(h)
           /\ locked' = (locked \/ host.pc # "probe" \/ Probed[host.probe] # "SM2242" \/ host'.pc = "keys")
           /\ seen' = IF host'.pc = "keys" /\ host.pc \in {"probe", "data"}
                      THEN [told EXCEPT !.ran = <<>>, !.clean = TRUE] ELSE told
  BY DEF HostAccess
<1> DEFINE a == Access(host)
           got == IF outcome = "ok" /\ a.rw = "read" THEN Returned(dev, a)
                  ELSE IF host.pc = "data" THEN host.data ELSE host.key
           h == IF host.pc = "data" THEN [host EXCEPT !.data = got] ELSE [host EXCEPT !.key = got]
           delivered == outcome # "lost"
           told == [seen EXCEPT
             !.lost = IF outcome = "ok" THEN @ ELSE @ + 1,
             !.ran = IF delivered /\ Runs(dev, a) THEN Append(@, dev.cmd) ELSE @,
             !.clean = @ /\ ~(host.pc \in {"command", "data"} /\ outcome # "ok"),
             !.unsent = @ \/ (host.pc = "command" /\ ~delivered)]
<1>2. host.pc \in {"probe", "keys", "command", "data"} /\ user' = user  BY DEF HostAccess
<1>3. DOMAIN host = HostFields /\ DOMAIN seen = SeenFields  BY DEF ChannelInv, Fields, HostOK
<1>4. /\ DOMAIN h = HostFields
      /\ h.pc = host.pc /\ h.probe = host.probe /\ h.step = host.step /\ h.match = host.match
      /\ h.type = host.type /\ h.cmd = host.cmd /\ h.left = host.left /\ (h.init <=> host.init)
      /\ host.pc # "data" => h.key = got
  BY <1>3 DEF HostFields
<1>5. /\ DOMAIN told = SeenFields /\ told.lost = IF outcome = "ok" THEN seen.lost ELSE seen.lost + 1
      /\ told.unsent = (seen.unsent \/ (host.pc = "command" /\ ~delivered))
      /\ told.swallowed = seen.swallowed
  BY <1>3 DEF SeenFields
<1>6. seen' = told \/ seen' = [told EXCEPT !.ran = <<>>, !.clean = TRUE]  BY <1>1
<1>11. /\ told.ran = IF delivered /\ Runs(dev, a) THEN Append(seen.ran, dev.cmd) ELSE seen.ran
       /\ told.clean = (seen.clean /\ ~(host.pc \in {"command", "data"} /\ outcome # "ok"))
  BY <1>3 DEF SeenFields
<1>12. seen' = IF host'.pc = "keys" /\ host.pc \in {"probe", "data"}
               THEN [told EXCEPT !.ran = <<>>, !.clean = TRUE] ELSE told
  BY <1>1
<1>. HIDE DEF told
<1>13. Told(outcome)
  <2>1. CASE host'.pc = "keys" /\ host.pc \in {"probe", "data"}
    BY <1>5, <1>12, <2>1 DEF Told, SeenFields
  <2>2. CASE ~(host'.pc = "keys" /\ host.pc \in {"probe", "data"})
    BY <1>11, <1>12, <2>2 DEF Told
  <2>. QED  BY <2>1, <2>2
<1>7. /\ DOMAIN seen' = SeenFields /\ seen'.lost = told.lost /\ seen'.unsent = told.unsent
      /\ seen'.swallowed = told.swallowed
  BY <1>5, <1>6 DEF SeenFields
<1>8. /\ dev' = IF delivered THEN Deliver(dev, a) ELSE dev
      /\ host' \in Advance(h)
      /\ locked' = (locked \/ host.pc # "probe" \/ Probed[host.probe] # "SM2242" \/ host'.pc = "keys")
  BY <1>1
<1>9. host.pc # "data" => h.key = IF outcome = "ok" /\ a.rw = "read" THEN Returned(dev, a) ELSE host.key
  BY <1>4
<1>. HIDE DEF h, a, got
<1>10. Done(outcome, h)  BY <1>2, <1>4, <1>5, <1>7, <1>8, <1>9 DEF Done, a
<1>. QED  BY <1>10, <1>13

(* No access of the host reaches the sectors of the user, unless the       *)
(* command before its data got lost.                                       *)
LEMMA HostKeeps ==
  ASSUME ChannelInv, NEW o, NEW h, Done(o, h)
  PROVE  /\ DevOK(dev') /\ Intact' /\ DOMAIN user' = Shared
         /\ DOMAIN seen' = SeenFields /\ seen'.lost \in Nat
         /\ dev'.vds = dev.vds \/ dev'.vds = NextStatus(dev, Access(host))
         /\ o # "lost" => dev'.vds = NextStatus(dev, Access(host))
PROOF
<1> DEFINE a == Access(host)
<1>1. DevOK(dev) /\ HostOK(host) /\ DOMAIN user = Shared /\ seen.lost \in Nat
  BY DEF ChannelInv, Fields
<1>2. host.pc \in {"probe", "keys", "command", "data"}  BY DEF Done
<1>3. /\ a.lba \notin DummyWrites \/ a.rw = "read"
      /\ host.pc \in {"probe", "keys"} => a.rw = "read"
      /\ host.pc \in {"command", "data"} => a.lba = Vendor
      /\ host.pc = "command" => a.rw = "write" /\ a.secs = 1
  <2>1. CASE host.pc \in {"probe", "keys"}
    BY <2>1 DEF Access, Read
  <2>2. CASE host.pc = "command"
    BY <2>2, VendorShared DEF Access, WriteTo
  <2>3. CASE host.pc = "data"
    BY <2>3, VendorShared DEF Access, WriteTo, Read
  <2>. QED  BY <1>2, <2>1, <2>2, <2>3
<1>4. Sane(a)
  <2>1. CASE host.pc \in {"probe", "keys"}  BY <2>1 DEF Access, Read, Sane
  <2>2. CASE host.pc = "command"  BY <2>2, <1>1 DEF Access, WriteTo, Sane, HostOK
  <2>3. CASE host.pc = "data"  BY <2>3 DEF Access, WriteTo, Read, Sane
  <2>. QED  BY <1>2, <2>1, <2>2, <2>3
<1>. HIDE DEF a
<1>5. dev' = IF o = "lost" THEN dev ELSE Received(dev, a)  BY <1>3 DEF Done, Deliver, a
<1>6. /\ DevOK(dev') /\ (o # "lost" => dev'.vds = NextStatus(dev, a))
      /\ dev'.sector # dev.sector => a.rw = "write" /\ ~Swallows(dev, a)
  BY <1>1, <1>4, <1>5, ReceivedOK
<1>7. dev'.sector = dev.sector \/ seen.unsent
  <2>1. SUFFICES ASSUME a.rw = "write", ~seen.unsent  PROVE Swallows(dev, a)
    BY <1>6
  <2>2. CASE host.pc = "command"
    <3>1. dev.vds = 5  BY <2>2 DEF ChannelInv, InStep, VdsCmd
    <3>. QED  BY <1>1, <1>3, <2>2, <3>1, FitsIs DEF Swallows, VdsCmd
  <2>3. CASE host.pc = "data"
    <3>1. dev.vds = 6  BY <2>1, <2>3 DEF ChannelInv, InStep, VdsData
    <3>. QED  BY <1>1, <1>3, <2>3, <3>1, FitsIs DEF Swallows, VdsCmd
  <2>. QED  BY <1>2, <1>3, <2>1, <2>2, <2>3
<1>8. Intact'  BY <1>7 DEF ChannelInv, Intact, Done
<1>9. seen'.lost \in Nat /\ DOMAIN seen' = SeenFields /\ DOMAIN user' = Shared  BY <1>1 DEF Done
<1>10. o = "lost" => dev'.vds = dev.vds  BY <1>5
<1>. QED  BY <1>6, <1>8, <1>9, <1>10 DEF a

(* Reading the k-th key takes the device from status k - 1 to k, and from  *)
(* any other back to 0.                                                    *)
LEMMA KeyStatus ==
  ASSUME NEW d, DevOK(d), NEW k \in 1 .. 5
  PROVE  NextStatus(d, Read(KeySeq[k], 1)) = IF d.vds = k - 1 THEN k ELSE 0
PROOF
<1> DEFINE a == Read(KeySeq[k], 1)
<1>1. a.rw = "read" /\ a.secs = 1 /\ a.lba = KeySeq[k]  BY DEF Read
<1>. HIDE DEF a
<1>2. d.vds \in 0 .. 6  BY DEF DevOK
<1>3. CASE d.vds \in 0 .. 4
  <2>1. d.vds + 1 \in 1 .. 5  BY <1>3
  <2>2. Fits(d, a) <=> k = d.vds + 1  BY <1>1, <1>3, <2>1, FitsIs, Keys
  <2>. QED  BY <1>3, <2>2 DEF NextStatus, VdsData, a
<1>4. CASE d.vds = 5
  <2>1. ~Fits(d, a)  BY <1>1, <1>4, FitsIs
  <2>. QED  BY <1>4, <2>1 DEF NextStatus, a
<1>5. CASE d.vds = 6  BY <1>5 DEF NextStatus, VdsData, a
<1>. QED  BY <1>2, <1>3, <1>4, <1>5

(* The fifth key is answered with the signature.                           *)
LEMMA FifthKeyAnswered ==
  ASSUME NEW d, DevOK(d), d.vds = 4  PROVE Returned(d, Read(Vendor, 1)) = Signed
PROOF
<1> DEFINE a == Read(Vendor, 1)
<1>1. a.rw = "read" /\ a.secs = 1 /\ a.lba = Vendor  BY DEF Read
<1>. HIDE DEF a
<1>2. KeySeq[d.vds + 1] = Vendor
  <2>1. d.vds + 1 = 5  OBVIOUS
  <2>. QED  BY <2>1, Keys
<1>3. Fits(d, a) /\ ~Runs(d, a)  BY <1>1, <1>2, FitsIs DEF Runs, VdsData
<1>. QED  BY <1>3 DEF Returned, Swallows, VdsCmd, Signed, a

(* Sending a key but the last of a probe or of VendorCommand.              *)
LEMMA KeySent ==
  ASSUME ChannelInv, NEW o, NEW h, Done(o, h), host.pc \in {"probe", "keys"}, host.step < 5
  PROVE  ChannelInv'
PROOF
<1> DEFINE k == host.step
<1>1. DevOK(dev) /\ HostOK(host)  BY DEF ChannelInv, Fields
<1>2. k \in 1 .. 4  BY <1>1 DEF HostOK
<1>3. Access(host) = Read(KeySeq[k], 1)  BY <1>2 DEF Access
<1>4. host' = [h EXCEPT !.step = @ + 1]
  <2>1. h.pc \in {"probe", "keys"} /\ h.step < 5 /\ host' \in Advance(h)  BY DEF Done
  <2>. QED  BY <2>1 DEF Advance
<1>5. /\ DOMAIN host' = HostFields /\ host'.pc = host.pc /\ host'.step = k + 1
      /\ host'.probe = host.probe /\ host'.match = host.match /\ host'.type = host.type
      /\ host'.cmd = host.cmd /\ host'.left = host.left /\ host'.key = h.key
      /\ (host'.init <=> host.init)
  BY <1>4 DEF Done, HostFields
<1>6. HostOK(host')  BY <1>1, <1>2, <1>5 DEF HostOK, Mine
<1>7. Fields' /\ Intact'  BY <1>6, HostKeeps DEF Fields
<1>8. Locks'  BY <1>5 DEF ChannelInv, Locks, Done, Mine
<1>9. InStep'
  <2>1. ASSUME o = "ok"  PROVE h.key # Signed
    <3>1. h.key = Returned(dev, Read(KeySeq[k], 1))  BY <1>3, <2>1 DEF Done, Read
    <3>2. KeySeq[k] # Vendor  BY <1>2, Keys
    <3>. QED  BY <1>1, <3>1, <3>2, SignatureIsFifthKey
  <2>2. ASSUME o # "ok"  PROVE h.key = host.key  BY <2>2 DEF Done
  <2>. QED  BY <1>5, <2>1, <2>2 DEF ChannelInv, InStep
<1>10. seen.lost \in Nat /\ seen'.lost \in Nat  BY HostKeeps DEF ChannelInv, Fields
<1>11. /\ seen'.lost = seen.lost => dev'.vds = IF dev.vds = k - 1 THEN k ELSE 0
       /\ seen'.lost # seen.lost => seen'.lost = seen.lost + 1
  <2>1. seen'.lost = seen.lost => o # "lost"  BY <1>10 DEF Done
  <2>2. k \in 1 .. 5  BY <1>2
  <2>. QED  BY <1>1, <1>3, <1>10, <2>1, <2>2, HostKeeps, KeyStatus DEF Done
<1>12. NoLoss'
  <2>1. host.pc # "command" => (seen'.unsent => seen.unsent)  BY DEF Done
  <2>2. host'.step # 6 /\ host'.pc # "ready"  BY <1>2, <1>5
  <2>3. seen'.lost = 0 => seen.lost = 0  BY <1>10, <1>11
  <2>. QED  BY <2>1, <2>2, <2>3 DEF ChannelInv, NoLoss
<1>13. Tries'
  <2>1. SUFFICES ASSUME host.pc = "keys"
                 PROVE  \/ dev'.vds = k /\ Paid' >= 0
                        \/ dev'.vds = 0 /\ Paid' >= 1
                        \/ Paid' >= 2
    BY <1>2, <1>5 DEF Tries
  <2>2. host.left \in 1 .. Retry /\ Retry \in Nat  BY <1>1, <2>1, VendorAssumption DEF HostOK
  <2>3. Paid \in Int /\ Paid' = Paid + 2 * (seen'.lost - seen.lost)  BY <1>5, <1>10, <2>2 DEF Paid
  <2>. QED  BY <1>2, <1>10, <1>11, <2>1, <2>3 DEF ChannelInv, Tries
<1>14. Alone'
  <2>1. SUFFICES ASSUME LocksFirst, seen'.lost = 0  PROVE Alone'
    BY DEF Alone, LocksFirst
  <2>2. seen.lost = 0 /\ seen'.lost = seen.lost  BY <1>10, <1>11, <2>1
  <2>3. CASE host.pc = "keys"
    BY <1>5, <2>1, <2>2, <2>3 DEF ChannelInv, Alone, Done, Mine
  <2>4. CASE host.pc = "probe"
    <3>1. dev'.vds = k  BY <1>11, <2>1, <2>2, <2>4 DEF ChannelInv, Alone
    <3>2. locked'  BY <1>2, <2>1, <2>2, <2>4 DEF ChannelInv, Alone, Done, LocksFirst
    <3>. QED  BY <1>2, <1>5, <2>1, <2>2, <2>4, <3>1, <3>2 DEF ChannelInv, Alone, Done
  <2>. QED  BY <2>3, <2>4
<1>. QED  BY <1>7, <1>8, <1>9, <1>12, <1>13, <1>14 DEF ChannelInv

(* What every step of the host says of the losses.                         *)
LEMMA Losses ==
  ASSUME ChannelInv, NEW o, NEW h, Done(o, h)
  PROVE  /\ seen.lost \in Nat /\ seen'.lost \in Nat
         /\ o = "ok" <=> seen'.lost = seen.lost
         /\ o # "ok" => seen'.lost = seen.lost + 1
         /\ host.pc # "command" => (seen'.unsent => seen.unsent)
         /\ seen'.swallowed => seen.swallowed
PROOF
<1>1. seen.lost \in Nat  BY DEF ChannelInv, Fields
<1>2. o # "ok" => seen'.lost = seen.lost + 1  BY DEF Done
<1>3. host.pc # "command" => (seen'.unsent => seen.unsent)  BY DEF Done
<1>4. seen'.swallowed => seen.swallowed  BY Zenon DEF Done
<1>5. o = "ok" => seen'.lost = seen.lost  BY DEF Done
<1>. QED  BY <1>1, <1>2, <1>3, <1>4, <1>5

(* The fifth key of a probe, whose answer decides.                         *)
LEMMA ProbeAnswered ==
  ASSUME ChannelInv, NEW o, NEW h, Done(o, h), host.pc = "probe", host.step = 5
  PROVE  ChannelInv'
PROOF
<1>1. DevOK(dev) /\ HostOK(host)  BY DEF ChannelInv, Fields
<1>2. Access(host) = Read(KeySeq[5], 1) /\ KeySeq[5] = Vendor  BY Keys DEF Access
<1>3. host' = [h EXCEPT !.step = 6, !.match = h.key = Signed /\ Probed[h.probe] = Signature]
  <2>1. h.pc = "probe" /\ h.step = 5 /\ host' \in Advance(h)  BY DEF Done
  <2>. QED  BY <2>1 DEF Advance, Signed
<1>4. /\ DOMAIN host' = HostFields /\ host'.pc = "probe" /\ host'.step = 6
      /\ host'.probe = host.probe /\ host'.type = host.type /\ host'.cmd = host.cmd
      /\ (host'.match <=> h.key = Signed /\ Probed[host.probe] = Signature)
  BY <1>3 DEF Done, HostFields
<1>5. HostOK(host')  BY <1>1, <1>4 DEF HostOK, Mine
<1>6. Fields' /\ Intact'  BY <1>5, HostKeeps DEF Fields
<1>7. Locks' /\ InStep' /\ Tries'  BY <1>4 DEF Locks, InStep, Tries, Mine
<1>8. seen'.lost = 0 => seen.lost = 0 /\ o = "ok"  BY Losses
<1>9. o = "ok" => h.key = Returned(dev, Read(Vendor, 1))  BY <1>2 DEF Done, Read
<1>10. o = "ok" => dev'.vds = NextStatus(dev, Read(Vendor, 1))  BY <1>2, HostKeeps
<1>11. NoLoss'
  <2>1. o = "ok" /\ h.key = Signed => dev'.vds = 5  BY <1>1, <1>9, <1>10, SignatureIsFifthKey
  <2>. QED  BY <1>4, <1>8, <2>1, Losses DEF ChannelInv, NoLoss
<1>12. Alone'
  <2>1. SUFFICES ASSUME LocksFirst, seen'.lost = 0  PROVE Alone'
    BY DEF Alone, LocksFirst
  <2>2. dev.vds = 4 /\ locked  BY <1>8, <2>1 DEF ChannelInv, Alone
  <2>3. h.key = Signed  BY <1>1, <1>8, <1>9, <2>1, <2>2, FifthKeyAnswered
  <2>4. dev'.vds = 5
    <3>1. 5 \in 1 .. 5  OBVIOUS
    <3>. QED  BY <1>1, <1>2, <1>8, <1>10, <2>1, <2>2, <3>1, KeyStatus
  <2>5. locked'  BY <2>2 DEF Done
  <2>. QED  BY <1>4, <1>8, <2>1, <2>3, <2>4, <2>5, Losses DEF ChannelInv, Alone
<1>. QED  BY <1>6, <1>7, <1>11, <1>12 DEF ChannelInv

(* What is kept when VendorCommand begins after a step that leaves the     *)
(* device before the first key, unless something was lost.                 *)
LEMMA Called ==
  ASSUME ChannelInv, NEW o, NEW h, Done(o, h), NEW g, DOMAIN g = HostFields, NEW c, NEW data,
         host' = Call(g, c, data), c.op \in Asked, g.type = Signature, g.type # "SM2246",
         locked', seen'.lost = 0 => dev'.vds = 0 /\ ~seen'.unsent
  PROVE  ChannelInv'
PROOF
<1>1. /\ DOMAIN host' = HostFields /\ host'.pc = "keys" /\ host'.step = 1 /\ host'.cmd = c
      /\ host'.left = Retry /\ host'.key # Signed /\ host'.type = Signature
  BY CallIs
<1>2. HostOK(host')  BY <1>1, VendorAssumption DEF HostOK, Mine, Asked
<1>3. Fields' /\ Intact'  BY <1>2, HostKeeps DEF Fields
<1>4. Locks' /\ InStep' /\ NoLoss'  BY <1>1 DEF Locks, InStep, NoLoss, Mine
<1>5. Tries'
  <2>1. seen'.lost \in Nat /\ Retry \in Nat  BY Losses, VendorAssumption
  <2>2. Paid' = 2 * seen'.lost  BY <1>1, <2>1 DEF Paid
  <2>. QED  BY <1>1, <2>1, <2>2 DEF Tries
<1>6. Alone'
  <2>1. seen'.lost = 0 => seen.lost = 0  BY Losses
  <2>. QED  BY <1>1, <2>1, Losses DEF ChannelInv, Alone, LocksFirst, Mine
<1>. QED  BY <1>3, <1>4, <1>5, <1>6 DEF ChannelInv

(* The read that stops the vendor command takes the device out of it.      *)
LEMMA Stopped ==
  ASSUME NEW d, DevOK(d), d.vds # 4  PROVE NextStatus(d, Read(Vendor, 1)) = 0
PROOF
<1>1. 5 \in 1 .. 5 /\ KeySeq[5] = Vendor  BY Keys
<1>. QED  BY <1>1, KeyStatus DEF DevOK

(* After the recognizer: the device it recognized, or the next one.        *)
LEMMA NextProbeIs ==
  ASSUME NEW h, DOMAIN h = HostFields, NEW g, g = NextProbe(h)
  PROVE  /\ h.match /\ Probed[h.probe] = "SM2246" =>
              /\ DOMAIN g = HostFields /\ g.pc = "ready" /\ g.type = "SM2246" /\ g.cmd = h.cmd
         /\ h.match /\ Probed[h.probe] # "SM2246" =>
              \E c : /\ DOMAIN c = HostFields /\ c.type = Probed[h.probe]
                     /\ g = Call(c, FlashId, <<"zero">>)
         /\ ~h.match /\ h.probe = Len(Probed) =>
              DOMAIN g = HostFields /\ g.pc = "absent" /\ g.cmd = h.cmd
         /\ ~h.match /\ h.probe # Len(Probed) =>
              /\ DOMAIN g = HostFields /\ g.pc = h.pc /\ g.probe = h.probe + 1 /\ g.step = 1
              /\ g.cmd = h.cmd
PROOF
<1> DEFINE created == [h EXCEPT !.type = Probed[h.probe], !.step = 0]
<1>1. DOMAIN created = HostFields /\ created.type = Probed[h.probe] /\ created.cmd = h.cmd
  BY DEF HostFields
<1>. HIDE DEF created
<1>2. CASE h.match /\ Probed[h.probe] = "SM2246"
  <2>1. g = [created EXCEPT !.pc = "ready"]  BY <1>2 DEF NextProbe, created
  <2>. QED  BY <1>1, <1>2, <2>1 DEF HostFields
<1>3. CASE h.match /\ Probed[h.probe] # "SM2246"
  <2>1. g = Call([created EXCEPT !.init = TRUE], FlashId, <<"zero">>)
    BY <1>3 DEF NextProbe, created
  <2>2. /\ DOMAIN [created EXCEPT !.init = TRUE] = HostFields
        /\ [created EXCEPT !.init = TRUE].type = Probed[h.probe]
    BY <1>1 DEF HostFields
  <2>. QED  BY <1>3, <2>1, <2>2
<1>4. CASE ~h.match /\ h.probe = Len(Probed)
  <2>1. g = [h EXCEPT !.pc = "absent", !.step = 0]  BY <1>4 DEF NextProbe
  <2>. QED  BY <1>4, <2>1 DEF HostFields
<1>5. CASE ~h.match /\ h.probe # Len(Probed)
  <2>1. g = [h EXCEPT !.probe = @ + 1, !.step = 1]  BY <1>5 DEF NextProbe
  <2>. QED  BY <1>5, <2>1 DEF HostFields
<1>. QED  BY <1>2, <1>3, <1>4, <1>5

(* The numbers up to n are those before n, and n.                          *)
LEMMA UpTo ==
  ASSUME NEW n \in Nat  PROVE \A i \in 1 .. n : i \in 1 .. n - 1 \/ i = n
OBVIOUS

(* The access that ends a probe.                                           *)
LEMMA ProbeEnded ==
  ASSUME ChannelInv, NEW o, NEW h, Done(o, h), host.pc = "probe", host.step = 6
  PROVE  ChannelInv'
PROOF
<1>1. DevOK(dev) /\ HostOK(host)  BY DEF ChannelInv, Fields
<1>2. Access(host) = Read(Vendor, 1)  BY DEF Access
<1>3. host' = NextProbe(h) /\ DOMAIN h = HostFields
  <2>1. h.pc = "probe" /\ h.step = 6 /\ host' \in Advance(h)  BY DEF Done
  <2>. QED  BY <2>1 DEF Advance, Done
<1>4. h.probe = host.probe /\ h.cmd = host.cmd /\ h.pc = "probe" /\ (h.match <=> host.match)
  BY DEF Done
<1>5. host.probe \in 1 .. Len(Probed)  BY <1>1 DEF HostOK
<1>6. seen'.lost = 0 => seen.lost = 0 /\ o = "ok" /\ ~seen.unsent /\ ~seen'.unsent
  BY Losses DEF ChannelInv, NoLoss
<1>7. o = "ok" /\ dev.vds # 4 => dev'.vds = 0  BY <1>1, <1>2, HostKeeps, Stopped
<1>8. ASSUME LocksFirst, seen'.lost = 0
      PROVE  /\ ~seen'.swallowed /\ dev'.vds = 0 /\ locked'
             /\ \A i \in 1 .. host.probe - 1 : Probed[i] # Signature
             /\ ~host.match => Probed[host.probe] # Signature
  <2>1. dev.vds = 5 /\ locked /\ ~seen.swallowed  BY <1>6, <1>8 DEF ChannelInv, Alone
  <2>2. locked'  BY <2>1 DEF Done
  <2>. QED  BY <1>6, <1>7, <1>8, <2>1, <2>2, Losses DEF ChannelInv, Alone
<1>9. CASE host.match /\ Probed[host.probe] = "SM2246"
  <2>1. /\ DOMAIN host' = HostFields /\ host'.pc = "ready" /\ host'.type = "SM2246"
        /\ host'.cmd = host.cmd
    <3>1. h.match /\ Probed[h.probe] = "SM2246"  BY <1>4, <1>9
    <3>. QED  BY <1>3, <1>4, <3>1, NextProbeIs
  <2>2. Signature = "SM2246"  BY <1>1, <1>9 DEF HostOK
  <2>3. HostOK(host')  BY <1>1, <2>1, <2>2 DEF HostOK, Mine
  <2>4. Fields' /\ Intact'  BY <2>3, HostKeeps DEF Fields
  <2>5. Locks' /\ InStep' /\ Tries'  BY <2>1 DEF Locks, InStep, Tries, Mine
  <2>6. NoLoss'  BY <1>6, <2>1 DEF NoLoss
  <2>7. Alone'  BY <1>8, <2>1 DEF Alone, LocksFirst, Mine
  <2>. QED  BY <2>4, <2>5, <2>6, <2>7 DEF ChannelInv
<1>10. CASE host.match /\ Probed[host.probe] # "SM2246"
  <2>1. PICK c : /\ DOMAIN c = HostFields /\ c.type = Probed[host.probe]
                 /\ host' = Call(c, FlashId, <<"zero">>)
    <3>1. h.match /\ Probed[h.probe] # "SM2246"  BY <1>4, <1>10
    <3>2. \E c : /\ DOMAIN c = HostFields /\ c.type = Probed[h.probe]
               /\ host' = Call(c, FlashId, <<"zero">>)
      BY <1>3, <3>1, NextProbeIs
    <3>. QED  BY <1>4, <3>2
  <2>2. FlashId.op \in Asked  BY DEF FlashId, NoCommand, Asked
  <2>3. c.type = Signature /\ c.type # "SM2246"  BY <1>1, <1>10, <2>1 DEF HostOK
  <2>4. host'.pc = "keys"  BY <2>1, CallIs
  <2>5. locked'  BY <2>4 DEF Done
  <2>6. seen'.lost = 0 => dev'.vds = 0
    <3>1. seen.lost = 0 => dev.vds \in {0, 5, 6}  BY <1>10 DEF ChannelInv, NoLoss
    <3>. QED  BY <1>6, <1>7, <3>1
  <2>. QED  BY <1>6, <2>1, <2>2, <2>3, <2>5, <2>6, Called
<1>11. CASE ~host.match /\ host.probe = Len(Probed)
  <2>1. DOMAIN host' = HostFields /\ host'.pc = "absent" /\ host'.cmd = host.cmd
    BY <1>3, <1>4, <1>11, NextProbeIs
  <2>2. HostOK(host')  BY <1>1, <2>1 DEF HostOK, Mine
  <2>3. Fields' /\ Intact'  BY <2>2, HostKeeps DEF Fields
  <2>4. Locks' /\ InStep' /\ Tries'  BY <2>1 DEF Locks, InStep, Tries, Mine
  <2>5. NoLoss'  BY <1>6, <2>1 DEF NoLoss
  <2>6. ASSUME LocksFirst, seen'.lost = 0  PROVE \A i \in DOMAIN Probed : Probed[i] # Signature
    <3>1. DOMAIN Probed = 1 .. Len(Probed) /\ Len(Probed) \in Nat  BY VendorAssumption
    <3>2. host.probe = Len(Probed)  BY <1>11
    <3>3. \A i \in 1 .. Len(Probed) : i \in 1 .. host.probe - 1 \/ i = host.probe
      BY <3>1, <3>2, UpTo
    <3>. QED  BY <1>8, <1>11, <2>6, <3>1, <3>3
  <2>7. Alone'  BY <1>8, <2>1, <2>6 DEF Alone, LocksFirst, Mine
  <2>. QED  BY <2>3, <2>4, <2>5, <2>7 DEF ChannelInv
<1>12. CASE ~host.match /\ host.probe # Len(Probed)
  <2>1. /\ DOMAIN host' = HostFields /\ host'.pc = "probe" /\ host'.probe = host.probe + 1
        /\ host'.step = 1 /\ host'.cmd = host.cmd
    BY <1>3, <1>4, <1>12, NextProbeIs
  <2>2. HostOK(host')  BY <1>1, <1>5, <1>12, <2>1, VendorAssumption DEF HostOK, Mine
  <2>3. Fields' /\ Intact'  BY <2>2, HostKeeps DEF Fields
  <2>4. Locks' /\ InStep' /\ Tries'  BY <2>1 DEF Locks, InStep, Tries, Mine
  <2>5. NoLoss'  BY <1>6, <2>1 DEF NoLoss
  <2>6. ASSUME LocksFirst, seen'.lost = 0
        PROVE  \A i \in 1 .. host'.probe - 1 : Probed[i] # Signature
    <3>1. \A i \in 1 .. host'.probe - 1 : i \in 1 .. host.probe - 1 \/ i = host.probe  BY <1>5, <2>1
    <3>. QED  BY <1>8, <1>12, <2>6, <3>1
  <2>7. Alone'  BY <1>8, <2>1, <2>6 DEF Alone, LocksFirst
  <2>. QED  BY <2>3, <2>4, <2>5, <2>7 DEF ChannelInv
<1>. QED  BY <1>9, <1>10, <1>11, <1>12

(* The fifth key of a try, whose answer sends the command, or not.         *)
LEMMA KeysAnswered ==
  ASSUME ChannelInv, NEW o, NEW h, Done(o, h), host.pc = "keys", host.step = 5
  PROVE  ChannelInv'
PROOF
<1>1. DevOK(dev) /\ HostOK(host)  BY DEF ChannelInv, Fields
<1>2. Access(host) = Read(KeySeq[5], 1) /\ KeySeq[5] = Vendor  BY Keys DEF Access
<1>3. host' = NextTry(h) /\ DOMAIN h = HostFields
  <2>1. h.pc = "keys" /\ h.step = 5 /\ host' \in Advance(h)  BY DEF Done
  <2>. QED  BY <2>1 DEF Advance, Done
<1>4. /\ h.pc = "keys" /\ h.step = 5 /\ h.type = Signature /\ host.type = h.type
      /\ h.cmd = host.cmd /\ h.left = host.left /\ (h.init <=> host.init)
  BY <1>1 DEF Done, HostOK, Mine
<1>5. o = "ok" => h.key = Returned(dev, Read(Vendor, 1))  BY <1>2 DEF Done, Read
<1>6. o # "lost" => dev'.vds = NextStatus(dev, Read(Vendor, 1))  BY <1>2, HostKeeps
<1>7. o # "ok" => h.key # Signed
  <2>1. o # "ok" => h.key = host.key  BY DEF Done
  <2>. QED  BY <2>1 DEF ChannelInv, InStep
<1>8. host.type # "SM2246" /\ locked'  BY DEF ChannelInv, Locks, Done, Mine
<1>9. /\ host.left \in 1 .. Retry /\ Retry \in Nat /\ Retry > 0
      /\ Paid \in Int /\ Paid = 2 * seen.lost - Retry + host.left
  <2>1. host.left \in 1 .. Retry /\ Retry \in Nat /\ Retry > 0  BY <1>1, VendorAssumption DEF HostOK
  <2>. QED  BY <2>1, Losses DEF Paid
<1>10. seen'.lost = 0 => seen.lost = 0 /\ ~seen'.unsent
  BY Losses DEF ChannelInv, NoLoss
<1>11. CASE h.key = Signed
  <2>1. host' = [h EXCEPT !.pc = "command", !.step = 0]  BY <1>3, <1>4, <1>11 DEF NextTry, Signed
  <2>2. /\ DOMAIN host' = HostFields /\ host'.pc = "command" /\ host'.type = Signature
        /\ host'.cmd = host.cmd /\ (host'.init <=> host.init)
    BY <1>3, <1>4, <2>1 DEF HostFields
  <2>3. HostOK(host')  BY <1>1, <2>2 DEF HostOK, Mine
  <2>4. Fields' /\ Intact'  BY <2>3, HostKeeps DEF Fields
  <2>5. dev'.vds = 5  BY <1>1, <1>5, <1>6, <1>7, <1>11, SignatureIsFifthKey
  <2>6. Locks' /\ InStep' /\ Tries'
    BY <1>4, <1>8, <2>2, <2>5 DEF Locks, InStep, Tries, Mine, VdsCmd
  <2>7. NoLoss'  BY <1>10, <2>2 DEF NoLoss
  <2>8. Alone'  BY <1>10, <2>2, Losses DEF ChannelInv, Alone, LocksFirst, Mine
  <2>. QED  BY <2>4, <2>6, <2>7, <2>8 DEF ChannelInv
<1>12. CASE h.key # Signed
  (* Without a loss in it, a try that began in step succeeds, and one that *)
  (* did not leaves the device in step.                                    *)
  <2>1. o = "ok" => dev.vds # 4 /\ dev'.vds = 0
    <3>1. o = "ok" => dev.vds # 4  BY <1>1, <1>5, <1>12, FifthKeyAnswered
    <3>. QED  BY <1>1, <1>6, <3>1, Stopped
  <2>2. o = "ok" => Paid >= 1 /\ (Paid >= 2 \/ dev'.vds = 0)
    BY <1>9, <2>1 DEF ChannelInv, Tries
  <2>3. Paid >= 0  BY <1>9 DEF ChannelInv, Tries
  <2>4. CASE h.left = 1
    <3>1. host' = [h EXCEPT !.pc = "gave_up", !.step = 0]  BY <1>3, <1>12, <2>4 DEF NextTry, Signed
    <3>2. DOMAIN host' = HostFields /\ host'.pc = "gave_up" /\ host'.cmd = host.cmd
      BY <1>3, <1>4, <3>1 DEF HostFields
    <3>3. 2 * seen'.lost >= Retry  BY <1>4, <1>9, <2>2, <2>3, <2>4, Losses
    <3>4. HostOK(host')  BY <1>1, <3>2 DEF HostOK, Mine
    <3>5. Fields' /\ Intact'  BY <3>4, HostKeeps DEF Fields
    <3>6. Locks' /\ InStep' /\ Tries'  BY <3>2, <3>3 DEF Locks, InStep, Tries, Mine
    <3>7. seen'.lost # 0  BY <1>9, <3>3
    <3>8. NoLoss' /\ Alone'  BY <3>7 DEF NoLoss, Alone
    <3>. QED  BY <3>5, <3>6, <3>8 DEF ChannelInv
  <2>5. CASE h.left # 1
    <3>1. host' = [h EXCEPT !.step = 1, !.left = @ - 1]  BY <1>3, <1>12, <2>5 DEF NextTry, Signed
    <3>2. /\ DOMAIN host' = HostFields /\ host'.pc = "keys" /\ host'.step = 1
          /\ host'.left = host.left - 1 /\ host'.type = Signature /\ host'.cmd = host.cmd
          /\ host'.key # Signed /\ (host'.init <=> host.init)
      BY <1>3, <1>4, <1>12, <3>1 DEF HostFields
    <3>3. HostOK(host')  BY <1>1, <1>4, <1>9, <2>5, <3>2 DEF HostOK, Mine
    <3>4. Fields' /\ Intact'  BY <3>3, HostKeeps DEF Fields
    <3>5. Locks' /\ InStep'  BY <1>4, <1>8, <3>2 DEF Locks, InStep, Mine
    <3>6. NoLoss'  BY <1>10, <3>2 DEF NoLoss
    <3>7. Tries'
      <4>1. Paid' = 2 * seen'.lost - Retry + host.left - 1  BY <1>9, <3>2, Losses DEF Paid
      <4>2. CASE o = "ok"
        <5>1. Paid' = Paid - 1  BY <1>9, <4>1, <4>2, Losses
        <5>2. (dev'.vds = 0 /\ Paid' >= 0) \/ Paid' >= 1  BY <1>9, <2>2, <4>2, <5>1
        <5>. QED  BY <3>2, <5>2 DEF Tries
      <4>3. CASE o # "ok"
        <5>1. Paid' >= 1  BY <1>9, <2>3, <4>1, <4>3, Losses
        <5>. QED  BY <3>2, <5>1 DEF Tries
      <4>. QED  BY <4>2, <4>3
    <3>8. Alone'  BY <1>10, <3>2, Losses DEF ChannelInv, Alone, LocksFirst, Mine
    <3>. QED  BY <3>4, <3>5, <3>6, <3>7, <3>8 DEF ChannelInv
  <2>. QED  BY <2>4, <2>5
<1>. QED  BY <1>11, <1>12

(* The write that carries the command.                                     *)
LEMMA CommandSent ==
  ASSUME ChannelInv, NEW o, NEW h, Done(o, h), host.pc = "command"
  PROVE  ChannelInv'
PROOF
<1>1. DevOK(dev) /\ HostOK(host)  BY DEF ChannelInv, Fields
<1>2. host' = [h EXCEPT !.pc = "data"] /\ DOMAIN h = HostFields
  <2>1. h.pc = "command" /\ host' \in Advance(h)  BY DEF Done
  <2>. QED  BY <2>1 DEF Advance, Done
<1>3. /\ DOMAIN host' = HostFields /\ host'.pc = "data" /\ host'.type = host.type
      /\ host'.cmd = host.cmd /\ (host'.init <=> host.init)
  BY <1>2 DEF Done, HostFields
<1>4. HostOK(host')  BY <1>1, <1>3 DEF HostOK, Mine
<1>5. Fields' /\ Intact'  BY <1>4, HostKeeps DEF Fields
<1>6. Locks'  BY <1>3 DEF ChannelInv, Locks, Done, Mine
<1>7. InStep'
  <2>1. SUFFICES ASSUME ~seen'.unsent  PROVE dev'.vds = 6
    BY <1>3 DEF InStep, VdsData
  <2>2. o # "lost"  BY <2>1 DEF Done
  <2>3. Access(host) = WriteTo(Vendor, 1, <<"cmd", host.cmd>>)  BY DEF Access
  <2>4. dev.vds = 5  BY DEF ChannelInv, InStep, VdsCmd
  <2>5. Fits(dev, Access(host))  BY <1>1, <2>3, <2>4, FitsIs DEF WriteTo
  <2>6. NextStatus(dev, Access(host)) = 6  BY <2>4, <2>5 DEF NextStatus, VdsData
  <2>. QED  BY <2>2, <2>6, HostKeeps
<1>8. seen'.lost = 0 => seen.lost = 0 /\ o = "ok"  BY Losses
<1>9. NoLoss'
  <2>1. o = "ok" => (seen'.unsent => seen.unsent)  BY DEF Done
  <2>. QED  BY <1>3, <1>8, <2>1 DEF ChannelInv, NoLoss
<1>10. Tries'  BY <1>3 DEF Tries
<1>11. Alone'  BY <1>3, <1>8, Losses DEF ChannelInv, Alone, LocksFirst, Mine
<1>. QED  BY <1>5, <1>6, <1>7, <1>9, <1>10, <1>11 DEF ChannelInv

(* What Initialize does with an answer: the next question, or the end.     *)
LEMMA InitializeIs ==
  ASSUME NEW h, DOMAIN h = HostFields, h.cmd.op \in Asked, NEW v, NEW g, g = Initialize(h, v)
  PROVE  \/ \E x, c, data : /\ DOMAIN x = HostFields /\ x.type = h.type
                            /\ c.op \in Asked /\ g = Call(x, c, data)
         \/ /\ DOMAIN g = HostFields /\ g.pc = "ready" /\ g.type = h.type
            /\ g.cmd = h.cmd /\ ~g.init
PROOF
<1> DEFINE search == h.type \in {"LT2244", "SM2236"}
           found == h.cmd.page > 0 /\ h.data = <<"info", TabPage>>
           ready == [h EXCEPT !.pc = "ready", !.init = FALSE]
           x == [h EXCEPT !.match = v, !.junk = Junk(h)]
           next == Info(h.cmd.page + 1, 1)
           first == Info(0, IF search THEN 2 ELSE 1)
<1>1. /\ DOMAIN ready = HostFields /\ ready.pc = "ready" /\ ready.type = h.type
      /\ ready.cmd = h.cmd /\ ~ready.init
  BY DEF HostFields
<1>2. DOMAIN x = HostFields /\ x.type = h.type  BY DEF HostFields
<1>3. Sfr.op \in Asked /\ next.op \in Asked /\ first.op \in Asked
  BY DEF Sfr, Info, NoCommand, Asked
<1>4. CASE h.cmd.op = "fid"
  <2>1. g = ready \/ g = Call(x, Sfr, <<"zero">>)  BY <1>4 DEF Initialize
  <2>. HIDE DEF ready, x
  <2>. QED  BY <1>1, <1>2, <1>3, <2>1
<1>5. CASE h.cmd.op = "sfr"
  <2>1. g = Call(h, first, <<"zero">>) \/ g = ready  BY <1>5 DEF Initialize
  <2>. HIDE DEF ready, first
  <2>. QED  BY <1>1, <1>3, <2>1
<1>6. CASE h.cmd.op = "info"
  <2>1. g = Call(h, next, h.data) \/ g = ready  BY <1>6 DEF Initialize
  <2>. HIDE DEF ready, next
  <2>. QED  BY <1>1, <1>3, <2>1
<1>. QED  BY <1>4, <1>5, <1>6 DEF Asked

(* The access that carries the data.                                       *)
LEMMA DataDone ==
  ASSUME ChannelInv, NEW o, NEW h, Done(o, h), host.pc = "data"
  PROVE  ChannelInv'
PROOF
<1>1. DevOK(dev) /\ HostOK(host)  BY DEF ChannelInv, Fields
<1>2. /\ DOMAIN h = HostFields /\ h.type = Signature /\ h.type # "SM2246"
      /\ h.cmd = host.cmd /\ (h.init <=> host.init) /\ (h.init => h.cmd.op \in Asked)
  BY <1>1 DEF Done, HostOK, ChannelInv, Locks, Mine
<1>3. locked'  BY DEF Done
<1>4. seen'.lost = 0 => dev'.vds = 0 /\ ~seen'.unsent
  <2>1. SUFFICES ASSUME seen'.lost = 0  PROVE dev'.vds = 0 /\ ~seen'.unsent
    OBVIOUS
  <2>2. seen.lost = 0 /\ o = "ok" /\ ~seen.unsent /\ ~seen'.unsent
    BY <2>1, Losses DEF ChannelInv, NoLoss
  <2>3. dev.vds = 6  BY <2>2 DEF ChannelInv, InStep, VdsData
  <2>4. NextStatus(dev, Access(host)) = 0  BY <2>3 DEF NextStatus, VdsData
  <2>. QED  BY <2>2, <2>4, HostKeeps
<1>5. \/ \E x, c, data : /\ DOMAIN x = HostFields /\ x.type = h.type
                         /\ c.op \in Asked /\ host' = Call(x, c, data)
      \/ /\ DOMAIN host' = HostFields /\ host'.pc \in {"ready", "failed"} /\ host'.type = h.type
         /\ host'.cmd = h.cmd /\ (host'.pc = "ready" => ~host'.init)
  <2>1. h.pc = "data" /\ host' \in Advance(h)  BY DEF Done
  <2>2. host' \in IF h.init THEN {Initialize(h, v) : v \in InfoFlags(h)} \cup Threw(h)
                  ELSE {[h EXCEPT !.pc = "ready"]}
    BY <2>1 DEF Advance
  <2>3. CASE h.init
    <3>1. CASE host' \in {Initialize(h, v) : v \in InfoFlags(h)}
      <4>1. PICK v : host' = Initialize(h, v)  BY <3>1
      <4>. QED  BY <1>2, <2>3, <4>1, InitializeIs
    <3>2. CASE host' \in Threw(h)
      <4>1. host' = [h EXCEPT !.pc = "failed", !.step = 0]  BY <3>2 DEF Threw
      <4>. QED  BY <1>2, <4>1 DEF HostFields
    <3>. QED  BY <2>2, <2>3, <3>1, <3>2
  <2>4. CASE ~h.init
    <3>1. host' = [h EXCEPT !.pc = "ready"]  BY <2>2, <2>4
    <3>. QED  BY <1>2, <2>4, <3>1 DEF HostFields
  <2>. QED  BY <2>3, <2>4
<1>6. CASE \E x, c, data : /\ DOMAIN x = HostFields /\ x.type = h.type
                           /\ c.op \in Asked /\ host' = Call(x, c, data)
  BY <1>2, <1>3, <1>4, <1>6, Called
<1>7. CASE /\ DOMAIN host' = HostFields /\ host'.pc \in {"ready", "failed"} /\ host'.type = h.type
           /\ host'.cmd = h.cmd /\ (host'.pc = "ready" => ~host'.init)
  <2>1. HostOK(host')  BY <1>1, <1>2, <1>7 DEF HostOK, Mine
  <2>2. Fields' /\ Intact'  BY <2>1, HostKeeps DEF Fields
  <2>3. Locks' /\ InStep' /\ Tries'  BY <1>3, <1>7 DEF Locks, InStep, Tries, Mine
  <2>4. NoLoss'  BY <1>4, <1>7 DEF NoLoss
  <2>5. seen'.lost = 0 => seen.lost = 0  BY Losses
  <2>6. Alone'  BY <1>4, <1>7, <2>5, Losses DEF ChannelInv, Alone, LocksFirst, Mine
  <2>. QED  BY <2>2, <2>3, <2>4, <2>6 DEF ChannelInv
<1>. QED  BY <1>5, <1>6, <1>7

(* Every access of the host keeps the invariant.                           *)
LEMMA HostInv == ChannelInv /\ HostAccess => ChannelInv'
PROOF
<1> SUFFICES ASSUME ChannelInv, HostAccess  PROVE ChannelInv'
  OBVIOUS
<1>1. PICK o, h : Done(o, h)  BY HostDone
<1>2. HostOK(host)  BY DEF ChannelInv, Fields
<1>3. CASE host.pc = "probe"
  <2>1. host.step < 5 \/ host.step = 5 \/ host.step = 6  BY <1>2, <1>3 DEF HostOK
  <2>. QED  BY <1>1, <1>3, <2>1, KeySent, ProbeAnswered, ProbeEnded
<1>4. CASE host.pc = "keys"
  <2>1. host.step < 5 \/ host.step = 5  BY <1>2, <1>4 DEF HostOK
  <2>. QED  BY <1>1, <1>4, <2>1, KeySent, KeysAnswered
<1>5. CASE host.pc = "command"  BY <1>1, <1>5, CommandSent
<1>6. CASE host.pc = "data"  BY <1>1, <1>6, DataDone
<1>. QED  BY <1>1, <1>3, <1>4, <1>5, <1>6 DEF Done

(* Every step keeps the invariant.                                         *)
LEMMA StepInv == ChannelInv /\ [Next]_vars => ChannelInv'
PROOF
<1> SUFFICES ASSUME ChannelInv, [Next]_vars  PROVE ChannelInv'
  OBVIOUS
<1>1. CASE UNCHANGED vars
  <2>. USE <1>1 DEF vars, ChannelInv
  <2>1. Fields' /\ Locks' /\ InStep'  BY DEF Fields, Locks, InStep
  <2>2. Intact' /\ NoLoss'  BY DEF Intact, NoLoss
  <2>3. Tries'  BY DEF Tries, Paid
  <2>4. Alone'  BY DEF Alone
  <2>. QED  BY <2>1, <2>2, <2>3, <2>4
<1>2. CASE Open  BY <1>2, OpenInv
<1>3. CASE HostAccess  BY <1>3, HostInv
<1>4. CASE Close  BY <1>4, CloseInv
<1>5. CASE \E c \in Commands : StartCommand(c)  BY <1>5, StartInv
<1>6. CASE \E s \in Shared : UserRead(s) \/ UserWrite(s)  BY <1>6, ReadInv, WriteInv
<1>. QED  BY <1>1, <1>2, <1>3, <1>4, <1>5, <1>6 DEF Next
-----------------------------------------------------------------------------
(* The invariant holds in every behaviour, whatever the device, the list   *)
(* of recognizers, the number of tries and the accesses that are lost.     *)
THEOREM ChannelAlwaysInv == Spec => []ChannelInv
PROOF
<1>1. Init => ChannelInv  BY InitInv
<1>2. ChannelInv /\ [Next]_vars => ChannelInv'  BY StepInv
<1>. QED  BY <1>1, <1>2, PTL DEF Spec

(* A sector of the user differs from what the user wrote only after a      *)
(* command write was lost or a vendor command took the user's write for a  *)
(* part of itself, and the latter takes a loss too when the volume is      *)
(* locked before the first key.                                            *)
THEOREM SectorsAlwaysIntact == Spec => []UserSectorsIntact
PROOF
<1>1. ChannelInv => UserSectorsIntact
  BY DEF ChannelInv, Fields, Intact, Alone, UserSectorsIntact
<1>. QED  BY <1>1, ChannelAlwaysInv, PTL

(* VendorCommand gives a device up, and the search ends without a device   *)
(* that is there, only after accesses were lost.                           *)
THEOREM AlwaysGivesUpOnlyAfterLosses == Spec => []GivesUpOnlyAfterLosses
PROOF
<1>1. ChannelInv => GivesUpOnlyAfterLosses
  BY DEF ChannelInv, Fields, Tries, Alone, GivesUpOnlyAfterLosses
<1>. QED  BY <1>1, ChannelAlwaysInv, PTL
-----------------------------------------------------------------------------
(* What the device has run for the present VendorCommand.  A device that   *)
(* waits for data while the host sends keys has lost an access before, and *)
(* has lost every key since: a key that arrives takes it out.  With the    *)
(* fifth key, which goes to the command's sector, it would run an earlier  *)
(* command.  The host's data finds the device with the host's command, or  *)
(* still waiting for it.                                                   *)
Running ==
  /\ host.pc = "keys" /\ dev.vds = VdsData => seen.lost >= host.step
  /\ host.pc = "data" => \/ dev.vds = VdsData /\ dev.cmd = host.cmd
                         \/ dev.vds = VdsCmd /\ ~seen.clean
  /\ seen.lost < 5 =>
       /\ host.pc \in Mine => seen.ran = <<>>
       /\ host.pc = "ready" /\ host.type # "SM2246" =>
            seen.ran = <<host.cmd>> \/ (seen.ran = <<>> /\ ~seen.clean)

(* Only an access of the command's sector runs what the device waits with. *)
LEMMA RunsIs ==
  ASSUME NEW d, DevOK(d), NEW a
  PROVE  Runs(d, a) <=> d.vds = 6 /\ a.lba = Vendor
  BY FitsIs DEF Runs, VdsData

(* A try begins with a device that waits for data only after a loss; said  *)
(* of the state a step leads to, which is where it is needed.              *)
LEMMA WaitsAfterLoss ==
  ASSUME ChannelInv', host'.pc = "keys", host'.step = 1, dev'.vds = 6
  PROVE  seen'.lost >= 1
PROOF
<1>1. HostOK(host') /\ seen'.lost \in Nat  BY DEF ChannelInv, Fields
<1>2. host'.left \in 1 .. Retry /\ Retry \in Nat  BY <1>1, VendorAssumption DEF HostOK
<1>3. Tries'  BY DEF ChannelInv
<1>4. \/ dev'.vds = host'.step - 1 /\ Paid' >= 0
      \/ Paid' >= 1
      \/ Paid' >= 2
  BY <1>3 DEF Tries
<1>5. Paid' \in Int  BY <1>1, <1>2 DEF Paid
<1>6. Paid' >= 1  BY <1>4, <1>5
<1>. QED  BY <1>1, <1>2, <1>6 DEF Paid

(* A recognizer leads to the next one, or to the device it recognized.     *)
LEMMA ProbeLeads ==
  ASSUME ChannelInv, NEW o, NEW h, Done(o, h), host.pc = "probe"
  PROVE  \/ host'.pc \in {"probe", "absent"}
         \/ host'.pc = "ready" /\ host'.type = "SM2246"
         \/ host'.pc = "keys" /\ host'.step = 1
PROOF
<1>1. HostOK(host)  BY DEF ChannelInv, Fields
<1>2. h.pc = "probe" /\ h.step = host.step /\ host' \in Advance(h) /\ DOMAIN h = HostFields
  BY DEF Done
<1>3. CASE h.step < 5
  <2>1. host' = [h EXCEPT !.step = @ + 1]  BY <1>2, <1>3 DEF Advance
  <2>. QED  BY <1>2, <2>1 DEF HostFields
<1>4. CASE h.step = 5
  <2>1. host' = [h EXCEPT !.step = 6, !.match = h.key = <<"signature">> /\ Probed[h.probe] = Signature]
    BY <1>2, <1>4 DEF Advance
  <2>. QED  BY <1>2, <2>1 DEF HostFields
<1>5. CASE h.step = 6
  <2>1. host' = NextProbe(h)  BY <1>2, <1>5 DEF Advance
  <2>2. CASE h.match /\ Probed[h.probe] # "SM2246"
    <3>1. PICK c : DOMAIN c = HostFields /\ host' = Call(c, FlashId, <<"zero">>)
      BY <1>2, <2>1, <2>2, NextProbeIs
    <3>. QED  BY <3>1, CallIs
  <2>3. CASE ~(h.match /\ Probed[h.probe] # "SM2246")
    BY <1>2, <2>1, <2>3, NextProbeIs
  <2>. QED  BY <2>2, <2>3
<1>. QED  BY <1>1, <1>2, <1>3, <1>4, <1>5 DEF HostOK

(* The command, when it arrives, is what the device waits with.            *)
LEMMA CommandArrives ==
  ASSUME ChannelInv, NEW o, NEW h, Done(o, h), host.pc = "command", o # "lost"
  PROVE  dev'.vds = 6 /\ dev'.cmd = host.cmd
PROOF
<1> DEFINE a == WriteTo(Vendor, 1, <<"cmd", host.cmd>>)
           s == [dev EXCEPT !.vds = NextStatus(dev, a)]
<1>1. DevOK(dev) /\ dev.vds = 5  BY DEF ChannelInv, Fields, InStep, VdsCmd
<1>2. /\ a.rw = "write" /\ a.secs = 1 /\ a.lba = Vendor
      /\ a.data[1] = "cmd" /\ a.data[2] = host.cmd
  BY DEF WriteTo
<1>3. Access(host) = a  BY DEF Access
<1> HIDE DEF a
<1>4. Fits(dev, a) /\ ~Runs(dev, a)  BY <1>1, <1>2, FitsIs, RunsIs
<1>5. dev' = Received(dev, a)  BY <1>2, <1>3, VendorShared DEF Done, Deliver
<1>6. dev' = [s EXCEPT !.cmd = host.cmd]
  BY <1>1, <1>2, <1>4, <1>5 DEF Received, VdsCmd
<1>7. NextStatus(dev, a) = 6  BY <1>1, <1>4 DEF NextStatus, VdsData
<1>. QED  BY <1>1, <1>6, <1>7 DEF DevOK, DevFields

(* A key that is not the last runs nothing.                                *)
LEMMA KeyRuns ==
  ASSUME ChannelInv, ChannelInv', Running, NEW o, NEW h, Done(o, h), Told(o), host.pc = "keys",
         host.step < 5
  PROVE  Running'
PROOF
<1> DEFINE k == host.step
<1>1. DevOK(dev) /\ HostOK(host)  BY DEF ChannelInv, Fields
<1>2. k \in 1 .. 4 /\ k \in 1 .. 5  BY <1>1 DEF HostOK
<1>3. Access(host) = Read(KeySeq[k], 1)  BY <1>2 DEF Access
<1>4. host' = [h EXCEPT !.step = @ + 1]
  <2>1. h.pc = "keys" /\ h.step < 5 /\ host' \in Advance(h)  BY DEF Done
  <2>. QED  BY <2>1 DEF Advance
<1>5. host'.pc = "keys" /\ host'.step = k + 1  BY <1>4 DEF Done, HostFields
<1>6. ~Runs(dev, Access(host))
  <2>1. Access(host).lba # Vendor  BY <1>2, <1>3, Keys DEF Read
  <2>. QED  BY <1>1, <2>1, RunsIs
<1>7. seen'.ran = seen.ran  BY <1>5, <1>6 DEF Told
<1>8. dev'.vds = 6 => seen'.lost >= k + 1
  <2>1. SUFFICES ASSUME dev'.vds = 6  PROVE seen'.lost >= k + 1
    OBVIOUS
  <2>2. o = "lost"
    <3>1. NextStatus(dev, Read(KeySeq[k], 1)) # 6  BY <1>1, <1>2, KeyStatus
    <3>. QED  BY <1>3, <2>1, <3>1, HostKeeps
  <2>3. dev.vds = 6
    <3>1. dev' = dev  BY <2>2 DEF Done
    <3>. QED  BY <2>1, <3>1
  <2>4. seen'.lost = seen.lost + 1 /\ seen.lost >= k  BY <2>2, <2>3, Losses DEF Running, VdsData
  <2>. QED  BY <1>2, <2>4, Losses
<1>9. seen'.lost < 5 => seen.lost < 5  BY Losses
<1>. QED  BY <1>5, <1>7, <1>8, <1>9 DEF Running, Mine, VdsData

(* Nor does the last one, unless five accesses were lost.                  *)
LEMMA LastKeyRuns ==
  ASSUME ChannelInv, ChannelInv', Running, NEW o, NEW h, Done(o, h), Told(o), host.pc = "keys",
         host.step = 5
  PROVE  Running'
PROOF
<1>1. DevOK(dev)  BY DEF ChannelInv, Fields
<1>2. \/ host'.pc \in {"command", "gave_up"}
      \/ host'.pc = "keys" /\ host'.step = 1
  <2>1. host' = NextTry(h) /\ DOMAIN h = HostFields /\ h.pc = "keys"
    <3>1. h.pc = "keys" /\ h.step = 5 /\ host' \in Advance(h)  BY DEF Done
    <3>. QED  BY <3>1 DEF Advance, Done
  <2>2. \/ host' = [h EXCEPT !.pc = "command", !.step = 0]
        \/ host' = [h EXCEPT !.pc = "gave_up", !.step = 0]
        \/ host' = [h EXCEPT !.step = 1, !.left = @ - 1]
    BY <2>1 DEF NextTry
  <2>. QED  BY <2>1, <2>2 DEF HostFields
<1>3. host'.pc = "keys" /\ dev'.vds = 6 => seen'.lost >= host'.step
  <2>1. SUFFICES ASSUME host'.pc = "keys", dev'.vds = 6  PROVE seen'.lost >= host'.step
    OBVIOUS
  <2>2. host'.step = 1  BY <1>2, <2>1
  <2>3. host'.pc = "keys" /\ host'.step = 1 /\ dev'.vds = 6  BY <2>1, <2>2
  <2>4. seen'.lost >= 1  BY <2>3, WaitsAfterLoss
  <2>. QED  BY <2>2, <2>4
<1>4. seen'.lost < 5 => seen.lost < 5 /\ seen'.ran = seen.ran
  <2>1. SUFFICES ASSUME seen'.lost < 5  PROVE seen.lost < 5 /\ seen'.ran = seen.ran
    OBVIOUS
  <2>2. seen.lost < 5  BY <2>1, Losses
  <2>3. dev.vds # 6  BY <2>2, Losses DEF Running, VdsData
  <2>4. ~Runs(dev, Access(host))  BY <1>1, <2>3, RunsIs
  <2>. QED  BY <2>2, <2>4 DEF Told
<1>. QED  BY <1>2, <1>3, <1>4 DEF Running, Mine, VdsData

(* The command runs nothing either, and waits for its data if it arrived.  *)
LEMMA CommandRuns ==
  ASSUME ChannelInv, Running, NEW o, NEW h, Done(o, h), Told(o), host.pc = "command"
  PROVE  Running'
PROOF
<1>1. DevOK(dev) /\ dev.vds = 5  BY DEF ChannelInv, Fields, InStep, VdsCmd
<1>2. host' = [h EXCEPT !.pc = "data"]
  <2>1. h.pc = "command" /\ host' \in Advance(h)  BY DEF Done
  <2>. QED  BY <2>1 DEF Advance
<1>3. host'.pc = "data" /\ host'.cmd = host.cmd  BY <1>2 DEF Done, HostFields
<1>4. ~Runs(dev, Access(host))  BY <1>1, RunsIs
<1>5. seen'.ran = seen.ran /\ (seen'.clean => o = "ok")  BY <1>3, <1>4 DEF Told
<1>6. \/ dev'.vds = 6 /\ dev'.cmd = host.cmd
      \/ dev'.vds = 5 /\ ~seen'.clean
  <2>1. CASE o = "lost"
    <3>1. dev' = dev  BY <2>1 DEF Done
    <3>. QED  BY <1>1, <1>5, <2>1, <3>1
  <2>2. CASE o # "lost"  BY <2>2, CommandArrives
  <2>. QED  BY <2>1, <2>2
<1>7. seen'.lost < 5 => seen.lost < 5  BY Losses
<1>. QED  BY <1>3, <1>5, <1>6, <1>7 DEF Running, Mine, VdsData, VdsCmd

(* The data makes the device run the host's command, if both arrived.      *)
LEMMA DataRuns ==
  ASSUME ChannelInv, ChannelInv', Running, NEW o, NEW h, Done(o, h), Told(o), host.pc = "data"
  PROVE  Running'
PROOF
<1>1. DevOK(dev) /\ HostOK(host)  BY DEF ChannelInv, Fields
<1>2. /\ DOMAIN h = HostFields /\ h.pc = "data" /\ h.cmd = host.cmd /\ (h.init <=> host.init)
      /\ host' \in Advance(h) /\ (h.init => h.cmd.op \in Asked)
  BY <1>1 DEF Done, HostOK, Mine
<1>3. \/ host'.pc = "keys" /\ host'.step = 1
      \/ host'.pc = "ready" /\ host'.cmd = host.cmd
      \/ host'.pc = "failed"
  <2>1. CASE h.init
    <3>1. host' \in {Initialize(h, v) : v \in InfoFlags(h)} \cup Threw(h)
      BY <1>2, <2>1 DEF Advance
    <3>2. CASE host' \in {Initialize(h, v) : v \in InfoFlags(h)}
      <4>1. PICK v : host' = Initialize(h, v)  BY <3>2
      <4>2. \/ \E x, c, data : DOMAIN x = HostFields /\ host' = Call(x, c, data)
            \/ host'.pc = "ready" /\ host'.cmd = h.cmd
        BY <1>2, <2>1, <4>1, InitializeIs
      <4>. QED  BY <1>2, <4>2, CallIs
    <3>3. CASE host' \in Threw(h)
      <4>1. host' = [h EXCEPT !.pc = "failed", !.step = 0]  BY <3>3 DEF Threw
      <4>. QED  BY <1>2, <4>1 DEF HostFields
    <3>. QED  BY <3>1, <3>2, <3>3
  <2>2. CASE ~h.init
    <3>1. host' = [h EXCEPT !.pc = "ready"]  BY <1>2, <2>2 DEF Advance
    <3>. QED  BY <1>2, <3>1 DEF HostFields
  <2>. QED  BY <2>1, <2>2
<1>4. seen'.lost < 5 => seen.lost < 5  BY Losses
<1>5. CASE host'.pc = "keys" /\ host'.step = 1
  <2>1. seen'.ran = <<>>  BY <1>5 DEF Told
  <2>2. dev'.vds = 6 => seen'.lost >= host'.step
    <3>1. SUFFICES ASSUME dev'.vds = 6  PROVE seen'.lost >= host'.step
      OBVIOUS
    <3>2. host'.pc = "keys" /\ host'.step = 1 /\ dev'.vds = 6  BY <1>5, <3>1
    <3>3. seen'.lost >= 1  BY <3>2, WaitsAfterLoss
    <3>. QED  BY <1>5, <3>3
  <2>. QED  BY <1>5, <2>1, <2>2 DEF Running, Mine, VdsData
<1>6. CASE host'.pc = "ready" /\ host'.cmd = host.cmd
  <2>1. /\ seen'.ran = IF o # "lost" /\ Runs(dev, Access(host)) THEN Append(seen.ran, dev.cmd) ELSE seen.ran
        /\ seen'.clean => seen.clean /\ o = "ok"
    BY <1>6 DEF Told
  <2>2. Access(host).lba = Vendor  BY DEF Access, Read, WriteTo
  <2>3. Runs(dev, Access(host)) <=> dev.vds = 6  BY <1>1, <2>2, RunsIs
  <2>4. \/ dev.vds = 6 /\ dev.cmd = host.cmd
        \/ dev.vds = 5 /\ ~seen.clean
    BY DEF Running, VdsData, VdsCmd
  <2>5. ASSUME seen'.lost < 5
        PROVE  seen'.ran = <<host.cmd>> \/ (seen'.ran = <<>> /\ ~seen'.clean)
    <3>1. seen.ran = <<>>  BY <1>4, <2>5 DEF Running, Mine
    <3>2. Append(<<>>, host.cmd) = <<host.cmd>>  OBVIOUS
    <3>. QED  BY <2>1, <2>3, <2>4, <3>1, <3>2
  <2>. QED  BY <1>6, <2>5 DEF Running, Mine
<1>7. CASE host'.pc = "failed"  BY <1>7 DEF Running, Mine
<1>. QED  BY <1>3, <1>5, <1>6, <1>7

(* Every access of the host keeps what is said of the commands run.        *)
LEMMA HostRuns == ChannelInv /\ ChannelInv' /\ Running /\ HostAccess => Running'
PROOF
<1> SUFFICES ASSUME ChannelInv, ChannelInv', Running, HostAccess  PROVE Running'
  OBVIOUS
<1>1. PICK o, h : Done(o, h) /\ Told(o)  BY HostDone
<1>2. HostOK(host)  BY DEF ChannelInv, Fields
<1>3. CASE host.pc = "probe"
  <2>1. \/ host'.pc \in {"probe", "absent"}
        \/ host'.pc = "ready" /\ host'.type = "SM2246"
        \/ host'.pc = "keys" /\ host'.step = 1
    BY <1>1, <1>3, ProbeLeads
  <2>2. CASE host'.pc = "keys" /\ host'.step = 1
    <3>1. seen'.ran = <<>>  BY <1>1, <1>3, <2>2 DEF Told
    <3>2. dev'.vds = 6 => seen'.lost >= host'.step
      <4>1. SUFFICES ASSUME dev'.vds = 6  PROVE seen'.lost >= host'.step
        OBVIOUS
      <4>2. host'.pc = "keys" /\ host'.step = 1 /\ dev'.vds = 6  BY <2>2, <4>1
      <4>3. seen'.lost >= 1  BY <4>2, WaitsAfterLoss
      <4>. QED  BY <2>2, <4>3
    <3>. QED  BY <2>2, <3>1, <3>2 DEF Running, Mine, VdsData
  <2>3. CASE ~(host'.pc = "keys" /\ host'.step = 1)  BY <2>1, <2>3 DEF Running, Mine
  <2>. QED  BY <2>2, <2>3
<1>4. CASE host.pc = "keys"
  <2>1. host.step < 5 \/ host.step = 5  BY <1>2, <1>4 DEF HostOK
  <2>. QED  BY <1>1, <1>4, <2>1, KeyRuns, LastKeyRuns
<1>5. CASE host.pc = "command"  BY <1>1, <1>5, CommandRuns
<1>6. CASE host.pc = "data"  BY <1>1, <1>6, DataRuns
<1>. QED  BY <1>1, <1>3, <1>4, <1>5, <1>6 DEF Done

(* Every step keeps it: the user is locked out of a VendorCommand.         *)
LEMMA StepRuns == ChannelInv /\ Running /\ [Next]_vars => Running'
PROOF
<1> SUFFICES ASSUME ChannelInv, Running, [Next]_vars  PROVE Running'
  OBVIOUS
<1>1. ChannelInv'  BY StepInv
<1>2. CASE UNCHANGED vars  BY <1>2 DEF vars, Running
<1>3. CASE Open
  <2>1. host'.pc = "probe"  BY <1>3 DEF Open, NoHost
  <2>. QED  BY <2>1 DEF Running, Mine
<1>4. CASE HostAccess  BY <1>1, <1>4, HostRuns
<1>5. CASE Close
  <2>1. host'.pc = "closed"  BY <1>5 DEF Close, NoHost
  <2>. QED  BY <2>1 DEF Running, Mine
<1>6. ASSUME NEW c \in Commands, StartCommand(c)  PROVE Running'
  <2>1. host' = Call(host, c, <<"zero">>)  BY <1>6 DEF StartCommand
  <2>2. host'.pc = "keys" /\ host'.step = 1  BY <2>1, CallIs DEF ChannelInv, Fields, HostOK
  <2>3. seen'.ran = <<>>  BY <1>6 DEF StartCommand, ChannelInv, Fields, SeenFields
  <2>4. dev'.vds = 6 => seen'.lost >= host'.step
    <3>1. SUFFICES ASSUME dev'.vds = 6  PROVE seen'.lost >= host'.step
      OBVIOUS
    <3>2. host'.pc = "keys" /\ host'.step = 1 /\ dev'.vds = 6  BY <2>2, <3>1
    <3>3. seen'.lost >= 1  BY <1>1, <3>2, WaitsAfterLoss
    <3>. QED  BY <2>2, <3>3
  <2>. QED  BY <2>2, <2>3, <2>4 DEF Running, Mine, VdsData
<1>7. ASSUME NEW s \in Shared, UserRead(s) \/ UserWrite(s)  PROVE Running'
  <2>1. ~locked /\ host' = host  BY <1>7 DEF UserRead, UserWrite
  <2>2. host.pc \notin Mine /\ (host.pc = "ready" => host.type = "SM2246")
    BY <2>1 DEF ChannelInv, Locks, Mine
  <2>. QED  BY <2>1, <2>2 DEF Running, Mine
<1>. QED  BY <1>2, <1>3, <1>4, <1>5, <1>6, <1>7 DEF Next

(* What the device has run, in every behaviour.                            *)
THEOREM RunningAlwaysInv == Spec => []Running
PROOF
<1>1. Init => ChannelInv /\ Running
  <2>1. Init => host.pc = "new"  BY DEF Init, NoHost
  <2>. QED  BY <2>1, InitInv DEF Running, Mine
<1>2. ChannelInv /\ Running /\ [Next]_vars => (ChannelInv /\ Running)'  BY StepInv, StepRuns
<1>. QED  BY <1>1, <1>2, PTL DEF Spec

(* With fewer than five lost accesses the device runs the command it is    *)
(* given, once or not at all, and once if command and data arrived.        *)
THEOREM AlwaysRunsItsCommandOnce == Spec => []RunsItsCommandOnce
PROOF
<1>1. ChannelInv /\ Running => RunsItsCommandOnce
  BY DEF Running, RunsItsCommandOnce, Mine
<1>. QED  BY <1>1, ChannelAlwaysInv, RunningAlwaysInv, PTL
=============================================================================
