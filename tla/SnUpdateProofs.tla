---------------------------- MODULE SnUpdateProofs ----------------------------
(***************************************************************************)
(* Theorems about SnUpdate, for every set of serial numbers and however    *)
(* deep runs are nested: what a good verdict means, that the card is off   *)
(* when nobody works on it, and when a run takes the process down.         *)
(***************************************************************************)
EXTENDS SnUpdate, TLAPS

Values == Texts \cup {Factory}
Writing == {"download", "readback", "poweroff", "poweron", "reread"}
Verified == {"external", "reconnect", "runtime", "complete"}
Opened == {"found", "loading", "verify", "caution", "runtime", "complete"} \cup Writing
Closed == {"external", "reconnect"}
Fresh == {"start", "scan", "end"}
Early == {"start", "scan", "found", "loading"}
Pcs == Fresh \cup Opened \cup Closed \cup {"ng", "finish"}

RunType == [pc : Pcs, enter : BOOLEAN, dev : {"none", "open", "closed"}, sn : Values,
            isp : Values, verify : BOOLEAN, tries : Nat, exit : {0, 1},
            reset : BOOLEAN, nested : BOOLEAN]
CardType == [power : BOOLEAN, isp : Values \X Values, id : Values]
UiFields == {"text", "input", "isSet", "start", "set"}
PastFields == {"starts", "sets", "faults", "logged", "leftOn", "unsaved"}
Types ==
  /\ mode \in {"update", "verify"} /\ card \in CardType /\ runs \in Seq(RunType)
  /\ factory \in BOOLEAN /\ alive \in BOOLEAN
  /\ DOMAIN ui = UiFields /\ ui.text \in Texts /\ ui.input \in Texts
  /\ DOMAIN past = PastFields

(* Of a run r, whether it is the innermost or not, with a card c, a mode m *)
(* and a number u set by the user: it has a device from the scan to the    *)
(* end, and as long as the user sets no other number, the numbers it holds *)
(* are the one the user set and, once it has verified the card, the card's.*)
RunOK(r, c, m, u) ==
  /\ r.pc \in Fresh => r.dev = "none"
  /\ r.pc \in Opened => r.dev = "open"
  /\ r.pc \in Closed => r.dev = "closed"
  /\ ~r.verify => m = "verify" /\ r.sn = Factory /\ r.pc \notin Early
  /\ m = "verify" => r.pc \notin Writing
  /\ ~r.reset /\ r.pc # "start" /\ r.verify => r.sn = u
  /\ ~r.reset /\ r.pc \in Writing \cup {"verify"} /\ m = "update" => r.isp = u
  /\ ~r.reset /\ r.pc \in Verified => c.id = r.sn /\ (m = "update" => c.isp = <<r.sn, r.sn>>)

(* Of the innermost run: what it knows of the card before it lets anything *)
(* else happen, and for longer when nothing has been nested in it.         *)
TopOK(r, c, m) ==
  /\ r.pc = "verify" /\ m = "update" => c.isp = <<r.isp, r.isp>>
  /\ ~r.nested =>
       /\ r.pc \in ({"found", "loading", "verify"} \cup Writing) \ {"poweron"} => c.power
       /\ r.dev = "closed" =>
            c.power /\ (m = "update" => c.isp = <<r.isp, r.isp>> /\ (r.reset \/ c.id = r.isp))

(* The stack of runs: the outer ones stand in a pump, and a number set     *)
(* while an inner run was active was set while the outer ones were.        *)
Stack ==
  /\ \A i \in 1 .. Len(runs) : RunOK(runs[i], card, mode, ui.input)
  /\ Len(runs) > 0 => TopOK(runs[1], card, mode)
  /\ \A i \in 2 .. Len(runs) : runs[i].pc \in Pumps /\ runs[i].nested
  /\ \A i, j \in 1 .. Len(runs) : i < j /\ runs[i].reset => runs[j].reset

(* A tool that only verifies changes no card.                              *)
Untouched(c) == mode = "verify" => c.isp = <<Factory, Factory>> /\ c.id = Factory

(* Who keeps the card powered, and what took the process down.             *)
PoweredBySomeone == card.power => past.leftOn \/ \E i \in 1 .. Len(runs) : runs[i].dev # "none"
Died == ~alive /\ factory => Len(runs) > 0 /\ runs[1].dev = "closed"

SnInv == Types /\ Stack /\ Untouched(card) /\ PoweredBySomeone /\ Died
-----------------------------------------------------------------------------
(* The tool starts with no run and no power.                               *)
LEMMA InitInv == Init => SnInv
PROOF
<1> SUFFICES ASSUME Init  PROVE SnInv
  OBVIOUS
<1>1. runs = <<>> /\ Len(runs) = 0 /\ card = NewCard /\ alive  BY DEF Init
<1>2. Types
  BY <1>1 DEF Init, Types, NewCard, CardType, Values, Texts, UiFields, PastFields
<1>3. Stack  BY <1>1 DEF Stack
<1>4. Untouched(card) /\ PoweredBySomeone /\ Died
  BY <1>1 DEF Untouched, PoweredBySomeone, Died, NewCard
<1>. QED  BY <1>2, <1>3, <1>4 DEF SnInv

(* The innermost run changed to r: the outer ones stay as they are.        *)
LEMMA TopReplaced ==
  ASSUME runs \in Seq(RunType), runs # <<>>, NEW r \in RunType, Replace(r)
  PROVE  /\ runs' \in Seq(RunType) /\ Len(runs') = Len(runs) /\ Len(runs) \in Nat /\ Len(runs) > 0
         /\ Top = runs[1] /\ runs'[1] = r
         /\ \A i \in 2 .. Len(runs) : runs'[i] = runs[i]
PROOF
<1>1. Tail(runs) \in Seq(RunType) /\ Len(Tail(runs)) = Len(runs) - 1 /\ Len(runs) \in Nat /\ Len(runs) > 0
  OBVIOUS
<1>2. runs' = <<r>> \o Tail(runs)  BY DEF Replace
<1>3. <<r>> \in Seq(RunType) /\ Len(<<r>>) = 1  OBVIOUS
<1>4. runs' \in Seq(RunType) /\ Len(runs') = Len(runs)  BY <1>1, <1>2, <1>3
<1>5. \A i \in 2 .. Len(runs) : runs'[i] = Tail(runs)[i - 1]  BY <1>1, <1>2, <1>3
<1>6. \A i \in 2 .. Len(runs) : Tail(runs)[i - 1] = runs[i]  BY <1>1
<1>. QED  BY <1>1, <1>2, <1>3, <1>4, <1>5, <1>6 DEF Top

(* A step of one run to r on the card d keeps what the outer runs know, as *)
(* long as it writes into the card only what it should: what it writes is  *)
(* the number of every outer run, unless the user set another meanwhile.   *)
Harmless(d) ==
  /\ d \in CardType
  /\ \/ d.isp = card.isp /\ d.id \in {card.id, card.isp[1]}
     \/ /\ Top.pc = "download" /\ d.id = card.id
        /\ \E a \in {card.isp[1], Top.isp} : \E b \in {card.isp[2], Top.isp} : d.isp = <<a, b>>

LEMMA HarmlessKeeps ==
  ASSUME SnInv, runs # <<>>, NEW d, Harmless(d), NEW i \in 2 .. Len(runs)
  PROVE  RunOK(runs[i], d, mode, ui.input)
PROOF
<1>1. Top = runs[1] /\ Len(runs) \in Nat /\ Len(runs) > 0  BY DEF SnInv, Types, Top
<1>2. /\ runs[i] \in RunType /\ RunOK(runs[i], card, mode, ui.input) /\ RunOK(Top, card, mode, ui.input)
      /\ Top.reset => runs[i].reset
  BY <1>1 DEF SnInv, Types, Stack
<1>3. Untouched(card) /\ mode \in {"update", "verify"}  BY DEF SnInv, Types
<1>4. SUFFICES ASSUME ~runs[i].reset, runs[i].pc \in Verified
               PROVE  d.id = runs[i].sn /\ (mode = "update" => d.isp = <<runs[i].sn, runs[i].sn>>)
  BY <1>2 DEF RunOK
<1> DEFINE s == runs[i].sn
<1>5. card.id = s /\ (mode = "update" => card.isp = <<s, s>>)  BY <1>2, <1>4 DEF RunOK
<1>6. CASE mode = "verify"
  <2>1. Top.pc \notin Writing  BY <1>2, <1>6 DEF RunOK
  <2>2. d.id \in {card.id, card.isp[1]}  BY <2>1 DEF Harmless, Writing
  <2>. QED  BY <1>3, <1>5, <1>6, <2>2 DEF Untouched
<1>7. CASE mode = "update"
  <2>1. card.isp[1] = s /\ card.isp[2] = s  BY <1>5, <1>7
  <2>2. s = ui.input  BY <1>2, <1>4, <1>7 DEF RunOK, Verified
  <2>3. Top.pc = "download" => Top.isp = s  BY <1>2, <1>4, <1>7, <2>2 DEF RunOK, Writing
  <2>. QED  BY <1>5, <1>7, <2>1, <2>3 DEF Harmless
<1>. QED  BY <1>3, <1>6, <1>7

(* A step of the innermost run that leaves it as r.                        *)
Stepped(r) ==
  /\ r \in RunType /\ Replace(r) /\ (r.reset <=> Top.reset) /\ (r.nested <=> Top.nested)
  /\ mode' = mode /\ factory' = factory /\ alive' = alive
  /\ DOMAIN ui' = UiFields /\ ui'.text \in Texts /\ ui'.input = ui.input
  /\ DOMAIN past' = PastFields

(* Who keeps the card powered after it.                                    *)
StillPowered(r) ==
  card'.power => \/ past'.leftOn \/ r.dev # "none"
                 \/ card.power /\ Top.dev = "none" /\ (past.leftOn => past'.leftOn)

LEMMA RunStep ==
  ASSUME SnInv, alive, runs # <<>>, NEW r, Stepped(r), StillPowered(r),
         Harmless(card'), Untouched(card'),
         RunOK(r, card', mode, ui.input), TopOK(r, card', mode)
  PROVE  SnInv'
PROOF
<1>1. /\ runs' \in Seq(RunType) /\ Len(runs') = Len(runs) /\ Len(runs) \in Nat /\ Len(runs) > 0
      /\ Top = runs[1] /\ runs'[1] = r
      /\ \A i \in 2 .. Len(runs) : runs'[i] = runs[i]
  BY TopReplaced DEF SnInv, Types, Stepped
<1>2. \A i \in 1 .. Len(runs) : i = 1 \/ i \in 2 .. Len(runs)  BY <1>1
<1>3. Types'  BY <1>1 DEF SnInv, Types, Harmless, Stepped
<1>4. mode' = mode /\ ui'.input = ui.input  BY DEF Stepped
<1>5. \A i \in 1 .. Len(runs) : RunOK(runs'[i], card', mode, ui.input)
  BY <1>1, <1>2, HarmlessKeeps
<1>6. \A i \in 2 .. Len(runs) : runs'[i].pc \in Pumps /\ runs'[i].nested
  BY <1>1 DEF SnInv, Stack
<1>7. ASSUME NEW i \in 1 .. Len(runs), NEW j \in 1 .. Len(runs), i < j, runs'[i].reset
      PROVE  runs'[j].reset
  <2>1. j \in 2 .. Len(runs) /\ runs'[j] = runs[j]  BY <1>1, <1>2, <1>7
  <2>2. runs[i].reset  BY <1>1, <1>2, <1>7 DEF Stepped
  <2>. QED  BY <1>7, <2>1, <2>2 DEF SnInv, Stack
<1>8. Stack'  BY <1>1, <1>4, <1>5, <1>6, <1>7 DEF Stack
<1>9. PoweredBySomeone'
  <2>1. SUFFICES ASSUME card'.power, ~past'.leftOn, r.dev = "none"
                 PROVE  \E i \in 1 .. Len(runs) : runs'[i].dev # "none"
    BY <1>1 DEF PoweredBySomeone
  <2>2. card.power /\ Top.dev = "none" /\ ~past.leftOn  BY <2>1 DEF StillPowered
  <2>3. PICK i \in 1 .. Len(runs) : runs[i].dev # "none"
    BY <2>2 DEF SnInv, PoweredBySomeone
  <2>. QED  BY <1>1, <1>2, <2>2, <2>3
<1>10. Untouched(card)' /\ Died'  BY <1>4 DEF Untouched, Died, Stepped
<1>. QED  BY <1>3, <1>8, <1>9, <1>10 DEF SnInv

(* What is known of the innermost run when it takes a step.                *)
LEMMA TopKnown ==
  ASSUME SnInv, runs # <<>>
  PROVE  /\ Top \in RunType /\ RunOK(Top, card, mode, ui.input) /\ TopOK(Top, card, mode)
         /\ card \in CardType /\ Untouched(card) /\ mode \in {"update", "verify"}
         /\ DOMAIN ui = UiFields /\ ui.text \in Texts /\ ui.input \in Texts
         /\ DOMAIN past = PastFields
PROOF
<1>1. Top = runs[1] /\ Len(runs) \in Nat /\ Len(runs) > 0  BY DEF SnInv, Types, Top
<1>. QED  BY <1>1 DEF SnInv, Types, Stack

(* The innermost run with another pc.                                      *)
LEMMA Went ==
  ASSUME NEW t \in RunType, NEW pc \in Pcs, NEW r, r = [t EXCEPT !.pc = pc]
  PROVE  /\ r \in RunType /\ r.pc = pc
         /\ r.dev = t.dev /\ r.sn = t.sn /\ r.isp = t.isp
         /\ (r.verify <=> t.verify) /\ (r.reset <=> t.reset) /\ (r.nested <=> t.nested)
BY DEF RunType

(* Faults are counted and nothing else.                                    *)
LEMMA FaultKeeps ==
  ASSUME DOMAIN past = PastFields, Fault \/ NoFault
  PROVE  DOMAIN past' = PastFields /\ past'.leftOn = past.leftOn
BY DEF Fault, NoFault, PastFields

(* A card that is powered, or not.                                         *)
LEMMA PoweredIs ==
  ASSUME NEW c \in CardType
  PROVE  /\ Powered(c) \in CardType /\ Powered(c).power /\ Powered(c).isp = c.isp
         /\ Powered(c).id \in {c.id, c.isp[1]} /\ (~c.power => Powered(c).id = c.isp[1])
         /\ c.power => Powered(c) = c
         /\ Off(c) \in CardType /\ ~Off(c).power /\ Off(c).isp = c.isp /\ Off(c).id = c.id
PROOF
<1>1. c.isp[1] \in Values  BY DEF CardType
<1>. QED  BY <1>1 DEF CardType, Powered, Off

(* An access to a device that is there, or whose library is gone.          *)
LEMMA CrashInv ==
  ASSUME SnInv, runs # <<>>, Crash, ~factory \/ Top.dev = "closed"
  PROVE  SnInv'
PROOF
<1>1. Top = runs[1] /\ Len(runs) \in Nat /\ Len(runs) > 0  BY DEF SnInv, Types, Top
<1>2. UNCHANGED <<mode, ui, factory, runs, card, log, count, past>> /\ alive' = FALSE  BY DEF Crash
<1>3. Types'  BY <1>2 DEF SnInv, Types
<1>4. Stack'  BY <1>2 DEF SnInv, Stack
<1>5. Untouched(card)' /\ PoweredBySomeone'  BY <1>2 DEF SnInv, Untouched, PoweredBySomeone
<1>6. Died'  BY <1>1, <1>2 DEF Died
<1>. QED  BY <1>3, <1>4, <1>5, <1>6 DEF SnInv

(* A step that moves the innermost run on and leaves the card alone.       *)
LEMMA MovedOn ==
  ASSUME SnInv, alive, runs # <<>>, NEW pc \in Pcs, Goto(pc), card' = card,
         UNCHANGED <<mode, ui, factory, alive>>,
         DOMAIN past' = PastFields, past'.leftOn = past.leftOn,
         RunOK([Top EXCEPT !.pc = pc], card, mode, ui.input), TopOK([Top EXCEPT !.pc = pc], card, mode)
  PROVE  SnInv'
PROOF
<1> DEFINE r == [Top EXCEPT !.pc = pc]
<1>1. Stepped(r)  BY TopKnown, Went DEF Stepped, Goto
<1>2. Harmless(card') /\ Untouched(card')  BY TopKnown DEF Harmless
<1>3. r.dev = Top.dev  BY TopKnown, Went
<1>4. StillPowered(r)  BY <1>3 DEF StillPowered
<1>. HIDE DEF r
<1>5. RunOK(r, card', mode, ui.input) /\ TopOK(r, card', mode)  BY DEF r
<1>. QED  BY <1>1, <1>2, <1>4, <1>5, RunStep
-----------------------------------------------------------------------------
(* A run that goes to its end, or to its verdict "NG".                     *)
LEMMA GaveUp ==
  ASSUME SnInv, alive, runs # <<>>, Top.pc # "start", NEW pc \in {"ng", "finish"}, Goto(pc),
         UNCHANGED <<mode, ui, factory, card, alive>>,
         DOMAIN past' = PastFields, past'.leftOn = past.leftOn
  PROVE  SnInv'
PROOF
<1> DEFINE r == [Top EXCEPT !.pc = pc]
<1>1. pc \in Pcs \ (Fresh \cup Early \cup Opened \cup Closed \cup Verified) /\ pc \notin {"poweron", "verify"}
  BY DEF Pcs, Fresh, Early, Opened, Closed, Writing, Verified
<1>2. /\ r.pc = pc /\ r.dev = Top.dev /\ r.sn = Top.sn /\ r.isp = Top.isp
      /\ (r.verify <=> Top.verify) /\ (r.reset <=> Top.reset) /\ (r.nested <=> Top.nested)
  BY <1>1, TopKnown, Went
<1>. HIDE DEF r
<1>3. RunOK(r, card, mode, ui.input) /\ TopOK(r, card, mode)
  BY <1>1, <1>2, TopKnown DEF RunOK, TopOK, Writing
<1>. QED  BY <1>1, <1>3, MovedOn DEF r

(* The same after a fault, or none.                                        *)
LEMMA Stopped ==
  ASSUME SnInv, alive, runs # <<>>, Top.pc # "start", NEW pc \in {"ng", "finish"}, Goto(pc),
         RunOnly, card' = card, Fault \/ NoFault
  PROVE  SnInv'
BY TopKnown, FaultKeeps, GaveUp DEF RunOnly

(* The run takes the number the user set.                                  *)
LEMMA CaptureInv == SnInv /\ Capture => SnInv'
PROOF
<1> SUFFICES ASSUME SnInv, Capture  PROVE SnInv'
  OBVIOUS
<1> DEFINE r == [Top EXCEPT !.pc = "scan", !.sn = ui.input]
<1>1. alive /\ runs # <<>> /\ Top.pc = "start" /\ Replace(r) /\ RunOnly /\ UNCHANGED <<card, past>>
  BY DEF Capture, At, Captured
<1>2. /\ r \in RunType /\ r.pc = "scan" /\ r.dev = Top.dev /\ r.sn = ui.input
      /\ (r.verify <=> Top.verify) /\ (r.reset <=> Top.reset) /\ (r.nested <=> Top.nested)
  BY <1>1, TopKnown DEF RunType, Pcs, Fresh, Values
<1>. HIDE DEF r
<1>3. Top.verify  BY <1>1, TopKnown DEF RunOK, Early
<1>4. Stepped(r)  BY <1>1, <1>2, TopKnown DEF Stepped, RunOnly
<1>5. Harmless(card') /\ Untouched(card') /\ StillPowered(r)
  BY <1>1, <1>2, TopKnown DEF Harmless, StillPowered
<1>6. RunOK(r, card', mode, ui.input) /\ TopOK(r, card', mode)
  BY <1>1, <1>2, <1>3, TopKnown DEF RunOK, TopOK, Fresh, Early, Opened, Closed, Verified, Writing
<1>. QED  BY <1>1, <1>4, <1>5, <1>6, RunStep

(* The scan finds a card and powers it, or does not find it.               *)
LEMMA ScanInv == SnInv /\ ScanDevice => SnInv'
PROOF
<1> SUFFICES ASSUME SnInv, ScanDevice  PROVE SnInv'
  OBVIOUS
<1>. USE DEF Fresh, Early, Opened, Closed, Verified, Writing
<1>1. alive /\ runs # <<>> /\ Top.pc = "scan"  BY DEF ScanDevice, At
<1>2. Top.dev = "none" /\ Top.verify  BY <1>1, TopKnown DEF RunOK
<1>3. CASE ~factory /\ Crash  BY <1>1, <1>3, CrashInv
<1>4. CASE /\ card' = Powered(card) /\ NoFault /\ RunOnly
           /\ Replace([Top EXCEPT !.pc = "found", !.dev = "open"])
  <2> DEFINE r == [Top EXCEPT !.pc = "found", !.dev = "open"]
  <2>1. /\ r \in RunType /\ r.pc = "found" /\ r.dev = "open" /\ r.sn = Top.sn
        /\ (r.verify <=> Top.verify) /\ (r.reset <=> Top.reset) /\ (r.nested <=> Top.nested)
        /\ Replace(r)
    BY <1>1, <1>4, TopKnown DEF RunType, Pcs
  <2>. HIDE DEF r
  <2>2. Stepped(r)  BY <1>1, <1>4, <2>1, TopKnown DEF Stepped, RunOnly, NoFault
  <2>3. Harmless(card') /\ Untouched(card') /\ StillPowered(r)
    BY <1>1, <1>4, <2>1, TopKnown, PoweredIs DEF Harmless, Untouched, StillPowered
  <2>4. RunOK(r, card', mode, ui.input) /\ TopOK(r, card', mode)
    BY <1>1, <1>2, <1>4, <2>1, TopKnown, PoweredIs DEF RunOK, TopOK
  <2>. QED  BY <1>1, <2>2, <2>3, <2>4, RunStep
<1>5. CASE Fault /\ Goto("ng") /\ card' = card /\ RunOnly  BY <1>1, <1>5, Stopped
<1>6. CASE /\ card' = Powered(card) /\ Goto("ng") /\ RunOnly
           /\ past' = [past EXCEPT !.faults = @ + 1, !.leftOn = TRUE]
  <2> DEFINE r == [Top EXCEPT !.pc = "ng"]
  <2>1. /\ r \in RunType /\ r.pc = "ng" /\ r.dev = "none" /\ r.sn = Top.sn
        /\ (r.verify <=> Top.verify) /\ (r.reset <=> Top.reset) /\ (r.nested <=> Top.nested)
        /\ Replace(r)
    BY <1>1, <1>2, <1>6, TopKnown DEF RunType, Pcs, Goto
  <2>. HIDE DEF r
  <2>2. DOMAIN past' = PastFields /\ past'.leftOn  BY <1>1, <1>6, TopKnown DEF PastFields
  <2>3. Stepped(r)  BY <1>1, <1>6, <2>1, <2>2, TopKnown DEF Stepped, RunOnly
  <2>4. Harmless(card') /\ Untouched(card') /\ StillPowered(r)
    BY <1>1, <1>6, <2>2, TopKnown, PoweredIs DEF Harmless, Untouched, StillPowered
  <2>5. RunOK(r, card', mode, ui.input) /\ TopOK(r, card', mode)
    BY <1>1, <1>2, <2>1, TopKnown DEF RunOK, TopOK
  <2>. QED  BY <1>1, <2>3, <2>4, <2>5, RunStep
<1>. QED  BY <1>3, <1>4, <1>5, <1>6 DEF ScanDevice

(* The device is shown.                                                    *)
LEMMA ShowInv == SnInv /\ ShowDevice => SnInv'
PROOF
<1> SUFFICES ASSUME SnInv, ShowDevice  PROVE SnInv'
  OBVIOUS
<1>. USE DEF Fresh, Early, Opened, Closed, Verified, Writing
<1> DEFINE r == [Top EXCEPT !.pc = "loading"]
<1>1. /\ alive /\ runs # <<>> /\ Top.pc = "found" /\ Goto("loading") /\ RunOnly
      /\ card' = card /\ past' = past
  BY DEF ShowDevice, At
<1>2. "loading" \in Pcs  BY DEF Pcs
<1>3. /\ r.pc = "loading" /\ r.dev = Top.dev /\ r.sn = Top.sn /\ r.isp = Top.isp
      /\ (r.verify <=> Top.verify) /\ (r.reset <=> Top.reset) /\ (r.nested <=> Top.nested)
  BY <1>1, <1>2, TopKnown, Went
<1>. HIDE DEF r
<1>4. RunOK(r, card, mode, ui.input) /\ TopOK(r, card, mode)
  BY <1>1, <1>3, TopKnown DEF RunOK, TopOK
<1>. QED  BY <1>1, <1>2, <1>4, TopKnown, MovedOn DEF RunOnly, r

(* The checks before the download, and the numbers the run works with.     *)
LEMMA IdentifyInv == SnInv /\ Identify => SnInv'
PROOF
<1> SUFFICES ASSUME SnInv, Identify  PROVE SnInv'
  OBVIOUS
<1>. USE DEF Fresh, Early, Opened, Closed, Verified, Writing
<1>1. alive /\ runs # <<>> /\ Top.pc = "loading"  BY DEF Identify, At
<1>2. Top.dev = "open" /\ Top.verify  BY <1>1, TopKnown DEF RunOK
<1>3. CASE ~Api /\ Crash  BY <1>1, <1>3, CrashInv DEF Api
<1>4. CASE RunOnly /\ card' = card /\ Goto("finish") /\ Fails  BY <1>1, <1>4, Stopped DEF Fails
<1>5. CASE RunOnly /\ card' = card /\ Goto("ng") /\ Fault  BY <1>1, <1>5, Stopped
<1>6. CASE RunOnly /\ card' = card /\ Goto("caution") /\ (Fault \/ NoFault)
  <2> DEFINE r == [Top EXCEPT !.pc = "caution"]
  <2>1. "caution" \in Pcs  BY DEF Pcs
  <2>2. /\ r.pc = "caution" /\ r.dev = Top.dev /\ r.sn = Top.sn /\ r.isp = Top.isp
        /\ (r.verify <=> Top.verify) /\ (r.reset <=> Top.reset) /\ (r.nested <=> Top.nested)
    BY <1>1, <2>1, TopKnown, Went
  <2>. HIDE DEF r
  <2>3. RunOK(r, card, mode, ui.input) /\ TopOK(r, card, mode)
    BY <1>1, <1>2, <2>2, TopKnown DEF RunOK, TopOK
  <2>. QED  BY <1>1, <1>6, <2>1, <2>3, TopKnown, FaultKeeps, MovedOn DEF RunOnly, r
<1>7. CASE /\ RunOnly /\ card' = card /\ card.power /\ SkipsSn /\ NoFault
           /\ Replace([Top EXCEPT !.pc = "verify", !.verify = FALSE, !.sn = card.id])
  <2> DEFINE r == [Top EXCEPT !.pc = "verify", !.verify = FALSE, !.sn = card.id]
  <2>1. /\ r \in RunType /\ r.pc = "verify" /\ r.dev = "open" /\ r.sn = card.id /\ ~r.verify
        /\ (r.reset <=> Top.reset) /\ (r.nested <=> Top.nested) /\ Replace(r)
    BY <1>1, <1>2, <1>7, TopKnown DEF RunType, CardType, Pcs
  <2>. HIDE DEF r
  <2>2. Stepped(r)  BY <1>1, <1>7, <2>1, TopKnown DEF Stepped, RunOnly, NoFault
  <2>3. Harmless(card') /\ Untouched(card') /\ StillPowered(r)
    BY <1>1, <1>7, <2>1, TopKnown DEF Harmless, StillPowered
  <2>4. mode = "verify" /\ card.isp[1] = Factory /\ card.id = Factory
    BY <1>1, <1>7, TopKnown DEF SkipsSn, Untouched
  <2>5. RunOK(r, card', mode, ui.input) /\ TopOK(r, card', mode)
    BY <1>1, <1>7, <2>1, <2>4, TopKnown DEF RunOK, TopOK
  <2>. QED  BY <1>1, <2>2, <2>3, <2>5, RunStep
<1>8. CASE /\ RunOnly /\ card' = card /\ card.power /\ NoFault
           /\ Replace([Top EXCEPT !.isp = ui.input,
                         !.pc = IF mode = "update" THEN "download" ELSE "verify"])
  <2> DEFINE pc == IF mode = "update" THEN "download" ELSE "verify"
             r == [Top EXCEPT !.isp = ui.input, !.pc = pc]
  <2>1. /\ r \in RunType /\ r.pc = pc /\ r.dev = "open" /\ r.sn = Top.sn /\ r.isp = ui.input
        /\ r.verify /\ (r.reset <=> Top.reset) /\ (r.nested <=> Top.nested) /\ Replace(r)
    BY <1>1, <1>2, <1>8, TopKnown DEF RunType, Pcs, Values
  <2>. HIDE DEF r
  <2>2. Stepped(r)  BY <1>1, <1>8, <2>1, TopKnown DEF Stepped, RunOnly, NoFault
  <2>3. Harmless(card') /\ Untouched(card') /\ StillPowered(r)
    BY <1>1, <1>8, <2>1, TopKnown DEF Harmless, StillPowered
  <2>4. mode = "verify" => card.isp[1] = Factory /\ card.id = Factory
    BY <1>1, TopKnown DEF Untouched
  <2>5. RunOK(r, card', mode, ui.input) /\ TopOK(r, card', mode)
    BY <1>1, <1>2, <1>8, <2>1, <2>4, TopKnown DEF RunOK, TopOK
  <2>. QED  BY <1>1, <2>2, <2>3, <2>5, RunStep
<1>9. Fails => Fault \/ NoFault  BY DEF Fails
<1>. QED  BY <1>3, <1>4, <1>5, <1>6, <1>7, <1>8 DEF Identify

(* A download writes the number of the run, and only that.                 *)
LEMMA DownloadInv == SnInv /\ UpsnUpdateIspFerri => SnInv'
PROOF
<1> SUFFICES ASSUME SnInv, UpsnUpdateIspFerri  PROVE SnInv'
  OBVIOUS
<1>. USE DEF Fresh, Early, Opened, Closed, Verified, Writing
<1> DEFINE both == [card EXCEPT !.isp = <<Top.isp, Top.isp>>]
           first == [card EXCEPT !.isp[1] = Top.isp]
<1>1. alive /\ runs # <<>> /\ Top.pc = "download" /\ RunOnly  BY DEF UpsnUpdateIspFerri, At
<1>2. Top \in RunType /\ card \in CardType /\ Top.dev = "open" /\ mode = "update"
  BY <1>1, TopKnown DEF RunOK
<1>3. card.isp = <<card.isp[1], card.isp[2]>> /\ card.isp[1] \in Values /\ card.isp[2] \in Values
  BY <1>2 DEF CardType
<1>4. both \in CardType /\ both.isp = <<Top.isp, Top.isp>> /\ both.power = card.power /\ both.id = card.id
  BY <1>2, <1>3 DEF CardType, RunType
<1>5. /\ first \in CardType /\ first.isp = <<Top.isp, card.isp[2]>> /\ first.power = card.power
      /\ first.id = card.id
  BY <1>2, <1>3 DEF CardType, RunType
<1>6. /\ card' \in {card, first, both} /\ (Fault \/ NoFault)
      /\ \/ Goto("readback")
         \/ \E next \in {"download", "ng"} : Replace([Top EXCEPT !.tries = @ + 1, !.pc = next])
  BY DEF UpsnUpdateIspFerri
<1>7. PICK r : /\ r \in RunType /\ Replace(r) /\ r.pc \in {"readback", "download", "ng"}
               /\ r.dev = Top.dev /\ r.sn = Top.sn /\ r.isp = Top.isp
               /\ (r.verify <=> Top.verify) /\ (r.reset <=> Top.reset) /\ (r.nested <=> Top.nested)
  <2>1. CASE Goto("readback")
    <3>1. "readback" \in Pcs  BY DEF Pcs
    <3>. QED  BY <1>2, <2>1, <3>1, Went DEF Goto
  <2>2. ASSUME NEW next \in {"download", "ng"}, Replace([Top EXCEPT !.tries = @ + 1, !.pc = next])
        PROVE  \E r : /\ r \in RunType /\ Replace(r) /\ r.pc \in {"readback", "download", "ng"}
                      /\ r.dev = Top.dev /\ r.sn = Top.sn /\ r.isp = Top.isp
                      /\ (r.verify <=> Top.verify) /\ (r.reset <=> Top.reset)
                      /\ (r.nested <=> Top.nested)
    <3> DEFINE r == [Top EXCEPT !.tries = @ + 1, !.pc = next]
    <3>0. next \in Pcs /\ Top.tries + 1 \in Nat  BY <1>2 DEF RunType, Pcs
    <3>1. /\ r \in RunType /\ r.pc = next /\ r.dev = Top.dev /\ r.sn = Top.sn /\ r.isp = Top.isp
          /\ (r.verify <=> Top.verify) /\ (r.reset <=> Top.reset) /\ (r.nested <=> Top.nested)
      BY <1>2, <3>0 DEF RunType
    <3>2. Replace(r)  BY <2>2
    <3>. HIDE DEF r
    <3>. QED  BY <3>1, <3>2
  <2>. QED  BY <1>6, <2>1, <2>2
<1>. HIDE DEF both, first
<1>8. Stepped(r)  BY <1>1, <1>6, <1>7, TopKnown, FaultKeeps DEF Stepped, RunOnly
<1>9. Harmless(card') /\ Untouched(card') /\ StillPowered(r)
  BY <1>1, <1>2, <1>3, <1>4, <1>5, <1>6, <1>7 DEF Harmless, Untouched, StillPowered
<1>10. card'.power = card.power  BY <1>4, <1>5, <1>6
<1>11. RunOK(r, card', mode, ui.input) /\ TopOK(r, card', mode)
  BY <1>1, <1>2, <1>7, <1>10, TopKnown DEF RunOK, TopOK
<1>. QED  BY <1>1, <1>8, <1>9, <1>11, RunStep

(* Reading the firmware back: both copies hold the number of the run.      *)
LEMMA ReadInv ==
  ASSUME SnInv, NEW pc \in {"readback", "reread"}, NEW next \in {"poweroff", "verify"},
         UpsnReadIspFerri(pc, next), pc = "readback" <=> next = "poweroff"
  PROVE  SnInv'
PROOF
<1>. USE DEF Fresh, Early, Opened, Closed, Verified, Writing
<1>1. alive /\ runs # <<>> /\ Top.pc = pc  BY DEF UpsnReadIspFerri, At
<1>2. CASE ~Api /\ Crash  BY <1>1, <1>2, CrashInv DEF Api
<1>3. CASE RunOnly /\ card' = card /\ Goto("ng") /\ (Fault \/ NoFault)  BY <1>1, <1>3, Stopped
<1>4. CASE RunOnly /\ card' = card /\ SameIsp /\ NoFault /\ Goto(next)
  <2> DEFINE r == [Top EXCEPT !.pc = next]
  <2>1. next \in Pcs  BY DEF Pcs
  <2>2. /\ r.pc = next /\ r.dev = Top.dev /\ r.sn = Top.sn /\ r.isp = Top.isp
        /\ (r.verify <=> Top.verify) /\ (r.reset <=> Top.reset) /\ (r.nested <=> Top.nested)
    BY <1>1, <2>1, TopKnown, Went
  <2>. HIDE DEF r
  <2>3. card.isp = <<Top.isp, Top.isp>>
    <3>1. card.isp = <<card.isp[1], card.isp[2]>>  BY <1>1, TopKnown DEF CardType
    <3>. QED  BY <1>4, <3>1 DEF SameIsp
  <2>4. RunOK(r, card, mode, ui.input) /\ TopOK(r, card, mode)
    BY <1>1, <2>2, <2>3, TopKnown DEF RunOK, TopOK
  <2>. QED  BY <1>1, <1>4, <2>1, <2>4, TopKnown, FaultKeeps, MovedOn DEF RunOnly, r
<1>. QED  BY <1>2, <1>3, <1>4 DEF UpsnReadIspFerri

(* The power cycle.                                                        *)
LEMMA PowerOffInv == SnInv /\ PowerCycleOff => SnInv'
PROOF
<1> SUFFICES ASSUME SnInv, PowerCycleOff  PROVE SnInv'
  OBVIOUS
<1>. USE DEF Fresh, Early, Opened, Closed, Verified, Writing
<1> DEFINE r == [Top EXCEPT !.pc = "poweron"]
<1>1. /\ alive /\ runs # <<>> /\ Top.pc = "poweroff" /\ RunOnly /\ card' \in {card, Off(card)}
      /\ Goto("poweron") /\ (Fault \/ NoFault)
  BY DEF PowerCycleOff, At
<1>2. "poweron" \in Pcs  BY DEF Pcs
<1>3. /\ r \in RunType /\ r.pc = "poweron" /\ r.dev = Top.dev /\ r.sn = Top.sn /\ r.isp = Top.isp
      /\ (r.verify <=> Top.verify) /\ (r.reset <=> Top.reset) /\ (r.nested <=> Top.nested) /\ Replace(r)
  BY <1>1, <1>2, TopKnown, Went DEF Goto
<1>. HIDE DEF r
<1>4. Stepped(r)  BY <1>1, <1>3, TopKnown, FaultKeeps DEF Stepped, RunOnly
<1>7. Top.dev = "open"  BY <1>1, TopKnown DEF RunOK
<1>5. Harmless(card') /\ Untouched(card') /\ StillPowered(r)
  BY <1>1, <1>3, <1>7, TopKnown, PoweredIs DEF Harmless, Untouched, StillPowered
<1>6. RunOK(r, card', mode, ui.input) /\ TopOK(r, card', mode)
  BY <1>1, <1>3, <1>7, TopKnown, PoweredIs DEF RunOK, TopOK
<1>. QED  BY <1>1, <1>4, <1>5, <1>6, RunStep

LEMMA PowerOnInv == SnInv /\ PowerCycleOn => SnInv'
PROOF
<1> SUFFICES ASSUME SnInv, PowerCycleOn  PROVE SnInv'
  OBVIOUS
<1>. USE DEF Fresh, Early, Opened, Closed, Verified, Writing
<1>1. /\ alive /\ runs # <<>> /\ Top.pc = "poweron" /\ RunOnly /\ card' \in {card, Powered(card)}
      /\ Fault \/ NoFault
  BY DEF PowerCycleOn, At
<1>2. PICK pc \in {"reread", "ng"} : Goto(pc) /\ (pc = "reread" => card' = Powered(card))
  BY DEF PowerCycleOn
<1> DEFINE r == [Top EXCEPT !.pc = pc]
<1>3. pc \in Pcs  BY <1>2 DEF Pcs
<1>4. /\ r \in RunType /\ r.pc = pc /\ r.dev = Top.dev /\ r.sn = Top.sn /\ r.isp = Top.isp
      /\ (r.verify <=> Top.verify) /\ (r.reset <=> Top.reset) /\ (r.nested <=> Top.nested) /\ Replace(r)
  BY <1>1, <1>2, <1>3, TopKnown, Went DEF Goto
<1>. HIDE DEF r
<1>5. Stepped(r)  BY <1>1, <1>4, TopKnown, FaultKeeps DEF Stepped, RunOnly
<1>6. Top.dev = "open"  BY <1>1, TopKnown DEF RunOK
<1>7. Harmless(card') /\ Untouched(card') /\ StillPowered(r)
  BY <1>1, <1>4, <1>6, TopKnown, PoweredIs DEF Harmless, Untouched, StillPowered
<1>8. RunOK(r, card', mode, ui.input) /\ TopOK(r, card', mode)
  BY <1>1, <1>2, <1>4, <1>6, TopKnown, PoweredIs DEF RunOK, TopOK
<1>. QED  BY <1>1, <1>5, <1>7, <1>8, RunStep

(* The verification: from here to the log line, the card holds the number. *)
LEMMA VerifyInv == SnInv /\ UpsnVerifySn => SnInv'
PROOF
<1> SUFFICES ASSUME SnInv, UpsnVerifySn  PROVE SnInv'
  OBVIOUS
<1>. USE DEF Fresh, Early, Opened, Closed, Verified, Writing
<1>1. alive /\ runs # <<>> /\ Top.pc = "verify" /\ RunOnly /\ card' = card  BY DEF UpsnVerifySn, At
<1>2. CASE Goto("ng") /\ (Fault \/ NoFault)  BY <1>1, <1>2, Stopped
<1>3. CASE /\ Top.verify => card.id = ui.input
           /\ NoFault /\ Replace([Top EXCEPT !.pc = "external", !.dev = "closed"])
  <2> DEFINE r == [Top EXCEPT !.pc = "external", !.dev = "closed"]
  <2>1. /\ r \in RunType /\ r.pc = "external" /\ r.dev = "closed" /\ r.sn = Top.sn /\ r.isp = Top.isp
        /\ (r.verify <=> Top.verify) /\ (r.reset <=> Top.reset) /\ (r.nested <=> Top.nested)
        /\ Replace(r)
    BY <1>1, <1>3, TopKnown DEF RunType, Pcs
  <2>. HIDE DEF r
  <2>2. Stepped(r)  BY <1>1, <1>3, <2>1, TopKnown DEF Stepped, RunOnly, NoFault
  <2>3. Harmless(card') /\ Untouched(card') /\ StillPowered(r)
    BY <1>1, <2>1, TopKnown DEF Harmless, StillPowered
  <2>4. mode = "update" => card.isp = <<Top.isp, Top.isp>> /\ card.isp[1] = Top.isp
    BY <1>1, TopKnown DEF TopOK
  <2>5. ~Top.verify => mode = "verify" /\ Top.sn = Factory /\ card.id = Factory
    BY <1>1, TopKnown DEF RunOK, Untouched
  <2>6. RunOK(r, card', mode, ui.input) /\ TopOK(r, card', mode)
    BY <1>1, <1>3, <2>1, <2>4, <2>5, TopKnown DEF RunOK, TopOK
  <2>. QED  BY <1>1, <2>2, <2>3, <2>6, RunStep
<1>. QED  BY <1>2, <1>3 DEF UpsnVerifySn

(* What the runs do after the verification.                                *)
LEMMA ExternalInv == SnInv /\ ExcuseExternalProcess => SnInv'
PROOF
<1> SUFFICES ASSUME SnInv, ExcuseExternalProcess  PROVE SnInv'
  OBVIOUS
<1>. USE DEF Fresh, Early, Opened, Closed, Verified, Writing
<1>1. /\ alive /\ runs # <<>> /\ Top.pc = "external" /\ RunOnly /\ card' = card
      /\ Fault \/ NoFault
  BY DEF ExcuseExternalProcess, At
<1>2. CASE \E pc \in {"ng", "finish"} : Goto(pc)  BY <1>1, <1>2, Stopped
<1>3. CASE Goto("reconnect") \/ Replace([Top EXCEPT !.pc = "reconnect", !.exit = 1])
  <2>1. PICK r : /\ r \in RunType /\ Replace(r) /\ r.pc = "reconnect"
                 /\ r.dev = Top.dev /\ r.sn = Top.sn /\ r.isp = Top.isp
                 /\ (r.verify <=> Top.verify) /\ (r.reset <=> Top.reset) /\ (r.nested <=> Top.nested)
    <3>1. CASE Goto("reconnect")
      <4>1. "reconnect" \in Pcs  BY DEF Pcs
      <4>. QED  BY <1>1, <3>1, <4>1, TopKnown, Went DEF Goto
    <3>2. CASE Replace([Top EXCEPT !.pc = "reconnect", !.exit = 1])
      <4> DEFINE r == [Top EXCEPT !.pc = "reconnect", !.exit = 1]
      <4>1. /\ r \in RunType /\ r.pc = "reconnect" /\ r.dev = Top.dev /\ r.sn = Top.sn
            /\ r.isp = Top.isp
            /\ (r.verify <=> Top.verify) /\ (r.reset <=> Top.reset) /\ (r.nested <=> Top.nested)
        BY <1>1, TopKnown DEF RunType, Pcs
      <4>2. Replace(r)  BY <3>2
      <4>. HIDE DEF r
      <4>. QED  BY <4>1, <4>2
    <3>. QED  BY <1>3, <3>1, <3>2
  <2>2. Stepped(r)  BY <1>1, <2>1, TopKnown, FaultKeeps DEF Stepped, RunOnly
  <2>3. Top.dev = "closed"  BY <1>1, TopKnown DEF RunOK
  <2>4. Harmless(card') /\ Untouched(card') /\ StillPowered(r)
    BY <1>1, <2>1, <2>3, TopKnown DEF Harmless, StillPowered
  <2>5. RunOK(r, card', mode, ui.input) /\ TopOK(r, card', mode)
    BY <1>1, <2>1, <2>3, TopKnown DEF RunOK, TopOK
  <2>. QED  BY <1>1, <2>2, <2>4, <2>5, RunStep
<1>. QED  BY <1>2, <1>3 DEF ExcuseExternalProcess

LEMMA ConnectInv == SnInv /\ Connect => SnInv'
PROOF
<1> SUFFICES ASSUME SnInv, Connect  PROVE SnInv'
  OBVIOUS
<1>. USE DEF Fresh, Early, Opened, Closed, Verified, Writing
<1>1. alive /\ runs # <<>> /\ Top.pc = "reconnect"  BY DEF Connect, At
<1>2. CASE ~Api /\ Crash  BY <1>1, <1>2, CrashInv DEF Api
<1>3. CASE RunOnly /\ card' = card /\ Fails /\ Goto("finish")  BY <1>1, <1>3, Stopped DEF Fails
<1>4. CASE /\ RunOnly /\ card' = card /\ NoFault
           /\ Replace([Top EXCEPT !.pc = "runtime", !.dev = "open"])
  <2> DEFINE r == [Top EXCEPT !.pc = "runtime", !.dev = "open"]
  <2>1. /\ r \in RunType /\ r.pc = "runtime" /\ r.dev = "open" /\ r.sn = Top.sn /\ r.isp = Top.isp
        /\ (r.verify <=> Top.verify) /\ (r.reset <=> Top.reset) /\ (r.nested <=> Top.nested)
        /\ Replace(r)
    BY <1>1, <1>4, TopKnown DEF RunType, Pcs
  <2>. HIDE DEF r
  <2>2. Stepped(r)  BY <1>1, <1>4, <2>1, TopKnown DEF Stepped, RunOnly, NoFault
  <2>3. Harmless(card') /\ Untouched(card') /\ StillPowered(r)
    BY <1>1, <1>4, <2>1, TopKnown DEF Harmless, StillPowered
  <2>4. RunOK(r, card', mode, ui.input) /\ TopOK(r, card', mode)
    BY <1>1, <1>4, <2>1, TopKnown DEF RunOK, TopOK
  <2>. QED  BY <1>1, <2>2, <2>3, <2>4, RunStep
<1>. QED  BY <1>2, <1>3, <1>4 DEF Connect

LEMMA RunTimeInv == SnInv /\ GetRunTimeBad => SnInv'
PROOF
<1> SUFFICES ASSUME SnInv, GetRunTimeBad  PROVE SnInv'
  OBVIOUS
<1>. USE DEF Fresh, Early, Opened, Closed, Verified, Writing
<1>1. alive /\ runs # <<>> /\ Top.pc = "runtime"  BY DEF GetRunTimeBad, At
<1>2. CASE ~Api /\ Crash  BY <1>1, <1>2, CrashInv DEF Api
<1>3. CASE RunOnly /\ card' = card /\ Fails /\ Goto("finish")  BY <1>1, <1>3, Stopped DEF Fails
<1>4. CASE RunOnly /\ card' = card /\ NoFault /\ Goto("ng")  BY <1>1, <1>4, Stopped
<1>5. CASE RunOnly /\ card' = card /\ NoFault /\ Goto("complete")
  <2> DEFINE r == [Top EXCEPT !.pc = "complete"]
  <2>1. "complete" \in Pcs  BY DEF Pcs
  <2>2. /\ r.pc = "complete" /\ r.dev = Top.dev /\ r.sn = Top.sn /\ r.isp = Top.isp
        /\ (r.verify <=> Top.verify) /\ (r.reset <=> Top.reset) /\ (r.nested <=> Top.nested)
    BY <1>1, <2>1, TopKnown, Went
  <2>. HIDE DEF r
  <2>3. RunOK(r, card, mode, ui.input) /\ TopOK(r, card, mode)
    BY <1>1, <2>2, TopKnown DEF RunOK, TopOK
  <2>. QED  BY <1>1, <1>5, <2>1, <2>3, TopKnown, FaultKeeps, MovedOn DEF RunOnly, r
<1>. QED  BY <1>2, <1>3, <1>4, <1>5 DEF GetRunTimeBad

(* The verdict is logged, or shown only.                                   *)
LEMMA LogInv == SnInv /\ (Complete \/ Judge \/ Standby) => SnInv'
PROOF
<1> SUFFICES ASSUME SnInv, Complete \/ Judge \/ Standby  PROVE SnInv'
  OBVIOUS
<1>1. alive /\ runs # <<>> /\ Top.pc \in {"complete", "ng", "caution"} /\ Goto("finish")
  BY DEF Complete, Judge, Standby, At, WriteLog
<1>2. UNCHANGED <<mode, ui, factory, card, alive>>
  BY DEF Complete, Judge, Standby, WriteLog, RunOnly
<1>3. Fault \/ past' = past \/ past' = [past EXCEPT !.logged = @ + 1]
  BY DEF Complete, Judge, Standby, WriteLog
<1>4. DOMAIN past' = PastFields /\ past'.leftOn = past.leftOn
  BY <1>1, <1>3, TopKnown DEF Fault, PastFields
<1>. QED  BY <1>1, <1>2, <1>4, GaveUp

(* The bookkeeping of a save, and of the power command.                    *)
LEMMA Saving ==
  ASSUME NEW p, DOMAIN p = PastFields, NEW failed \in BOOLEAN
  PROVE  /\ DOMAIN AfterSave(p, failed) = PastFields
         /\ AfterSave(p, failed).logged = p.logged
         /\ AfterSave(p, failed).leftOn = p.leftOn
         /\ AfterSave(p, failed).unsaved = failed
BY DEF AfterSave, PastFields

LEMMA Clearing ==
  ASSUME DOMAIN past = PastFields, NEW failed \in BOOLEAN
  PROVE  /\ AfterSave([past EXCEPT !.logged = 0], failed).logged = 0
         /\ AfterSave([past EXCEPT !.logged = 0], failed).unsaved = failed
BY DEF AfterSave, PastFields

LEMMA Powering ==
  ASSUME DOMAIN past = PastFields, NEW lost \in BOOLEAN
  PROVE  /\ DOMAIN AfterPower(lost) = PastFields
         /\ AfterPower(lost).logged = past.logged
         /\ AfterPower(lost).leftOn = IF Top.dev = "open" THEN lost /\ card.power ELSE past.leftOn
BY DEF AfterPower, PastFields

(* The device is powered off, whatever the run came to.                    *)
LEMMA FinishInv == SnInv /\ Finish => SnInv'
PROOF
<1> SUFFICES ASSUME SnInv, Finish  PROVE SnInv'
  OBVIOUS
<1>. USE DEF Fresh, Early, Opened, Closed, Verified, Writing
<1>1. alive /\ runs # <<>> /\ Top.pc = "finish"  BY DEF Finish, At
<1>2. CASE Throws /\ Crash  BY <1>1, <1>2, CrashInv DEF Throws
<1>3. CASE /\ ~Throws /\ Replace([Top EXCEPT !.pc = "end", !.dev = "none"])
           /\ \E lost, failed \in BOOLEAN :
                PowerOnOff(lost) /\ past' = AfterSave(AfterPower(lost), failed)
           /\ ui' = [ui EXCEPT !.text = Bad, !.set = TRUE, !.start = FALSE, !.isSet = FALSE]
           /\ UNCHANGED <<mode, factory, log, alive>>
  <2> DEFINE r == [Top EXCEPT !.pc = "end", !.dev = "none"]
  <2>1. /\ r \in RunType /\ r.pc = "end" /\ r.dev = "none" /\ r.sn = Top.sn /\ r.isp = Top.isp
        /\ (r.verify <=> Top.verify) /\ (r.reset <=> Top.reset) /\ (r.nested <=> Top.nested)
        /\ Replace(r)
    BY <1>1, <1>3, TopKnown DEF RunType, Pcs
  <2>. HIDE DEF r
  <2>2. DOMAIN ui' = UiFields /\ ui'.text \in Texts /\ ui'.input = ui.input
    BY <1>1, <1>3, TopKnown DEF UiFields, Texts
  <2>8. PICK lost \in BOOLEAN, failed \in BOOLEAN :
          PowerOnOff(lost) /\ past' = AfterSave(AfterPower(lost), failed)
    BY <1>3
  <2>4. DOMAIN past' = PastFields /\ past'.leftOn = AfterPower(lost).leftOn
    BY <1>1, <2>8, TopKnown, Powering, Saving
  <2>9. past'.leftOn = IF Top.dev = "open" THEN lost /\ card.power ELSE past.leftOn
    BY <1>1, <2>4, TopKnown, Powering
  <2>3. \/ card' = card /\ past'.leftOn = past.leftOn /\ Top.dev = "none"
        \/ card' = card /\ (card.power => past'.leftOn)
        \/ card' = Off(card)
    <3>1. Top.dev \in {"none", "open"}  BY <1>1, <1>3, TopKnown DEF Throws, RunType
    <3>. QED  BY <2>8, <2>9, <3>1 DEF PowerOnOff
  <2>5. Stepped(r)  BY <1>1, <1>3, <2>1, <2>2, <2>4, TopKnown DEF Stepped
  <2>6. Harmless(card') /\ Untouched(card') /\ StillPowered(r)
    BY <1>1, <2>1, <2>3, TopKnown, PoweredIs DEF Harmless, Untouched, StillPowered
  <2>7. RunOK(r, card', mode, ui.input) /\ TopOK(r, card', mode)
    BY <1>1, <2>1, TopKnown DEF RunOK, TopOK
  <2>. QED  BY <1>1, <2>5, <2>6, <2>7, RunStep
<1>. QED  BY <1>2, <1>3 DEF Finish

(* The run ends, and the one it was nested in goes on from its pump.       *)
LEMMA ReturnInv == SnInv /\ Return => SnInv'
PROOF
<1> SUFFICES ASSUME SnInv, Return  PROVE SnInv'
  OBVIOUS
<1>1. /\ alive /\ runs # <<>> /\ Top.pc = "end" /\ runs' = Tail(runs)
      /\ UNCHANGED <<mode, factory, card, log, count, alive, past>>
  BY DEF Return, At
<1>2. runs \in Seq(RunType) /\ Len(runs) \in Nat /\ Len(runs) > 0  BY <1>1 DEF SnInv, Types
<1>3. /\ runs' \in Seq(RunType) /\ Len(runs') = Len(runs) - 1
      /\ \A i \in 1 .. Len(runs) - 1 : runs'[i] = runs[i + 1]
  BY <1>1, <1>2
<1>4. DOMAIN ui' = UiFields /\ ui'.text = ui.text /\ ui'.input = ui.input
  BY <1>1, TopKnown DEF Return, UiFields
<1>5. Types'  BY <1>1, <1>3, <1>4 DEF SnInv, Types
<1>6. \A i \in 1 .. Len(runs) - 1 : i + 1 \in 2 .. Len(runs)  BY <1>2
<1>7. \A i \in 1 .. Len(runs) - 1 : runs'[i].pc \in Pumps /\ runs'[i].nested
  BY <1>3, <1>6 DEF SnInv, Stack
<1>8. \A i \in 1 .. Len(runs) - 1 : RunOK(runs'[i], card, mode, ui.input)
  BY <1>2, <1>3 DEF SnInv, Stack
<1>9. Len(runs) - 1 > 0 => TopOK(runs'[1], card, mode)
  <2>1. SUFFICES ASSUME Len(runs) - 1 > 0  PROVE TopOK(runs'[1], card, mode)
    OBVIOUS
  <2>2. runs'[1].pc \in Pumps /\ runs'[1].nested  BY <1>2, <1>7, <2>1
  <2>. QED  BY <2>2 DEF TopOK, Pumps
<1>10. ASSUME NEW i \in 1 .. Len(runs) - 1, NEW j \in 1 .. Len(runs) - 1, i < j, runs'[i].reset
       PROVE  runs'[j].reset
  <2>1. runs'[i] = runs[i + 1] /\ runs'[j] = runs[j + 1]  BY <1>3
  <2>2. i + 1 \in 1 .. Len(runs) /\ j + 1 \in 1 .. Len(runs) /\ i + 1 < j + 1  BY <1>2, <1>10
  <2>. QED  BY <1>10, <2>1, <2>2 DEF SnInv, Stack
<1>11. Stack'
  <2>1. \A i \in 2 .. Len(runs) - 1 : i \in 1 .. Len(runs) - 1  BY <1>2
  <2>. QED  BY <1>1, <1>3, <1>4, <1>7, <1>8, <1>9, <1>10, <2>1 DEF Stack
<1>12. PoweredBySomeone'
  <2>1. SUFFICES ASSUME card.power, ~past.leftOn
                 PROVE  \E i \in 1 .. Len(runs') : runs'[i].dev # "none"
    BY <1>1 DEF PoweredBySomeone
  <2>2. PICK i \in 1 .. Len(runs) : runs[i].dev # "none"  BY <2>1 DEF SnInv, PoweredBySomeone
  <2>3. runs[1].dev = "none"  BY <1>1, TopKnown DEF RunOK, Fresh, Top
  <2>4. i - 1 \in 1 .. Len(runs) - 1 /\ runs[(i - 1) + 1] = runs[i]  BY <1>2, <2>2, <2>3
  <2>5. runs'[i - 1] = runs[i]  BY <1>3, <2>4
  <2>. QED  BY <1>3, <2>2, <2>4, <2>5
<1>13. Untouched(card)' /\ Died'  BY <1>1 DEF SnInv, Untouched, Died
<1>. QED  BY <1>5, <1>11, <1>12, <1>13 DEF SnInv
-----------------------------------------------------------------------------
(* The user types, clears the counter or quits.                            *)
LEMMA DialogInv == SnInv /\ (OnEditInputSn \/ OnButtonClearCnt \/ OnQuit) => SnInv'
PROOF
<1> SUFFICES ASSUME SnInv, OnEditInputSn \/ OnButtonClearCnt \/ OnQuit  PROVE SnInv'
  OBVIOUS
<1>1. alive /\ mode' = mode /\ runs' = runs /\ card' = card /\ alive' = alive
  BY Zenon DEF OnEditInputSn, OnButtonClearCnt, OnQuit, UiOnly, Responsive
<1>2. factory' \in BOOLEAN
  <2>1. factory' = factory \/ factory' = FALSE
    BY Zenon DEF OnEditInputSn, OnButtonClearCnt, OnQuit, UiOnly
  <2>. QED  BY <2>1 DEF SnInv, Types
<1>3. DOMAIN ui' = UiFields /\ ui'.text \in Texts /\ ui'.input = ui.input
  <2>1. \/ ui' = ui
        \/ \E t \in Texts : ui' = [ui EXCEPT !.text = t, !.set = TRUE, !.start = FALSE, !.isSet = FALSE]
    BY Zenon DEF OnEditInputSn, OnButtonClearCnt, OnQuit
  <2>2. DOMAIN ui = UiFields /\ ui.text \in Texts  BY DEF SnInv, Types
  <2>3. CASE ui' = ui  BY <2>2, <2>3
  <2>4. ASSUME NEW t \in Texts,
               ui' = [ui EXCEPT !.text = t, !.set = TRUE, !.start = FALSE, !.isSet = FALSE]
        PROVE  DOMAIN ui' = UiFields /\ ui'.text \in Texts /\ ui'.input = ui.input
    BY <2>2, <2>4 DEF UiFields
  <2>. QED  BY ONLY <2>1, <2>3, <2>4, Zenon
<1>4. DOMAIN past' = PastFields /\ past'.leftOn = past.leftOn
  <2>1. \/ past' = [past EXCEPT !.sets = @ + 1]
        \/ \E failed \in BOOLEAN : past' = AfterSave([past EXCEPT !.logged = 0], failed)
        \/ \E failed \in BOOLEAN : past' = AfterSave(past, failed)
    BY Zenon DEF OnEditInputSn, OnButtonClearCnt, OnQuit
  <2>2. DOMAIN past = PastFields  BY DEF SnInv, Types
  <2>3. /\ DOMAIN [past EXCEPT !.logged = 0] = PastFields
        /\ [past EXCEPT !.logged = 0].leftOn = past.leftOn
    BY <2>2 DEF PastFields
  <2>4. CASE past' = [past EXCEPT !.sets = @ + 1]  BY <2>2, <2>4 DEF PastFields
  <2>5. ASSUME NEW failed \in BOOLEAN, past' = AfterSave([past EXCEPT !.logged = 0], failed)
        PROVE  DOMAIN past' = PastFields /\ past'.leftOn = past.leftOn
    BY <2>3, <2>5, Saving
  <2>6. ASSUME NEW failed \in BOOLEAN, past' = AfterSave(past, failed)
        PROVE  DOMAIN past' = PastFields /\ past'.leftOn = past.leftOn
    BY <2>2, <2>6, Saving
  <2>. QED  BY <2>1, <2>4, <2>5, <2>6
<1>5. Types'  BY <1>1, <1>2, <1>3, <1>4 DEF SnInv, Types
<1>6. Stack'  BY <1>1, <1>3 DEF SnInv, Stack
<1>7. Untouched(card)' /\ PoweredBySomeone' /\ Died'
  BY <1>1, <1>4 DEF SnInv, Untouched, PoweredBySomeone, Died
<1>. QED  BY <1>5, <1>6, <1>7 DEF SnInv

(* The user sets a number: every active run is told.                       *)
LEMMA SetInv == SnInv /\ alive /\ SetSn => SnInv'
PROOF
<1> SUFFICES ASSUME SnInv, alive, SetSn  PROVE SnInv'
  OBVIOUS
<1>1. UNCHANGED <<mode, card, alive, factory, past>>  BY DEF SetSn, UiOnly
<1>2. DOMAIN ui' = UiFields /\ ui'.text = ui.text /\ ui'.input = ui.text
  BY DEF SetSn, SnInv, Types, UiFields
<1> DEFINE told(i) == [runs[i] EXCEPT !.reset = @ \/ ui.text # ui.input]
<1>3. runs \in Seq(RunType) /\ Len(runs) \in Nat /\ DOMAIN runs = 1 .. Len(runs)
  BY DEF SnInv, Types
<1>4. \A i \in 1 .. Len(runs) :
        /\ told(i) \in RunType /\ told(i).pc = runs[i].pc /\ told(i).dev = runs[i].dev
        /\ told(i).sn = runs[i].sn /\ told(i).isp = runs[i].isp
        /\ (told(i).verify <=> runs[i].verify) /\ (told(i).nested <=> runs[i].nested)
        /\ (told(i).reset <=> runs[i].reset \/ ui.text # ui.input)
  <2>1. SUFFICES ASSUME NEW i \in 1 .. Len(runs)
        PROVE /\ told(i) \in RunType /\ told(i).pc = runs[i].pc /\ told(i).dev = runs[i].dev
              /\ told(i).sn = runs[i].sn /\ told(i).isp = runs[i].isp
              /\ (told(i).verify <=> runs[i].verify) /\ (told(i).nested <=> runs[i].nested)
              /\ (told(i).reset <=> runs[i].reset \/ ui.text # ui.input)
    OBVIOUS
  <2>2. runs[i] \in RunType  BY <1>3
  <2>. QED  BY <2>2 DEF RunType
<1>5. runs' = [i \in 1 .. Len(runs) |-> told(i)]  BY <1>3 DEF SetSn
<1>. HIDE DEF told
<1>6. runs' \in Seq(RunType) /\ Len(runs') = Len(runs) /\ \A i \in 1 .. Len(runs) : runs'[i] = told(i)
  BY <1>3, <1>4, <1>5
<1>7. Types'  BY <1>1, <1>2, <1>6 DEF SnInv, Types
<1>8. ASSUME NEW i \in 1 .. Len(runs)  PROVE RunOK(runs'[i], card, mode, ui.text)
  <2>1. RunOK(runs[i], card, mode, ui.input)  BY DEF SnInv, Stack
  <2>. QED  BY <1>4, <1>6, <2>1 DEF RunOK
<1>9. Len(runs) > 0 => TopOK(runs'[1], card, mode)
  BY <1>3, <1>4, <1>6 DEF SnInv, Stack, TopOK
<1>10. \A i \in 2 .. Len(runs) : runs'[i].pc \in Pumps /\ runs'[i].nested
  BY <1>3, <1>4, <1>6 DEF SnInv, Stack
<1>11. \A i, j \in 1 .. Len(runs) : i < j /\ runs'[i].reset => runs'[j].reset
  BY <1>3, <1>4, <1>6 DEF SnInv, Stack
<1>12. Stack'  BY <1>1, <1>2, <1>6, <1>8, <1>9, <1>10, <1>11 DEF Stack
<1>13. PoweredBySomeone'  BY <1>1, <1>4, <1>6 DEF SnInv, PoweredBySomeone
<1>14. Untouched(card)' /\ Died'  BY <1>1 DEF SnInv, Untouched, Died
<1>. QED  BY <1>7, <1>12, <1>13, <1>14 DEF SnInv

(* A new run begins, inside a pump of the innermost one if there is one.   *)
LEMMA BeginInv ==
  ASSUME SnInv, Responsive, NEW enter \in BOOLEAN, Begin(enter)
  PROVE  SnInv'
PROOF
<1> DEFINE new == [pc |-> "start", enter |-> enter, dev |-> "none", sn |-> Bad, isp |-> Bad,
                   verify |-> TRUE, tries |-> 0, exit |-> 0, reset |-> FALSE, nested |-> FALSE]
           outer(i) == [runs[i] EXCEPT !.nested = TRUE]
<1>1. alive /\ UNCHANGED <<mode, card, alive, factory>>  BY DEF Begin, UiOnly, Responsive
<1>2. DOMAIN ui' = UiFields /\ ui'.text = ui.text /\ ui'.input = ui.input
  BY DEF Begin, SnInv, Types, UiFields
<1>3. DOMAIN past' = PastFields /\ past'.leftOn = past.leftOn  BY DEF Begin, SnInv, Types, PastFields
<1>4. runs \in Seq(RunType) /\ Len(runs) \in Nat /\ DOMAIN runs = 1 .. Len(runs)
  BY DEF SnInv, Types
<1>5. /\ new \in RunType /\ new.pc = "start" /\ new.dev = "none" /\ new.verify /\ ~new.reset
      /\ new.isp = Bad
  BY DEF RunType, Pcs, Fresh, Values, Texts
<1>6. \A i \in 1 .. Len(runs) :
        /\ outer(i) \in RunType /\ outer(i).pc = runs[i].pc /\ outer(i).dev = runs[i].dev
        /\ outer(i).sn = runs[i].sn /\ outer(i).isp = runs[i].isp /\ outer(i).nested
        /\ (outer(i).verify <=> runs[i].verify) /\ (outer(i).reset <=> runs[i].reset)
  <2>1. SUFFICES ASSUME NEW i \in 1 .. Len(runs)
        PROVE /\ outer(i) \in RunType /\ outer(i).pc = runs[i].pc /\ outer(i).dev = runs[i].dev
              /\ outer(i).sn = runs[i].sn /\ outer(i).isp = runs[i].isp /\ outer(i).nested
              /\ (outer(i).verify <=> runs[i].verify) /\ (outer(i).reset <=> runs[i].reset)
    OBVIOUS
  <2>2. runs[i] \in RunType  BY <1>4
  <2>. QED  BY <2>2 DEF RunType
<1>7. runs' = <<new>> \o [i \in 1 .. Len(runs) |-> outer(i)]  BY <1>4 DEF Begin
<1>. HIDE DEF new, outer
<1>8. /\ runs' \in Seq(RunType) /\ Len(runs') = Len(runs) + 1 /\ runs'[1] = new
      /\ \A i \in 1 .. Len(runs) : runs'[i + 1] = outer(i)
  <2> DEFINE s == [i \in 1 .. Len(runs) |-> outer(i)]
  <2>1. s \in Seq(RunType) /\ Len(s) = Len(runs) /\ \A i \in 1 .. Len(runs) : s[i] = outer(i)
    BY <1>4, <1>6
  <2>2. <<new>> \in Seq(RunType) /\ Len(<<new>>) = 1 /\ <<new>>[1] = new  BY <1>5
  <2>. HIDE DEF s
  <2>3. runs' = <<new>> \o s  BY <1>7 DEF s
  <2>4. runs' \in Seq(RunType) /\ Len(runs') = Len(runs) + 1 /\ runs'[1] = new
    BY <1>4, <2>1, <2>2, <2>3
  <2>5. \A i \in 1 .. Len(runs) : runs'[i + 1] = s[i]  BY <1>4, <2>1, <2>2, <2>3
  <2>. QED  BY <2>1, <2>4, <2>5
<1>9. \A i \in 2 .. Len(runs) + 1 : i - 1 \in 1 .. Len(runs) /\ runs'[i] = outer(i - 1)
  <2>1. \A i \in 2 .. Len(runs) + 1 : i - 1 \in 1 .. Len(runs) /\ (i - 1) + 1 = i  BY <1>4
  <2>. QED  BY <1>8, <2>1
<1>10. \A i \in 1 .. Len(runs) + 1 : i = 1 \/ i \in 2 .. Len(runs) + 1  BY <1>4
<1>11. Types'  BY <1>1, <1>2, <1>3, <1>8 DEF SnInv, Types
<1>12. ASSUME NEW i \in 1 .. Len(runs)  PROVE RunOK(outer(i), card, mode, ui.input)
  <2>1. RunOK(runs[i], card, mode, ui.input)  BY DEF SnInv, Stack
  <2>. QED  BY <1>6, <2>1 DEF RunOK
<1>13. RunOK(new, card, mode, ui.input) /\ TopOK(new, card, mode)
  BY <1>5 DEF RunOK, TopOK, Fresh, Opened, Closed, Writing, Verified
<1>14. \A i \in 1 .. Len(runs) + 1 : RunOK(runs'[i], card, mode, ui.input)
  BY <1>8, <1>9, <1>10, <1>12, <1>13
<1>15. \A i \in 1 .. Len(runs) : runs[i].pc \in Pumps
  <2>1. \A i \in 1 .. Len(runs) : i = 1 \/ i \in 2 .. Len(runs)  BY <1>4
  <2>2. Len(runs) > 0 => runs[1].pc \in Pumps  BY <1>4 DEF Responsive, Top
  <2>. QED  BY <1>4, <2>1, <2>2 DEF SnInv, Stack
<1>16. \A i \in 2 .. Len(runs) + 1 : runs'[i].pc \in Pumps /\ runs'[i].nested  BY <1>6, <1>9, <1>15
<1>17. ASSUME NEW i \in 1 .. Len(runs) + 1, NEW j \in 1 .. Len(runs) + 1, i < j, runs'[i].reset
       PROVE  runs'[j].reset
  <2>1. i # 1 /\ j # 1  BY <1>4, <1>5, <1>8, <1>17
  <2>2. i - 1 \in 1 .. Len(runs) /\ runs'[i] = outer(i - 1)  BY <1>9, <1>10, <2>1
  <2>3. j - 1 \in 1 .. Len(runs) /\ runs'[j] = outer(j - 1)  BY <1>9, <1>10, <2>1
  <2>4. runs[i - 1].reset /\ i - 1 < j - 1  BY <1>4, <1>6, <1>17, <2>2
  <2>. QED  BY <1>6, <2>2, <2>3, <2>4 DEF SnInv, Stack
<1>18. Stack'  BY <1>1, <1>2, <1>8, <1>13, <1>14, <1>16, <1>17 DEF Stack
<1>19. PoweredBySomeone'
  <2>1. SUFFICES ASSUME card.power, ~past.leftOn
                 PROVE  \E i \in 1 .. Len(runs) + 1 : runs'[i].dev # "none"
    BY <1>1, <1>3, <1>8 DEF PoweredBySomeone
  <2>2. PICK i \in 1 .. Len(runs) : runs[i].dev # "none"  BY <2>1 DEF SnInv, PoweredBySomeone
  <2>3. i + 1 \in 1 .. Len(runs) + 1  BY <1>4
  <2>. QED  BY <1>6, <1>8, <2>2, <2>3
<1>20. Untouched(card)' /\ Died'  BY <1>1 DEF SnInv, Untouched, Died
<1>. QED  BY <1>11, <1>18, <1>19, <1>20 DEF SnInv

(* Another card is put in, with no run active.                             *)
LEMMA ChangeInv == SnInv /\ ChangeCard => SnInv'
PROOF
<1> SUFFICES ASSUME SnInv, ChangeCard  PROVE SnInv'
  OBVIOUS
<1>1. /\ alive /\ runs = <<>> /\ card' = NewCard /\ UNCHANGED <<mode, ui, factory, runs, alive>>
      /\ past' = [past EXCEPT !.leftOn = FALSE]
  BY DEF ChangeCard
<1>2. card' \in CardType  BY <1>1 DEF NewCard, CardType, Values
<1>3. DOMAIN past' = PastFields  BY <1>1 DEF SnInv, Types, PastFields
<1>4. Types'  BY <1>1, <1>2, <1>3 DEF SnInv, Types
<1>5. Len(runs') = 0  BY <1>1
<1>6. Stack'  BY <1>5 DEF Stack
<1>7. Untouched(card)' /\ PoweredBySomeone' /\ Died'
  BY <1>1 DEF Untouched, PoweredBySomeone, Died, NewCard
<1>. QED  BY <1>4, <1>6, <1>7 DEF SnInv

(* Every step keeps the invariant.                                         *)
LEMMA StepInv == SnInv /\ [Next]_vars => SnInv'
PROOF
<1> SUFFICES ASSUME SnInv, [Next]_vars  PROVE SnInv'
  OBVIOUS
<1>1. CASE Run
  <2>1. ASSUME UpsnReadIspFerri("readback", "poweroff")  PROVE SnInv'  BY <2>1, ReadInv
  <2>2. ASSUME UpsnReadIspFerri("reread", "verify")  PROVE SnInv'  BY <2>2, ReadInv
  <2>. QED
    BY <1>1, <2>1, <2>2, CaptureInv, ScanInv, ShowInv, IdentifyInv, DownloadInv, PowerOffInv,
       PowerOnInv, VerifyInv, ExternalInv, ConnectInv, RunTimeInv, LogInv, FinishInv, ReturnInv
    DEF Run
<1>2. CASE User
  <2>1. CASE OnButtonSetSn  BY <2>1, SetInv DEF OnButtonSetSn, Responsive
  <2>2. CASE OnStartUpdatedSN  BY <2>2, BeginInv DEF OnStartUpdatedSN
  <2>3. CASE PreTranslateMessage
    BY <2>3, SetInv, BeginInv DEF PreTranslateMessage, Responsive
  <2>. QED  BY <1>2, <2>1, <2>2, <2>3, DialogInv, ChangeInv DEF User
<1>3. CASE UNCHANGED vars
  <2>. USE <1>3 DEF vars, SnInv
  <2>1. Types'  BY DEF Types
  <2>2. Stack'  BY DEF Stack
  <2>3. Untouched(card)' /\ PoweredBySomeone' /\ Died'  BY DEF Untouched, PoweredBySomeone, Died
  <2>. QED  BY <2>1, <2>2, <2>3
<1>. QED  BY <1>1, <1>2, <1>3 DEF Next
-----------------------------------------------------------------------------
(* The invariant holds in every behaviour, for any serial numbers, number  *)
(* of downloads tried, faults, and depth of nesting.                       *)
THEOREM SnAlwaysInv == Spec => []SnInv
PROOF
<1>1. Init => SnInv  BY InitInv
<1>2. SnInv /\ [Next]_vars => SnInv'  BY StepInv
<1>. QED  BY <1>1, <1>2, PTL DEF Spec

(* With no run active the card is off, unless a failed scan left it on or  *)
(* the command to power it off had no effect.                              *)
THEOREM AlwaysOffWhenIdle == Spec => []OffWhenIdle
PROOF
<1>1. SnInv => OffWhenIdle
  <2>1. SUFFICES ASSUME SnInv, runs = <<>>, card.power  PROVE past.leftOn
    BY DEF OffWhenIdle
  <2>2. Len(runs) = 0  BY <2>1
  <2>. QED  BY <2>1, <2>2 DEF SnInv, PoweredBySomeone
<1>. QED  BY <1>1, SnAlwaysInv, PTL

(* While the dialog is open, a run nothing was nested in takes the process *)
(* down only with its work on the card done and verified.                  *)
THEOREM AlwaysDiesWithTheWorkDone == Spec => []DiesWithTheWorkDone
PROOF
<1>1. SnInv => DiesWithTheWorkDone
  <2>1. SUFFICES ASSUME SnInv, ~alive, factory, Len(runs) = 1, ~Top.nested
                 PROVE  /\ card.power
                        /\ mode = "update" =>
                             card.isp = <<Top.isp, Top.isp>> /\ (Top.reset \/ card.id = Top.isp)
    BY DEF DiesWithTheWorkDone
  <2>2. Top = runs[1] /\ runs # <<>>  BY <2>1 DEF SnInv, Types, Top
  <2>3. Top.dev = "closed" /\ TopOK(Top, card, mode)  BY <2>1, <2>2, TopKnown DEF SnInv, Died
  <2>. QED  BY <2>1, <2>3 DEF TopOK
<1>. QED  BY <1>1, SnAlwaysInv, PTL

(* Only a verdict makes the log longer.                                    *)
Line == [sn |-> Top.sn, good |-> At("complete")]
LEMMA LogGrows ==
  Next => \/ log' = log
          \/ (At("complete") \/ At("ng")) /\ log' = Append(log, Line)
PROOF
<1> SUFFICES ASSUME Next, log' # log  PROVE (At("complete") \/ At("ng")) /\ log' = Append(log, Line)
  OBVIOUS
<1>1. Complete \/ Judge
  <2>1. CASE User
    BY <2>1, Zenon DEF User, OnEditInputSn, OnButtonSetSn, OnStartUpdatedSN, PreTranslateMessage,
      SetSn, Begin, OnButtonClearCnt, OnQuit, ChangeCard, UiOnly
  <2>2. CASE Run
    <3>1. CASE Finish \/ Return  BY <3>1, Zenon DEF Finish, Return, Crash
    <3>2. CASE Run /\ ~Finish /\ ~Return
      BY <3>2, Zenon DEF Run, Capture, ScanDevice, ShowDevice, Identify, UpsnUpdateIspFerri,
        UpsnReadIspFerri, PowerCycleOff, PowerCycleOn, UpsnVerifySn, ExcuseExternalProcess,
        Connect, GetRunTimeBad, Standby, RunOnly, Crash
    <3>. QED  BY <2>2, <3>1, <3>2
  <2>. QED  BY <2>1, <2>2 DEF Next
<1>2. CASE Complete  BY <1>2 DEF Complete, WriteLog, Line
<1>3. CASE Judge
  <2>1. At("ng") /\ log' = Append(log, [sn |-> Top.sn, good |-> FALSE])
    BY <1>3 DEF Judge, WriteLog
  <2>2. At("complete") = FALSE  BY <2>1 DEF At
  <2>. QED  BY <2>1, <2>2 DEF Line
<1>. QED  BY <1>1, <1>2, <1>3

(* The log is a sequence of lines.                                         *)
Logged == log \in Seq([sn : Values, good : BOOLEAN])
LEMMA LogStep == SnInv /\ Logged /\ [Next]_vars => Logged'
PROOF
<1> SUFFICES ASSUME SnInv, Logged, Next  PROVE Logged'
  BY DEF Logged, vars
<1>1. CASE log' = log  BY <1>1 DEF Logged
<1>2. CASE (At("complete") \/ At("ng")) /\ log' = Append(log, Line)
  <2>1. Top.sn \in Values  BY <1>2, TopKnown DEF At, RunType
  <2>2. At("complete") \in BOOLEAN  BY DEF At, SnInv, Types
  <2>3. Line \in [sn : Values, good : BOOLEAN]  BY <2>1, <2>2 DEF Line
  <2>. QED  BY <1>2, <2>3 DEF Logged
<1>. QED  BY <1>1, <1>2, LogGrows

(* A line "Good" means that the card reports the number of the line, and   *)
(* after an update holds it in both copies of its firmware, unless another *)
(* number was set under the run.                                           *)
THEOREM GoodAlwaysMeansWritten == Spec => GoodMeansWritten
PROOF
<1> DEFINE line == log'[Len(log')]
           Told == Len(log') > Len(log) =>
                     (line.good /\ ~Top.reset =>
                        /\ card.id = line.sn
                        /\ mode = "update" => card.isp = <<line.sn, line.sn>>)
<1>1. SnInv /\ Logged /\ [Next]_vars => [Told]_vars
  <2>1. SUFFICES ASSUME SnInv, Logged, Next, Len(log') > Len(log), line.good, ~Top.reset
                 PROVE  /\ card.id = line.sn
                        /\ mode = "update" => card.isp = <<line.sn, line.sn>>
    OBVIOUS
  <2>2. log' # log  BY <2>1 DEF Logged
  <2>3. (At("complete") \/ At("ng")) /\ log' = Append(log, Line)  BY <2>1, <2>2, LogGrows
  <2>4. line = Line  BY <2>1, <2>3 DEF Logged
  <2>5. At("complete") /\ line.sn = Top.sn  BY <2>1, <2>4 DEF Line
  <2>6. Top.pc = "complete" /\ RunOK(Top, card, mode, ui.input)  BY <2>1, <2>5, TopKnown DEF At
  <2>. QED  BY <2>1, <2>5, <2>6 DEF RunOK, Verified
<1>2. Init => Logged  BY DEF Init, Logged
<1>3. SnInv /\ Logged /\ [Next]_vars => Logged'  BY LogStep
<1>. QED  BY <1>1, <1>2, <1>3, SnAlwaysInv, PTL DEF Spec, GoodMeansWritten
-----------------------------------------------------------------------------
(* The counter.  A run writes its line and counts without pumping messages *)
(* in between, so only the innermost run can have a line not yet counted,  *)
(* and the saved count is the one shown unless the last save failed.       *)
Counted ==
  /\ DOMAIN count = {"current", "saved"} /\ count.current \in Nat /\ past.logged \in Nat
  /\ past.unsaved \in BOOLEAN /\ (~past.unsaved => count.saved = count.current)
  /\ past.logged <= count.current + Uncounted

(* Any step of a run that has no line to count leaves line and count alone.*)
LEMMA CountKept ==
  ASSUME Counted, ~(runs # <<>> /\ Top.pc = "finish"), count' = count,
         past'.logged = past.logged, past'.unsaved = past.unsaved
  PROVE  Counted'
PROOF
<1>1. Uncounted = 0 /\ Uncounted' \in {0, 1}  BY DEF Uncounted
<1>. QED  BY <1>1 DEF Counted

(* A fault leaves the number of lines and the last save alone.             *)
LEMMA FaultLogs ==
  ASSUME DOMAIN past = PastFields, Fault \/ NoFault
  PROVE  past'.logged = past.logged /\ past'.unsaved = past.unsaved
BY DEF Fault, NoFault, PastFields

(* Saving, or trying to.                                                   *)
LEMMA Saves ==
  ASSUME Counted, NEW n \in Nat, NEW failed \in BOOLEAN, UpsnUpdateCnt(n, failed),
         past'.unsaved = failed, past'.logged \in Nat, past'.logged <= n
  PROVE  Counted'
PROOF
<1>1. DOMAIN count' = {"current", "saved"} /\ count'.current = n /\ (~failed => count'.saved = n)
  BY DEF UpsnUpdateCnt
<1>2. Uncounted' \in {0, 1}  BY DEF Uncounted
<1>. QED  BY <1>1, <1>2 DEF Counted

LEMMA RunCounts == SnInv /\ Counted /\ Run => Counted'
PROOF
<1> SUFFICES ASSUME SnInv, Counted, Run  PROVE Counted'
  OBVIOUS
<1>1. DOMAIN past = PastFields  BY DEF SnInv, Types
<1>2. CASE Complete \/ Judge
  <2>1. /\ alive /\ runs # <<>> /\ Top.pc \in {"complete", "ng"} /\ count' = count /\ Goto("finish")
        /\ past' = [past EXCEPT !.logged = @ + 1] \/ Fault
        /\ alive' = alive
    BY <1>2 DEF Complete, Judge, WriteLog, At
  <2>2. Uncounted = 0  BY <2>1 DEF Uncounted
  <2>3. past'.logged \in {past.logged, past.logged + 1} /\ past'.unsaved = past.unsaved
    BY <1>1, <2>1, FaultLogs DEF PastFields
  <2>4. runs' # <<>> /\ Head(runs').pc = "finish"
    <3>1. Top \in RunType /\ runs \in Seq(RunType)  BY <2>1, TopKnown DEF SnInv, Types
    <3>2. [Top EXCEPT !.pc = "finish"] \in RunType  BY <3>1, Went DEF Pcs
    <3>3. /\ runs' \in Seq(RunType) /\ Len(runs') > 0
          /\ runs'[1] = [Top EXCEPT !.pc = "finish"]
      BY <2>1, <3>1, <3>2, TopReplaced DEF Goto
    <3>. QED  BY <3>1, <3>3 DEF RunType
  <2>5. Uncounted' = 1  BY <2>1, <2>4 DEF Uncounted, Top
  <2>. QED  BY <2>1, <2>2, <2>3, <2>5 DEF Counted
<1>3. CASE Finish
  <2>1. CASE Throws /\ Crash
    <3>1. runs' = runs /\ past' = past /\ count' = count  BY <2>1 DEF Crash
    <3>2. Uncounted' = 1
      BY <1>3, <2>1, <3>1 DEF Uncounted, Finish, At, Throws, Top
    <3>3. Uncounted \in {0, 1}  BY DEF Uncounted
    <3>. QED  BY <3>1, <3>2, <3>3 DEF Counted
  <2>2. CASE ~(Throws /\ Crash)
    <3>1. PICK lost \in BOOLEAN, failed \in BOOLEAN :
            /\ UpsnUpdateCnt(count.current + 1, failed)
            /\ past' = AfterSave(AfterPower(lost), failed)
      BY <1>3, <2>2, Zenon DEF Finish
    <3>2. past'.logged = past.logged /\ past'.unsaved = failed
      BY <1>1, <3>1, Powering, Saving
    <3>3. past.logged <= count.current + 1 /\ count.current + 1 \in Nat /\ past.logged \in Nat
      BY DEF Counted, Uncounted
    <3>. QED  BY <3>1, <3>2, <3>3, Saves
  <2>. QED  BY <2>1, <2>2
<1>4. CASE ScanDevice
  <2>1. Top.pc = "scan" /\ count' = count  BY <1>4 DEF ScanDevice, At, Crash, RunOnly
  <2>2. past'.logged = past.logged /\ past'.unsaved = past.unsaved
    BY <1>1, <1>4, FaultLogs DEF ScanDevice, Crash, PastFields
  <2>. QED  BY <2>1, <2>2, CountKept
<1>5. CASE Capture \/ ShowDevice \/ Standby \/ Return
  BY <1>5, CountKept DEF Capture, ShowDevice, Standby, Return, At, RunOnly
<1>6. CASE \/ Identify \/ UpsnReadIspFerri("readback", "poweroff") \/ UpsnReadIspFerri("reread", "verify")
           \/ Connect \/ GetRunTimeBad
  <2>1. Top.pc # "finish" /\ count' = count
    BY <1>6 DEF Identify, UpsnReadIspFerri, Connect, GetRunTimeBad, At, Crash, RunOnly
  <2>2. UNCHANGED past \/ Fault \/ NoFault
    BY <1>6 DEF Identify, UpsnReadIspFerri, Connect, GetRunTimeBad, Crash, Fails
  <2>. QED  BY <1>1, <2>1, <2>2, CountKept, FaultLogs
<1>7. CASE UpsnUpdateIspFerri \/ PowerCycleOff \/ PowerCycleOn \/ UpsnVerifySn \/ ExcuseExternalProcess
  <2>1. Top.pc # "finish" /\ count' = count
    BY <1>7 DEF UpsnUpdateIspFerri, PowerCycleOff, PowerCycleOn, UpsnVerifySn, ExcuseExternalProcess,
      At, RunOnly
  <2>2. Fault \/ NoFault
    BY <1>7 DEF UpsnUpdateIspFerri, PowerCycleOff, PowerCycleOn, UpsnVerifySn, ExcuseExternalProcess
  <2>. QED  BY <1>1, <2>1, <2>2, CountKept, FaultLogs
<1>. QED  BY <1>2, <1>3, <1>4, <1>5, <1>6, <1>7 DEF Run

LEMMA UserCounts == SnInv /\ Counted /\ User => Counted'
PROOF
<1> SUFFICES ASSUME SnInv, Counted, User  PROVE Counted'
  OBVIOUS
<1>1. DOMAIN past = PastFields  BY DEF SnInv, Types
<1>2. ~(runs # <<>> /\ Top.pc = "finish")
  <2>1. Responsive \/ runs = <<>>
    BY Zenon DEF User, OnEditInputSn, OnButtonSetSn, OnStartUpdatedSN, PreTranslateMessage,
      OnButtonClearCnt, OnQuit, ChangeCard
  <2>. QED  BY <2>1 DEF Responsive, Pumps
<1>5. past.logged \in Nat /\ count.current \in Nat /\ past.logged <= count.current
  BY <1>2 DEF Counted, Uncounted
<1>3. CASE OnButtonClearCnt
  <2>1. PICK failed \in BOOLEAN :
          UpsnUpdateCnt(0, failed) /\ past' = AfterSave([past EXCEPT !.logged = 0], failed)
    BY <1>3, Zenon DEF OnButtonClearCnt
  <2>2. past'.logged = 0 /\ past'.unsaved = failed  BY <1>1, <2>1, Clearing
  <2>. QED  BY <2>1, <2>2, Saves
<1>6. CASE OnQuit
  <2>1. PICK failed \in BOOLEAN :
          UpsnUpdateCnt(count.current, failed) /\ past' = AfterSave(past, failed)
    BY <1>6, Zenon DEF OnQuit
  <2>2. past'.logged = past.logged /\ past'.unsaved = failed  BY <1>1, <2>1, Saving
  <2>. QED  BY <1>5, <2>1, <2>2, Saves
<1>4. CASE User /\ ~OnButtonClearCnt /\ ~OnQuit
  <2>1. CASE OnEditInputSn
    <3>1. count' = count /\ past' = [past EXCEPT !.sets = @ + 1]
      BY <2>1, Zenon DEF OnEditInputSn
    <3>. QED  BY <1>1, <1>2, <3>1, CountKept DEF PastFields
  <2>2. CASE OnButtonSetSn \/ OnStartUpdatedSN \/ PreTranslateMessage \/ ChangeCard
    <3>1. /\ count' = count
          /\ \/ past' = past
             \/ past' = [past EXCEPT !.starts = @ + 1]
             \/ past' = [past EXCEPT !.leftOn = FALSE]
      BY <2>2, Zenon DEF OnButtonSetSn, OnStartUpdatedSN, PreTranslateMessage, SetSn, Begin,
        ChangeCard
    <3>. QED  BY <1>1, <1>2, <3>1, CountKept DEF PastFields
  <2>. QED  BY <1>4, <2>1, <2>2 DEF User
<1>. QED  BY <1>3, <1>4, <1>6

(* The count shown includes every line of the log written since it was     *)
(* cleared, and the one saved too unless the last save failed, but for a   *)
(* line whose run is about to power the card off or died of it.            *)
THEOREM LogAlwaysWithinCount == Spec => []LogWithinCount
PROOF
<1>1. Init => Counted  BY DEF Init, Counted, Uncounted
<1>2. SnInv /\ Counted /\ [Next]_vars => Counted'
  <2>1. CASE UNCHANGED vars  BY <2>1 DEF vars, Counted, Uncounted, Top
  <2>. QED  BY <2>1, RunCounts, UserCounts DEF Next
<1>3. Counted => LogWithinCount  BY DEF Counted, LogWithinCount
<1>. QED  BY <1>1, <1>2, <1>3, SnAlwaysInv, PTL DEF Spec
=============================================================================
