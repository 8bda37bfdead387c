-------------------------------- MODULE SnUpdate --------------------------------
(***************************************************************************)
(* The serial number update tool (CUpdateSnToolDlg) and the device library *)
(* under it (CFerriFactory, CFerriComm): one run scans for a card, writes  *)
(* the serial number into both copies of its firmware, power-cycles it,    *)
(* verifies, runs an external test and logs the verdict.                   *)
(*                                                                         *)
(* A run is one message handler of a single thread, but every SetStatus in *)
(* it pumps messages (PassAllMessage) with the controls enabled, so there  *)
(* the user may set another serial number, start a nested run, clear the   *)
(* counter or quit.  A run is therefore a pc whose Pumps are the only      *)
(* points between which something else happens, and runs form a stack.     *)
(***************************************************************************)
EXTENDS Naturals, Sequences

CONSTANTS
  Serials,      \* serial numbers with the prefix of the model
  Bad,          \* stands for every text without it, the empty one included
  Prefix,       \* m_global_prefix: asks a verify-only run to skip the check
  Factory,      \* the serial number of a new card
  RETRY_TIMES,  \* downloads tried
  MaxRuns, MaxSets, MaxFaults, MaxDepth   \* bounds

VARIABLES
  mode,     \* m_test_mode
  ui,       \* edit text, m_input_sn, m_is_set_sn, the Start and Set buttons
  factory,  \* m_ferri_factory is alive, and with it the DLL of the devices
  runs,     \* active OnStartUpdatedSN, the innermost first
  card,     \* its power, both firmware copies, the identity it has loaded
  log,      \* lines of log 1
  count,    \* m_count_current, and the one in the file
  alive,    \* the process
  past      \* history: starts, sets, faults, lines since the last clearing;
            \* whether the card was left on, whether the last save failed
vars == <<mode, ui, factory, runs, card, log, count, alive, past>>

Texts == Serials \cup {Bad, Prefix}
Pumps == {"start", "scan", "found", "loading", "poweroff", "poweron", "external",
          "reconnect", "runtime", "complete", "ng", "caution", "end"}

Top == Head(runs)
At(pc) == alive /\ runs # <<>> /\ Top.pc = pc
Replace(r) == runs' = <<r>> \o Tail(runs)
Goto(pc) == Replace([Top EXCEPT !.pc = pc])

Fault == past.faults < MaxFaults /\ past' = [past EXCEPT !.faults = @ + 1]
NoFault == UNCHANGED past
Nr(failed) == IF failed THEN 1 ELSE 0
\* A command to the card fails when the card is off, and whenever it likes.
Fails == IF card.power THEN Fault ELSE NoFault

Crash == alive' = FALSE /\ UNCHANGED <<mode, ui, factory, runs, card, log, count, past>>
\* The API table of a device lives in the factory, the code in its DLL.
Api == factory

\* A card loads its identity from the first copy when it gets power.
Powered(c) == IF c.power THEN c ELSE [c EXCEPT !.power = TRUE, !.id = c.isp[1]]
Off(c) == [c EXCEPT !.power = FALSE]
NewCard == [power |-> FALSE, isp |-> <<Factory, Factory>>, id |-> Factory]

Init ==
  /\ mode \in {"update", "verify"}
  /\ ui = [text |-> Bad, input |-> Bad, isSet |-> FALSE, start |-> FALSE, set |-> TRUE]
  /\ factory = TRUE /\ runs = <<>> /\ card = NewCard
  /\ log = <<>> /\ count = [current |-> 0, saved |-> 0] /\ alive = TRUE
  /\ past = [starts |-> 0, sets |-> 0, faults |-> 0, logged |-> 0,
             leftOn |-> FALSE, unsaved |-> FALSE]

-----------------------------------------------------------------------------
(* The count goes up, or to zero, and is saved; whether it was saved is    *)
(* not asked.  The file is named relative to the current folder, and only  *)
(* read at the start.                                                      *)
\* (A slip: the count is saved first.)
SavesOldCount(n, failed) ==
  count' = [current |-> n, saved |-> IF failed THEN count.saved ELSE count.current]

UpsnUpdateCnt(n, failed) ==
  count' = [current |-> n, saved |-> IF failed THEN count.saved ELSE n]
Saved(failed) == past.faults + Nr(failed) <= MaxFaults
AfterSave(p, failed) == [p EXCEPT !.faults = @ + Nr(failed), !.unsaved = failed]

-----------------------------------------------------------------------------
(* What the user does: when the dialog is idle, or inside a pump.          *)

Responsive == alive /\ factory /\ (runs # <<>> => Top.pc \in Pumps)
UiOnly == UNCHANGED <<mode, factory, card, log, alive>>

OnEditInputSn ==
  \E t \in Texts :
    /\ Responsive /\ past.sets < MaxSets /\ t # ui.text
    /\ ui' = [ui EXCEPT !.text = t, !.set = TRUE, !.start = FALSE, !.isSet = FALSE]
    /\ past' = [past EXCEPT !.sets = @ + 1]
    /\ UiOnly /\ UNCHANGED <<runs, count>>

SetSn ==
  /\ ui' = [ui EXCEPT !.input = ui.text, !.set = FALSE, !.start = TRUE, !.isSet = TRUE]
  /\ runs' = [i \in DOMAIN runs |->
                [runs[i] EXCEPT !.reset = @ \/ ui.text # ui.input]]
  /\ UiOnly /\ UNCHANGED <<count, past>>

OnButtonSetSn == Responsive /\ ui.set /\ SetSn

Begin(byEnter) ==
  /\ past.starts < MaxRuns /\ Len(runs) < MaxDepth
  /\ ui' = [ui EXCEPT !.start = FALSE]
  /\ runs' = <<[pc |-> "start", enter |-> byEnter, dev |-> "none", sn |-> Bad, isp |-> Bad,
                verify |-> TRUE, tries |-> 0, exit |-> 0, reset |-> FALSE, nested |-> FALSE]>>
             \o [i \in DOMAIN runs |-> [runs[i] EXCEPT !.nested = TRUE]]
  /\ past' = [past EXCEPT !.starts = @ + 1]
  /\ UiOnly /\ UNCHANGED count

OnStartUpdatedSN == Responsive /\ ui.start /\ Begin(FALSE)

\* The key is translated by the dialog's own loop only, whatever the
\* buttons look like.
PreTranslateMessage ==
  /\ Responsive /\ runs = <<>>
  /\ \/ ~ui.isSet /\ SetSn
     \/ ui.isSet /\ Begin(TRUE)

OnButtonClearCnt ==
  /\ Responsive /\ count.current > 0
  /\ \E failed \in BOOLEAN :
       /\ Saved(failed) /\ UpsnUpdateCnt(0, failed)
       /\ past' = AfterSave([past EXCEPT !.logged = 0], failed)
  /\ UiOnly /\ UNCHANGED <<ui, runs>>

\* The count is saved once more and the dialog hidden; a handler that is
\* running goes on.
OnQuit ==
  /\ Responsive
  /\ factory' = FALSE
  /\ \E failed \in BOOLEAN :
       /\ Saved(failed) /\ UpsnUpdateCnt(count.current, failed)
       /\ past' = AfterSave(past, failed)
  /\ UNCHANGED <<mode, ui, runs, card, log, alive>>

ChangeCard ==
  /\ alive /\ runs = <<>> /\ card # NewCard
  /\ card' = NewCard /\ past' = [past EXCEPT !.leftOn = FALSE]
  /\ UNCHANGED <<mode, ui, factory, runs, log, count, alive>>

-----------------------------------------------------------------------------
(* One run.                                                                *)

RunOnly == UNCHANGED <<mode, ui, factory, log, count, alive>>

\* DEVICE_INFO takes the serial number before the status is shown again.
\* (A slip: it takes the text of the edit control.)
CapturedText == ui.text
Captured == ui.input
Capture ==
  /\ At("start")
  /\ Replace([Top EXCEPT !.pc = "scan", !.sn = Captured])
  /\ RunOnly /\ UNCHANGED <<card, past>>

ScanDevice ==
  /\ At("scan")
  /\ \/ ~factory /\ Crash
     \/ /\ factory
        /\ \/ /\ card' = Powered(card) /\ NoFault
              /\ Replace([Top EXCEPT !.pc = "found", !.dev = "open"])
           \/ Fault /\ Goto("ng") /\ UNCHANGED card
           \/ /\ past.faults < MaxFaults
              /\ card' = Powered(card) /\ Goto("ng")
              /\ past' = [past EXCEPT !.faults = @ + 1, !.leftOn = TRUE]
        /\ RunOnly

ShowDevice == At("found") /\ Goto("loading") /\ RunOnly /\ UNCHANGED <<card, past>>

SkipsSn == mode = "verify" /\ ui.input = Prefix

\* ReadIdentify, the checks of the serial number and of the flash id, and
\* UpsnLoadIspFile.
Identify ==
  /\ At("loading")
  /\ \/ ~Api /\ Crash
     \/ /\ Api /\ RunOnly /\ UNCHANGED card
        /\ \/ Fails /\ Goto("finish")
           \/ /\ card.power
              /\ \/ SkipsSn /\ NoFault
                    /\ Replace([Top EXCEPT !.pc = "verify", !.verify = FALSE, !.sn = card.id])
                 \/ ~SkipsSn /\ Goto("caution")
                    /\ IF ui.input \in Serials THEN Fault ELSE NoFault
                 \/ ~SkipsSn /\ ui.input \in Serials /\ NoFault
                    /\ Replace([Top EXCEPT !.isp = ui.input,
                                  !.pc = IF mode = "update" THEN "download" ELSE "verify"])
                 \/ (SkipsSn \/ ui.input \in Serials) /\ Fault /\ Goto("ng")

\* A download that fails may have written the first copy; one that says it
\* succeeded may have missed the second.
UpsnUpdateIspFerri ==
  /\ At("download") /\ RunOnly
  /\ LET both == [card EXCEPT !.isp = <<Top.isp, Top.isp>>]
         first == [card EXCEPT !.isp[1] = Top.isp]
     IN \/ NoFault /\ card' = both /\ Goto("readback")
        \/ Fault /\ card' = first /\ Goto("readback")
        \/ /\ Fault /\ card' \in {card, first}
           /\ Replace([Top EXCEPT !.tries = @ + 1,
                         !.pc = IF Top.tries + 1 < RETRY_TIMES THEN "download" ELSE "ng"])

SameIsp == \A i \in 1..2 : card.isp[i] = Top.isp

UpsnReadIspFerri(pc, next) ==
  /\ At(pc)
  /\ \/ ~Api /\ Crash
     \/ /\ Api /\ RunOnly /\ UNCHANGED card
        /\ \/ SameIsp /\ NoFault /\ Goto(next)
           \/ (IF SameIsp THEN Fault ELSE NoFault) /\ Goto("ng")

\* The command may have no effect, and has none on an unknown tester; its
\* result is not asked.
PowerCycleOff ==
  /\ At("poweroff") /\ RunOnly /\ Goto("poweron")
  /\ \/ card' = Off(card) /\ NoFault
     \/ card' = card /\ Fault

PowerCycleOn ==
  /\ At("poweron") /\ RunOnly
  /\ \/ card' = Powered(card) /\ NoFault /\ Goto("reread")
     \/ card' \in {card, Powered(card)} /\ Fault /\ Goto("ng")

\* The rest of the identity matches the configuration or counts as a fault.
UpsnVerifySn ==
  /\ At("verify") /\ RunOnly /\ UNCHANGED card
  /\ LET same == Top.verify => card.id = ui.input
     IN \/ /\ same /\ NoFault
           /\ Replace([Top EXCEPT !.pc = "external", !.dev = "closed"])
        \/ (IF same THEN Fault ELSE NoFault) /\ Goto("ng")

ExcuseExternalProcess ==
  /\ At("external") /\ RunOnly /\ UNCHANGED card
  /\ \/ NoFault /\ Goto("reconnect")
     \/ Fault /\ Replace([Top EXCEPT !.pc = "reconnect", !.exit = 1])
     \/ Fault /\ Goto("ng")
     \/ Fault /\ Goto("finish")

Connect ==
  /\ At("reconnect")
  /\ \/ card.power /\ ~Api /\ Crash
     \/ /\ RunOnly /\ UNCHANGED card
        /\ \/ Fails /\ Goto("finish")
           \/ /\ card.power /\ Api /\ NoFault
              /\ Replace([Top EXCEPT !.pc = "runtime", !.dev = "open"])

GetRunTimeBad ==
  /\ At("runtime")
  /\ \/ ~Api /\ Crash
     \/ /\ Api /\ RunOnly /\ UNCHANGED card
        /\ \/ Fails /\ Goto("finish")
           \/ card.power /\ NoFault /\ Goto(IF Top.exit = 0 THEN "complete" ELSE "ng")

\* The result of writing is ignored.
WriteLog(good) ==
  /\ Goto("finish")
  /\ \/ /\ log' = Append(log, [sn |-> Top.sn, good |-> good])
        /\ past' = [past EXCEPT !.logged = @ + 1]
     \/ Fault /\ UNCHANGED log
  /\ UNCHANGED <<mode, ui, factory, card, count, alive>>

Complete == At("complete") /\ WriteLog(TRUE)
Judge == At("ng") /\ WriteLog(FALSE)
Standby == At("caution") /\ Goto("finish") /\ RunOnly /\ UNCHANGED <<card, past>>

\* Slips the mutants take: the power left on, the device assumed to be there.
PowerLeftOn(lost) == card' = card
ThrowsWithoutDevice == Top.dev # "open"

\* PowerOnOff throws when the device is disconnected, outside the try block.
\* Whether the command had an effect is not asked.
Throws == Top.dev = "closed"
PowerOnOff(lost) == card' = IF Top.dev = "open" /\ ~lost THEN Off(card) ELSE card
AfterPower(lost) ==
  [past EXCEPT !.faults = @ + Nr(lost),
               !.leftOn = IF Top.dev = "open" THEN lost /\ card.power ELSE @]

Finish ==
  /\ At("finish")
  /\ \/ Throws /\ Crash
     \/ /\ ~Throws /\ Replace([Top EXCEPT !.pc = "end", !.dev = "none"])
        /\ \E lost, failed \in BOOLEAN :
             /\ lost => Top.dev = "open"
             /\ past.faults + Nr(lost) + Nr(failed) <= MaxFaults
             /\ PowerOnOff(lost) /\ UpsnUpdateCnt(count.current + 1, failed)
             /\ past' = AfterSave(AfterPower(lost), failed)
        /\ ui' = [ui EXCEPT !.text = Bad, !.set = TRUE, !.start = FALSE, !.isSet = FALSE]
        /\ UNCHANGED <<mode, factory, log, alive>>

Return ==
  /\ At("end")
  /\ runs' = Tail(runs)
  /\ ui' = [ui EXCEPT !.isSet = @ /\ ~Top.enter]
  /\ UNCHANGED <<mode, factory, card, log, count, alive, past>>

Run ==
  \/ Capture \/ ScanDevice \/ ShowDevice \/ Identify \/ UpsnUpdateIspFerri
  \/ UpsnReadIspFerri("readback", "poweroff") \/ PowerCycleOff \/ PowerCycleOn
  \/ UpsnReadIspFerri("reread", "verify") \/ UpsnVerifySn \/ ExcuseExternalProcess
  \/ Connect \/ GetRunTimeBad \/ Complete \/ Judge \/ Standby \/ Finish \/ Return

User ==
  \/ OnEditInputSn \/ OnButtonSetSn \/ OnStartUpdatedSN \/ PreTranslateMessage
  \/ OnButtonClearCnt \/ OnQuit \/ ChangeCard

Next == Run \/ User
Spec == Init /\ [][Next]_vars

-----------------------------------------------------------------------------
(* A line "Good" in log 1 means that the card holds the serial number of   *)
(* the line, in both copies of its firmware when it was written and in the *)
(* identity it reports, unless the user set another serial number while    *)
(* the run pumped messages: the line keeps the first, the firmware and the *)
(* verification use the last (info.m_serial_number and m_input_sn).        *)
GoodMeansWritten ==
  [][Len(log') > Len(log) =>
       LET line == log'[Len(log')]
       IN line.good /\ ~Top.reset =>
            /\ card.id = line.sn
            /\ mode = "update" => card.isp = <<line.sn, line.sn>>]_vars

(* With no run active the card has no power, so that it can be taken out,  *)
(* unless nobody was told that it kept it: the last scan failed after it   *)
(* had powered the card, so that OnStartUpdatedSN had no device to power   *)
(* off, or the command that powers it off at the end of a run had no       *)
(* effect, which PowerOnOff does not report.                               *)
OffWhenIdle == alive /\ runs = <<>> /\ card.power => past.leftOn

(* Every verdict in the log reaches the count shown, and the one saved     *)
(* unless the last save failed, before the user or another run gets a      *)
(* word, whichever way runs fail, nest or are cleared under.  One line may *)
(* be missing: that of the innermost run while it powers the card off; it  *)
(* stays missing when that throws, as behind an external test that ran out *)
(* of time, and ends the process.                                          *)
Uncounted ==
  IF runs # <<>> /\ Top.pc = "finish" /\ (alive \/ Top.dev = "closed") THEN 1 ELSE 0
LogWithinCount ==
  past.logged <= (IF past.unsaved THEN count.current ELSE count.saved) + Uncounted

(* While the dialog is open, a run nothing was nested in takes the process *)
(* down in one situation only: its work on the card is done and verified,  *)
(* the device is closed for the external test and does not come back, and  *)
(* powering it off throws with nothing to catch it.  The card may report   *)
(* another number only if the user set one under the run.                  *)
DiesWithTheWorkDone ==
  ~alive /\ factory /\ Len(runs) = 1 /\ ~Top.nested =>
    /\ card.power
    /\ mode = "update" =>
         card.isp = <<Top.isp, Top.isp>> /\ (Top.reset \/ card.id = Top.isp)
==================================================================================
