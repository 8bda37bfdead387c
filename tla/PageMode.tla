------------------------------ MODULE PageMode ------------------------------
(***************************************************************************)
(* CPageModeDriver: the flash translation layer of the page-mode image,   *)
(* with the flash file CFileNand under it.  The driver keeps in memory a   *)
(* chain of blocks, the table from host page to flash page (zones of       *)
(* groups of pages) and the positions in its system blocks; it saves them  *)
(* in the flash when a data block is full and on FlushCache, and rebuilds  *)
(* them from the flash when it starts.  The exchange thread is its only    *)
(* caller.  A host write is one action for each page it touches, so the    *)
(* process can die between two pages.                                      *)
(***************************************************************************)
EXTENDS Integers, Sequences

CONSTANTS
  Blocks,         \* blocks of the flash; 0 holds the flash info, 1 the index
  PagesPerBlock,
  Zones, GroupsPerZone, PagesPerGroup,
  SecsPerPage,
  LinksPerPage,   \* link items that fit in a page
  Total,          \* m_total_sec
  MaxOps,         \* bound: host writes and flushes
  MaxStarts       \* bound: starts of the process

INVALID == 65535                     \* INVALID_BLOCK_NUM, also an erased word
SystemMark == 65280                  \* 0xFF00: from here on, the id of a system block
IndexBlock == 1                      \* scaled from 5
FirstBlock == 2                      \* scaled from 10

ASSUME PageModeAssumption ==
  /\ Blocks \in FirstBlock + 2 .. SystemMark - 1 /\ PagesPerBlock \in 3 .. 255
  /\ {Zones, GroupsPerZone, PagesPerGroup, SecsPerPage, MaxOps, MaxStarts} \subseteq Nat \ {0}
  /\ LinksPerPage \in Nat /\ LinksPerPage > FirstBlock + 1
  /\ Total \in Nat      \* the tables need not cover it: the group that is not whole has none

BlockIds == 0 .. Blocks - 1
Pages    == 0 .. PagesPerBlock - 1
ZoneIds  == 0 .. Zones - 1
Groups   == 0 .. GroupsPerZone - 1
HPages   == 0 .. Zones * GroupsPerZone * PagesPerGroup - 1
Unmapped == <<INVALID, INVALID>>
NoJob    == [lba |-> 0, secs |-> 0]

\* d after n turns of a loop.
Loop(Turn(_, _), d, n) ==
  LET after[i \in 0 .. n] == IF i = 0 THEN d ELSE Turn(after[i - 1], i)
  IN  after[n]

VARIABLES
  ftl,      \* the flash and, while the driver is up, its memory
  mode,     \* "down", "up", or "refused": the constructor threw
  job,      \* the rest of the host write in progress
  written,  \* history: the number of the last acknowledged write of each sector
  astray,   \* history: a call went on after it had left the driver's arrays
  ops, starts
vars == <<ftl, mode, job, written, astray, ops, starts>>

-----------------------------------------------------------------------------
(* CFileNand.  A page is readable below the block's last page; a program   *)
(* below it is refused, and nobody looks at the status.                    *)

EmptyPage == [id |-> "empty", body |-> <<>>]
Erased    == [last |-> 0, page |-> [p \in Pages |-> EmptyPage]]

ReadPage(flash, b, p) ==
  IF b \in BlockIds /\ p \in Pages /\ p < flash[b].last THEN flash[b].page[p] ELSE EmptyPage

ProgramPage(d, b, p, id, body) ==
  IF b \notin BlockIds \/ p \notin Pages \/ p < d.flash[b].last THEN d
  ELSE [d EXCEPT !.flash[b] = [last |-> p + 1,
                               page |-> [@.page EXCEPT ![p] = [id |-> id, body |-> body]]]]

\* FindLastPage: one past the last page of the block with this id, 0 if none.
FindLastPage(flash, b, id) ==
  LET found == {p \in Pages : ReadPage(flash, b, p).id = id}
  IN  IF found = {} THEN 0 ELSE 1 + CHOOSE p \in found : \A q \in found : q <= p

-----------------------------------------------------------------------------
(* The block chain.  d.stop tells how the call under way ends early: an    *)
(* exception, or an access outside of the arrays the process dies of.      *)

\* An index outside of an array of the driver: the process dies of it (a debug
\* build at the latest of the assertion behind it) or goes on (luck.strays).
GoAstray(d) ==
  IF d.luck.strays THEN [d EXCEPT !.luck.gone = TRUE] ELSE [d EXCEPT !.stop = "crash"]

InsertEmptyBlock(d, b) ==
  IF d.spareTail = 0 THEN [d EXCEPT !.spareHead = b, !.spareTail = b]
  ELSE [d EXCEPT !.chain[b].valid = INVALID, !.chain[d.spareTail].next = b, !.spareTail = b]

\* The next of the last spare is an erased word, not the 0 the code tests
\* for: taking that block writes chain[next].pre outside of the array.  The
\* process dies of it or nothing visible happens (luck.dies); in that case the
\* block taken after it is 65535, its next what the memory there holds.
PopupEmptyBlock(d) ==
  LET b == d.spareHead
      next == d.chain[b].next
  IN  IF b = 0 THEN [d EXCEPT !.stop = "exception"]
      ELSE IF b \notin BlockIds THEN GoAstray([d EXCEPT !.spareHead = d.luck.next, !.popped = b])
      ELSE IF next \notin BlockIds /\ d.luck.dies THEN [d EXCEPT !.stop = "crash"]
      ELSE [d EXCEPT !.spareHead = next, !.chain[b] = [next |-> SystemMark, valid |-> 0], !.popped = b]

\* Mutant: the block joins the spare ones unerased.
EraseBlockLazily(d, b) == InsertEmptyBlock([d EXCEPT !.chain[b].valid = INVALID], b)

EraseBlock(d, b) ==
  InsertEmptyBlock([d EXCEPT !.flash[b] = Erased, !.chain[b].valid = INVALID], b)
EraseReplaced(d, b) == IF b = INVALID THEN d ELSE EraseBlock(d, b)

LinkPages == (Blocks - 1) \div LinksPerPage + 1

LinkItem(d, b) ==
  IF b >= Blocks THEN [next |-> 0, valid |-> 0]
  ELSE [next  |-> IF d.chain[b].valid = INVALID THEN INVALID ELSE d.chain[b].next,
        valid |-> d.chain[b].valid % 256]

SaveLinkPage(d, q) ==
  ProgramPage(d, d.link.block, d.link.start + q - 1, IF q = 1 THEN "link" ELSE "link_more",
              [i \in 0 .. LinksPerPage - 1 |-> LinkItem(d, (q - 1) * LinksPerPage + i)])

SaveLinkPages(d) == Loop(SaveLinkPage, d, LinkPages)
SaveLinkTable(d) == [SaveLinkPages(d) EXCEPT !.link.start = @ + LinkPages]

-----------------------------------------------------------------------------
(* The mapping table. *)

ZoneOf(h)  == (h \div PagesPerGroup) \div GroupsPerZone
GroupByQuotient(h) == (h \div PagesPerGroup) \div GroupsPerZone    \* Mutant: / for %
GroupOf(h) == (h \div PagesPerGroup) % GroupsPerZone

NoGroup == [made |-> FALSE, dirty |-> FALSE, add |-> [i \in 0 .. PagesPerGroup - 1 |-> Unmapped]]

\* A zone without tables (made) is the memory its constructors find: they leave
\* m_updated, m_group_num and the entries of m_zone_tab uninitialised (luck).
NoZone(luck, z) ==
  [made |-> FALSE, block |-> INVALID, last |-> 0, updated |-> z \in luck.updated, sized |-> luck.sized[z],
   tab |-> [g \in Groups |-> luck.word], changed |-> FALSE, group |-> [g \in Groups |-> NoGroup]]

\* m_zone_tab has no entry for a page outside of HPages.
NandAddress(d, h) ==
  IF h \in HPages THEN d.zone[ZoneOf(h)].group[GroupOf(h)].add[h % PagesPerGroup] ELSE Unmapped

SetNandAddress(d, h, b, p) ==
  LET m == d.zone[ZoneOf(h)]
      add == [m.group[GroupOf(h)].add EXCEPT ![h % PagesPerGroup] = <<b, p>>]
  IN  IF h \notin HPages THEN GoAstray(d)
      ELSE [d EXCEPT !.zone[ZoneOf(h)] = [m EXCEPT !.made = TRUE, !.changed = TRUE,
                                            !.group[GroupOf(h)] = [made |-> TRUE, dirty |-> TRUE, add |-> add]]]

\* CGroupTable::Flush.  No room: INVALID, and every later group finds none either.
SaveGroupTable(d, z, g) ==
  LET m == d.zone[z]
      saved == ProgramPage(d, m.block, m.last, "group_tab", m.group[g].add)
  IN  IF m.last + 1 >= PagesPerBlock THEN d
      ELSE [saved EXCEPT !.zone[z] = [m EXCEPT !.tab[g] = m.last, !.last = m.last + 1, !.updated = TRUE]]

\* m_group_num decides how many words are saved, GroupsPerZone standing for the
\* table and more; the rest of the page is as it was.
SaveZoneTable(d, z) ==
  LET m == d.zone[z]
      words == [g \in Groups |-> IF g < m.sized THEN m.tab[g] ELSE d.luck.word]
  IN  [ProgramPage(d, m.block, m.last, "zone_tab", words) EXCEPT !.zone[z].last = m.last + 1]

\* The tables of a zone that changed; all of them when the map block is replaced.
FlushGroup(d, z, g, all) ==
  LET group == d.zone[z].group[g]
  IN  IF group.made /\ (group.dirty \/ all) THEN SaveGroupTable(d, z, g) ELSE d
FlushGroups(d, z, all) == Loop(LAMBDA a, i : FlushGroup(a, z, i - 1, all), d, GroupsPerZone)

SaveZone(d, z, all) ==
  LET grouped == FlushGroups(d, z, all)
  IN  IF grouped.zone[z].updated THEN SaveZoneTable(grouped, z) ELSE grouped

\* CMapBlock::Flush of a full block: the tables move to a spare one, which
\* the index names from then on.
LeaveBlock(m) == [m EXCEPT !.block = INVALID, !.last = 0]
TakeZoneBlock(d, z) == PopupEmptyBlock([d EXCEPT !.zone[z] = LeaveBlock(@)])
OpenZoneBlock(d, z) == [d EXCEPT !.zone[z].block = d.popped]
NameZoneBlock(d, z, b) ==
  IF b = INVALID THEN d ELSE [d EXCEPT !.zoneIndex = [@ EXCEPT !.map[z] = b, !.updated = TRUE]]

FlushZone(d, z) ==
  LET m == d.zone[z]
      taken == TakeZoneBlock(d, z)
      opened == OpenZoneBlock(taken, z)
      saved == SaveZone(opened, z, TRUE)
      freed == EraseReplaced(saved, m.block)
  IN  IF ~m.made \/ d.stop # "no" THEN d
      ELSE IF m.last < PagesPerBlock \/ ~m.changed THEN SaveZone(d, z, FALSE)
      ELSE IF taken.stop # "no" THEN taken
      ELSE NameZoneBlock(freed, z, opened.zone[z].block)

TakeIndexBlock(d) == PopupEmptyBlock([d EXCEPT !.zoneIndex = LeaveBlock(@)])
OpenIndexBlock(d) == [d EXCEPT !.zoneIndex.block = d.popped]
PutIndex(d) ==
  LET i == d.zoneIndex
  IN  [ProgramPage(d, i.block, i.last, "zone_index", i.map) EXCEPT !.zoneIndex.last = i.last + 1]

SaveZoneIndex(d) ==
  LET taken == TakeIndexBlock(d)
  IN  IF d.stop # "no" \/ ~d.zoneIndex.updated THEN d
      ELSE IF d.zoneIndex.last < PagesPerBlock THEN PutIndex(d)
      ELSE IF taken.stop # "no" THEN taken
      ELSE EraseReplaced(PutIndex(OpenIndexBlock(taken)), d.zoneIndex.block)

FlushZones(d) == Loop(LAMBDA a, i : FlushZone(a, i - 1), d, Zones)

\* Mutant: the index is saved before the tables it names.
FlushIndexFirst(d) == FlushZones(SaveZoneIndex(d))

FlushTables(d) == SaveZoneIndex(FlushZones(d))

FlushAll(d) == LET f == FlushTables(d) IN IF f.stop = "no" THEN SaveLinkTable(f) ELSE f

-----------------------------------------------------------------------------
(* Reading and writing a host page. *)

NoActive == [block |-> INVALID, last |-> 0, eob |-> <<>>]

ReadHPage(d, h) ==
  LET a == NandAddress(d, h)
      page == ReadPage(d.flash, a[1], a[2])
  IN  IF a[1] = INVALID \/ page.id # "data" THEN [i \in 0 .. SecsPerPage - 1 |-> 0] ELSE page.body.secs

UseBlock(d) ==
  LET b == d.popped
      linked == IF d.head = INVALID THEN [d EXCEPT !.head = b] ELSE [d EXCEPT !.chain[d.tail].next = b]
  IN  [linked EXCEPT !.chain[b].next = 0, !.tail = b, !.active = [block |-> b, last |-> 0, eob |-> <<>>]]

OpenActive(d) ==
  LET taken == PopupEmptyBlock(d)
  IN  IF d.active # NoActive THEN d
      ELSE IF taken.stop # "no" THEN taken
      ELSE UseBlock(taken)

\* Mutant: the block is closed before its last page is described.
WriteDataCloseFirst(d, h, secs) ==
  LET a == d.active
      put == ProgramPage(d, a.block, a.last, "data", [hpage |-> h, secs |-> secs])
      over == a.last + 2 = PagesPerBlock
      closed == IF over THEN ProgramPage(put, a.block, a.last + 1, "eob", Append(a.eob, 0)) ELSE put
  IN  [closed EXCEPT !.active.last = a.last + (IF over THEN 2 ELSE 1), !.active.eob = Append(a.eob, h)]

\* WriteData, with the end-of-block page that follows the last data page.
WriteData(d, h, secs) ==
  LET a == d.active
      eob == Append(a.eob, h)
      put == ProgramPage(d, a.block, a.last, "data", [hpage |-> h, secs |-> secs])
      over == a.last + 2 = PagesPerBlock
      closed == IF over THEN ProgramPage(put, a.block, a.last + 1, "eob", eob) ELSE put
  IN  [closed EXCEPT !.active.last = a.last + (IF over THEN 2 ELSE 1), !.active.eob = eob]

CountPage(d, b) == [d EXCEPT !.chain[b].valid = @ + 1]

WriteHPage(d, h, secs) ==
  LET opened == OpenActive(d)
      b == opened.active.block
      counted == CountPage(WriteData(opened, h, secs), b)
      mapped == SetNandAddress(counted, h, b, opened.active.last)
      flushed == FlushAll(mapped)
  IN  IF opened.stop # "no" THEN opened
      ELSE IF mapped.stop # "no" THEN mapped
      ELSE IF mapped.active.last < PagesPerBlock THEN mapped
      ELSE IF flushed.stop # "no" THEN flushed
      ELSE [flushed EXCEPT !.active = NoActive]

-----------------------------------------------------------------------------
(* Starting: Pretest prepares a new flash, LoadFlashInfo builds the memory. *)

NoMemory(flash, luck) ==
  [flash |-> flash, chain |-> [b \in BlockIds |-> [next |-> INVALID, valid |-> INVALID]],
   spareHead |-> 0, spareTail |-> 0, head |-> INVALID, tail |-> INVALID, popped |-> INVALID,
   active |-> NoActive, zone |-> [z \in ZoneIds |-> NoZone(luck, z)],
   zoneIndex |-> [block |-> INVALID, last |-> 0, updated |-> FALSE, map |-> [z \in ZoneIds |-> INVALID]],
   link |-> [block |-> INVALID, start |-> 0], luck |-> luck, stop |-> "no"]

FreeBlock(b) == [next |-> IF b < FirstBlock THEN INVALID ELSE (b + 1) % Blocks, valid |-> INVALID]
FreeMemory(luck) ==
  [NoMemory([b \in BlockIds |-> Erased], luck) EXCEPT
     !.spareHead = FirstBlock, !.spareTail = Blocks - 1, !.chain = [b \in BlockIds |-> FreeBlock(b)]]
PutFirstIndex(d) ==
  [ProgramPage(d, d.popped, 0, "zone_index", [z \in ZoneIds |-> INVALID]) EXCEPT !.chain[d.popped].valid = 1]
PlaceLinks(d) == [d EXCEPT !.link.block = d.popped]

Pretest(luck) ==
  LET indexed == PutFirstIndex(PopupEmptyBlock(FreeMemory(luck)))
      linked == SaveLinkTable(PlaceLinks(PopupEmptyBlock(indexed)))
  IN  ProgramPage(linked, IndexBlock, 0, "index",
                  [zone_index |-> indexed.popped, link_block |-> linked.popped]).flash

\* CZoneTable::BuildTable.  The loop that should apply the group pages behind
\* the last zone table leaves at its first page, having stepped over it.
BuildZone(flash, b, luck, z) ==
  LET end == FindLastPage(flash, b, "zone_tab")
      tab == [g \in Groups |-> IF end > 0 /\ g < luck.sized[z] THEN flash[b].page[end - 1].body[g] ELSE luck.word]
      Table(g) == LET page == ReadPage(flash, b, tab[g])
                  IN  IF tab[g] = INVALID THEN NoGroup
                      ELSE [made |-> TRUE, dirty |-> FALSE,
                            add |-> IF page.id = "group_tab" THEN page.body ELSE NoGroup.add]
  IN  [NoZone(luck, z) EXCEPT
         !.made = TRUE, !.block = b, !.tab = tab, !.group = [g \in Groups |-> Table(g)],
         !.last = IF end < flash[b].last \/ end >= PagesPerBlock THEN end + 1 ELSE end]

\* ReadLinkTable reads page 0 of the table twice: the page is counted up
\* only after the read.
ReadLinkItem(flash, link, b) ==
  LET q == b \div LinksPerPage
      page == ReadPage(flash, link.block, link.start + (IF q = 0 THEN 0 ELSE q - 1))
  IN  IF page.id = "empty" THEN [next |-> INVALID, valid |-> 255] ELSE page.body[b % LinksPerPage]

\* The i-th turn loads block FirstBlock + i - 1.
LoadLinkItem(d, i) ==
  LET b == FirstBlock + i - 1
      item == ReadLinkItem(d.flash, d.link, b)
  IN  IF item.next = INVALID THEN InsertEmptyBlock(d, b) ELSE [d EXCEPT !.chain[b] = item]

LoadLinkItems(d) == Loop(LoadLinkItem, d, Blocks - FirstBlock)
ReadLinkTable(d) == [LoadLinkItems(d) EXCEPT !.link.start = @ + LinkPages]

\* The tables index names; the last page of the zone index is zp.
LoadTables(d, index, zp) ==
  LET zi == index.zone_index
      map == d.flash[zi].page[zp - 1].body
  IN  [d EXCEPT
         !.zoneIndex = [block |-> zi, last |-> zp, updated |-> FALSE, map |-> map],
         !.zone = [z \in ZoneIds |-> IF map[z] = INVALID THEN NoZone(d.luck, z) ELSE BuildZone(d.flash, map[z], d.luck, z)],
         !.link = [block |-> index.link_block, start |-> FindLastPage(d.flash, index.link_block, "link") - 1]]

LoadFlashInfo(flash, luck) ==
  LET d == NoMemory(flash, luck)
      ip == FindLastPage(flash, IndexBlock, "index")
      index == flash[IndexBlock].page[ip - 1].body
      zp == FindLastPage(flash, index.zone_index, "zone_index")
  IN  IF ip = 0 \/ zp = 0 THEN [d EXCEPT !.stop = "exception"]
      ELSE ReadLinkTable(LoadTables(d, index, zp))

-----------------------------------------------------------------------------
\* What is not the program's to decide, for a start or for one call: words
\* never initialised, and whether an access outside of the arrays is survived.
Luck(strays) ==
  [dies : BOOLEAN, word : {0, INVALID}, updated : {{}}, sized : {[z \in ZoneIds |-> 0]},
   next : IF strays THEN {0, FirstBlock, INVALID} ELSE {INVALID}, strays : {strays}, gone : {FALSE}]
StartLuck ==
  [dies : {FALSE}, word : {0, INVALID}, updated : SUBSET ZoneIds, sized : [ZoneIds -> 0 .. GroupsPerZone],
   next : {INVALID}, strays : {FALSE}, gone : {FALSE}]
NoLuck == [dies |-> FALSE, word |-> INVALID, updated |-> {}, sized |-> [z \in ZoneIds |-> 0],
           next |-> INVALID, strays |-> FALSE, gone |-> FALSE]

Init ==
  /\ ftl = [flash |-> [b \in BlockIds |-> Erased]]
  /\ mode = "down" /\ job = NoJob
  /\ written = [s \in 0 .. Total - 1 |-> 0]
  /\ ops = 0 /\ starts = 0 /\ astray = FALSE

\* The driver after a call that ended as d: an exception ends the exchange
\* thread, a crash the process; both leave only the flash.
Settle(d, strays, up) ==
  /\ d.luck.gone = strays /\ astray' = (astray \/ strays)
  /\ IF d.stop = "no" THEN ftl' = [d EXCEPT !.luck = NoLuck, !.popped = INVALID] /\ mode' = "up"
     ELSE ftl' = [flash |-> d.flash] /\ mode' = up

Start ==
  /\ mode = "down" /\ starts < MaxStarts
  /\ \E luck \in StartLuck :
       Settle(LoadFlashInfo(IF starts = 0 THEN Pretest(luck) ELSE ftl.flash, luck), FALSE, "refused")
  /\ starts' = starts + 1
  /\ UNCHANGED <<job, written, ops>>

Min2(a, b) == IF a < b THEN a ELSE b

\* Write: lba + secs must be below the size, so the last sector is out of reach.
Write(lba, secs) ==
  /\ mode = "up" /\ job = NoJob /\ ops < MaxOps
  /\ secs > 0 /\ lba + secs < Total
  /\ job' = [lba |-> lba, secs |-> secs]
  /\ ops' = ops + 1
  /\ UNCHANGED <<ftl, mode, written, astray, starts>>

\* One turn of the loop in Write: complete the page from the flash, write it.
\* To read a page outside of the tables can be the end.
WritePage ==
  /\ mode = "up" /\ job # NoJob
  /\ LET h == job.lba \div SecsPerPage
         offset == job.lba % SecsPerPage
         n == Min2(SecsPerPage - offset, job.secs)
         merged == [i \in 0 .. SecsPerPage - 1 |-> IF i \in offset .. offset + n - 1 THEN ops ELSE ReadHPage(ftl, h)[i]]
         rest == [lba |-> job.lba + n, secs |-> job.secs - n]
     IN  \E strays \in BOOLEAN : \E luck \in Luck(strays) :
           LET up == [ftl EXCEPT !.luck = luck]
               d == IF n < SecsPerPage /\ h \notin HPages /\ luck.dies THEN [up EXCEPT !.stop = "crash"]
                    ELSE WriteHPage(up, h, merged)
           IN  /\ Settle(d, strays, "down")
               /\ job' = IF d.stop # "no" \/ rest.secs = 0 THEN NoJob ELSE rest
               /\ written' = IF d.stop # "no" THEN written
                             ELSE [s \in DOMAIN written |-> IF s \in job.lba .. job.lba + n - 1 THEN ops ELSE written[s]]
  /\ UNCHANGED <<ops, starts>>

FlushCache ==
  /\ mode = "up" /\ job = NoJob /\ ops < MaxOps
  /\ \E strays \in BOOLEAN : \E luck \in Luck(strays) :
       Settle(FlushAll([ftl EXCEPT !.luck = luck]), strays, "down")
  /\ ops' = ops + 1
  /\ UNCHANGED <<job, written, starts>>

\* The process ends; the destructor saves nothing.
Stop ==
  /\ mode = "up"
  /\ ftl' = [flash |-> ftl.flash] /\ mode' = "down" /\ job' = NoJob
  /\ UNCHANGED <<written, astray, ops, starts>>

Next == Start \/ (\E lba, secs \in 0 .. Total - 1 : Write(lba, secs)) \/ WritePage \/ FlushCache \/ Stop
Spec == Init /\ [][Next]_vars

-----------------------------------------------------------------------------
(* Properties.  They are about the driver until it goes on outside of its  *)
(* arrays, as it can once the spare blocks are used up and on a page the   *)
(* tables do not cover: from there on writes are acknowledged and lost.    *)

Up == mode = "up" /\ ~ astray
Covered == {s \in DOMAIN written : s \div SecsPerPage \in HPages}

\* A host sector the tables cover reads back as its last acknowledged write,
\* 0 standing for the erased pattern of a sector never written: whatever
\* blocks were opened, closed, flushed and recycled in between, down to the
\* last spare one.
ReadsLastWrite ==
  Up => \A s \in Covered : ReadHPage(ftl, s \div SecsPerPage)[s % SecsPerPage] = written[s]

\* A page without an address has never been written (the comment in
\* ReadHPage says so).
UnmappedNeverWritten ==
  Up => \A s \in Covered :
          NandAddress(ftl, s \div SecsPerPage) = Unmapped => written[s] = 0

\* The block PopupEmptyBlock would find behind n others; no block once it
\* is not in BlockIds \ {0}.
Behind(d, b) == IF b \in BlockIds \ {0} THEN d.chain[b].next ELSE b
SpareAt(n) == Loop(LAMBDA b, i : Behind(ftl, b), ftl.spareHead, n)
Spares == {n \in 0 .. Blocks : SpareAt(n) \in BlockIds \ {0}}

Mapped == {NandAddress(ftl, h)[1] : h \in HPages}
Used == {IndexBlock, ftl.active.block, ftl.zoneIndex.block, ftl.link.block} \cup Mapped \cup {ftl.zone[z].block : z \in ZoneIds}

\* Every block waits at most once in the spare chain, erased, and is neither
\* a table, nor the block being written, nor holds the data of a host page.
SpareIsFree ==
  Up => /\ \A i, j \in Spares : SpareAt(i) = SpareAt(j) => i = j
        /\ \A i \in Spares : SpareAt(i) \notin Used /\ ftl.flash[SpareAt(i)].last = 0

\* The end-of-block page lists the host page of every data page before it.
EobDescribesBlock ==
  ~ astray => \A b \in BlockIds, p \in Pages :
    LET page == ReadPage(ftl.flash, b, p) IN
    page.id = "eob" => \A q \in Pages : q < p =>
      ReadPage(ftl.flash, b, q).id = "data" /\ ReadPage(ftl.flash, b, q).body.hpage = page.body[q + 1]

\* The last page of the zone index names the map block of every zone that
\* has one: a map block is never replaced without saying so in the flash.
FlashNamesTables ==
  Up => LET end == FindLastPage(ftl.flash, ftl.zoneIndex.block, "zone_index")
        IN  /\ end > 0
            /\ \A z \in ZoneIds : ftl.zone[z].block # INVALID =>
                 ReadPage(ftl.flash, ftl.zoneIndex.block, end - 1).body[z] = ftl.zone[z].block
=============================================================================
