----------------------------- MODULE CacheMode -----------------------------
(***************************************************************************)
(* The cache mode of the simulated flash controller: class CSimCacheMode   *)
(* with CCacheBlock and CLinkTable.                                        *)
(*                                                                         *)
(* The host writes pages.  Each is programmed into the last cache block,   *)
(* and the link table remembers where; the copy it replaces is invalidated,*)
(* and a cache block with no valid page left is erased and becomes a spare *)
(* block again.  When spare blocks get scarce a write also cleans: it      *)
(* moves the pages of one host block out of the cache, all at once or a    *)
(* quarter at a time over several writes.                                  *)
(*                                                                         *)
(* The code is sequential; a write command is split into one action per    *)
(* iteration of its loops because it can end in the middle, and because    *)
(* a clean that takes several commands overlaps the writes between them.   *)
(***************************************************************************)
EXTENDS Integers, Sequences, FiniteSets, SequencesExt

CONSTANTS
  Blocks,       \* the m_spare_count blocks of the cache
  HBlocks,      \* m_hblock_cnt
  PageCount,    \* m_page_per_block
  LeastSpare,   \* m_least_spare
  MaxPages,     \* bound: pages of one write command
  Reprepare,    \* may the user prepare the simulator a second time?
  INVALID,      \* INVALID_HPAGE
  NoBlock       \* m_last_cbk before the first Prepare

ASSUME CacheAssumption ==
  /\ IsFiniteSet(Blocks) /\ Blocks # {} /\ NoBlock \notin Blocks
  /\ HBlocks \in Nat \ {0} /\ LeastSpare \in Nat /\ MaxPages \in Nat \ {0}
  /\ PageCount \in Nat /\ PageCount >= 4 /\ PageCount % 4 = 0  \* 256 in the code
  /\ Reprepare \in BOOLEAN
  /\ INVALID \notin Int /\ INVALID \notin Blocks \X Int

Pages  == 0 .. PageCount - 1
HPages == 0 .. HBlocks * PageCount - 1

HPage(h)  == h % PageCount
HBlock(h) == h \div PageCount

VARIABLES
  pages,      \* m_pages of each cache block
  valid,      \* m_valid_pages
  last_page,  \* m_last_page
  link,       \* m_link_tab: <<cache block, cache page>> of each host page
  mapped,     \* the host blocks set in m_hblock_map; m_write_range counts them
  caches,     \* m_caches
  spares,     \* m_spares
  last_cbk,   \* m_last_cbk
  task,       \* m_clean_task: 0 none, 1 partial, 2 whole host block
  clean_hadd, \* m_clean_hadd
  prepared,   \* m_prepared
  full,       \* history: a write ended with the exception "cache full"
  phase,      \* where SectorWrite stands
  hadd, todo, \* its loop: next host page, pages left to write or to clean
  rewritten   \* history: pages written again behind a clean of their block

flash == <<pages, valid, last_page>>
lists == <<caches, spares, last_cbk>>
clean == <<task, clean_hadd>>
session == <<prepared, full>>
vars == <<flash, link, mapped, lists, clean, session, phase, hadd, todo, rewritten>>

Erased == [p \in Pages |-> INVALID]

Init ==
  /\ pages = [b \in Blocks |-> Erased]
  /\ valid = [b \in Blocks |-> 0] /\ last_page = [b \in Blocks |-> 0]
  /\ link = [h \in HPages |-> INVALID] /\ mapped = {}
  /\ caches = <<>> /\ spares = <<>> /\ last_cbk = NoBlock
  /\ task = 0 /\ clean_hadd = INVALID
  /\ prepared = FALSE /\ full = FALSE /\ phase = "idle" /\ hadd = 0 /\ todo = 0
  /\ rewritten = {}

(* The blocks are numbered in some order.  The list of cache blocks and    *)
(* the address being cleaned are left as they are.                         *)
Prepare ==
  /\ phase = "idle" /\ (~ prepared \/ Reprepare)
  /\ pages' = [b \in Blocks |-> Erased]
  /\ valid' = [b \in Blocks |-> 0] /\ last_page' = [b \in Blocks |-> 0]
  /\ link' = [h \in HPages |-> INVALID] /\ mapped' = {}
  /\ \E order \in SetToSeqs(Blocks) :
       /\ last_cbk' = Head(order)
       /\ spares' = Tail(order)
       /\ caches' = Append(caches, Head(order))
  /\ task' = 0 /\ prepared' = TRUE /\ full' = FALSE /\ rewritten' = {}
  /\ UNCHANGED <<clean_hadd, phase, hadd, todo>>

SectorWrite(h, n) ==
  /\ phase = "idle" /\ prepared
  /\ h + n - 1 \in HPages
  /\ phase' = "write" /\ hadd' = h /\ todo' = n
  /\ UNCHANGED <<flash, link, mapped, lists, clean, session, rewritten>>
-----------------------------------------------------------------------------
(* The list s without b: std::list::remove.                                *)
Removed(s, b) ==
  LET rest[i \in 0 .. Len(s)] ==
        IF i = 0 THEN <<>>
        ELSE IF s[i] = b THEN rest[i - 1] ELSE Append(rest[i - 1], s[i])
  IN  rest[Len(s)]

(* InvalidCachePage applied to a cache in which pg, va and lp stand for    *)
(* m_pages, m_valid_pages and m_last_page: the page becomes invalid, and a *)
(* block other than the last that has no valid page left is erased and     *)
(* moves from the cache blocks to the spare blocks.                        *)

(* Mutants: the block is tested with its count from before; the last block *)
(* is recycled like any other.                                             *)
InvalidCachePageLate(place, pg, va, lp) ==
  LET b == place[1]
      empty == va[b] = 0 /\ b # last_cbk
  IN  /\ pages' = IF empty THEN [pg EXCEPT ![b] = Erased]
                  ELSE [pg EXCEPT ![b][place[2]] = INVALID]
      /\ valid' = [va EXCEPT ![b] = @ - 1]
      /\ last_page' = IF empty THEN [lp EXCEPT ![b] = 0] ELSE lp
      /\ caches' = IF empty THEN Removed(caches, b) ELSE caches
      /\ spares' = IF empty THEN Append(spares, b) ELSE spares

InvalidCachePageOfAny(place, pg, va, lp) ==
  LET b == place[1]
      empty == va[b] = 1
  IN  /\ pages' = IF empty THEN [pg EXCEPT ![b] = Erased]
                  ELSE [pg EXCEPT ![b][place[2]] = INVALID]
      /\ valid' = [va EXCEPT ![b] = @ - 1]
      /\ last_page' = IF empty THEN [lp EXCEPT ![b] = 0] ELSE lp
      /\ caches' = IF empty THEN Removed(caches, b) ELSE caches
      /\ spares' = IF empty THEN Append(spares, b) ELSE spares

InvalidCachePage(place, pg, va, lp) ==
  LET b == place[1]
      empty == va[b] = 1 /\ b # last_cbk
  IN  /\ pages' = IF empty THEN [pg EXCEPT ![b] = Erased]
                  ELSE [pg EXCEPT ![b][place[2]] = INVALID]
      /\ valid' = [va EXCEPT ![b] = @ - 1]
      /\ last_page' = IF empty THEN [lp EXCEPT ![b] = 0] ELSE lp
      /\ caches' = IF empty THEN Removed(caches, b) ELSE caches
      /\ spares' = IF empty THEN Append(spares, b) ELSE spares

(* Mutant: the old copy of the page stays valid.                           *)
ProgramOnly ==
  LET p == last_page[last_cbk]
  IN  /\ p < PageCount
      /\ pages' = [pages EXCEPT ![last_cbk][p] = hadd]
      /\ valid' = [valid EXCEPT ![last_cbk] = @ + 1]
      /\ last_page' = [last_page EXCEPT ![last_cbk] = @ + 1]
      /\ link' = [link EXCEPT ![hadd] = <<last_cbk, p>>]
      /\ mapped' = mapped \cup {HBlock(hadd)}
      /\ UNCHANGED <<caches, spares>>

(* Program: JCASSERT(m_last_page < m_page_per_block), then the next page   *)
(* of the last block takes the address.  The copy it replaces, if any, is  *)
(* invalidated.                                                            *)
ProgramAndInvalidate ==
  LET p  == last_page[last_cbk]
      pg == [pages EXCEPT ![last_cbk][p] = hadd]
      va == [valid EXCEPT ![last_cbk] = @ + 1]
      lp == [last_page EXCEPT ![last_cbk] = @ + 1]
  IN  /\ p < PageCount
      /\ IF link[hadd] # INVALID
         THEN InvalidCachePage(link[hadd], pg, va, lp)
         ELSE /\ pages' = pg /\ valid' = va /\ last_page' = lp
              /\ UNCHANGED <<caches, spares>>
      /\ link' = [link EXCEPT ![hadd] = <<last_cbk, p>>]
      /\ mapped' = mapped \cup {HBlock(hadd)}

(* A page written behind the clean of its own block stays in the cache.    *)
BehindClean(h) ==
  clean_hadd # INVALID /\ HBlock(h) = HBlock(clean_hadd) /\ h < clean_hadd

(* Mutant: a full last block is noticed one page too late.                 *)
WritePageLate ==
  /\ phase = "write" /\ todo > 0
  /\ ProgramAndInvalidate
  /\ hadd' = hadd + 1 /\ todo' = todo - 1
  /\ rewritten' = IF BehindClean(hadd) THEN rewritten \cup {hadd} ELSE rewritten \ {hadd}
  /\ phase' = IF last_page'[last_cbk] > PageCount THEN "pop" ELSE "write"
  /\ UNCHANGED <<last_cbk, clean, session>>

WritePage ==
  /\ phase = "write" /\ todo > 0
  /\ ProgramAndInvalidate
  /\ hadd' = hadd + 1 /\ todo' = todo - 1
  /\ rewritten' = IF BehindClean(hadd) THEN rewritten \cup {hadd} ELSE rewritten \ {hadd}
  /\ phase' = IF last_page'[last_cbk] >= PageCount THEN "pop" ELSE "write"
  /\ UNCHANGED <<last_cbk, clean, session>>

(* The last block is full: a spare block takes its place.                  *)
PopSpare ==
  /\ phase = "pop" /\ spares # <<>>
  /\ last_cbk' = Head(spares)
  /\ spares' = Tail(spares)
  /\ caches' = Append(caches, Head(spares))
  /\ phase' = "write"
  /\ UNCHANGED <<flash, link, mapped, clean, session, hadd, todo, rewritten>>

(* The exception "cache full" ends the command.  The simulator stays       *)
(* prepared, and its last block full.                                      *)
CacheFull ==
  /\ phase = "pop" /\ spares = <<>>
  /\ phase' = "idle" /\ full' = TRUE
  /\ UNCHANGED <<flash, link, mapped, lists, clean, prepared, hadd, todo, rewritten>>

(* The next page for a full block fails the assertion in Program.  Without *)
(* assertions it would be written behind the array m_pages; the model ends *)
(* here in either case.                                                    *)
ProgramFails ==
  /\ phase = "write" /\ todo > 0 /\ last_page[last_cbk] >= PageCount
  /\ phase' = "stopped"
  /\ UNCHANGED <<flash, link, mapped, lists, clean, session, hadd, todo, rewritten>>
-----------------------------------------------------------------------------
(* m_clean_task is only ever raised.  With LeastSpare spare blocks or      *)
(* fewer nothing is started: the body of that case is commented out.       *)
NewTask ==
  LET s2 == LeastSpare * 3
      s1 == Cardinality(mapped) \div (PageCount \div 4) + s2
      n  == Len(spares)
  IN  CASE n <= LeastSpare              -> task
        [] n > LeastSpare /\ n <= s2    -> 2
        [] n > s2 /\ n <= s1 /\ task < 1 -> 1
        [] OTHER                        -> task

(* FindHblockToClean: the host block of the first valid page x of the      *)
(* first cache block.  JCASSERT(INVALID_HPAGE != hadd): there is one.      *)
FindHblockToClean(h) ==
  \E p \in Pages, x \in HPages :
    /\ pages[Head(caches)][p] = x
    /\ \A q \in 0 .. p - 1 : pages[Head(caches)][q] = INVALID
    /\ h = x - HPage(x)

PlanClean ==
  /\ phase = "write" /\ todo = 0
  /\ task' = NewTask
  /\ IF NewTask = 0
     THEN todo' = 0 /\ UNCHANGED clean_hadd
     ELSE /\ IF clean_hadd = INVALID
             THEN \E h \in HPages : FindHblockToClean(h) /\ clean_hadd' = h
             ELSE UNCHANGED clean_hadd
          /\ todo' = IF NewTask = 1 THEN PageCount \div 4
                     ELSE PageCount - HPage(clean_hadd')
  /\ phase' = "clean"
  /\ UNCHANGED <<flash, link, mapped, lists, session, hadd, rewritten>>

(* Mutant: the link table keeps the cleaned page.                          *)
CleanCacheOnly ==
  /\ phase = "clean" /\ todo > 0
  /\ IF link[clean_hadd] # INVALID
     THEN InvalidCachePage(link[clean_hadd], pages, valid, last_page)
     ELSE UNCHANGED <<flash, caches, spares>>
  /\ mapped' = IF HPage(clean_hadd) = PageCount - 1
               THEN mapped \ {HBlock(clean_hadd)} ELSE mapped
  /\ clean_hadd' = clean_hadd + 1 /\ todo' = todo - 1
  /\ UNCHANGED <<link, last_cbk, task, session, phase, hadd, rewritten>>

(* Mutant: the host block counts as clean with its first page.             *)
UnmapFirst ==
  /\ phase = "clean" /\ todo > 0
  /\ IF link[clean_hadd] # INVALID
     THEN InvalidCachePage(link[clean_hadd], pages, valid, last_page)
     ELSE UNCHANGED <<flash, caches, spares>>
  /\ link' = [link EXCEPT ![clean_hadd] = INVALID]
  /\ mapped' = mapped \ {HBlock(clean_hadd)}
  /\ clean_hadd' = clean_hadd + 1 /\ todo' = todo - 1
  /\ UNCHANGED <<last_cbk, task, session, phase, hadd, rewritten>>

(* CleanPage and CLinkTable::Clean: the host block counts as clean with    *)
(* its last page.                                                          *)
CleanPage ==
  /\ phase = "clean" /\ todo > 0
  /\ IF link[clean_hadd] # INVALID
     THEN InvalidCachePage(link[clean_hadd], pages, valid, last_page)
     ELSE UNCHANGED <<flash, caches, spares>>
  /\ link' = [link EXCEPT ![clean_hadd] = INVALID]
  /\ mapped' = IF HPage(clean_hadd) = PageCount - 1
               THEN mapped \ {HBlock(clean_hadd)} ELSE mapped
  /\ clean_hadd' = clean_hadd + 1 /\ todo' = todo - 1
  /\ UNCHANGED <<last_cbk, task, session, phase, hadd, rewritten>>

Finish ==
  /\ phase = "clean" /\ todo = 0
  /\ IF clean_hadd # INVALID /\ HPage(clean_hadd) = 0
     THEN clean_hadd' = INVALID /\ task' = 0
     ELSE UNCHANGED clean
  /\ phase' = "idle"
  /\ UNCHANGED <<flash, link, mapped, lists, session, hadd, todo, rewritten>>

Next ==
  \/ Prepare
  \/ \E h \in HPages, n \in 1 .. MaxPages : SectorWrite(h, n)
  \/ WritePage \/ PopSpare \/ CacheFull \/ ProgramFails
  \/ PlanClean \/ CleanPage \/ Finish

Spec == Init /\ [][Next]_vars
-----------------------------------------------------------------------------
Cached(b) == {p \in Pages : pages[b][p] # INVALID}

(* The link table and the cache blocks are inverse to each other: the host *)
(* finds the newest copy of every page, and no cache page is valid that    *)
(* the table does not lead to.                                             *)
LinkMatchesPages ==
  \A h \in HPages, b \in Blocks, p \in Pages :
    link[h] = <<b, p>> <=> pages[b][p] = h

(* m_valid_pages counts the valid pages, all of them programmed before     *)
(* m_last_page; so the comparison with zero that recycles a block is right.*)
ValidCounts ==
  \A b \in Blocks :
    /\ valid[b] = Cardinality(Cached(b))
    /\ \A p \in Cached(b) : p < last_page[b]

(* Every block is either a spare block, and erased, or once in the list of *)
(* cache blocks, whose end is m_last_cbk.                                  *)
ListsPartition ==
  prepared =>
    /\ ToSet(caches) \cup ToSet(spares) = Blocks
    /\ Len(caches) + Len(spares) = Cardinality(Blocks)
    /\ caches # <<>> /\ last_cbk = Last(caches)
    /\ \A b \in ToSet(spares) : last_page[b] = 0

(* A cache block that is full holds data: an emptied one was recycled.     *)
(* So JCASSERT(INVALID_HPAGE != hadd) in FindHblockToClean holds: whenever *)
(* a clean is planned, the first cache block has a page to clean.          *)
CleanFindsPage ==
  /\ prepared => \A i \in 1 .. Len(caches) - 1 :
       Cached(caches[i]) # {} /\ last_page[caches[i]] = PageCount
  /\ phase = "write" /\ todo = 0 => Cached(Head(caches)) # {}

(* Behind the address being cleaned only pages written again since are in  *)
(* the cache.                                                              *)
CleanLeavesNothing ==
  clean_hadd # INVALID =>
    LET block == HBlock(IF phase = "clean" /\ todo = 0 THEN clean_hadd - 1 ELSE clean_hadd)
    IN  \A h \in HPages :
          h < clean_hadd /\ HBlock(h) = block /\ link[h] # INVALID => h \in rewritten

(* m_write_range never misses a host block with data in the cache, except  *)
(* one written again behind its own partial clean.                         *)
RangeCovers ==
  \A h \in HPages : link[h] # INVALID => HBlock(h) \in mapped \/ h \in rewritten

(* JCASSERT(m_last_page < m_page_per_block) in Program fails only in a     *)
(* write behind one that ended with "cache full", which left the last      *)
(* block full; before that there is a page to program for every write.     *)
ProgramHasRoom ==
  phase = "write" /\ todo > 0 => last_page[last_cbk] < PageCount \/ full
=============================================================================
