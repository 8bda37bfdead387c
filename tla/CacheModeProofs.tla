-------------------------- MODULE CacheModeProofs --------------------------
(***************************************************************************)
(* Theorems about CacheMode, for every number of cache blocks, host blocks *)
(* and pages: the link table and the cache pages stay inverse to each      *)
(* other, the host never programs a full block, a clean leaves nothing     *)
(* behind, and no cache block is lost or listed twice.                     *)
(***************************************************************************)
EXTENDS CacheMode, FiniteSetTheorems, WellFoundedInduction, TLAPS

Capacity == HBlocks * PageCount

(* What the proof needs of the types; for caches see ListInv.              *)
Pageful == [Pages -> HPages \cup {INVALID}]
Types ==
  /\ pages \in [Blocks -> Pageful]
  /\ valid \in [Blocks -> Int] /\ last_page \in [Blocks -> 0 .. PageCount]
  /\ link \in [HPages -> (Blocks \X Pages) \cup {INVALID}]
  /\ spares \in Seq(Blocks)
  /\ prepared \in BOOLEAN /\ full \in BOOLEAN /\ (prepared => last_cbk \in Blocks)
  /\ ~ prepared => phase = "idle"
  /\ phase \in {"idle", "write", "pop", "clean", "stopped"}
  /\ task \in 0 .. 2 /\ hadd \in Nat /\ todo \in Nat

(* A spare block is there once, is erased, and is not the one written.     *)
SparesErased ==
  /\ \A i \in 1 .. Len(spares) : spares[i] # last_cbk /\ last_page[spares[i]] = 0
  /\ \A i, j \in 1 .. Len(spares) : i # j => spares[i] # spares[j]

(* Except while it is being replaced the block written has room, up to the *)
(* exception "cache full".                                                 *)
LastHasRoom ==
  prepared /\ ~ full /\ phase # "pop" => last_page[last_cbk] < PageCount

(* A write command stays in the host's range, and a clean ends at a        *)
(* quarter of a host block.                                                *)
AtQuarter(h) == \E k \in 0 .. 3 : HPage(h) = k * (PageCount \div 4)
CleanEnds ==
  /\ phase \in {"write", "pop"} => hadd + todo <= Capacity
  /\ clean_hadd \in Nat \cup {INVALID}
  /\ clean_hadd # INVALID /\ phase # "clean" => clean_hadd < Capacity /\ AtQuarter(clean_hadd)
  /\ phase = "clean" =>
       IF clean_hadd = INVALID THEN todo = 0
       ELSE clean_hadd + todo <= Capacity /\ AtQuarter(clean_hadd + todo)

CacheInv == Types /\ LinkMatchesPages /\ ValidCounts /\ SparesErased /\ LastHasRoom /\ CleanEnds
-----------------------------------------------------------------------------
(* A host page is its host block's first page plus its page number.        *)
LEMMA PageOfHost ==
  ASSUME NEW h \in Nat
  PROVE  /\ HPage(h) \in Pages /\ HBlock(h) \in Nat
         /\ h = HBlock(h) * PageCount + HPage(h)
  BY CacheAssumption DEF HPage, HBlock, Pages

(* Block and page number of a host page can be read off its sum.           *)
LEMMA HostOfPage ==
  ASSUME NEW q \in Nat, NEW r \in Pages
  PROVE  HPage(q * PageCount + r) = r /\ HBlock(q * PageCount + r) = q
  BY CacheAssumption DEF HPage, HBlock, Pages

(* The first page of a host block has page number 0.                       *)
LEMMA FirstPage ==
  ASSUME NEW q \in Nat
  PROVE  HPage(q * PageCount) = 0
PROOF
<1>1. 0 \in Pages  BY CacheAssumption DEF Pages
<1>2. \A r \in Pages : HPage(q * PageCount + r) = r  BY HostOfPage
<1>3. q * PageCount + 0 = q * PageCount  BY CacheAssumption
<1>. QED  BY <1>1, <1>2, <1>3, Zenon

(* The host's pages are the numbers below the capacity.                    *)
LEMMA CapacityType == Capacity \in Nat /\ HPages = 0 .. Capacity - 1
  BY CacheAssumption DEF Capacity, HPages

(* The host block of a page lies within the capacity.                      *)
LEMMA BlockInRange ==
  ASSUME NEW h \in HPages
  PROVE  HBlock(h) * PageCount + PageCount <= Capacity
PROOF
<1>1. h \in Nat /\ h < Capacity  BY CapacityType
<1>2. HPage(h) \in Pages /\ HBlock(h) \in Nat /\ h = HBlock(h) * PageCount + HPage(h)  BY <1>1, PageOfHost
<1>3. HBlock(h) < HBlocks  BY <1>1, <1>2, CacheAssumption DEF Capacity, Pages
<1>4. (HBlock(h) + 1) * PageCount <= HBlocks * PageCount  BY <1>2, <1>3, CacheAssumption
<1>. QED  BY <1>2, <1>4, CacheAssumption DEF Capacity
-----------------------------------------------------------------------------
(* The valid pages of block b in pg, and what m_valid_pages and            *)
(* m_last_page say of them.                                                *)
ValidIn(pg, b) == {p \in Pages : pg[b][p] # INVALID}
Counted(pg, va, lp) ==
  \A b \in Blocks : /\ va[b] = Cardinality(ValidIn(pg, b))
                    /\ \A p \in ValidIn(pg, b) : p < lp[b]

Sound(pg, va, lp) ==
  /\ pg \in [Blocks -> Pageful] /\ va \in [Blocks -> Int]
  /\ lp \in [Blocks -> 0 .. PageCount] /\ Counted(pg, va, lp)

(* ValidCounts is Counted of the variables, in this state ...              *)
LEMMA CountedIsValidCounts == ValidCounts <=> Counted(pages, valid, last_page)
  BY DEF ValidCounts, Counted, ValidIn, Cached

(* ... and in the next.                                                    *)
LEMMA CountedLater == ValidCounts' <=> Counted(pages', valid', last_page')
  BY DEF ValidCounts, Counted, ValidIn, Cached

(* A cache block has finitely many valid pages.                            *)
LEMMA ValidFinite ==
  ASSUME NEW pg \in [Blocks -> Pageful], NEW b \in Blocks
  PROVE  IsFiniteSet(ValidIn(pg, b)) /\ Cardinality(ValidIn(pg, b)) \in Nat
PROOF
<1>1. IsFiniteSet(Pages)  BY CacheAssumption, FS_Interval DEF Pages
<1>2. ValidIn(pg, b) \in SUBSET Pages  BY DEF ValidIn
<1>. QED  BY <1>1, <1>2, FS_Subset, FS_CardinalityType

(* Writing a page that was not valid adds one to the block's count.        *)
Programmed(pg, va, lp, b, h, pg2, va2, lp2) ==
  /\ pg2 = [pg EXCEPT ![b][lp[b]] = h]
  /\ va2 = [va EXCEPT ![b] = @ + 1]
  /\ lp2 = [lp EXCEPT ![b] = @ + 1]

LEMMA ProgrammedSound ==
  ASSUME NEW pg, NEW va, NEW lp, Sound(pg, va, lp),
         NEW b \in Blocks, NEW h \in HPages, lp[b] < PageCount,
         NEW pg2, NEW va2, NEW lp2, Programmed(pg, va, lp, b, h, pg2, va2, lp2)
  PROVE  /\ Sound(pg2, va2, lp2)
         /\ lp[b] \in Pages /\ pg[b][lp[b]] = INVALID
         /\ \A c \in Blocks, p \in Pages :
              pg2[c][p] = IF c = b /\ p = lp[b] THEN h ELSE pg[c][p]
PROOF
<1> DEFINE q == lp[b]
<1> USE DEF Sound, Programmed
<1>1. q \in Pages  BY CacheAssumption DEF Pages
<1>2. pg[b][q] = INVALID
  <2>1. q \in ValidIn(pg, b) => q < q  BY DEF Counted
  <2>2. q \notin ValidIn(pg, b)  BY <2>1, <1>1 DEF Pages
  <2>. QED  BY <2>2, <1>1 DEF ValidIn
<1>3. \A c \in Blocks, p \in Pages : pg2[c][p] = IF c = b /\ p = q THEN h ELSE pg[c][p]
  BY <1>1 DEF Pageful
<1>4. pg2 \in [Blocks -> Pageful]  BY <1>1 DEF Pageful
<1>5. va2 \in [Blocks -> Int] /\ lp2 \in [Blocks -> 0 .. PageCount]  BY CacheAssumption
<1>6. h # INVALID  BY CacheAssumption DEF HPages
<1>7. ASSUME NEW c \in Blocks
      PROVE  /\ va2[c] = Cardinality(ValidIn(pg2, c))
             /\ \A p \in ValidIn(pg2, c) : p < lp2[c]
  <2>1. CASE c = b
    <3>1. ValidIn(pg2, b) = ValidIn(pg, b) \cup {q}  BY <1>1, <1>3, <1>6 DEF ValidIn
    <3>2. q \notin ValidIn(pg, b)  BY <1>2 DEF ValidIn
    <3>3. Cardinality(ValidIn(pg2, b)) = Cardinality(ValidIn(pg, b)) + 1
      BY <3>1, <3>2, ValidFinite, FS_AddElement
    <3>. QED  BY <2>1, <3>1, <3>3, <1>1 DEF Counted, Pages, ValidIn
  <2>2. CASE c # b
    <3>1. ValidIn(pg2, c) = ValidIn(pg, c)  BY <2>2, <1>3 DEF ValidIn
    <3>. QED  BY <2>2, <3>1 DEF Counted
  <2>. QED  BY <2>1, <2>2
<1>8. Counted(pg2, va2, lp2)  BY <1>7 DEF Counted
<1>. QED  BY <1>1, <1>2, <1>3, <1>4, <1>5, <1>8

(* InvalidCachePage of a valid page takes that page away and no other: a   *)
(* block is erased only when it was the block's only one, and is then      *)
(* appended to the spare blocks.                                           *)
Taken(pg, lp, b, q) ==
  /\ \A c \in Blocks, p \in Pages :
       pages'[c][p] = IF c = b /\ p = q THEN INVALID ELSE pg[c][p]
  /\ \/ last_page' = lp /\ spares' = spares
     \/ /\ b # last_cbk /\ lp[b] # 0
        /\ last_page' = [lp EXCEPT ![b] = 0] /\ spares' = Append(spares, b)

LEMMA Invalidated ==
  ASSUME NEW pg, NEW va, NEW lp, Sound(pg, va, lp),
         NEW b \in Blocks, NEW q \in Pages, pg[b][q] # INVALID,
         NEW place, place = <<b, q>>, InvalidCachePage(place, pg, va, lp)
  PROVE  Sound(pages', valid', last_page') /\ Taken(pg, lp, b, q)
PROOF
<1> USE DEF Sound
<1> DEFINE empty == va[b] = 1 /\ b # last_cbk
<1>1. /\ pages' = IF empty THEN [pg EXCEPT ![b] = Erased] ELSE [pg EXCEPT ![b][q] = INVALID]
      /\ valid' = [va EXCEPT ![b] = @ - 1]
      /\ last_page' = IF empty THEN [lp EXCEPT ![b] = 0] ELSE lp
      /\ spares' = IF empty THEN Append(spares, b) ELSE spares
  BY DEF InvalidCachePage
<1>2. q \in ValidIn(pg, b) /\ q < lp[b]  BY DEF Counted, ValidIn
<1>3. Cardinality(ValidIn(pg, b) \ {q}) = va[b] - 1 /\ IsFiniteSet(ValidIn(pg, b) \ {q})
  <2>1. va[b] = Cardinality(ValidIn(pg, b))  BY DEF Counted
  <2>2. IsFiniteSet(ValidIn(pg, b))  BY ValidFinite
  <2>. QED  BY <2>1, <2>2, <1>2, FS_RemoveElement
<1>4. empty => ValidIn(pg, b) \ {q} = {}
  BY <1>3, FS_EmptySet
<1>5. \A c \in Blocks, p \in Pages :
        pages'[c][p] = IF c = b /\ p = q THEN INVALID ELSE pg[c][p]
  <2>1. CASE empty  BY <1>1, <1>4, <2>1 DEF ValidIn, Erased, Pageful
  <2>2. CASE ~ empty  BY <1>1, <2>2 DEF Pageful
  <2>. QED  BY <2>1, <2>2
<1>6. pages' \in [Blocks -> Pageful]  BY <1>1 DEF Pageful, Erased
<1>7. valid' \in [Blocks -> Int]  BY <1>1
<1>8. last_page' \in [Blocks -> 0 .. PageCount]  BY <1>1, CacheAssumption
<1>9. ASSUME NEW c \in Blocks
      PROVE  /\ valid'[c] = Cardinality(ValidIn(pages', c))
             /\ \A p \in ValidIn(pages', c) : p < last_page'[c]
  <2>1. CASE c = b
    <3>1. ValidIn(pages', b) = ValidIn(pg, b) \ {q}  BY <1>5 DEF ValidIn
    <3>2. valid'[b] = va[b] - 1  BY <1>1
    <3>3. ASSUME NEW p \in ValidIn(pages', b)  PROVE p < last_page'[b]
      <4>1. ~ empty  BY <3>1, <1>4
      <4>. QED  BY <4>1, <3>1, <1>1 DEF Counted
    <3>. QED  BY <2>1, <3>1, <3>2, <3>3, <1>3
  <2>2. CASE c # b
    <3>1. ValidIn(pages', c) = ValidIn(pg, c)  BY <2>2, <1>5 DEF ValidIn
    <3>2. valid'[c] = va[c] /\ last_page'[c] = lp[c]  BY <2>2, <1>1
    <3>. QED  BY <3>1, <3>2 DEF Counted
  <2>. QED  BY <2>1, <2>2
<1>10. Counted(pages', valid', last_page')  BY <1>9 DEF Counted
<1>11. lp[b] # 0  BY <1>2 DEF Pages
<1>. QED  BY <1>1, <1>5, <1>6, <1>7, <1>8, <1>10, <1>11 DEF Taken
-----------------------------------------------------------------------------
(* The quarters of a host block.                                           *)
LEMMA Quarters ==
  /\ PageCount = 4 * (PageCount \div 4) /\ PageCount \div 4 \in Nat \ {0}
  BY CacheAssumption

(* A quarter of a host block further on is again a quarter, in range.      *)
LEMMA NextQuarter ==
  ASSUME NEW h \in HPages, AtQuarter(h)
  PROVE  /\ h + (PageCount \div 4) <= Capacity /\ AtQuarter(h + (PageCount \div 4))
         /\ HPage(h) + (PageCount \div 4) <= PageCount
PROOF
<1> DEFINE Q == PageCount \div 4
<1>1. h \in Nat  BY CapacityType
<1>2. HBlock(h) \in Nat /\ HPage(h) \in Pages /\ h = HBlock(h) * PageCount + HPage(h)
  BY <1>1, PageOfHost
<1>3. PICK k \in 0 .. 3 : HPage(h) = k * Q  BY DEF AtQuarter
<1>4. HPage(h) + Q = (k + 1) * Q /\ (k + 1) * Q <= PageCount
  <2>1. k = 0 \/ k = 1 \/ k = 2 \/ k = 3  BY <1>3
  <2>. QED  BY <2>1, <1>3, Quarters
<1>5. h + Q <= Capacity  BY <1>2, <1>4, BlockInRange, Quarters, CacheAssumption, CapacityType DEF Pages
<1>6. CASE k < 3
  <2>1. HPage(h) + Q \in Pages
    <3>1. k = 0 \/ k = 1 \/ k = 2  BY <1>3, <1>6
    <3>. QED  BY <3>1, <1>3, Quarters DEF Pages
  <2>2. h + Q = HBlock(h) * PageCount + (HPage(h) + Q)  BY <1>2, Quarters, CacheAssumption DEF Pages
  <2>3. HPage(h + Q) = (k + 1) * Q  BY <1>2, <1>4, <2>1, <2>2, HostOfPage
  <2>4. k + 1 \in 0 .. 3  BY <1>3, <1>6
  <2>. QED  BY <1>4, <1>5, <2>3, <2>4 DEF AtQuarter
<1>7. CASE k = 3
  <2>1. h + Q = (HBlock(h) + 1) * PageCount
    BY <1>2, <1>4, <1>7, Quarters, CacheAssumption DEF Pages
  <2>2. HPage(h + Q) = 0  BY <1>2, <2>1, FirstPage
  <2>3. HPage(h + Q) = 0 * Q  BY <2>2, Quarters
  <2>. QED  BY <1>4, <1>5, <2>3 DEF AtQuarter
<1>. QED  BY <1>3, <1>6, <1>7

(* Cleaning the rest of a host block ends at the next one, in range.       *)
LEMMA RestOfBlock ==
  ASSUME NEW h \in HPages
  PROVE  LET n == PageCount - HPage(h)
         IN n \in Nat \ {0} /\ HPage(h) + n <= PageCount /\ h + n <= Capacity /\ AtQuarter(h + n)
PROOF
<1> DEFINE n == PageCount - HPage(h)
<1>1. h \in Nat  BY CapacityType
<1>2. HBlock(h) \in Nat /\ HPage(h) \in Pages /\ h = HBlock(h) * PageCount + HPage(h)
  BY <1>1, PageOfHost
<1>3. h + n = (HBlock(h) + 1) * PageCount  BY <1>2, CacheAssumption DEF Pages
<1>4. HPage(h + n) = 0  BY <1>2, <1>3, FirstPage
<1>5. HPage(h + n) = 0 * (PageCount \div 4)  BY <1>4, Quarters
<1>6. h + n <= Capacity  BY <1>2, <1>3, BlockInRange, CacheAssumption
<1>7. n \in Nat \ {0} /\ HPage(h) + n <= PageCount  BY <1>2, CacheAssumption DEF Pages
<1>. QED  BY <1>5, <1>6, <1>7 DEF AtQuarter

(* FindHblockToClean returns the first page of a host block.               *)
LEMMA FoundBlock ==
  ASSUME NEW h, FindHblockToClean(h)
  PROVE  HPage(h) = 0 /\ AtQuarter(h)
PROOF
<1>1. PICK x \in HPages : h = x - HPage(x)  BY DEF FindHblockToClean
<1>2. x \in Nat  BY CapacityType
<1>3. HBlock(x) \in Nat /\ HPage(x) \in Pages /\ x = HBlock(x) * PageCount + HPage(x)
  BY <1>2, PageOfHost
<1>4. h = HBlock(x) * PageCount  BY <1>1, <1>3, CacheAssumption DEF Pages
<1>5. HPage(h) = 0  BY <1>3, <1>4, FirstPage
<1>6. HPage(h) = 0 * (PageCount \div 4)  BY <1>5, Quarters
<1>. QED  BY <1>5, <1>6 DEF AtQuarter

(* The capacity is a whole number of host blocks.                          *)
LEMMA WholeCapacity == HPage(Capacity) = 0
  BY FirstPage, CacheAssumption DEF Capacity
-----------------------------------------------------------------------------
(* A step that programs or invalidates keeps the spare blocks erased.      *)
LEMMA SparesStep ==
  ASSUME Types, SparesErased, last_cbk' = last_cbk,
         NEW lp \in [Blocks -> 0 .. PageCount], NEW b \in Blocks,
         \A c \in Blocks : c # last_cbk => lp[c] = last_page[c],
         \/ last_page' = lp /\ spares' = spares
         \/ /\ b # last_cbk /\ lp[b] # 0
            /\ last_page' = [lp EXCEPT ![b] = 0] /\ spares' = Append(spares, b)
  PROVE  SparesErased' /\ spares' \in Seq(Blocks)
PROOF
<1>1. \A i \in 1 .. Len(spares) : spares[i] \in Blocks  BY DEF Types
<1>2. CASE last_page' = lp /\ spares' = spares  BY <1>1, <1>2 DEF SparesErased, Types
<1>3. CASE /\ b # last_cbk /\ lp[b] # 0
           /\ last_page' = [lp EXCEPT ![b] = 0] /\ spares' = Append(spares, b)
  <2>1. \A i \in 1 .. Len(spares) : spares[i] # b  BY <1>1, <1>3 DEF SparesErased
  <2>2. /\ Len(spares') = Len(spares) + 1 /\ spares'[Len(spares) + 1] = b
        /\ \A i \in 1 .. Len(spares) : spares'[i] = spares[i]
        /\ spares' \in Seq(Blocks) /\ Len(spares) \in Nat
    BY <1>3 DEF Types
  <2>3. \A c \in Blocks : last_page'[c] = IF c = b THEN 0 ELSE lp[c]  BY <1>3
  <2>4. ASSUME NEW i \in 1 .. Len(spares')
        PROVE  spares'[i] # last_cbk' /\ last_page'[spares'[i]] = 0
    <3>1. CASE i = Len(spares) + 1  BY <3>1, <2>2, <2>3, <1>3
    <3>2. CASE i \in 1 .. Len(spares)  BY <3>2, <2>2, <2>3, <1>1 DEF SparesErased
    <3>. QED  BY <3>1, <3>2, <2>2
  <2>5. ASSUME NEW i \in 1 .. Len(spares'), NEW j \in 1 .. Len(spares'), i # j
        PROVE  spares'[i] # spares'[j]
    BY <2>1, <2>2, <2>5 DEF SparesErased
  <2>. QED  BY <2>2, <2>4, <2>5 DEF SparesErased
<1>. QED  BY <1>2, <1>3
-----------------------------------------------------------------------------
(* CSimCacheMode starts with an erased flash.                              *)
LEMMA InitInv == Init => CacheInv
PROOF
<1> SUFFICES ASSUME Init  PROVE CacheInv
  OBVIOUS
<1> USE CacheAssumption
<1>1. Types
  <2>1. Erased \in Pageful  BY DEF Erased, Pageful
  <2>2. pages \in [Blocks -> Pageful]  BY <2>1 DEF Init
  <2>3. link \in [HPages -> (Blocks \X Pages) \cup {INVALID}]  BY DEF Init
  <2>4. valid \in [Blocks -> Int] /\ last_page \in [Blocks -> 0 .. PageCount]  BY DEF Init
  <2>5. spares \in Seq(Blocks) /\ phase = "idle"  BY DEF Init
  <2>7. prepared \in BOOLEAN /\ ~ prepared /\ full \in BOOLEAN  BY Zenon DEF Init
  <2>6. task \in 0 .. 2 /\ hadd \in Nat /\ todo \in Nat  BY DEF Init
  <2>. QED  BY <2>2, <2>3, <2>4, <2>5, <2>6, <2>7 DEF Types
<1>2. LinkMatchesPages
  <2>1. ASSUME NEW h \in HPages, NEW b \in Blocks, NEW p \in Pages
        PROVE  link[h] # <<b, p>> /\ pages[b][p] # h
    BY <2>1 DEF Init, Erased, HPages, Pages
  <2>. QED  BY <2>1 DEF LinkMatchesPages
<1>3. ValidCounts
  <2>1. \A b \in Blocks : Cached(b) = {}  BY DEF Init, Cached, Erased
  <2>. QED  BY <2>1, FS_EmptySet DEF ValidCounts, Init
<1>4. SparesErased /\ LastHasRoom  BY DEF Init, SparesErased, LastHasRoom
<1>5. CleanEnds  BY DEF Init, CleanEnds
<1>. QED  BY <1>1, <1>2, <1>3, <1>4, <1>5 DEF CacheInv

(* Prepare takes an erased block to write.                                 *)
LEMMA PrepareInv == CacheInv /\ Prepare => CacheInv'
PROOF
<1> SUFFICES ASSUME CacheInv, Prepare  PROVE CacheInv'
  OBVIOUS
<1> USE CacheAssumption
<1>1. PICK order \in SetToSeqs(Blocks) :
         /\ last_cbk' = Head(order)
         /\ spares' = Tail(order)
  BY DEF Prepare
<1> DEFINE n == Cardinality(Blocks)
<1>2. n \in Nat /\ n >= 1  BY FS_CardinalityType, FS_EmptySet
<1>3. /\ order \in [1 .. n -> Blocks]
      /\ \A i, j \in 1 .. n : i # j => order[i] # order[j]
  BY DEF SetToSeqs
<1>4. order \in Seq(Blocks) /\ Len(order) = n  BY <1>2, <1>3
<1>5. /\ last_cbk' = order[1] /\ last_cbk' \in Blocks
      /\ spares' \in Seq(Blocks) /\ Len(spares') = n - 1
      /\ \A i \in 1 .. n - 1 : spares'[i] = order[i + 1]
  BY <1>1, <1>2, <1>3, <1>4
<1>6. /\ pages' = [b \in Blocks |-> Erased] /\ valid' = [b \in Blocks |-> 0]
      /\ last_page' = [b \in Blocks |-> 0] /\ link' = [h \in HPages |-> INVALID]
      /\ prepared' = TRUE /\ full' = FALSE /\ task' = 0
      /\ UNCHANGED <<clean_hadd, phase, hadd, todo>> /\ phase = "idle"
  BY DEF Prepare
<1>12. prepared' \in BOOLEAN /\ full' \in BOOLEAN  BY <1>6
<1>7. Types'  BY <1>5, <1>6, <1>12 DEF CacheInv, Types, Pageful, Erased
<1>8. LinkMatchesPages'
  <2>1. ASSUME NEW h \in HPages, NEW b \in Blocks, NEW p \in Pages
        PROVE  link'[h] # <<b, p>> /\ pages'[b][p] # h
    BY <2>1, <1>6 DEF Erased, HPages, Pages
  <2>. QED  BY <2>1 DEF LinkMatchesPages
<1>9. ValidCounts'
  <2>1. \A b \in Blocks : Cached(b)' = {}  BY <1>6 DEF Cached, Erased
  <2>. QED  BY <2>1, <1>6, FS_EmptySet DEF ValidCounts
<1>10. SparesErased'
  <2>1. ASSUME NEW i \in 1 .. n - 1
        PROVE  spares'[i] # last_cbk' /\ last_page'[spares'[i]] = 0
    <3>1. i + 1 \in 1 .. n /\ 1 \in 1 .. n /\ i + 1 # 1  BY <1>2
    <3>2. order[i + 1] # order[1] /\ order[i + 1] \in Blocks  BY <3>1, <1>3
    <3>. QED  BY <3>2, <1>5, <1>6
  <2>2. ASSUME NEW i \in 1 .. n - 1, NEW j \in 1 .. n - 1, i # j
        PROVE  spares'[i] # spares'[j]
    BY <1>2, <1>3, <1>5, <2>2
  <2>. QED  BY <1>5, <2>1, <2>2 DEF SparesErased
<1>11. LastHasRoom' /\ CleanEnds'
  BY <1>5, <1>6 DEF CacheInv, LastHasRoom, CleanEnds, AtQuarter
<1>. QED  BY <1>7, <1>8, <1>9, <1>10, <1>11 DEF CacheInv

(* A page of the host goes to a free page, its old copy becomes invalid.   *)
LEMMA ProgramStep ==
  ASSUME CacheInv, prepared, ProgramAndInvalidate, last_cbk' = last_cbk, hadd \in HPages
  PROVE  /\ Sound(pages', valid', last_page') /\ spares' \in Seq(Blocks)
         /\ link' \in [HPages -> (Blocks \X Pages) \cup {INVALID}]
         /\ LinkMatchesPages' /\ SparesErased'
PROOF
<1> USE CacheAssumption
<1> DEFINE l == last_cbk
           q == last_page[l]
<1>1. /\ Sound(pages, valid, last_page) /\ l \in Blocks /\ Types
      /\ link \in [HPages -> (Blocks \X Pages) \cup {INVALID}]
      /\ SparesErased /\ LinkMatchesPages
  BY CountedIsValidCounts DEF CacheInv, Types, Sound
<1>2. q < PageCount /\ link' = [link EXCEPT ![hadd] = <<l, q>>]  BY DEF ProgramAndInvalidate
<1>3. PICK pg, va, lp :
        /\ Programmed(pages, valid, last_page, l, hadd, pg, va, lp)
        /\ link[hadd] = INVALID =>
             pages' = pg /\ valid' = va /\ last_page' = lp /\ spares' = spares
        /\ link[hadd] # INVALID => InvalidCachePage(link[hadd], pg, va, lp)
  <2> DEFINE pg == [pages EXCEPT ![l][q] = hadd]
             va == [valid EXCEPT ![l] = @ + 1]
             lp == [last_page EXCEPT ![l] = @ + 1]
  <2> WITNESS pg, va, lp
  <2>. QED  BY DEF ProgramAndInvalidate, Programmed
<1>4. /\ Sound(pg, va, lp) /\ q \in Pages /\ pages[l][q] = INVALID
      /\ \A c \in Blocks, p \in Pages :
           pg[c][p] = IF c = l /\ p = q THEN hadd ELSE pages[c][p]
  BY <1>1, <1>2, <1>3, ProgrammedSound
<1>5. link' \in [HPages -> (Blocks \X Pages) \cup {INVALID}]  BY <1>1, <1>2, <1>4
<1>6. /\ \A c \in Blocks : c # l => lp[c] = last_page[c]
      /\ lp \in [Blocks -> 0 .. PageCount]
  BY <1>1, <1>3, <1>4 DEF Programmed, Sound
<1>7. hadd # INVALID /\ \A b \in Blocks, p \in Pages : <<b, p>> # INVALID
  BY DEF HPages, Pages
<1>8. \A h \in HPages :
         /\ h # INVALID
         /\ link'[h] = IF h = hadd THEN <<l, q>> ELSE link[h]
         /\ link[h] # <<l, q>>
         /\ \A c \in Blocks, p \in Pages : link[h] = <<c, p>> <=> pages[c][p] = h
  BY <1>1, <1>2, <1>4 DEF LinkMatchesPages, HPages
<1>9. CASE link[hadd] = INVALID
  <2>1. SparesErased' /\ spares' \in Seq(Blocks)
    BY <1>1, <1>3, <1>6, <1>9, SparesStep
  <2>2. \A h \in HPages, c \in Blocks, p \in Pages :
          link'[h] = <<c, p>> <=> pages'[c][p] = h
    BY <1>3, <1>4, <1>7, <1>8, <1>9
  <2>. QED  BY <1>3, <1>4, <1>5, <1>9, <2>1, <2>2 DEF LinkMatchesPages
<1>10. CASE link[hadd] # INVALID
  <2>1. PICK b \in Blocks, r \in Pages : link[hadd] = <<b, r>>  BY <1>1, <1>10
  <2>2. pages[b][r] = hadd  BY <1>8, <2>1
  <2>3. ~ (b = l /\ r = q) /\ pg[b][r] # INVALID  BY <1>4, <1>7, <2>2
  <2>4. InvalidCachePage(link[hadd], pg, va, lp)  BY <1>3, <1>10
  <2>5. Sound(pages', valid', last_page') /\ Taken(pg, lp, b, r)
    BY <1>4, <2>1, <2>3, <2>4, Invalidated
  <2>6. SparesErased' /\ spares' \in Seq(Blocks)
    BY <1>1, <1>6, <2>5, SparesStep DEF Taken
  <2>7. ASSUME NEW h \in HPages, NEW c \in Blocks, NEW p \in Pages
        PROVE  link'[h] = <<c, p>> <=> pages'[c][p] = h
    <3>1. pages'[c][p] = IF c = b /\ p = r THEN INVALID
                         ELSE IF c = l /\ p = q THEN hadd ELSE pages[c][p]
      BY <1>4, <2>5 DEF Taken
    <3>2. pages[c][p] = hadd => c = b /\ p = r  BY <1>8, <2>1
    <3>. QED  BY <1>7, <1>8, <2>2, <2>3, <3>1, <3>2
  <2>. QED  BY <1>5, <2>5, <2>6, <2>7 DEF LinkMatchesPages
<1>. QED  BY <1>9, <1>10

(* Cleaning a page forgets its copy in the table and in the cache.         *)
LEMMA CleanStep ==
  ASSUME CacheInv, prepared, CleanPage, clean_hadd \in HPages
  PROVE  /\ Sound(pages', valid', last_page') /\ spares' \in Seq(Blocks)
         /\ link' \in [HPages -> (Blocks \X Pages) \cup {INVALID}]
         /\ LinkMatchesPages' /\ SparesErased'
         /\ last_page'[last_cbk] = last_page[last_cbk]
PROOF
<1> USE CacheAssumption
<1> DEFINE a == clean_hadd
<1>1. /\ Sound(pages, valid, last_page) /\ Types
      /\ link \in [HPages -> (Blocks \X Pages) \cup {INVALID}]
      /\ SparesErased /\ LinkMatchesPages /\ last_cbk \in Blocks
  BY CountedIsValidCounts DEF CacheInv, Types, Sound
<1>2. /\ link' = [link EXCEPT ![a] = INVALID] /\ last_cbk' = last_cbk
      /\ link[a] = INVALID => UNCHANGED <<pages, valid, last_page, spares>>
      /\ link[a] # INVALID => InvalidCachePage(link[a], pages, valid, last_page)
  BY DEF CleanPage, flash
<1>3. link' \in [HPages -> (Blocks \X Pages) \cup {INVALID}]  BY <1>1, <1>2
<1>4. \A h \in HPages :
         /\ h # INVALID
         /\ link'[h] = IF h = a THEN INVALID ELSE link[h]
         /\ \A c \in Blocks, p \in Pages : link[h] = <<c, p>> <=> pages[c][p] = h
  BY <1>1, <1>2 DEF LinkMatchesPages, HPages
<1>5. \A b \in Blocks, p \in Pages : <<b, p>> # INVALID  BY DEF Pages
<1>6. CASE link[a] = INVALID
  <2>1. UNCHANGED <<pages, valid, last_page, spares>>  BY <1>2, <1>6
  <2>2. SparesErased' /\ spares' \in Seq(Blocks)
    BY <1>1, <1>2, <2>1 DEF SparesErased, Types
  <2>3. LinkMatchesPages'  BY <1>4, <1>6, <2>1 DEF LinkMatchesPages
  <2>4. Sound(pages', valid', last_page')  BY <1>1, <2>1
  <2>. QED  BY <1>3, <2>1, <2>2, <2>3, <2>4
<1>7. CASE link[a] # INVALID
  <2>1. PICK b \in Blocks, r \in Pages : link[a] = <<b, r>>  BY <1>1, <1>7
  <2>2. pages[b][r] = a /\ pages[b][r] # INVALID  BY <1>4, <2>1
  <2>3. InvalidCachePage(link[a], pages, valid, last_page)  BY <1>2, <1>7
  <2>4. Sound(pages', valid', last_page') /\ Taken(pages, last_page, b, r)
    BY <1>1, <2>1, <2>2, <2>3, Invalidated
  <2>5. last_page \in [Blocks -> 0 .. PageCount]  BY <1>1 DEF Sound
  <2>6. SparesErased' /\ spares' \in Seq(Blocks)
    BY <1>1, <1>2, <2>4, <2>5, SparesStep DEF Taken
  <2>7. ASSUME NEW h \in HPages, NEW c \in Blocks, NEW p \in Pages
        PROVE  link'[h] = <<c, p>> <=> pages'[c][p] = h
    <3>1. pages'[c][p] = IF c = b /\ p = r THEN INVALID ELSE pages[c][p]
      BY <2>4 DEF Taken
    <3>2. pages[c][p] = a => c = b /\ p = r  BY <1>4, <2>1
    <3>3. /\ h # INVALID /\ link'[h] = IF h = a THEN INVALID ELSE link[h]
          /\ <<c, p>> # INVALID
      BY <1>4, <1>5
    <3>4. link[h] = <<c, p>> <=> pages[c][p] = h  BY <1>4
    <3>5. CASE h = a  BY <3>1, <3>2, <3>3, <3>5
    <3>6. CASE h # a  BY <2>2, <3>1, <3>3, <3>4, <3>6
    <3>. QED  BY <3>5, <3>6
  <2>8. last_page'[last_cbk] = last_page[last_cbk]  BY <1>1, <2>4, <2>5 DEF Taken
  <2>. QED  BY <1>3, <2>4, <2>6, <2>7, <2>8 DEF LinkMatchesPages
<1>. QED  BY <1>6, <1>7
-----------------------------------------------------------------------------
(* Writing a page of a command.                                            *)
LEMMA WriteInv == CacheInv /\ WritePage => CacheInv'
PROOF
<1> SUFFICES ASSUME CacheInv, WritePage  PROVE CacheInv'
  OBVIOUS
<1>1. /\ phase = "write" /\ todo > 0 /\ ProgramAndInvalidate
      /\ hadd' = hadd + 1 /\ todo' = todo - 1
      /\ phase' = IF last_page'[last_cbk] >= PageCount THEN "pop" ELSE "write"
      /\ UNCHANGED <<last_cbk, clean_hadd, task, prepared, full>>
  BY DEF WritePage, session, clean
<1>2. Types /\ CleanEnds  BY DEF CacheInv
<1>3. prepared /\ hadd + todo <= Capacity /\ hadd \in HPages
  BY <1>1, <1>2, CapacityType DEF Types, CleanEnds
<1>4. /\ Sound(pages', valid', last_page') /\ spares' \in Seq(Blocks)
      /\ link' \in [HPages -> (Blocks \X Pages) \cup {INVALID}]
      /\ LinkMatchesPages' /\ SparesErased'
  BY <1>1, <1>3, ProgramStep
<1>5. ValidCounts'  BY <1>4, CountedLater DEF Sound
<1>6. Types'
  <2>1. phase' \in {"idle", "write", "pop", "clean", "stopped"}  BY <1>1
  <2>2. prepared' /\ prepared' \in BOOLEAN /\ full' \in BOOLEAN /\ full' = full  BY <1>1, <1>2, <1>3, Zenon DEF Types
  <2>3. last_cbk' \in Blocks /\ task' \in 0 .. 2  BY <1>1, <1>2, <1>3 DEF Types
  <2>4. hadd' \in Nat /\ todo' \in Nat  BY <1>1, <1>2 DEF Types
  <2>. QED  BY <1>4, <2>1, <2>2, <2>3, <2>4 DEF Types, Sound
<1>7. LastHasRoom'
  <2>1. last_page'[last_cbk] \in 0 .. PageCount  BY <1>2, <1>3, <1>4 DEF Types, Sound
  <2>. QED  BY <1>1, <2>1, CacheAssumption DEF LastHasRoom
<1>8. CleanEnds'
  BY <1>1, <1>2, <1>3 DEF CleanEnds, Types, AtQuarter
<1>. QED  BY <1>4, <1>5, <1>6, <1>7, <1>8 DEF CacheInv

(* Replacing the full block by a spare one.                                *)
LEMMA PopInv == CacheInv /\ PopSpare => CacheInv'
PROOF
<1> SUFFICES ASSUME CacheInv, PopSpare  PROVE CacheInv'
  OBVIOUS
<1> USE CacheAssumption
<1>1. /\ phase = "pop" /\ spares # <<>> /\ last_cbk' = Head(spares) /\ spares' = Tail(spares)
      /\ phase' = "write"
      /\ UNCHANGED <<pages, valid, last_page, link, clean_hadd, task, prepared, full, hadd, todo>>
  BY DEF PopSpare, session, flash, clean
<1>2. Types /\ SparesErased /\ CleanEnds /\ LinkMatchesPages /\ ValidCounts  BY DEF CacheInv
<1>3. /\ Len(spares) \in Nat /\ Len(spares) >= 1 /\ last_cbk' = spares[1] /\ last_cbk' \in Blocks
      /\ spares' \in Seq(Blocks) /\ Len(spares') = Len(spares) - 1
      /\ \A i \in 1 .. Len(spares') : spares'[i] = spares[i + 1]
  BY <1>1, <1>2 DEF Types
<1>4. prepared' /\ prepared' \in BOOLEAN /\ full' \in BOOLEAN /\ full' = full  BY <1>1, <1>2 DEF Types
<1>5. Types'  BY <1>1, <1>2, <1>3, <1>4 DEF Types
<1>6. LinkMatchesPages' /\ ValidCounts'
  <2>1. \A b \in Blocks : Cached(b)' = Cached(b)  BY <1>1 DEF Cached
  <2>2. ValidCounts'  BY <1>1, <1>2, <2>1 DEF ValidCounts
  <2>. QED  BY <1>1, <1>2, <2>2 DEF LinkMatchesPages
<1>7. SparesErased'
  <2>1. ASSUME NEW i \in 1 .. Len(spares')
        PROVE  i + 1 \in 1 .. Len(spares) /\ 1 \in 1 .. Len(spares) /\ i + 1 # 1
    BY <1>3
  <2>2. ASSUME NEW i \in 1 .. Len(spares')
        PROVE  spares'[i] # last_cbk' /\ last_page'[spares'[i]] = 0
    BY <1>1, <1>2, <1>3, <2>1 DEF SparesErased
  <2>3. ASSUME NEW i \in 1 .. Len(spares'), NEW j \in 1 .. Len(spares'), i # j
        PROVE  spares'[i] # spares'[j]
    <3>1. i + 1 # j + 1  BY <1>3, <2>3
    <3>. QED  BY <1>2, <1>3, <2>1, <3>1 DEF SparesErased
  <2>. QED  BY <2>2, <2>3 DEF SparesErased
<1>8. LastHasRoom'
  <2>1. last_page[spares[1]] = 0  BY <1>2, <1>3 DEF SparesErased
  <2>. QED  BY <1>1, <1>3, <2>1 DEF LastHasRoom
<1>9. CleanEnds'  BY <1>1, <1>2 DEF CleanEnds, AtQuarter
<1>. QED  BY <1>5, <1>6, <1>7, <1>8, <1>9 DEF CacheInv

(* A step that leaves the flash, the table and the lists alone.            *)
LEMMA ElsewhereInv ==
  ASSUME CacheInv, UNCHANGED <<pages, valid, last_page, link, spares, last_cbk>>
  PROVE  LinkMatchesPages' /\ ValidCounts' /\ SparesErased'
PROOF
<1>1. LinkMatchesPages'  BY DEF CacheInv, LinkMatchesPages
<1>2. \A b \in Blocks : Cached(b)' = Cached(b)  BY DEF Cached
<1>3. ValidCounts'  BY <1>2 DEF CacheInv, ValidCounts
<1>4. SparesErased'  BY DEF CacheInv, SparesErased
<1>. QED  BY <1>1, <1>3, <1>4

(* Accepting a write command.                                              *)
LEMMA CommandInv ==
  ASSUME CacheInv, NEW h \in HPages, NEW n \in 1 .. MaxPages, SectorWrite(h, n)
  PROVE  CacheInv'
PROOF
<1>1. /\ phase = "idle" /\ prepared /\ h + n - 1 \in HPages
      /\ phase' = "write" /\ hadd' = h /\ todo' = n
      /\ UNCHANGED <<pages, valid, last_page, link, spares, last_cbk, task, clean_hadd, prepared, full>>
  BY DEF SectorWrite, session, flash, lists, clean
<1>2. Types /\ CleanEnds /\ LastHasRoom  BY DEF CacheInv
<1>3. h \in Nat /\ n \in Nat /\ h + n <= Capacity  BY <1>1, CapacityType, CacheAssumption
<1>4. prepared' /\ prepared' \in BOOLEAN /\ full' \in BOOLEAN /\ full' = full  BY <1>1, <1>2 DEF Types
<1>5. Types'  BY <1>1, <1>2, <1>3, <1>4 DEF Types
<1>6. CleanEnds'  BY <1>1, <1>2, <1>3 DEF CleanEnds, AtQuarter
<1>7. LastHasRoom'  BY <1>1, <1>2 DEF LastHasRoom
<1>. QED  BY <1>1, <1>5, <1>6, <1>7, ElsewhereInv DEF CacheInv

(* Giving up when there is no spare block.                                 *)
LEMMA FullInv == CacheInv /\ CacheFull => CacheInv'
PROOF
<1> SUFFICES ASSUME CacheInv, CacheFull  PROVE CacheInv'
  OBVIOUS
<1>1. /\ phase = "pop" /\ phase' = "idle" /\ full' = TRUE
      /\ UNCHANGED <<pages, valid, last_page, link, spares, last_cbk, task, clean_hadd, prepared,
                     hadd, todo>>
  BY DEF CacheFull, flash, lists, clean
<1>2. Types /\ CleanEnds  BY DEF CacheInv
<1>3. prepared' /\ prepared' \in BOOLEAN /\ full' \in BOOLEAN  BY <1>1, <1>2 DEF Types
<1>4. Types' /\ CleanEnds' /\ LastHasRoom'
  BY <1>1, <1>2, <1>3 DEF Types, CleanEnds, AtQuarter, LastHasRoom
<1>. QED  BY <1>1, <1>4, ElsewhereInv DEF CacheInv

(* Failing the assertion.                                                  *)
LEMMA FailsInv == CacheInv /\ ProgramFails => CacheInv'
PROOF
<1> SUFFICES ASSUME CacheInv, ProgramFails  PROVE CacheInv'
  OBVIOUS
<1>1. /\ phase = "write" /\ phase' = "stopped" /\ last_page[last_cbk] >= PageCount
      /\ UNCHANGED <<pages, valid, last_page, link, spares, last_cbk, task, clean_hadd, prepared,
                     full, hadd, todo>>
  BY DEF ProgramFails, flash, lists, clean, session
<1>2. Types /\ CleanEnds /\ LastHasRoom  BY DEF CacheInv
<1>3. prepared' /\ prepared' \in BOOLEAN /\ full' \in BOOLEAN /\ full' = full
  BY <1>1, <1>2 DEF Types
<1>4. Types' /\ CleanEnds' /\ LastHasRoom'
  BY <1>1, <1>2, <1>3 DEF Types, CleanEnds, AtQuarter, LastHasRoom
<1>. QED  BY <1>1, <1>4, ElsewhereInv DEF CacheInv

(* Choosing what to clean after a command.                                 *)
LEMMA PlanInv == CacheInv /\ PlanClean => CacheInv'
PROOF
<1> SUFFICES ASSUME CacheInv, PlanClean  PROVE CacheInv'
  OBVIOUS
<1>1. /\ phase = "write" /\ todo = 0 /\ phase' = "clean" /\ task' = NewTask
      /\ UNCHANGED <<pages, valid, last_page, link, spares, last_cbk, prepared, full, hadd>>
  BY DEF PlanClean, session, flash, lists
<1>2. Types /\ CleanEnds /\ LastHasRoom  BY DEF CacheInv
<1>3. NewTask \in 0 .. 2  BY <1>2 DEF NewTask, Types
<1>4. /\ clean_hadd' \in Nat \cup {INVALID} /\ todo' \in Nat
      /\ IF clean_hadd' = INVALID THEN todo' = 0
         ELSE clean_hadd' + todo' <= Capacity /\ AtQuarter(clean_hadd' + todo')
  <2>1. CASE NewTask = 0
    <3>1. todo' = 0 /\ clean_hadd' = clean_hadd  BY <2>1 DEF PlanClean
    <3>2. clean_hadd # INVALID => clean_hadd \in Nat /\ clean_hadd + 0 = clean_hadd
                                  /\ clean_hadd < Capacity /\ AtQuarter(clean_hadd)
      BY <1>1, <1>2 DEF CleanEnds
    <3>. QED  BY <1>2, <3>1, <3>2, CapacityType DEF CleanEnds
  <2>2. CASE NewTask # 0
    <3>1. clean_hadd' \in HPages /\ AtQuarter(clean_hadd')
      <4>1. CASE clean_hadd = INVALID
        <5>1. PICK h \in HPages : FindHblockToClean(h) /\ clean_hadd' = h
          BY <2>2, <4>1 DEF PlanClean
        <5>. QED  BY <5>1, FoundBlock
      <4>2. CASE clean_hadd # INVALID
        <5>1. clean_hadd' = clean_hadd  BY <2>2, <4>2 DEF PlanClean
        <5>. QED  BY <1>1, <1>2, <4>2, <5>1, CapacityType DEF CleanEnds
      <4>. QED  BY <4>1, <4>2
    <3>2. todo' = IF NewTask = 1 THEN PageCount \div 4 ELSE PageCount - HPage(clean_hadd')
      BY <2>2 DEF PlanClean
    <3>5. clean_hadd' \in Nat /\ clean_hadd' # INVALID  BY <3>1, CapacityType, CacheAssumption
    <3>3. CASE NewTask = 1
      <4>1. todo' = PageCount \div 4 /\ todo' \in Nat  BY <3>2, <3>3, Quarters
      <4>2. clean_hadd' + todo' <= Capacity /\ AtQuarter(clean_hadd' + todo')
        BY <3>1, <4>1, NextQuarter
      <4>. QED  BY <3>5, <4>1, <4>2
    <3>4. CASE NewTask # 1  BY <3>1, <3>2, <3>4, <3>5, RestOfBlock
    <3>. QED  BY <3>3, <3>4
  <2>. QED  BY <2>1, <2>2
<1>5. prepared' /\ prepared' \in BOOLEAN /\ full' \in BOOLEAN /\ full' = full  BY <1>1, <1>2 DEF Types
<1>6. Types' /\ LastHasRoom'  BY <1>1, <1>2, <1>3, <1>4, <1>5 DEF Types, LastHasRoom
<1>7. CleanEnds'  BY <1>1, <1>4 DEF CleanEnds, AtQuarter
<1>. QED  BY <1>1, <1>6, <1>7, ElsewhereInv DEF CacheInv

(* Cleaning one page of the host.                                          *)
LEMMA CleanInv == CacheInv /\ CleanPage => CacheInv'
PROOF
<1> SUFFICES ASSUME CacheInv, CleanPage  PROVE CacheInv'
  OBVIOUS
<1>1. /\ phase = "clean" /\ todo > 0 /\ clean_hadd' = clean_hadd + 1 /\ todo' = todo - 1
      /\ UNCHANGED <<last_cbk, task, prepared, full, phase, hadd>>
  BY DEF CleanPage, session
<1>2. Types /\ CleanEnds /\ LastHasRoom  BY DEF CacheInv
<1>3. /\ clean_hadd \in HPages /\ clean_hadd \in Nat /\ prepared
      /\ clean_hadd + todo <= Capacity /\ AtQuarter(clean_hadd + todo)
  BY <1>1, <1>2, CapacityType DEF CleanEnds, Types
<1>4. /\ Sound(pages', valid', last_page') /\ spares' \in Seq(Blocks)
      /\ link' \in [HPages -> (Blocks \X Pages) \cup {INVALID}]
      /\ LinkMatchesPages' /\ SparesErased'
      /\ last_page'[last_cbk] = last_page[last_cbk]
  BY <1>3, CleanStep
<1>5. ValidCounts'  BY <1>4, CountedLater DEF Sound
<1>6. prepared' /\ prepared' \in BOOLEAN /\ full' \in BOOLEAN /\ full' = full  BY <1>1, <1>2, <1>3 DEF Types
<1>7. Types'  BY <1>1, <1>2, <1>4, <1>6 DEF Types, Sound
<1>8. LastHasRoom'  BY <1>1, <1>2, <1>3, <1>4 DEF LastHasRoom
<1>9. clean_hadd' + todo' = clean_hadd + todo /\ clean_hadd' \in Nat /\ clean_hadd' # INVALID
  <2>1. clean_hadd' \in Nat /\ clean_hadd' + todo' = clean_hadd + todo
    BY <1>1, <1>2, <1>3 DEF Types
  <2>. QED  BY <2>1, CacheAssumption
<1>10. CleanEnds'  BY <1>1, <1>3, <1>9 DEF CleanEnds, AtQuarter
<1>. QED  BY <1>4, <1>5, <1>7, <1>8, <1>10 DEF CacheInv

(* Ending a clean.                                                         *)
LEMMA FinishInv == CacheInv /\ Finish => CacheInv'
PROOF
<1> SUFFICES ASSUME CacheInv, Finish  PROVE CacheInv'
  OBVIOUS
<1>1. /\ phase = "clean" /\ todo = 0 /\ phase' = "idle"
      /\ UNCHANGED <<pages, valid, last_page, link, spares, last_cbk, prepared, full, hadd, todo>>
      /\ \/ clean_hadd' = INVALID /\ task' = 0
         \/ /\ ~ (clean_hadd # INVALID /\ HPage(clean_hadd) = 0)
            /\ clean_hadd' = clean_hadd /\ task' = task
  BY DEF Finish, session, flash, lists, clean
<1>2. Types /\ CleanEnds /\ LastHasRoom  BY DEF CacheInv
<1>3. prepared' \in BOOLEAN /\ prepared' = prepared /\ full' \in BOOLEAN /\ full' = full  BY <1>1, <1>2 DEF Types
<1>4. Types' /\ LastHasRoom'  BY <1>1, <1>2, <1>3 DEF Types, LastHasRoom
<1>5. ASSUME clean_hadd' # INVALID
      PROVE  clean_hadd' \in Nat /\ clean_hadd' < Capacity /\ AtQuarter(clean_hadd')
  <2>1. clean_hadd' = clean_hadd /\ HPage(clean_hadd) # 0  BY <1>1, <1>5
  <2>2. clean_hadd \in Nat /\ clean_hadd + todo <= Capacity /\ AtQuarter(clean_hadd + todo)
    BY <1>1, <1>2, <1>5, <2>1 DEF CleanEnds
  <2>3. clean_hadd + todo = clean_hadd  BY <1>1, <2>2
  <2>4. clean_hadd # Capacity  BY <2>1, WholeCapacity
  <2>. QED  BY <2>1, <2>2, <2>3, <2>4, CapacityType
<1>6. CleanEnds'  BY <1>1, <1>5 DEF CleanEnds, AtQuarter
<1>. QED  BY <1>1, <1>4, <1>6, ElsewhereInv DEF CacheInv

(* Every step keeps the invariant.                                         *)
LEMMA StepInv == CacheInv /\ [Next]_vars => CacheInv'
PROOF
<1> SUFFICES ASSUME CacheInv, [Next]_vars  PROVE CacheInv'
  OBVIOUS
<1>1. CASE Prepare  BY <1>1, PrepareInv
<1>2. CASE \E h \in HPages, n \in 1 .. MaxPages : SectorWrite(h, n)  BY <1>2, CommandInv
<1>3. CASE WritePage  BY <1>3, WriteInv
<1>4. CASE PopSpare  BY <1>4, PopInv
<1>5. CASE CacheFull  BY <1>5, FullInv
<1>6. CASE PlanClean  BY <1>6, PlanInv
<1>7. CASE CleanPage  BY <1>7, CleanInv
<1>8. CASE Finish  BY <1>8, FinishInv
<1>10. CASE ProgramFails  BY <1>10, FailsInv
<1>9. CASE UNCHANGED vars
  <2>1. UNCHANGED <<pages, valid, last_page, link, spares, last_cbk, task, clean_hadd, prepared,
                    full, phase, hadd, todo>>
    BY <1>9 DEF vars, flash, lists, clean, session
  <2>2. Types' /\ LastHasRoom' /\ CleanEnds'
    BY <2>1 DEF CacheInv, Types, LastHasRoom, CleanEnds, AtQuarter
  <2>. QED  BY <2>1, <2>2, ElsewhereInv DEF CacheInv
<1>. QED  BY <1>1, <1>2, <1>3, <1>4, <1>5, <1>6, <1>7, <1>8, <1>9, <1>10 DEF Next

(* The inductive invariant of the cache: table and pages inverse to each   *)
(* other, blocks counted, spares erased, room in the block written.        *)
THEOREM CacheAlwaysInv == Spec => []CacheInv
  BY InitInv, StepInv, PTL DEF Spec

(* The host finds the newest copy of every page, and every valid cache     *)
(* page is one the host finds.                                             *)
THEOREM LinkAlwaysMatchesPages == Spec => []LinkMatchesPages
PROOF
<1>1. CacheInv => LinkMatchesPages  BY DEF CacheInv
<1>. QED  BY <1>1, CacheAlwaysInv, PTL

(* The number compared with zero to recycle a block counts its valid pages. *)
THEOREM ValidAlwaysCounts == Spec => []ValidCounts
PROOF
<1>1. CacheInv => ValidCounts  BY DEF CacheInv
<1>. QED  BY <1>1, CacheAlwaysInv, PTL

(* JCASSERT(m_last_page < m_page_per_block) in Program fails only in a     *)
(* write behind one that ended with "cache full".                          *)
THEOREM ProgramAlwaysHasRoom == Spec => []ProgramHasRoom
PROOF
<1>1. CacheInv => ProgramHasRoom
  <2>1. Types /\ LastHasRoom => ProgramHasRoom  BY DEF Types, LastHasRoom, ProgramHasRoom
  <2>. QED  BY <2>1 DEF CacheInv
<1>. QED  BY <1>1, CacheAlwaysInv, PTL
-----------------------------------------------------------------------------
(* Where a clean stands in its host block: it does not run over its end,   *)
(* and between commands it stands behind a page it has cleaned.            *)
CleanStands ==
  /\ phase = "clean" /\ todo > 0 => HPage(clean_hadd) + todo <= PageCount
  /\ phase # "clean" /\ clean_hadd # INVALID => HPage(clean_hadd) # 0

RangeInv == CleanStands /\ CleanLeavesNothing /\ RangeCovers

(* The pages next to a page, and the first and last page of its host block.*)
LEMMA Neighbours ==
  ASSUME NEW h \in Nat
  PROVE  /\ HPage(h) + 1 < PageCount => HBlock(h + 1) = HBlock(h) /\ HPage(h + 1) = HPage(h) + 1
         /\ HPage(h) # 0 => h - 1 \in Nat /\ HBlock(h - 1) = HBlock(h)
         /\ \A g \in Nat : HBlock(g) = HBlock(h) =>
              /\ HPage(h) = PageCount - 1 => g <= h
              /\ HPage(h) = 0 => h <= g
PROOF
<1>1. HBlock(h) \in Nat /\ HPage(h) \in Pages /\ h = HBlock(h) * PageCount + HPage(h)
  BY PageOfHost
<1>2. HPage(h) + 1 < PageCount => HBlock(h + 1) = HBlock(h) /\ HPage(h + 1) = HPage(h) + 1
  <2>1. SUFFICES ASSUME HPage(h) + 1 < PageCount
                 PROVE  HBlock(h + 1) = HBlock(h) /\ HPage(h + 1) = HPage(h) + 1
    OBVIOUS
  <2>2. HPage(h) + 1 \in Pages  BY <1>1, <2>1, CacheAssumption DEF Pages
  <2>3. h + 1 = HBlock(h) * PageCount + (HPage(h) + 1)  BY <1>1, CacheAssumption DEF Pages
  <2>. QED  BY <1>1, <2>2, <2>3, HostOfPage
<1>3. HPage(h) # 0 => h - 1 \in Nat /\ HBlock(h - 1) = HBlock(h)
  <2>1. SUFFICES ASSUME HPage(h) # 0  PROVE h - 1 \in Nat /\ HBlock(h - 1) = HBlock(h)
    OBVIOUS
  <2>2. HPage(h) - 1 \in Pages  BY <1>1, <2>1, CacheAssumption DEF Pages
  <2>3. h - 1 = HBlock(h) * PageCount + (HPage(h) - 1)  BY <1>1, CacheAssumption DEF Pages
  <2>4. h - 1 \in Nat  BY <1>1, <2>2, <2>3, CacheAssumption DEF Pages
  <2>. QED  BY <1>1, <2>2, <2>3, <2>4, HostOfPage
<1>4. ASSUME NEW g \in Nat, HBlock(g) = HBlock(h)
      PROVE  /\ HPage(h) = PageCount - 1 => g <= h
             /\ HPage(h) = 0 => h <= g
  <2>1. HPage(g) \in Pages /\ g = HBlock(h) * PageCount + HPage(g)  BY <1>4, PageOfHost
  <2>2. HBlock(h) * PageCount \in Nat  BY <1>1, CacheAssumption
  <2>. QED  BY <1>1, <2>1, <2>2, CacheAssumption DEF Pages
<1>. QED  BY <1>2, <1>3, <1>4

(* Nothing is cached and nothing cleaned at the start.                     *)
LEMMA InitRange == Init => RangeInv
  BY CacheAssumption DEF Init, RangeInv, CleanStands, CleanLeavesNothing, RangeCovers

(* Prepare cleans nothing.                                                 *)
LEMMA PrepareRange == RangeInv /\ Prepare => RangeInv'
PROOF
<1> SUFFICES ASSUME RangeInv, Prepare  PROVE RangeInv'
  OBVIOUS
<1>1. /\ link' = [h \in HPages |-> INVALID] /\ phase = "idle"
      /\ UNCHANGED <<clean_hadd, phase, todo>>
  BY DEF Prepare
<1>2. \A h \in HPages : link'[h] = INVALID  BY <1>1
<1>3. CleanStands'  BY <1>1 DEF RangeInv, CleanStands, HPage
<1>. QED  BY <1>2, <1>3 DEF RangeInv, CleanLeavesNothing, RangeCovers

(* A page written is entered in the range or was written behind a clean.   *)
LEMMA WriteRange == CacheInv /\ RangeInv /\ WritePage => RangeInv'
PROOF
<1> SUFFICES ASSUME CacheInv, RangeInv, WritePage  PROVE RangeInv'
  OBVIOUS
<1>1. /\ phase = "write" /\ phase' # "clean" /\ clean_hadd' = clean_hadd
      /\ link' = [link EXCEPT ![hadd] = <<last_cbk, last_page[last_cbk]>>]
      /\ mapped' = mapped \cup {HBlock(hadd)}
      /\ rewritten' = IF BehindClean(hadd) THEN rewritten \cup {hadd} ELSE rewritten \ {hadd}
  BY DEF WritePage, ProgramAndInvalidate, clean
<1>2. \A h \in HPages : link'[h] = IF h = hadd THEN <<last_cbk, last_page[last_cbk]>> ELSE link[h]
  BY <1>1 DEF CacheInv, Types
<1>3. CleanStands'  BY <1>1 DEF RangeInv, CleanStands, HPage
<1>4. CleanLeavesNothing'
  <2>1. SUFFICES ASSUME clean_hadd # INVALID, NEW h \in HPages, h < clean_hadd,
                        HBlock(h) = HBlock(clean_hadd), link'[h] # INVALID
                 PROVE  h \in rewritten'
    BY <1>1 DEF CleanLeavesNothing, HBlock
  <2>2. CASE h = hadd  BY <1>1, <2>1, <2>2 DEF BehindClean
  <2>3. CASE h # hadd
    <3>1. h \in rewritten  BY <1>1, <1>2, <2>1, <2>3 DEF RangeInv, CleanLeavesNothing
    <3>. QED  BY <1>1, <2>3, <3>1
  <2>. QED  BY <2>2, <2>3
<1>5. RangeCovers'
  <2>1. SUFFICES ASSUME NEW h \in HPages, link'[h] # INVALID
                 PROVE  HBlock(h) \in mapped' \/ h \in rewritten'
    BY DEF RangeCovers, HBlock
  <2>2. CASE h = hadd  BY <1>1, <2>2
  <2>3. CASE h # hadd  BY <1>1, <1>2, <2>1, <2>3 DEF RangeInv, RangeCovers
  <2>. QED  BY <2>2, <2>3
<1>. QED  BY <1>3, <1>4, <1>5 DEF RangeInv

(* A clean starts behind the one before it or at a host block.             *)
LEMMA PlanRange == CacheInv /\ RangeInv /\ PlanClean => RangeInv'
PROOF
<1> SUFFICES ASSUME CacheInv, RangeInv, PlanClean  PROVE RangeInv'
  OBVIOUS
<1>1. /\ phase = "write" /\ phase' = "clean" /\ UNCHANGED <<link, mapped, rewritten>>
  BY DEF PlanClean
<1>2. CleanEnds /\ CleanStands /\ CleanLeavesNothing /\ RangeCovers  BY DEF CacheInv, RangeInv
<1>3. RangeCovers'  BY <1>1, <1>2 DEF RangeCovers, HBlock
<1>4. CASE NewTask = 0
  <2>1. todo' = 0 /\ clean_hadd' = clean_hadd  BY <1>4 DEF PlanClean
  <2>2. CleanStands'  BY <1>1, <2>1 DEF CleanStands
  <2>3. CleanLeavesNothing'
    <3>1. SUFFICES ASSUME clean_hadd # INVALID, NEW h \in HPages, h < clean_hadd,
                          HBlock(h) = HBlock(clean_hadd - 1), link[h] # INVALID
                   PROVE  h \in rewritten
      BY <1>1, <2>1 DEF CleanLeavesNothing, HBlock
    <3>2. clean_hadd \in Nat /\ HPage(clean_hadd) # 0  BY <1>1, <1>2, <3>1 DEF CleanEnds, CleanStands
    <3>3. HBlock(h) = HBlock(clean_hadd)  BY <3>1, <3>2, Neighbours
    <3>. QED  BY <1>1, <1>2, <3>1, <3>3 DEF CleanLeavesNothing
  <2>. QED  BY <1>3, <2>2, <2>3 DEF RangeInv
<1>5. CASE NewTask # 0
  <2>1. todo' = IF NewTask = 1 THEN PageCount \div 4 ELSE PageCount - HPage(clean_hadd')
    BY <1>5 DEF PlanClean
  <2>2. /\ clean_hadd' \in HPages /\ AtQuarter(clean_hadd')
        /\ \/ clean_hadd' = clean_hadd /\ clean_hadd # INVALID
           \/ HPage(clean_hadd') = 0
    <3>1. CASE clean_hadd = INVALID
      <4>1. PICK h \in HPages : FindHblockToClean(h) /\ clean_hadd' = h
        BY <1>5, <3>1 DEF PlanClean
      <4>. QED  BY <4>1, FoundBlock
    <3>2. CASE clean_hadd # INVALID
      <4>1. clean_hadd' = clean_hadd  BY <1>5, <3>2 DEF PlanClean
      <4>. QED  BY <1>1, <1>2, <3>2, <4>1, CapacityType DEF CleanEnds
    <3>. QED  BY <3>1, <3>2
  <2>3. todo' \in Nat \ {0} /\ HPage(clean_hadd') + todo' <= PageCount
    <3>1. CASE NewTask = 1
      <4>1. todo' = PageCount \div 4  BY <2>1, <3>1
      <4>. QED  BY <2>2, <4>1, Quarters, NextQuarter
    <3>2. CASE NewTask # 1  BY <2>1, <2>2, <3>2, RestOfBlock
    <3>. QED  BY <3>1, <3>2
  <2>4. CleanStands'
    <3>1. HPage(clean_hadd)' = HPage(clean_hadd')  BY DEF HPage
    <3>. QED  BY <1>1, <2>3, <3>1 DEF CleanStands
  <2>5. CleanLeavesNothing'
    <3>1. SUFFICES ASSUME NEW h \in HPages, h < clean_hadd', HBlock(h) = HBlock(clean_hadd'),
                          link[h] # INVALID
                   PROVE  h \in rewritten
      BY <1>1, <2>3 DEF CleanLeavesNothing, HBlock
    <3>2. CASE clean_hadd' = clean_hadd /\ clean_hadd # INVALID
      BY <1>1, <1>2, <3>1, <3>2 DEF CleanLeavesNothing
    <3>3. CASE HPage(clean_hadd') = 0
      <4>1. h \in Nat /\ clean_hadd' \in Nat  BY <2>2, CapacityType
      <4>2. clean_hadd' <= h  BY <3>1, <3>3, <4>1, Neighbours
      <4>. QED  BY <3>1, <4>1, <4>2
    <3>. QED  BY <2>2, <3>2, <3>3
  <2>. QED  BY <1>3, <2>4, <2>5 DEF RangeInv
<1>. QED  BY <1>4, <1>5

(* A page cleaned leaves nothing behind.                                   *)
LEMMA CleanRange == CacheInv /\ RangeInv /\ CleanPage => RangeInv'
PROOF
<1> SUFFICES ASSUME CacheInv, RangeInv, CleanPage  PROVE RangeInv'
  OBVIOUS
<1> DEFINE a == clean_hadd
<1>1. /\ phase = "clean" /\ phase' = "clean" /\ todo > 0 /\ rewritten' = rewritten
      /\ clean_hadd' = a + 1 /\ todo' = todo - 1
      /\ link' = [link EXCEPT ![a] = INVALID]
      /\ mapped' = IF HPage(a) = PageCount - 1 THEN mapped \ {HBlock(a)} ELSE mapped
  BY DEF CleanPage
<1>2. /\ Types /\ CleanEnds /\ CleanStands /\ CleanLeavesNothing /\ RangeCovers
  BY DEF CacheInv, RangeInv
<1>3. /\ todo \in Nat /\ a \in Nat /\ a \in HPages /\ a # INVALID
      /\ HPage(a) + todo <= PageCount /\ HPage(a) \in Pages
  <2>1. todo \in Nat /\ a # INVALID /\ a \in Nat /\ a + todo <= Capacity
    BY <1>1, <1>2 DEF Types, CleanEnds
  <2>2. a \in HPages  BY <1>1, <2>1, CapacityType
  <2>3. HPage(a) + todo <= PageCount  BY <1>1, <1>2 DEF CleanStands
  <2>. QED  BY <2>1, <2>2, <2>3, PageOfHost
<1>4. \A h \in HPages : link'[h] = IF h = a THEN INVALID ELSE link[h]
  BY <1>1, <1>2 DEF Types
<1>5. \A h \in HPages : h < a /\ HBlock(h) = HBlock(a) /\ link[h] # INVALID => h \in rewritten
  BY <1>1, <1>2, <1>3 DEF CleanLeavesNothing
<1>6. todo' > 0 => HBlock(a + 1) = HBlock(a) /\ HPage(a + 1) = HPage(a) + 1
  <2>1. todo' > 0 => HPage(a) + 1 < PageCount  BY <1>1, <1>3, CacheAssumption DEF Pages
  <2>. QED  BY <1>3, <2>1, Neighbours
<1>7. CleanStands'
  <2>1. todo' > 0 => HPage(a + 1) + todo' <= PageCount
    BY <1>1, <1>3, <1>6, CacheAssumption DEF Pages
  <2>. QED  BY <1>1, <2>1 DEF CleanStands, HPage
<1>8. CleanLeavesNothing'
  <2>1. SUFFICES ASSUME NEW h \in HPages, h < a + 1, link'[h] # INVALID,
                        HBlock(h) = HBlock(IF todo' = 0 THEN (a + 1) - 1 ELSE a + 1)
                 PROVE  h \in rewritten
    BY <1>1 DEF CleanLeavesNothing, HBlock
  <2>2. (a + 1) - 1 = a /\ h \in Nat  BY <1>3, CapacityType
  <2>3. HBlock(h) = HBlock(a)  BY <1>1, <1>3, <1>6, <2>1, <2>2
  <2>4. h # a /\ link[h] # INVALID  BY <1>4, <2>1
  <2>. QED  BY <1>3, <1>5, <2>1, <2>2, <2>3, <2>4
<1>9. RangeCovers'
  <2>1. SUFFICES ASSUME NEW h \in HPages, link'[h] # INVALID
                 PROVE  HBlock(h) \in mapped' \/ h \in rewritten
    BY <1>1 DEF RangeCovers, HBlock
  <2>2. h # a /\ link[h] # INVALID /\ h \in Nat  BY <1>4, <2>1, CapacityType
  <2>3. CASE HPage(a) = PageCount - 1 /\ HBlock(h) = HBlock(a)
    <3>1. h <= a  BY <1>3, <2>2, <2>3, Neighbours
    <3>2. h < a  BY <1>3, <2>2, <3>1
    <3>. QED  BY <1>5, <2>2, <2>3, <3>2
  <2>4. CASE ~ (HPage(a) = PageCount - 1 /\ HBlock(h) = HBlock(a))
    BY <1>1, <1>2, <2>2, <2>4 DEF RangeCovers
  <2>. QED  BY <2>3, <2>4
<1>. QED  BY <1>7, <1>8, <1>9 DEF RangeInv

(* A clean that ends at its host block takes it out of the range.          *)
LEMMA FinishRange == CacheInv /\ RangeInv /\ Finish => RangeInv'
PROOF
<1> SUFFICES ASSUME CacheInv, RangeInv, Finish  PROVE RangeInv'
  OBVIOUS
<1>1. /\ phase = "clean" /\ todo = 0 /\ phase' = "idle" /\ UNCHANGED <<link, mapped, rewritten>>
      /\ \/ clean_hadd' = INVALID
         \/ clean_hadd' = clean_hadd /\ ~ (clean_hadd # INVALID /\ HPage(clean_hadd) = 0)
  BY DEF Finish, clean
<1>2. /\ CleanEnds /\ CleanLeavesNothing /\ RangeCovers
  BY DEF CacheInv, RangeInv
<1>3. RangeCovers'  BY <1>1, <1>2 DEF RangeCovers, HBlock
<1>4. CASE clean_hadd' = INVALID  BY <1>1, <1>3, <1>4 DEF RangeInv, CleanStands, CleanLeavesNothing
<1>5. CASE clean_hadd' # INVALID
  <2>1. clean_hadd' = clean_hadd /\ HPage(clean_hadd) # 0 /\ clean_hadd \in Nat
    BY <1>1, <1>2, <1>5 DEF CleanEnds
  <2>2. HBlock(clean_hadd - 1) = HBlock(clean_hadd)  BY <2>1, Neighbours
  <2>3. CleanStands'  BY <1>1, <2>1 DEF CleanStands, HPage
  <2>4. CleanLeavesNothing'
    <3>1. SUFFICES ASSUME NEW h \in HPages, h < clean_hadd, HBlock(h) = HBlock(clean_hadd),
                          link[h] # INVALID
                   PROVE  h \in rewritten
      BY <1>1, <2>1 DEF CleanLeavesNothing, HBlock
    <3>. QED  BY <1>1, <1>2, <1>5, <2>1, <2>2, <3>1 DEF CleanLeavesNothing
  <2>. QED  BY <1>3, <2>3, <2>4 DEF RangeInv
<1>. QED  BY <1>4, <1>5

(* Every step keeps what is said of the range.                             *)
LEMMA StepRange == CacheInv /\ RangeInv /\ [Next]_vars => RangeInv'
PROOF
<1> SUFFICES ASSUME CacheInv, RangeInv, [Next]_vars  PROVE RangeInv'
  OBVIOUS
<1>1. CASE Prepare  BY <1>1, PrepareRange
<1>2. CASE WritePage  BY <1>2, WriteRange
<1>3. CASE PlanClean  BY <1>3, PlanRange
<1>4. CASE CleanPage  BY <1>4, CleanRange
<1>5. CASE Finish  BY <1>5, FinishRange
<1>6. ASSUME UNCHANGED <<link, mapped, clean_hadd, rewritten>>,
             \/ phase # "clean" /\ phase' # "clean"
             \/ UNCHANGED <<phase, todo>>
      PROVE  RangeInv'
  BY <1>6 DEF RangeInv, CleanStands, CleanLeavesNothing, RangeCovers, HPage, HBlock
<1>7. CASE \E h \in HPages, n \in 1 .. MaxPages : SectorWrite(h, n)
  BY <1>6, <1>7 DEF SectorWrite, clean
<1>8. CASE PopSpare  BY <1>6, <1>8 DEF PopSpare, clean
<1>9. CASE CacheFull  BY <1>6, <1>9 DEF CacheFull, clean
<1>10. CASE ProgramFails  BY <1>6, <1>10 DEF ProgramFails, clean
<1>11. CASE UNCHANGED vars  BY <1>6, <1>11 DEF vars, clean
<1>. QED  BY <1>1, <1>2, <1>3, <1>4, <1>5, <1>7, <1>8, <1>9, <1>10, <1>11 DEF Next

(* The inductive invariant of cleaning: where a clean stands, what it has  *)
(* left behind and which host blocks are still to be cleaned.              *)
THEOREM RangeAlwaysInv == Spec => []RangeInv
PROOF
<1>1. Init => CacheInv /\ RangeInv  BY InitInv, InitRange
<1>2. CacheInv /\ RangeInv /\ [Next]_vars => (CacheInv /\ RangeInv)'  BY StepInv, StepRange
<1>. QED  BY <1>1, <1>2, PTL DEF Spec

(* Behind the address being cleaned only pages written again since are in  *)
(* the cache.                                                              *)
THEOREM CleanAlwaysLeavesNothing == Spec => []CleanLeavesNothing
PROOF
<1>1. RangeInv => CleanLeavesNothing  BY DEF RangeInv
<1>. QED  BY <1>1, RangeAlwaysInv, PTL

(* m_write_range misses no host block with data in the cache, except one   *)
(* written again behind its own partial clean.                             *)
THEOREM RangeAlwaysCovers == Spec => []RangeCovers
PROOF
<1>1. RangeInv => RangeCovers  BY DEF RangeInv
<1>. QED  BY <1>1, RangeAlwaysInv, PTL
-----------------------------------------------------------------------------
(* Every set of natural numbers that is not empty has a least element.     *)
LEMMA Least ==
  ASSUME NEW T \in SUBSET Nat, T # {}
  PROVE  \E n \in T : \A m \in T : n <= m
PROOF
<1> DEFINE R == StrictSubsetOrdering(Nat)
           S == FiniteSubsetsOf(Nat)
           U == {0 .. n : n \in T}
<1>1. IsWellFoundedOn(R, S)  BY FS_StrictSubsetOrderingWellFounded
<1>2. U \subseteq S
  <2>1. ASSUME NEW n \in T  PROVE 0 .. n \in S
    BY FS_Interval DEF FiniteSubsetsOf
  <2>. QED  BY <2>1
<1>3. U # {}  OBVIOUS
<1> HIDE DEF R, S, U
<1>4. PICK x \in U : \A y \in U : ~ (<<y, x>> \in R)
  BY <1>1, <1>2, <1>3, WFMin
<1>5. PICK n \in T : x = 0 .. n  BY DEF U
<1>6. ASSUME NEW m \in T, m < n  PROVE FALSE
  <2>1. 0 .. m \in U  BY DEF U
  <2>2. 0 .. m \subseteq 0 .. n /\ 0 .. m # 0 .. n /\ 0 .. n \subseteq Nat
    <3>1. n \in 0 .. n /\ n \notin 0 .. m  BY <1>6
    <3>. QED  BY <1>6, <3>1
  <2>3. <<0 .. m, x>> \in R  BY <1>5, <2>2 DEF R, StrictSubsetOrdering
  <2>. QED  BY <1>4, <2>1, <2>3
<1>. QED  BY <1>6

(* Two sequences of the same length with the same entries are equal.       *)
LEMMA SameEntries ==
  ASSUME NEW S, NEW s \in Seq(S), NEW t \in Seq(S), Len(s) = Len(t),
         \A i \in 1 .. Len(t) : t[i] = s[i]
  PROVE  t = s
  OBVIOUS

(* A list in which b stands once, without b: the entries behind b move up. *)
LEMMA RemovedOnce ==
  ASSUME NEW S, NEW s \in Seq(S), NEW m \in 1 .. Len(s),
         \A i \in 1 .. Len(s) : s[i] = s[m] => i = m
  PROVE  /\ Removed(s, s[m]) \in Seq(S) /\ Len(Removed(s, s[m])) = Len(s) - 1
         /\ \A i \in 1 .. Len(s) - 1 : Removed(s, s[m])[i] = s[IF i < m THEN i ELSE i + 1]
PROOF
<1> DEFINE n == Len(s)
           b == s[m]
           Rec(g) == g = [i \in 0 .. n |-> IF i = 0 THEN <<>>
                                           ELSE IF s[i] = b THEN g[i - 1] ELSE Append(g[i - 1], s[i])]
           W == [i \in 0 .. n |-> [k \in 1 .. (IF i < m THEN i ELSE i - 1)
                                     |-> s[IF k < m THEN k ELSE k + 1]]]
           r == CHOOSE g : Rec(g)
<1>1. n \in Nat /\ m \in 1 .. n /\ \A i \in 1 .. n : s[i] \in S  OBVIOUS
<1>2. \A i \in 0 .. n : W[i] \in Seq(S) /\ Len(W[i]) = IF i < m THEN i ELSE i - 1
  <2>1. SUFFICES ASSUME NEW i \in 0 .. n
                 PROVE  W[i] \in Seq(S) /\ Len(W[i]) = IF i < m THEN i ELSE i - 1
    OBVIOUS
  <2> DEFINE l == IF i < m THEN i ELSE i - 1
  <2>2. l \in Nat  BY <1>1
  <2>3. W[i] \in [1 .. l -> S]  BY <1>1
  <2>. QED  BY <2>2, <2>3
<1>3. ASSUME NEW i \in 1 .. n
      PROVE  W[i] = IF s[i] = b THEN W[i - 1] ELSE Append(W[i - 1], s[i])
  <2>0. i \in 0 .. n /\ i - 1 \in 0 .. n  BY <1>1
  <2>1. CASE i = m
    <3>1. W[i] = W[i - 1]  BY <2>0, <2>1, <1>1
    <3>. QED  BY <2>1, <3>1
  <2>2. CASE i # m
    <3>1. s[i] # b  BY <2>2, <1>1
    <3>2. Len(W[i]) = Len(W[i - 1]) + 1  BY <2>0, <2>2, <1>1, <1>2
    <3>3. \A k \in 1 .. Len(W[i]) : W[i][k] = Append(W[i - 1], s[i])[k]
      BY <2>0, <2>2, <3>2, <1>1, <1>2
    <3>4. W[i] = Append(W[i - 1], s[i])
      <4>1. Append(W[i - 1], s[i]) \in Seq(S) /\ W[i] \in Seq(S)  BY <1>1, <1>2, <2>0
      <4>2. Len(Append(W[i - 1], s[i])) = Len(W[i])  BY <1>1, <1>2, <2>0, <3>2
      <4>. QED  BY <4>1, <4>2, <3>3, SameEntries
    <3>. QED  BY <3>1, <3>4
  <2>. QED  BY <2>1, <2>2
<1>4. Rec(W)
  <2>1. W[0] = <<>>  BY <1>1
  <2>3. DOMAIN W = 0 .. n /\ W = [i \in 0 .. n |-> W[i]]  OBVIOUS
  <2> HIDE DEF W
  <2>2. \A i \in 0 .. n : W[i] = IF i = 0 THEN <<>>
                                 ELSE IF s[i] = b THEN W[i - 1] ELSE Append(W[i - 1], s[i])
    BY <1>1, <1>3, <2>1
  <2>. QED  BY <2>2, <2>3
<1> HIDE DEF W
<1>5. Rec(r)  BY <1>4, Zenon
<1>6. Removed(s, b) = r[n]  BY DEF Removed
<1> HIDE DEF r
<1>7. ASSUME NEW i \in 0 .. n, r[i] # W[i]  PROVE FALSE
  <2> DEFINE T == {j \in 0 .. n : r[j] # W[j]}
  <2>4. T \in SUBSET Nat /\ T # {}  BY <1>1, <1>7
  <2> HIDE DEF T
  <2>1. PICK j \in T : \A k \in T : j <= k  BY <2>4, Least
  <2> USE DEF T
  <2>2. CASE j = 0  BY <1>4, <1>5, <2>1, <2>2, <1>1
  <2>3. CASE j # 0
    <3>1. j - 1 \in 0 .. n /\ j - 1 \notin T  BY <1>1, <2>1, <2>3
    <3>2. r[j - 1] = W[j - 1]  BY <3>1
    <3>3. r[j] = IF s[j] = b THEN r[j - 1] ELSE Append(r[j - 1], s[j])  BY <1>5, <2>1, <2>3
    <3>4. W[j] = IF s[j] = b THEN W[j - 1] ELSE Append(W[j - 1], s[j])  BY <1>4, <2>1, <2>3
    <3>. QED  BY <2>1, <3>2, <3>3, <3>4
  <2>. QED  BY <2>2, <2>3
<1>8. Removed(s, b) = W[n]  BY <1>1, <1>6, <1>7
<1>9. \A k \in 1 .. n - 1 : W[n][k] = s[IF k < m THEN k ELSE k + 1]  BY <1>1 DEF W
<1>10. W[n] \in Seq(S) /\ Len(W[n]) = n - 1
  <2>1. n \in 0 .. n /\ ~ (n < m)  BY <1>1
  <2>. QED  BY <1>2, <2>1
<1>. QED  BY <1>8, <1>9, <1>10
-----------------------------------------------------------------------------
(* Every block is once in one of the two lists, the last of the cache      *)
(* blocks is the one written.                                              *)
InLists(b) == \/ \E i \in 1 .. Len(caches) : caches[i] = b
              \/ \E i \in 1 .. Len(spares) : spares[i] = b
ListsHold ==
  IF prepared
  THEN /\ caches \in Seq(Blocks) /\ caches # <<>> /\ last_cbk = caches[Len(caches)]
       /\ \A i, j \in 1 .. Len(caches) : i # j => caches[i] # caches[j]
       /\ \A i \in 1 .. Len(caches), j \in 1 .. Len(spares) : caches[i] # spares[j]
       /\ \A b \in Blocks : InLists(b)
  ELSE caches = <<>>

(* Every cache block before the last is full and holds a page; the last    *)
(* one holds a page once a command has written, however few blocks there   *)
(* are.                                                                    *)
FullHold ==
  /\ prepared => \A i \in 1 .. Len(caches) - 1 :
       Cached(caches[i]) # {} /\ last_page[caches[i]] = PageCount
  /\ phase = "pop" => Cached(last_cbk) # {} /\ last_page[last_cbk] = PageCount
  /\ phase = "write" /\ todo = 0 /\ Len(caches) = 1 => Cached(last_cbk) # {}

ListInv == ListsHold /\ FullHold

(* InvalidCachePage recycles the block of the page it takes exactly when   *)
(* that was the last valid one, and never the block written.               *)
Recycled(lp, b) ==
  \/ /\ caches' = caches /\ spares' = spares /\ last_page' = lp
     /\ b = last_cbk \/ ValidIn(pages', b) # {}
  \/ /\ b # last_cbk /\ last_page' = [lp EXCEPT ![b] = 0]
     /\ caches' = Removed(caches, b) /\ spares' = Append(spares, b)

LEMMA RecycledWhenEmpty ==
  ASSUME NEW pg, NEW va, NEW lp, Sound(pg, va, lp),
         NEW b \in Blocks, NEW q \in Pages, pg[b][q] # INVALID,
         NEW place, place = <<b, q>>, InvalidCachePage(place, pg, va, lp)
  PROVE  Recycled(lp, b)
PROOF
<1> DEFINE empty == va[b] = 1 /\ b # last_cbk
<1>1. /\ last_page' = IF empty THEN [lp EXCEPT ![b] = 0] ELSE lp
      /\ spares' = IF empty THEN Append(spares, b) ELSE spares
      /\ caches' = IF empty THEN Removed(caches, b) ELSE caches
      /\ valid' = [va EXCEPT ![b] = @ - 1]
  BY DEF InvalidCachePage
<1>2. CASE empty  BY <1>1, <1>2 DEF Recycled
<1>3. CASE ~ empty /\ b # last_cbk
  <2>1. Sound(pages', valid', last_page')  BY Invalidated
  <2>2. va[b] \in Int /\ va[b] # 1 /\ valid'[b] = va[b] - 1  BY <1>1, <1>3 DEF Sound
  <2>3. valid'[b] = Cardinality(ValidIn(pages', b))  BY <2>1 DEF Sound, Counted
  <2>4. ValidIn(pages', b) # {}  BY <2>2, <2>3, FS_EmptySet
  <2>. QED  BY <1>1, <1>3, <2>4 DEF Recycled
<1>4. CASE b = last_cbk  BY <1>1, <1>4 DEF Recycled
<1>. QED  BY <1>2, <1>3, <1>4

(* A step that programs or invalidates keeps the lists.                    *)
LEMMA ListsStep ==
  ASSUME CacheInv, ListInv, prepared, prepared' = prepared, last_cbk' = last_cbk,
         NEW lp \in [Blocks -> 0 .. PageCount], NEW b \in Blocks, lp[b] # 0,
         \A c \in Blocks : c # last_cbk => lp[c] = last_page[c],
         \A c \in Blocks : c # last_cbk /\ c # b => ValidIn(pages', c) = ValidIn(pages, c),
         Recycled(lp, b)
  PROVE  /\ ListsHold'
         /\ \A i \in 1 .. Len(caches') - 1 :
              ValidIn(pages', caches'[i]) # {} /\ last_page'[caches'[i]] = PageCount
         /\ Len(caches') <= Len(caches)
PROOF
<1> DEFINE n == Len(caches)
<1>1. /\ caches \in Seq(Blocks) /\ caches # <<>> /\ last_cbk = caches[n]
      /\ \A i, j \in 1 .. n : i # j => caches[i] # caches[j]
      /\ \A i \in 1 .. n, j \in 1 .. Len(spares) : caches[i] # spares[j]
      /\ \A c \in Blocks : InLists(c)
      /\ \A i \in 1 .. n - 1 : ValidIn(pages, caches[i]) # {} /\ last_page[caches[i]] = PageCount
  BY DEF ListInv, ListsHold, FullHold, Cached, ValidIn
<1>2. n \in Nat /\ n >= 1 /\ (\A i \in 1 .. n : caches[i] \in Blocks)  BY <1>1
<1>3. spares \in Seq(Blocks) /\ Len(spares) \in Nat /\ last_cbk \in Blocks
  BY DEF CacheInv, Types
<1>4. \A i \in 1 .. n - 1 : caches[i] # last_cbk  BY <1>1, <1>2
<1>5. CASE /\ caches' = caches /\ spares' = spares /\ last_page' = lp
           /\ b = last_cbk \/ ValidIn(pages', b) # {}
  <2>1. ListsHold'  BY <1>1, <1>5 DEF ListsHold, InLists
  <2>2. ASSUME NEW i \in 1 .. n - 1
        PROVE  ValidIn(pages', caches[i]) # {} /\ last_page'[caches[i]] = PageCount
    <3>1. caches[i] \in Blocks /\ caches[i] # last_cbk  BY <1>2, <1>4
    <3>2. ValidIn(pages, caches[i]) # {} /\ lp[caches[i]] = PageCount  BY <1>1, <3>1
    <3>. QED  BY <1>5, <3>1, <3>2
  <2>3. ASSUME NEW i \in 1 .. Len(caches') - 1
        PROVE  ValidIn(pages', caches'[i]) # {} /\ last_page'[caches'[i]] = PageCount
    <3>1. i \in 1 .. n - 1 /\ caches'[i] = caches[i]  BY <1>5
    <3>. QED  BY <2>2, <3>1
  <2>4. Len(caches') <= Len(caches)  BY <1>2, <1>5
  <2>. QED  BY <2>1, <2>3, <2>4
<1>6. CASE /\ b # last_cbk /\ last_page' = [lp EXCEPT ![b] = 0]
           /\ caches' = Removed(caches, b) /\ spares' = Append(spares, b)
  <2>1. \A j \in 1 .. Len(spares) : spares[j] # b
    BY <1>6 DEF CacheInv, SparesErased
  <2>2. PICK m \in 1 .. n : caches[m] = b  BY <1>1, <2>1 DEF InLists
  <2>3. m < n  BY <1>1, <1>2, <1>6, <2>2
  <2>4. \A i \in 1 .. n : caches[i] = caches[m] => i = m  BY <1>1
  <2>5. /\ caches' \in Seq(Blocks) /\ Len(caches') = n - 1
        /\ \A i \in 1 .. n - 1 : caches'[i] = caches[IF i < m THEN i ELSE i + 1]
    BY <1>1, <1>6, <2>2, <2>4, RemovedOnce
  <2>6. /\ Len(spares') = Len(spares) + 1 /\ spares'[Len(spares) + 1] = b
        /\ \A j \in 1 .. Len(spares) : spares'[j] = spares[j]
    BY <1>3, <1>6
  <2> DEFINE old(i) == IF i < m THEN i ELSE i + 1
  <2>7. \A i \in 1 .. n - 1 : old(i) \in 1 .. n /\ old(i) # m  BY <1>2
  <2>8. \A i, j \in 1 .. n - 1 : i # j => old(i) # old(j)  BY <1>2
  <2>9. \A i \in 1 .. n - 1 : caches'[i] = caches[old(i)] /\ caches[old(i)] # b
    BY <1>1, <2>2, <2>5, <2>7
  <2>10. old(n - 1) = n /\ n - 1 \in 1 .. n - 1  BY <1>2, <2>3
  <2>11. caches' # <<>> /\ caches'[Len(caches')] = last_cbk
    BY <1>1, <2>5, <2>9, <2>10
  <2> HIDE DEF old
  <2>12. ASSUME NEW i \in 1 .. n - 1, NEW j \in 1 .. n - 1, i # j
         PROVE  caches'[i] # caches'[j]
    <3>1. old(i) \in 1 .. n /\ old(j) \in 1 .. n /\ old(i) # old(j)  BY <2>7, <2>8, <2>12
    <3>2. caches[old(i)] # caches[old(j)]  BY <1>1, <3>1
    <3>. QED  BY <2>9, <3>2
  <2>13. ASSUME NEW i \in 1 .. n - 1, NEW j \in 1 .. Len(spares) + 1
         PROVE  caches'[i] # spares'[j]
    <3>1. CASE j = Len(spares) + 1  BY <2>6, <2>9, <3>1
    <3>2. CASE j \in 1 .. Len(spares)
      <4>1. old(i) \in 1 .. n  BY <2>7
      <4>2. caches[old(i)] # spares[j]  BY <1>1, <3>2, <4>1
      <4>. QED  BY <2>6, <2>9, <3>2, <4>2
    <3>3. j \in 1 .. Len(spares) \/ j = Len(spares) + 1
      <4> DEFINE l == Len(spares)
      <4>1. l \in Nat  BY <1>3
      <4> HIDE DEF l
      <4>2. \A k \in 1 .. l + 1 : k \in 1 .. l \/ k = l + 1  BY <4>1
      <4>. QED  BY <4>2 DEF l
    <3>. QED  BY <3>1, <3>2, <3>3
  <2>14. ASSUME NEW c \in Blocks
         PROVE  \/ \E i \in 1 .. n - 1 : caches'[i] = c
                \/ \E i \in 1 .. Len(spares) + 1 : spares'[i] = c
    <3>1. CASE c = b  BY <1>3, <2>6, <3>1
    <3>2. CASE c # b /\ \E k \in 1 .. n : caches[k] = c
      <4>1. PICK k \in 1 .. n : caches[k] = c  BY <3>2
      <4>2. k # m  BY <2>2, <3>2, <4>1
      <4> DEFINE i == IF k < m THEN k ELSE k - 1
      <4>3. i \in 1 .. n - 1 /\ old(i) = k  BY <1>2, <2>3, <4>2 DEF old
      <4>. QED  BY <2>9, <4>1, <4>3
    <3>3. CASE \E k \in 1 .. Len(spares) : spares[k] = c
      <4>1. PICK k \in 1 .. Len(spares) : spares[k] = c  BY <3>3
      <4>2. k \in 1 .. Len(spares) + 1 /\ spares'[k] = c  BY <1>3, <2>6, <4>1
      <4>. QED  BY <4>2
    <3>. QED  BY <1>1, <3>1, <3>2, <3>3 DEF InLists
  <2>15. ListsHold'
    <3>1. Len(caches') = n - 1 /\ Len(spares') = Len(spares) + 1  BY <2>5, <2>6
    <3>2. caches' \in Seq(Blocks) /\ caches' # <<>> /\ last_cbk' = caches'[Len(caches')]
      BY <2>5, <2>11
    <3>3. \A i, j \in 1 .. Len(caches') : i # j => caches'[i] # caches'[j]  BY <2>12, <3>1
    <3>4. \A i \in 1 .. Len(caches'), j \in 1 .. Len(spares') : caches'[i] # spares'[j]
      BY <2>13, <3>1
    <3>5. \A c \in Blocks : InLists(c)'  BY <2>14, <3>1 DEF InLists
    <3>. QED  BY <3>2, <3>3, <3>4, <3>5 DEF ListsHold
  <2>16. ASSUME NEW i \in 1 .. Len(caches') - 1
         PROVE  ValidIn(pages', caches'[i]) # {} /\ last_page'[caches'[i]] = PageCount
    <3>1. i \in 1 .. n - 1 /\ old(i) \in 1 .. n - 1  BY <1>2, <2>3, <2>5 DEF old
    <3>2. /\ caches'[i] = caches[old(i)] /\ caches'[i] # b /\ caches'[i] \in Blocks
          /\ caches'[i] # last_cbk
      BY <1>2, <1>4, <2>9, <3>1
    <3>3. lp[caches'[i]] = PageCount /\ ValidIn(pages, caches'[i]) # {}  BY <1>1, <3>1, <3>2
    <3>. QED  BY <1>6, <3>2, <3>3
  <2>17. Len(caches') <= Len(caches)  BY <1>2, <2>5
  <2>. QED  BY <2>15, <2>16, <2>17
<1>. QED  BY <1>5, <1>6 DEF Recycled

(* Programming a page keeps the lists and leaves a page in the last block. *)
LEMMA ProgramLists ==
  ASSUME CacheInv, ListInv, prepared, prepared' = prepared, last_cbk' = last_cbk,
         ProgramAndInvalidate, hadd \in HPages
  PROVE  /\ ListsHold'
         /\ \A i \in 1 .. Len(caches') - 1 :
              ValidIn(pages', caches'[i]) # {} /\ last_page'[caches'[i]] = PageCount
         /\ ValidIn(pages', last_cbk) # {}
PROOF
<1> DEFINE l == last_cbk
           q == last_page[l]
<1>1. /\ Sound(pages, valid, last_page) /\ l \in Blocks
      /\ link \in [HPages -> (Blocks \X Pages) \cup {INVALID}] /\ LinkMatchesPages
  BY CountedIsValidCounts DEF CacheInv, Types, Sound
<1>2. q < PageCount  BY DEF ProgramAndInvalidate
<1>3. PICK pg, va, lp :
        /\ Programmed(pages, valid, last_page, l, hadd, pg, va, lp)
        /\ link[hadd] = INVALID =>
             pages' = pg /\ last_page' = lp /\ spares' = spares /\ caches' = caches
        /\ link[hadd] # INVALID => InvalidCachePage(link[hadd], pg, va, lp)
  <2> DEFINE pg == [pages EXCEPT ![l][q] = hadd]
             va == [valid EXCEPT ![l] = @ + 1]
             lp == [last_page EXCEPT ![l] = @ + 1]
  <2> WITNESS pg, va, lp
  <2>. QED  BY DEF ProgramAndInvalidate, Programmed
<1>4. /\ Sound(pg, va, lp) /\ q \in Pages /\ pages[l][q] = INVALID
      /\ \A c \in Blocks, p \in Pages :
           pg[c][p] = IF c = l /\ p = q THEN hadd ELSE pages[c][p]
  BY <1>1, <1>2, <1>3, ProgrammedSound
<1>5. /\ \A c \in Blocks : lp[c] = IF c = l THEN q + 1 ELSE last_page[c]
      /\ lp \in [Blocks -> 0 .. PageCount] /\ q \in Nat
  BY <1>1, <1>3, <1>4 DEF Programmed, Sound, Pages
<1>6. hadd # INVALID  BY CacheAssumption DEF HPages
<1>7. \A c \in Blocks : c # l => ValidIn(pg, c) = ValidIn(pages, c)
  BY <1>4 DEF ValidIn
<1>8. CASE link[hadd] = INVALID
  <2>1. Recycled(lp, l)  BY <1>3, <1>8 DEF Recycled
  <2>2. lp[l] # 0  BY <1>1, <1>5
  <2>3. q \in ValidIn(pages', l)  BY <1>1, <1>3, <1>4, <1>6, <1>8 DEF ValidIn
  <2>4. \A c \in Blocks : c # last_cbk /\ c # l => ValidIn(pages', c) = ValidIn(pages, c)
    BY <1>3, <1>7, <1>8
  <2>. QED  BY <1>1, <1>5, <2>1, <2>2, <2>3, <2>4, ListsStep
<1>9. CASE link[hadd] # INVALID
  <2>1. PICK b \in Blocks, r \in Pages : link[hadd] = <<b, r>>  BY <1>1, <1>9
  <2>2. pages[b][r] = hadd  BY <1>1, <2>1 DEF LinkMatchesPages
  <2>3. ~ (b = l /\ r = q) /\ pg[b][r] # INVALID  BY <1>4, <1>6, <2>2
  <2>4. InvalidCachePage(link[hadd], pg, va, lp)  BY <1>3, <1>9
  <2>5. Recycled(lp, b) /\ Taken(pg, lp, b, r) /\ Sound(pages', valid', last_page')
    BY <1>4, <2>1, <2>3, <2>4, Invalidated, RecycledWhenEmpty
  <2>6. lp[b] # 0
    <3>1. r \in ValidIn(pg, b)  BY <2>3 DEF ValidIn
    <3>. QED  BY <1>4, <3>1 DEF Sound, Counted, Pages
  <2>7. \A c \in Blocks : c # l /\ c # b => ValidIn(pages', c) = ValidIn(pages, c)
    <3>1. \A c \in Blocks : c # b => ValidIn(pages', c) = ValidIn(pg, c)
      BY <2>5 DEF Taken, ValidIn
    <3>. QED  BY <1>7, <3>1
  <2>8. q \in ValidIn(pages', l)  BY <1>1, <1>4, <1>6, <2>3, <2>5 DEF Taken, ValidIn
  <2>. QED  BY <1>1, <1>5, <2>5, <2>6, <2>7, <2>8, ListsStep
<1>. QED  BY <1>8, <1>9

(* Cached is ValidIn of the variables, in this state and the next.         *)
LEMMA CachedIsValidIn ==
  \A b : Cached(b) = ValidIn(pages, b) /\ Cached(b)' = ValidIn(pages', b)
  BY DEF Cached, ValidIn

(* Writing a page keeps the lists, and a full block holds what was written.*)
LEMMA WriteLists == CacheInv /\ ListInv /\ WritePage => ListInv'
PROOF
<1> SUFFICES ASSUME CacheInv, ListInv, WritePage  PROVE ListInv'
  OBVIOUS
<1>1. /\ phase = "write" /\ todo > 0 /\ ProgramAndInvalidate
      /\ phase' = IF last_page'[last_cbk] >= PageCount THEN "pop" ELSE "write"
      /\ last_cbk' = last_cbk /\ prepared' = prepared
  BY DEF WritePage, session
<1>2. prepared /\ hadd \in HPages
  BY <1>1, CapacityType DEF CacheInv, Types, CleanEnds
<1>3. /\ ListsHold' /\ ValidIn(pages', last_cbk) # {}
      /\ \A i \in 1 .. Len(caches') - 1 :
           ValidIn(pages', caches'[i]) # {} /\ last_page'[caches'[i]] = PageCount
  BY <1>1, <1>2, ProgramLists
<1>4. last_page'[last_cbk] \in 0 .. PageCount
  <2>1. Sound(pages', valid', last_page') /\ last_cbk \in Blocks
    BY <1>1, <1>2, ProgramStep DEF CacheInv, Types
  <2>. QED  BY <2>1 DEF Sound
<1>5. phase' = "pop" => last_page'[last_cbk] = PageCount  BY <1>1, <1>4, CacheAssumption
<1>6. FullHold'  BY <1>1, <1>3, <1>5, CachedIsValidIn DEF FullHold
<1>. QED  BY <1>3, <1>6 DEF ListInv

(* Cleaning a page keeps the lists.                                        *)
LEMMA CleanLists == CacheInv /\ ListInv /\ CleanPage => ListInv'
PROOF
<1> SUFFICES ASSUME CacheInv, ListInv, CleanPage  PROVE ListInv'
  OBVIOUS
<1> DEFINE a == clean_hadd
<1>1. /\ phase = "clean" /\ todo > 0 /\ UNCHANGED <<last_cbk, prepared, phase>>
      /\ link[a] = INVALID => UNCHANGED <<pages, valid, last_page, caches, spares>>
      /\ link[a] # INVALID => InvalidCachePage(link[a], pages, valid, last_page)
  BY DEF CleanPage, flash, session
<1>2. prepared /\ a \in HPages
  BY <1>1, CapacityType DEF CacheInv, Types, CleanEnds
<1>3. /\ Sound(pages, valid, last_page)
      /\ link \in [HPages -> (Blocks \X Pages) \cup {INVALID}] /\ LinkMatchesPages
  BY CountedIsValidCounts DEF CacheInv, Types, Sound
<1>4. CASE link[a] = INVALID
  BY <1>1, <1>4, CachedIsValidIn DEF ListInv, ListsHold, FullHold, InLists
<1>5. CASE link[a] # INVALID
  <2>1. PICK b \in Blocks, r \in Pages : link[a] = <<b, r>>  BY <1>2, <1>3, <1>5
  <2>2. pages[b][r] # INVALID
    <3>1. pages[b][r] = a  BY <1>2, <1>3, <2>1 DEF LinkMatchesPages
    <3>. QED  BY <1>2, <3>1, CacheAssumption DEF HPages
  <2>3. InvalidCachePage(link[a], pages, valid, last_page)  BY <1>1, <1>5
  <2>4. Recycled(last_page, b) /\ Taken(pages, last_page, b, r)
    BY <1>3, <2>1, <2>2, <2>3, Invalidated, RecycledWhenEmpty
  <2>5. last_page[b] # 0 /\ last_page \in [Blocks -> 0 .. PageCount]
    <3>1. r \in ValidIn(pages, b)  BY <2>2 DEF ValidIn
    <3>. QED  BY <1>3, <3>1 DEF Sound, Counted, Pages
  <2>6. \A c \in Blocks : c # b => ValidIn(pages', c) = ValidIn(pages, c)
    BY <2>4 DEF Taken, ValidIn
  <2>7. /\ ListsHold'
        /\ \A i \in 1 .. Len(caches') - 1 :
             ValidIn(pages', caches'[i]) # {} /\ last_page'[caches'[i]] = PageCount
    BY <1>1, <1>2, <2>4, <2>5, <2>6, ListsStep
  <2>8. FullHold'  BY <1>1, <2>7, CachedIsValidIn DEF FullHold
  <2>. QED  BY <2>7, <2>8 DEF ListInv
<1>. QED  BY <1>4, <1>5

(* The first Prepare makes every block but the first a spare block.        *)
LEMMA PrepareLists == ~ Reprepare /\ CacheInv /\ ListInv /\ Prepare => ListInv'
PROOF
<1> SUFFICES ASSUME ~ Reprepare, CacheInv, ListInv, Prepare  PROVE ListInv'
  OBVIOUS
<1> USE CacheAssumption
<1>1. /\ ~ prepared /\ phase = "idle" /\ phase' = phase /\ prepared' = TRUE
  BY DEF Prepare
<1>2. PICK order \in SetToSeqs(Blocks) :
         /\ last_cbk' = Head(order) /\ spares' = Tail(order)
         /\ caches' = Append(caches, Head(order))
  BY DEF Prepare
<1> DEFINE n == Cardinality(Blocks)
<1>3. n \in Nat /\ n >= 1  BY FS_CardinalityType, FS_EmptySet
<1>4. /\ order \in [1 .. n -> Blocks]
      /\ \A i, j \in 1 .. n : i # j => order[i] # order[j]
  BY DEF SetToSeqs
<1>5. order \in Seq(Blocks) /\ Len(order) = n  BY <1>3, <1>4
<1>6. /\ Head(order) = order[1] /\ order[1] \in Blocks
      /\ spares' \in Seq(Blocks) /\ Len(spares') = n - 1
      /\ \A i \in 1 .. n - 1 : spares'[i] = order[i + 1]
  BY <1>2, <1>3, <1>4, <1>5
<1>7. caches = <<>>  BY <1>1 DEF ListInv, ListsHold
<1>8. caches' = <<order[1]>> /\ Len(caches') = 1 /\ caches'[1] = order[1]  BY <1>2, <1>6, <1>7
<1>9. \A b \in Blocks : \E i \in 1 .. n : order[i] = b
  <2>1. order \in Injection(1 .. n, Blocks)  BY <1>4 DEF Injection, IsInjective
  <2>2. Cardinality(1 .. n) = Cardinality(Blocks)  BY <1>3, FS_Interval
  <2>3. order \in Surjection(1 .. n, Blocks)  BY <2>1, <2>2, FS_Injection
  <2>. QED  BY <2>3 DEF Surjection
<1>10. ListsHold'
  <2>1. \A i \in 1 .. Len(caches'), j \in 1 .. Len(spares') : caches'[i] # spares'[j]
    <3>1. SUFFICES ASSUME NEW j \in 1 .. n - 1  PROVE order[1] # order[j + 1]
      BY <1>6, <1>8
    <3>2. 1 \in 1 .. n /\ j + 1 \in 1 .. n /\ 1 # j + 1  BY <1>3
    <3>. QED  BY <1>4, <3>2
  <2>2. ASSUME NEW b \in Blocks  PROVE InLists(b)'
    <3>1. PICK i \in 1 .. n : order[i] = b  BY <1>9
    <3>2. CASE i = 1
      <4>1. 1 \in 1 .. Len(caches') /\ caches'[1] = b  BY <1>8, <3>1, <3>2
      <4>. QED  BY <4>1 DEF InLists
    <3>3. CASE i # 1
      <4>1. i - 1 \in 1 .. n - 1 /\ spares'[i - 1] = b  BY <1>3, <1>6, <3>1, <3>3
      <4>. QED  BY <1>6, <4>1 DEF InLists
    <3>. QED  BY <3>2, <3>3
  <2>3. caches' \in Seq(Blocks) /\ caches' # <<>> /\ last_cbk' = caches'[Len(caches')]
    <3>1. last_cbk' = order[1] /\ order[1] \in Blocks  BY <1>2, <1>6
    <3>2. <<order[1]>> \in Seq(Blocks) /\ <<order[1]>> # <<>>  BY <3>1
    <3>. QED  BY <1>8, <3>1, <3>2
  <2>4. \A i, j \in 1 .. Len(caches') : i # j => caches'[i] # caches'[j]  BY <1>8
  <2>5. \A b \in Blocks : InLists(b)'  BY <2>2
  <2>. QED  BY <1>1, <2>1, <2>3, <2>4, <2>5 DEF ListsHold
<1>11. FullHold'  BY <1>1, <1>8 DEF FullHold
<1>. QED  BY <1>10, <1>11 DEF ListInv

(* A spare block behind a full one.                                        *)
LEMMA PopLists == CacheInv /\ ListInv /\ PopSpare => ListInv'
PROOF
<1> SUFFICES ASSUME CacheInv, ListInv, PopSpare  PROVE ListInv'
  OBVIOUS
<1> DEFINE n == Len(caches)
           m == Len(spares)
<1>1. /\ phase = "pop" /\ phase' = "write" /\ spares # <<>>
      /\ last_cbk' = Head(spares) /\ spares' = Tail(spares) /\ caches' = Append(caches, Head(spares))
      /\ UNCHANGED <<pages, last_page, prepared>>
  BY DEF PopSpare, flash, session
<1>2. prepared /\ SparesErased /\ spares \in Seq(Blocks)  BY <1>1 DEF CacheInv, Types
<1>3. /\ caches \in Seq(Blocks) /\ last_cbk = caches[n] /\ caches # <<>>
      /\ \A i, j \in 1 .. n : i # j => caches[i] # caches[j]
      /\ \A i \in 1 .. n, j \in 1 .. m : caches[i] # spares[j]
      /\ \A c \in Blocks : InLists(c)
      /\ \A i \in 1 .. n - 1 : ValidIn(pages, caches[i]) # {} /\ last_page[caches[i]] = PageCount
      /\ ValidIn(pages, last_cbk) # {} /\ last_page[last_cbk] = PageCount
  BY <1>1, <1>2, CachedIsValidIn DEF ListInv, ListsHold, FullHold
<1>4. n \in Nat /\ n >= 1 /\ m \in Nat /\ m >= 1  BY <1>1, <1>2, <1>3
<1>5. /\ spares' \in Seq(Blocks) /\ Len(spares') = m - 1 /\ spares[1] \in Blocks
      /\ \A i \in 1 .. m - 1 : spares'[i] = spares[i + 1]
      /\ last_cbk' = spares[1]
  BY <1>1, <1>2, <1>4
<1>6. /\ caches' \in Seq(Blocks) /\ Len(caches') = n + 1 /\ caches'[n + 1] = spares[1]
      /\ \A i \in 1 .. n : caches'[i] = caches[i]
  BY <1>1, <1>3, <1>5
<1> HIDE DEF n, m
<1>7. \A j \in 1 .. m : j # 1 => spares[j] # spares[1]
  BY <1>2, <1>4 DEF SparesErased, m
<1>8. ListsHold'
  <2>1. ASSUME NEW i \in 1 .. n + 1, NEW j \in 1 .. n + 1, i # j
        PROVE  caches'[i] # caches'[j]
    <3>1. i \in 1 .. n \/ i = n + 1  BY <1>4
    <3>2. j \in 1 .. n \/ j = n + 1  BY <1>4
    <3>3. 1 \in 1 .. m  BY <1>4
    <3>. QED  BY <1>3, <1>6, <2>1, <3>1, <3>2, <3>3
  <2>2. ASSUME NEW i \in 1 .. n + 1, NEW j \in 1 .. m - 1
        PROVE  caches'[i] # spares'[j]
    <3>1. i \in 1 .. n \/ i = n + 1  BY <1>4
    <3>2. j + 1 \in 1 .. m /\ j + 1 # 1  BY <1>4
    <3>. QED  BY <1>3, <1>5, <1>6, <1>7, <3>1, <3>2
  <2>3. ASSUME NEW b \in Blocks  PROVE InLists(b)'
    <3>1. CASE \E i \in 1 .. n : caches[i] = b
      <4>1. PICK i \in 1 .. n : caches[i] = b  BY <3>1
      <4>2. i \in 1 .. Len(caches') /\ caches'[i] = b  BY <1>4, <1>6, <4>1
      <4>. QED  BY <4>2 DEF InLists
    <3>2. CASE \E j \in 1 .. m : spares[j] = b
      <4>1. PICK j \in 1 .. m : spares[j] = b  BY <3>2
      <4>2. CASE j = 1
        <5>1. n + 1 \in 1 .. Len(caches') /\ caches'[n + 1] = b  BY <1>4, <1>6, <4>1, <4>2
        <5>. QED  BY <5>1 DEF InLists
      <4>3. CASE j # 1
        <5>1. j - 1 \in 1 .. Len(spares') /\ spares'[j - 1] = b  BY <1>4, <1>5, <4>1, <4>3
        <5>. QED  BY <5>1 DEF InLists
      <4>. QED  BY <4>2, <4>3
    <3>. QED  BY <1>3, <3>1, <3>2 DEF InLists, n, m
  <2>4. caches' \in Seq(Blocks) /\ caches' # <<>> /\ last_cbk' = caches'[Len(caches')]
    BY <1>4, <1>5, <1>6
  <2>5. \A i, j \in 1 .. Len(caches') : i # j => caches'[i] # caches'[j]  BY <1>6, <2>1
  <2>6. \A i \in 1 .. Len(caches'), j \in 1 .. Len(spares') : caches'[i] # spares'[j]
    BY <1>5, <1>6, <2>2
  <2>7. \A b \in Blocks : InLists(b)'  BY <2>3
  <2>8. prepared'  BY <1>1, <1>2
  <2>. QED  BY <2>4, <2>5, <2>6, <2>7, <2>8 DEF ListsHold
<1>9. FullHold'
  <2>1. ASSUME NEW i \in 1 .. n
        PROVE  ValidIn(pages', caches'[i]) # {} /\ last_page'[caches'[i]] = PageCount
    <3>1. i \in 1 .. n - 1 \/ i = n  BY <1>4
    <3>2. caches'[i] = caches[i] /\ pages' = pages /\ last_page' = last_page  BY <1>1, <1>6
    <3>3. CASE i = n  BY <1>3, <3>2, <3>3
    <3>4. CASE i \in 1 .. n - 1  BY <1>3, <3>2, <3>4
    <3>. QED  BY <3>1, <3>3, <3>4
  <2>2. Len(caches') - 1 = n /\ Len(caches') # 1  BY <1>4, <1>6
  <2>. QED  BY <1>1, <2>1, <2>2, CachedIsValidIn DEF FullHold
<1>. QED  BY <1>8, <1>9 DEF ListInv

(* Every step of a simulator that is prepared once keeps the lists.        *)
LEMMA StepLists == ~ Reprepare /\ CacheInv /\ ListInv /\ [Next]_vars => ListInv'
PROOF
<1> SUFFICES ASSUME ~ Reprepare, CacheInv, ListInv, [Next]_vars  PROVE ListInv'
  OBVIOUS
<1>1. CASE Prepare  BY <1>1, PrepareLists
<1>2. CASE WritePage  BY <1>2, WriteLists
<1>3. CASE PopSpare  BY <1>3, PopLists
<1>4. CASE CleanPage  BY <1>4, CleanLists
<1>5. ASSUME UNCHANGED <<pages, last_page, caches, spares, last_cbk, prepared>>,
             phase' # "pop",
             phase' = "write" /\ todo' = 0 => phase = "write" /\ todo = 0
      PROVE  ListInv'
  BY <1>5, CachedIsValidIn DEF ListInv, ListsHold, FullHold, InLists
<1>6. CASE \E h \in HPages, n \in 1 .. MaxPages : SectorWrite(h, n)
  BY <1>5, <1>6, CacheAssumption DEF SectorWrite, flash, lists, session
<1>7. CASE CacheFull  BY <1>5, <1>7 DEF CacheFull, flash, lists
<1>8. CASE PlanClean  BY <1>5, <1>8 DEF PlanClean, flash, lists, session
<1>9. CASE Finish  BY <1>5, <1>9 DEF Finish, flash, lists, session
<1>11. CASE ProgramFails  BY <1>5, <1>11 DEF ProgramFails, flash, lists, session
<1>10. CASE UNCHANGED vars
  <2>1. UNCHANGED <<pages, last_page, caches, spares, last_cbk, prepared, phase, todo>>
    BY <1>10 DEF vars, flash, lists, session
  <2>. QED  BY <2>1, CachedIsValidIn DEF ListInv, ListsHold, FullHold, InLists
<1>. QED  BY <1>1, <1>2, <1>3, <1>4, <1>6, <1>7, <1>8, <1>9, <1>10, <1>11 DEF Next

(* The inductive invariant of the two lists of blocks.                     *)
THEOREM ListsAlwaysInv ==
  ASSUME ~ Reprepare
  PROVE  Spec => []ListInv
PROOF
<1>1. Init => ListInv  BY DEF Init, ListInv, ListsHold, FullHold
<1>2. Init => CacheInv /\ ListInv  BY <1>1, InitInv
<1>3. CacheInv /\ ListInv /\ [Next]_vars => (CacheInv /\ ListInv)'
  BY StepInv, StepLists
<1>. QED  BY <1>2, <1>3, PTL DEF Spec

(* The lists together number the blocks.                                   *)
LEMMA ListsCount ==
  ASSUME CacheInv, ListInv, prepared
  PROVE  Len(caches) + Len(spares) = Cardinality(Blocks)
PROOF
<1> DEFINE n == Len(caches)
           m == Len(spares)
           f == [i \in 1 .. n + m |-> IF i <= n THEN caches[i] ELSE spares[i - n]]
<1>1. /\ caches \in Seq(Blocks) /\ spares \in Seq(Blocks)
      /\ \A i, j \in 1 .. n : i # j => caches[i] # caches[j]
      /\ \A i, j \in 1 .. m : i # j => spares[i] # spares[j]
      /\ \A i \in 1 .. n, j \in 1 .. m : caches[i] # spares[j]
      /\ \A c \in Blocks : InLists(c)
  BY DEF CacheInv, Types, SparesErased, ListInv, ListsHold
<1>2. n \in Nat /\ m \in Nat  BY <1>1
<1>3. /\ \A i \in 1 .. n : i \in 1 .. n + m /\ f[i] = caches[i]
      /\ \A i \in 1 .. m : i + n \in 1 .. n + m /\ f[i + n] = spares[i]
      /\ \A i \in 1 .. n + m : i \in 1 .. n \/ i - n \in 1 .. m
      /\ \A i \in 1 .. n + m : i - n \in 1 .. m => i = (i - n) + n
  BY <1>2
<1>4. f \in [1 .. n + m -> Blocks]
  <2>1. ASSUME NEW i \in 1 .. n + m  PROVE f[i] \in Blocks
    <3>1. CASE i \in 1 .. n  BY <1>1, <1>3, <3>1
    <3>2. CASE i - n \in 1 .. m
      <4>1. f[i] = spares[i - n]  BY <1>2, <3>2
      <4>. QED  BY <1>1, <3>2, <4>1
    <3>. QED  BY <1>3, <3>1, <3>2
  <2>. QED  BY <2>1
<1>5. \A i, j \in 1 .. n + m : f[i] = f[j] => i = j
  <2>1. SUFFICES ASSUME NEW i \in 1 .. n + m, NEW j \in 1 .. n + m, f[i] = f[j]  PROVE i = j
    OBVIOUS
  <2>2. ASSUME NEW k \in 1 .. n + m
        PROVE  \/ k \in 1 .. n /\ f[k] = caches[k]
               \/ k - n \in 1 .. m /\ f[k] = spares[k - n]
    BY <1>2
  <2>3. i - n = j - n => i = j  BY <1>2
  <2>4. \/ i \in 1 .. n /\ f[i] = caches[i]
        \/ i - n \in 1 .. m /\ f[i] = spares[i - n]
    BY <2>2
  <2>5. \/ j \in 1 .. n /\ f[j] = caches[j]
        \/ j - n \in 1 .. m /\ f[j] = spares[j - n]
    BY <2>2
  <2> HIDE DEF f
  <2>6. CASE i \in 1 .. n /\ j \in 1 .. n /\ f[i] = caches[i] /\ f[j] = caches[j]
    BY <1>1, <2>1, <2>6
  <2>7. CASE i - n \in 1 .. m /\ j - n \in 1 .. m /\ f[i] = spares[i - n] /\ f[j] = spares[j - n]
    <3>1. i - n = j - n  BY <1>1, <2>1, <2>7
    <3>. QED  BY <2>3, <3>1
  <2>8. CASE i \in 1 .. n /\ j - n \in 1 .. m /\ f[i] = caches[i] /\ f[j] = spares[j - n]
    BY <1>1, <2>1, <2>8
  <2>9. CASE i - n \in 1 .. m /\ j \in 1 .. n /\ f[i] = spares[i - n] /\ f[j] = caches[j]
    BY <1>1, <2>1, <2>9
  <2>. QED  BY <2>4, <2>5, <2>6, <2>7, <2>8, <2>9
<1> HIDE DEF f
<1>6. ASSUME NEW c \in Blocks  PROVE \E i \in 1 .. n + m : f[i] = c
  <2>1. CASE \E i \in 1 .. n : caches[i] = c  BY <1>3, <2>1
  <2>2. CASE \E i \in 1 .. m : spares[i] = c  BY <1>3, <2>2
  <2>. QED  BY <1>1, <2>1, <2>2 DEF InLists
<1>7. f \in Bijection(1 .. n + m, Blocks)
  BY <1>4, <1>5, <1>6 DEF Bijection, Injection, Surjection, IsInjective
<1>8. ExistsBijection(1 .. n + m, Blocks)  BY <1>7 DEF ExistsBijection
<1>9. IsFiniteSet(1 .. n + m) /\ Cardinality(1 .. n + m) = n + m
  <2>1. n + m \in Int /\ n + m >= 0  BY <1>2
  <2>. QED  BY <2>1, FS_Interval
<1>. QED  BY <1>8, <1>9, FS_Bijection

(* Every block is a spare block, and erased, or once in the list of cache  *)
(* blocks, whose end is m_last_cbk, when the simulator is prepared once.   *)
THEOREM ListsAlwaysPartition ==
  ASSUME ~ Reprepare
  PROVE  Spec => []ListsPartition
PROOF
<1>1. CacheInv /\ ListInv => ListsPartition
  <2>1. SUFFICES ASSUME CacheInv, ListInv, prepared
                 PROVE  /\ ToSet(caches) \cup ToSet(spares) = Blocks
                        /\ Len(caches) + Len(spares) = Cardinality(Blocks)
                        /\ caches # <<>> /\ last_cbk = Last(caches)
                        /\ \A b \in ToSet(spares) : last_page[b] = 0
    BY DEF ListsPartition
  <2>2. /\ caches \in Seq(Blocks) /\ spares \in Seq(Blocks)
        /\ \A b \in Blocks : InLists(b)
        /\ caches # <<>> /\ last_cbk = caches[Len(caches)]
    BY <2>1 DEF CacheInv, Types, ListInv, ListsHold
  <2>3. ToSet(caches) \cup ToSet(spares) = Blocks  BY <2>2 DEF ToSet, InLists
  <2>4. \A b \in ToSet(spares) : last_page[b] = 0  BY <2>1, <2>2 DEF ToSet, CacheInv, SparesErased
  <2>. QED  BY <2>1, <2>2, <2>3, <2>4, ListsCount DEF Last
<1>. QED  BY <1>1, CacheAlwaysInv, ListsAlwaysInv, PTL

(* JCASSERT(INVALID_HPAGE != hadd) in FindHblockToClean never fails when   *)
(* the simulator is prepared once: every full cache block holds a page.    *)
THEOREM CleanAlwaysFindsPage ==
  ASSUME ~ Reprepare
  PROVE  Spec => []CleanFindsPage
PROOF
<1>1. CacheInv /\ ListInv => CleanFindsPage
  <2>1. SUFFICES ASSUME CacheInv, ListInv  PROVE CleanFindsPage
    OBVIOUS
  <2>2. ASSUME phase = "write", todo = 0  PROVE Cached(Head(caches)) # {}
    <3>1. prepared  BY <2>1, <2>2 DEF CacheInv, Types
    <3>2. /\ caches \in Seq(Blocks) /\ caches # <<>> /\ last_cbk = caches[Len(caches)]
      BY <2>1, <3>1 DEF ListInv, ListsHold
    <3>3. Len(caches) \in Nat /\ Len(caches) >= 1 /\ Head(caches) = caches[1]  BY <3>2
    <3>4. CASE Len(caches) = 1  BY <2>1, <2>2, <3>2, <3>3, <3>4 DEF ListInv, FullHold
    <3>5. CASE Len(caches) # 1
      <4>1. 1 \in 1 .. Len(caches) - 1  BY <3>3, <3>5
      <4>. QED  BY <2>1, <3>1, <3>3, <4>1 DEF ListInv, FullHold
    <3>. QED  BY <3>4, <3>5
  <2>. QED  BY <2>1, <2>2 DEF CleanFindsPage, ListInv, FullHold
<1>. QED  BY <1>1, CacheAlwaysInv, ListsAlwaysInv, PTL
=============================================================================
