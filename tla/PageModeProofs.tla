--------------------------- MODULE PageModeProofs ---------------------------
(***************************************************************************)
(* Theorems about PageMode, for every geometry of the flash and every      *)
(* number of starts, about the states up to the second start or the first  *)
(* access outside of the arrays the process survives: every sector the     *)
(* tables cover reads as last written, spare blocks are free, tables and   *)
(* data blocks are described in the flash.                                 *)
(***************************************************************************)
EXTENDS PageMode, FiniteSetTheorems, WellFoundedInduction, TLAPS

-----------------------------------------------------------------------------
(* Every set of natural numbers that is not empty has a least element.     *)
LEMMA Least ==
  ASSUME NEW T \in SUBSET Nat, T # {}
  PROVE  \E n \in T : \A m \in T : n <= m
PROOF
<1> DEFINE R == StrictSubsetOrdering(Nat)
           S == FiniteSubsetsOf(Nat)
           U == {0 .. n : n \in T}
<1>1. IsWellFoundedOn(R, S)  BY FS_StrictSubsetOrderingWellFounded
<1>2. U \subseteq S
  <2>1. ASSUME NEW n \in T  PROVE 0 .. n \in S
    BY FS_Interval DEF FiniteSubsetsOf
  <2>. QED  BY <2>1
<1>3. U # {}  OBVIOUS
<1> HIDE DEF R, S, U
<1>4. PICK x \in U : \A y \in U : ~ (<<y, x>> \in R)
  BY <1>1, <1>2, <1>3, WFMin
<1>5. PICK n \in T : x = 0 .. n  BY DEF U
<1>6. ASSUME NEW m \in T, m < n  PROVE FALSE
  <2>1. 0 .. m \in U  BY DEF U
  <2>2. 0 .. m \subseteq 0 .. n /\ 0 .. m # 0 .. n /\ 0 .. n \subseteq Nat
    <3>1. n \in 0 .. n /\ n \notin 0 .. m  BY <1>6
    <3>. QED  BY <1>6, <3>1
  <2>3. <<0 .. m, x>> \in R  BY <1>5, <2>2 DEF R, StrictSubsetOrdering
  <2>. QED  BY <1>4, <2>1, <2>3
<1>. QED  BY <1>6

(* A set that has 0, and i whenever it has i - 1, has all numbers up to n. *)
LEMMA Counting ==
  ASSUME NEW n \in Nat, NEW T, 0 \in T, \A i \in 1 .. n : i - 1 \in T => i \in T
  PROVE  \A i \in 0 .. n : i \in T
PROOF
<1>1. SUFFICES ASSUME NEW k \in 0 .. n, k \notin T  PROVE FALSE
  OBVIOUS
<1> DEFINE Missing == {i \in 0 .. n : i \notin T}
<1>2. Missing \in SUBSET Nat /\ Missing # {}  BY <1>1
<1> HIDE DEF Missing
<1>3. PICK m \in Missing : \A i \in Missing : m <= i  BY <1>2, Least
<1>4. m \in 1 .. n /\ m \notin T  BY <1>3 DEF Missing
<1>5. m - 1 \in 0 .. n /\ m - 1 \notin Missing  BY <1>3, <1>4
<1>. QED  BY <1>4, <1>5 DEF Missing

-----------------------------------------------------------------------------
(* The loops.  Each runs through the states its turns lead to.             *)
LEMMA LinkLoop ==
  ASSUME NEW d, NEW n \in Nat, n = LinkPages
  PROVE  \E f : /\ f[0] = d /\ \A i \in 1 .. n : f[i] = SaveLinkPage(f[i - 1], i)
                /\ SaveLinkPages(d) = f[n]
PROOF
<1> DEFINE Runs(f, k) == f = [i \in 0 .. k |-> IF i = 0 THEN d ELSE SaveLinkPage(f[i - 1], i)]
           T == {k \in 0 .. n : \E f : Runs(f, k)}
           r == CHOOSE f : Runs(f, n)
<1>1. 0 \in T
  <2> DEFINE g == [i \in 0 .. 0 |-> d]
  <2>1. \A i \in 0 .. 0 : g[i] = IF i = 0 THEN d ELSE SaveLinkPage(g[i - 1], i)  OBVIOUS
  <2>2. g = [i \in 0 .. 0 |-> g[i]]  OBVIOUS
  <2> HIDE DEF g
  <2>3. Runs(g, 0)  BY <2>1, <2>2
  <2>. QED  BY <2>3
<1>2. ASSUME NEW k \in 1 .. n, k - 1 \in T  PROVE k \in T
  <2>1. PICK f : Runs(f, k - 1)  BY <1>2
  <2> DEFINE g == [i \in 0 .. k |-> IF i = k THEN SaveLinkPage(f[k - 1], k) ELSE f[i]]
  <2>2. \A i \in 0 .. k - 1 : f[i] = IF i = 0 THEN d ELSE SaveLinkPage(f[i - 1], i)  BY <2>1
  <2>3. \A i \in 0 .. k : g[i] = IF i = 0 THEN d ELSE SaveLinkPage(g[i - 1], i)  BY <2>2
  <2>4. g = [i \in 0 .. k |-> g[i]]  OBVIOUS
  <2> HIDE DEF g
  <2>5. Runs(g, k)  BY <2>3, <2>4
  <2>. QED  BY <2>5
<1>3. Runs(r, n)
  <2>1. \A k \in 1 .. n : k - 1 \in T => k \in T  BY <1>2
  <2> HIDE DEF T
  <2>2. n \in T  BY <1>1, <2>1, Counting
  <2> USE DEF T
  <2>. QED  BY <2>2, Zenon
<1>4. SaveLinkPages(d) = r[n]  BY DEF SaveLinkPages, Loop
<1> HIDE DEF r
<1>5. r[0] = d /\ \A i \in 1 .. n : r[i] = SaveLinkPage(r[i - 1], i)  BY <1>3
<1>. QED  BY <1>4, <1>5

LEMMA GroupLoop ==
  ASSUME NEW d, NEW z, NEW all, NEW n \in Nat, n = GroupsPerZone
  PROVE  \E f : /\ f[0] = d /\ \A i \in 1 .. n : f[i] = FlushGroup(f[i - 1], z, i - 1, all)
                /\ FlushGroups(d, z, all) = f[n]
PROOF
<1> DEFINE Runs(f, k) == f = [i \in 0 .. k |-> IF i = 0 THEN d ELSE FlushGroup(f[i - 1], z, i - 1, all)]
           T == {k \in 0 .. n : \E f : Runs(f, k)}
           r == CHOOSE f : Runs(f, n)
<1>1. 0 \in T
  <2> DEFINE g == [i \in 0 .. 0 |-> d]
  <2>1. \A i \in 0 .. 0 : g[i] = IF i = 0 THEN d ELSE FlushGroup(g[i - 1], z, i - 1, all)  OBVIOUS
  <2>2. g = [i \in 0 .. 0 |-> g[i]]  OBVIOUS
  <2> HIDE DEF g
  <2>3. Runs(g, 0)  BY <2>1, <2>2
  <2>. QED  BY <2>3
<1>2. ASSUME NEW k \in 1 .. n, k - 1 \in T  PROVE k \in T
  <2>1. PICK f : Runs(f, k - 1)  BY <1>2
  <2> DEFINE g == [i \in 0 .. k |-> IF i = k THEN FlushGroup(f[k - 1], z, k - 1, all) ELSE f[i]]
  <2>2. \A i \in 0 .. k - 1 : f[i] = IF i = 0 THEN d ELSE FlushGroup(f[i - 1], z, i - 1, all)  BY <2>1
  <2>3. \A i \in 0 .. k : g[i] = IF i = 0 THEN d ELSE FlushGroup(g[i - 1], z, i - 1, all)  BY <2>2
  <2>4. g = [i \in 0 .. k |-> g[i]]  OBVIOUS
  <2> HIDE DEF g
  <2>5. Runs(g, k)  BY <2>3, <2>4
  <2>. QED  BY <2>5
<1>3. Runs(r, n)
  <2>1. \A k \in 1 .. n : k - 1 \in T => k \in T  BY <1>2
  <2> HIDE DEF T
  <2>2. n \in T  BY <1>1, <2>1, Counting
  <2> USE DEF T
  <2>. QED  BY <2>2, Zenon
<1>4. FlushGroups(d, z, all) = r[n]  BY DEF FlushGroups, Loop
<1> HIDE DEF r
<1>5. r[0] = d /\ \A i \in 1 .. n : r[i] = FlushGroup(r[i - 1], z, i - 1, all)  BY <1>3
<1>. QED  BY <1>4, <1>5

LEMMA ZoneLoop ==
  ASSUME NEW d, NEW n \in Nat, n = Zones
  PROVE  \E f : /\ f[0] = d /\ \A i \in 1 .. n : f[i] = FlushZone(f[i - 1], i - 1)
                /\ FlushZones(d) = f[n]
PROOF
<1> DEFINE Runs(f, k) == f = [i \in 0 .. k |-> IF i = 0 THEN d ELSE FlushZone(f[i - 1], i - 1)]
           T == {k \in 0 .. n : \E f : Runs(f, k)}
           r == CHOOSE f : Runs(f, n)
<1>1. 0 \in T
  <2> DEFINE g == [i \in 0 .. 0 |-> d]
  <2>1. \A i \in 0 .. 0 : g[i] = IF i = 0 THEN d ELSE FlushZone(g[i - 1], i - 1)  OBVIOUS
  <2>2. g = [i \in 0 .. 0 |-> g[i]]  OBVIOUS
  <2> HIDE DEF g
  <2>3. Runs(g, 0)  BY <2>1, <2>2
  <2>. QED  BY <2>3
<1>2. ASSUME NEW k \in 1 .. n, k - 1 \in T  PROVE k \in T
  <2>1. PICK f : Runs(f, k - 1)  BY <1>2
  <2> DEFINE g == [i \in 0 .. k |-> IF i = k THEN FlushZone(f[k - 1], k - 1) ELSE f[i]]
  <2>2. \A i \in 0 .. k - 1 : f[i] = IF i = 0 THEN d ELSE FlushZone(f[i - 1], i - 1)  BY <2>1
  <2>3. \A i \in 0 .. k : g[i] = IF i = 0 THEN d ELSE FlushZone(g[i - 1], i - 1)  BY <2>2
  <2>4. g = [i \in 0 .. k |-> g[i]]  OBVIOUS
  <2> HIDE DEF g
  <2>5. Runs(g, k)  BY <2>3, <2>4
  <2>. QED  BY <2>5
<1>3. Runs(r, n)
  <2>1. \A k \in 1 .. n : k - 1 \in T => k \in T  BY <1>2
  <2> HIDE DEF T
  <2>2. n \in T  BY <1>1, <2>1, Counting
  <2> USE DEF T
  <2>. QED  BY <2>2, Zenon
<1>4. FlushZones(d) = r[n]  BY DEF FlushZones, Loop
<1> HIDE DEF r
<1>5. r[0] = d /\ \A i \in 1 .. n : r[i] = FlushZone(r[i - 1], i - 1)  BY <1>3
<1>. QED  BY <1>4, <1>5

LEMMA LoadLoop ==
  ASSUME NEW d, NEW n \in Nat, n = Blocks - FirstBlock
  PROVE  \E f : /\ f[0] = d /\ \A i \in 1 .. n : f[i] = LoadLinkItem(f[i - 1], i)
                /\ LoadLinkItems(d) = f[n]
PROOF
<1> DEFINE Runs(f, k) == f = [i \in 0 .. k |-> IF i = 0 THEN d ELSE LoadLinkItem(f[i - 1], i)]
           T == {k \in 0 .. n : \E f : Runs(f, k)}
           r == CHOOSE f : Runs(f, n)
<1>1. 0 \in T
  <2> DEFINE g == [i \in 0 .. 0 |-> d]
  <2>1. \A i \in 0 .. 0 : g[i] = IF i = 0 THEN d ELSE LoadLinkItem(g[i - 1], i)  OBVIOUS
  <2>2. g = [i \in 0 .. 0 |-> g[i]]  OBVIOUS
  <2> HIDE DEF g
  <2>3. Runs(g, 0)  BY <2>1, <2>2
  <2>. QED  BY <2>3
<1>2. ASSUME NEW k \in 1 .. n, k - 1 \in T  PROVE k \in T
  <2>1. PICK f : Runs(f, k - 1)  BY <1>2
  <2> DEFINE g == [i \in 0 .. k |-> IF i = k THEN LoadLinkItem(f[k - 1], k) ELSE f[i]]
  <2>2. \A i \in 0 .. k - 1 : f[i] = IF i = 0 THEN d ELSE LoadLinkItem(f[i - 1], i)  BY <2>1
  <2>3. \A i \in 0 .. k : g[i] = IF i = 0 THEN d ELSE LoadLinkItem(g[i - 1], i)  BY <2>2
  <2>4. g = [i \in 0 .. k |-> g[i]]  OBVIOUS
  <2> HIDE DEF g
  <2>5. Runs(g, k)  BY <2>3, <2>4
  <2>. QED  BY <2>5
<1>3. Runs(r, n)
  <2>1. \A k \in 1 .. n : k - 1 \in T => k \in T  BY <1>2
  <2> HIDE DEF T
  <2>2. n \in T  BY <1>1, <2>1, Counting
  <2> USE DEF T
  <2>. QED  BY <2>2, Zenon
<1>4. LoadLinkItems(d) = r[n]  BY DEF LoadLinkItems, Loop
<1> HIDE DEF r
<1>5. r[0] = d /\ \A i \in 1 .. n : r[i] = LoadLinkItem(r[i - 1], i)  BY ONLY n \in Nat, <1>3
<1>. QED  BY <1>4, <1>5

LEMMA SpareLoop ==
  ASSUME NEW n \in Nat
  PROVE  \E f : /\ f[0] = ftl.spareHead /\ \A i \in 1 .. n : f[i] = Behind(ftl, f[i - 1])
                /\ SpareAt(n) = f[n]
PROOF
<1> DEFINE Runs(f, k) == f = [i \in 0 .. k |-> IF i = 0 THEN ftl.spareHead ELSE Behind(ftl, f[i - 1])]
           T == {k \in 0 .. n : \E f : Runs(f, k)}
           r == CHOOSE f : Runs(f, n)
<1>1. 0 \in T
  <2> DEFINE g == [i \in 0 .. 0 |-> ftl.spareHead]
  <2>1. \A i \in 0 .. 0 : g[i] = IF i = 0 THEN ftl.spareHead ELSE Behind(ftl, g[i - 1])  OBVIOUS
  <2>2. g = [i \in 0 .. 0 |-> g[i]]  OBVIOUS
  <2> HIDE DEF g
  <2>3. Runs(g, 0)  BY <2>1, <2>2
  <2>. QED  BY <2>3
<1>2. ASSUME NEW k \in 1 .. n, k - 1 \in T  PROVE k \in T
  <2>1. PICK f : Runs(f, k - 1)  BY <1>2
  <2> DEFINE g == [i \in 0 .. k |-> IF i = k THEN Behind(ftl, f[k - 1]) ELSE f[i]]
  <2>2. \A i \in 0 .. k - 1 : f[i] = IF i = 0 THEN ftl.spareHead ELSE Behind(ftl, f[i - 1])  BY <2>1
  <2>3. \A i \in 0 .. k : g[i] = IF i = 0 THEN ftl.spareHead ELSE Behind(ftl, g[i - 1])  BY <2>2
  <2>4. g = [i \in 0 .. k |-> g[i]]  OBVIOUS
  <2> HIDE DEF g
  <2>5. Runs(g, k)  BY <2>3, <2>4
  <2>. QED  BY <2>5
<1>3. Runs(r, n)
  <2>1. \A k \in 1 .. n : k - 1 \in T => k \in T  BY <1>2
  <2> HIDE DEF T
  <2>2. n \in T  BY <1>1, <2>1, Counting
  <2> USE DEF T
  <2>. QED  BY <2>2, Zenon
<1>4. SpareAt(n) = r[n]  BY DEF SpareAt, Loop
<1> HIDE DEF r
<1>5. r[0] = ftl.spareHead /\ \A i \in 1 .. n : r[i] = Behind(ftl, r[i - 1])  BY <1>3
<1>. QED  BY <1>4, <1>5

-----------------------------------------------------------------------------
(* What the proofs need of the flash: nothing stands behind the last page  *)
(* of a block, and EobDescribesBlock.                                      *)
Described(f) ==
  \A b \in BlockIds, p \in Pages :
    ReadPage(f, b, p).id = "eob" => \A q \in Pages : q < p =>
      ReadPage(f, b, q).id = "data" /\ ReadPage(f, b, q).body.hpage = ReadPage(f, b, p).body[q + 1]
FlashOK(f) ==
  /\ DOMAIN f = BlockIds
  /\ \A b \in BlockIds :
       /\ f[b].last \in 0 .. PagesPerBlock /\ DOMAIN f[b] = {"last", "page"} /\ DOMAIN f[b].page = Pages
       /\ \A p \in Pages : p >= f[b].last => f[b].page[p] = EmptyPage
  /\ Described(f)

(* A program that is not refused adds one page.                            *)
LEMMA ProgramReads ==
  ASSUME NEW d, FlashOK(d.flash), "flash" \in DOMAIN d, NEW b \in BlockIds, NEW p \in Pages,
         p >= d.flash[b].last, NEW id, NEW body, NEW e, e = ProgramPage(d, b, p, id, body)
  PROVE  /\ DOMAIN e.flash = BlockIds /\ e.flash[b].last = p + 1 /\ DOMAIN e.flash[b].page = Pages
         /\ DOMAIN e.flash[b] = {"last", "page"}
         /\ \A q \in Pages : e.flash[b].page[q] = IF q = p THEN [id |-> id, body |-> body]
                                                 ELSE d.flash[b].page[q]
         /\ \A c \in BlockIds : c # b => e.flash[c] = d.flash[c]
         /\ \A c, q : ReadPage(e.flash, c, q) =
              IF c = b /\ q = p THEN [id |-> id, body |-> body] ELSE ReadPage(d.flash, c, q)
PROOF
<1> DEFINE new == [last |-> p + 1, page |-> [d.flash[b].page EXCEPT ![p] = [id |-> id, body |-> body]]]
<1>0. ~ (p < d.flash[b].last)  BY DEF FlashOK, Pages
<1>1. e = [d EXCEPT !.flash[b] = new]  BY <1>0 DEF ProgramPage
<1>2. e.flash = [d.flash EXCEPT ![b] = new]  BY <1>1
<1>3. DOMAIN d.flash = BlockIds /\ DOMAIN d.flash[b].page = Pages  BY DEF FlashOK
<1>4. DOMAIN e.flash = BlockIds /\ e.flash[b] = new
      /\ \A c \in BlockIds : c # b => e.flash[c] = d.flash[c]
  BY <1>2, <1>3
<1>5. \A q \in Pages : e.flash[b].page[q] = IF q = p THEN [id |-> id, body |-> body]
                                           ELSE d.flash[b].page[q]
  BY <1>3, <1>4
<1>6. ASSUME NEW c, NEW q
      PROVE  ReadPage(e.flash, c, q) =
               IF c = b /\ q = p THEN [id |-> id, body |-> body] ELSE ReadPage(d.flash, c, q)
  <2>1. CASE c \notin BlockIds \/ q \notin Pages  BY <2>1 DEF ReadPage
  <2>2. CASE c \in BlockIds /\ q \in Pages /\ c # b  BY <2>2, <1>4 DEF ReadPage
  <2>3. CASE q \in Pages /\ c = b
    <3>1. d.flash[b].last \in Nat /\ q \in Nat /\ p \in Nat  BY <2>3 DEF FlashOK, Pages
    <3>2. q >= d.flash[b].last => d.flash[b].page[q] = EmptyPage  BY <2>3 DEF FlashOK
    <3>3. e.flash[b].last = p + 1  BY <1>4
    <3>. QED  BY <2>3, <3>1, <3>2, <3>3, <1>5 DEF ReadPage
  <2>. QED  BY <2>1, <2>2, <2>3
<1>. QED  BY <1>3, <1>4, <1>5, <1>6

(* Only pages behind the last one are written, so an end-of-block page     *)
(* described before is described after.                                    *)
Programmed(d, e, b) ==
  /\ FlashOK(e.flash) /\ DOMAIN e = DOMAIN d
  /\ \A x \in DOMAIN d : x # "flash" => e[x] = d[x]
  /\ \A c \in BlockIds : c # b => e.flash[c] = d.flash[c]
Describes(f, b, p, body) ==
  \A q \in Pages : q < p => ReadPage(f, b, q).id = "data" /\ ReadPage(f, b, q).body.hpage = body[q + 1]
LEMMA ProgramDescribed ==
  ASSUME NEW d, FlashOK(d.flash), "flash" \in DOMAIN d, NEW b, NEW p,
         NEW id, NEW body, id # "eob" \/ Describes(d.flash, b, p, body), NEW e, e = ProgramPage(d, b, p, id, body)
  PROVE  Programmed(d, e, b)
PROOF
<1>1. CASE b \notin BlockIds \/ p \notin Pages \/ p < d.flash[b].last
  <2>1. e = d  BY <1>1 DEF ProgramPage
  <2>. QED  BY <2>1 DEF Programmed
<1>2. CASE b \in BlockIds /\ p \in Pages /\ ~ (p < d.flash[b].last)
  <2>1. p \in Nat /\ p + 1 \in 0 .. PagesPerBlock /\ d.flash[b].last \in Nat
    BY <1>2, PageModeAssumption DEF Pages, FlashOK
  <2>2. p >= d.flash[b].last  BY <1>2, <2>1
  <2>3. /\ DOMAIN e.flash = BlockIds /\ e.flash[b].last = p + 1 /\ DOMAIN e.flash[b].page = Pages
        /\ DOMAIN e.flash[b] = {"last", "page"}
        /\ \A q \in Pages : e.flash[b].page[q] = IF q = p THEN [id |-> id, body |-> body]
                                                ELSE d.flash[b].page[q]
        /\ \A c \in BlockIds : c # b => e.flash[c] = d.flash[c]
        /\ \A c, q : ReadPage(e.flash, c, q) =
             IF c = b /\ q = p THEN [id |-> id, body |-> body] ELSE ReadPage(d.flash, c, q)
    BY <1>2, <2>2, ProgramReads
  <2>4. DOMAIN e = DOMAIN d /\ \A x \in DOMAIN d : x # "flash" => e[x] = d[x]
    BY <1>2 DEF ProgramPage
  <2>5. ASSUME NEW c \in BlockIds
        PROVE  /\ e.flash[c].last \in 0 .. PagesPerBlock /\ DOMAIN e.flash[c] = {"last", "page"}
               /\ DOMAIN e.flash[c].page = Pages
               /\ \A q \in Pages : q >= e.flash[c].last => e.flash[c].page[q] = EmptyPage
    <3>1. CASE c # b  BY <2>3, <3>1 DEF FlashOK
    <3>2. CASE c = b
      <4>1. \A q \in Pages : q >= p + 1 => q # p /\ q >= d.flash[b].last  BY <2>1, <2>2 DEF Pages
      <4>. QED  BY <1>2, <2>1, <2>3, <3>2, <4>1 DEF FlashOK
    <3>. QED  BY <3>1, <3>2
  <2>6. ReadPage(d.flash, b, p).id = "empty"
    BY <1>2, <2>1, <2>2 DEF ReadPage, EmptyPage
  <2>7. \A q \in Pages : q > p => ReadPage(d.flash, b, q).id = "empty"
    BY <1>2, <2>1, <2>2 DEF ReadPage, EmptyPage, Pages
  <2>8. Described(e.flash)
    <3>1. SUFFICES ASSUME NEW c \in BlockIds, NEW x \in Pages, ReadPage(e.flash, c, x).id = "eob",
                          NEW q \in Pages, q < x
                   PROVE  /\ ReadPage(e.flash, c, q).id = "data"
                          /\ ReadPage(e.flash, c, q).body.hpage = ReadPage(e.flash, c, x).body[q + 1]
      BY DEF Described
    <3>4. ~ (c = b /\ q = p)
      <4>1. CASE c = b /\ x = p  BY <2>1, <3>1, <4>1 DEF Pages
      <4>2. CASE ~ (c = b /\ x = p)
        <5>1. ReadPage(e.flash, c, x) = ReadPage(d.flash, c, x)  BY <2>3, <4>2
        <5>. QED  BY <2>1, <2>7, <3>1, <5>1
      <4>. QED  BY <4>1, <4>2
    <3>5. ReadPage(e.flash, c, q) = ReadPage(d.flash, c, q)  BY <2>3, <3>4
    <3>6. CASE c = b /\ x = p
      <4>1. ReadPage(e.flash, c, x) = [id |-> id, body |-> body]  BY <2>3, <3>6
      <4>2. id = "eob" /\ ReadPage(e.flash, c, x).body = body  BY <3>1, <4>1
      <4>3. Describes(d.flash, b, p, body)  BY <4>2
      <4>. QED  BY <3>1, <3>5, <3>6, <4>2, <4>3 DEF Describes
    <3>7. CASE ~ (c = b /\ x = p)
      <4>1. ReadPage(e.flash, c, x) = ReadPage(d.flash, c, x)  BY <2>3, <3>7
      <4>. QED  BY <3>1, <3>5, <4>1 DEF FlashOK, Described
    <3>. QED  BY <3>6, <3>7
  <2>. QED  BY <2>3, <2>4, <2>5, <2>8 DEF FlashOK, Programmed
<1>. QED  BY <1>1, <1>2

LEMMA ProgramOK ==
  ASSUME NEW d, FlashOK(d.flash), "flash" \in DOMAIN d, NEW b, NEW p,
         NEW id, id # "eob", NEW body, NEW e, e = ProgramPage(d, b, p, id, body)
  PROVE  Programmed(d, e, b)
  BY ProgramDescribed

(* Erasing a block leaves nothing to describe in it.                       *)
LEMMA EraseOK ==
  ASSUME NEW f, FlashOK(f), NEW b \in BlockIds
  PROVE  FlashOK([f EXCEPT ![b] = Erased])
PROOF
<1> DEFINE e == [f EXCEPT ![b] = Erased]
<1>1. DOMAIN e = BlockIds /\ e[b] = Erased /\ \A c \in BlockIds : c # b => e[c] = f[c]
  BY DEF FlashOK
<1> HIDE DEF e
<1>2. /\ Erased.last = 0 /\ DOMAIN Erased = {"last", "page"} /\ DOMAIN Erased.page = Pages
      /\ \A p \in Pages : Erased.page[p] = EmptyPage
  BY DEF Erased
<1>3. 0 \in 0 .. PagesPerBlock  BY PageModeAssumption
<1>4. \A q : ReadPage(e, b, q).id = "empty"  BY <1>1, <1>2 DEF ReadPage, EmptyPage, Pages
<1>5. \A c \in BlockIds : \A q : c # b => ReadPage(e, c, q) = ReadPage(f, c, q)  BY <1>1 DEF ReadPage
<1>6. Described(e)
  <2>1. SUFFICES ASSUME NEW c \in BlockIds, NEW x \in Pages, ReadPage(e, c, x).id = "eob",
                        NEW q \in Pages, q < x
                 PROVE  ReadPage(e, c, q).id = "data" /\ ReadPage(e, c, q).body.hpage = ReadPage(e, c, x).body[q + 1]
    BY DEF Described
  <2>2. c # b  BY <1>4, <2>1
  <2>3. ReadPage(e, c, q) = ReadPage(f, c, q) /\ ReadPage(e, c, x) = ReadPage(f, c, x)  BY <1>5, <2>2
  <2>. QED  BY <2>1, <2>3 DEF FlashOK, Described
<1>7. FlashOK(e)  BY <1>1, <1>2, <1>3, <1>6 DEF FlashOK
<1>. QED  BY <1>7 DEF e

(* A block that ends with a page of this id has it as the last one.        *)
LEMMA LastFound ==
  ASSUME NEW f, FlashOK(f), NEW b \in BlockIds, f[b].last >= 1, f[b].page[f[b].last - 1].id # "empty"
  PROVE  FindLastPage(f, b, f[b].page[f[b].last - 1].id) = f[b].last
PROOF
<1> DEFINE l == f[b].last
           id == f[b].page[l - 1].id
           found == {p \in Pages : ReadPage(f, b, p).id = id}
           m == CHOOSE p \in found : \A q \in found : q <= p
<1>1. l \in 1 .. PagesPerBlock /\ l - 1 \in Pages  BY PageModeAssumption DEF FlashOK, Pages
<1>2. l - 1 \in found  BY <1>1 DEF ReadPage, Pages
<1>3. \A q \in found : q <= l - 1
  BY <1>1 DEF ReadPage, Pages, EmptyPage
<1>4. m \in found /\ \A q \in found : q <= m  BY <1>2, <1>3
<1> HIDE DEF m
<1>5. m = l - 1
  <2>1. m <= l - 1 /\ l - 1 <= m  BY <1>2, <1>3, <1>4
  <2>2. m \in Nat  BY <1>4 DEF Pages
  <2>. QED  BY <1>1, <2>1, <2>2
<1>6. found # {}  BY <1>2
<1>7. FindLastPage(f, b, id) = 1 + m  BY <1>6 DEF FindLastPage, m
<1>. QED  BY <1>1, <1>5, <1>7
-----------------------------------------------------------------------------
(* The memory of the driver.                                               *)
Data == FirstBlock .. Blocks - 1
MemFields == {"flash", "chain", "spareHead", "spareTail", "head", "tail", "popped", "active",
              "zone", "zoneIndex", "link", "luck", "stop"}
ZoneFields == {"made", "block", "last", "updated", "sized", "tab", "changed", "group"}

ChainShaped(d) ==
  /\ DOMAIN d = MemFields
  /\ DOMAIN d.chain = BlockIds /\ \A b \in BlockIds : DOMAIN d.chain[b] = {"next", "valid"}
ZoneShaped(m) ==
  /\ DOMAIN m = ZoneFields /\ m.last \in Nat /\ DOMAIN m.group = Groups
  /\ \A g \in Groups : DOMAIN m.group[g].add = 0 .. PagesPerGroup - 1
  /\ ~ m.made => m.block = INVALID /\ m.group = [g \in Groups |-> NoGroup]
Shaped(d) ==
  /\ ChainShaped(d)
  /\ DOMAIN d.zone = ZoneIds /\ \A z \in ZoneIds : ZoneShaped(d.zone[z])
  /\ DOMAIN d.zoneIndex = {"block", "last", "updated", "map"} /\ DOMAIN d.zoneIndex.map = ZoneIds
  /\ DOMAIN d.active = {"block", "last", "eob"}
  /\ DOMAIN d.link = {"block", "start"} /\ d.link.start \in Nat

(* The blocks of tables, which are replaced and erased, and those that     *)
(* stay what they are.                                                     *)
Tables(d) == {d.zoneIndex.block} \cup {d.zone[z].block : z \in ZoneIds}
MappedIn(d) == {NandAddress(d, h)[1] : h \in HPages}
Held(d) == {IndexBlock, d.link.block, d.active.block, d.tail} \cup MappedIn(d)

Roles(d) ==
  /\ d.zoneIndex.block \in Data /\ d.link.block \in Data
  /\ \A z \in ZoneIds :
       /\ d.zone[z].block \in Data \cup {INVALID} /\ d.zone[z].block # d.zoneIndex.block
       /\ \A y \in ZoneIds : d.zone[z].block = d.zone[y].block => z = y \/ d.zone[z].block = INVALID
  /\ \A b \in Tables(d) : b \in Held(d) => b = INVALID
  /\ d.link.block # d.active.block /\ d.link.block # d.tail /\ d.link.block \notin MappedIn(d)

(* The spare blocks are the sequence s.  Once all have been taken the head *)
(* of the chain is no block, and what is freed later is not found again.   *)
InSeq(s, b) == \E i \in 1 .. Len(s) : s[i] = b
Distinct(s) == s \in Seq(Data) /\ \A i, j \in 1 .. Len(s) : s[i] = s[j] => i = j
Ended(d) ==
  \/ d.spareHead \notin BlockIds /\ d.spareTail \in Data
  \/ d.spareHead = 0 /\ d.spareTail = 0
Linked(d, s) ==
  /\ d.spareHead = s[1] /\ d.spareTail = s[Len(s)] /\ d.chain[s[Len(s)]].next \notin BlockIds
  /\ \A i \in 1 .. Len(s) - 1 : d.chain[s[i]].next = s[i + 1]
Chained(d, s) == Distinct(s) /\ IF Len(s) = 0 THEN Ended(d) ELSE Linked(d, s)
Unused(d, s) ==
  \A i \in 1 .. Len(s) : d.flash[s[i]].last = 0 /\ s[i] \notin Tables(d) /\ s[i] \notin Held(d)

(* A block of tables can end the chain of spare blocks when it is erased.  *)
Marked(d) ==
  d.spareHead \in BlockIds => \A b \in Tables(d) : b \in BlockIds => d.chain[b].next \notin BlockIds

(* The end-of-block page of the active block, once written, is followed by *)
(* no more pages.                                                          *)
ActiveOK(d) ==
  LET a == d.active
  IN  /\ a.block = INVALID => a = NoActive
      /\ a.block # INVALID =>
           /\ a.block \in Data
           /\ a.last < PagesPerBlock =>
                /\ a.last = d.flash[a.block].last /\ a.eob \in Seq(Int) /\ Len(a.eob) = a.last
                /\ \A q \in 0 .. a.last - 1 :
                     LET page == ReadPage(d.flash, a.block, q)
                     IN  page.id = "data" /\ page.body.hpage = a.eob[q + 1]

IndexOK(d) ==
  LET i == d.zoneIndex
      page == d.flash[i.block].page[i.last - 1]
  IN  /\ i.last \in 1 .. PagesPerBlock /\ i.last = d.flash[i.block].last /\ page.id = "zone_index"
      /\ i.updated \/ page.body = i.map

MappedOK(d) ==
  \A h \in HPages : LET a == NandAddress(d, h)
                    IN  a[1] # INVALID => a[1] \in Data /\ a[2] \in 0 .. d.flash[a[1]].last - 1

Core(d, s) ==
  /\ d.stop = "no" /\ ~ d.luck.strays /\ Shaped(d) /\ FlashOK(d.flash) /\ Roles(d)
  /\ Chained(d, s) /\ Unused(d, s) /\ Marked(d) /\ ActiveOK(d) /\ MappedOK(d)
Mem(d, s) == Core(d, s) /\ IndexOK(d)

(* A block of tables that has been replaced and is not erased yet.         *)
Limbo(d, s, b) ==
  /\ b \in Data /\ b \notin Tables(d) /\ b \notin Held(d) /\ ~ InSeq(s, b)
  /\ d.spareHead \in BlockIds => d.chain[b].next \notin BlockIds

(* What saving the tables leaves alone.                                    *)
SameGroups(d, e) == \A z \in ZoneIds : e.zone[z].group = d.zone[z].group
Keeps(d, e) ==
  /\ e.active = d.active /\ e.head = d.head /\ e.tail = d.tail /\ e.link.block = d.link.block
  /\ SameGroups(d, e)
  /\ \A b \in BlockIds : b \in Held(d) /\ b # d.link.block => e.flash[b] = d.flash[b]
Saved(d, e, s) ==
  /\ Core(e, s) /\ Keeps(d, e) /\ (IndexOK(d) => IndexOK(e))
  /\ Tables(e) = Tables(d) /\ Held(e) = Held(d) /\ e.zoneIndex = d.zoneIndex
  /\ e.chain = d.chain /\ e.spareHead = d.spareHead
  /\ \A z \in ZoneIds : e.zone[z].block = d.zone[z].block
Named(d) == \A z \in ZoneIds : d.zoneIndex.map[z] = d.zone[z].block

LEMMA Division ==
  ASSUME NEW h \in Int, NEW n \in Nat, n > 0
  PROVE  h \div n \in Int /\ h % n \in 0 .. n - 1 /\ h = n * (h \div n) + (h % n) /\ (h >= 0 => h \div n >= 0)
PROOF
<1>1. h \div n \in Int  OBVIOUS
<1>2. h % n \in 0 .. n - 1  OBVIOUS
<1>3. h = n * (h \div n) + (h % n)  OBVIOUS
<1>4. h >= 0 => h \div n >= 0  OBVIOUS
<1>. QED  BY <1>1, <1>2, <1>3, <1>4

LEMMA Times ==
  ASSUME NEW a \in Nat, NEW b \in Nat, NEW n \in Nat, a >= b
  PROVE  n * a >= n * b
  OBVIOUS

(* Every host page has its place in the table: zone, group and page.       *)
LEMMA Addresses ==
  ASSUME NEW h \in HPages
  PROVE  /\ ZoneOf(h) \in ZoneIds /\ GroupOf(h) \in Groups /\ h % PagesPerGroup \in 0 .. PagesPerGroup - 1
         /\ h = PagesPerGroup * (GroupsPerZone * ZoneOf(h) + GroupOf(h)) + (h % PagesPerGroup)
PROOF
<1> DEFINE x == h \div PagesPerGroup
<1>0. Zones \in Nat \ {0} /\ GroupsPerZone \in Nat \ {0} /\ PagesPerGroup \in Nat \ {0}
  BY PageModeAssumption
<1>1. h \in Nat /\ h < Zones * GroupsPerZone * PagesPerGroup  BY <1>0 DEF HPages
<1>2. x \in Nat /\ h % PagesPerGroup \in 0 .. PagesPerGroup - 1 /\ h = PagesPerGroup * x + (h % PagesPerGroup)
  BY <1>0, <1>1, Division
<1>3. x < Zones * GroupsPerZone
  <2>1. SUFFICES ASSUME x >= Zones * GroupsPerZone  PROVE FALSE
    BY <1>0, <1>2
  <2> DEFINE m == Zones * GroupsPerZone
  <2>2. m \in Nat /\ h < m * PagesPerGroup  BY <1>0, <1>1
  <2>3. x >= m  BY <2>1
  <2> HIDE DEF m, x
  <2>4. PagesPerGroup * x >= PagesPerGroup * m  BY <1>0, <1>2, <2>2, <2>3, Times
  <2>5. PagesPerGroup * m = m * PagesPerGroup  BY <1>0, <2>2
  <2>. QED  BY <1>0, <1>1, <1>2, <2>2, <2>4, <2>5
<1> DEFINE z == x \div GroupsPerZone
           g == x % GroupsPerZone
<1> HIDE DEF x
<1>4. z \in Nat /\ g \in 0 .. GroupsPerZone - 1 /\ x = GroupsPerZone * z + g  BY <1>0, <1>2, Division
<1> HIDE DEF z, g
<1>5. z < Zones
  <2>1. SUFFICES ASSUME z >= Zones  PROVE FALSE
    BY <1>0, <1>4
  <2>2. GroupsPerZone * z >= GroupsPerZone * Zones  BY <1>0, <1>4, <2>1, Times
  <2>. QED  BY <1>0, <1>2, <1>3, <1>4, <2>2
<1>6. ZoneOf(h) = z /\ GroupOf(h) = g  BY DEF ZoneOf, GroupOf, z, g, x
<1>. QED  BY <1>0, <1>2, <1>4, <1>5, <1>6 DEF ZoneIds, Groups

(* The addresses are those of another state if the group tables are.       *)
LEMMA SameAddresses ==
  ASSUME NEW d, NEW e, SameGroups(d, e)
  PROVE  (\A h \in HPages : NandAddress(e, h) = NandAddress(d, h)) /\ MappedIn(e) = MappedIn(d)
PROOF
<1>1. ASSUME NEW h \in HPages  PROVE NandAddress(e, h) = NandAddress(d, h)
  BY Addresses DEF NandAddress, SameGroups
<1>. QED  BY <1>1 DEF MappedIn
-----------------------------------------------------------------------------
(* The chain of spare blocks.                                              *)
LEMMA BlockFacts ==
  /\ Data \subseteq BlockIds /\ Data \subseteq Nat \ {0} /\ 0 \in BlockIds /\ IndexBlock \in BlockIds \ Data
  /\ INVALID \notin BlockIds /\ SystemMark \notin BlockIds
  BY PageModeAssumption DEF Data, BlockIds, FirstBlock, IndexBlock, INVALID, SystemMark

(* All fields but those of F are the same.                                 *)
SameBut(F, d, e) == DOMAIN e = DOMAIN d /\ \A x \in DOMAIN d : x \notin F => e[x] = d[x]

(* The spare blocks are blocks for data.                                   *)
LEMMA SpareFacts ==
  ASSUME NEW d, NEW s, Core(d, s)
  PROVE  /\ s \in Seq(Data) /\ Len(s) \in Nat /\ \A i, j \in 1 .. Len(s) : s[i] = s[j] => i = j
         /\ \A i \in 1 .. Len(s) : s[i] \in Data /\ s[i] \in BlockIds
PROOF
<1>1. s \in Seq(Data) /\ \A i, j \in 1 .. Len(s) : s[i] = s[j] => i = j  BY DEF Core, Chained, Distinct
<1>2. Len(s) \in Nat /\ \A i \in 1 .. Len(s) : s[i] \in Data  BY <1>1
<1>. QED  BY <1>1, <1>2, BlockFacts

(* The rest of a sequence.                                                 *)
LEMMA RestOf ==
  ASSUME NEW S, NEW s \in Seq(S), Len(s) > 0
  PROVE  /\ Tail(s) \in Seq(S) /\ Len(Tail(s)) = Len(s) - 1 /\ s[1] \in S
         /\ \A i \in 1 .. Len(s) - 1 : Tail(s)[i] = s[i + 1]
  OBVIOUS

(* Taking a spare block takes the first of them, or ends the call.         *)
Popped(d, e, s, t) ==
  /\ Len(s) > 0 /\ e.popped = s[1] /\ e.stop = "no"
  /\ SameBut({"chain", "spareHead", "popped"}, d, e)
  /\ ChainShaped(e) /\ Chained(e, t)
  /\ e.chain[s[1]].next \notin BlockIds
  /\ \A c \in BlockIds : c # s[1] => e.chain[c] = d.chain[c]
LEMMA PopupTakes ==
  ASSUME NEW d, NEW s, ChainShaped(d), Chained(d, s), d.stop = "no", ~ d.luck.strays,
         NEW e, e = PopupEmptyBlock(d),
         NEW t, t = Tail(s)
  PROVE  \/ (e.stop # "no" /\ e.flash = d.flash)
         \/ Popped(d, e, s, t)
PROOF
<1> DEFINE b == d.spareHead
           next == d.chain[b].next
           taken == [d EXCEPT !.spareHead = next, !.chain[b] = [next |-> SystemMark, valid |-> 0], !.popped = b]
<1>1. DOMAIN d = MemFields  BY DEF ChainShaped
<1>0. Distinct(s) /\ (Len(s) = 0 => Ended(d)) /\ (Len(s) # 0 => Linked(d, s))  BY DEF Chained
<1>2. CASE b = 0
  <2>1. e = [d EXCEPT !.stop = "exception"]  BY <1>2 DEF PopupEmptyBlock
  <2>. QED  BY <1>1, <2>1 DEF MemFields
<1>3. CASE b # 0 /\ (b \notin BlockIds \/ (next \notin BlockIds /\ d.luck.dies))
  <2>1. PICK lost : lost = [d EXCEPT !.spareHead = d.luck.next, !.popped = b]  OBVIOUS
  <2>2. DOMAIN lost = MemFields /\ lost.luck = d.luck /\ lost.flash = d.flash  BY ONLY <1>1, <2>1 DEF MemFields
  <2>3. e = [lost EXCEPT !.stop = "crash"] \/ e = [d EXCEPT !.stop = "crash"]
    BY <1>3, <2>1, <2>2 DEF PopupEmptyBlock, GoAstray
  <2>. QED  BY ONLY <1>1, <2>2, <2>3 DEF MemFields
<1>4. CASE b # 0 /\ ~ (b \notin BlockIds \/ (next \notin BlockIds /\ d.luck.dies))
  <2>1. e = taken  BY <1>4 DEF PopupEmptyBlock
  <2>2. Len(s) > 0 /\ b = s[1] /\ s \in Seq(Data)
    <3>1. Len(s) # 0 /\ s \in Seq(Data)  BY <1>0, <1>4 DEF Distinct, Ended
    <3>2. Len(s) \in Nat  BY <3>1
    <3>. QED  BY <1>0, <3>1, <3>2 DEF Linked
  <2>3. b \in Data /\ b \in BlockIds
    <3>1. s[1] \in Data  BY <2>2
    <3>2. Data \subseteq BlockIds  BY BlockFacts
    <3>. QED  BY <2>2, <3>1, <3>2
  <2>4. /\ e.spareHead = next /\ e.popped = b /\ e.stop = "no" /\ e.spareTail = d.spareTail
        /\ DOMAIN e = DOMAIN d /\ e.chain = [d.chain EXCEPT ![b] = [next |-> SystemMark, valid |-> 0]]
    BY <1>1, <2>1 DEF MemFields
  <2>5. SameBut({"chain", "spareHead", "popped"}, d, e)  BY <1>1, <2>1 DEF SameBut, MemFields
  <2>6. /\ DOMAIN e.chain = BlockIds /\ e.chain[b] = [next |-> SystemMark, valid |-> 0]
        /\ \A c \in BlockIds : c # b => e.chain[c] = d.chain[c]
    BY <2>3, <2>4 DEF ChainShaped
  <2>7. ChainShaped(e)  BY <2>3, <2>4, <2>6 DEF ChainShaped
  <2>8. Chained(e, t)
    <3>1. t \in Seq(Data) /\ Len(t) = Len(s) - 1 /\ \A i \in 1 .. Len(s) - 1 : t[i] = s[i + 1]
      BY <2>2, RestOf
    <3>2. Len(s) \in Nat /\ \A i \in 1 .. Len(s) : s[i] \in Data  BY <2>2
    <3>3. Distinct(t)
      <4>1. \A i, j \in 1 .. Len(t) : t[i] = t[j] => i = j
        <5>1. SUFFICES ASSUME NEW i \in 1 .. Len(t), NEW j \in 1 .. Len(t), t[i] = t[j]  PROVE i = j
          OBVIOUS
        <5>2. s[i + 1] = s[j + 1] /\ i + 1 \in 1 .. Len(s) /\ j + 1 \in 1 .. Len(s)  BY <3>1, <3>2, <5>1
        <5>3. i + 1 = j + 1  BY <1>0, <5>2 DEF Distinct
        <5>. QED  BY <5>1, <5>3
      <4>. QED  BY <3>1, <4>1 DEF Distinct
    <3>4. CASE Len(t) = 0
      <4>1. Len(s) = 1  BY <3>1, <3>2, <3>4
      <4>2. e.spareHead \notin BlockIds /\ e.spareTail \in Data
        BY <1>0, <4>1, <2>2, <2>3, <2>4 DEF Linked
      <4>3. Ended(e)  BY <4>2 DEF Ended
      <4>. QED  BY <3>3, <3>4, <4>3 DEF Chained
    <3>5. CASE Len(t) # 0
      <4>1. Len(s) > 1 /\ Len(t) \in 1 .. Len(s) - 1  BY <3>1, <3>2, <3>5
      <4>2. \A i \in 1 .. Len(s) : i # 1 => s[i] # b /\ s[i] \in BlockIds
        <5>1. SUFFICES ASSUME NEW i \in 1 .. Len(s), i # 1  PROVE s[i] # b /\ s[i] \in BlockIds
          OBVIOUS
        <5>2. 1 \in 1 .. Len(s) /\ s[i] \in Data  BY <3>2, <4>1
        <5>3. s[i] # s[1]  BY <1>0, <5>1, <5>2 DEF Distinct
        <5>. QED  BY <2>2, <5>2, <5>3, BlockFacts
      <4>3. e.spareHead = t[1] /\ e.spareTail = t[Len(t)]
        BY <1>0, <2>2, <2>4, <3>1, <3>2, <4>1 DEF Linked
      <4>4. e.chain[t[Len(t)]].next \notin BlockIds
        BY <1>0, <2>2, <2>6, <3>1, <3>2, <4>1, <4>2 DEF Linked
      <4>5. ASSUME NEW i \in 1 .. Len(t) - 1  PROVE e.chain[t[i]].next = t[i + 1]
        <5>1. i + 1 \in 1 .. Len(s) - 1 /\ i \in 1 .. Len(s) - 1 /\ i + 1 # 1 /\ i + 1 \in 1 .. Len(s)
          BY <3>1, <3>2, <4>1
        <5>2. t[i] = s[i + 1] /\ t[i + 1] = s[i + 1 + 1]  BY <3>1, <5>1
        <5>3. e.chain[s[i + 1]] = d.chain[s[i + 1]]  BY ONLY <2>6, <4>2, <5>1
        <5>4. d.chain[s[i + 1]].next = s[i + 1 + 1]  BY <1>0, <3>2, <4>1, <5>1 DEF Linked
        <5>. QED  BY <5>2, <5>3, <5>4
      <4>6. Linked(e, t)  BY <4>3, <4>4, <4>5 DEF Linked
      <4>. QED  BY <3>3, <3>5, <4>6 DEF Chained
    <3>. QED  BY <3>4, <3>5
  <2>9. e.chain[s[1]].next \notin BlockIds  BY <2>2, <2>6, BlockFacts
  <2>. QED  BY <2>2, <2>4, <2>5, <2>6, <2>7, <2>8, <2>9 DEF Popped
<1>. QED  BY <1>2, <1>3, <1>4

-----------------------------------------------------------------------------
(* Saving tables.                                                          *)
LEMMA KeepsHeld ==
  ASSUME NEW d, NEW e, Keeps(d, e)
  PROVE  /\ Held(e) = Held(d) /\ MappedIn(e) = MappedIn(d)
         /\ \A h \in HPages : NandAddress(e, h) = NandAddress(d, h)
  BY SameAddresses DEF Keeps, Held

LEMMA KeepsTrans ==
  ASSUME NEW d, NEW e, NEW f, Keeps(d, e), Keeps(e, f)
  PROVE  Keeps(d, f)
  BY KeepsHeld DEF Keeps, SameGroups

(* Data stays where it is, so every host page reads as before.             *)
LEMMA KeepsReads ==
  ASSUME NEW d, NEW e, NEW s, Core(d, s), Keeps(d, e), NEW h \in HPages
  PROVE  ReadHPage(e, h) = ReadHPage(d, h)
PROOF
<1> DEFINE a == NandAddress(d, h)
<1>1. NandAddress(e, h) = a  BY KeepsHeld
<1>2. CASE a[1] = INVALID  BY <1>1, <1>2 DEF ReadHPage
<1>3. CASE a[1] # INVALID
  <2>1. a[1] \in MappedIn(d) /\ a[1] \in Data /\ a[1] \in Held(d)
    BY <1>3 DEF MappedIn, Core, MappedOK, Held
  <2>2. a[1] # d.link.block /\ a[1] \in BlockIds  BY <2>1, BlockFacts DEF Core, Roles
  <2>3. e.flash[a[1]] = d.flash[a[1]]  BY <2>1, <2>2 DEF Keeps
  <2>4. ReadPage(e.flash, a[1], a[2]) = ReadPage(d.flash, a[1], a[2])  BY <2>3 DEF ReadPage
  <2> HIDE DEF a
  <2>. QED  BY <1>1, <2>4 DEF ReadHPage, a
<1>. QED  BY <1>2, <1>3

LEMMA KeptData ==
  ASSUME NEW d, NEW s, Core(d, s), NEW e, Keeps(d, e)
  PROVE  ActiveOK(e) /\ MappedOK(e)
PROOF
<1>1. ActiveOK(e)
  <2>1. CASE d.active.block = INVALID  BY <2>1 DEF ActiveOK, Keeps, Core
  <2>2. CASE d.active.block # INVALID
    <3>1. d.active.block \in Data /\ d.active.block \in Held(d) /\ d.active.block # d.link.block
      BY <2>2 DEF Core, ActiveOK, Held, Roles
    <3>2. e.flash[d.active.block] = d.flash[d.active.block]  BY <3>1, BlockFacts DEF Keeps
    <3>3. \A q : ReadPage(e.flash, d.active.block, q) = ReadPage(d.flash, d.active.block, q)
      BY <3>2 DEF ReadPage
    <3>4. e.active = d.active /\ ActiveOK(d)  BY DEF Keeps, Core
    <3>. QED  BY <3>2, <3>3, <3>4 DEF ActiveOK
  <2>. QED  BY <2>1, <2>2
<1>2. MappedOK(e)
  <2>1. SUFFICES ASSUME NEW h \in HPages, NandAddress(d, h)[1] # INVALID
                 PROVE  /\ NandAddress(d, h)[1] \in Data
                        /\ NandAddress(d, h)[2] \in 0 .. e.flash[NandAddress(d, h)[1]].last - 1
    BY KeepsHeld DEF MappedOK
  <2>2. /\ NandAddress(d, h)[1] \in Data
        /\ NandAddress(d, h)[2] \in 0 .. d.flash[NandAddress(d, h)[1]].last - 1
    BY <2>1 DEF Core, MappedOK
  <2>3. NandAddress(d, h)[1] \in MappedIn(d)  BY DEF MappedIn
  <2>4. NandAddress(d, h)[1] \in Held(d) /\ NandAddress(d, h)[1] # d.link.block
    BY <2>3 DEF Held, Core, Roles
  <2>. QED  BY <2>2, <2>4, BlockFacts DEF Keeps
<1>. QED  BY <1>1, <1>2

(* Blocks that are neither spare nor hold data may be programmed.          *)
LEMMA WrittenCore ==
  ASSUME NEW d, NEW s, Core(d, s), NEW e, SameBut({"flash", "zone", "zoneIndex"}, d, e), FlashOK(e.flash),
         DOMAIN e.zone = ZoneIds,
         \A z \in ZoneIds : /\ ZoneShaped(e.zone[z]) /\ e.zone[z].block = d.zone[z].block
                            /\ e.zone[z].group = d.zone[z].group,
         \A b \in BlockIds : b \notin Tables(d) => e.flash[b] = d.flash[b],
         NEW i, i = e.zoneIndex, i.block = d.zoneIndex.block,
         DOMAIN i = {"block", "last", "updated", "map"}, DOMAIN i.map = ZoneIds
  PROVE  /\ Core(e, s) /\ Keeps(d, e) /\ Tables(e) = Tables(d) /\ Held(e) = Held(d)
         /\ e.chain = d.chain /\ e.spareHead = d.spareHead
PROOF
<1>1. DOMAIN d = MemFields /\ DOMAIN e = MemFields  BY DEF Core, Shaped, ChainShaped, SameBut
<1>2. /\ e.chain = d.chain /\ e.spareHead = d.spareHead /\ e.spareTail = d.spareTail /\ e.head = d.head
      /\ e.tail = d.tail /\ e.active = d.active /\ e.link = d.link
      /\ e.stop = d.stop /\ e.luck = d.luck
  BY <1>1 DEF SameBut, MemFields
<1>3. Tables(e) = Tables(d)  BY <1>2 DEF Tables
<1>4. \A b \in BlockIds : b \in Held(d) => e.flash[b] = d.flash[b]
  <2>1. SUFFICES ASSUME NEW b \in BlockIds, b \in Held(d)  PROVE e.flash[b] = d.flash[b]
    OBVIOUS
  <2>2. b \notin Tables(d)  BY <2>1, BlockFacts DEF Core, Roles
  <2>. QED  BY <2>2
<1>5. Keeps(d, e)  BY <1>2, <1>4 DEF Keeps, SameGroups
<1>6. Held(e) = Held(d) /\ MappedIn(e) = MappedIn(d) /\ \A h \in HPages : NandAddress(e, h) = NandAddress(d, h)
  BY <1>5, KeepsHeld
<1>7. Shaped(e)  BY <1>1, <1>2 DEF Core, Shaped, ChainShaped
<1>8. Roles(e)  BY <1>2, <1>3, <1>6 DEF Core, Roles
<1>9. Chained(e, s)  BY <1>2 DEF Core, Chained, Ended, Linked
<1>10. Unused(e, s)
  <2>1. SUFFICES ASSUME NEW j \in 1 .. Len(s)
                 PROVE  e.flash[s[j]].last = 0 /\ s[j] \notin Tables(e) /\ s[j] \notin Held(e)
    BY DEF Unused
  <2>2. d.flash[s[j]].last = 0 /\ s[j] \notin Tables(d) /\ s[j] \notin Held(d)  BY DEF Core, Unused
  <2>3. s[j] \in BlockIds  BY SpareFacts
  <2>. QED  BY <1>3, <1>6, <2>2, <2>3
<1>11. Marked(e)  BY <1>2, <1>3 DEF Core, Marked
<1>12. ActiveOK(e) /\ MappedOK(e)  BY <1>5, KeptData
<1>. QED  BY <1>2, <1>3, <1>5, <1>6, <1>7, <1>8, <1>9, <1>10, <1>11, <1>12 DEF Core

LEMMA WrittenOK ==
  ASSUME NEW d, NEW s, Core(d, s), NEW e, SameBut({"flash", "zone"}, d, e), FlashOK(e.flash),
         DOMAIN e.zone = ZoneIds,
         \A z \in ZoneIds : /\ ZoneShaped(e.zone[z]) /\ e.zone[z].block = d.zone[z].block
                            /\ e.zone[z].group = d.zone[z].group,
         \A b \in BlockIds : (\A z \in ZoneIds : b # d.zone[z].block) => e.flash[b] = d.flash[b]
  PROVE  Saved(d, e, s)
PROOF
<1>1. DOMAIN d = MemFields  BY DEF Core, Shaped, ChainShaped
<1>2. e.zoneIndex = d.zoneIndex /\ SameBut({"flash", "zone", "zoneIndex"}, d, e)  BY <1>1 DEF SameBut, MemFields
<1>3. DOMAIN d.zoneIndex = {"block", "last", "updated", "map"} /\ DOMAIN d.zoneIndex.map = ZoneIds
  BY DEF Core, Shaped
<1>4. \A b \in BlockIds : b \notin Tables(d) => e.flash[b] = d.flash[b]  BY DEF Tables
<1>5. PICK i : i = e.zoneIndex  OBVIOUS
<1>6. i.block = d.zoneIndex.block /\ DOMAIN i = {"block", "last", "updated", "map"} /\ DOMAIN i.map = ZoneIds
  BY <1>2, <1>3, <1>5
<1>7. /\ Core(e, s) /\ Keeps(d, e) /\ Tables(e) = Tables(d) /\ Held(e) = Held(d)
      /\ e.chain = d.chain /\ e.spareHead = d.spareHead
  BY <1>2, <1>4, <1>5, <1>6, WrittenCore
<1>8. ASSUME IndexOK(d)  PROVE IndexOK(e)
  <2>1. d.zoneIndex.block \in BlockIds /\ \A z \in ZoneIds : d.zoneIndex.block # d.zone[z].block
    BY BlockFacts DEF Core, Roles
  <2>2. e.flash[d.zoneIndex.block] = d.flash[d.zoneIndex.block]  BY <2>1
  <2>. QED  BY ONLY <1>2, <1>8, <2>2 DEF IndexOK
<1>. QED  BY <1>2, <1>7, <1>8 DEF Saved

LEMMA SavedSame ==
  ASSUME NEW d, NEW s, Core(d, s)
  PROVE  Saved(d, d, s)
  BY DEF Saved, Keeps, SameGroups

LEMMA SavedTrans ==
  ASSUME NEW d, NEW e, NEW f, NEW s, Saved(d, e, s), Saved(e, f, s)
  PROVE  Saved(d, f, s)
  BY KeepsTrans DEF Saved

(* A page in the block of a zone, and what its record says then.           *)
LEMMA ZoneWritten ==
  ASSUME NEW d, NEW s, Core(d, s), NEW z \in ZoneIds, NEW b, b = d.zone[z].block,
         NEW x, Programmed(d, x, b), NEW m, ZoneShaped(m), m.block = b, m.group = d.zone[z].group,
         NEW e, e = [x EXCEPT !.zone[z] = m]
  PROVE  Saved(d, e, s)
PROOF
<1>1. DOMAIN d = MemFields /\ DOMAIN d.zone = ZoneIds  BY DEF Core, Shaped, ChainShaped
<1>0. "flash" \in DOMAIN d /\ "zone" \in DOMAIN d  BY <1>1 DEF MemFields
<1>2. /\ FlashOK(x.flash) /\ DOMAIN x = DOMAIN d /\ \A y \in DOMAIN d : y # "flash" => x[y] = d[y]
      /\ \A c \in BlockIds : c # b => x.flash[c] = d.flash[c]
  BY DEF Programmed
<1>3. x.zone = d.zone  BY <1>0, <1>2
<1>4. /\ DOMAIN e = DOMAIN x /\ \A y \in DOMAIN x : y # "zone" => e[y] = x[y]
      /\ e.zone = [d.zone EXCEPT ![z] = m] /\ e.flash = x.flash
  BY <1>0, <1>2, <1>3
<1>5. SameBut({"flash", "zone"}, d, e)  BY <1>2, <1>4 DEF SameBut
<1>6. \A y \in ZoneIds : e.zone[y] = IF y = z THEN m ELSE d.zone[y]  BY <1>1, <1>4
<1>7. \A y \in ZoneIds : ZoneShaped(d.zone[y])  BY DEF Core, Shaped
<1>8. \A y \in ZoneIds : /\ ZoneShaped(e.zone[y]) /\ e.zone[y].block = d.zone[y].block
                         /\ e.zone[y].group = d.zone[y].group
  BY <1>6, <1>7
<1>9. DOMAIN e.zone = ZoneIds  BY <1>1, <1>4
<1>10. FlashOK(e.flash)  BY <1>2, <1>4
<1>11. \A c \in BlockIds : (\A y \in ZoneIds : c # d.zone[y].block) => e.flash[c] = d.flash[c]
  BY <1>2, <1>4
<1>. QED  BY <1>5, <1>8, <1>9, <1>10, <1>11, WrittenOK

(* The record of a zone with new positions in its block.                   *)
LEMMA Repositioned ==
  ASSUME NEW m, ZoneShaped(m), NEW n, DOMAIN n = DOMAIN m, n.last \in Nat,
         \A x \in DOMAIN m : x \notin {"last", "tab", "updated"} => n[x] = m[x]
  PROVE  ZoneShaped(n) /\ n.block = m.block /\ n.group = m.group
PROOF
<1>1. DOMAIN m = ZoneFields  BY DEF ZoneShaped
<1>2. n.made = m.made /\ n.block = m.block /\ n.group = m.group  BY <1>1 DEF ZoneFields
<1>. QED  BY <1>2 DEF ZoneShaped

LEMMA GroupTableSaved ==
  ASSUME NEW d, NEW s, Core(d, s), NEW z \in ZoneIds, NEW g, NEW e, e = SaveGroupTable(d, z, g)
  PROVE  Saved(d, e, s)
PROOF
<1>1. PICK m : m = d.zone[z]  OBVIOUS
<1>2. PICK b : b = m.block  OBVIOUS
<1>3. PICK body : body = m.group[g].add  OBVIOUS
<1>4. PICK x : x = ProgramPage(d, b, m.last, "group_tab", body)  OBVIOUS
<1>5. PICK n : n = [m EXCEPT !.tab[g] = m.last, !.last = m.last + 1, !.updated = TRUE]  OBVIOUS
<1>6. e = IF m.last + 1 >= PagesPerBlock THEN d ELSE [x EXCEPT !.zone[z] = n]
  BY <1>1, <1>2, <1>3, <1>4, <1>5 DEF SaveGroupTable
<1>7. CASE m.last + 1 >= PagesPerBlock
  <2>1. e = d  BY <1>6, <1>7
  <2>. QED  BY <2>1, SavedSame
<1>8. CASE ~ (m.last + 1 >= PagesPerBlock)
  <2>1. ZoneShaped(m) /\ DOMAIN d = MemFields /\ FlashOK(d.flash)
    BY <1>1 DEF Core, Shaped, ChainShaped
  <2>2. "flash" \in DOMAIN d  BY <2>1 DEF MemFields
  <2>3. Programmed(d, x, b)  BY <1>4, <2>1, <2>2, ProgramOK
  <2>4. DOMAIN m = ZoneFields /\ m.last \in Nat  BY <2>1 DEF ZoneShaped
  <2>5. PICK k : k = [m.tab EXCEPT ![g] = m.last]  OBVIOUS
  <2>6. n = [[[m EXCEPT !.tab = k] EXCEPT !.last = m.last + 1] EXCEPT !.updated = TRUE]
    BY <1>5, <2>5
  <2>7. DOMAIN n = DOMAIN m /\ \A y \in DOMAIN m : y \notin {"last", "tab", "updated"} => n[y] = m[y]
    BY <2>6
  <2>8. n.last = m.last + 1  BY <2>4, <2>6 DEF ZoneFields
  <2>9. ZoneShaped(n) /\ n.block = m.block /\ n.group = m.group
    BY <2>1, <2>4, <2>7, <2>8, Repositioned
  <2>10. e = [x EXCEPT !.zone[z] = n]  BY <1>6, <1>8
  <2>. QED  BY <1>1, <1>2, <2>3, <2>9, <2>10, ZoneWritten
<1>. QED  BY <1>7, <1>8

LEMMA ZoneTableSaved ==
  ASSUME NEW d, NEW s, Core(d, s), NEW z \in ZoneIds, NEW e, e = SaveZoneTable(d, z)
  PROVE  Saved(d, e, s)
PROOF
<1>1. PICK m : m = d.zone[z]  OBVIOUS
<1>2. PICK b : b = m.block  OBVIOUS
<1>3. PICK words : words = [g \in Groups |-> IF g < m.sized THEN m.tab[g] ELSE d.luck.word]  OBVIOUS
<1>4. PICK x : x = ProgramPage(d, b, m.last, "zone_tab", words)  OBVIOUS
<1>5. ZoneShaped(m) /\ DOMAIN d = MemFields /\ DOMAIN d.zone = ZoneIds /\ FlashOK(d.flash)
  BY <1>1 DEF Core, Shaped, ChainShaped
<1>6. PICK n : n = [m EXCEPT !.last = m.last + 1]  OBVIOUS
<1>7. "flash" \in DOMAIN d /\ "zone" \in DOMAIN d  BY <1>5 DEF MemFields
<1>8. Programmed(d, x, b)  BY <1>4, <1>5, <1>7, ProgramOK
<1>9. "zone" \in DOMAIN x /\ x.zone = d.zone  BY <1>7, <1>8 DEF Programmed
<1>10. "last" \in DOMAIN m /\ m.last \in Nat  BY <1>5 DEF ZoneShaped, ZoneFields
<1>11. /\ DOMAIN n = DOMAIN m /\ n.last \in Nat
       /\ \A y \in DOMAIN m : y \notin {"last", "tab", "updated"} => n[y] = m[y]
  BY <1>6, <1>10
<1>12. ZoneShaped(n) /\ n.block = m.block /\ n.group = m.group  BY <1>5, <1>11, Repositioned
<1>13. e = [x EXCEPT !.zone[z].last = m.last + 1]  BY <1>1, <1>2, <1>3, <1>4 DEF SaveZoneTable
<1>14. e = [x EXCEPT !.zone[z] = n]  BY <1>1, <1>5, <1>6, <1>9, <1>13
<1>. QED  BY <1>1, <1>2, <1>8, <1>12, <1>14, ZoneWritten

LEMMA GroupsSaved ==
  ASSUME NEW d, NEW s, Core(d, s), NEW z \in ZoneIds, NEW all
  PROVE  Saved(d, FlushGroups(d, z, all), s)
PROOF
<1>1. PICK n \in Nat : n = GroupsPerZone  BY PageModeAssumption
<1>2. PICK f : /\ f[0] = d /\ \A i \in 1 .. n : f[i] = FlushGroup(f[i - 1], z, i - 1, all)
               /\ FlushGroups(d, z, all) = f[n]
  BY <1>1, GroupLoop
<1> DEFINE T == {i \in 0 .. n : Saved(d, f[i], s)}
<1>3. 0 \in T  BY <1>2, SavedSame
<1>4. ASSUME NEW i \in 1 .. n, i - 1 \in T  PROVE i \in T
  <2>1. Saved(d, f[i - 1], s) /\ Core(f[i - 1], s)  BY <1>4 DEF Saved
  <2>2. f[i] = f[i - 1] \/ f[i] = SaveGroupTable(f[i - 1], z, i - 1)  BY <1>2 DEF FlushGroup
  <2>3. Saved(f[i - 1], f[i], s)  BY <2>1, <2>2, SavedSame, GroupTableSaved
  <2>4. Saved(d, f[i], s)  BY <2>1, <2>3, SavedTrans
  <2>. QED  BY <2>4
<1> HIDE DEF T
<1>5. \A i \in 0 .. n : i \in T  BY <1>3, <1>4, Counting
<1>6. n \in T  BY <1>5
<1>. QED  BY <1>2, <1>6 DEF T

-----------------------------------------------------------------------------
(* Erasing the blocks that tables have left.                               *)
(* The erased block is the last of the spare ones, unless none has been    *)
(* left before.                                                            *)
LEMMA EraseFields ==
  ASSUME NEW d, ChainShaped(d), NEW b \in Data, DOMAIN d.flash = BlockIds,
         d.spareTail = 0 \/ d.spareTail \in BlockIds, NEW e, e = EraseBlock(d, b)
  PROVE  /\ SameBut({"flash", "chain", "spareHead", "spareTail"}, d, e) /\ ChainShaped(e)
         /\ e.flash = [d.flash EXCEPT ![b] = Erased]
         /\ e.spareTail = b /\ e.spareHead = IF d.spareTail = 0 THEN b ELSE d.spareHead
         /\ \A c \in BlockIds : e.chain[c].next = IF d.spareTail # 0 /\ c = d.spareTail THEN b ELSE d.chain[c].next
PROOF
<1>1. b \in BlockIds /\ DOMAIN d = MemFields /\ DOMAIN d.chain = BlockIds
      /\ \A c \in BlockIds : DOMAIN d.chain[c] = {"next", "valid"}
  BY BlockFacts DEF ChainShaped
<1>2. PICK k : k = [d.chain EXCEPT ![b].valid = INVALID]  OBVIOUS
<1>3. PICK f : f = [d.flash EXCEPT ![b] = Erased]  OBVIOUS
<1>4. PICK x : x = [[d EXCEPT !.flash = f] EXCEPT !.chain = k]  OBVIOUS
<1>5. x = [d EXCEPT !.flash[b] = Erased, !.chain[b].valid = INVALID]  BY <1>1, <1>2, <1>3, <1>4 DEF MemFields
<1>6. e = InsertEmptyBlock(x, b)  BY <1>5 DEF EraseBlock
<1>7. DOMAIN x = MemFields /\ x.flash = f /\ x.chain = k /\ x.spareTail = d.spareTail /\ x.spareHead = d.spareHead
      /\ \A y \in MemFields : y \notin {"flash", "chain"} => x[y] = d[y]
  BY <1>1, <1>4 DEF MemFields
<1>8. /\ DOMAIN k = BlockIds /\ \A c \in BlockIds : DOMAIN k[c] = {"next", "valid"} /\ k[c].next = d.chain[c].next
  BY <1>1, <1>2
<1>9. CASE d.spareTail = 0
  <2>1. e = [[x EXCEPT !.spareHead = b] EXCEPT !.spareTail = b]  BY <1>6, <1>7, <1>9 DEF InsertEmptyBlock
  <2>2. DOMAIN e = MemFields /\ e.flash = f /\ e.chain = k /\ e.spareTail = b /\ e.spareHead = b
        /\ \A y \in MemFields : y \notin {"spareHead", "spareTail"} => e[y] = x[y]
    BY <1>7, <2>1 DEF MemFields
  <2>3. SameBut({"flash", "chain", "spareHead", "spareTail"}, d, e)  BY <1>1, <1>7, <2>2 DEF SameBut
  <2>. QED  BY <1>3, <1>8, <1>9, <2>2, <2>3 DEF ChainShaped
<1>10. CASE d.spareTail # 0
  <2>1. PICK m : m = [k EXCEPT ![b].valid = INVALID]  OBVIOUS
  <2>2. PICK n : n = [m EXCEPT ![d.spareTail].next = b]  OBVIOUS
  <2>3. d.spareTail \in BlockIds  BY <1>10
  <2>4. /\ DOMAIN m = BlockIds /\ \A c \in BlockIds : DOMAIN m[c] = {"next", "valid"} /\ m[c].next = k[c].next
    BY <1>1, <1>8, <2>1
  <2>5. /\ DOMAIN n = BlockIds
        /\ \A c \in BlockIds : /\ DOMAIN n[c] = {"next", "valid"}
                               /\ n[c].next = IF c = d.spareTail THEN b ELSE m[c].next
    BY <2>2, <2>3, <2>4
  <2>6. e = [x EXCEPT !.chain[b].valid = INVALID, !.chain[d.spareTail].next = b, !.spareTail = b]
    BY <1>6, <1>7, <1>10 DEF InsertEmptyBlock
  <2>7. e = [[x EXCEPT !.chain = n] EXCEPT !.spareTail = b]
    <3>1. [x EXCEPT !.chain[b].valid = INVALID] = [x EXCEPT !.chain = m]  BY <1>7, <2>1
    <3>2. PICK y : y = [x EXCEPT !.chain = m]  OBVIOUS
    <3>3. y.chain = m  BY <1>7, <3>2 DEF MemFields
    <3>4. [y EXCEPT !.chain[d.spareTail].next = b] = [y EXCEPT !.chain = n]  BY <2>2, <3>3
    <3>5. [y EXCEPT !.chain = n] = [x EXCEPT !.chain = n]  BY <3>2
    <3>. QED  BY <2>6, <3>1, <3>2, <3>4, <3>5
  <2>8. DOMAIN e = MemFields /\ e.flash = f /\ e.chain = n /\ e.spareTail = b /\ e.spareHead = d.spareHead
        /\ \A y \in MemFields : y \notin {"chain", "spareTail"} => e[y] = x[y]
    BY <1>7, <2>7 DEF MemFields
  <2>9. SameBut({"flash", "chain", "spareHead", "spareTail"}, d, e)  BY <1>1, <1>7, <2>8 DEF SameBut
  <2>. QED  BY <1>3, <1>8, <1>10, <2>4, <2>5, <2>8, <2>9 DEF ChainShaped
<1>. QED  BY <1>9, <1>10

LEMMA Appended ==
  ASSUME NEW S, NEW s \in Seq(S), NEW b \in S, NEW t, t = Append(s, b)
  PROVE  /\ t \in Seq(S) /\ Len(t) = Len(s) + 1 /\ t[Len(s) + 1] = b /\ \A i \in 1 .. Len(s) : t[i] = s[i]
  OBVIOUS

LEMMA TailFacts ==
  ASSUME NEW d, NEW s, Core(d, s)
  PROVE  d.spareTail = 0 \/ (d.spareTail \in BlockIds /\ d.spareTail \in Data)
PROOF
<1>1. s \in Seq(Data) /\ Len(s) \in Nat /\ \A i \in 1 .. Len(s) : s[i] \in Data /\ s[i] \in BlockIds
  BY SpareFacts
<1>2. (Len(s) = 0 => Ended(d)) /\ (Len(s) # 0 => Linked(d, s))  BY DEF Core, Chained
<1>3. CASE Len(s) = 0  BY <1>2, <1>3, BlockFacts DEF Ended
<1>4. CASE Len(s) # 0
  <2>1. Len(s) \in 1 .. Len(s)  BY <1>1, <1>4
  <2>. QED  BY <1>1, <1>2, <1>4, <2>1 DEF Linked
<1>. QED  BY <1>3, <1>4

LEMMA EraseLimbo ==
  ASSUME NEW d, NEW s, Core(d, s), NEW b, Limbo(d, s, b), NEW e, e = EraseBlock(d, b)
  PROVE  \E t : /\ Core(e, t) /\ Keeps(d, e) /\ (IndexOK(d) => IndexOK(e))
                /\ e.zoneIndex = d.zoneIndex /\ e.zone = d.zone
PROOF
<1>1. /\ b \in Data /\ b \in BlockIds /\ b \notin Tables(d) /\ b \notin Held(d) /\ ~ InSeq(s, b)
      /\ d.spareHead \in BlockIds => d.chain[b].next \notin BlockIds
  BY BlockFacts DEF Limbo
<1>2. ChainShaped(d) /\ DOMAIN d = MemFields /\ DOMAIN d.flash = BlockIds /\ FlashOK(d.flash) /\ d.stop = "no"
      /\ ~ d.luck.strays
  BY DEF Core, Shaped, ChainShaped, FlashOK
<1>3. s \in Seq(Data) /\ Len(s) \in Nat /\ \A i \in 1 .. Len(s) : s[i] \in Data /\ s[i] \in BlockIds
  BY SpareFacts
<1>4. (Len(s) = 0 => Ended(d)) /\ (Len(s) # 0 => Linked(d, s))  BY DEF Core, Chained
<1>5. d.spareTail = 0 \/ (d.spareTail \in BlockIds /\ d.spareTail \in Data)  BY TailFacts
<1>6. /\ SameBut({"flash", "chain", "spareHead", "spareTail"}, d, e) /\ ChainShaped(e)
      /\ e.flash = [d.flash EXCEPT ![b] = Erased]
      /\ e.spareTail = b /\ e.spareHead = IF d.spareTail = 0 THEN b ELSE d.spareHead
      /\ \A c \in BlockIds : e.chain[c].next = IF d.spareTail # 0 /\ c = d.spareTail THEN b ELSE d.chain[c].next
  BY <1>1, <1>2, <1>5, EraseFields
<1>7. /\ e.zone = d.zone /\ e.zoneIndex = d.zoneIndex /\ e.active = d.active /\ e.head = d.head /\ e.tail = d.tail
      /\ e.link = d.link /\ e.stop = "no" /\ e.luck = d.luck /\ DOMAIN e = MemFields
  BY <1>2, <1>6 DEF SameBut, MemFields
<1>8. e.flash[b] = Erased /\ \A c \in BlockIds : c # b => e.flash[c] = d.flash[c]  BY <1>1, <1>2, <1>6
<1>9. Keeps(d, e)  BY <1>1, <1>7, <1>8 DEF Keeps, SameGroups
<1>10. Tables(e) = Tables(d) /\ Held(e) = Held(d) /\ MappedIn(e) = MappedIn(d)
  BY <1>7, <1>9, KeepsHeld DEF Tables
<1>11. ActiveOK(e) /\ MappedOK(e)  BY <1>9, KeptData
<1>12. FlashOK(e.flash)  BY <1>1, <1>2, <1>6, EraseOK
<1>13. Shaped(e)  BY <1>6, <1>7 DEF Core, Shaped
<1>14. Roles(e)  BY <1>7, <1>10 DEF Core, Roles
<1>15. ASSUME IndexOK(d)  PROVE IndexOK(e)
  <2>1. d.zoneIndex.block \in Tables(d) /\ d.zoneIndex.block \in BlockIds
    BY BlockFacts DEF Core, Roles, Tables
  <2>2. e.flash[d.zoneIndex.block] = d.flash[d.zoneIndex.block]  BY <1>1, <1>8, <2>1
  <2>. QED  BY ONLY <1>7, <1>15, <2>2 DEF IndexOK
<1>16. \A i \in 1 .. Len(s) : /\ e.flash[s[i]].last = 0 /\ s[i] \notin Tables(e) /\ s[i] \notin Held(e) /\ s[i] # b
  <2>1. SUFFICES ASSUME NEW i \in 1 .. Len(s)
                 PROVE  e.flash[s[i]].last = 0 /\ s[i] \notin Tables(e) /\ s[i] \notin Held(e) /\ s[i] # b
    OBVIOUS
  <2>2. d.flash[s[i]].last = 0 /\ s[i] \notin Tables(d) /\ s[i] \notin Held(d)  BY DEF Core, Unused
  <2>3. s[i] # b /\ s[i] \in BlockIds  BY <1>1, <1>3 DEF InSeq
  <2>. QED  BY <1>8, <1>10, <2>2, <2>3
<1>17. Erased.last = 0  BY DEF Erased
<1>18. \E t : Chained(e, t) /\ Unused(e, t) /\ Marked(e)
  <2>1. CASE Len(s) = 0 /\ d.spareTail # 0
    <3>1. e.spareHead \notin BlockIds /\ e.spareTail \in Data  BY <1>1, <1>4, <1>6, <2>1, BlockFacts DEF Ended
    <3>2. Chained(e, s)  BY <2>1, <3>1 DEF Chained, Core, Ended
    <3>3. Unused(e, s)  BY <1>16 DEF Unused
    <3>. QED  BY <3>1, <3>2, <3>3 DEF Marked
  <2>2. CASE Len(s) = 0 /\ d.spareTail = 0
    <3>1. PICK t : t = <<b>>  OBVIOUS
    <3>2. t \in Seq(Data) /\ Len(t) = 1 /\ t[1] = b  BY <1>1, <3>1
    <3>3. d.spareHead \in BlockIds  BY <1>4, <2>2, BlockFacts DEF Ended
    <3>4. e.spareHead = b /\ e.spareTail = b /\ \A c \in BlockIds : e.chain[c].next = d.chain[c].next
      BY <1>6, <2>2
    <3>5. Distinct(t)  BY <3>2 DEF Distinct
    <3>6. Linked(e, t)  BY <1>1, <3>2, <3>3, <3>4 DEF Linked
    <3>7. Chained(e, t)  BY <3>2, <3>5, <3>6 DEF Chained
    <3>8. Unused(e, t)  BY <1>1, <1>8, <1>10, <1>17, <3>2 DEF Unused
    <3>9. Marked(e)  BY <1>10, <3>3, <3>4 DEF Core, Marked
    <3>. QED  BY <3>7, <3>8, <3>9
  <2>3. CASE Len(s) # 0
    <3>1. PICK t : t = Append(s, b)  OBVIOUS
    <3>2. t \in Seq(Data) /\ Len(t) = Len(s) + 1 /\ t[Len(s) + 1] = b /\ \A i \in 1 .. Len(s) : t[i] = s[i]
      BY <1>1, <1>3, <3>1, Appended
    <3>3. Len(s) \in Nat /\ Len(s) >= 1  BY <1>3, <2>3
    <3>4. Linked(d, s) /\ d.spareTail = s[Len(s)] /\ d.spareTail \in Data /\ d.spareTail # 0 /\ d.spareHead = s[1]
      BY <1>3, <1>4, <2>3, <3>3, BlockFacts DEF Linked
    <3>5. d.spareHead \in BlockIds  BY <1>3, <3>3, <3>4
    <3>6. \A i \in 1 .. Len(t) : i = Len(s) + 1 \/ i \in 1 .. Len(s)  BY <3>2, <3>3
    <3>7. Distinct(t)
      <4>1. SUFFICES ASSUME NEW i \in 1 .. Len(t), NEW j \in 1 .. Len(t), t[i] = t[j]  PROVE i = j
        BY <3>2 DEF Distinct
      <4>2. CASE i \in 1 .. Len(s) /\ j \in 1 .. Len(s)
        BY <3>2, <4>1, <4>2 DEF Core, Chained, Distinct
      <4>. QED  BY <1>16, <3>2, <3>6, <4>1, <4>2
    <3>8. Linked(e, t)
      <4>1. e.spareHead = t[1] /\ e.spareTail = t[Len(t)]
        <5>1. 1 \in 1 .. Len(s)  BY <3>3
        <5>2. t[1] = s[1]  BY <3>2, <5>1
        <5>3. e.spareHead = d.spareHead  BY <1>6, <3>4
        <5>. QED  BY <1>6, <3>2, <3>4, <5>2, <5>3
      <4>2. e.chain[t[Len(t)]].next \notin BlockIds
        <5>1. b # d.spareTail  BY <1>1, <3>3, <3>4 DEF InSeq
        <5>2. e.chain[b].next = d.chain[b].next  BY <1>1, <1>6, <5>1
        <5>. QED  BY <1>1, <3>2, <3>5, <5>2
      <4>3. ASSUME NEW i \in 1 .. Len(t) - 1  PROVE e.chain[t[i]].next = t[i + 1]
        <5>1. i \in 1 .. Len(s) /\ t[i] = s[i] /\ s[i] \in BlockIds  BY <1>3, <3>2, <3>3
        <5>2. CASE i = Len(s)
          <6>1. t[i + 1] = b /\ s[i] = d.spareTail  BY <3>2, <3>4, <5>2
          <6>. QED  BY <1>6, <3>4, <5>1, <6>1
        <5>3. CASE i # Len(s)
          <6>1. i \in 1 .. Len(s) - 1 /\ i + 1 \in 1 .. Len(s) /\ Len(s) \in 1 .. Len(s)  BY <3>3, <5>1, <5>3
          <6>2. s[i] # s[Len(s)]  BY <5>1, <5>3, <6>1 DEF Core, Chained, Distinct
          <6>3. e.chain[s[i]].next = d.chain[s[i]].next  BY <1>6, <3>4, <5>1, <6>2
          <6>4. d.chain[s[i]].next = s[i + 1]  BY <3>4, <6>1 DEF Linked
          <6>. QED  BY <3>2, <5>1, <6>1, <6>3, <6>4
        <5>. QED  BY <5>2, <5>3
      <4>. QED  BY <4>1, <4>2, <4>3 DEF Linked
    <3>9. Chained(e, t)  BY <3>2, <3>3, <3>7, <3>8 DEF Chained
    <3>10. Unused(e, t)
      <4>1. SUFFICES ASSUME NEW i \in 1 .. Len(t)
                     PROVE  e.flash[t[i]].last = 0 /\ t[i] \notin Tables(e) /\ t[i] \notin Held(e)
        BY DEF Unused
      <4>2. CASE i \in 1 .. Len(s)  BY <1>16, <3>2, <4>2
      <4>3. CASE i = Len(s) + 1  BY <1>1, <1>8, <1>10, <1>17, <3>2, <4>3
      <4>. QED  BY <3>6, <4>2, <4>3
    <3>11. Marked(e)
      <4>1. SUFFICES ASSUME NEW c \in Tables(e), c \in BlockIds  PROVE e.chain[c].next \notin BlockIds
        BY DEF Marked
      <4>2. Len(s) \in 1 .. Len(s)  BY <3>3
      <4>3. c # d.spareTail  BY <1>16, <3>4, <4>1, <4>2
      <4>. QED  BY <1>6, <1>10, <3>5, <4>1, <4>3 DEF Core, Marked
    <3>. QED  BY <3>9, <3>10, <3>11
  <2>. QED  BY <2>1, <2>2, <2>3
<1>19. PICK t : Chained(e, t) /\ Unused(e, t) /\ Marked(e)  BY <1>18
<1>20. Core(e, t)  BY <1>2, <1>7, <1>11, <1>12, <1>13, <1>14, <1>19 DEF Core
<1>. QED  BY <1>7, <1>9, <1>15, <1>20

-----------------------------------------------------------------------------
(* Taking a block for a table or for data.  x is the state d in which the  *)
(* caller has changed its own record first.                                *)
Taken(d, x, e, b, t) ==
  /\ e.popped = b /\ e.stop = "no" /\ SameBut({"chain", "spareHead", "popped"}, x, e)
  /\ ChainShaped(e) /\ Chained(e, t)
  /\ b \in Data /\ b \notin Tables(d) /\ b \notin Held(d) /\ d.flash[b].last = 0 /\ ~ InSeq(t, b)
  /\ d.spareHead \in BlockIds /\ e.chain[b].next \notin BlockIds
  /\ \A c \in BlockIds : c # b => e.chain[c] = d.chain[c]
  /\ \A i \in 1 .. Len(t) : /\ d.flash[t[i]].last = 0 /\ t[i] \notin Tables(d) /\ t[i] \notin Held(d)
                            /\ t[i] # b /\ t[i] \in BlockIds

LEMMA TakesSpare ==
  ASSUME NEW d, NEW s, Core(d, s), NEW x, DOMAIN x = MemFields, x.chain = d.chain, x.stop = d.stop, x.luck = d.luck,
         x.flash = d.flash, x.spareHead = d.spareHead, x.spareTail = d.spareTail,
         NEW e, e = PopupEmptyBlock(x)
  PROVE  \/ (e.stop # "no" /\ e.flash = d.flash)
         \/ \E b, t : Taken(d, x, e, b, t)
PROOF
<1>1. ChainShaped(x) /\ Chained(x, s) /\ x.stop = "no" /\ ~ x.luck.strays
  BY DEF Core, Shaped, ChainShaped, Chained, Ended, Linked
<1>2. PICK t : t = Tail(s)  OBVIOUS
<1>3. (e.stop # "no" /\ e.flash = x.flash) \/ Popped(x, e, s, t)
  BY <1>1, <1>2, PopupTakes
<1>4. CASE e.stop # "no" /\ e.flash = x.flash  BY <1>4
<1>5. CASE Popped(x, e, s, t)
  <2>1. PICK b : b = s[1]  OBVIOUS
  <2>2. /\ s \in Seq(Data) /\ Len(s) \in Nat /\ \A i, j \in 1 .. Len(s) : s[i] = s[j] => i = j
        /\ \A i \in 1 .. Len(s) : s[i] \in Data /\ s[i] \in BlockIds
    BY SpareFacts
  <2>3. 1 \in 1 .. Len(s)  BY <1>5, <2>2 DEF Popped
  <2>4. b \in Data /\ b \in BlockIds /\ b \notin Tables(d) /\ b \notin Held(d) /\ d.flash[b].last = 0
    BY <2>1, <2>2, <2>3 DEF Core, Unused
  <2>5. d.spareHead \in BlockIds
    <3>1. Linked(d, s)  BY <1>5, <2>2 DEF Core, Chained, Popped
    <3>. QED  BY <2>1, <2>4, <3>1 DEF Linked
  <2>6. Len(t) = Len(s) - 1 /\ \A i \in 1 .. Len(s) - 1 : t[i] = s[i + 1]  BY <1>2, <1>5, <2>2, RestOf DEF Popped
  <2>7. ASSUME NEW i \in 1 .. Len(t)
        PROVE  /\ d.flash[t[i]].last = 0 /\ t[i] \notin Tables(d) /\ t[i] \notin Held(d)
               /\ t[i] # b /\ t[i] \in BlockIds
    <3>1. i + 1 \in 1 .. Len(s) /\ i + 1 # 1 /\ t[i] = s[i + 1]  BY <2>2, <2>6
    <3>2. s[i + 1] # s[1]  BY <2>2, <2>3, <3>1
    <3>3. d.flash[s[i + 1]].last = 0 /\ s[i + 1] \notin Tables(d) /\ s[i + 1] \notin Held(d)
      BY <3>1 DEF Core, Unused
    <3>. QED  BY <2>1, <2>2, <3>1, <3>2, <3>3
  <2>8. ~ InSeq(t, b)  BY <2>7 DEF InSeq
  <2>9. e.popped = b /\ e.chain[b].next \notin BlockIds /\ \A c \in BlockIds : c # b => e.chain[c] = d.chain[c]
    BY <1>5, <2>1 DEF Popped
  <2>10. Taken(d, x, e, b, t)  BY <1>5, <2>4, <2>5, <2>7, <2>8, <2>9 DEF Taken, Popped
  <2>. QED  BY <2>10
<1>. QED  BY <1>3, <1>4, <1>5

(* A table moves to the block b that has been taken: that of zone z, or    *)
(* the zone index, if z is none.                                           *)
TableBlock(d, z) == IF z \in ZoneIds THEN d.zone[z].block ELSE d.zoneIndex.block

Moved(d, w, e, z, b) ==
  /\ DOMAIN e = MemFields /\ DOMAIN e.zone = ZoneIds
  /\ \A y \in ZoneIds : /\ ZoneShaped(e.zone[y]) /\ e.zone[y].group = d.zone[y].group
                         /\ e.zone[y].block = IF y = z THEN b ELSE d.zone[y].block
  /\ DOMAIN e.zoneIndex = {"block", "last", "updated", "map"} /\ DOMAIN e.zoneIndex.map = ZoneIds
  /\ e.zoneIndex.block = IF z \in ZoneIds THEN d.zoneIndex.block ELSE b
  /\ e.flash = d.flash /\ e.chain = w.chain /\ e.spareHead = w.spareHead /\ e.spareTail = w.spareTail
  /\ e.head = d.head /\ e.tail = d.tail /\ e.active = d.active /\ e.link = d.link /\ e.stop = "no"
  /\ e.luck = d.luck

LEMMA MovedTable ==
  ASSUME NEW d, NEW s, Core(d, s), NEW z, NEW x, NEW w, NEW b, NEW t, Taken(d, x, w, b, t),
         NEW e, Moved(d, w, e, z, b), NEW old, old = TableBlock(d, z)
  PROVE  /\ Core(e, t) /\ Keeps(d, e)
         /\ old # INVALID => Limbo(e, t, old)
PROOF
<1>6. /\ DOMAIN e = MemFields /\ DOMAIN e.zone = ZoneIds
      /\ \A y \in ZoneIds : /\ ZoneShaped(e.zone[y]) /\ e.zone[y].group = d.zone[y].group
                             /\ e.zone[y].block = IF y = z THEN b ELSE d.zone[y].block
      /\ e.zoneIndex.block = IF z \in ZoneIds THEN d.zoneIndex.block ELSE b
      /\ DOMAIN e.zoneIndex = {"block", "last", "updated", "map"} /\ DOMAIN e.zoneIndex.map = ZoneIds
  BY DEF Moved
<1>7. /\ e.flash = d.flash /\ e.chain = w.chain /\ e.spareHead = w.spareHead /\ e.spareTail = w.spareTail
      /\ e.head = d.head /\ e.tail = d.tail /\ e.active = d.active /\ e.link = d.link /\ e.stop = "no"
      /\ ~ e.luck.strays
  BY DEF Moved, Core
<1>8. Keeps(d, e)
  <2>1. SameGroups(d, e)  BY <1>6 DEF SameGroups
  <2>. QED  BY <1>7, <2>1 DEF Keeps
<1>9. Held(e) = Held(d) /\ MappedIn(e) = MappedIn(d)  BY <1>8, KeepsHeld
<1>10. ActiveOK(e) /\ MappedOK(e)  BY <1>8, KeptData
<1>11. b \in Data /\ b \notin Tables(d) /\ b \notin Held(d) /\ b \in BlockIds  BY BlockFacts DEF Taken
<1>12. \A c \in Tables(e) : c = b \/ c \in Tables(d)
  BY <1>6, <1>7 DEF Tables
<1>13. Shaped(e)
  <2>1. ChainShaped(e)  BY <1>6, <1>7 DEF Taken, ChainShaped
  <2>2. \A y \in ZoneIds : ZoneShaped(e.zone[y])  BY <1>6 DEF Core, Shaped
  <2>. QED  BY <1>6, <1>7, <2>1, <2>2 DEF Core, Shaped
<1>14. Roles(e)
  <2>1. Roles(d)  BY DEF Core
  <2>2. e.zoneIndex.block \in Data /\ e.link.block \in Data  BY <1>6, <1>7, <1>11, <2>1 DEF Roles
  <2>3. e.link.block # e.active.block /\ e.link.block # e.tail /\ e.link.block \notin MappedIn(e)
    BY <1>7, <1>9, <2>1 DEF Roles
  <2>4. \A c \in Tables(e) : c \in Held(e) => c = INVALID  BY <1>9, <1>11, <1>12, <2>1 DEF Roles
  <2>5. /\ \A y \in ZoneIds : e.zone[y].block = IF y = z THEN b ELSE d.zone[y].block
        /\ e.zoneIndex.block = IF z \in ZoneIds THEN d.zoneIndex.block ELSE b
    BY <1>6
  <2>6. \A y \in ZoneIds : d.zone[y].block # b /\ d.zoneIndex.block # b  BY <1>11 DEF Tables
  <2>7. ASSUME NEW y \in ZoneIds
        PROVE  /\ e.zone[y].block \in Data \cup {INVALID} /\ e.zone[y].block # e.zoneIndex.block
               /\ \A v \in ZoneIds : e.zone[y].block = e.zone[v].block => y = v \/ e.zone[y].block = INVALID
    BY <1>11, <2>1, <2>5, <2>6 DEF Roles
  <2>. QED  BY <2>2, <2>3, <2>4, <2>7 DEF Roles
<1>15. Chained(e, t)  BY <1>7 DEF Taken, Chained, Ended, Linked
<1>16. Unused(e, t)  BY <1>7, <1>9, <1>12 DEF Taken, Unused
<1>17. Marked(e)
  <2>1. SUFFICES ASSUME NEW c \in Tables(e), c \in BlockIds  PROVE e.chain[c].next \notin BlockIds
    BY DEF Marked
  <2>2. CASE c = b  BY <1>7, <2>2 DEF Taken
  <2>3. CASE c # b
    <3>1. c \in Tables(d) /\ e.chain[c] = d.chain[c]  BY <1>7, <1>12, <2>1, <2>3 DEF Taken
    <3>2. d.spareHead \in BlockIds  BY DEF Taken
    <3>. QED  BY <2>1, <3>1, <3>2 DEF Core, Marked
  <2>. QED  BY <2>2, <2>3
<1>18. Core(e, t)  BY <1>7, <1>10, <1>13, <1>14, <1>15, <1>16, <1>17 DEF Core
<1>20. ASSUME old # INVALID  PROVE Limbo(e, t, old)
  <2>1. old \in Data /\ old \in Tables(d) /\ old \notin Held(d) /\ old \in BlockIds
    <3>1. old \in Data /\ old \in Tables(d)  BY <1>20 DEF Core, Roles, Tables, TableBlock
    <3>. QED  BY <1>20, <3>1, BlockFacts DEF Core, Roles
  <2>2. old \notin Tables(e)
    <3>1. old # b  BY <1>11, <2>1
    <3>2. old # e.zoneIndex.block  BY <1>6, <3>1 DEF Core, Roles, TableBlock
    <3>3. \A y \in ZoneIds : old # e.zone[y].block
      <4>1. CASE z \in ZoneIds
        <5>1. old = d.zone[z].block  BY <4>1 DEF TableBlock
        <5>2. \A y \in ZoneIds : y # z => d.zone[y].block # old  BY <1>20, <4>1, <5>1 DEF Core, Roles
        <5>. QED  BY <1>6, <3>1, <5>2
      <4>2. CASE z \notin ZoneIds
        <5>1. old = d.zoneIndex.block  BY <4>2 DEF TableBlock
        <5>2. \A y \in ZoneIds : d.zone[y].block # old  BY <5>1 DEF Core, Roles
        <5>. QED  BY <1>6, <4>2, <5>2
      <4>. QED  BY <4>1, <4>2
    <3>. QED  BY <3>2, <3>3 DEF Tables
  <2>3. ~ InSeq(t, old)  BY <2>1 DEF Taken, InSeq
  <2>4. e.chain[old].next \notin BlockIds
    <3>1. e.chain[old] = d.chain[old] /\ d.spareHead \in BlockIds
      BY <1>7, <1>11, <2>1 DEF Taken
    <3>. QED  BY <2>1, <3>1 DEF Core, Marked
  <2>. QED  BY <1>9, <2>1, <2>2, <2>3, <2>4 DEF Limbo
<1>. QED  BY <1>8, <1>18, <1>20

Opens(d, e, t, z, old) ==
  /\ Core(e, t) /\ Keeps(d, e) /\ (IndexOK(d) => IndexOK(e)) /\ e.zoneIndex = d.zoneIndex
  /\ \A y \in ZoneIds : y # z => e.zone[y].block = d.zone[y].block
  /\ e.zone[z].block \in Data /\ (old # INVALID => Limbo(e, t, old))

LEMMA OpenZone ==
  ASSUME NEW d, NEW s, Core(d, s), NEW z \in ZoneIds, d.zone[z].made,
         NEW w, w = TakeZoneBlock(d, z), NEW e, e = OpenZoneBlock(w, z), NEW old, old = d.zone[z].block
  PROVE  \/ (w.stop # "no" /\ w.flash = d.flash)
         \/ \E t : w.stop = "no" /\ Opens(d, e, t, z, old)
PROOF
<1>0. PICK m, x : m = LeaveBlock(d.zone[z]) /\ x = [d EXCEPT !.zone[z] = m]  OBVIOUS
<1>1. DOMAIN d = MemFields /\ DOMAIN d.zone = ZoneIds /\ ZoneShaped(d.zone[z]) /\ d.zone[z].made
  BY DEF Core, Shaped, ChainShaped
<1>2. DOMAIN d.zone[z] = ZoneFields  BY <1>1 DEF ZoneShaped
<1>3. /\ DOMAIN m = ZoneFields /\ m.last = 0 /\ m.group = d.zone[z].group /\ m.made
  BY <1>0, <1>1, <1>2 DEF ZoneFields, LeaveBlock
<1>10. w = PopupEmptyBlock(x)  BY <1>0, <1>1 DEF TakeZoneBlock
<1>4. /\ DOMAIN x = MemFields /\ DOMAIN x.zone = ZoneIds /\ x.zone[z] = m
      /\ (\A y \in ZoneIds : y # z => x.zone[y] = d.zone[y]) /\ \A f \in MemFields : f # "zone" => x[f] = d[f]
  BY <1>0, <1>1 DEF MemFields
<1>5. /\ x.chain = d.chain /\ x.stop = d.stop /\ x.flash = d.flash /\ x.spareHead = d.spareHead
      /\ x.spareTail = d.spareTail /\ x.luck = d.luck
  BY <1>4 DEF MemFields
<1>6. (w.stop # "no" /\ w.flash = d.flash) \/ \E b, t : Taken(d, x, w, b, t)
  BY <1>4, <1>5, <1>10, TakesSpare
<1>7. ASSUME NEW b, NEW t, Taken(d, x, w, b, t)
      PROVE  Moved(d, w, e, z, b) /\ w.stop = "no" /\ e.zoneIndex = d.zoneIndex
  <2>1. w.popped = b /\ w.stop = "no" /\ DOMAIN w = MemFields /\ w.zone = x.zone
        /\ \A f \in MemFields : f \notin {"chain", "spareHead", "popped"} => w[f] = x[f]
    BY <1>4, <1>7 DEF Taken, SameBut, MemFields
  <2>2. PICK n : n = [m EXCEPT !.block = b]  OBVIOUS
  <2>3. n.block = b /\ n.last = 0 /\ DOMAIN n = ZoneFields /\ n.group = d.zone[z].group /\ n.made
    BY <1>3, <2>2 DEF ZoneFields
  <2>4. ZoneShaped(n)  BY <1>1, <2>3 DEF ZoneShaped
  <2>5. e = [w EXCEPT !.zone[z] = n]  BY <1>4, <2>1, <2>2 DEF OpenZoneBlock
  <2>6. /\ DOMAIN e = MemFields /\ DOMAIN e.zone = ZoneIds /\ e.zone[z] = n
        /\ (\A y \in ZoneIds : y # z => e.zone[y] = w.zone[y]) /\ \A f \in MemFields : f # "zone" => e[f] = w[f]
    BY <1>4, <2>1, <2>5 DEF MemFields
  <2>7. /\ e.flash = d.flash /\ e.chain = w.chain /\ e.spareHead = w.spareHead /\ e.spareTail = w.spareTail
        /\ e.head = d.head /\ e.tail = d.tail /\ e.active = d.active /\ e.zoneIndex = d.zoneIndex
        /\ e.link = d.link /\ e.stop = "no" /\ e.luck = d.luck
    BY <1>4, <2>1, <2>6 DEF MemFields
  <2>8. \A y \in ZoneIds : e.zone[y] = IF y = z THEN n ELSE d.zone[y]  BY <1>4, <2>1, <2>6
  <2>9. \A y \in ZoneIds : ZoneShaped(d.zone[y])  BY DEF Core, Shaped
  <2>10. \A y \in ZoneIds : /\ ZoneShaped(e.zone[y]) /\ e.zone[y].group = d.zone[y].group
                            /\ e.zone[y].block = IF y = z THEN b ELSE d.zone[y].block
    BY ONLY <2>3, <2>4, <2>8, <2>9
  <2>11. /\ DOMAIN e.zoneIndex = {"block", "last", "updated", "map"} /\ DOMAIN e.zoneIndex.map = ZoneIds
         /\ e.zoneIndex.block = IF z \in ZoneIds THEN d.zoneIndex.block ELSE b
    BY <2>7 DEF Core, Shaped
  <2>12. Moved(d, w, e, z, b)  BY ONLY <2>6, <2>7, <2>10, <2>11 DEF Moved
  <2>. QED  BY <2>1, <2>7, <2>12
<1>8. CASE w.stop # "no" /\ w.flash = d.flash  BY <1>8
<1>9. CASE \E b, t : Taken(d, x, w, b, t)
  <2>1. PICK b, t : Taken(d, x, w, b, t)  BY <1>9
  <2>2. Moved(d, w, e, z, b) /\ w.stop = "no" /\ e.zoneIndex = d.zoneIndex  BY <1>7, <2>1
  <2>3. old = TableBlock(d, z)  BY DEF TableBlock
  <2>4. Core(e, t) /\ Keeps(d, e) /\ (old # INVALID => Limbo(e, t, old))
    BY <2>1, <2>2, <2>3, MovedTable
  <2>5. e.flash = d.flash /\ \A y \in ZoneIds : y # z => e.zone[y].block = d.zone[y].block
    BY <2>2 DEF Moved
  <2>6. IndexOK(d) => IndexOK(e)  BY ONLY <2>2, <2>5 DEF IndexOK
  <2>7. e.zone[z].block \in Data  BY <2>1, <2>2 DEF Moved, Taken
  <2>. QED  BY <2>2, <2>4, <2>5, <2>6, <2>7 DEF Opens
<1>. QED  BY <1>6, <1>8, <1>9

-----------------------------------------------------------------------------
(* FlushZone.                                                              *)
LEMMA CoreSame ==
  ASSUME NEW d, NEW s, Core(d, s), NEW e, SameBut({"zoneIndex", "luck", "popped"}, d, e), ~ e.luck.strays,
         NEW i, i = e.zoneIndex, i.block = d.zoneIndex.block,
         DOMAIN i = {"block", "last", "updated", "map"}, DOMAIN i.map = ZoneIds
  PROVE  Core(e, s) /\ Keeps(d, e)
PROOF
<1>1. DOMAIN e = MemFields /\ DOMAIN d = MemFields  BY DEF SameBut, Core, Shaped, ChainShaped
<1>2. /\ e.chain = d.chain /\ e.spareHead = d.spareHead /\ e.spareTail = d.spareTail /\ e.head = d.head
      /\ e.tail = d.tail /\ e.active = d.active /\ e.zone = d.zone /\ e.link = d.link /\ e.flash = d.flash
      /\ e.stop = d.stop
  BY <1>1 DEF SameBut, MemFields
<1>3. Keeps(d, e)  BY <1>2 DEF Keeps, SameGroups
<1>4. Held(e) = Held(d) /\ MappedIn(e) = MappedIn(d)  BY <1>3, KeepsHeld
<1>5. Tables(e) = Tables(d)  BY <1>2 DEF Tables
<1>6. ActiveOK(e) /\ MappedOK(e)  BY <1>3, KeptData
<1>7. Shaped(e)  BY <1>1, <1>2 DEF Core, Shaped, ChainShaped
<1>8. Roles(e)  BY <1>2, <1>4, <1>5 DEF Core, Roles
<1>9. Chained(e, s)  BY <1>2 DEF Core, Chained, Ended, Linked
<1>10. Unused(e, s)  BY <1>2, <1>4, <1>5 DEF Core, Unused
<1>11. Marked(e)  BY <1>2, <1>5 DEF Core, Marked
<1>12. FlashOK(e.flash) /\ e.stop = "no" /\ ~ e.luck.strays  BY <1>2 DEF Core
<1>. QED  BY <1>3, <1>6, <1>7, <1>8, <1>9, <1>10, <1>11, <1>12 DEF Core

(* The zone index names the block of a zone from now on.                   *)
Names(d, e, z, b) ==
  /\ IndexOK(e) /\ Keeps(d, e) /\ e.zone = d.zone
  /\ e.zoneIndex.map[z] = b /\ \A y \in ZoneIds : y # z => e.zoneIndex.map[y] = d.zoneIndex.map[y]

LEMMA IndexNames ==
  ASSUME NEW d, NEW s, Core(d, s), IndexOK(d), NEW z \in ZoneIds, NEW b, b # INVALID, NEW e, e = NameZoneBlock(d, z, b)
  PROVE  Core(e, s) /\ Names(d, e, z, b)
PROOF
<1>1. /\ DOMAIN d = MemFields /\ DOMAIN d.zoneIndex = {"block", "last", "updated", "map"}
      /\ DOMAIN d.zoneIndex.map = ZoneIds
  BY DEF Core, Shaped, ChainShaped
<1>2. PICK k : k = [d.zoneIndex.map EXCEPT ![z] = b]  OBVIOUS
<1>3. PICK i : i = [d.zoneIndex EXCEPT !.map = k, !.updated = TRUE]  OBVIOUS
<1>4. DOMAIN k = ZoneIds /\ k[z] = b /\ \A y \in ZoneIds : y # z => k[y] = d.zoneIndex.map[y]
  BY <1>1, <1>2
<1>5. /\ DOMAIN i = {"block", "last", "updated", "map"} /\ i.map = k /\ i.updated = TRUE
      /\ i.block = d.zoneIndex.block /\ i.last = d.zoneIndex.last
  BY <1>1, <1>3
<1>6. e = [d EXCEPT !.zoneIndex = i]  BY <1>1, <1>2, <1>3 DEF NameZoneBlock
<1>7. e.zoneIndex = i /\ DOMAIN e = MemFields /\ \A y \in MemFields : y # "zoneIndex" => e[y] = d[y]
  BY <1>1, <1>6 DEF MemFields
<1>8. SameBut({"zoneIndex", "luck", "popped"}, d, e)  BY <1>1, <1>7 DEF SameBut
<1>9. e.zone = d.zone /\ e.flash = d.flash /\ ~ e.luck.strays  BY <1>7 DEF MemFields, Core
<1>10. DOMAIN i.map = ZoneIds  BY <1>4, <1>5
<1>11. Core(e, s) /\ Keeps(d, e)  BY <1>5, <1>7, <1>8, <1>9, <1>10, CoreSame
<1>12. IndexOK(e)  BY <1>5, <1>7, <1>9 DEF IndexOK
<1>. QED  BY <1>4, <1>5, <1>7, <1>9, <1>11, <1>12 DEF Names

LEMMA LimboStays ==
  ASSUME NEW d, NEW e, NEW s, Saved(d, e, s), NEW b, Limbo(d, s, b)
  PROVE  Limbo(e, s, b)
  BY DEF Saved, Limbo

(* What a call of the mapping table does to the memory, when it does not   *)
(* end early.                                                              *)
Flushed(d, e) ==
  \/ e.stop # "no" /\ FlashOK(e.flash)
  \/ \E t : Mem(e, t) /\ Keeps(d, e) /\ (Named(d) => Named(e))

LEMMA ZoneSaved ==
  ASSUME NEW d, NEW s, Core(d, s), NEW z \in ZoneIds, NEW all, NEW e, e = SaveZone(d, z, all)
  PROVE  Saved(d, e, s)
PROOF
<1>1. PICK x : x = FlushGroups(d, z, all)  OBVIOUS
<1>2. Saved(d, x, s)  BY <1>1, GroupsSaved
<1>3. Core(x, s)  BY <1>2 DEF Saved
<1>4. e = IF x.zone[z].updated THEN SaveZoneTable(x, z) ELSE x  BY <1>1 DEF SaveZone
<1>5. Saved(x, e, s)  BY <1>3, <1>4, SavedSame, ZoneTableSaved
<1>. QED  BY <1>2, <1>5, SavedTrans

Frees(d, e, t) ==
  /\ Core(e, t) /\ Keeps(d, e) /\ (IndexOK(d) => IndexOK(e))
  /\ e.zoneIndex = d.zoneIndex /\ e.zone = d.zone

LEMMA ZoneFlushed ==
  ASSUME NEW d, NEW s, Mem(d, s), NEW z \in ZoneIds, NEW e, e = FlushZone(d, z)
  PROVE  Flushed(d, e)
PROOF
<1>1. Core(d, s) /\ IndexOK(d) /\ d.stop = "no" /\ FlashOK(d.flash)  BY DEF Mem, Core
<1>2. PICK m : m = d.zone[z]  OBVIOUS
<1>3. PICK taken, opened : taken = TakeZoneBlock(d, z) /\ opened = OpenZoneBlock(taken, z)  OBVIOUS
<1>4. PICK saved : saved = SaveZone(opened, z, TRUE)  OBVIOUS
<1>5. PICK old, b : old = m.block /\ b = opened.zone[z].block  OBVIOUS
<1>6. PICK freed : freed = IF old = INVALID THEN saved ELSE EraseBlock(saved, old)  OBVIOUS
<1>7. e = IF ~m.made \/ d.stop # "no" THEN d
          ELSE IF m.last < PagesPerBlock \/ ~m.changed THEN SaveZone(d, z, FALSE)
          ELSE IF taken.stop # "no" THEN taken
          ELSE NameZoneBlock(freed, z, b)
  BY <1>2, <1>3, <1>4, <1>5, <1>6 DEF FlushZone, EraseReplaced
<1>8. CASE ~ m.made
  <2>1. e = d  BY <1>7, <1>8
  <2>2. Keeps(d, d)  BY DEF Keeps, SameGroups
  <2>. QED  BY <2>1, <2>2 DEF Flushed
<1>9. CASE m.made /\ (m.last < PagesPerBlock \/ ~ m.changed)
  <2>1. e = SaveZone(d, z, FALSE)  BY <1>1, <1>7, <1>9
  <2>2. Saved(d, e, s)  BY <1>1, <2>1, ZoneSaved
  <2>3. Mem(e, s) /\ Keeps(d, e)  BY <1>1, <2>2 DEF Saved, Mem
  <2>4. Named(d) => Named(e)  BY <2>2 DEF Saved, Named
  <2>. QED  BY <2>3, <2>4 DEF Flushed
<1>10. CASE m.made /\ ~ (m.last < PagesPerBlock \/ ~ m.changed)
  <2>1. (taken.stop # "no" /\ taken.flash = d.flash) \/ \E t : taken.stop = "no" /\ Opens(d, opened, t, z, old)
    BY <1>1, <1>2, <1>3, <1>5, <1>10, OpenZone
  <2>2. CASE taken.stop # "no" /\ taken.flash = d.flash
    <3>1. e = taken  BY <1>1, <1>7, <1>10, <2>2
    <3>. QED  BY <1>1, <2>2, <3>1 DEF Flushed
  <2>3. ASSUME NEW t, taken.stop = "no" /\ Opens(d, opened, t, z, old)  PROVE Flushed(d, e)
    <3>1. e = NameZoneBlock(freed, z, b)  BY <1>1, <1>7, <1>10, <2>3
    <3>2. Core(opened, t) /\ Keeps(d, opened) /\ IndexOK(opened) /\ opened.zoneIndex = d.zoneIndex
      BY <1>1, <2>3 DEF Opens
    <3>3. Saved(opened, saved, t) /\ Core(saved, t)
      <4>1. Saved(opened, saved, t)  BY <1>4, <3>2, ZoneSaved
      <4>. QED  BY <4>1 DEF Saved
    <3>4. \E u : Frees(saved, freed, u)
      <4>1. CASE old = INVALID
        <5>1. freed = saved  BY <1>6, <4>1
        <5>2. Keeps(saved, saved)  BY DEF Keeps, SameGroups
        <5>. QED  BY <3>3, <5>1, <5>2 DEF Frees
      <4>2. CASE old # INVALID
        <5>1. freed = EraseBlock(saved, old)  BY <1>6, <4>2
        <5>2. Limbo(saved, t, old)  BY <2>3, <3>3, <4>2, LimboStays DEF Opens
        <5>. QED  BY <3>3, <5>1, <5>2, EraseLimbo DEF Frees
      <4>. QED  BY <4>1, <4>2
    <3>5. PICK u : Frees(saved, freed, u)  BY <3>4
    <3>6. IndexOK(freed) /\ Keeps(d, freed) /\ Core(freed, u)
      <4>1. IndexOK(saved) /\ Keeps(opened, saved)  BY <3>2, <3>3 DEF Saved
      <4>. QED  BY <3>2, <3>5, <4>1, KeepsTrans DEF Frees
    <3>7. Core(e, u) /\ Names(freed, e, z, b)
      <4>1. b \in Data  BY <1>5, <2>3 DEF Opens
      <4>. QED  BY <3>1, <3>6, <4>1, BlockFacts, IndexNames
    <3>8. Mem(e, u) /\ Keeps(d, e)  BY <3>6, <3>7, KeepsTrans DEF Mem, Names
    <3>9. ASSUME Named(d)  PROVE Named(e)
      <4>1. saved.zoneIndex = opened.zoneIndex /\ \A y \in ZoneIds : saved.zone[y].block = opened.zone[y].block
        BY <3>3 DEF Saved
      <4>2. freed.zoneIndex = saved.zoneIndex /\ freed.zone = saved.zone  BY <3>5 DEF Frees
      <4>3. e.zone = freed.zone /\ e.zoneIndex.map[z] = b
            /\ \A y \in ZoneIds : y # z => e.zoneIndex.map[y] = freed.zoneIndex.map[y]
        BY <3>7 DEF Names
      <4>4. \A y \in ZoneIds : y # z => opened.zone[y].block = d.zone[y].block  BY <2>3 DEF Opens
      <4>5. \A y \in ZoneIds : y # z => e.zoneIndex.map[y] = d.zoneIndex.map[y] /\ e.zone[y].block = d.zone[y].block
        BY <3>2, <4>1, <4>2, <4>3, <4>4
      <4>6. e.zoneIndex.map[z] = e.zone[z].block  BY <1>5, <4>1, <4>2, <4>3
      <4>. QED  BY <3>9, <4>5, <4>6 DEF Named
    <3>. QED  BY <3>8, <3>9 DEF Flushed
  <2>. QED  BY <2>1, <2>2, <2>3
<1>. QED  BY <1>8, <1>9, <1>10

-----------------------------------------------------------------------------
(* The zone index.                                                         *)
SavedIndex(d) == d.flash[d.zoneIndex.block].page[d.zoneIndex.last - 1].body = d.zoneIndex.map

Indexed(d, e) ==
  /\ Keeps(d, e) /\ Tables(e) = Tables(d) /\ Held(e) = Held(d)
  /\ e.chain = d.chain /\ e.spareHead = d.spareHead
  /\ e.zone = d.zone /\ e.zoneIndex.map = d.zoneIndex.map /\ IndexOK(e) /\ SavedIndex(e)

Written(d, e, s) ==
  /\ Core(e, s) /\ Keeps(d, e) /\ Tables(e) = Tables(d) /\ Held(e) = Held(d)
  /\ e.chain = d.chain /\ e.spareHead = d.spareHead /\ e.zone = d.zone

LEMMA IndexWritten ==
  ASSUME NEW d, NEW s, Core(d, s), NEW b, b = d.zoneIndex.block, NEW x, Programmed(d, x, b),
         NEW i, DOMAIN i = {"block", "last", "updated", "map"}, DOMAIN i.map = ZoneIds, i.block = b,
         NEW e, e = [x EXCEPT !.zoneIndex = i]
  PROVE  Written(d, e, s) /\ e.zoneIndex = i /\ e.flash = x.flash
PROOF
<1>1. DOMAIN d = MemFields /\ DOMAIN d.zone = ZoneIds  BY DEF Core, Shaped, ChainShaped
<1>0. "flash" \in DOMAIN d /\ "zone" \in DOMAIN d /\ "zoneIndex" \in DOMAIN d  BY <1>1 DEF MemFields
<1>2. /\ FlashOK(x.flash) /\ DOMAIN x = DOMAIN d /\ \A y \in DOMAIN d : y # "flash" => x[y] = d[y]
      /\ \A c \in BlockIds : c # b => x.flash[c] = d.flash[c]
  BY DEF Programmed
<1>3. x.zone = d.zone  BY <1>0, <1>2
<1>4. /\ DOMAIN e = DOMAIN x /\ \A y \in DOMAIN x : y # "zoneIndex" => e[y] = x[y]
      /\ e.zoneIndex = i /\ e.flash = x.flash /\ e.zone = x.zone
  BY <1>0, <1>2
<1>5. SameBut({"flash", "zone", "zoneIndex"}, d, e)  BY <1>2, <1>4 DEF SameBut
<1>7. \A y \in ZoneIds : ZoneShaped(d.zone[y])  BY DEF Core, Shaped
<1>8. \A y \in ZoneIds : /\ ZoneShaped(e.zone[y]) /\ e.zone[y].block = d.zone[y].block
                         /\ e.zone[y].group = d.zone[y].group
  BY <1>3, <1>4, <1>7
<1>9. DOMAIN e.zone = ZoneIds  BY <1>1, <1>3, <1>4
<1>10. FlashOK(e.flash)  BY <1>2, <1>4
<1>11. \A c \in BlockIds : c \notin Tables(d) => e.flash[c] = d.flash[c]
  <2>1. b \in Tables(d)  BY DEF Tables
  <2>. QED  BY <1>2, <1>4, <2>1
<1>12. i = e.zoneIndex /\ i.block = d.zoneIndex.block  BY <1>4
<1>13. /\ Core(e, s) /\ Keeps(d, e) /\ Tables(e) = Tables(d) /\ Held(e) = Held(d)
       /\ e.chain = d.chain /\ e.spareHead = d.spareHead
  <2>1. DOMAIN i = {"block", "last", "updated", "map"} /\ DOMAIN i.map = ZoneIds  OBVIOUS
  <2>. QED  BY ONLY Core(d, s), <1>5, <1>8, <1>9, <1>10, <1>11, <1>12, <2>1, WrittenCore
<1>. QED  BY <1>3, <1>4, <1>13 DEF Written

LEMMA IndexPut ==
  ASSUME NEW d, NEW s, Core(d, s), NEW i, i = d.zoneIndex,
         i.last \in Nat, i.last < PagesPerBlock, i.last = d.flash[i.block].last,
         NEW e, e = PutIndex(d)
  PROVE  Core(e, s) /\ Indexed(d, e)
PROOF
<1>1. /\ DOMAIN d = MemFields /\ FlashOK(d.flash) /\ DOMAIN i = {"block", "last", "updated", "map"}
      /\ DOMAIN i.map = ZoneIds /\ i.block \in Data /\ i.block \in BlockIds
  BY BlockFacts DEF Core, Shaped, ChainShaped, Roles
<1>2. "flash" \in DOMAIN d /\ "zoneIndex" \in DOMAIN d  BY <1>1 DEF MemFields
<1>3. PICK b, l, map, n : b = i.block /\ l = i.last /\ map = i.map /\ n = l + 1  OBVIOUS
<1>4. PICK x : x = ProgramPage(d, b, l, "zone_index", map)  OBVIOUS
<1>5. Programmed(d, x, b)  BY <1>1, <1>2, <1>4, ProgramOK
<1>6. b \in BlockIds /\ l \in Pages /\ l >= d.flash[b].last /\ l \in 0 .. PagesPerBlock - 1
  BY <1>1, <1>3, PageModeAssumption DEF Pages
<1>7. /\ x.flash[b].last = l + 1
      /\ \A q \in Pages : x.flash[b].page[q] = IF q = l THEN [id |-> "zone_index", body |-> map]
                                               ELSE d.flash[b].page[q]
  BY <1>1, <1>2, <1>4, <1>6, ProgramReads
<1>8. x.flash[b].page[l].id = "zone_index" /\ x.flash[b].page[l].body = map  BY <1>6, <1>7
<1>9. x.zoneIndex = i /\ DOMAIN x = DOMAIN d  BY <1>1, <1>2, <1>5 DEF Programmed
<1> DEFINE j == [i EXCEPT !.last = n]
<1>11. DOMAIN j = {"block", "last", "updated", "map"} /\ j.block = b /\ j.last = n /\ j.map = map
       /\ j.updated = i.updated /\ DOMAIN j.map = ZoneIds
  BY <1>1, <1>3
<1>12. e = [x EXCEPT !.zoneIndex = j]
  <2>1. e = [x EXCEPT !.zoneIndex.last = n]  BY <1>3, <1>4 DEF PutIndex
  <2>. QED  BY ONLY <1>9, <2>1
<1> HIDE DEF j
<1>13. Written(d, e, s) /\ e.zoneIndex = j /\ e.flash = x.flash
  <2>1. b = d.zoneIndex.block  BY <1>3
  <2>. QED  BY ONLY Core(d, s), <1>5, <1>11, <1>12, <2>1, IndexWritten
<1>22. IndexOK(e) /\ SavedIndex(e)
  <2>1. n \in 1 .. PagesPerBlock /\ e.zoneIndex.last - 1 = l
    BY <1>3, <1>6, <1>11, <1>13, PageModeAssumption
  <2>2. e.flash[b].last = n /\ e.flash[b].page[l].id = "zone_index" /\ e.flash[b].page[l].body = map
    BY ONLY <1>3, <1>7, <1>8, <1>13
  <2>. QED  BY ONLY <1>11, <1>13, <2>1, <2>2 DEF IndexOK, SavedIndex
<1>23. e.zoneIndex.map = d.zoneIndex.map  BY ONLY i = d.zoneIndex, <1>3, <1>11, <1>13
<1>. QED  BY <1>13, <1>22, <1>23 DEF Indexed, Written

LEMMA OpenIndex ==
  ASSUME NEW d, NEW s, Core(d, s), NEW w, w = TakeIndexBlock(d), NEW e, e = OpenIndexBlock(w),
         NEW old, old = d.zoneIndex.block
  PROVE  \/ (w.stop # "no" /\ w.flash = d.flash)
         \/ \E t : /\ w.stop = "no" /\ Core(e, t) /\ Keeps(d, e) /\ Limbo(e, t, old) /\ e.zone = d.zone
                   /\ e.zoneIndex.map = d.zoneIndex.map /\ e.zoneIndex.last = 0
                   /\ e.flash[e.zoneIndex.block].last = 0
PROOF
<1>0. PICK i, x : i = LeaveBlock(d.zoneIndex) /\ x = [d EXCEPT !.zoneIndex = i]  OBVIOUS
<1>1. /\ DOMAIN d = MemFields /\ DOMAIN d.zoneIndex = {"block", "last", "updated", "map"}
      /\ DOMAIN d.zoneIndex.map = ZoneIds
  BY DEF Core, Shaped, ChainShaped
<1>2. DOMAIN i = {"block", "last", "updated", "map"} /\ i.last = 0 /\ i.map = d.zoneIndex.map
  BY <1>0, <1>1 DEF LeaveBlock
<1>3. w = PopupEmptyBlock(x)  BY <1>0, <1>1 DEF TakeIndexBlock
<1>4. DOMAIN x = MemFields /\ x.zoneIndex = i /\ \A f \in MemFields : f # "zoneIndex" => x[f] = d[f]
  BY <1>0, <1>1 DEF MemFields
<1>5. /\ x.chain = d.chain /\ x.stop = d.stop /\ x.flash = d.flash /\ x.spareHead = d.spareHead
      /\ x.spareTail = d.spareTail /\ x.luck = d.luck
  BY <1>4 DEF MemFields
<1>6. (w.stop # "no" /\ w.flash = d.flash) \/ \E b, t : Taken(d, x, w, b, t)
  BY <1>3, <1>4, <1>5, TakesSpare
<1>7. CASE w.stop # "no" /\ w.flash = d.flash  BY <1>7
<1>8. ASSUME NEW b, NEW t, Taken(d, x, w, b, t)
      PROVE  /\ w.stop = "no" /\ Core(e, t) /\ Keeps(d, e) /\ Limbo(e, t, old) /\ e.zone = d.zone
             /\ e.zoneIndex.map = d.zoneIndex.map /\ e.zoneIndex.last = 0
             /\ e.flash[e.zoneIndex.block].last = 0
  <2>1. w.popped = b /\ w.stop = "no" /\ DOMAIN w = MemFields /\ w.zoneIndex = i
        /\ \A f \in MemFields : f \notin {"chain", "spareHead", "popped"} => w[f] = x[f]
    BY <1>4, <1>8 DEF Taken, SameBut, MemFields
  <2>2. PICK j : j = [i EXCEPT !.block = b]  OBVIOUS
  <2>3. DOMAIN j = {"block", "last", "updated", "map"} /\ j.block = b /\ j.last = 0 /\ j.map = d.zoneIndex.map
    BY <1>2, <2>2
  <2>4. e = [w EXCEPT !.zoneIndex = j]  BY <2>1, <2>2 DEF OpenIndexBlock
  <2>5. DOMAIN e = MemFields /\ e.zoneIndex = j /\ \A f \in MemFields : f # "zoneIndex" => e[f] = w[f]
    BY <2>1, <2>4 DEF MemFields
  <2>6. /\ e.flash = d.flash /\ e.chain = w.chain /\ e.spareHead = w.spareHead /\ e.spareTail = w.spareTail
        /\ e.head = d.head /\ e.tail = d.tail /\ e.active = d.active /\ e.zone = d.zone
        /\ e.link = d.link /\ e.stop = "no" /\ e.luck = d.luck
    BY <1>4, <2>1, <2>5 DEF MemFields
  <2>7. DOMAIN d.zone = ZoneIds /\ \A y \in ZoneIds : ZoneShaped(d.zone[y])  BY DEF Core, Shaped
  <2>9. PICK z : z \notin ZoneIds
    <3>1. -1 \notin ZoneIds  BY DEF ZoneIds
    <3>. QED  BY <3>1
  <2>10. Moved(d, w, e, z, b)  BY ONLY <1>1, <2>3, <2>5, <2>6, <2>7, <2>9 DEF Moved
  <2>11. old = TableBlock(d, z)  BY <2>9 DEF TableBlock
  <2>12. old # INVALID  BY BlockFacts DEF Core, Roles
  <2>13. Core(e, t) /\ Keeps(d, e) /\ Limbo(e, t, old)  BY <1>8, <2>10, <2>11, <2>12, MovedTable
  <2>14. d.flash[b].last = 0  BY <1>8 DEF Taken
  <2>. QED  BY <2>1, <2>3, <2>5, <2>6, <2>13, <2>14
<1>. QED  BY <1>6, <1>7, <1>8

LEMMA IndexSaved ==
  ASSUME NEW d, NEW s, Mem(d, s), NEW e, e = SaveZoneIndex(d)
  PROVE  Flushed(d, e) /\ (e.stop = "no" => SavedIndex(e))
PROOF
<1>1. Core(d, s) /\ IndexOK(d) /\ d.stop = "no" /\ FlashOK(d.flash)  BY DEF Mem, Core
<1>2. PICK i : i = d.zoneIndex  OBVIOUS
<1>3. PICK taken, opened : taken = TakeIndexBlock(d) /\ opened = OpenIndexBlock(taken)  OBVIOUS
<1>4. PICK put, old : put = PutIndex(opened) /\ old = i.block  OBVIOUS
<1>5. e = IF d.stop # "no" \/ ~i.updated THEN d
          ELSE IF i.last < PagesPerBlock THEN PutIndex(d)
          ELSE IF taken.stop # "no" THEN taken
          ELSE EraseBlock(put, old)
  <2>1. old # INVALID  BY <1>1, <1>2, <1>4, BlockFacts DEF Core, Roles
  <2>. QED  BY <1>2, <1>3, <1>4, <2>1 DEF SaveZoneIndex, EraseReplaced
<1>6. i.last \in Nat /\ i.last = d.flash[i.block].last /\ (i.updated \/ SavedIndex(d))
  BY ONLY <1>1, <1>2, PageModeAssumption DEF IndexOK, SavedIndex
<1>7. CASE ~ i.updated
  <2>1. e = d  BY <1>5, <1>7
  <2>2. Keeps(d, d)  BY DEF Keeps, SameGroups
  <2>. QED  BY <1>6, <1>7, <2>1, <2>2 DEF Flushed
<1>8. CASE i.updated /\ i.last < PagesPerBlock
  <2>1. e = PutIndex(d)  BY <1>1, <1>5, <1>8
  <2>2. Core(e, s) /\ Indexed(d, e)  BY <1>1, <1>2, <1>6, <1>8, <2>1, IndexPut
  <2>3. Named(d) => Named(e)  BY <2>2 DEF Indexed, Named
  <2>. QED  BY <2>2, <2>3 DEF Flushed, Mem, Indexed
<1>9. CASE i.updated /\ ~ (i.last < PagesPerBlock)
  <2>1. \/ (taken.stop # "no" /\ taken.flash = d.flash)
        \/ \E t : /\ taken.stop = "no" /\ Core(opened, t) /\ Keeps(d, opened) /\ Limbo(opened, t, old)
                  /\ opened.zone = d.zone
                  /\ opened.zoneIndex.map = d.zoneIndex.map /\ opened.zoneIndex.last = 0
                  /\ opened.flash[opened.zoneIndex.block].last = 0
    BY <1>1, <1>2, <1>3, <1>4, OpenIndex
  <2>2. CASE taken.stop # "no" /\ taken.flash = d.flash
    <3>1. e = taken  BY <1>1, <1>5, <1>9, <2>2
    <3>. QED  BY <1>1, <2>2, <3>1 DEF Flushed
  <2>3. ASSUME NEW t, taken.stop = "no", Core(opened, t), Keeps(d, opened), Limbo(opened, t, old),
               opened.zone = d.zone, opened.zoneIndex.map = d.zoneIndex.map, opened.zoneIndex.last = 0,
               opened.flash[opened.zoneIndex.block].last = 0
        PROVE  Flushed(d, e) /\ (e.stop = "no" => SavedIndex(e))
    <3>1. e = EraseBlock(put, old)  BY <1>1, <1>5, <1>9, <2>3
    <3>2. PICK k : k = opened.zoneIndex  OBVIOUS
    <3>3. k.last \in Nat /\ k.last < PagesPerBlock /\ k.last = opened.flash[k.block].last
      BY <2>3, <3>2, PageModeAssumption
    <3>4. Core(put, t) /\ Indexed(opened, put)  BY <1>4, <2>3, <3>2, <3>3, IndexPut
    <3>5. Limbo(put, t, old)  BY <2>3, <3>4 DEF Indexed, Limbo
    <3>6. \E u : /\ Core(e, u) /\ Keeps(put, e) /\ (IndexOK(put) => IndexOK(e))
                 /\ e.zoneIndex = put.zoneIndex /\ e.zone = put.zone
      BY <3>1, <3>4, <3>5, EraseLimbo
    <3>7. PICK u : /\ Core(e, u) /\ Keeps(put, e) /\ (IndexOK(put) => IndexOK(e))
                   /\ e.zoneIndex = put.zoneIndex /\ e.zone = put.zone
      BY <3>6
    <3>8. Mem(e, u)  BY <3>4, <3>7 DEF Mem, Indexed
    <3>9. Keeps(d, e)  BY <2>3, <3>4, <3>7, KeepsTrans DEF Indexed
    <3>10. Named(d) => Named(e)  BY <2>3, <3>4, <3>7 DEF Named, Indexed
    <3>11. SavedIndex(e)
      <4>1. put.zoneIndex.block # old /\ put.zoneIndex.block \in BlockIds /\ DOMAIN put.flash = BlockIds
        BY <3>4, <3>5, BlockFacts DEF Limbo, Tables, Core, Roles, FlashOK
      <4>2. e.flash[put.zoneIndex.block] = put.flash[put.zoneIndex.block]
        <5>1. old \in Data /\ ChainShaped(put)  BY <3>4, <3>5 DEF Limbo, Core, Shaped
        <5>2. put.spareTail = 0 \/ put.spareTail \in BlockIds  BY <3>4, TailFacts
        <5>3. e.flash = [put.flash EXCEPT ![old] = Erased]  BY <3>1, <4>1, <5>1, <5>2, EraseFields
        <5>. QED  BY <4>1, <5>3
      <4>3. SavedIndex(put)  BY <3>4 DEF Indexed
      <4>. QED  BY ONLY <3>7, <4>2, <4>3 DEF SavedIndex
    <3>. QED  BY <3>8, <3>9, <3>10, <3>11 DEF Flushed
  <2>. QED  BY <2>1, <2>2, <2>3
<1>. QED  BY <1>7, <1>8, <1>9

-----------------------------------------------------------------------------
(* Flushing the tables.                                                    *)
LEMMA FlushedSame ==
  ASSUME NEW d, NEW s, Mem(d, s)
  PROVE  Flushed(d, d)
  BY DEF Flushed, Keeps, SameGroups

LEMMA FlushedTrans ==
  ASSUME NEW d, NEW e, NEW f, Flushed(d, e), Flushed(e, f), e.stop = "no"
  PROVE  Flushed(d, f)
  BY KeepsTrans DEF Flushed

LEMMA FlushedGoesOn ==
  ASSUME NEW d, NEW e, Flushed(d, e), e.stop = "no"
  PROVE  \E t : Mem(e, t)
  BY DEF Flushed

LEMMA FlushedStops ==
  ASSUME NEW d, NEW e, Flushed(d, e)
  PROVE  FlashOK(e.flash)
  BY DEF Flushed, Mem, Core

LEMMA ZonesFlushed ==
  ASSUME NEW d, NEW s, Mem(d, s)
  PROVE  Flushed(d, FlushZones(d))
PROOF
<1>1. PICK n \in Nat : n = Zones  BY PageModeAssumption
<1>2. PICK f : f[0] = d /\ (\A i \in 1 .. n : f[i] = FlushZone(f[i - 1], i - 1)) /\ FlushZones(d) = f[n]
  BY <1>1, ZoneLoop
<1> DEFINE T == {i \in 0 .. n : Flushed(d, f[i])}
<1>3. 0 \in T  BY <1>2, FlushedSame
<1>4. ASSUME NEW i \in 1 .. n, i - 1 \in T  PROVE i \in T
  <2>1. PICK x, z : x = f[i - 1] /\ z = i - 1  OBVIOUS
  <2>2. Flushed(d, x) /\ f[i] = FlushZone(x, z)  BY <1>2, <1>4, <2>1
  <2>3. CASE x.stop # "no"
    <3>1. f[i] = x  BY <2>2, <2>3 DEF FlushZone
    <3>. QED  BY <2>2, <3>1
  <2>4. CASE x.stop = "no"
    <3>1. z \in ZoneIds  BY <1>1, <2>1 DEF ZoneIds
    <3>2. PICK t : Mem(x, t)  BY <2>2, <2>4, FlushedGoesOn
    <3>3. Flushed(x, f[i])  BY <2>2, <3>1, <3>2, ZoneFlushed
    <3>. QED  BY <2>2, <2>4, <3>3, FlushedTrans
  <2>. QED  BY <2>3, <2>4
<1> HIDE DEF T
<1>5. \A i \in 0 .. n : i \in T  BY <1>3, <1>4, Counting
<1>6. n \in T  BY <1>5
<1>. QED  BY <1>2, <1>6 DEF T

LEMMA TablesFlushed ==
  ASSUME NEW d, NEW s, Mem(d, s), NEW e, e = FlushTables(d)
  PROVE  Flushed(d, e) /\ (e.stop = "no" => SavedIndex(e))
PROOF
<1>1. PICK x : x = FlushZones(d)  OBVIOUS
<1>2. Flushed(d, x)  BY <1>1, ZonesFlushed
<1>3. e = SaveZoneIndex(x)  BY <1>1 DEF FlushTables
<1>4. CASE x.stop # "no"
  <2>1. e = x  BY <1>3, <1>4 DEF SaveZoneIndex
  <2>. QED  BY <1>2, <1>4, <2>1
<1>5. CASE x.stop = "no"
  <2>1. PICK t : Mem(x, t)  BY <1>2, <1>5, FlushedGoesOn
  <2>2. Flushed(x, e) /\ (e.stop = "no" => SavedIndex(e))  BY <1>3, <2>1, IndexSaved
  <2>. QED  BY <1>2, <1>5, <2>2, FlushedTrans
<1>. QED  BY <1>4, <1>5

-----------------------------------------------------------------------------
(* Saving the block chain: it has a block of its own.                      *)
LEMMA ProgrammedSame ==
  ASSUME NEW d, FlashOK(d.flash), NEW b
  PROVE  Programmed(d, d, b)
  BY DEF Programmed

LEMMA ProgrammedTrans ==
  ASSUME NEW d, NEW e, NEW f, NEW b, Programmed(d, e, b), Programmed(e, f, b)
  PROVE  Programmed(d, f, b)
  BY DEF Programmed

LEMMA LinkPagesCount ==
  LinkPages \in Nat \ {0}
PROOF
<1>1. Blocks - 1 \in Nat /\ LinksPerPage \in Nat /\ LinksPerPage > 0
  BY PageModeAssumption DEF FirstBlock, SystemMark
<1>2. (Blocks - 1) \div LinksPerPage \in Nat  BY <1>1, Division
<1>. QED  BY <1>2 DEF LinkPages

LEMMA LinkPagesSaved ==
  ASSUME NEW d, FlashOK(d.flash), "flash" \in DOMAIN d, "link" \in DOMAIN d, NEW b, b = d.link.block
  PROVE  Programmed(d, SaveLinkPages(d), b)
PROOF
<1>1. PICK n : n = LinkPages  OBVIOUS
<1>2. n \in Nat  BY <1>1, LinkPagesCount
<1>3. PICK f : f[0] = d /\ (\A i \in 1 .. n : f[i] = SaveLinkPage(f[i - 1], i)) /\ SaveLinkPages(d) = f[n]
  BY <1>1, <1>2, LinkLoop
<1> DEFINE T == {i \in 0 .. n : Programmed(d, f[i], b)}
<1>4. 0 \in T  BY <1>2, <1>3, ProgrammedSame
<1>5. ASSUME NEW i \in 1 .. n, i - 1 \in T  PROVE i \in T
  <2>1. PICK x, y : x = f[i - 1] /\ y = f[i]  OBVIOUS
  <2>2. Programmed(d, x, b) /\ y = SaveLinkPage(x, i)  BY <1>3, <1>5, <2>1
  <2>3. PICK body : body = [j \in 0 .. LinksPerPage - 1 |-> LinkItem(x, (i - 1) * LinksPerPage + j)]  OBVIOUS
  <2>4. PICK id, p : id = (IF i = 1 THEN "link" ELSE "link_more") /\ p = x.link.start + i - 1  OBVIOUS
  <2>5. id # "eob"  BY <2>4
  <2>6. FlashOK(x.flash) /\ "flash" \in DOMAIN x /\ x.link = d.link  BY <2>2 DEF Programmed
  <2>7. y = ProgramPage(x, b, p, id, body)  BY <2>2, <2>3, <2>4, <2>6 DEF SaveLinkPage
  <2>8. Programmed(x, y, b)  BY <2>5, <2>6, <2>7, ProgramOK
  <2>9. Programmed(d, y, b)  BY <2>2, <2>8, ProgrammedTrans
  <2>. QED  BY <2>1, <2>9
<1> HIDE DEF T
<1>6. \A i \in 0 .. n : i \in T  BY <1>2, <1>4, <1>5, Counting
<1>7. n \in T  BY <1>2, <1>6
<1>. QED  BY <1>3, <1>7 DEF T

LEMMA LinksSaved ==
  ASSUME NEW d, NEW s, Mem(d, s), NEW e, e = SaveLinkTable(d)
  PROVE  /\ Mem(e, s) /\ Keeps(d, e) /\ (Named(d) => Named(e)) /\ (SavedIndex(d) => SavedIndex(e))
PROOF
<1>0. Core(d, s) /\ IndexOK(d) /\ Roles(d) /\ MappedOK(d) /\ ActiveOK(d)  BY DEF Mem, Core
<1>1. DOMAIN d = MemFields /\ DOMAIN d.link = {"block", "start"} /\ d.link.start \in Nat /\ FlashOK(d.flash)
  BY <1>0 DEF Core, Shaped, ChainShaped
<1>2. PICK x, b : x = SaveLinkPages(d) /\ b = d.link.block  OBVIOUS
<1>3. "flash" \in DOMAIN d /\ "link" \in DOMAIN d  BY <1>1 DEF MemFields
<1>4. Programmed(d, x, b)  BY <1>1, <1>2, <1>3, LinkPagesSaved
<1>5. DOMAIN x = MemFields /\ x.link = d.link /\ \A f \in MemFields : f # "flash" => x[f] = d[f]
  BY <1>1, <1>3, <1>4 DEF Programmed
<1>6. PICK l : l = d.link.start + LinkPages  OBVIOUS
<1>7. l \in Nat  BY <1>1, <1>6, LinkPagesCount
<1> DEFINE k == [d.link EXCEPT !.start = l]
<1>8. k.block = b /\ k.start = l /\ DOMAIN k = {"block", "start"}  BY <1>1, <1>2
<1>9. e = [x EXCEPT !.link = k]
  <2>1. e = [x EXCEPT !.link.start = @ + LinkPages]  BY <1>2 DEF SaveLinkTable
  <2>. QED  BY ONLY <1>5, <1>6, <2>1
<1> HIDE DEF k
<1>10. DOMAIN e = MemFields /\ e.link = k /\ e.flash = x.flash /\ \A f \in MemFields : f \notin {"flash", "link"} => e[f] = d[f]
  BY <1>5, <1>9 DEF MemFields
<1>11. /\ e.chain = d.chain /\ e.spareHead = d.spareHead /\ e.spareTail = d.spareTail /\ e.head = d.head
       /\ e.tail = d.tail /\ e.active = d.active /\ e.zone = d.zone /\ e.zoneIndex = d.zoneIndex
       /\ e.stop = d.stop /\ e.luck = d.luck
  BY <1>10 DEF MemFields
<1>12. FlashOK(e.flash) /\ \A c \in BlockIds : c # b => e.flash[c] = d.flash[c]  BY <1>4, <1>10 DEF Programmed
<1>13. Keeps(d, e)  BY <1>2, <1>8, <1>10, <1>11, <1>12 DEF Keeps, SameGroups
<1>14. Held(e) = Held(d) /\ MappedIn(e) = MappedIn(d)  BY <1>13, KeepsHeld
<1>15. Tables(e) = Tables(d)  BY <1>11 DEF Tables
<1>16. ActiveOK(e) /\ MappedOK(e)  BY <1>0, <1>13, KeptData
<1>17. Shaped(e)  BY <1>0, <1>7, <1>8, <1>10, <1>11 DEF Core, Shaped, ChainShaped
<1>18. Roles(e)  BY <1>0, <1>2, <1>8, <1>10, <1>11, <1>14, <1>15 DEF Roles
<1>19. Chained(e, s)  BY <1>0, <1>11 DEF Core, Chained, Ended, Linked
<1>20. Unused(e, s)
  <2>1. SUFFICES ASSUME NEW j \in 1 .. Len(s)
                 PROVE  e.flash[s[j]].last = 0 /\ s[j] \notin Tables(e) /\ s[j] \notin Held(e)
    BY DEF Unused
  <2>2. d.flash[s[j]].last = 0 /\ s[j] \notin Tables(d) /\ s[j] \notin Held(d)  BY <1>0 DEF Core, Unused
  <2>3. s[j] \in BlockIds  BY <1>0, SpareFacts
  <2>4. b \in Held(d)  BY <1>2 DEF Held
  <2>. QED  BY <1>12, <1>14, <1>15, <2>2, <2>3, <2>4
<1>21. Marked(e)  BY <1>0, <1>11, <1>15 DEF Core, Marked
<1>22. Core(e, s)  BY <1>0, <1>11, <1>12, <1>16, <1>17, <1>18, <1>19, <1>20, <1>21 DEF Core
<1>23. d.zoneIndex.block \in BlockIds /\ d.zoneIndex.block # b
  <2>1. d.zoneIndex.block \in Tables(d) /\ b \in Held(d)  BY <1>2 DEF Tables, Held
  <2>2. d.zoneIndex.block \in Data /\ d.zoneIndex.block # INVALID  BY <1>0, BlockFacts DEF Roles
  <2>. QED  BY <1>0, <2>1, <2>2, BlockFacts DEF Roles
<1>24. e.flash[e.zoneIndex.block] = d.flash[d.zoneIndex.block]  BY <1>11, <1>12, <1>23
<1>25. IndexOK(e)  BY ONLY <1>0, <1>11, <1>24 DEF IndexOK
<1>26. SavedIndex(d) => SavedIndex(e)  BY ONLY <1>11, <1>24 DEF SavedIndex
<1>27. Named(d) => Named(e)  BY ONLY <1>11 DEF Named
<1>. QED  BY <1>13, <1>22, <1>25, <1>26, <1>27 DEF Mem

(* FlushAll: the tables, the zone index and the block chain.               *)
LEMMA AllFlushed ==
  ASSUME NEW d, NEW s, Mem(d, s), NEW e, e = FlushAll(d)
  PROVE  Flushed(d, e) /\ (e.stop = "no" => SavedIndex(e))
PROOF
<1>1. PICK x : x = FlushTables(d)  OBVIOUS
<1>2. Flushed(d, x) /\ (x.stop = "no" => SavedIndex(x))  BY <1>1, TablesFlushed
<1>3. e = IF x.stop = "no" THEN SaveLinkTable(x) ELSE x  BY <1>1 DEF FlushAll
<1>4. CASE x.stop # "no"  BY <1>2, <1>3, <1>4
<1>5. CASE x.stop = "no"
  <2>1. PICK t : Mem(x, t)  BY <1>2, <1>5, FlushedGoesOn
  <2>2. /\ Mem(e, t) /\ Keeps(x, e) /\ (Named(x) => Named(e)) /\ (SavedIndex(x) => SavedIndex(e))
    BY <1>3, <1>5, <2>1, LinksSaved
  <2>3. Flushed(x, e)  BY <2>2 DEF Flushed
  <2>. QED  BY <1>2, <1>5, <2>2, <2>3, FlushedTrans
<1>. QED  BY <1>4, <1>5

-----------------------------------------------------------------------------
(* Luck and the block popped last say nothing about the memory.            *)
LEMMA MemSame ==
  ASSUME NEW d, NEW s, Mem(d, s), NEW e, SameBut({"luck", "popped"}, d, e), ~ e.luck.strays
  PROVE  /\ Mem(e, s) /\ Keeps(d, e) /\ e.zone = d.zone /\ e.zoneIndex = d.zoneIndex /\ e.flash = d.flash
         /\ e.stop = "no"
PROOF
<1>1. Core(d, s) /\ IndexOK(d) /\ d.stop = "no" /\ DOMAIN d = MemFields
  BY DEF Mem, Core, Shaped, ChainShaped
<1>2. e.zone = d.zone /\ e.zoneIndex = d.zoneIndex /\ e.flash = d.flash /\ e.stop = "no"
  BY <1>1 DEF SameBut, MemFields
<1>3. SameBut({"zoneIndex", "luck", "popped"}, d, e)  BY DEF SameBut
<1>4. PICK i : i = e.zoneIndex  OBVIOUS
<1>5. i.block = d.zoneIndex.block /\ DOMAIN i = {"block", "last", "updated", "map"} /\ DOMAIN i.map = ZoneIds
  BY <1>1, <1>2, <1>4 DEF Core, Shaped
<1>6. Core(e, s) /\ Keeps(d, e)  BY <1>1, <1>3, <1>4, <1>5, CoreSame
<1>7. IndexOK(e)  BY ONLY <1>1, <1>2 DEF IndexOK
<1>. QED  BY <1>2, <1>6, <1>7 DEF Mem

-----------------------------------------------------------------------------
(* Opening and closing the block that data is written to.                  *)
(* What may happen to the chain of blocks in use and the active block.     *)
Reopened(d, e, t) ==
  /\ SameBut({"chain", "spareHead", "popped", "head", "tail", "active"}, d, e)
  /\ ChainShaped(e) /\ Chained(e, t)
  /\ \A i \in 1 .. Len(t) : d.flash[t[i]].last = 0 /\ t[i] \notin Tables(d) /\ t[i] \notin Held(e)
  /\ e.spareHead \in BlockIds =>
       \A c \in Tables(d) : c \in BlockIds => e.chain[c].next = d.chain[c].next /\ d.spareHead \in BlockIds
  /\ e.active.block \notin Tables(d) \/ e.active.block = INVALID
  /\ e.tail \notin Tables(d) \/ e.tail = INVALID
  /\ d.link.block # e.active.block /\ d.link.block # e.tail
  /\ DOMAIN e.active = {"block", "last", "eob"} /\ ActiveOK(e)

LEMMA ActiveChanged ==
  ASSUME NEW d, NEW s, Core(d, s), NEW t, NEW e, Reopened(d, e, t)
  PROVE  /\ Core(e, t) /\ e.zone = d.zone /\ e.zoneIndex = d.zoneIndex /\ e.flash = d.flash
         /\ (IndexOK(d) => IndexOK(e))
PROOF
<1>1. DOMAIN d = MemFields /\ DOMAIN e = MemFields  BY DEF Core, Shaped, ChainShaped, Reopened
<1>2. e.zone = d.zone /\ e.zoneIndex = d.zoneIndex /\ e.flash = d.flash /\ e.stop = d.stop /\ e.link = d.link
      /\ e.luck = d.luck
  BY <1>1 DEF Reopened, SameBut, MemFields
<1>3. SameGroups(d, e)  BY <1>2 DEF SameGroups
<1>4. MappedIn(e) = MappedIn(d) /\ \A h \in HPages : NandAddress(e, h) = NandAddress(d, h)
  BY <1>3, SameAddresses
<1>5. Tables(e) = Tables(d)  BY <1>2 DEF Tables
<1>6. Shaped(e)  BY <1>2 DEF Core, Shaped, Reopened
<1>7. Roles(e)
  <2>1. Roles(d)  BY DEF Core
  <2>2. \A c \in Held(e) : c \in Held(d) \/ c = e.active.block \/ c = e.tail  BY <1>2, <1>4 DEF Held
  <2>3. \A c \in Tables(e) : c \in Held(e) => c = INVALID  BY <1>5, <2>1, <2>2 DEF Roles, Reopened
  <2>. QED  BY <1>2, <1>4, <1>5, <2>1, <2>3 DEF Roles, Reopened
<1>8. Unused(e, t)  BY <1>2, <1>5 DEF Unused, Reopened
<1>9. Marked(e)  BY <1>5 DEF Core, Marked, Reopened
<1>10. MappedOK(e)  BY <1>2, <1>4 DEF Core, MappedOK
<1>11. e.stop = "no" /\ ~ e.luck.strays /\ FlashOK(e.flash)  BY <1>2 DEF Core
<1>12. Core(e, t)  BY <1>6, <1>7, <1>8, <1>9, <1>10, <1>11 DEF Core, Reopened
<1>13. IndexOK(d) => IndexOK(e)  BY ONLY <1>2 DEF IndexOK
<1>. QED  BY <1>2, <1>12, <1>13

Room(d) == d.active.block # INVALID => d.active.last \in 0 .. PagesPerBlock - 2

LEMMA ActiveClosed ==
  ASSUME NEW d, NEW s, Mem(d, s), NEW e, e = [d EXCEPT !.active = NoActive]
  PROVE  Mem(e, s) /\ e.zone = d.zone /\ e.zoneIndex = d.zoneIndex /\ e.flash = d.flash /\ Room(e)
PROOF
<1>1. Core(d, s) /\ IndexOK(d) /\ DOMAIN d = MemFields  BY DEF Mem, Core, Shaped, ChainShaped
<1>2. DOMAIN e = MemFields /\ e.active = NoActive /\ \A f \in MemFields : f # "active" => e[f] = d[f]
  BY <1>1 DEF MemFields
<1>3. SameBut({"chain", "spareHead", "popped", "head", "tail", "active"}, d, e)  BY <1>1, <1>2 DEF SameBut
<1>4. /\ e.chain = d.chain /\ e.spareHead = d.spareHead /\ e.spareTail = d.spareTail /\ e.tail = d.tail
      /\ e.zone = d.zone /\ e.link = d.link
  BY <1>2 DEF MemFields
<1>5. DOMAIN e.active = {"block", "last", "eob"} /\ e.active.block = INVALID  BY <1>2 DEF NoActive
<1>6. ChainShaped(e)  BY <1>1, <1>2, <1>4 DEF Core, Shaped, ChainShaped
<1>7. Chained(e, s)  BY <1>1, <1>4 DEF Core, Chained, Ended, Linked
<1>8. SameGroups(d, e)  BY <1>4 DEF SameGroups
<1>9. \A c \in Held(e) : c \in Held(d) \/ c = INVALID
  <2>1. MappedIn(e) = MappedIn(d)  BY <1>8, SameAddresses
  <2>. QED  BY <1>4, <1>5, <2>1 DEF Held
<1>10. ASSUME NEW i \in 1 .. Len(s)
       PROVE  d.flash[s[i]].last = 0 /\ s[i] \notin Tables(d) /\ s[i] \notin Held(e)
  <2>1. d.flash[s[i]].last = 0 /\ s[i] \notin Tables(d) /\ s[i] \notin Held(d)  BY <1>1 DEF Core, Unused
  <2>2. s[i] \in BlockIds  BY <1>1, SpareFacts
  <2>3. s[i] # INVALID  BY <2>2, BlockFacts
  <2>. QED  BY <1>9, <2>1, <2>3
<1>11. e.tail \notin Tables(d) \/ e.tail = INVALID
  <2>1. d.tail \in Held(d)  BY DEF Held
  <2>. QED  BY <1>1, <1>4, <2>1 DEF Core, Roles
<1>12. d.link.block # e.active.block /\ d.link.block # e.tail
  BY <1>1, <1>4, <1>5, BlockFacts DEF Core, Roles
<1>13. ActiveOK(e)  BY <1>2, <1>5 DEF ActiveOK
<1>14. e.spareHead \in BlockIds =>
         \A c \in Tables(d) : c \in BlockIds => e.chain[c].next = d.chain[c].next /\ d.spareHead \in BlockIds
  BY <1>4
<1>15. /\ Core(e, s) /\ e.zone = d.zone /\ e.zoneIndex = d.zoneIndex /\ e.flash = d.flash
       /\ (IndexOK(d) => IndexOK(e))
  <2>1. Reopened(d, e, s)  BY <1>3, <1>5, <1>6, <1>7, <1>10, <1>11, <1>12, <1>13, <1>14 DEF Reopened
  <2>. QED  BY <1>1, <2>1, ActiveChanged
<1>. QED  BY <1>1, <1>5, <1>15 DEF Mem, Room

(* The block b that has been taken joins the chain of blocks in use.       *)
LEMMA ActiveLinked ==
  ASSUME NEW w, ChainShaped(w), NEW b \in BlockIds, b = w.popped, NEW e, e = UseBlock(w)
  PROVE  /\ ChainShaped(e) /\ e.tail = b /\ e.active = [block |-> b, last |-> 0, eob |-> <<>>]
         /\ SameBut({"chain", "head", "tail", "active"}, w, e)
         /\ \A c \in BlockIds : c # b /\ c # w.tail => e.chain[c].next = w.chain[c].next
PROOF
<1>0. PICK l, a : /\ l = IF w.head = INVALID THEN [w EXCEPT !.head = b] ELSE [w EXCEPT !.chain[w.tail].next = b]
                  /\ a = [block |-> b, last |-> 0, eob |-> <<>>]
  OBVIOUS
<1>00. e = [l EXCEPT !.chain[b].next = 0, !.tail = b, !.active = a]  BY <1>0 DEF UseBlock
<1>1. DOMAIN w = MemFields /\ DOMAIN w.chain = BlockIds /\ \A c \in BlockIds : DOMAIN w.chain[c] = {"next", "valid"}
  BY DEF ChainShaped
<1>2. /\ DOMAIN l = MemFields /\ \A f \in MemFields : f \notin {"head", "chain"} => l[f] = w[f]
      /\ DOMAIN l.chain = BlockIds /\ \A c \in BlockIds : DOMAIN l.chain[c] = {"next", "valid"}
      /\ \A c \in BlockIds : c # w.tail => l.chain[c] = w.chain[c]
  <2>1. CASE w.head = INVALID
    <3>1. l = [w EXCEPT !.head = b]  BY <1>0, <2>1
    <3>2. DOMAIN l = MemFields /\ (\A f \in MemFields : f # "head" => l[f] = w[f]) /\ l.chain = w.chain
      BY ONLY <1>1, <3>1 DEF MemFields
    <3>. QED  BY ONLY <1>1, <3>2
  <2>2. CASE w.head # INVALID
    <3>1. PICK k : k = [w.chain EXCEPT ![w.tail].next = b]  OBVIOUS
    <3>2. l = [w EXCEPT !.chain = k]  BY <1>0, <1>1, <2>2, <3>1
    <3>3. DOMAIN l = MemFields /\ (\A f \in MemFields : f # "chain" => l[f] = w[f]) /\ l.chain = k
      BY ONLY <1>1, <3>2 DEF MemFields
    <3>4. /\ DOMAIN k = BlockIds /\ \A c \in BlockIds : DOMAIN k[c] = {"next", "valid"}
          /\ \A c \in BlockIds : c # w.tail => k[c] = w.chain[c]
      BY ONLY <1>1, <3>1
    <3>. QED  BY ONLY <3>3, <3>4
  <2>. QED  BY <2>1, <2>2
<1>3. PICK k : k = [l.chain EXCEPT ![b].next = 0]  OBVIOUS
<1>4. /\ DOMAIN k = BlockIds /\ \A c \in BlockIds : DOMAIN k[c] = {"next", "valid"}
      /\ \A c \in BlockIds : c # b => k[c] = l.chain[c]
  BY ONLY <1>2, <1>3
<1>5. e = [[[l EXCEPT !.chain = k] EXCEPT !.tail = b] EXCEPT !.active = a]
  <2>1. [l EXCEPT !.chain[b].next = 0] = [l EXCEPT !.chain = k]  BY ONLY <1>2, <1>3 DEF MemFields
  <2>. QED  BY <1>00, <2>1
<1>6. /\ DOMAIN e = MemFields /\ e.chain = k /\ e.tail = b /\ e.active = a
      /\ \A f \in MemFields : f \notin {"chain", "tail", "active"} => e[f] = l[f]
  BY ONLY <1>2, <1>5 DEF MemFields
<1>7. ChainShaped(e)  BY <1>4, <1>6 DEF ChainShaped
<1>8. SameBut({"chain", "head", "tail", "active"}, w, e)  BY ONLY <1>1, <1>2, <1>6 DEF SameBut
<1>9. \A c \in BlockIds : c # b /\ c # w.tail => e.chain[c].next = w.chain[c].next  BY ONLY <1>2, <1>4, <1>6
<1>. QED  BY <1>0, <1>6, <1>7, <1>8, <1>9

LEMMA ActiveOpened ==
  ASSUME NEW d, NEW s, Mem(d, s), Room(d), NEW e, e = OpenActive(d)
  PROVE  \/ e.stop # "no" /\ e.flash = d.flash
         \/ \E t : /\ Mem(e, t) /\ e.zone = d.zone /\ e.zoneIndex = d.zoneIndex /\ e.flash = d.flash
                   /\ e.active.block # INVALID /\ Room(e)
PROOF
<1>1. Core(d, s) /\ IndexOK(d) /\ DOMAIN d = MemFields /\ d.stop = "no"
  BY DEF Mem, Core, Shaped, ChainShaped
<1>2. PICK w, b : w = PopupEmptyBlock(d) /\ b = w.popped  OBVIOUS
<1>5. PICK o : o = UseBlock(w)  OBVIOUS
<1>6. e = IF d.active.block # INVALID THEN d ELSE IF w.stop # "no" THEN w ELSE o
  <2>1. (d.active.block = INVALID) = (d.active = NoActive)  BY <1>1 DEF Core, ActiveOK, NoActive
  <2>. QED  BY <1>2, <1>5, <2>1 DEF OpenActive
<1>7. CASE d.active.block # INVALID
  <2>1. e = d  BY <1>6, <1>7
  <2>. QED  BY <1>7, <2>1
<1>8. CASE d.active.block = INVALID
  <2>1. \/ (w.stop # "no" /\ w.flash = d.flash)
        \/ \E c, t : Taken(d, d, w, c, t)
    BY <1>1, <1>2, TakesSpare
  <2>2. CASE w.stop # "no" /\ w.flash = d.flash
    <3>1. e = w  BY <1>6, <1>8, <2>2
    <3>. QED  BY <2>2, <3>1
  <2>3. ASSUME NEW c, NEW t, Taken(d, d, w, c, t)
        PROVE  /\ Mem(e, t) /\ e.zone = d.zone /\ e.zoneIndex = d.zoneIndex /\ e.flash = d.flash
               /\ e.active.block # INVALID /\ Room(e)
    <3>1. /\ c = b /\ w.stop = "no" /\ SameBut({"chain", "spareHead", "popped"}, d, w) /\ ChainShaped(w) /\ Chained(w, t)
          /\ b \in Data /\ b \notin Tables(d) /\ b \notin Held(d) /\ d.flash[b].last = 0
          /\ d.spareHead \in BlockIds
          /\ \A x \in BlockIds : x # b => w.chain[x] = d.chain[x]
      BY <1>2, <2>3 DEF Taken
    <3>2. \A i \in 1 .. Len(t) : /\ d.flash[t[i]].last = 0 /\ t[i] \notin Tables(d) /\ t[i] \notin Held(d)
                                 /\ t[i] # b /\ t[i] \in BlockIds
      BY <2>3, <3>1 DEF Taken
    <3>3. b \in BlockIds /\ b # INVALID  BY <3>1, BlockFacts
    <3>4. e = o  BY <1>6, <1>8, <3>1
    <3>5. /\ ChainShaped(e) /\ e.tail = b /\ e.active = [block |-> b, last |-> 0, eob |-> <<>>]
          /\ SameBut({"chain", "head", "tail", "active"}, w, e)
          /\ \A x \in BlockIds : x # b /\ x # w.tail => e.chain[x].next = w.chain[x].next
      BY <1>2, <1>5, <3>1, <3>3, <3>4, ActiveLinked
    <3>6. e.active.block = b /\ e.active.last = 0 /\ e.active.eob = <<>> /\ DOMAIN e.active = {"block", "last", "eob"}
      BY <3>5
    <3>7. /\ w.tail = d.tail /\ e.spareHead = w.spareHead /\ e.spareTail = w.spareTail /\ e.flash = d.flash
          /\ e.zone = d.zone /\ e.link = d.link
      BY ONLY <1>1, <3>1, <3>5 DEF SameBut, MemFields
    <3>8. SameBut({"chain", "spareHead", "popped", "head", "tail", "active"}, d, e)
      BY ONLY <3>1, <3>5 DEF SameBut
    <3>9. \A x \in BlockIds : x # b /\ x # d.tail => e.chain[x].next = w.chain[x].next
      BY <3>5, <3>7
    <3>10. d.tail \in Held(d) /\ d.link.block \in Held(d)  BY DEF Held
    <3>11. ASSUME NEW i \in 1 .. Len(t)
           PROVE  e.chain[t[i]].next = w.chain[t[i]].next
      <4>1. PICK x : x = t[i]  OBVIOUS
      <4>2. x \in BlockIds /\ x # b /\ x # d.tail  BY <3>2, <3>10, <4>1
      <4>3. e.chain[x].next = w.chain[x].next  BY ONLY <3>9, <4>2
      <4>. QED  BY ONLY <4>1, <4>3
    <3>12. Chained(e, t)
      <4>1. Distinct(t) /\ (Len(t) = 0 => Ended(w)) /\ (Len(t) # 0 => Linked(w, t))  BY <3>1 DEF Chained
      <4>2. CASE Len(t) = 0
        <5>1. Ended(e)  BY <3>7, <4>1, <4>2 DEF Ended
        <5>. QED  BY <4>1, <4>2, <5>1 DEF Chained
      <4>3. CASE Len(t) # 0
        <5>1. Len(t) \in Nat /\ Len(t) \in 1 .. Len(t)
          <6>1. Len(t) \in Nat  BY <4>1 DEF Distinct
          <6>. QED  BY <4>3, <6>1
        <5>2. \A i \in 1 .. Len(t) - 1 : i \in 1 .. Len(t)  BY <5>1
        <5>3. Linked(e, t)  BY <3>7, <3>11, <4>1, <4>3, <5>1, <5>2 DEF Linked
        <5>. QED  BY <4>1, <4>3, <5>3 DEF Chained
      <4>. QED  BY <4>2, <4>3
    <3>13. SameGroups(d, e)  BY <3>7 DEF SameGroups
    <3>14. \A x \in Held(e) : x \in Held(d) \/ x = b
      <4>1. MappedIn(e) = MappedIn(d)  BY <3>13, SameAddresses
      <4>. QED  BY <3>5, <3>6, <3>7, <4>1 DEF Held
    <3>15. ASSUME NEW i \in 1 .. Len(t)
           PROVE  d.flash[t[i]].last = 0 /\ t[i] \notin Tables(d) /\ t[i] \notin Held(e)
      BY <3>2, <3>14
    <3>16. ASSUME NEW x \in Tables(d), x \in BlockIds
           PROVE  e.chain[x].next = d.chain[x].next /\ d.spareHead \in BlockIds
      <4>1. x # b /\ x # INVALID  BY <3>1, <3>16, BlockFacts
      <4>2. x # d.tail  BY <1>1, <3>10, <4>1 DEF Core, Roles
      <4>. QED  BY <3>1, <3>9, <3>16, <4>1, <4>2
    <3>17. ActiveOK(e)
      <4>1. e.active.eob \in Seq(Int) /\ Len(e.active.eob) = 0  BY <3>6
      <4>2. 0 .. 0 - 1 = {}  OBVIOUS
      <4>. QED  BY <3>1, <3>3, <3>6, <3>7, <4>1, <4>2 DEF ActiveOK
    <3>18. d.link.block # e.active.block /\ d.link.block # e.tail  BY <3>1, <3>5, <3>6, <3>10
    <3>19. Reopened(d, e, t)
      BY <3>1, <3>5, <3>6, <3>8, <3>12, <3>15, <3>16, <3>17, <3>18 DEF Reopened
    <3>20. /\ Core(e, t) /\ e.zone = d.zone /\ e.zoneIndex = d.zoneIndex /\ e.flash = d.flash
           /\ (IndexOK(d) => IndexOK(e))
      BY <1>1, <3>19, ActiveChanged
    <3>21. Room(e)
      <4>1. PagesPerBlock \in 3 .. 255  BY PageModeAssumption
      <4>. QED  BY ONLY <3>6, <4>1 DEF Room
    <3>. QED  BY <1>1, <3>3, <3>6, <3>20, <3>21 DEF Mem
  <2>. QED  BY <2>1, <2>2, <2>3
<1>. QED  BY <1>7, <1>8

-----------------------------------------------------------------------------
(* Writing data.                                                           *)
DataPut(d, e, h, secs) ==
  LET b == d.active.block
      l == d.active.last
  IN  /\ SameBut({"flash", "active"}, d, e) /\ FlashOK(e.flash)
      /\ \A c \in BlockIds : c # b => e.flash[c] = d.flash[c]
      /\ DOMAIN e.active = {"block", "last", "eob"} /\ e.active.block = b
      /\ e.active.last = e.flash[b].last /\ e.active.last \in Nat /\ e.active.last > l
      /\ e.active.last \in 0 .. PagesPerBlock - 2 \/ e.active.last = PagesPerBlock
      /\ ActiveOK(e)
      /\ \A q \in 0 .. l - 1 : ReadPage(e.flash, b, q) = ReadPage(d.flash, b, q)
      /\ ReadPage(e.flash, b, l) = [id |-> "data", body |-> [hpage |-> h, secs |-> secs]]

LEMMA DataWritten ==
  ASSUME NEW d, NEW s, Core(d, s), d.active.block # INVALID, Room(d), NEW h \in Int, NEW secs,
         NEW e, e = WriteData(d, h, secs)
  PROVE  DataPut(d, e, h, secs)
PROOF
<1>1. PICK a, b, l, eob : a = d.active /\ b = a.block /\ l = a.last /\ eob = Append(a.eob, h)  OBVIOUS
<1>2. PICK body : body = [hpage |-> h, secs |-> secs]  OBVIOUS
<1>3. PICK put : put = ProgramPage(d, b, l, "data", body)  OBVIOUS
<1>4. PICK closed : closed = IF l + 2 = PagesPerBlock THEN ProgramPage(put, b, l + 1, "eob", eob) ELSE put  OBVIOUS
<1>5. PICK n : n = l + (IF l + 2 = PagesPerBlock THEN 2 ELSE 1)  OBVIOUS
<1>6. e = [closed EXCEPT !.active.last = n, !.active.eob = eob]
  BY <1>1, <1>2, <1>3, <1>4, <1>5 DEF WriteData
<1>7. /\ DOMAIN d = MemFields /\ FlashOK(d.flash) /\ DOMAIN a = {"block", "last", "eob"} /\ b \in Data
      /\ l \in 0 .. PagesPerBlock - 2
  BY <1>1 DEF Core, Shaped, ChainShaped, ActiveOK, Room
<1>8. /\ l = d.flash[b].last /\ a.eob \in Seq(Int) /\ Len(a.eob) = l
      /\ \A q \in 0 .. l - 1 : ReadPage(d.flash, b, q).id = "data" /\ ReadPage(d.flash, b, q).body.hpage = a.eob[q + 1]
  <2>1. l < PagesPerBlock  BY <1>7, PageModeAssumption
  <2>. QED  BY <1>1, <2>1 DEF Core, ActiveOK
<1>9. h \in Int  OBVIOUS
<1>10. eob \in Seq(Int) /\ Len(eob) = l + 1 /\ eob[l + 1] = h /\ \A i \in 1 .. l : eob[i] = a.eob[i]
  BY ONLY <1>1, <1>8, <1>9, Appended
<1>11. b \in BlockIds /\ l \in Pages /\ l + 1 \in Pages /\ l >= d.flash[b].last /\ l \in Nat /\ "flash" \in DOMAIN d
       /\ "active" \in DOMAIN d
  <2>1. b \in BlockIds  BY ONLY <1>7, BlockFacts
  <2>2. PagesPerBlock \in 3 .. 255  BY PageModeAssumption
  <2>3. l \in Nat /\ l \in Pages /\ l + 1 \in Pages  BY ONLY <1>7, <2>2 DEF Pages
  <2>4. "flash" \in DOMAIN d /\ "active" \in DOMAIN d  BY ONLY <1>7 DEF MemFields
  <2>5. l >= d.flash[b].last  BY ONLY <1>8, <2>3
  <2>. QED  BY ONLY <2>1, <2>3, <2>4, <2>5
<1>12. Programmed(d, put, b)
  BY ONLY <1>3, <1>7, <1>11, "data" # "eob", ProgramOK
<1>13. /\ put.flash[b].last = l + 1
       /\ \A c, q : ReadPage(put.flash, c, q) =
            IF c = b /\ q = l THEN [id |-> "data", body |-> body] ELSE ReadPage(d.flash, c, q)
  BY ONLY <1>3, <1>7, <1>11, ProgramReads
<1>14. FlashOK(put.flash) /\ "flash" \in DOMAIN put /\ DOMAIN put = MemFields /\ put.active = a
       /\ (\A c \in BlockIds : c # b => put.flash[c] = d.flash[c])
       /\ \A f \in MemFields : f # "flash" => put[f] = d[f]
  BY ONLY <1>1, <1>7, <1>11, <1>12 DEF Programmed
<1>15. body.hpage = h  BY <1>2
<1>16. \A q \in 0 .. l : /\ ReadPage(put.flash, b, q).id = "data"
                         /\ ReadPage(put.flash, b, q).body.hpage = eob[q + 1]
  <2>1. SUFFICES ASSUME NEW q \in 0 .. l
                 PROVE  ReadPage(put.flash, b, q).id = "data" /\ ReadPage(put.flash, b, q).body.hpage = eob[q + 1]
    OBVIOUS
  <2>2. CASE q = l
    <3>1. ReadPage(put.flash, b, q) = [id |-> "data", body |-> body]  BY ONLY <1>13, <2>2
    <3>. QED  BY ONLY <1>10, <1>15, <2>2, <3>1
  <2>3. CASE q # l
    <3>1. q \in 0 .. l - 1 /\ q + 1 \in 1 .. l  BY ONLY <1>11, <2>3, q \in 0 .. l
    <3>2. ReadPage(put.flash, b, q) = ReadPage(d.flash, b, q)  BY ONLY <1>13, <2>3
    <3>. QED  BY ONLY <1>8, <1>10, <3>1, <3>2
  <2>. QED  BY <2>2, <2>3
<1>17. /\ FlashOK(closed.flash) /\ DOMAIN closed = MemFields /\ closed.active = a
       /\ (\A c \in BlockIds : c # b => closed.flash[c] = d.flash[c])
       /\ (\A f \in MemFields : f # "flash" => closed[f] = d[f])
       /\ closed.flash[b].last = n
       /\ \A q \in 0 .. l : ReadPage(closed.flash, b, q) = ReadPage(put.flash, b, q)
  <2>1. CASE l + 2 # PagesPerBlock
    <3>1. closed = put /\ n = l + 1  BY ONLY <1>4, <1>5, <2>1
    <3>. QED  BY ONLY <1>13, <1>14, <3>1
  <2>2. CASE l + 2 = PagesPerBlock
    <3>1. closed = ProgramPage(put, b, l + 1, "eob", eob) /\ n = l + 2  BY ONLY <1>4, <1>5, <2>2
    <3>2. Describes(put.flash, b, l + 1, eob)
      <4>1. \A q \in Pages : q < l + 1 => q \in 0 .. l  BY ONLY <1>11 DEF Pages
      <4>. QED  BY ONLY <1>16, <4>1 DEF Describes
    <3>3. Programmed(put, closed, b)  BY ONLY <1>14, <3>1, <3>2, ProgramDescribed
    <3>4. l + 1 >= put.flash[b].last  BY ONLY <1>11, <1>13
    <3>5. /\ closed.flash[b].last = l + 1 + 1
          /\ \A c, q : ReadPage(closed.flash, c, q) =
               IF c = b /\ q = l + 1 THEN [id |-> "eob", body |-> eob] ELSE ReadPage(put.flash, c, q)
      BY ONLY <1>11, <1>14, <3>1, <3>4, ProgramReads
    <3>6. \A q \in 0 .. l : q # l + 1  BY ONLY <1>11
    <3>7. closed.flash[b].last = n  BY ONLY <1>11, <3>1, <3>5
    <3>8. \A q \in 0 .. l : ReadPage(closed.flash, b, q) = ReadPage(put.flash, b, q)  BY ONLY <3>5, <3>6
    <3>9. /\ FlashOK(closed.flash) /\ DOMAIN closed = MemFields /\ closed.active = a
          /\ (\A c \in BlockIds : c # b => closed.flash[c] = d.flash[c])
          /\ (\A f \in MemFields : f # "flash" => closed[f] = d[f])
      <4>1. "active" \in MemFields /\ "active" # "flash"  BY DEF MemFields
      <4>. QED  BY ONLY <1>14, <3>3, <4>1 DEF Programmed
    <3>. QED  BY ONLY <3>7, <3>8, <3>9
  <2>. QED  BY <2>1, <2>2
<1>18. PICK k : k = [[a EXCEPT !.last = n] EXCEPT !.eob = eob]  OBVIOUS
<1>19. DOMAIN k = {"block", "last", "eob"} /\ k.block = b /\ k.last = n /\ k.eob = eob
  BY ONLY <1>1, <1>7, <1>18
<1>20. e = [closed EXCEPT !.active = k]  BY ONLY <1>6, <1>17, <1>18 DEF MemFields
<1>21. DOMAIN e = MemFields /\ e.active = k /\ e.flash = closed.flash
       /\ \A f \in MemFields : f \notin {"flash", "active"} => e[f] = d[f]
  BY ONLY <1>17, <1>20 DEF MemFields
<1>22. n \in Nat /\ n > l /\ ((n = l + 1 /\ n \in 0 .. PagesPerBlock - 2) \/ n = PagesPerBlock)
  BY ONLY <1>5, <1>7, <1>11, PageModeAssumption
<1>23. ActiveOK(e)
  <2>1. CASE n = l + 1
    <3>1. \A q \in 0 .. n - 1 : q \in 0 .. l  BY ONLY <1>11, <2>1
    <3>2. \A q \in 0 .. n - 1 : /\ ReadPage(e.flash, b, q).id = "data"
                                /\ ReadPage(e.flash, b, q).body.hpage = eob[q + 1]
      BY ONLY <1>16, <1>17, <1>21, <3>1
    <3>3. e.flash[b].last = n /\ Len(eob) = n  BY ONLY <1>10, <1>17, <1>21, <2>1
    <3>. QED  BY ONLY <1>7, <1>10, <1>19, <1>21, <3>2, <3>3, BlockFacts DEF ActiveOK
  <2>2. CASE n = PagesPerBlock
    <3>1. ~ (n < PagesPerBlock)  BY ONLY <1>22, <2>2, PageModeAssumption
    <3>. QED  BY ONLY <1>7, <1>19, <1>21, <3>1, BlockFacts DEF ActiveOK
  <2>. QED  BY <1>22, <2>1, <2>2
<1>24. SameBut({"flash", "active"}, d, e)  BY ONLY <1>7, <1>21 DEF SameBut
<1>25. \A q \in 0 .. l - 1 : ReadPage(e.flash, b, q) = ReadPage(d.flash, b, q)
  <2>1. \A q \in 0 .. l - 1 : q \in 0 .. l /\ q # l  BY ONLY <1>11
  <2>. QED  BY ONLY <1>13, <1>17, <1>21, <2>1
<1>26. ReadPage(e.flash, b, l) = [id |-> "data", body |-> body]
  <2>1. l \in 0 .. l  BY ONLY <1>11
  <2>. QED  BY ONLY <1>13, <1>17, <1>21, <2>1
<1>27. e.active.last = e.flash[b].last  BY ONLY <1>17, <1>19, <1>21
<1>. QED  BY ONLY <1>1, <1>2, <1>17, <1>19, <1>21, <1>22, <1>23, <1>24, <1>25, <1>26, <1>27 DEF DataPut

(* The address of a host page is entered in its group table; a zone that   *)
(* has no table yet gets an empty one first.                               *)
AddressPut(d, e, h, b, p) ==
  /\ SameBut({"zone"}, d, e) /\ DOMAIN e.zone = ZoneIds
  /\ \A z \in ZoneIds : ZoneShaped(e.zone[z]) /\ e.zone[z].block = d.zone[z].block
  /\ NandAddress(e, h) = <<b, p>>
  /\ \A g \in HPages : g # h => NandAddress(e, g) = NandAddress(d, g)

LEMMA NoZoneShaped ==
  ASSUME NEW luck, NEW z
  PROVE  LET m == NoZone(luck, z)
         IN  /\ DOMAIN m = ZoneFields /\ m.made = FALSE /\ m.block = INVALID /\ m.last = 0
             /\ m.group = [g \in Groups |-> NoGroup]
  BY DEF NoZone, ZoneFields

LEMMA AddressWritten ==
  ASSUME NEW d, Shaped(d), NEW h \in HPages, NEW b, NEW p, NEW e, e = SetNandAddress(d, h, b, p)
  PROVE  AddressPut(d, e, h, b, p)
PROOF
<1>1. PICK z, g, i : z = ZoneOf(h) /\ g = GroupOf(h) /\ i = h % PagesPerGroup  OBVIOUS
<1>2. z \in ZoneIds /\ g \in Groups /\ i \in 0 .. PagesPerGroup - 1
      /\ h = PagesPerGroup * (GroupsPerZone * z + g) + i
  BY <1>1, Addresses
<1>3. DOMAIN d = MemFields /\ DOMAIN d.zone = ZoneIds /\ \A y \in ZoneIds : ZoneShaped(d.zone[y])
  BY DEF Shaped, ChainShaped
<1>4. PICK old : old = [d.zone[z] EXCEPT !.made = TRUE]  OBVIOUS
<1>5. /\ DOMAIN old = ZoneFields /\ old.made /\ old.last \in Nat /\ old.block = d.zone[z].block
      /\ old.group = d.zone[z].group
  <2>1. ZoneShaped(d.zone[z])  BY <1>2, <1>3
  <2>. QED  BY ONLY <1>4, <2>1 DEF ZoneShaped, ZoneFields
<1>6. DOMAIN old.group = Groups /\ \A y \in Groups : DOMAIN old.group[y].add = 0 .. PagesPerGroup - 1
  BY <1>2, <1>3, <1>5 DEF ZoneShaped
<1>7. PICK add : add = [old.group[g].add EXCEPT ![i] = <<b, p>>]  OBVIOUS
<1>8. DOMAIN add = 0 .. PagesPerGroup - 1 /\ add[i] = <<b, p>>
      /\ \A j \in 0 .. PagesPerGroup - 1 : j # i => add[j] = old.group[g].add[j]
  BY ONLY <1>2, <1>6, <1>7
<1>9. PICK rec : rec = [made |-> TRUE, dirty |-> TRUE, add |-> add]  OBVIOUS
<1>10. PICK group : group = [old.group EXCEPT ![g] = rec]  OBVIOUS
<1>11. DOMAIN group = Groups /\ group[g] = rec /\ \A y \in Groups : y # g => group[y] = old.group[y]
  BY ONLY <1>2, <1>6, <1>10
<1>12. PICK n : n = [[old EXCEPT !.changed = TRUE] EXCEPT !.group = group]  OBVIOUS
<1>13. DOMAIN n = ZoneFields /\ n.made /\ n.last \in Nat /\ n.block = d.zone[z].block /\ n.group = group
  BY ONLY <1>5, <1>12 DEF ZoneFields
<1>14. e = [d EXCEPT !.zone[z] = n]
  <2>1. PICK m : m = d.zone[z]  OBVIOUS
  <2>2. DOMAIN m = ZoneFields /\ m.group = old.group  BY ONLY <1>2, <1>3, <1>5, <2>1 DEF ZoneShaped
  <2>3. e = [d EXCEPT !.zone[z] = [m EXCEPT !.made = TRUE, !.changed = TRUE, !.group[g] =
                [made |-> TRUE, dirty |-> TRUE, add |-> [m.group[g].add EXCEPT ![i] = <<b, p>>]]]]
    BY ONLY <1>1, <2>1, h \in HPages, e = SetNandAddress(d, h, b, p) DEF SetNandAddress
  <2>4. [made |-> TRUE, dirty |-> TRUE, add |-> [m.group[g].add EXCEPT ![i] = <<b, p>>]] = rec
    BY ONLY <1>7, <1>9, <2>2
  <2>5. [m EXCEPT !.made = TRUE, !.changed = TRUE, !.group[g] = rec] = n
    BY ONLY <1>4, <1>10, <1>12, <2>1, <2>2 DEF ZoneFields
  <2>. QED  BY ONLY <2>3, <2>4, <2>5
<1>15. /\ DOMAIN e = MemFields /\ (\A f \in MemFields : f # "zone" => e[f] = d[f]) /\ DOMAIN e.zone = ZoneIds
       /\ e.zone[z] = n /\ \A y \in ZoneIds : y # z => e.zone[y] = d.zone[y]
  BY ONLY <1>2, <1>3, <1>14 DEF MemFields
<1>16. ZoneShaped(n)
  <2>1. \A y \in Groups : DOMAIN group[y].add = 0 .. PagesPerGroup - 1
    BY ONLY <1>6, <1>8, <1>9, <1>11
  <2>. QED  BY ONLY <1>11, <1>13, <2>1 DEF ZoneShaped
<1>17. \A y \in ZoneIds : ZoneShaped(e.zone[y]) /\ e.zone[y].block = d.zone[y].block
  BY ONLY <1>3, <1>13, <1>15, <1>16
<1>18. NandAddress(e, h) = <<b, p>>
  <2>1. e.zone[z].group[g] = rec  BY ONLY <1>11, <1>13, <1>15
  <2>2. rec.add[i] = <<b, p>>  BY ONLY <1>8, <1>9
  <2>3. e.zone[z].group[g].add[i] = <<b, p>>  BY ONLY <2>1, <2>2
  <2>4. NandAddress(e, h) = e.zone[z].group[g].add[i]  BY <1>1 DEF NandAddress
  <2>. QED  BY ONLY <2>3, <2>4
<1>19. ASSUME NEW x \in HPages, x # h  PROVE NandAddress(e, x) = NandAddress(d, x)
  <2>1. PICK u, v, j : u = ZoneOf(x) /\ v = GroupOf(x) /\ j = x % PagesPerGroup  OBVIOUS
  <2>2. u \in ZoneIds /\ v \in Groups /\ j \in 0 .. PagesPerGroup - 1
        /\ x = PagesPerGroup * (GroupsPerZone * u + v) + j
    BY <2>1, Addresses
  <2>3. ~ (u = z /\ v = g /\ j = i)  BY <1>2, <1>19, <2>2
  <2>4. e.zone[u].group[v].add[j] = d.zone[u].group[v].add[j]
    <3>1. CASE u # z  BY ONLY <1>15, <2>2, <3>1
    <3>2. CASE u = z /\ v # g  BY ONLY <1>5, <1>11, <1>13, <1>15, <2>2, <3>2
    <3>3. CASE u = z /\ v = g /\ j # i
      <4>1. e.zone[z].group[g] = rec  BY ONLY <1>11, <1>13, <1>15
      <4>2. rec.add[j] = old.group[g].add[j]  BY ONLY <1>8, <1>9, <2>2, <3>3
      <4>3. e.zone[z].group[g].add[j] = d.zone[z].group[g].add[j]  BY ONLY <1>5, <4>1, <4>2
      <4>. QED  BY ONLY <3>3, <4>3
    <3>. QED  BY <2>3, <3>1, <3>2, <3>3
  <2>. QED  BY ONLY <2>1, <2>4 DEF NandAddress
<1>20. SameBut({"zone"}, d, e)  BY ONLY <1>3, <1>15 DEF SameBut
<1>. QED  BY <1>15, <1>17, <1>18, <1>19, <1>20 DEF AddressPut

LEMMA PageCounted ==
  ASSUME NEW d, ChainShaped(d), NEW b \in BlockIds, NEW e, e = CountPage(d, b)
  PROVE  /\ ChainShaped(e) /\ SameBut({"chain"}, d, e)
         /\ \A c \in BlockIds : e.chain[c].next = d.chain[c].next
PROOF
<1>1. DOMAIN d = MemFields /\ DOMAIN d.chain = BlockIds /\ \A c \in BlockIds : DOMAIN d.chain[c] = {"next", "valid"}
  BY DEF ChainShaped
<1>2. PICK k : k = [d.chain EXCEPT ![b].valid = @ + 1]  OBVIOUS
<1>3. e = [d EXCEPT !.chain = k]  BY ONLY e = CountPage(d, b), <1>1, <1>2 DEF CountPage, MemFields
<1>4. DOMAIN k = BlockIds /\ \A c \in BlockIds : DOMAIN k[c] = {"next", "valid"} /\ k[c].next = d.chain[c].next
  BY ONLY <1>1, <1>2
<1>5. DOMAIN e = MemFields /\ e.chain = k /\ \A f \in MemFields : f # "chain" => e[f] = d[f]
  BY ONLY <1>1, <1>3 DEF MemFields
<1>. QED  BY ONLY <1>1, <1>4, <1>5 DEF ChainShaped, SameBut

(* A host page that has been written reads as written, and the others as   *)
(* before.                                                                 *)
PagePut(d, e, s, h, secs) ==
  /\ Mem(e, s) /\ (Named(d) => Named(e)) /\ (SavedIndex(d) => SavedIndex(e))
  /\ e.active.block # INVALID
  /\ e.active.last \in 0 .. PagesPerBlock - 2 \/ e.active.last = PagesPerBlock
  /\ ReadHPage(e, h) = secs /\ \A g \in HPages : g # h => ReadHPage(e, g) = ReadHPage(d, g)

LEMMA PageWritten ==
  ASSUME NEW d, NEW s, Mem(d, s), d.active.block # INVALID, Room(d), NEW h \in HPages, NEW secs,
         NEW put, put = WriteData(d, h, secs), NEW b, b = d.active.block, NEW l, l = d.active.last,
         NEW x, x = CountPage(put, b), NEW e, e = SetNandAddress(x, h, b, l)
  PROVE  PagePut(d, e, s, h, secs)
PROOF
<1>1. Core(d, s) /\ IndexOK(d) /\ Shaped(d) /\ ChainShaped(d) /\ DOMAIN d = MemFields /\ Roles(d) /\ MappedOK(d)
      /\ FlashOK(d.flash)
  BY DEF Mem, Core, Shaped, ChainShaped
<1>2. DataPut(d, put, h, secs)
  <2>1. h \in Int  BY DEF HPages
  <2>. QED  BY <1>1, <2>1, DataWritten
<1>3. /\ SameBut({"flash", "active"}, d, put) /\ FlashOK(put.flash)
      /\ \A c \in BlockIds : c # b => put.flash[c] = d.flash[c]
      /\ DOMAIN put.active = {"block", "last", "eob"} /\ put.active.block = b
      /\ put.active.last = put.flash[b].last /\ put.active.last \in Nat /\ put.active.last > l
      /\ (put.active.last \in 0 .. PagesPerBlock - 2 \/ put.active.last = PagesPerBlock)
      /\ ActiveOK(put)
      /\ \A q \in 0 .. l - 1 : ReadPage(put.flash, b, q) = ReadPage(d.flash, b, q)
      /\ ReadPage(put.flash, b, l) = [id |-> "data", body |-> [hpage |-> h, secs |-> secs]]
  BY <1>2 DEF DataPut
<1>4. /\ b \in Data /\ b \in BlockIds /\ b # INVALID /\ l \in Nat /\ l = d.flash[b].last /\ b \in Held(d)
      /\ b \notin Tables(d) /\ b # d.link.block
  <2>1. b \in Data /\ l \in 0 .. PagesPerBlock - 2  BY <1>1 DEF Core, ActiveOK, Room
  <2>2. l < PagesPerBlock  BY <2>1, PageModeAssumption
  <2>3. l = d.flash[b].last  BY <1>1, <2>2 DEF Core, ActiveOK
  <2>4. b \in Held(d)  BY DEF Held
  <2>5. b # INVALID  BY <2>1, BlockFacts
  <2>6. b \notin Tables(d) /\ b # d.link.block  BY <1>1, <2>4, <2>5 DEF Roles
  <2>. QED  BY <2>1, <2>3, <2>4, <2>5, <2>6, BlockFacts
<1>5. DOMAIN put = MemFields /\ ChainShaped(put)
  <2>1. DOMAIN put = MemFields /\ put.chain = d.chain  BY ONLY <1>1, <1>3 DEF SameBut, MemFields
  <2>. QED  BY ONLY <1>1, <2>1 DEF ChainShaped
<1>6. /\ ChainShaped(x) /\ SameBut({"chain"}, put, x)
      /\ \A c \in BlockIds : x.chain[c].next = put.chain[c].next
  BY <1>4, <1>5, PageCounted
<1>7. /\ DOMAIN x = MemFields /\ x.zone = d.zone /\ x.zoneIndex = d.zoneIndex /\ x.link = d.link
      /\ x.active = put.active /\ x.flash = put.flash
  BY ONLY <1>1, <1>3, <1>5, <1>6 DEF SameBut, MemFields
<1>8. Shaped(x)  BY ONLY <1>1, <1>3, <1>6, <1>7 DEF Shaped
<1>9. AddressPut(x, e, h, b, l)  BY <1>8, AddressWritten
<1>10. /\ SameBut({"zone"}, x, e) /\ DOMAIN e.zone = ZoneIds
       /\ \A z \in ZoneIds : ZoneShaped(e.zone[z]) /\ e.zone[z].block = x.zone[z].block
       /\ NandAddress(e, h) = <<b, l>>
       /\ \A g \in HPages : g # h => NandAddress(e, g) = NandAddress(x, g)
  BY <1>9 DEF AddressPut
<1>11. /\ DOMAIN e = MemFields /\ e.chain = x.chain /\ e.zoneIndex = d.zoneIndex /\ e.link = d.link
       /\ e.active = put.active /\ e.flash = put.flash
  BY ONLY <1>7, <1>10 DEF SameBut, MemFields
<1>12. /\ e.spareHead = d.spareHead /\ e.spareTail = d.spareTail /\ e.head = d.head /\ e.tail = d.tail
       /\ e.stop = d.stop /\ e.luck = d.luck
  BY ONLY <1>1, <1>3, <1>5, <1>6, <1>10 DEF SameBut, MemFields
<1>13. \A c \in BlockIds : e.chain[c].next = d.chain[c].next
  <2>1. put.chain = d.chain  BY ONLY <1>1, <1>3 DEF SameBut, MemFields
  <2>. QED  BY ONLY <1>6, <1>11, <2>1
<1>14. \A g \in HPages : g # h => NandAddress(e, g) = NandAddress(d, g)
  <2>1. \A g \in HPages : NandAddress(x, g) = NandAddress(d, g)  BY ONLY <1>7 DEF NandAddress
  <2>. QED  BY ONLY <1>10, <2>1
<1>15. \A z \in ZoneIds : ZoneShaped(e.zone[z]) /\ e.zone[z].block = d.zone[z].block  BY ONLY <1>7, <1>10
<1>16. Shaped(e)
  <2>1. ChainShaped(e)  BY ONLY <1>6, <1>11 DEF ChainShaped
  <2>. QED  BY ONLY <1>1, <1>3, <1>10, <1>11, <1>15, <2>1 DEF Shaped
<1>17. Tables(e) = Tables(d)  BY ONLY <1>11, <1>15 DEF Tables
<1>18. \A c \in MappedIn(e) : c \in MappedIn(d) \/ c = b
  <2>1. SUFFICES ASSUME NEW g \in HPages  PROVE NandAddress(e, g)[1] \in MappedIn(d) \/ NandAddress(e, g)[1] = b
    BY DEF MappedIn
  <2>2. CASE g = h  BY ONLY <1>10, <2>2
  <2>3. CASE g # h  BY ONLY <1>14, <2>3, g \in HPages DEF MappedIn
  <2>. QED  BY <2>2, <2>3
<1>19. \A c \in Held(e) : c \in Held(d)
  <2>1. e.active.block = b  BY <1>3, <1>11
  <2>2. \A c \in MappedIn(d) : c \in Held(d)  BY DEF Held
  <2>3. IndexBlock \in Held(d) /\ d.link.block \in Held(d) /\ d.tail \in Held(d)  BY DEF Held
  <2>. QED  BY ONLY <1>4, <1>11, <1>12, <1>18, <2>1, <2>2, <2>3 DEF Held
<1>20. Roles(e)
  <2>1. e.link.block # e.active.block /\ e.link.block # e.tail /\ e.link.block \notin MappedIn(e)
    BY ONLY <1>1, <1>3, <1>4, <1>11, <1>12, <1>18 DEF Roles
  <2>2. \A c \in Tables(e) : c \in Held(e) => c = INVALID  BY ONLY <1>1, <1>17, <1>19 DEF Roles
  <2>. QED  BY ONLY <1>1, <1>11, <1>15, <2>1, <2>2 DEF Roles
<1>21. \A i \in 1 .. Len(s) : s[i] \in BlockIds  BY <1>1, SpareFacts
<1>22. Chained(e, s)
  <2>1. Distinct(s) /\ (Len(s) = 0 => Ended(d)) /\ (Len(s) # 0 => Linked(d, s))  BY <1>1 DEF Core, Chained
  <2>2. CASE Len(s) = 0
    <3>1. Ended(e)  BY ONLY <1>12, <2>1, <2>2 DEF Ended
    <3>. QED  BY <2>1, <2>2, <3>1 DEF Chained
  <2>3. CASE Len(s) # 0
    <3>1. Len(s) \in Nat /\ Len(s) \in 1 .. Len(s)
      <4>1. Len(s) \in Nat  BY <1>1, SpareFacts
      <4>. QED  BY <2>3, <4>1
    <3>2. \A i \in 1 .. Len(s) - 1 : i \in 1 .. Len(s)  BY <3>1
    <3>3. \A i \in 1 .. Len(s) : e.chain[s[i]].next = d.chain[s[i]].next  BY ONLY <1>13, <1>21
    <3>4. Linked(e, s)  BY ONLY <1>12, <2>1, <2>3, <3>1, <3>2, <3>3 DEF Linked
    <3>. QED  BY <2>1, <2>3, <3>4 DEF Chained
  <2>. QED  BY <2>2, <2>3
<1>23. Unused(e, s)
  <2>1. SUFFICES ASSUME NEW i \in 1 .. Len(s)
                 PROVE  e.flash[s[i]].last = 0 /\ s[i] \notin Tables(e) /\ s[i] \notin Held(e)
    BY DEF Unused
  <2>2. d.flash[s[i]].last = 0 /\ s[i] \notin Tables(d) /\ s[i] \notin Held(d)  BY <1>1 DEF Core, Unused
  <2>3. e.flash[s[i]] = d.flash[s[i]]  BY ONLY <1>3, <1>4, <1>11, <1>21, <2>2, i \in 1 .. Len(s)
  <2>. QED  BY ONLY <1>17, <1>19, <2>2, <2>3
<1>24. Marked(e)
  <2>1. Marked(d)  BY <1>1 DEF Core
  <2>. QED  BY ONLY <1>12, <1>13, <1>17, <2>1 DEF Marked
<1>25. ActiveOK(e)  BY ONLY <1>3, <1>11 DEF ActiveOK
<1>26. ASSUME NEW g \in HPages, g # h, NandAddress(d, g)[1] # INVALID
       PROVE  /\ NandAddress(d, g)[1] \in Data /\ NandAddress(d, g)[2] \in 0 .. e.flash[NandAddress(d, g)[1]].last - 1
              /\ ReadPage(e.flash, NandAddress(d, g)[1], NandAddress(d, g)[2])
                   = ReadPage(d.flash, NandAddress(d, g)[1], NandAddress(d, g)[2])
  <2>1. PICK c, q : c = NandAddress(d, g)[1] /\ q = NandAddress(d, g)[2]  OBVIOUS
  <2>2. c \in Data /\ q \in 0 .. d.flash[c].last - 1  BY ONLY <1>1, <1>26, <2>1 DEF MappedOK
  <2>3. c \in BlockIds  BY ONLY <2>2, BlockFacts
  <2>4. CASE c = b
    <3>1. q \in 0 .. l - 1 /\ e.flash[b].last \in Nat /\ e.flash[b].last > l
      BY ONLY <1>3, <1>4, <1>11, <2>2, <2>4
    <3>2. q \in 0 .. e.flash[b].last - 1  BY ONLY <1>4, <3>1
    <3>3. ReadPage(e.flash, b, q) = ReadPage(d.flash, b, q)  BY ONLY <1>3, <1>11, <3>1
    <3>. QED  BY ONLY <2>1, <2>2, <2>4, <3>2, <3>3
  <2>5. CASE c # b
    <3>1. e.flash[c] = d.flash[c]  BY ONLY <1>3, <1>11, <2>3, <2>5
    <3>2. ReadPage(e.flash, c, q) = ReadPage(d.flash, c, q)  BY ONLY <3>1 DEF ReadPage
    <3>. QED  BY ONLY <2>1, <2>2, <3>1, <3>2
  <2>. QED  BY <2>4, <2>5
<1>27. MappedOK(e)
  <2>1. SUFFICES ASSUME NEW g \in HPages, NandAddress(e, g)[1] # INVALID
                 PROVE  /\ NandAddress(e, g)[1] \in Data
                        /\ NandAddress(e, g)[2] \in 0 .. e.flash[NandAddress(e, g)[1]].last - 1
    BY DEF MappedOK
  <2>2. CASE g = h
    <3>1. NandAddress(e, g)[1] = b /\ NandAddress(e, g)[2] = l  BY ONLY <1>10, <2>2
    <3>2. l \in 0 .. e.flash[b].last - 1  BY ONLY <1>3, <1>4, <1>11
    <3>. QED  BY ONLY <1>4, <3>1, <3>2
  <2>3. CASE g # h
    <3>1. NandAddress(e, g) = NandAddress(d, g)  BY ONLY <1>14, <2>3, g \in HPages
    <3>. QED  BY <1>26, <2>1, <2>3, <3>1
  <2>. QED  BY <2>2, <2>3
<1>28. Core(e, s)
  <2>1. e.stop = "no" /\ ~ e.luck.strays /\ FlashOK(e.flash)  BY <1>1, <1>3, <1>11, <1>12 DEF Core
  <2>. QED  BY ONLY <1>16, <1>20, <1>22, <1>23, <1>24, <1>25, <1>27, <2>1 DEF Core
<1>29. e.flash[d.zoneIndex.block] = d.flash[d.zoneIndex.block]
  <2>1. d.zoneIndex.block \in Tables(d) /\ d.zoneIndex.block \in BlockIds  BY <1>1, BlockFacts DEF Roles, Tables
  <2>. QED  BY ONLY <1>3, <1>4, <1>11, <2>1
<1>30. IndexOK(e)  BY ONLY <1>1, <1>11, <1>29 DEF IndexOK
<1>31. SavedIndex(d) => SavedIndex(e)  BY ONLY <1>11, <1>29 DEF SavedIndex
<1>32. Named(d) => Named(e)  BY ONLY <1>11, <1>15 DEF Named
<1>33. ReadHPage(e, h) = secs
  <2>1. PICK page : page = [id |-> "data", body |-> [hpage |-> h, secs |-> secs]]  OBVIOUS
  <2>2. page.id = "data" /\ page.body.secs = secs  BY ONLY <2>1
  <2>3. ReadPage(e.flash, b, l) = page  BY ONLY <1>3, <1>11, <2>1
  <2>4. NandAddress(e, h)[1] = b /\ NandAddress(e, h)[2] = l  BY ONLY <1>10
  <2>. QED  BY ONLY <1>4, <2>2, <2>3, <2>4 DEF ReadHPage
<1>34. ASSUME NEW g \in HPages, g # h  PROVE ReadHPage(e, g) = ReadHPage(d, g)
  <2>1. NandAddress(e, g) = NandAddress(d, g)  BY ONLY <1>14, <1>34
  <2>2. CASE NandAddress(d, g)[1] = INVALID  BY ONLY <2>1, <2>2 DEF ReadHPage
  <2>3. CASE NandAddress(d, g)[1] # INVALID
    <3>1. ReadPage(e.flash, NandAddress(d, g)[1], NandAddress(d, g)[2])
            = ReadPage(d.flash, NandAddress(d, g)[1], NandAddress(d, g)[2])
      BY <1>26, <1>34, <2>3
    <3>. QED  BY ONLY <2>1, <3>1 DEF ReadHPage
  <2>. QED  BY <2>2, <2>3
<1>35. e.active.block # INVALID /\ (e.active.last \in 0 .. PagesPerBlock - 2 \/ e.active.last = PagesPerBlock)
  BY ONLY <1>3, <1>4, <1>11
<1>. QED  BY <1>28, <1>30, <1>31, <1>32, <1>33, <1>34, <1>35 DEF PagePut, Mem

-----------------------------------------------------------------------------
(* The operations.                                                         *)
Good(d) == \E s : Mem(d, s) /\ Room(d) /\ Named(d) /\ SavedIndex(d)
Reads(d, e) == \A g \in HPages : ReadHPage(e, g) = ReadHPage(d, g)

LEMMA SameReads ==
  ASSUME NEW d, NEW e, e.zone = d.zone, e.flash = d.flash
  PROVE  Reads(d, e)
PROOF
<1>1. SameGroups(d, e)  BY DEF SameGroups
<1>2. \A g \in HPages : NandAddress(e, g) = NandAddress(d, g)  BY <1>1, SameAddresses
<1>. QED  BY <1>2 DEF Reads, ReadHPage

LEMMA SameNames ==
  ASSUME NEW d, NEW e, e.zone = d.zone, e.zoneIndex = d.zoneIndex, e.flash = d.flash
  PROVE  (Named(d) => Named(e)) /\ (SavedIndex(d) => SavedIndex(e))
  BY DEF Named, SavedIndex

(* Writing a host page changes what that page reads as, and no other.      *)
HostPagePut(d, e, h, secs) ==
  /\ e.stop = "no" /\ Good(e)
  /\ ReadHPage(e, h) = secs /\ \A g \in HPages : g # h => ReadHPage(e, g) = ReadHPage(d, g)

LEMMA HostPageWritten ==
  ASSUME NEW d, Good(d), NEW h \in HPages, NEW secs, NEW e, e = WriteHPage(d, h, secs)
  PROVE  (e.stop # "no" /\ FlashOK(e.flash)) \/ HostPagePut(d, e, h, secs)
PROOF
<1>1. PICK s : Mem(d, s) /\ Room(d) /\ Named(d) /\ SavedIndex(d)  BY DEF Good
<1>2. PICK o, b, l : o = OpenActive(d) /\ b = o.active.block /\ l = o.active.last  OBVIOUS
<1>3. PICK put, x : put = WriteData(o, h, secs) /\ x = CountPage(put, b)  OBVIOUS
<1>4. PICK m, f : m = SetNandAddress(x, h, b, l) /\ f = FlushAll(m)  OBVIOUS
<1>5. PICK c : c = [f EXCEPT !.active = NoActive]  OBVIOUS
<1>6. e = IF o.stop # "no" THEN o
          ELSE IF m.stop # "no" THEN m
          ELSE IF m.active.last < PagesPerBlock THEN m
          ELSE IF f.stop # "no" THEN f ELSE c
  BY <1>2, <1>3, <1>4, <1>5 DEF WriteHPage
<1>7. FlashOK(d.flash)  BY <1>1 DEF Mem, Core
<1>8. CASE o.stop # "no"
  <2>1. e = o  BY <1>6, <1>8
  <2>2. o.flash = d.flash
    <3>1. \A t : Mem(o, t) => o.stop = "no"  BY DEF Mem, Core
    <3>. QED  BY <1>1, <1>2, <1>8, <3>1, ActiveOpened
  <2>. QED  BY <1>7, <1>8, <2>1, <2>2
<1>9. CASE o.stop = "no"
  <2>1. PICK t : /\ Mem(o, t) /\ o.zone = d.zone /\ o.zoneIndex = d.zoneIndex /\ o.flash = d.flash
                 /\ o.active.block # INVALID /\ Room(o)
    BY <1>1, <1>2, <1>9, ActiveOpened
  <2>2. Reads(d, o) /\ Named(o) /\ SavedIndex(o)  BY <1>1, <2>1, SameReads, SameNames
  <2>3. PagePut(o, m, t, h, secs)  BY <1>2, <1>3, <1>4, <2>1, PageWritten
  <2>4. /\ Mem(m, t) /\ Named(m) /\ SavedIndex(m) /\ m.active.block # INVALID
        /\ m.active.last \in 0 .. PagesPerBlock - 2 \/ m.active.last = PagesPerBlock
        /\ ReadHPage(m, h) = secs /\ \A g \in HPages : g # h => ReadHPage(m, g) = ReadHPage(d, g)
    BY <2>2, <2>3 DEF PagePut, Reads
  <2>5. m.stop = "no" /\ Core(m, t)  BY <2>4 DEF Mem, Core
  <2>6. PagesPerBlock \in Nat  BY PageModeAssumption
  <2>7. CASE m.active.last < PagesPerBlock
    <3>1. e = m  BY <1>6, <1>9, <2>5, <2>7
    <3>2. Room(m)  BY <2>4, <2>6, <2>7 DEF Room
    <3>. QED  BY <2>4, <2>5, <3>1, <3>2 DEF HostPagePut, Good
  <2>8. CASE ~ (m.active.last < PagesPerBlock)
    <3>1. Flushed(m, f) /\ (f.stop = "no" => SavedIndex(f))  BY <1>4, <2>4, AllFlushed
    <3>2. CASE f.stop # "no"
      <4>1. e = f  BY <1>6, <1>9, <2>5, <2>8, <3>2
      <4>. QED  BY <3>1, <3>2, <4>1, FlushedStops
    <3>3. CASE f.stop = "no"
      <4>1. e = c  BY <1>6, <1>9, <2>5, <2>8, <3>3
      <4>2. PICK u : Mem(f, u) /\ Keeps(m, f) /\ Named(f)  BY <2>4, <3>1, <3>3 DEF Flushed
      <4>3. Mem(c, u) /\ c.zone = f.zone /\ c.zoneIndex = f.zoneIndex /\ c.flash = f.flash /\ Room(c)
        BY <1>5, <4>2, ActiveClosed
      <4>4. Named(c) /\ SavedIndex(c) /\ Reads(f, c)  BY <3>1, <3>3, <4>2, <4>3, SameReads, SameNames
      <4>5. \A g \in HPages : ReadHPage(c, g) = ReadHPage(m, g)  BY <2>5, <4>2, <4>4, KeepsReads DEF Reads
      <4>6. c.stop = "no"  BY <4>3 DEF Mem, Core
      <4>. QED  BY <2>4, <4>1, <4>3, <4>4, <4>5, <4>6 DEF HostPagePut, Good
    <3>. QED  BY <3>2, <3>3
  <2>. QED  BY <2>7, <2>8
<1>. QED  BY <1>8, <1>9

(* A page that the tables do not cover is the end of the call, its data    *)
(* written all the same.                                                   *)
LEMMA HostPageRefused ==
  ASSUME NEW d, Good(d), NEW h \in Int, h \notin HPages, NEW secs, NEW e, e = WriteHPage(d, h, secs)
  PROVE  e.stop # "no" /\ FlashOK(e.flash)
PROOF
<1>1. PICK s : Mem(d, s) /\ Room(d)  BY DEF Good
<1>2. PICK o, b : o = OpenActive(d) /\ b = o.active.block  OBVIOUS
<1>3. PICK put, x : put = WriteData(o, h, secs) /\ x = CountPage(put, b)  OBVIOUS
<1>4. PICK m : m = SetNandAddress(x, h, b, o.active.last)  OBVIOUS
<1>5. (o.stop # "no" => e = o) /\ (o.stop = "no" /\ m.stop # "no" => e = m)
  BY <1>2, <1>3, <1>4 DEF WriteHPage
<1>6. FlashOK(d.flash)  BY <1>1 DEF Mem, Core
<1>7. CASE o.stop # "no"
  <2>1. \A t : Mem(o, t) => o.stop = "no"  BY DEF Mem, Core
  <2>2. o.flash = d.flash  BY <1>1, <1>2, <1>7, <2>1, ActiveOpened
  <2>. QED  BY <1>5, <1>6, <1>7, <2>2
<1>8. CASE o.stop = "no"
  <2>1. PICK t : Mem(o, t) /\ b # INVALID /\ Room(o)  BY <1>1, <1>2, <1>8, ActiveOpened
  <2>2. Core(o, t) /\ DOMAIN o = MemFields /\ ChainShaped(o) /\ ~ o.luck.strays
    BY <2>1 DEF Mem, Core, Shaped, ChainShaped
  <2>3. DataPut(o, put, h, secs)  BY <1>2, <1>3, <2>1, <2>2, DataWritten
  <2>4. SameBut({"flash", "active"}, o, put) /\ FlashOK(put.flash)  BY <2>3 DEF DataPut
  <2>5. DOMAIN put = MemFields /\ put.chain = o.chain /\ put.luck = o.luck  BY ONLY <2>2, <2>4 DEF SameBut, MemFields
  <2>6. ChainShaped(put)  BY ONLY <2>2, <2>5 DEF ChainShaped
  <2>7. b \in BlockIds  BY <1>2, <2>1, <2>2, BlockFacts DEF Core, ActiveOK
  <2>8. SameBut({"chain"}, put, x)  BY <1>3, <2>6, <2>7, PageCounted
  <2>9. DOMAIN x = MemFields /\ x.flash = put.flash /\ x.luck = o.luck
    BY ONLY <2>5, <2>8 DEF SameBut, MemFields
  <2>10. m = [x EXCEPT !.stop = "crash"]
    BY ONLY <1>4, <2>2, <2>9, h \notin HPages DEF SetNandAddress, GoAstray
  <2>11. m.stop = "crash" /\ m.flash = put.flash  BY ONLY <2>9, <2>10 DEF MemFields
  <2>. QED  BY <1>5, <1>8, <2>4, <2>11
<1>. QED  BY <1>7, <1>8

LEMMA CacheFlushed ==
  ASSUME NEW d, Good(d), NEW e, e = FlushAll(d)
  PROVE  (e.stop # "no" /\ FlashOK(e.flash)) \/ (e.stop = "no" /\ Good(e) /\ Reads(d, e))
PROOF
<1>1. PICK s : Mem(d, s) /\ Room(d) /\ Named(d) /\ SavedIndex(d)  BY DEF Good
<1>2. Flushed(d, e) /\ (e.stop = "no" => SavedIndex(e))  BY <1>1, AllFlushed
<1>3. CASE e.stop # "no"  BY <1>2, <1>3, FlushedStops
<1>4. CASE e.stop = "no"
  <2>1. PICK t : Mem(e, t) /\ Keeps(d, e) /\ Named(e)  BY <1>1, <1>2, <1>4 DEF Flushed
  <2>2. Core(d, s)  BY <1>1 DEF Mem
  <2>3. Reads(d, e)  BY <2>1, <2>2, KeepsReads DEF Reads
  <2>4. Room(e)  BY <1>1, <2>1 DEF Room, Keeps
  <2>. QED  BY <1>2, <1>4, <2>1, <2>3, <2>4 DEF Good
<1>. QED  BY <1>3, <1>4

LEMMA GoodSame ==
  ASSUME NEW d, Good(d), NEW e, SameBut({"luck", "popped"}, d, e), ~ e.luck.strays
  PROVE  Good(e) /\ Reads(d, e) /\ e.stop = "no" /\ e.flash = d.flash /\ FlashOK(e.flash)
PROOF
<1>1. PICK s : Mem(d, s) /\ Room(d) /\ Named(d) /\ SavedIndex(d)  BY DEF Good
<1>2. Mem(e, s) /\ Keeps(d, e) /\ e.zone = d.zone /\ e.zoneIndex = d.zoneIndex /\ e.flash = d.flash
      /\ e.stop = "no"
  BY <1>1, MemSame
<1>3. Room(e)  BY <1>1, <1>2 DEF Room, Keeps
<1>4. Named(e) /\ SavedIndex(e) /\ Reads(d, e)  BY <1>1, <1>2, SameNames, SameReads
<1>5. FlashOK(e.flash)  BY <1>2 DEF Mem, Core
<1>. QED  BY <1>2, <1>3, <1>4, <1>5 DEF Good

-----------------------------------------------------------------------------
(* A new flash: block 1 holds the index, block 2 the zone index and block  *)
(* 3 the block chain; all other blocks are erased.                         *)
LEMMA PopupFirst ==
  ASSUME NEW d, ChainShaped(d), NEW b \in BlockIds \ {0}, b = d.spareHead, NEW n \in BlockIds, n = d.chain[b].next,
         NEW e, e = PopupEmptyBlock(d)
  PROVE  /\ ChainShaped(e) /\ SameBut({"chain", "spareHead", "popped"}, d, e)
         /\ e.spareHead = n /\ e.popped = b /\ e.chain[b] = [next |-> SystemMark, valid |-> 0]
         /\ \A c \in BlockIds : c # b => e.chain[c] = d.chain[c]
PROOF
<1>1. DOMAIN d = MemFields /\ DOMAIN d.chain = BlockIds /\ \A c \in BlockIds : DOMAIN d.chain[c] = {"next", "valid"}
  BY DEF ChainShaped
<1>2. PICK r : r = [next |-> SystemMark, valid |-> 0]  OBVIOUS
<1>3. PICK k : k = [d.chain EXCEPT ![b] = r]  OBVIOUS
<1>4. e = [d EXCEPT !.spareHead = n, !.chain = k, !.popped = b]
  <2>1. e = [d EXCEPT !.spareHead = n, !.chain[b] = r, !.popped = b]  BY <1>2 DEF PopupEmptyBlock
  <2>. QED  BY ONLY <1>1, <1>3, <2>1 DEF MemFields
<1>5. /\ DOMAIN e = MemFields /\ e.chain = k /\ e.spareHead = n /\ e.popped = b
      /\ \A f \in MemFields : f \notin {"chain", "spareHead", "popped"} => e[f] = d[f]
  BY ONLY <1>1, <1>4 DEF MemFields
<1>6. DOMAIN k = BlockIds /\ k[b] = r /\ \A c \in BlockIds : c # b => k[c] = d.chain[c]  BY ONLY <1>1, <1>3, b \in BlockIds \ {0}
<1>7. DOMAIN r = {"next", "valid"}  BY <1>2
<1>. QED  BY ONLY <1>1, <1>2, <1>5, <1>6, <1>7 DEF ChainShaped, SameBut

LinkBody(d, q) == [i \in 0 .. LinksPerPage - 1 |-> LinkItem(d, (q - 1) * LinksPerPage + i)]
LinkPage(d, q) == [id |-> IF q = 1 THEN "link" ELSE "link_more", body |-> LinkBody(d, q)]
LinksPut(d, e, b, k) ==
  /\ Programmed(d, e, b)
  /\ e.flash[b].last = IF k < PagesPerBlock THEN k ELSE PagesPerBlock
  /\ \A p \in Pages : p < k => e.flash[b].page[p] = LinkPage(d, p + 1)

LEMMA LinkBodyAt ==
  ASSUME NEW d, NEW q, NEW j \in 0 .. LinksPerPage - 1
  PROVE  LinkBody(d, q)[j] = LinkItem(d, (q - 1) * LinksPerPage + j)
PROOF
<1>1. PICK n : n = (q - 1) * LinksPerPage  OBVIOUS
<1>2. LinkBody(d, q) = [i \in 0 .. LinksPerPage - 1 |-> LinkItem(d, n + i)]  BY <1>1 DEF LinkBody
<1>3. [i \in 0 .. LinksPerPage - 1 |-> LinkItem(d, n + i)][j] = LinkItem(d, n + j)  OBVIOUS
<1>. QED  BY <1>1, <1>2, <1>3

LEMMA LinksWritten ==
  ASSUME NEW d, FlashOK(d.flash), DOMAIN d = MemFields, NEW b \in BlockIds, b = d.link.block, d.link.start = 0,
         d.flash[b].last = 0
  PROVE  LinksPut(d, SaveLinkPages(d), b, LinkPages)
PROOF
<1>1. PICK n : n = LinkPages  OBVIOUS
<1>2. n \in Nat /\ PagesPerBlock \in Nat /\ PagesPerBlock > 0  BY <1>1, LinkPagesCount, PageModeAssumption
<1>3. PICK f : f[0] = d /\ (\A i \in 1 .. n : f[i] = SaveLinkPage(f[i - 1], i)) /\ SaveLinkPages(d) = f[n]
  BY <1>1, <1>2, LinkLoop
<1>0. "flash" \in DOMAIN d /\ "link" \in DOMAIN d /\ "chain" \in DOMAIN d  BY DEF MemFields
<1> DEFINE T == {i \in 0 .. n : LinksPut(d, f[i], b, i)}
<1>4. 0 \in T
  <2>1. LinksPut(d, d, b, 0)  BY <1>2, ProgrammedSame DEF LinksPut, Pages
  <2>. QED  BY <1>2, <1>3, <2>1
<1>5. ASSUME NEW i \in 1 .. n, i - 1 \in T  PROVE i \in T
  <2>1. PICK x, y, p : x = f[i - 1] /\ y = f[i] /\ p = i - 1  OBVIOUS
  <2>0. p \in Nat /\ i = p + 1 /\ i \in Nat  BY <1>2, <2>1
  <2>2. LinksPut(d, x, b, p) /\ y = SaveLinkPage(x, i)  BY <1>3, <1>5, <2>1
  <2>3. Programmed(d, x, b) /\ x.flash[b].last = (IF p < PagesPerBlock THEN p ELSE PagesPerBlock)
        /\ \A q \in Pages : q < p => x.flash[b].page[q] = LinkPage(d, q + 1)
    BY ONLY <2>2 DEF LinksPut
  <2>4. FlashOK(x.flash) /\ DOMAIN x = DOMAIN d /\ x.link = d.link /\ x.chain = d.chain
    BY ONLY <1>0, <2>3 DEF Programmed
  <2>5. PICK id, body : /\ id = (IF i = 1 THEN "link" ELSE "link_more")
                        /\ body = [j \in 0 .. LinksPerPage - 1 |-> LinkItem(x, (i - 1) * LinksPerPage + j)]
    OBVIOUS
  <2>6. id # "eob"  BY <2>5
  <2>7. body = [j \in 0 .. LinksPerPage - 1 |-> LinkItem(d, (i - 1) * LinksPerPage + j)]
    BY ONLY <2>4, <2>5 DEF LinkItem
  <2>8. [id |-> id, body |-> body] = LinkPage(d, i)  BY ONLY <2>5, <2>7 DEF LinkPage, LinkBody
  <2>9. y = ProgramPage(x, b, p, id, body)
    <3>1. d.link.start + i - 1 = p  BY <2>0
    <3>. QED  BY <2>2, <2>4, <2>5, <3>1 DEF SaveLinkPage
  <2>10. Programmed(d, y, b)
    <3>1. Programmed(x, y, b)  BY <1>0, <2>4, <2>6, <2>9, ProgramOK
    <3>. QED  BY <2>3, <3>1, ProgrammedTrans
  <2>11. CASE p < PagesPerBlock
    <3>1. p \in Pages /\ p >= x.flash[b].last  BY <1>2, <2>0, <2>3, <2>11 DEF Pages
    <3>2. /\ y.flash[b].last = p + 1
          /\ \A q \in Pages : y.flash[b].page[q] = IF q = p THEN [id |-> id, body |-> body] ELSE x.flash[b].page[q]
      BY <1>0, <2>4, <2>9, <3>1, ProgramReads
    <3>3. y.flash[b].last = IF i < PagesPerBlock THEN i ELSE PagesPerBlock  BY <1>2, <2>0, <2>11, <3>2
    <3>4. ASSUME NEW q \in Pages, q < i  PROVE y.flash[b].page[q] = LinkPage(d, q + 1)
      <4>1. CASE q = p  BY <2>0, <2>8, <3>2, <4>1
      <4>2. CASE q # p
        <5>1. q < p  BY <2>0, <3>4, <4>2 DEF Pages
        <5>. QED  BY <2>3, <3>2, <4>2, <5>1
      <4>. QED  BY <4>1, <4>2
    <3>5. LinksPut(d, y, b, i)  BY <2>10, <3>3, <3>4 DEF LinksPut
    <3>. QED  BY <2>1, <3>5
  <2>12. CASE ~ (p < PagesPerBlock)
    <3>1. p \notin Pages  BY <1>2, <2>0, <2>12 DEF Pages
    <3>2. y = x  BY <2>9, <3>1 DEF ProgramPage
    <3>3. y.flash[b].last = IF i < PagesPerBlock THEN i ELSE PagesPerBlock  BY <1>2, <2>0, <2>3, <2>12, <3>2
    <3>4. \A q \in Pages : q < p  BY <1>2, <2>0, <2>12 DEF Pages
    <3>5. LinksPut(d, y, b, i)  BY <2>3, <2>10, <3>2, <3>3, <3>4 DEF LinksPut
    <3>. QED  BY <2>1, <3>5
  <2>. QED  BY <2>11, <2>12
<1> HIDE DEF T
<1>6. n \in T
  <2>1. \A i \in 0 .. n : i \in T  BY <1>2, <1>4, <1>5, Counting
  <2>. QED  BY <1>2, <2>1
<1>. QED  BY <1>1, <1>3, <1>6 DEF T

NewChain(x) ==
  /\ DOMAIN x.chain = BlockIds
  /\ \A c \in BlockIds : c \notin {2, 3} => x.chain[c].valid = INVALID
  /\ \A c \in {2, 3} : x.chain[c].next = SystemMark /\ x.chain[c].valid \in {0, 1}
NewFlash(f) ==
  /\ FlashOK(f) /\ \A c \in Data : c \notin {2, 3} => f[c].last = 0
  /\ f[1].last = 1 /\ f[1].page[0] = [id |-> "index", body |-> [zone_index |-> 2, link_block |-> 3]]
  /\ f[2].last = 1 /\ f[2].page[0] = [id |-> "zone_index", body |-> [z \in ZoneIds |-> INVALID]]
  /\ f[3].last = IF LinkPages < PagesPerBlock THEN LinkPages ELSE PagesPerBlock
  /\ \E x : NewChain(x) /\ \A p \in Pages : p < LinkPages => f[3].page[p] = LinkPage(x, p + 1)

LEMMA FirstBlocks ==
  /\ {1, 2, 3} \subseteq BlockIds /\ {2, 3} \subseteq Data /\ 0 \in Pages /\ Blocks \in Nat /\ Blocks > 3
  /\ 3 % Blocks = 3 /\ 4 % Blocks \in BlockIds /\ SystemMark # INVALID
PROOF
<1>0. Blocks \in FirstBlock + 2 .. SystemMark - 1 /\ PagesPerBlock \in 3 .. 255  BY PageModeAssumption
<1>1. Blocks \in Nat /\ Blocks > 3 /\ PagesPerBlock \in Nat /\ PagesPerBlock > 0
  BY ONLY <1>0 DEF FirstBlock, SystemMark
<1>2. 3 % Blocks = 3
  <2>1. 3 \div Blocks = 0  BY <1>1
  <2>. QED  BY <1>1
<1>3. 4 % Blocks \in 0 .. Blocks - 1  BY <1>1, Division
<1>. QED  BY <1>1, <1>2, <1>3 DEF BlockIds, Data, FirstBlock, Pages, SystemMark, INVALID

LEMMA ErasedOK ==
  ASSUME NEW f, f = [b \in BlockIds |-> Erased]
  PROVE  FlashOK(f) /\ \A b \in BlockIds : f[b].last = 0
PROOF
<1>1. DOMAIN Erased = {"last", "page"} /\ Erased.last = 0 /\ DOMAIN Erased.page = Pages
      /\ \A p \in Pages : Erased.page[p] = EmptyPage
  BY DEF Erased
<1>2. 0 \in 0 .. PagesPerBlock  BY PageModeAssumption
<1>3. DOMAIN f = BlockIds /\ \A b \in BlockIds : f[b] = Erased  OBVIOUS
<1>4. \A b, p : ReadPage(f, b, p).id = "empty"
  <2>1. EmptyPage.id = "empty"  BY DEF EmptyPage
  <2>2. \A b \in BlockIds, p \in Pages : f[b].page[p] = EmptyPage  BY <1>1, <1>3
  <2>. QED  BY ONLY <2>1, <2>2 DEF ReadPage
<1>5. Described(f)  BY ONLY <1>4 DEF Described
<1>. QED  BY ONLY <1>1, <1>2, <1>3, <1>5 DEF FlashOK

LEMMA FlashPrepared ==
  ASSUME NEW luck, NEW f, f = Pretest(luck)
  PROVE  NewFlash(f)
PROOF
<1>0. /\ 1 \in BlockIds /\ 2 \in BlockIds /\ 3 \in BlockIds /\ 0 \in Pages /\ Blocks \in Nat /\ Blocks > 3
      /\ 3 % Blocks = 3 /\ 4 % Blocks \in BlockIds /\ SystemMark # INVALID /\ FirstBlock = 2
  BY FirstBlocks DEF FirstBlock
<1>1. PICK free, first : free = FreeMemory(luck) /\ first = PopupEmptyBlock(free)  OBVIOUS
<1>2. PICK zi, map : zi = first.popped /\ map = [z \in ZoneIds |-> INVALID]  OBVIOUS
<1>3. PICK put, indexed : put = ProgramPage(first, zi, 0, "zone_index", map) /\ indexed = PutFirstIndex(first)  OBVIOUS
<1>4. indexed = [put EXCEPT !.chain[zi].valid = 1]  BY ONLY <1>2, <1>3 DEF PutFirstIndex
<1>5. PICK second, lb : second = PopupEmptyBlock(indexed) /\ lb = second.popped  OBVIOUS
<1>6. PICK placed : placed = PlaceLinks(second)  OBVIOUS
<1>7. placed = [second EXCEPT !.link.block = lb]  BY ONLY <1>5, <1>6 DEF PlaceLinks
<1>8. PICK linked : linked = SaveLinkTable(placed)  OBVIOUS
<1>9. PICK ix : ix = [zone_index |-> indexed.popped, link_block |-> linked.popped]  OBVIOUS
<1>10. f = ProgramPage(linked, IndexBlock, 0, "index", ix).flash
  BY ONLY f = Pretest(luck), <1>1, <1>3, <1>5, <1>6, <1>8, <1>9 DEF Pretest
<1>13. /\ DOMAIN free = MemFields /\ free.spareHead = 2 /\ free.flash = [b \in BlockIds |-> Erased]
       /\ free.chain = [b \in BlockIds |-> FreeBlock(b)]
       /\ free.link = [block |-> INVALID, start |-> 0]
  BY ONLY <1>0, <1>1 DEF FreeMemory, NoMemory, MemFields
<1>14. FlashOK(free.flash) /\ \A b \in BlockIds : free.flash[b].last = 0  BY ONLY <1>13, ErasedOK
<1>15. /\ ChainShaped(free) /\ free.chain[2].next = 3 /\ free.chain[3].next = 4 % Blocks
       /\ \A c \in BlockIds : free.chain[c].valid = INVALID
  <2>1. free.chain[2].next = (2 + 1) % Blocks /\ free.chain[3].next = (3 + 1) % Blocks
    <3>1. free.chain[2] = FreeBlock(2) /\ free.chain[3] = FreeBlock(3)  BY ONLY <1>0, <1>13
    <3>2. ~ (2 < FirstBlock) /\ ~ (3 < FirstBlock)  BY <1>0
    <3>3. FreeBlock(2).next = (2 + 1) % Blocks /\ FreeBlock(3).next = (3 + 1) % Blocks  BY ONLY <3>2 DEF FreeBlock
    <3>. QED  BY ONLY <3>1, <3>3
  <2>2. 2 + 1 = 3 /\ 3 + 1 = 4  OBVIOUS
  <2>3. DOMAIN free.chain = BlockIds /\ \A c \in BlockIds : DOMAIN free.chain[c] = {"next", "valid"} /\ free.chain[c].valid = INVALID
    <3>1. \A c \in BlockIds : DOMAIN FreeBlock(c) = {"next", "valid"} /\ FreeBlock(c).valid = INVALID  BY DEF FreeBlock
    <3>. QED  BY ONLY <1>13, <3>1
  <2>. QED  BY <1>0, <1>13, <2>1, <2>2, <2>3 DEF ChainShaped
<1>16. /\ ChainShaped(first) /\ SameBut({"chain", "spareHead", "popped"}, free, first)
       /\ first.spareHead = 3 /\ zi = 2 /\ first.chain[2] = [next |-> SystemMark, valid |-> 0]
       /\ \A c \in BlockIds : c # 2 => first.chain[c] = free.chain[c]
  <2>1. 2 \in BlockIds \ {0} /\ 2 = free.spareHead /\ 3 \in BlockIds /\ 3 = free.chain[2].next  BY <1>0, <1>13, <1>15
  <2>. QED  BY ONLY <1>1, <1>2, <1>15, <2>1, PopupFirst
<1>17. DOMAIN first = MemFields /\ first.flash = free.flash /\ first.link = free.link
  BY ONLY <1>13, <1>16 DEF SameBut, MemFields
<1>18. /\ Programmed(first, put, 2) /\ put.flash[2].last = 1
       /\ put.flash[2].page[0] = [id |-> "zone_index", body |-> map]
  <2>1. FlashOK(first.flash) /\ "flash" \in DOMAIN first /\ 0 >= first.flash[2].last  BY <1>0, <1>14, <1>17 DEF MemFields
  <2>2. Programmed(first, put, 2)  BY <1>3, <1>16, <2>1, ProgramOK
  <2>3. put.flash[2].last = 0 + 1 /\ put.flash[2].page[0] = [id |-> "zone_index", body |-> map]
    BY <1>0, <1>3, <1>16, <2>1, ProgramReads
  <2>. QED  BY <2>2, <2>3
<1>19. /\ DOMAIN put = MemFields /\ put.chain = first.chain /\ put.link = free.link /\ put.spareHead = 3
       /\ FlashOK(put.flash) /\ \A c \in BlockIds : c # 2 => put.flash[c] = free.flash[c]
  BY ONLY <1>16, <1>17, <1>18 DEF Programmed, MemFields
<1>20. PICK k : k = [put.chain EXCEPT ![2].valid = 1]  OBVIOUS
<1>21. indexed = [put EXCEPT !.chain = k]  BY ONLY <1>4, <1>16, <1>19, <1>20 DEF MemFields
<1>22. /\ DOMAIN indexed = MemFields /\ indexed.chain = k /\ indexed.flash = put.flash /\ indexed.link = free.link
       /\ indexed.spareHead = 3
  BY ONLY <1>19, <1>21 DEF MemFields
<1>23. /\ DOMAIN k = BlockIds /\ k[2].next = SystemMark /\ k[2].valid = 1 /\ DOMAIN k[2] = {"next", "valid"}
       /\ \A c \in BlockIds : c # 2 => k[c] = free.chain[c]
  <2>1. DOMAIN first.chain = BlockIds  BY <1>16 DEF ChainShaped
  <2>2. PICK r : r = [next |-> SystemMark, valid |-> 0]  OBVIOUS
  <2>3. first.chain[2] = r  BY <1>16, <2>2
  <2>4. k = [first.chain EXCEPT ![2] = [r EXCEPT !.valid = 1]]  BY ONLY <1>19, <1>20, <2>3
  <2>. QED  BY ONLY <1>0, <1>16, <2>1, <2>2, <2>4
<1>24. ChainShaped(indexed)  BY ONLY <1>15, <1>22, <1>23 DEF ChainShaped
<1>25. /\ ChainShaped(second) /\ SameBut({"chain", "spareHead", "popped"}, indexed, second)
       /\ lb = 3 /\ second.chain[3] = [next |-> SystemMark, valid |-> 0]
       /\ \A c \in BlockIds : c # 3 => second.chain[c] = indexed.chain[c]
  <2>1. 3 \in BlockIds \ {0} /\ 3 = indexed.spareHead /\ 4 % Blocks \in BlockIds /\ 4 % Blocks = indexed.chain[3].next
    BY <1>0, <1>15, <1>22, <1>23
  <2>. QED  BY ONLY <1>5, <1>24, <2>1, PopupFirst
<1>26. DOMAIN second = MemFields /\ second.flash = put.flash /\ second.link = free.link
  BY ONLY <1>22, <1>25 DEF SameBut, MemFields
<1>27. /\ DOMAIN placed = MemFields /\ placed.chain = second.chain /\ placed.flash = put.flash
       /\ placed.link.block = 3 /\ placed.link.start = 0 /\ DOMAIN placed.link = {"block", "start"}
  <2>1. PICK l : l = [block |-> 3, start |-> 0]  OBVIOUS
  <2>2. placed = [second EXCEPT !.link = l]  BY ONLY <1>7, <1>13, <1>25, <1>26, <2>1 DEF MemFields
  <2>. QED  BY ONLY <1>26, <2>1, <2>2 DEF MemFields
<1>28. NewChain(placed)
  <2>1. placed.chain[2] = k[2] /\ placed.chain[3] = [next |-> SystemMark, valid |-> 0]  BY <1>0, <1>22, <1>25, <1>27
  <2>2. placed.chain[3].next = SystemMark /\ placed.chain[3].valid = 0  BY <2>1
  <2>3. DOMAIN placed.chain = BlockIds  BY <1>25, <1>27 DEF ChainShaped
  <2>4. \A c \in BlockIds : c \notin {2, 3} => placed.chain[c].valid = INVALID  BY <1>15, <1>22, <1>23, <1>25, <1>27
  <2>. QED  BY <1>23, <2>1, <2>2, <2>3, <2>4 DEF NewChain
<1>29. PICK y : y = SaveLinkPages(placed)  OBVIOUS
<1>30. LinksPut(placed, y, 3, LinkPages)
  <2>1. placed.flash[3].last = 0  BY <1>0, <1>14, <1>19, <1>27
  <2>2. FlashOK(placed.flash)  BY <1>19, <1>27
  <2>. QED  BY <1>0, <1>27, <1>29, <2>1, <2>2, LinksWritten
<1>31. /\ DOMAIN y = MemFields /\ FlashOK(y.flash)
       /\ \A c \in BlockIds : c # 3 => y.flash[c] = put.flash[c]
       /\ y.flash[3].last = (IF LinkPages < PagesPerBlock THEN LinkPages ELSE PagesPerBlock)
       /\ \A p \in Pages : p < LinkPages => y.flash[3].page[p] = LinkPage(placed, p + 1)
  BY ONLY <1>27, <1>30 DEF LinksPut, Programmed
<1>32. DOMAIN linked = MemFields /\ linked.flash = y.flash
  BY ONLY <1>8, <1>29, <1>31 DEF SaveLinkTable, MemFields
<1>33. PICK e : e = ProgramPage(linked, 1, 0, "index", ix)  OBVIOUS
<1>34. f = e.flash  BY <1>10, <1>33 DEF IndexBlock
<1>35. /\ FlashOK(f) /\ (\A c \in BlockIds : c # 1 => f[c] = y.flash[c])
       /\ f[1].last = 1 /\ f[1].page[0] = [id |-> "index", body |-> ix]
  <2>1. 0 >= y.flash[1].last  BY <1>0, <1>14, <1>19, <1>31
  <2>2. "flash" \in DOMAIN linked /\ FlashOK(linked.flash)  BY <1>31, <1>32 DEF MemFields
  <2>3. Programmed(linked, e, 1)  BY <1>33, <2>2, ProgramOK
  <2>4. e.flash[1].last = 0 + 1 /\ e.flash[1].page[0] = [id |-> "index", body |-> ix]
    BY <1>0, <1>32, <1>33, <2>1, <2>2, ProgramReads
  <2>. QED  BY <1>32, <1>34, <2>3, <2>4 DEF Programmed
<1>36. ix = [zone_index |-> 2, link_block |-> 3]
  <2>1. put.popped = zi  BY ONLY <1>2, <1>17, <1>18 DEF Programmed, MemFields
  <2>2. indexed.popped = 2  BY ONLY <1>16, <1>19, <1>21, <2>1 DEF MemFields
  <2>3. placed.popped = 3  BY ONLY <1>5, <1>7, <1>25, <1>26 DEF MemFields
  <2>4. y.popped = 3  BY ONLY <1>27, <1>30, <2>3 DEF LinksPut, Programmed, MemFields
  <2>5. linked.popped = 3  BY ONLY <1>8, <1>29, <1>31, <2>4 DEF SaveLinkTable, MemFields
  <2>. QED  BY ONLY <1>9, <2>2, <2>5
<1>37. f[2] = put.flash[2] /\ f[3] = y.flash[3]  BY <1>0, <1>31, <1>35
<1>38. \A c \in Data : c \notin {2, 3} => f[c].last = 0
  <2>1. SUFFICES ASSUME NEW c \in Data, c \notin {2, 3}  PROVE f[c].last = 0
    OBVIOUS
  <2>2. c \in BlockIds /\ c # 1  BY BlockFacts DEF IndexBlock
  <2>. QED  BY <1>14, <1>19, <1>31, <1>35, <2>1, <2>2
<1>39. /\ f[3].last = (IF LinkPages < PagesPerBlock THEN LinkPages ELSE PagesPerBlock)
       /\ \A p \in Pages : p < LinkPages => f[3].page[p] = LinkPage(placed, p + 1)
  BY ONLY <1>31, <1>37
<1>. QED  BY ONLY <1>2, <1>18, <1>28, <1>35, <1>36, <1>37, <1>38, <1>39 DEF NewFlash

-----------------------------------------------------------------------------
(* Loading a new flash: the blocks of the tables are marked, all others    *)
(* become spare or are lost.                                               *)
LEMMA ItemOf ==
  ASSUME NEW x, NewChain(x), NEW c \in BlockIds, NEW it, it = LinkItem(x, c)
  PROVE  DOMAIN it = {"next", "valid"} /\ it.next \in {INVALID, SystemMark} /\ (c \in {2, 3} => it.next = SystemMark)
PROOF
<1>1. Blocks \in Nat /\ c < Blocks /\ c \in Nat  BY FirstBlocks DEF BlockIds
<1>2. PICK n, v : n = x.chain[c].next /\ v = x.chain[c].valid  OBVIOUS
<1>3. it = [next |-> IF v = INVALID THEN INVALID ELSE n, valid |-> v % 256]  BY ONLY <1>1, <1>2, it = LinkItem(x, c) DEF LinkItem
<1>4. c \notin {2, 3} => v = INVALID  BY <1>2 DEF NewChain
<1>5. c \in {2, 3} => n = SystemMark /\ v # INVALID  BY <1>2 DEF NewChain, INVALID
<1>. QED  BY ONLY <1>3, <1>4, <1>5

LEMMA ItemRead ==
  ASSUME NEW f, NewFlash(f), NEW link, link.block = 3, link.start = 0, NEW b \in Data,
         NEW it, it = ReadLinkItem(f, link, b)
  PROVE  DOMAIN it = {"next", "valid"} /\ it.next \in {INVALID, SystemMark} /\ (b \in {2, 3} => it.next = SystemMark)
PROOF
<1>1. LinksPerPage \in Nat /\ LinksPerPage > 3 /\ PagesPerBlock \in Nat /\ PagesPerBlock > 2
  <2>1. LinksPerPage \in Nat /\ LinksPerPage > FirstBlock + 1 /\ PagesPerBlock \in 3 .. 255  BY PageModeAssumption
  <2>. QED  BY ONLY <2>1 DEF FirstBlock
<1>2. PICK q, j : q = b \div LinksPerPage /\ j = b % LinksPerPage  OBVIOUS
<1>3. b \in Nat /\ b < Blocks /\ Blocks \in Nat  BY FirstBlocks DEF Data, FirstBlock
<1>4. q \in Nat /\ j \in 0 .. LinksPerPage - 1 /\ b = LinksPerPage * q + j  BY <1>1, <1>2, <1>3, Division
<1>5. PICK p : p = link.start + (IF q = 0 THEN 0 ELSE q - 1)  OBVIOUS
<1>6. p \in Nat /\ p <= q  BY <1>4, <1>5
<1>7. PICK page : page = ReadPage(f, 3, p)  OBVIOUS
<1>8. it = IF page.id = "empty" THEN [next |-> INVALID, valid |-> 255] ELSE page.body[j]
  BY ONLY it = ReadLinkItem(f, link, b), link.block = 3, <1>2, <1>5, <1>7 DEF ReadLinkItem
<1>9. 3 \in BlockIds  BY FirstBlocks
<1>10. PICK x : NewChain(x) /\ \A y \in Pages : y < LinkPages => f[3].page[y] = LinkPage(x, y + 1)  BY DEF NewFlash
<1>11. f[3].last = (IF LinkPages < PagesPerBlock THEN LinkPages ELSE PagesPerBlock) /\ LinkPages \in Nat \ {0}
  BY LinkPagesCount DEF NewFlash
<1>12. b \in {2, 3} => q = 0 /\ j = b
  <2>1. SUFFICES ASSUME b \in {2, 3}  PROVE q = 0 /\ j = b
    OBVIOUS
  <2>2. q = 0
    <3>1. SUFFICES ASSUME q >= 1  PROVE FALSE
      BY <1>4
    <3>2. LinksPerPage * q >= LinksPerPage * 1  BY <1>1, <1>4, <3>1, Times
    <3>. QED  BY <1>1, <1>4, <2>1, <3>2
  <2>. QED  BY <1>1, <1>4, <2>2
<1>13. CASE p \in Pages /\ p < f[3].last
  <2>1. p < LinkPages  BY <1>6, <1>11, <1>1, <1>13
  <2>2. page = LinkPage(x, p + 1)  BY <1>7, <1>9, <1>10, <1>13, <2>1 DEF ReadPage
  <2>3. page.id # "empty"  BY ONLY <2>2 DEF LinkPage
  <2>4. PICK c : c = p * LinksPerPage + j  OBVIOUS
  <2>5. it = LinkItem(x, c)
    <3>1. page.body[j] = LinkItem(x, (p + 1 - 1) * LinksPerPage + j)  
      <4>1. page.body = LinkBody(x, p + 1)  BY ONLY <2>2 DEF LinkPage
      <4>2. LinkBody(x, p + 1)[j] = LinkItem(x, (p + 1 - 1) * LinksPerPage + j)  BY <1>1, <1>4, <1>6, LinkBodyAt
      <4>. QED  BY ONLY <4>1, <4>2
    <3>2. p + 1 - 1 = p  BY <1>6
    <3>. QED  BY ONLY <1>8, <2>3, <2>4, <3>1, <3>2
  <2>6. c \in Nat /\ c <= b
    <3>1. LinksPerPage * q >= LinksPerPage * p  BY <1>1, <1>4, <1>6, Times
    <3>2. LinksPerPage * p \in Nat /\ p * LinksPerPage = LinksPerPage * p  BY <1>1, <1>6
    <3>. QED  BY <1>1, <1>4, <2>4, <3>1, <3>2
  <2>7. c \in BlockIds  BY <1>3, <2>6 DEF BlockIds
  <2>8. b \in {2, 3} => c = b
    <3>1. SUFFICES ASSUME b \in {2, 3}  PROVE c = b
      OBVIOUS
    <3>2. p = 0 /\ j = b  BY <1>12, <1>6, <3>1
    <3>. QED  BY <1>1, <1>3, <2>4, <3>2
  <2>. QED  BY <1>10, <2>5, <2>7, <2>8, ItemOf
<1>14. CASE ~ (p \in Pages /\ p < f[3].last)
  <2>1. page.id = "empty"  BY <1>7, <1>14 DEF ReadPage, EmptyPage
  <2>2. it = [next |-> INVALID, valid |-> 255]  BY <1>8, <2>1
  <2>3. b \notin {2, 3}
    <3>1. SUFFICES ASSUME b \in {2, 3}  PROVE FALSE
      OBVIOUS
    <3>2. p = 0  BY <1>6, <1>12, <3>1
    <3>. QED  BY <1>1, <1>11, <1>14, <3>2 DEF Pages
  <2>. QED  BY <2>2, <2>3
<1>. QED  BY <1>13, <1>14

(* The first blocks up to n have been loaded.                              *)
Loaded(d, e, s, n) ==
  /\ SameBut({"chain", "spareHead", "spareTail"}, d, e) /\ ChainShaped(e)
  /\ Distinct(s) /\ \A i \in 1 .. Len(s) : s[i] < FirstBlock + n /\ s[i] \notin {2, 3}
  /\ Len(s) = 0 => e.spareHead = 0 /\ e.spareTail = 0
  /\ Len(s) # 0 => Linked(e, s)
  /\ e.chain[2].next \notin BlockIds
  /\ \A c \in BlockIds : c >= FirstBlock + n => e.chain[c].next \notin BlockIds

LEMMA InsertFields ==
  ASSUME NEW d, ChainShaped(d), NEW b \in BlockIds, d.spareTail = 0 \/ d.spareTail \in BlockIds,
         NEW e, e = InsertEmptyBlock(d, b)
  PROVE  /\ SameBut({"chain", "spareHead", "spareTail"}, d, e) /\ ChainShaped(e)
         /\ e.spareTail = b /\ e.spareHead = IF d.spareTail = 0 THEN b ELSE d.spareHead
         /\ \A c \in BlockIds : e.chain[c].next = IF d.spareTail # 0 /\ c = d.spareTail THEN b ELSE d.chain[c].next
PROOF
<1>1. DOMAIN d = MemFields /\ DOMAIN d.chain = BlockIds /\ \A c \in BlockIds : DOMAIN d.chain[c] = {"next", "valid"}
  BY DEF ChainShaped
<1>2. CASE d.spareTail = 0
  <2>1. e = [[d EXCEPT !.spareHead = b] EXCEPT !.spareTail = b]  BY <1>2 DEF InsertEmptyBlock
  <2>2. DOMAIN e = MemFields /\ e.chain = d.chain /\ e.spareTail = b /\ e.spareHead = b
        /\ \A y \in MemFields : y \notin {"spareHead", "spareTail"} => e[y] = d[y]
    BY ONLY <1>1, <2>1 DEF MemFields
  <2>. QED  BY ONLY <1>1, <1>2, <2>2 DEF ChainShaped, SameBut
<1>3. CASE d.spareTail # 0
  <2>1. PICK m, t : m = [d.chain EXCEPT ![b].valid = INVALID] /\ t = d.spareTail  OBVIOUS
  <2>2. PICK n : n = [m EXCEPT ![t].next = b]  OBVIOUS
  <2>3. t \in BlockIds  BY <1>3, <2>1
  <2>4. /\ DOMAIN m = BlockIds /\ \A c \in BlockIds : DOMAIN m[c] = {"next", "valid"} /\ m[c].next = d.chain[c].next
    BY ONLY <1>1, <2>1
  <2>5. /\ DOMAIN n = BlockIds
        /\ \A c \in BlockIds : /\ DOMAIN n[c] = {"next", "valid"}
                               /\ n[c].next = IF c = t THEN b ELSE m[c].next
    BY ONLY <2>2, <2>3, <2>4
  <2>6. e = [[d EXCEPT !.chain = n] EXCEPT !.spareTail = b]
    <3>1. e = [d EXCEPT !.chain[b].valid = INVALID, !.chain[t].next = b, !.spareTail = b]
      BY <1>3, <2>1 DEF InsertEmptyBlock
    <3>2. PICK y : y = [d EXCEPT !.chain = m]  OBVIOUS
    <3>3. [d EXCEPT !.chain[b].valid = INVALID] = y  BY ONLY <1>1, <2>1, <3>2
    <3>4. y.chain = m  BY ONLY <1>1, <3>2 DEF MemFields
    <3>5. [y EXCEPT !.chain[t].next = b] = [y EXCEPT !.chain = n]  BY ONLY <2>2, <3>4
    <3>6. [y EXCEPT !.chain = n] = [d EXCEPT !.chain = n]  BY ONLY <3>2
    <3>. QED  BY ONLY <3>1, <3>3, <3>5, <3>6
  <2>7. DOMAIN e = MemFields /\ e.chain = n /\ e.spareTail = b /\ e.spareHead = d.spareHead
        /\ \A y \in MemFields : y \notin {"chain", "spareTail"} => e[y] = d[y]
    BY ONLY <1>1, <2>6 DEF MemFields
  <2>. QED  BY ONLY <1>1, <1>3, <2>1, <2>4, <2>5, <2>7 DEF ChainShaped, SameBut
<1>. QED  BY <1>2, <1>3

LEMMA BlockLost ==
  ASSUME NEW d, NEW x, NEW s, NEW n \in Nat, Loaded(d, x, s, n), NEW b \in Data, b = FirstBlock + n,
         NEW it, DOMAIN it = {"next", "valid"}, it.next \in {INVALID, SystemMark},
         NEW e, e = [x EXCEPT !.chain[b] = it]
  PROVE  Loaded(d, e, s, n + 1)
PROOF
<1>1. /\ DOMAIN x = MemFields /\ DOMAIN x.chain = BlockIds /\ \A c \in BlockIds : DOMAIN x.chain[c] = {"next", "valid"}
  BY DEF Loaded, ChainShaped
<1>2. b \in BlockIds /\ b \in Nat /\ it.next \notin BlockIds /\ FirstBlock \in Nat  BY BlockFacts DEF FirstBlock
<1>3. PICK k : k = [x.chain EXCEPT ![b] = it]  OBVIOUS
<1>4. e = [x EXCEPT !.chain = k]  BY ONLY e = [x EXCEPT !.chain[b] = it], <1>1, <1>3 DEF MemFields
<1>5. /\ DOMAIN e = MemFields /\ e.chain = k /\ e.spareHead = x.spareHead /\ e.spareTail = x.spareTail
      /\ \A f \in MemFields : f # "chain" => e[f] = x[f]
  BY ONLY <1>1, <1>4 DEF MemFields
<1>6. DOMAIN k = BlockIds /\ k[b] = it /\ \A c \in BlockIds : c # b => k[c] = x.chain[c]  BY ONLY <1>1, <1>2, <1>3
<1>7. SameBut({"chain", "spareHead", "spareTail"}, d, e)
  <2>1. SameBut({"chain", "spareHead", "spareTail"}, d, x)  BY DEF Loaded
  <2>. QED  BY ONLY <1>1, <1>5, <2>1 DEF SameBut
<1>8. ChainShaped(e)  BY ONLY <1>1, <1>5, <1>6, DOMAIN it = {"next", "valid"} DEF ChainShaped
<1>9. /\ Distinct(s) /\ \A i \in 1 .. Len(s) : s[i] < FirstBlock + n /\ s[i] \notin {2, 3}
  BY DEF Loaded
<1>10. s \in Seq(Data) /\ Len(s) \in Nat /\ \A i \in 1 .. Len(s) : s[i] \in BlockIds /\ s[i] \in Nat /\ s[i] # b
  <2>1. s \in Seq(Data)  BY <1>9 DEF Distinct
  <2>2. Len(s) \in Nat /\ \A i \in 1 .. Len(s) : s[i] \in Data  BY ONLY <2>1
  <2>3. \A i \in 1 .. Len(s) : s[i] \in BlockIds /\ s[i] \in Nat  BY <2>2, BlockFacts
  <2>. QED  BY <1>2, <1>9, <2>1, <2>2, <2>3
<1>11. \A i \in 1 .. Len(s) : e.chain[s[i]] = x.chain[s[i]]  BY ONLY <1>5, <1>6, <1>10
<1>12. Len(s) # 0 => Linked(e, s)
  <2>1. SUFFICES ASSUME Len(s) # 0  PROVE Linked(e, s)
    OBVIOUS
  <2>2. Linked(x, s)  BY <2>1 DEF Loaded
  <2>3. Len(s) \in 1 .. Len(s) /\ \A i \in 1 .. Len(s) - 1 : i \in 1 .. Len(s)  BY <1>10, <2>1
  <2>. QED  BY ONLY <1>5, <1>11, <2>2, <2>3 DEF Linked
<1>13. \A c \in BlockIds : e.chain[c].next = x.chain[c].next \/ e.chain[c].next \notin BlockIds
  BY ONLY <1>2, <1>5, <1>6
<1>14. e.chain[2].next \notin BlockIds
  <2>1. x.chain[2].next \notin BlockIds /\ 2 \in BlockIds  BY FirstBlocks DEF Loaded
  <2>. QED  BY <1>13, <2>1
<1>15. \A c \in BlockIds : c >= FirstBlock + (n + 1) => e.chain[c].next \notin BlockIds
  <2>1. SUFFICES ASSUME NEW c \in BlockIds, c >= FirstBlock + (n + 1)  PROVE e.chain[c].next \notin BlockIds
    OBVIOUS
  <2>2. c \in Int  BY DEF BlockIds
  <2>3. c >= FirstBlock + n  BY <1>2, <2>1, <2>2
  <2>4. x.chain[c].next \notin BlockIds  BY <2>3 DEF Loaded
  <2>. QED  BY <1>13, <2>4
<1>16. \A i \in 1 .. Len(s) : s[i] < FirstBlock + (n + 1)  BY <1>2, <1>9, <1>10
<1>17. Len(s) = 0 => e.spareHead = 0 /\ e.spareTail = 0  BY <1>5 DEF Loaded
<1>. QED  BY ONLY <1>7, <1>8, <1>9, <1>12, <1>14, <1>15, <1>16, <1>17 DEF Loaded

LEMMA BlockSpared ==
  ASSUME NEW d, NEW x, NEW s, NEW n \in Nat, Loaded(d, x, s, n), NEW b \in Data, b = FirstBlock + n, b \notin {2, 3},
         NEW e, e = InsertEmptyBlock(x, b)
  PROVE  \E t : Loaded(d, e, t, n + 1)
PROOF
<1>1. DOMAIN x = MemFields /\ ChainShaped(x)  BY DEF Loaded, ChainShaped
<1>2. b \in BlockIds /\ b \in Nat /\ FirstBlock \in Nat /\ b # 0  BY BlockFacts DEF FirstBlock
<1>3. /\ Distinct(s) /\ \A i \in 1 .. Len(s) : s[i] < FirstBlock + n /\ s[i] \notin {2, 3}
      /\ Len(s) = 0 => x.spareHead = 0 /\ x.spareTail = 0
      /\ Len(s) # 0 => Linked(x, s)
      /\ x.chain[2].next \notin BlockIds /\ 2 \in BlockIds
      /\ \A c \in BlockIds : c >= FirstBlock + n => x.chain[c].next \notin BlockIds
  BY FirstBlocks DEF Loaded
<1>4. s \in Seq(Data) /\ Len(s) \in Nat
      /\ \A i \in 1 .. Len(s) : s[i] \in BlockIds /\ s[i] \in Data /\ s[i] \in Nat /\ s[i] # b /\ s[i] # 0
  <2>1. s \in Seq(Data)  BY <1>3 DEF Distinct
  <2>2. Len(s) \in Nat /\ \A i \in 1 .. Len(s) : s[i] \in Data  BY ONLY <2>1
  <2>3. \A i \in 1 .. Len(s) : s[i] \in BlockIds /\ s[i] \in Nat \ {0}  BY <2>2, BlockFacts
  <2>. QED  BY <1>2, <1>3, <2>1, <2>2, <2>3
<1>5. Len(s) # 0 => Len(s) \in 1 .. Len(s) /\ x.spareTail = s[Len(s)] /\ x.spareTail \in BlockIds /\ x.spareTail # 0
                    /\ x.spareTail # 2
  <2>1. SUFFICES ASSUME Len(s) # 0
                 PROVE  Len(s) \in 1 .. Len(s) /\ x.spareTail = s[Len(s)] /\ x.spareTail \in BlockIds
                        /\ x.spareTail # 0 /\ x.spareTail # 2
    OBVIOUS
  <2>2. Len(s) \in 1 .. Len(s)  BY <1>4, <2>1
  <2>3. x.spareTail = s[Len(s)]  BY <1>3, <2>1 DEF Linked
  <2>. QED  BY <1>3, <1>4, <2>2, <2>3
<1>6. /\ SameBut({"chain", "spareHead", "spareTail"}, x, e) /\ ChainShaped(e)
      /\ e.spareTail = b /\ e.spareHead = IF x.spareTail = 0 THEN b ELSE x.spareHead
      /\ \A c \in BlockIds : e.chain[c].next = IF x.spareTail # 0 /\ c = x.spareTail THEN b ELSE x.chain[c].next
  <2>1. x.spareTail = 0 \/ x.spareTail \in BlockIds  BY <1>3, <1>5
  <2>. QED  BY <1>1, <1>2, <2>1, InsertFields
<1>7. SameBut({"chain", "spareHead", "spareTail"}, d, e)
  <2>1. SameBut({"chain", "spareHead", "spareTail"}, d, x)  BY DEF Loaded
  <2>. QED  BY ONLY <1>1, <1>6, <2>1 DEF SameBut
<1>8. PICK t : t = Append(s, b)  OBVIOUS
<1>9. t \in Seq(Data) /\ Len(t) = Len(s) + 1 /\ t[Len(s) + 1] = b /\ \A i \in 1 .. Len(s) : t[i] = s[i]
  BY <1>4, <1>8, Appended
<1>10. \A i \in 1 .. Len(t) : i = Len(s) + 1 \/ i \in 1 .. Len(s)  BY <1>4, <1>9
<1>11. Distinct(t)
  <2>1. SUFFICES ASSUME NEW i \in 1 .. Len(t), NEW j \in 1 .. Len(t), t[i] = t[j]  PROVE i = j
    BY <1>9 DEF Distinct
  <2>2. CASE i \in 1 .. Len(s) /\ j \in 1 .. Len(s)
    BY <1>3, <1>9, <2>1, <2>2 DEF Distinct
  <2>. QED  BY <1>4, <1>9, <1>10, <2>1, <2>2
<1>12. \A i \in 1 .. Len(t) : t[i] < FirstBlock + (n + 1) /\ t[i] \notin {2, 3}
  <2>1. SUFFICES ASSUME NEW i \in 1 .. Len(t)  PROVE t[i] < FirstBlock + (n + 1) /\ t[i] \notin {2, 3}
    OBVIOUS
  <2>2. CASE i = Len(s) + 1
    <3>1. t[i] = b  BY <1>9, <2>2
    <3>. QED  BY <1>2, <3>1
  <2>3. CASE i \in 1 .. Len(s)  BY <1>2, <1>3, <1>4, <1>9, <2>3
  <2>. QED  BY <1>10, <2>2, <2>3
<1>13. e.chain[b].next \notin BlockIds
  <2>1. x.chain[b].next \notin BlockIds  BY <1>2, <1>3
  <2>2. ~ (x.spareTail # 0 /\ b = x.spareTail)  BY <1>3, <1>4, <1>5
  <2>. QED  BY <1>2, <1>6, <2>1, <2>2
<1>14. Linked(e, t)
  <2>1. CASE Len(s) = 0
    <3>1. Len(t) = 1 /\ t[1] = b  BY <1>9, <2>1
    <3>2. e.spareHead = b /\ e.spareTail = b  BY <1>3, <1>6, <2>1
    <3>. QED  BY <1>13, <3>1, <3>2 DEF Linked
  <2>2. CASE Len(s) # 0
    <3>1. Len(s) \in Nat /\ Len(s) >= 1 /\ Linked(x, s)  BY <1>3, <1>4, <2>2
    <3>2. e.spareHead = t[1] /\ e.spareTail = t[Len(t)]
      <4>1. 1 \in 1 .. Len(s)  BY <3>1
      <4>2. t[1] = s[1] /\ x.spareHead = s[1]  BY <1>9, <3>1, <4>1 DEF Linked
      <4>3. e.spareHead = x.spareHead  BY <1>5, <1>6, <2>2
      <4>. QED  BY <1>6, <1>9, <4>2, <4>3
    <3>3. ASSUME NEW i \in 1 .. Len(t) - 1  PROVE e.chain[t[i]].next = t[i + 1]
      <4>1. i \in 1 .. Len(s) /\ t[i] = s[i] /\ s[i] \in BlockIds  BY <1>4, <1>9, <3>1
      <4>2. CASE i = Len(s)
        <5>1. t[i + 1] = b /\ s[i] = x.spareTail  BY <1>5, <1>9, <2>2, <4>2
        <5>. QED  BY <1>5, <1>6, <2>2, <4>1, <5>1
      <4>3. CASE i # Len(s)
        <5>1. i \in 1 .. Len(s) - 1 /\ i + 1 \in 1 .. Len(s) /\ Len(s) \in 1 .. Len(s)  BY <3>1, <4>1, <4>3
        <5>2. s[i] # s[Len(s)]  BY <1>3, <4>1, <4>3, <5>1 DEF Distinct
        <5>3. e.chain[s[i]].next = x.chain[s[i]].next  BY <1>5, <1>6, <2>2, <4>1, <5>2
        <5>4. x.chain[s[i]].next = s[i + 1]  BY <3>1, <5>1 DEF Linked
        <5>. QED  BY <1>9, <4>1, <5>1, <5>3, <5>4
      <4>. QED  BY <4>2, <4>3
    <3>4. e.chain[t[Len(t)]].next \notin BlockIds  BY <1>9, <1>13
    <3>. QED  BY <3>2, <3>3, <3>4 DEF Linked
  <2>. QED  BY <2>1, <2>2
<1>15. e.chain[2].next \notin BlockIds
  <2>1. ~ (x.spareTail # 0 /\ 2 = x.spareTail)  BY <1>3, <1>5
  <2>. QED  BY <1>3, <1>6, <2>1
<1>16. \A c \in BlockIds : c >= FirstBlock + (n + 1) => e.chain[c].next \notin BlockIds
  <2>1. SUFFICES ASSUME NEW c \in BlockIds, c >= FirstBlock + (n + 1)  PROVE e.chain[c].next \notin BlockIds
    OBVIOUS
  <2>2. c \in Int  BY DEF BlockIds
  <2>3. c >= FirstBlock + n  BY <1>2, <2>1, <2>2
  <2>4. ~ (x.spareTail # 0 /\ c = x.spareTail)
    <3>1. SUFFICES ASSUME x.spareTail # 0, c = x.spareTail  PROVE FALSE
      OBVIOUS
    <3>2. Len(s) \in 1 .. Len(s) /\ c = s[Len(s)]  BY <1>3, <1>5, <3>1
    <3>3. c < FirstBlock + n  BY <1>3, <3>2
    <3>. QED  BY <1>2, <2>2, <2>3, <3>3
  <2>5. x.chain[c].next \notin BlockIds  BY <1>3, <2>3
  <2>. QED  BY <1>6, <2>4, <2>5
<1>17. Len(t) # 0  BY <1>4, <1>9
<1>18. Loaded(d, e, t, n + 1)
  BY ONLY <1>6, <1>7, <1>11, <1>12, <1>14, <1>15, <1>16, <1>17 DEF Loaded
<1>. QED  BY <1>18

LEMMA ItemsLoaded ==
  ASSUME NEW d, NewFlash(d.flash), DOMAIN d = MemFields, d.link.block = 3, d.link.start = 0, Loaded(d, d, <<>>, 0)
  PROVE  \E s : Loaded(d, LoadLinkItems(d), s, Blocks - FirstBlock)
PROOF
<1>1. PICK n : n = Blocks - FirstBlock  OBVIOUS
<1>2. n \in Nat /\ FirstBlock = 2 /\ Blocks \in Nat  BY <1>1, FirstBlocks DEF FirstBlock
<1>3. PICK f : f[0] = d /\ (\A i \in 1 .. n : f[i] = LoadLinkItem(f[i - 1], i)) /\ LoadLinkItems(d) = f[n]
  BY <1>1, <1>2, LoadLoop
<1> DEFINE T == {i \in 0 .. n : \E s : Loaded(d, f[i], s, i)}
<1>4. 0 \in T  BY <1>2, <1>3
<1>5. ASSUME NEW i \in 1 .. n, i - 1 \in T  PROVE i \in T
  <2>1. PICK x, y, k : x = f[i - 1] /\ y = f[i] /\ k = i - 1  OBVIOUS
  <2>2. k \in Nat /\ i = k + 1  BY <1>2, <2>1
  <2>3. PICK s : Loaded(d, x, s, k)  BY <1>5, <2>1
  <2>4. y = LoadLinkItem(x, i)  BY <1>3, <2>1
  <2>5. PICK b, it : b = FirstBlock + i - 1 /\ it = ReadLinkItem(x.flash, x.link, b)  OBVIOUS
  <2>6. b = FirstBlock + k /\ b \in Data  BY <1>1, <1>2, <2>2, <2>5 DEF Data
  <2>7. x.flash = d.flash /\ x.link = d.link  BY <2>3 DEF Loaded, SameBut, MemFields
  <2>8. DOMAIN it = {"next", "valid"} /\ it.next \in {INVALID, SystemMark} /\ (b \in {2, 3} => it.next = SystemMark)
    BY <2>5, <2>6, <2>7, ItemRead
  <2>9. y = IF it.next = INVALID THEN InsertEmptyBlock(x, b) ELSE [x EXCEPT !.chain[b] = it]
    BY ONLY <2>4, <2>5 DEF LoadLinkItem
  <2>10. CASE it.next = INVALID
    <3>1. b \notin {2, 3}  BY <2>8, <2>10 DEF SystemMark, INVALID
    <3>2. y = InsertEmptyBlock(x, b)  BY <2>9, <2>10
    <3>3. \E t : Loaded(d, y, t, k + 1)  BY <2>2, <2>3, <2>6, <3>1, <3>2, BlockSpared
    <3>. QED  BY <2>1, <2>2, <3>3
  <2>11. CASE it.next # INVALID
    <3>1. y = [x EXCEPT !.chain[b] = it]  BY <2>9, <2>11
    <3>2. Loaded(d, y, s, k + 1)  BY <2>2, <2>3, <2>6, <2>8, <3>1, BlockLost
    <3>. QED  BY <2>1, <2>2, <3>2
  <2>. QED  BY <2>10, <2>11
<1> HIDE DEF T
<1>6. \A i \in 0 .. n : i \in T  BY <1>2, <1>4, <1>5, Counting
<1>7. n \in T  BY <1>2, <1>6
<1>8. PICK s : Loaded(d, f[n], s, n)  BY <1>7 DEF T
<1>. QED  BY <1>1, <1>3, <1>8

NewZoneIndex == [block |-> 2, last |-> 1, updated |-> FALSE, map |-> [z \in ZoneIds |-> INVALID]]
NewMemory(d, f) ==
  /\ DOMAIN d = MemFields /\ d.flash = f /\ d.chain = [b \in BlockIds |-> [next |-> INVALID, valid |-> INVALID]]
  /\ d.spareHead = 0 /\ d.spareTail = 0 /\ d.tail = INVALID /\ d.active = NoActive
  /\ d.zone = [z \in ZoneIds |-> NoZone(d.luck, z)] /\ d.zoneIndex = NewZoneIndex
  /\ d.stop = "no" /\ ~ d.luck.strays

LEMMA TablesFound ==
  ASSUME NEW f, NewFlash(f)
  PROVE  FindLastPage(f, 1, "index") = 1 /\ FindLastPage(f, 2, "zone_index") = 1 /\ FindLastPage(f, 3, "link") = 1
PROOF
<1>1. {1, 2, 3} \subseteq BlockIds /\ FlashOK(f) /\ 0 \in Pages  BY FirstBlocks DEF NewFlash
<1>2. f[1].last = 1 /\ f[1].page[0].id = "index" /\ f[2].last = 1 /\ f[2].page[0].id = "zone_index"
  BY DEF NewFlash
<1>3. FindLastPage(f, 1, "index") = 1
  <2>1. f[1].last >= 1 /\ f[1].last - 1 = 0  BY <1>2
  <2>. QED  BY <1>1, <1>2, <2>1, LastFound
<1>4. FindLastPage(f, 2, "zone_index") = 1
  <2>1. f[2].last >= 1 /\ f[2].last - 1 = 0  BY <1>2
  <2>. QED  BY <1>1, <1>2, <2>1, LastFound
<1>5. FindLastPage(f, 3, "link") = 1
  <2>1. PICK x : NewChain(x) /\ \A p \in Pages : p < LinkPages => f[3].page[p] = LinkPage(x, p + 1)  BY DEF NewFlash
  <2>2. f[3].last = (IF LinkPages < PagesPerBlock THEN LinkPages ELSE PagesPerBlock) /\ LinkPages \in Nat \ {0}
        /\ PagesPerBlock \in Nat \ {0}
    BY LinkPagesCount, PageModeAssumption DEF NewFlash
  <2>3. ASSUME NEW p \in Pages  PROVE ReadPage(f, 3, p).id = "link" <=> p = 0
    <3>1. p \in Nat  BY DEF Pages
    <3>2. CASE p < f[3].last
      <4>1. p < LinkPages  BY <2>2, <3>1, <3>2
      <4>2. ReadPage(f, 3, p) = LinkPage(x, p + 1)  BY <1>1, <2>1, <3>2, <4>1 DEF ReadPage
      <4>3. p + 1 = 1 <=> p = 0  BY <3>1
      <4>. QED  BY ONLY <4>2, <4>3 DEF LinkPage
    <3>3. CASE ~ (p < f[3].last)
      <4>1. ReadPage(f, 3, p).id = "empty"  BY <3>3 DEF ReadPage, EmptyPage
      <4>2. p # 0  BY <2>2, <3>3
      <4>. QED  BY <4>1, <4>2
    <3>. QED  BY <3>2, <3>3
  <2> DEFINE found == {p \in Pages : ReadPage(f, 3, p).id = "link"}
  <2>4. found = {0}  BY <1>1, <2>3
  <2>5. (CHOOSE p \in found : \A q \in found : q <= p) = 0  BY <2>4
  <2>. QED  BY <2>4, <2>5 DEF FindLastPage
<1>. QED  BY <1>3, <1>4, <1>5

LEMMA NothingLoaded ==
  ASSUME NEW f, NEW luck, NEW x, x = NoMemory(f, luck)
  PROVE  /\ DOMAIN x = MemFields /\ x.flash = f /\ x.chain = [b \in BlockIds |-> [next |-> INVALID, valid |-> INVALID]]
         /\ x.spareHead = 0 /\ x.spareTail = 0 /\ x.tail = INVALID /\ x.active = NoActive /\ x.stop = "no"
         /\ x.luck = luck
PROOF
<1>1. PICK chain : chain = [b \in BlockIds |-> [next |-> INVALID, valid |-> INVALID]]  OBVIOUS
<1>2. PICK zone : zone = [z \in ZoneIds |-> NoZone(luck, z)]  OBVIOUS
<1>3. PICK zoneIndex : zoneIndex = [block |-> INVALID, last |-> 0, updated |-> FALSE, map |-> [z \in ZoneIds |-> INVALID]]
  OBVIOUS
<1>4. PICK link : link = [block |-> INVALID, start |-> 0]  OBVIOUS
<1>5. x = [flash |-> f, chain |-> chain, spareHead |-> 0, spareTail |-> 0, head |-> INVALID, tail |-> INVALID,
           popped |-> INVALID, active |-> NoActive, zone |-> zone, zoneIndex |-> zoneIndex, link |-> link,
           luck |-> luck, stop |-> "no"]
  BY ONLY x = NoMemory(f, luck), <1>1, <1>2, <1>3, <1>4, Zenon DEF NoMemory
<1>6. /\ DOMAIN x = MemFields /\ x.flash = f /\ x.chain = chain
      /\ x.spareHead = 0 /\ x.spareTail = 0 /\ x.tail = INVALID /\ x.active = NoActive /\ x.stop = "no"
      /\ x.luck = luck
  BY ONLY <1>5 DEF MemFields
<1>. QED  BY ONLY <1>1, <1>6

LEMMA MemoryLoaded ==
  ASSUME NEW f, NewFlash(f), NEW luck, ~ luck.strays, NEW e, e = LoadFlashInfo(f, luck)
  PROVE  \E d : NewMemory(d, f) /\ d.link = [block |-> 3, start |-> 0] /\ e = ReadLinkTable(d)
PROOF
<1>1. FindLastPage(f, 1, "index") = 1 /\ FindLastPage(f, 2, "zone_index") = 1 /\ FindLastPage(f, 3, "link") = 1
  BY TablesFound
<1>2. PICK x : x = NoMemory(f, luck)  OBVIOUS
<1>3. /\ DOMAIN x = MemFields /\ x.flash = f /\ x.chain = [b \in BlockIds |-> [next |-> INVALID, valid |-> INVALID]]
      /\ x.spareHead = 0 /\ x.spareTail = 0 /\ x.tail = INVALID /\ x.active = NoActive /\ x.stop = "no"
      /\ x.luck = luck
  BY ONLY <1>2, NothingLoaded
<1>4. PICK index : index = f[1].page[0].body  OBVIOUS
<1>5. index.zone_index = 2 /\ index.link_block = 3
  <2>1. f[1].page[0] = [id |-> "index", body |-> [zone_index |-> 2, link_block |-> 3]]  BY DEF NewFlash
  <2>. QED  BY ONLY <1>4, <2>1
<1>6. PICK d : d = LoadTables(x, index, 1)  OBVIOUS
<1>7. e = ReadLinkTable(d)
  <2>1. FindLastPage(f, IndexBlock, "index") = 1  BY <1>1 DEF IndexBlock
  <2>2. f[IndexBlock].page[1 - 1].body = index  BY <1>4 DEF IndexBlock
  <2>3. FindLastPage(f, index.zone_index, "zone_index") = 1  BY <1>1, <1>5
  <2>4. 1 # 0  OBVIOUS
  <2>. QED  BY ONLY e = LoadFlashInfo(f, luck), <1>2, <1>6, <2>1, <2>2, <2>3, <2>4 DEF LoadFlashInfo
<1>8. PICK map : map = [z \in ZoneIds |-> INVALID]  OBVIOUS
<1>9. x.flash[2].page[1 - 1].body = map
  <2>1. f[2].page[0] = [id |-> "zone_index", body |-> map]  BY <1>8 DEF NewFlash
  <2>. QED  BY ONLY <1>3, <2>1
<1>10. PICK zone : zone = [z \in ZoneIds |-> IF map[z] = INVALID THEN NoZone(x.luck, z)
                                             ELSE BuildZone(x.flash, map[z], x.luck, z)]
  OBVIOUS
<1>11. PICK zoneIndex : zoneIndex = [block |-> 2, last |-> 1, updated |-> FALSE, map |-> map]  OBVIOUS
<1>12. PICK link : link = [block |-> 3, start |-> 1 - 1]  OBVIOUS
<1>13. d = [x EXCEPT !.zoneIndex = zoneIndex, !.zone = zone, !.link = link]
  <2>1. FindLastPage(x.flash, 3, "link") = 1  BY <1>1, <1>3
  <2>. QED  BY ONLY <1>5, <1>6, <1>9, <1>10, <1>11, <1>12, <2>1 DEF LoadTables
<1>14. zone = [z \in ZoneIds |-> NoZone(x.luck, z)]  BY ONLY <1>8, <1>10
<1>15. zoneIndex = NewZoneIndex  BY ONLY <1>8, <1>11 DEF NewZoneIndex
<1>16. link = [block |-> 3, start |-> 0]  BY <1>12
<1>17. /\ DOMAIN d = MemFields /\ d.flash = f /\ d.chain = x.chain
       /\ d.spareHead = 0 /\ d.spareTail = 0 /\ d.tail = INVALID /\ d.active = NoActive /\ d.stop = "no"
       /\ d.zone = zone /\ d.zoneIndex = zoneIndex /\ d.link = link /\ d.luck = x.luck
  BY ONLY <1>3, <1>13 DEF MemFields
<1>18. NewMemory(d, f)  BY ONLY ~ luck.strays, <1>3, <1>14, <1>15, <1>17 DEF NewMemory
<1>. QED  BY <1>7, <1>16, <1>17, <1>18

Blank == [i \in 0 .. SecsPerPage - 1 |-> 0]
WithLink(d, link) == [d EXCEPT !.link = link]

LEMMA MemoryBuilt ==
  ASSUME NEW f, NewFlash(f), NEW d, NewMemory(d, f), NEW e, NEW s, NEW n \in Nat,
         NEW x, Loaded(d, x, s, n), NEW link, DOMAIN link = {"block", "start"}, link.block = 3, link.start \in Nat,
         e = WithLink(x, link)
  PROVE  e.stop = "no" /\ Good(e) /\ \A h \in HPages : ReadHPage(e, h) = Blank
PROOF
<1>0. {2, 3} \subseteq Data /\ {1, 2, 3} \subseteq BlockIds /\ 0 \in Pages /\ INVALID \notin BlockIds /\ IndexBlock = 1
      /\ PagesPerBlock \in Nat /\ PagesPerBlock > 2
  BY FirstBlocks, BlockFacts, PageModeAssumption DEF IndexBlock
<1>1. /\ DOMAIN d = MemFields /\ d.flash = f /\ d.tail = INVALID /\ d.active = NoActive /\ d.stop = "no"
      /\ d.zone = [z \in ZoneIds |-> NoZone(d.luck, z)] /\ d.zoneIndex = NewZoneIndex /\ ~ d.luck.strays
  BY DEF NewMemory
<1>2. /\ SameBut({"chain", "spareHead", "spareTail"}, d, x) /\ ChainShaped(x) /\ Distinct(s)
      /\ \A i \in 1 .. Len(s) : s[i] \notin {2, 3}
      /\ Len(s) = 0 => x.spareHead = 0 /\ x.spareTail = 0
      /\ Len(s) # 0 => Linked(x, s)
      /\ x.chain[2].next \notin BlockIds
  BY DEF Loaded
<1>3. DOMAIN x = MemFields  BY <1>2 DEF ChainShaped
<1>4. /\ DOMAIN e = MemFields /\ e.link = link /\ e.chain = x.chain /\ e.spareHead = x.spareHead /\ e.spareTail = x.spareTail
      /\ \A y \in MemFields : y # "link" => e[y] = x[y]
  BY ONLY <1>3, e = WithLink(x, link) DEF WithLink, MemFields
<1>5. /\ e.flash = f /\ e.tail = INVALID /\ e.active = NoActive /\ e.stop = "no"
      /\ e.zone = [z \in ZoneIds |-> NoZone(d.luck, z)] /\ e.zoneIndex = NewZoneIndex /\ ~ e.luck.strays
  BY ONLY <1>1, <1>2, <1>4 DEF SameBut, MemFields
<1>6. \A z \in ZoneIds : /\ DOMAIN e.zone[z] = ZoneFields /\ e.zone[z].made = FALSE /\ e.zone[z].block = INVALID
                         /\ e.zone[z].last = 0 /\ e.zone[z].group = [g \in Groups |-> NoGroup]
  <2>1. SUFFICES ASSUME NEW z \in ZoneIds
                 PROVE  /\ DOMAIN e.zone[z] = ZoneFields /\ e.zone[z].made = FALSE /\ e.zone[z].block = INVALID
                        /\ e.zone[z].last = 0 /\ e.zone[z].group = [g \in Groups |-> NoGroup]
    OBVIOUS
  <2>2. PICK luck : luck = d.luck  OBVIOUS
  <2>3. e.zone[z] = NoZone(luck, z)  BY ONLY <1>5, <2>2, z \in ZoneIds
  <2>4. PICK m : m = NoZone(luck, z)  OBVIOUS
  <2>5. /\ DOMAIN m = ZoneFields /\ m.made = FALSE /\ m.block = INVALID
        /\ m.last = 0 /\ m.group = [g \in Groups |-> NoGroup]
    BY ONLY <2>4, NoZoneShaped
  <2>. QED  BY ONLY <2>3, <2>4, <2>5
<1>7. DOMAIN NoGroup.add = 0 .. PagesPerGroup - 1 /\ \A i \in 0 .. PagesPerGroup - 1 : NoGroup.add[i] = Unmapped
  BY DEF NoGroup
<1>9. \A z \in ZoneIds : ZoneShaped(e.zone[z])  BY ONLY <1>6, <1>7 DEF ZoneShaped
<1>10. /\ DOMAIN NewZoneIndex = {"block", "last", "updated", "map"} /\ NewZoneIndex.block = 2 /\ NewZoneIndex.last = 1
       /\ NewZoneIndex.updated = FALSE /\ NewZoneIndex.map = [z \in ZoneIds |-> INVALID]
  BY DEF NewZoneIndex
<1>11. DOMAIN NoActive = {"block", "last", "eob"} /\ NoActive.block = INVALID  BY DEF NoActive
<1>12. ChainShaped(e)  BY ONLY <1>2, <1>4 DEF ChainShaped
<1>13. Shaped(e)
  <2>1. DOMAIN e.zone = ZoneIds /\ DOMAIN NewZoneIndex.map = ZoneIds  BY <1>5, <1>10
  <2>. QED  BY ONLY <1>4, <1>5, <1>9, <1>10, <1>11, <1>12, <2>1, DOMAIN link = {"block", "start"}, link.start \in Nat DEF Shaped
<1>14. \A h \in HPages : NandAddress(e, h) = Unmapped
  <2>1. SUFFICES ASSUME NEW h \in HPages  PROVE NandAddress(e, h) = Unmapped
    OBVIOUS
  <2>2. ZoneOf(h) \in ZoneIds /\ GroupOf(h) \in Groups /\ h % PagesPerGroup \in 0 .. PagesPerGroup - 1  BY Addresses
  <2>3. e.zone[ZoneOf(h)].group[GroupOf(h)] = NoGroup  BY ONLY <1>6, <2>2
  <2>. QED  BY ONLY <1>7, <2>2, <2>3 DEF NandAddress
<1>15. Unmapped[1] = INVALID  BY DEF Unmapped
<1>16. \A c \in MappedIn(e) : c = INVALID  BY ONLY <1>14, <1>15 DEF MappedIn
<1>17. \A c \in Tables(e) : c = 2 \/ c = INVALID  BY ONLY <1>5, <1>6, <1>10 DEF Tables
<1>18. \A c \in Held(e) : c \in {1, 3, INVALID}
  BY ONLY <1>0, <1>4, <1>5, <1>11, <1>16, link.block = 3 DEF Held
<1>19. Roles(e)
  <2>1. INVALID # 3 /\ INVALID # 2 /\ INVALID # 1  BY DEF INVALID
  <2>2. e.zoneIndex.block = 2 /\ e.link.block = 3 /\ e.active.block = INVALID  BY <1>4, <1>5, <1>10, <1>11
  <2>3. e.link.block \notin MappedIn(e)  BY ONLY <1>16, <2>1, <2>2
  <2>4. \A c \in Tables(e) : c \in Held(e) => c = INVALID  BY ONLY <1>17, <1>18, <2>1
  <2>5. \A z \in ZoneIds : e.zone[z].block = INVALID  BY ONLY <1>6
  <2>. QED  BY ONLY <1>0, <1>5, <2>1, <2>2, <2>3, <2>4, <2>5 DEF Roles
<1>20. Chained(e, s)
  <2>1. CASE Len(s) = 0
    <3>1. Ended(e)  BY <1>2, <1>4, <2>1 DEF Ended
    <3>. QED  BY <1>2, <2>1, <3>1 DEF Chained
  <2>2. CASE Len(s) # 0
    <3>1. Linked(e, s)  BY ONLY <1>2, <1>4, <2>2 DEF Linked
    <3>. QED  BY <1>2, <2>2, <3>1 DEF Chained
  <2>. QED  BY <2>1, <2>2
<1>21. Unused(e, s)
  <2>1. SUFFICES ASSUME NEW i \in 1 .. Len(s)
                 PROVE  e.flash[s[i]].last = 0 /\ s[i] \notin Tables(e) /\ s[i] \notin Held(e)
    BY DEF Unused
  <2>2. s[i] \in Data
    <3>1. s \in Seq(Data)  BY <1>2 DEF Distinct
    <3>. QED  BY <3>1
  <2>3. s[i] \notin {2, 3} /\ s[i] # INVALID /\ s[i] # 1  BY <1>0, <1>2, <2>2, BlockFacts
  <2>4. f[s[i]].last = 0  BY <2>2, <2>3 DEF NewFlash
  <2>. QED  BY ONLY <1>5, <1>17, <1>18, <2>3, <2>4
<1>22. Marked(e)
  <2>1. \A c \in Tables(e) : c \in BlockIds => c = 2  BY ONLY <1>0, <1>17
  <2>. QED  BY ONLY <1>2, <1>4, <2>1 DEF Marked
<1>23. ActiveOK(e)  BY ONLY <1>5, <1>11 DEF ActiveOK
<1>24. MappedOK(e)  BY ONLY <1>14, <1>15 DEF MappedOK
<1>25. FlashOK(e.flash)  BY <1>5 DEF NewFlash
<1>26. Core(e, s)  BY ONLY <1>5, <1>13, <1>19, <1>20, <1>21, <1>22, <1>23, <1>24, <1>25 DEF Core
<1>27. PICK page, map : map = [z \in ZoneIds |-> INVALID] /\ page = [id |-> "zone_index", body |-> map]  OBVIOUS
<1>28. f[2].last = 1 /\ f[2].page[0] = page  BY <1>27 DEF NewFlash
<1>29. page.id = "zone_index" /\ page.body = map  BY <1>27
<1>30. IndexOK(e) /\ SavedIndex(e)
  <2>1. 1 \in 1 .. PagesPerBlock /\ 1 - 1 = 0  BY <1>0
  <2>2. e.flash[e.zoneIndex.block].page[e.zoneIndex.last - 1] = page  BY ONLY <1>5, <1>10, <1>28, <2>1
  <2>3. e.zoneIndex.map = map  BY <1>5, <1>10, <1>27
  <2>. QED  BY ONLY <1>5, <1>10, <1>28, <1>29, <2>1, <2>2, <2>3 DEF IndexOK, SavedIndex
<1>31. Named(e)  BY ONLY <1>5, <1>6, <1>10 DEF Named
<1>32. Room(e)  BY ONLY <1>5, <1>11 DEF Room
<1>33. \A h \in HPages : ReadHPage(e, h) = Blank  BY ONLY <1>14, <1>15 DEF ReadHPage, Blank
<1>. QED  BY <1>5, <1>26, <1>30, <1>31, <1>32, <1>33 DEF Good, Mem

LEMMA DriverStarted ==
  ASSUME NEW luck, ~ luck.strays, NEW f, f = Pretest(luck), NEW e, e = LoadFlashInfo(f, luck)
  PROVE  e.stop = "no" /\ Good(e) /\ \A h \in HPages : ReadHPage(e, h) = Blank
PROOF
<1>1. NewFlash(f)  BY FlashPrepared
<1>2. PICK d : NewMemory(d, f) /\ d.link = [block |-> 3, start |-> 0] /\ e = ReadLinkTable(d)  BY <1>1, MemoryLoaded
<1>3. /\ DOMAIN d = MemFields /\ d.flash = f /\ d.spareHead = 0 /\ d.spareTail = 0
      /\ d.chain = [b \in BlockIds |-> [next |-> INVALID, valid |-> INVALID]]
  BY <1>2 DEF NewMemory
<1>4. d.link.block = 3 /\ d.link.start = 0  BY <1>2
<1>5. Loaded(d, d, <<>>, 0)
  <2>1. DOMAIN d.chain = BlockIds /\ \A b \in BlockIds : DOMAIN d.chain[b] = {"next", "valid"} /\ d.chain[b].next = INVALID
    BY ONLY <1>3
  <2>2. ChainShaped(d)  BY ONLY <1>3, <2>1 DEF ChainShaped
  <2>3. \A b \in BlockIds : d.chain[b].next \notin BlockIds  BY <2>1, BlockFacts
  <2>4. 2 \in BlockIds  BY FirstBlocks
  <2>5. Distinct(<<>>)  BY DEF Distinct
  <2>6. SameBut({"chain", "spareHead", "spareTail"}, d, d)  BY DEF SameBut
  <2>7. Len(<<>>) = 0 /\ 1 .. 0 = {}  OBVIOUS
  <2>. QED  BY <1>3, <2>2, <2>3, <2>4, <2>5, <2>6, <2>7 DEF Loaded
<1>6. PICK n : n = Blocks - FirstBlock  OBVIOUS
<1>7. n \in Nat  BY <1>6, FirstBlocks DEF FirstBlock
<1>8. PICK x : x = LoadLinkItems(d)  OBVIOUS
<1>9. PICK s : Loaded(d, x, s, n)  BY <1>1, <1>3, <1>4, <1>5, <1>6, <1>8, ItemsLoaded
<1>10. DOMAIN x = MemFields /\ x.link = d.link  BY <1>3, <1>9 DEF Loaded, SameBut, MemFields
<1>11. PICK link : link = [block |-> 3, start |-> 0 + LinkPages]  OBVIOUS
<1>12. DOMAIN link = {"block", "start"} /\ link.block = 3 /\ link.start \in Nat  BY <1>11, LinkPagesCount
<1>13. e = WithLink(x, link)
  <2>1. e = [x EXCEPT !.link.start = @ + LinkPages]  BY <1>2, <1>8 DEF ReadLinkTable
  <2>2. x.link = [block |-> 3, start |-> 0]  BY <1>2, <1>10
  <2>. QED  BY ONLY <1>10, <1>11, <2>1, <2>2 DEF WithLink
<1>. QED  BY <1>1, <1>2, <1>7, <1>9, <1>12, <1>13, MemoryBuilt

-----------------------------------------------------------------------------
(* The invariant of the specification.                                     *)
JobOK ==
  job = NoJob \/ (job.lba \in Nat /\ job.secs \in Nat /\ job.secs > 0 /\ job.lba + job.secs <= Total)
Sound ==
  /\ FlashOK(ftl.flash) /\ (Up => Good(ftl)) /\ ReadsLastWrite
  /\ JobOK /\ DOMAIN written = 0 .. Total - 1
  /\ starts = 0 => ~ Up /\ job = NoJob /\ written = [s \in 0 .. Total - 1 |-> 0]
PageInv == ~ astray => Sound

(* A sector has its page, and its place in the page.                       *)
LEMMA SectorFacts ==
  /\ SecsPerPage \in Nat /\ SecsPerPage > 0 /\ Total \in Nat
  /\ \A s \in 0 .. Total - 1 :
       /\ s \in Nat /\ s \div SecsPerPage \in Nat /\ s % SecsPerPage \in 0 .. SecsPerPage - 1
       /\ s = SecsPerPage * (s \div SecsPerPage) + (s % SecsPerPage)
PROOF
<1>1. SecsPerPage \in Nat /\ SecsPerPage > 0 /\ Total \in Nat  BY PageModeAssumption
<1>2. ASSUME NEW s \in 0 .. Total - 1
      PROVE  /\ s \in Nat /\ s \div SecsPerPage \in Nat /\ s % SecsPerPage \in 0 .. SecsPerPage - 1
             /\ s = SecsPerPage * (s \div SecsPerPage) + (s % SecsPerPage)
  <2>1. s \in Nat  BY <1>1
  <2>. QED  BY <1>1, <2>1, Division
<1>. QED  BY <1>1, <1>2

(* A call that does not stray, and a start, never goes on outside.         *)
LEMMA LuckKeeps ==
  /\ \A luck \in StartLuck : ~ luck.strays
  /\ \A luck \in Luck(FALSE) : ~ luck.strays
  /\ ~ NoLuck.strays
PROOF
<1>1. ASSUME NEW luck \in StartLuck  PROVE ~ luck.strays
  <2>1. luck.strays \in {FALSE}  BY DEF StartLuck
  <2>. QED  BY <2>1
<1>2. ASSUME NEW luck \in Luck(FALSE)  PROVE ~ luck.strays
  <2>1. luck.strays \in {FALSE}  BY DEF Luck
  <2>. QED  BY <2>1
<1>3. ~ NoLuck.strays  BY DEF NoLuck
<1>. QED  BY <1>1, <1>2, <1>3

LEMMA SamePage ==
  ASSUME NEW n \in Nat, NEW a \in Nat, NEW b \in Nat, NEW i \in 0 .. n - 1, NEW j \in 0 .. n - 1, n * a + i = n * b + j
  PROVE  a = b /\ i = j
PROOF
<1>0. n * a \in Nat /\ n * b \in Nat  OBVIOUS
<1>1. ASSUME NEW x \in Nat, NEW y \in Nat, x > y  PROVE n * x >= n * y + n
  <2>1. x >= y + 1  BY <1>1
  <2>2. n * x >= n * (y + 1)  BY <2>1, Times
  <2>3. n * (y + 1) = n * y + n  OBVIOUS
  <2>. QED  BY <2>2, <2>3
<1>2. ~ (a > b)
  <2>1. a > b => n * a >= n * b + n  BY <1>1
  <2>. QED  BY <1>0, <2>1
<1>3. ~ (b > a)
  <2>1. b > a => n * b >= n * a + n  BY <1>1
  <2>. QED  BY <1>0, <2>1
<1>4. a = b  BY <1>2, <1>3
<1>. QED  BY <1>0, <1>4

LEMMA Settled ==
  ASSUME NEW d, NEW up, up # "up", Settle(d, FALSE, up), d.stop = "no" => Good(d), d.stop # "no" => FlashOK(d.flash)
  PROVE  /\ FlashOK(ftl.flash)'
         /\ d.stop # "no" => ~ Up'
         /\ d.stop = "no" => Good(ftl)' /\ \A h \in HPages : ReadHPage(ftl', h) = ReadHPage(d, h)
PROOF
<1>0. d.stop = "no" => DOMAIN d = MemFields  BY DEF Good, Mem, Core, Shaped, ChainShaped
<1>1. CASE d.stop # "no"
  <2>1. ftl' = [flash |-> d.flash] /\ mode' = up  BY <1>1 DEF Settle
  <2>2. ftl'.flash = d.flash  BY <2>1
  <2>. QED  BY <1>1, <2>1, <2>2 DEF Up
<1>2. CASE d.stop = "no"
  <2>1. PICK e : e = ftl'  OBVIOUS
  <2>2. e = [d EXCEPT !.luck = NoLuck, !.popped = INVALID]  BY <1>2, <2>1 DEF Settle
  <2>3. SameBut({"luck", "popped"}, d, e) /\ ~ e.luck.strays
    <3>1. e.luck = NoLuck  BY ONLY <1>0, <1>2, <2>2 DEF MemFields
    <3>2. SameBut({"luck", "popped"}, d, e)  BY ONLY <2>2 DEF SameBut
    <3>. QED  BY <3>1, <3>2, LuckKeeps
  <2>4. Good(d)  BY <1>2
  <2>5. Good(e) /\ Reads(d, e) /\ FlashOK(e.flash)  BY <2>3, <2>4, GoodSame
  <2>. QED  BY <1>2, <2>1, <2>5 DEF Reads
<1>. QED  BY <1>1, <1>2

(* The driver's memory with the luck of a call that does not stray.        *)
LEMMA LuckGiven ==
  ASSUME Good(ftl), NEW luck \in Luck(FALSE), NEW x, x = [ftl EXCEPT !.luck = luck]
  PROVE  Good(x) /\ Reads(ftl, x) /\ FlashOK(x.flash) /\ DOMAIN x = MemFields
PROOF
<1>1. DOMAIN ftl = MemFields  BY DEF Good, Mem, Core, Shaped, ChainShaped
<1>2. SameBut({"luck", "popped"}, ftl, x)  BY ONLY x = [ftl EXCEPT !.luck = luck] DEF SameBut
<1>3. x.luck = luck /\ DOMAIN x = MemFields  BY ONLY <1>1, x = [ftl EXCEPT !.luck = luck] DEF MemFields
<1>4. ~ x.luck.strays  BY <1>3, LuckKeeps
<1>. QED  BY <1>2, <1>3, <1>4, GoodSame

LEMMA InitInv == Init => PageInv
PROOF
<1>1. SUFFICES ASSUME Init  PROVE Sound
  BY DEF PageInv
<1>2. /\ ftl = [flash |-> [b \in BlockIds |-> Erased]] /\ mode = "down" /\ job = NoJob
      /\ written = [s \in 0 .. Total - 1 |-> 0] /\ starts = 0
  BY <1>1 DEF Init
<1>3. ftl.flash = [b \in BlockIds |-> Erased]  BY <1>2
<1>4. FlashOK(ftl.flash)  BY <1>3, ErasedOK
<1>5. ~ Up  BY <1>2 DEF Up
<1>6. DOMAIN written = 0 .. Total - 1  BY <1>2
<1>. QED  BY <1>2, <1>4, <1>5, <1>6 DEF Sound, ReadsLastWrite, JobOK

LEMMA StartInv ==
  ASSUME PageInv, Start, starts \in Nat, starts' <= 1
  PROVE  PageInv'
PROOF
<1>0. SUFFICES ASSUME ~ astray'  PROVE Sound'
  BY DEF PageInv
<1>1. mode = "down" /\ starts = 0 /\ starts' = starts + 1 /\ job' = job /\ written' = written
  <2>1. mode = "down" /\ starts' = starts + 1 /\ job' = job /\ written' = written
    BY DEF Start
  <2>. QED  BY <2>1
<1>2. PICK luck \in StartLuck : Settle(LoadFlashInfo(Pretest(luck), luck), FALSE, "refused")  BY <1>1 DEF Start
<1>3. PICK f, d : f = Pretest(luck) /\ d = LoadFlashInfo(f, luck)  OBVIOUS
<1>4. d.stop = "no" /\ Good(d) /\ \A h \in HPages : ReadHPage(d, h) = Blank  BY <1>3, LuckKeeps, DriverStarted
<1>5. Settle(d, FALSE, "refused")  BY <1>2, <1>3
<1>6. FlashOK(ftl.flash)' /\ Good(ftl)' /\ \A h \in HPages : ReadHPage(ftl', h) = Blank
  BY <1>4, <1>5, Settled
<1>7. job' = NoJob /\ written' = [s \in 0 .. Total - 1 |-> 0] /\ DOMAIN written' = 0 .. Total - 1 /\ starts' = 1
  <2>1. ~ astray  BY <1>0, <1>5 DEF Settle
  <2>. QED  BY <1>1, <2>1 DEF PageInv, Sound
<1>8. ReadsLastWrite'
  <2>1. SUFFICES ASSUME NEW s \in 0 .. Total - 1, s \div SecsPerPage \in HPages
                 PROVE  ReadHPage(ftl', s \div SecsPerPage)[s % SecsPerPage] = 0
    BY <1>7 DEF ReadsLastWrite, Covered
  <2>2. s % SecsPerPage \in 0 .. SecsPerPage - 1  BY SectorFacts
  <2>3. ReadHPage(ftl', s \div SecsPerPage) = Blank  BY <1>6, <2>1
  <2>. QED  BY <2>2, <2>3 DEF Blank
<1>. QED  BY <1>6, <1>7, <1>8 DEF Sound, JobOK

LEMMA WriteInv ==
  ASSUME PageInv, NEW lba \in 0 .. Total - 1, NEW secs \in 0 .. Total - 1, Write(lba, secs)
  PROVE  PageInv'
PROOF
<1>0. SUFFICES ASSUME ~ astray'  PROVE Sound'
  BY DEF PageInv
<1>1. /\ secs > 0 /\ lba + secs < Total /\ job' = [lba |-> lba, secs |-> secs] /\ UNCHANGED <<ftl, mode, written, starts>>
      /\ astray' = astray /\ mode = "up"
  BY DEF Write
<1>2. job'.lba = lba /\ job'.secs = secs /\ Up /\ Sound  BY <1>0, <1>1 DEF Up, PageInv
<1>3. JobOK'
  <2>1. Total \in Nat /\ lba \in Nat /\ secs \in Nat  BY SectorFacts
  <2>. QED  BY <1>1, <1>2, <2>1 DEF JobOK
<1>4. starts # 0  BY <1>2 DEF Sound
<1>. QED  BY <1>1, <1>2, <1>3, <1>4 DEF Sound, ReadsLastWrite, Covered, Up

LEMMA FlushInv ==
  ASSUME PageInv, FlushCache
  PROVE  PageInv'
PROOF
<1>0. SUFFICES ASSUME ~ astray'  PROVE Sound'
  BY DEF PageInv
<1>1. mode = "up" /\ UNCHANGED <<job, written, starts>>  BY DEF FlushCache
<1>2. PICK strays \in BOOLEAN : \E luck \in Luck(strays) : Settle(FlushAll([ftl EXCEPT !.luck = luck]), strays, "down")
  BY Zenon DEF FlushCache
<1>3. strays = FALSE /\ ~ astray  BY <1>0, <1>2 DEF Settle
<1>4. PICK luck \in Luck(FALSE) : Settle(FlushAll([ftl EXCEPT !.luck = luck]), FALSE, "down")  BY <1>2, <1>3
<1>5. Sound /\ Up /\ Good(ftl) /\ starts # 0  BY <1>1, <1>3 DEF PageInv, Sound, Up
<1>6. PICK x, d : x = [ftl EXCEPT !.luck = luck] /\ d = FlushAll(x)  OBVIOUS
<1>7. Good(x) /\ Reads(ftl, x)  BY <1>5, <1>6, LuckGiven
<1>8. (d.stop # "no" /\ FlashOK(d.flash)) \/ (d.stop = "no" /\ Good(d) /\ Reads(x, d))  BY <1>6, <1>7, CacheFlushed
<1>9. Settle(d, FALSE, "down")  BY <1>4, <1>6
<1>10. /\ FlashOK(ftl.flash)'
       /\ d.stop # "no" => ~ Up'
       /\ d.stop = "no" => Good(ftl)' /\ \A h \in HPages : ReadHPage(ftl', h) = ReadHPage(d, h)
  BY <1>8, <1>9, Settled
<1>11. Up' => Good(ftl)' /\ \A h \in HPages : ReadHPage(ftl', h) = ReadHPage(ftl, h)
  BY <1>7, <1>8, <1>10 DEF Reads
<1>12. ReadsLastWrite'
  <2>1. SUFFICES ASSUME Up', NEW s \in Covered
                 PROVE  ReadHPage(ftl', s \div SecsPerPage)[s % SecsPerPage] = written[s]
    BY <1>1 DEF ReadsLastWrite, Covered
  <2>2. s \div SecsPerPage \in HPages  BY DEF Covered
  <2>3. ReadHPage(ftl, s \div SecsPerPage)[s % SecsPerPage] = written[s]  BY <1>5 DEF Sound, ReadsLastWrite
  <2>. QED  BY <1>11, <2>1, <2>2, <2>3
<1>. QED  BY <1>1, <1>5, <1>10, <1>11, <1>12 DEF Sound, JobOK

LEMMA StopInv ==
  ASSUME PageInv, Stop
  PROVE  PageInv'
PROOF
<1>0. SUFFICES ASSUME ~ astray'  PROVE Sound'
  BY DEF PageInv
<1>1. /\ mode = "up" /\ ftl' = [flash |-> ftl.flash] /\ mode' = "down" /\ job' = NoJob
      /\ UNCHANGED <<written, astray, ops, starts>>
  BY DEF Stop
<1>2. Sound /\ starts # 0  BY <1>0, <1>1 DEF PageInv, Sound, Up
<1>3. ftl'.flash = ftl.flash /\ ~ Up'  BY <1>1 DEF Up
<1>. QED  BY <1>1, <1>2, <1>3 DEF Sound, JobOK, ReadsLastWrite

(* The sectors of a turn of the loop in Write are the sectors from offset  *)
(* to offset + n - 1 of the page h.                                        *)
LEMMA TurnSectors ==
  ASSUME NEW lba \in Nat, NEW n \in Nat, NEW h, NEW offset, h = lba \div SecsPerPage, offset = lba % SecsPerPage,
         n > 0, offset + n <= SecsPerPage, NEW s \in 0 .. Total - 1
  PROVE  s \in lba .. lba + n - 1 <=> s \div SecsPerPage = h /\ s % SecsPerPage \in offset .. offset + n - 1
PROOF
<1>1. SecsPerPage \in Nat /\ SecsPerPage > 0 /\ s \in Nat  BY SectorFacts
<1>2. PICK g, i : g = s \div SecsPerPage /\ i = s % SecsPerPage  OBVIOUS
<1>3. g \in Nat /\ i \in 0 .. SecsPerPage - 1 /\ s = SecsPerPage * g + i  BY <1>1, <1>2, Division
<1>4. h \in Nat /\ offset \in 0 .. SecsPerPage - 1 /\ lba = SecsPerPage * h + offset  BY <1>1, Division
<1>5. SecsPerPage * g \in Nat /\ SecsPerPage * h \in Nat  BY <1>1, <1>3, <1>4
<1>6. ASSUME s \in lba .. lba + n - 1  PROVE g = h /\ i \in offset .. offset + n - 1
  <2>1. PICK k : k = s - SecsPerPage * h  OBVIOUS
  <2>2. k \in offset .. offset + n - 1 /\ k \in 0 .. SecsPerPage - 1 /\ s = SecsPerPage * h + k
    BY ONLY <1>1, <1>4, <1>5, <1>6, <2>1, n \in Nat, offset + n <= SecsPerPage
  <2>3. SecsPerPage * g + i = SecsPerPage * h + k  BY <1>3, <2>2
  <2>4. g = h /\ i = k  BY ONLY <1>1, <1>3, <1>4, <2>2, <2>3, SamePage
  <2>. QED  BY <2>2, <2>4
<1>7. ASSUME g = h, i \in offset .. offset + n - 1  PROVE s \in lba .. lba + n - 1
  <2>1. s = SecsPerPage * h + i  BY <1>3, <1>7
  <2>. QED  BY ONLY <1>1, <1>4, <1>5, <1>7, <2>1, n \in Nat
<1>. QED  BY <1>2, <1>6, <1>7

LEMMA PageInvWrites ==
  ASSUME PageInv, WritePage
  PROVE  PageInv'
PROOF
<1>0. SUFFICES ASSUME ~ astray'  PROVE Sound'
  BY DEF PageInv
<1>1. mode = "up" /\ UNCHANGED <<ops, starts>> /\ job # NoJob  BY DEF WritePage
<1>2. PICK lba, secs : lba = job.lba /\ secs = job.secs  OBVIOUS
<1>3. PICK h, offset, n : h = lba \div SecsPerPage /\ offset = lba % SecsPerPage /\ n = Min2(SecsPerPage - offset, secs)
  OBVIOUS
<1>4. PICK merged : merged = [i \in 0 .. SecsPerPage - 1 |->
                                IF i \in offset .. offset + n - 1 THEN ops ELSE ReadHPage(ftl, h)[i]]
  OBVIOUS
<1>5. PICK rest : rest = [lba |-> lba + n, secs |-> secs - n]  OBVIOUS
<1> DEFINE Turn(strays, luck) ==
             LET up == [ftl EXCEPT !.luck = luck]
                 d == IF n < SecsPerPage /\ h \notin HPages /\ luck.dies THEN [up EXCEPT !.stop = "crash"]
                      ELSE WriteHPage(up, h, merged)
             IN  /\ Settle(d, strays, "down")
                 /\ job' = IF d.stop # "no" \/ rest.secs = 0 THEN NoJob ELSE rest
                 /\ written' = IF d.stop # "no" THEN written
                               ELSE [s \in DOMAIN written |-> IF s \in lba .. lba + n - 1 THEN ops ELSE written[s]]
<1>6. PICK strays \in BOOLEAN : \E luck \in Luck(strays) : Turn(strays, luck)
  BY ONLY WritePage, <1>2, <1>3, <1>4, <1>5, Zenon DEF WritePage
<1>7. PICK luck \in Luck(strays) : Turn(strays, luck)  BY ONLY <1>6, Zenon
<1>8. PICK x, d : /\ x = [ftl EXCEPT !.luck = luck]
                  /\ d = IF n < SecsPerPage /\ h \notin HPages /\ luck.dies THEN [x EXCEPT !.stop = "crash"]
                         ELSE WriteHPage(x, h, merged)
  OBVIOUS
<1>9. /\ Settle(d, strays, "down")
      /\ job' = IF d.stop # "no" \/ rest.secs = 0 THEN NoJob ELSE rest
      /\ written' = IF d.stop # "no" THEN written
                    ELSE [s \in DOMAIN written |-> IF s \in lba .. lba + n - 1 THEN ops ELSE written[s]]
  BY ONLY <1>7, <1>8
<1> HIDE DEF Turn
<1>10. strays = FALSE /\ ~ astray  BY <1>0, <1>6, <1>9 DEF Settle
<1>11. Sound /\ Up /\ Good(ftl) /\ starts # 0  BY <1>1, <1>10 DEF PageInv, Sound, Up
<1>12. lba \in Nat /\ secs \in Nat /\ secs > 0 /\ lba + secs <= Total  BY <1>1, <1>2, <1>11 DEF Sound, JobOK
<1>13. SecsPerPage \in Nat /\ SecsPerPage > 0 /\ Total \in Nat  BY SectorFacts
<1>14. lba \in 0 .. Total - 1  BY <1>12, <1>13
<1>15. h \in Nat /\ offset \in 0 .. SecsPerPage - 1  BY <1>3, <1>14, SectorFacts
<1>16. n \in Nat /\ n > 0 /\ offset + n <= SecsPerPage /\ n <= secs  BY <1>12, <1>3, <1>13, <1>15 DEF Min2
<1>17. Good(x) /\ Reads(ftl, x) /\ FlashOK(x.flash) /\ DOMAIN x = MemFields
  BY <1>7, <1>8, <1>10, <1>11, LuckGiven
<1>18. (d.stop # "no" /\ FlashOK(d.flash)) \/ (h \in HPages /\ HostPagePut(x, d, h, merged))
  <2>1. CASE h \in HPages
    <3>1. d = WriteHPage(x, h, merged)  BY <1>8, <2>1
    <3>. QED  BY ONLY <1>17, <2>1, <3>1, HostPageWritten
  <2>2. CASE h \notin HPages
    <3>1. d = [x EXCEPT !.stop = "crash"] \/ d = WriteHPage(x, h, merged)  BY <1>8
    <3>2. ASSUME d = [x EXCEPT !.stop = "crash"]  PROVE d.stop # "no" /\ FlashOK(d.flash)
      <4>1. d.stop = "crash" /\ d.flash = x.flash  BY ONLY <1>17, <3>2 DEF MemFields
      <4>. QED  BY <1>17, <4>1
    <3>3. ASSUME d = WriteHPage(x, h, merged)  PROVE d.stop # "no" /\ FlashOK(d.flash)
      <4>1. h \in Int  BY <1>15
      <4>. QED  BY ONLY <1>17, <2>2, <3>3, <4>1, HostPageRefused
    <3>. QED  BY <3>1, <3>2, <3>3
  <2>. QED  BY <2>1, <2>2
<1>19. /\ FlashOK(ftl.flash)'
       /\ d.stop # "no" => ~ Up'
       /\ d.stop = "no" => Good(ftl)' /\ \A g \in HPages : ReadHPage(ftl', g) = ReadHPage(d, g)
  <2>1. (d.stop = "no" => Good(d)) /\ (d.stop # "no" => FlashOK(d.flash))  BY <1>18 DEF HostPagePut
  <2>. QED  BY <1>9, <1>10, <2>1, Settled
<1>20. Up' => /\ d.stop = "no" /\ Good(ftl)' /\ ReadHPage(ftl', h) = merged
              /\ \A g \in HPages : g # h => ReadHPage(ftl', g) = ReadHPage(ftl, g)
  BY <1>19, <1>17, <1>18 DEF HostPagePut, Reads
<1>21. JobOK'
  <2>1. rest.lba = lba + n /\ rest.secs = secs - n  BY <1>5
  <2>2. rest.secs # 0 => rest.lba \in Nat /\ rest.secs \in Nat /\ rest.secs > 0 /\ rest.lba + rest.secs <= Total
    BY ONLY <1>12, <1>13, <1>16, <2>1
  <2>. QED  BY ONLY <1>9, <2>2 DEF JobOK
<1>22. DOMAIN written = 0 .. Total - 1  BY <1>11 DEF Sound
<1>23. DOMAIN written' = 0 .. Total - 1  BY ONLY <1>9, <1>22
<1>24. ReadsLastWrite'
  <2>1. SUFFICES ASSUME Up', NEW s \in 0 .. Total - 1, s \div SecsPerPage \in HPages
                 PROVE  ReadHPage(ftl', s \div SecsPerPage)[s % SecsPerPage] = written'[s]
    BY <1>23 DEF ReadsLastWrite, Covered
  <2>2. PICK g, i : g = s \div SecsPerPage /\ i = s % SecsPerPage  OBVIOUS
  <2>3. g \in HPages /\ i \in 0 .. SecsPerPage - 1  BY <2>1, <2>2, SectorFacts
  <2>4. ReadHPage(ftl, g)[i] = written[s]  BY <1>11, <1>22, <2>1, <2>2 DEF Sound, ReadsLastWrite, Covered
  <2>5. s \in lba .. lba + n - 1 <=> g = h /\ i \in offset .. offset + n - 1
    BY <1>12, <1>3, <1>16, <2>2, TurnSectors
  <2>6. written'[s] = IF s \in lba .. lba + n - 1 THEN ops ELSE written[s]
    BY ONLY <1>9, <1>20, <1>22, <2>1
  <2>7. CASE g = h
    <3>1. ReadHPage(ftl', g) = merged  BY <1>20, <2>1, <2>7
    <3>2. merged[i] = IF i \in offset .. offset + n - 1 THEN ops ELSE ReadHPage(ftl, h)[i]  BY ONLY <1>4, <2>3
    <3>. QED  BY ONLY <2>2, <2>4, <2>5, <2>6, <2>7, <3>1, <3>2
  <2>8. CASE g # h
    <3>1. ReadHPage(ftl', g) = ReadHPage(ftl, g)  BY <1>20, <2>1, <2>3, <2>8
    <3>. QED  BY ONLY <2>2, <2>4, <2>5, <2>6, <2>8, <3>1
  <2>. QED  BY <2>7, <2>8
<1>25. starts' # 0  BY <1>1, <1>11
<1>. QED  BY ONLY <1>19, <1>20, <1>21, <1>23, <1>24, <1>25 DEF Sound

LEMMA StepInv ==
  ASSUME PageInv, [Next]_vars, starts \in Nat, starts' <= 1
  PROVE  PageInv'
PROOF
<1>1. CASE Start  BY <1>1, StartInv
<1>2. CASE \E lba, secs \in 0 .. Total - 1 : Write(lba, secs)  BY <1>2, WriteInv
<1>3. CASE WritePage  BY <1>3, PageInvWrites
<1>4. CASE FlushCache  BY <1>4, FlushInv
<1>5. CASE Stop  BY <1>5, StopInv
<1>6. CASE UNCHANGED vars
  BY <1>6 DEF vars, PageInv, Sound, ReadsLastWrite, Covered, JobOK, Up
<1>. QED  BY <1>1, <1>2, <1>3, <1>4, <1>5, <1>6 DEF Next

(* The block behind n others in the chain of spare blocks is the next one  *)
(* of the sequence, and no block behind its last.                          *)
LEMMA SpareSequence ==
  ASSUME NEW s, Mem(ftl, s), NEW n \in Nat
  PROVE  (n < Len(s) => SpareAt(n) = s[n + 1]) /\ (n >= Len(s) => SpareAt(n) \notin BlockIds \ {0})
PROOF
<1>1. Core(ftl, s)  BY DEF Mem
<1>2. Len(s) \in Nat /\ \A i \in 1 .. Len(s) : s[i] \in Data /\ s[i] \in BlockIds  BY <1>1, SpareFacts
<1>3. (Len(s) = 0 => Ended(ftl)) /\ (Len(s) # 0 => Linked(ftl, s))  BY <1>1 DEF Core, Chained
<1>4. PICK f : f[0] = ftl.spareHead /\ (\A i \in 1 .. n : f[i] = Behind(ftl, f[i - 1])) /\ SpareAt(n) = f[n]
  BY SpareLoop
<1> DEFINE Is(i) == (i < Len(s) => f[i] = s[i + 1]) /\ (i >= Len(s) => f[i] \notin BlockIds \ {0})
           T == {i \in 0 .. n : Is(i)}
<1>5. 0 \in T
  <2>1. CASE Len(s) = 0
    <3>1. f[0] \notin BlockIds \ {0}  BY <1>3, <1>4, <2>1 DEF Ended
    <3>. QED  BY <2>1, <3>1
  <2>2. CASE Len(s) # 0
    <3>1. f[0] = s[1]  BY <1>3, <1>4, <2>2 DEF Linked
    <3>. QED  BY <1>2, <2>2, <3>1
  <2>. QED  BY <2>1, <2>2
<1>6. ASSUME NEW i \in 1 .. n, i - 1 \in T  PROVE i \in T
  <2>1. PICK k : k = i - 1  OBVIOUS
  <2>2. k \in Nat /\ i = k + 1 /\ Is(k) /\ f[i] = Behind(ftl, f[k])  BY <1>4, <1>6, <2>1
  <2>3. CASE k < Len(s)
    <3>1. f[k] = s[i] /\ i \in 1 .. Len(s)  BY <1>2, <2>2, <2>3
    <3>2. f[k] \in BlockIds \ {0}  BY <1>2, <3>1, BlockFacts
    <3>3. f[i] = ftl.chain[s[i]].next  BY <2>2, <3>1, <3>2 DEF Behind
    <3>4. Linked(ftl, s)  BY <1>2, <1>3, <3>1
    <3>5. CASE i < Len(s)
      <4>1. i \in 1 .. Len(s) - 1  BY <1>2, <3>1, <3>5
      <4>2. f[i] = s[i + 1]  BY <3>3, <3>4, <4>1 DEF Linked
      <4>. QED  BY <1>2, <3>5, <4>2
    <3>6. CASE ~ (i < Len(s))
      <4>1. i = Len(s)  BY <1>2, <3>1, <3>6
      <4>2. f[i] \notin BlockIds  BY <3>3, <3>4, <4>1 DEF Linked
      <4>. QED  BY <1>2, <3>6, <4>2
    <3>. QED  BY <3>5, <3>6
  <2>4. CASE ~ (k < Len(s))
    <3>1. f[k] \notin BlockIds \ {0}  BY <1>2, <2>2, <2>4
    <3>2. f[i] = f[k]  BY <2>2, <3>1 DEF Behind
    <3>3. i >= Len(s) /\ ~ (i < Len(s))  BY <1>2, <2>2, <2>4
    <3>. QED  BY <3>1, <3>2, <3>3
  <2>. QED  BY <2>3, <2>4
<1> HIDE DEF T
<1>7. \A i \in 0 .. n : i \in T  BY <1>5, <1>6, Counting
<1>8. Is(n)  BY <1>7 DEF T
<1>. QED  BY <1>4, <1>8

LEMMA SparesFree == PageInv => SpareIsFree
PROOF
<1>1. SUFFICES ASSUME PageInv, Up  PROVE SpareIsFree
  BY DEF SpareIsFree
<1>2. PICK s : Mem(ftl, s)  BY <1>1 DEF PageInv, Sound, Good, Up
<1>3. Core(ftl, s)  BY <1>2 DEF Mem
<1>4. Len(s) \in Nat /\ (\A i, j \in 1 .. Len(s) : s[i] = s[j] => i = j) /\ \A i \in 1 .. Len(s) : s[i] \in BlockIds
  BY <1>3, SpareFacts
<1>5. ASSUME NEW n \in Spares
      PROVE  n \in Nat /\ n + 1 \in 1 .. Len(s) /\ SpareAt(n) = s[n + 1]
  <2>1. n \in Nat /\ SpareAt(n) \in BlockIds \ {0}
    <3>1. 0 .. Blocks \subseteq Nat  BY FirstBlocks
    <3>. QED  BY <3>1 DEF Spares
  <2>2. n < Len(s)  BY <1>2, <1>4, <2>1, SpareSequence
  <2>3. SpareAt(n) = s[n + 1]  BY <1>2, <2>1, <2>2, SpareSequence
  <2>. QED  BY <1>4, <2>1, <2>2, <2>3
<1>6. ASSUME NEW i \in Spares, NEW j \in Spares, SpareAt(i) = SpareAt(j)  PROVE i = j
  <2>1. i \in Nat /\ j \in Nat /\ i + 1 = j + 1  BY <1>4, <1>5, <1>6
  <2>. QED  BY <2>1
<1>7. ASSUME NEW i \in Spares  PROVE SpareAt(i) \notin Used /\ ftl.flash[SpareAt(i)].last = 0
  <2>1. PICK c : c = SpareAt(i)  OBVIOUS
  <2>2. ftl.flash[c].last = 0 /\ c \notin Tables(ftl) /\ c \notin Held(ftl)  BY <1>3, <1>5, <2>1 DEF Core, Unused
  <2>3. Mapped = MappedIn(ftl)  BY DEF Mapped, MappedIn
  <2>4. \A u \in Used : u \in Tables(ftl) \/ u \in Held(ftl)  BY <2>3 DEF Used, Tables, Held
  <2>. QED  BY <2>1, <2>2, <2>4
<1>. QED  BY <1>6, <1>7 DEF SpareIsFree

LEMMA TablesNamed == PageInv => FlashNamesTables
PROOF
<1>1. SUFFICES ASSUME PageInv, Up  PROVE FlashNamesTables
  BY DEF FlashNamesTables
<1>2. PICK s : Mem(ftl, s) /\ Named(ftl) /\ SavedIndex(ftl)  BY <1>1 DEF PageInv, Sound, Good, Up
<1>3. PICK f, b, l : f = ftl.flash /\ b = ftl.zoneIndex.block /\ l = ftl.zoneIndex.last  OBVIOUS
<1>4. FlashOK(f) /\ b \in BlockIds  BY <1>2, <1>3, BlockFacts DEF Mem, Core, Roles
<1>5. l \in 1 .. PagesPerBlock /\ l = f[b].last /\ f[b].page[l - 1].id = "zone_index"  BY <1>2, <1>3 DEF Mem, IndexOK
<1>6. FindLastPage(f, b, "zone_index") = l
  <2>1. f[b].last >= 1  BY <1>5
  <2>. QED  BY <1>4, <1>5, <2>1, LastFound
<1>7. ReadPage(f, b, l - 1) = f[b].page[l - 1]
  <2>1. l - 1 \in Pages /\ l - 1 < f[b].last  BY <1>5, PageModeAssumption DEF Pages
  <2>. QED  BY <1>4, <2>1 DEF ReadPage
<1>8. f[b].page[l - 1].body = ftl.zoneIndex.map  BY <1>2, <1>3 DEF SavedIndex
<1>9. \A z \in ZoneIds : ReadPage(f, b, l - 1).body[z] = ftl.zone[z].block  BY <1>2, <1>7, <1>8 DEF Named
<1>10. l > 0  BY <1>5
<1>. QED  BY <1>3, <1>6, <1>9, <1>10 DEF FlashNamesTables

-----------------------------------------------------------------------------
(* Starts are counted, one by one.                                         *)
LEMMA StartsCounted ==
  ASSUME starts \in Nat, [Next]_vars
  PROVE  starts' \in Nat /\ starts <= starts'
PROOF
<1>1. CASE Start  BY <1>1 DEF Start
<1>2. CASE \E lba, secs \in 0 .. Total - 1 : Write(lba, secs)  BY <1>2 DEF Write
<1>3. CASE WritePage
  <2>1. starts' = starts  BY ONLY <1>3, Zenon DEF WritePage
  <2>. QED  BY <2>1
<1>4. CASE FlushCache  BY <1>4 DEF FlushCache
<1>5. CASE Stop  BY <1>5 DEF Stop
<1>6. CASE UNCHANGED vars  BY <1>6 DEF vars
<1>. QED  BY <1>1, <1>2, <1>3, <1>4, <1>5, <1>6 DEF Next

(* The inductive invariant of the driver until it is started again or goes *)
(* on outside of its arrays: nothing stands behind the last page of a      *)
(* block, every end-of-block page describes its block, every sector the    *)
(* tables cover reads as last written, and, while the driver is up, its    *)
(* memory is in order: the spare blocks form a chain apart from all others,*)
(* and the index in the flash names the tables.                            *)
THEOREM PageAlwaysInv == Spec => [](starts <= 1 => PageInv)
PROOF
<1> DEFINE UntilRestart == starts \in Nat /\ (starts <= 1 => PageInv)
<1>1. Init => UntilRestart
  <2>1. Init => starts \in Nat  BY DEF Init
  <2>. QED  BY <2>1, InitInv
<1>2. UntilRestart /\ [Next]_vars => UntilRestart'
  <2>1. SUFFICES ASSUME starts \in Nat, starts <= 1 => PageInv, [Next]_vars
                 PROVE  starts' \in Nat /\ (starts' <= 1 => PageInv')
    OBVIOUS
  <2>2. starts' \in Nat /\ starts <= starts'  BY <2>1, StartsCounted
  <2>3. starts' <= 1 => starts <= 1  BY <2>1, <2>2
  <2>. QED  BY <2>1, <2>2, <2>3, StepInv
<1>3. UntilRestart => (starts <= 1 => PageInv)  OBVIOUS
<1>. QED  BY <1>1, <1>2, <1>3, PTL DEF Spec

(* A sector the tables cover reads as last written, whatever blocks have   *)
(* been opened, closed, flushed and recycled since, until the driver is    *)
(* started again or goes on outside of its arrays (PopupEmptyBlock of the  *)
(* block after the last spare one, SetNandAddress of a page without a      *)
(* table).  Nothing is claimed of a write acknowledged after that.         *)
THEOREM AlwaysReadsLastWrite == Spec => [](starts <= 1 => ReadsLastWrite)
PROOF
<1>1. PageInv => ReadsLastWrite  BY DEF PageInv, Sound, ReadsLastWrite, Up
<1>. QED  BY <1>1, PageAlwaysInv, PTL

(* The comment in ReadHPage is right until the driver is started again or  *)
(* goes on outside of its arrays: a page without an address has never been *)
(* written.                                                                *)
THEOREM UnmappedUnwritten == Spec => [](starts <= 1 => UnmappedNeverWritten)
PROOF
<1>1. PageInv => UnmappedNeverWritten
  <2>1. SUFFICES ASSUME PageInv, Up, NEW s \in Covered,
                        NandAddress(ftl, s \div SecsPerPage) = Unmapped
                 PROVE  written[s] = 0
    BY DEF UnmappedNeverWritten
  <2>2. s \in 0 .. Total - 1 /\ Sound  BY <2>1 DEF PageInv, Sound, Covered, Up
  <2>3. PICK h, i : h = s \div SecsPerPage /\ i = s % SecsPerPage  OBVIOUS
  <2>4. i \in 0 .. SecsPerPage - 1  BY <2>2, <2>3, SectorFacts
  <2>5. ReadHPage(ftl, h)[i] = written[s]  BY <2>1, <2>2, <2>3 DEF Sound, ReadsLastWrite
  <2>6. ReadHPage(ftl, h) = [k \in 0 .. SecsPerPage - 1 |-> 0]  BY <2>1, <2>3 DEF ReadHPage, Unmapped
  <2>. QED  BY ONLY <2>4, <2>5, <2>6
<1>. QED  BY <1>1, PageAlwaysInv, PTL

(* A block waits at most once in the chain of spare blocks (m_empty_head), *)
(* erased, and nothing refers to it, until the driver is started again or  *)
(* goes on outside of its arrays.                                          *)
THEOREM SpareAlwaysFree == Spec => [](starts <= 1 => SpareIsFree)
PROOF
<1>1. PageInv => SpareIsFree  BY SparesFree
<1>. QED  BY <1>1, PageAlwaysInv, PTL

(* The end-of-block page lists the host page of every data page of its     *)
(* block.                                                                  *)
THEOREM EobAlwaysDescribes == Spec => [](starts <= 1 => EobDescribesBlock)
PROOF
<1>1. PageInv => EobDescribesBlock
  <2>1. SUFFICES ASSUME PageInv, ~ astray  PROVE EobDescribesBlock
    BY DEF EobDescribesBlock
  <2>2. Described(ftl.flash)  BY <2>1 DEF PageInv, Sound, FlashOK
  <2>. QED  BY <2>2 DEF Described, EobDescribesBlock
<1>. QED  BY <1>1, PageAlwaysInv, PTL

(* The last page of the zone index in the flash names the map block of     *)
(* every zone that has one.                                                *)
THEOREM FlashAlwaysNamesTables == Spec => [](starts <= 1 => FlashNamesTables)
PROOF
<1>1. PageInv => FlashNamesTables  BY TablesNamed
<1>. QED  BY <1>1, PageAlwaysInv, PTL

=============================================================================
