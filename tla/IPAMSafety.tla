----------------------------- MODULE IPAMSafety -----------------------------
(***************************************************************************)
(* The safety invariant of IPAM is inductive when handles are not shared,  *)
(* for any number of clients, handles, blocks, addresses and retries, and  *)
(* with any faults.                                                        *)
(***************************************************************************)
EXTENDS IPAMProofs

-----------------------------------------------------------------------------
(* The values the invariant is about: a stored block and a stored handle.  *)

StoredIn(bk, h) == IF bk = None THEN {} ELSE OwnedBy(bk, h)
CountIn(hd, b)  == IF hd = None THEN 0 ELSE hd.block[b]

\* The addresses of a handle in a block are finitely many.
LEMMA StoredFacts ==
  ASSUME NEW bk, NEW h
  PROVE  /\ IsFiniteSet(StoredIn(bk, h)) /\ Cardinality(StoredIn(bk, h)) \in Nat
         /\ Cardinality(StoredIn(bk, h)) = 0 <=> StoredIn(bk, h) = {}
<1>1. IsFiniteSet(StoredIn(bk, h))
  BY OwnedFinite, FS_EmptySet DEF StoredIn
<1> QED BY <1>1, FS_CardinalityType, FS_EmptySet

\* A smaller set of addresses has a smaller count.
LEMMA StoredMonotone ==
  ASSUME NEW bk, NEW obj, NEW h, StoredIn(obj, h) \subseteq StoredIn(bk, h)
  PROVE  Cardinality(StoredIn(obj, h)) <= Cardinality(StoredIn(bk, h))
  BY StoredFacts, FS_Subset

\* What the block operators do to the addresses of a handle.
LEMMA StoredAfter ==
  ASSUME NEW bk \in Block, NEW h \in Handles, NEW g \in Handles
  PROVE  /\ StoredIn(NewBlock, g) = {}
         /\ StoredIn(None, g) = {}
         /\ StoredIn(MarkDeleted(bk), g) = StoredIn(bk, g)
         /\ StoredIn(Release(bk, h), h) = {}
         /\ g # h => StoredIn(Release(bk, h), g) = StoredIn(bk, g)
         /\ \A o \in FreeOrdinals(bk) :
              /\ StoredIn(Assign(bk, o, h), h) = StoredIn(bk, h) \cup {o}
              /\ g # h => StoredIn(Assign(bk, o, h), g) = StoredIn(bk, g)
<1>1. NewBlock # None /\ MarkDeleted(bk) # None /\ Release(bk, h) # None /\ bk # None
  <2>1. 0 \in Ordinals
    BY BlockAssumption DEF Ordinals
  <2> QED BY <2>1, BlockTypes, IPAMAssumption
<1>2. \A o \in FreeOrdinals(bk) : Assign(bk, o, h) # None
  BY BlockTypes, IPAMAssumption DEF FreeOrdinals
<1>3. Free \notin Handles /\ ReservedHandle \notin Handles
  BY BlockAssumption
<1>4. StoredIn(NewBlock, g) = {} /\ StoredIn(None, g) = {}
  BY <1>1, <1>3 DEF StoredIn, NewBlock, OwnedBy
<1>5. StoredIn(MarkDeleted(bk), g) = StoredIn(bk, g)
  BY <1>1 DEF StoredIn, MarkDeleted, OwnedBy
<1>6. /\ StoredIn(Release(bk, h), h) = {}
      /\ g # h => StoredIn(Release(bk, h), g) = StoredIn(bk, g)
  BY <1>1, <1>3 DEF StoredIn, Release, OwnedBy, Block
<1>7. ASSUME NEW o \in FreeOrdinals(bk)
      PROVE  /\ StoredIn(Assign(bk, o, h), h) = StoredIn(bk, h) \cup {o}
             /\ g # h => StoredIn(Assign(bk, o, h), g) = StoredIn(bk, g)
  BY <1>1, <1>2, <1>3 DEF StoredIn, Assign, OwnedBy, Block, FreeOrdinals
<1> QED BY <1>4, <1>5, <1>6, <1>7

\* Assigning one address counts for one.
LEMMA AssignCounts ==
  ASSUME NEW bk \in Block, NEW h \in Handles, NEW o \in FreeOrdinals(bk)
  PROVE  Cardinality(StoredIn(Assign(bk, o, h), h)) <= Cardinality(StoredIn(bk, h)) + 1
<1>1. StoredIn(Assign(bk, o, h), h) = StoredIn(bk, h) \cup {o}
  BY StoredAfter
<1>2. IsFiniteSet(StoredIn(bk, h)) /\ Cardinality(StoredIn(bk, h)) \in Nat
  BY StoredFacts
<1>3. Cardinality(StoredIn(bk, h) \cup {o}) \in
        {Cardinality(StoredIn(bk, h)), Cardinality(StoredIn(bk, h)) + 1}
  BY <1>2, FS_AddElement
<1> QED BY <1>1, <1>2, <1>3

-----------------------------------------------------------------------------
(* A step of client c and the rest of the world                            *)

\* The step of c touches only c's own locals and copies, c's own handle and
\* what the blocks record for it.
Frame(c) ==
  /\ OthersKeep(c) /\ hid'[c] \in {hid[c], None}
  /\ \A g \in Handles : g # hid[c] => handles'[g] = handles[g]
  /\ \A g \in Handles, b \in BlockNames :
       g # hid[c] => StoredIn(blocks'[b], g) \subseteq StoredIn(blocks[b], g)
  /\ released' \subseteq released \cup {hid[c]}
  /\ marked \subseteq marked'
  /\ \A x \in grants' : x \in grants \/ x.handle = hid[c]
  /\ \A d \in Clients, b \in BlockNames :
       d # c /\ <<d, b>> \in bfresh' => <<d, b>> \in bfresh /\ blocks'[b] = blocks[b]

\* The state functions of the invariant in terms of stored values.
LEMMA InTerms ==
  ASSUME NEW h, NEW b
  PROVE  /\ Stored(h, b) = StoredIn(blocks[b], h) /\ Count(h, b) = CountIn(handles[h], b)
         /\ Stored(h, b)' = StoredIn(blocks'[b], h) /\ Count(h, b)' = CountIn(handles'[h], b)
  BY DEF Stored, StoredIn, Count, CountIn

\* A step of c does not disturb another client d.
LEMMA OtherCalls ==
  ASSUME TypeInv, SafeInv, NEW c \in Clients, NEW d \in Clients, d # c, Frame(c)
  PROVE  CallCovered(d)' /\ CallReleases(d)' /\ CallMarks(d)'
<1>1. /\ pc'[d] = pc[d] /\ hid'[d] = hid[d] /\ blk'[d] = blk[d] /\ num'[d] = num[d]
      /\ cont'[d] = cont[d] /\ rem'[d] = rem[d] /\ list'[d] = list[d]
  BY DEF Frame, OthersKeep
<1>2. CallCovered(d) /\ CallReleases(d) /\ CallMarks(d)
  BY DEF SafeInv
<1>3. hid[d] # None => hid[d] \in Handles /\ hid[d] # hid[c]
  BY DEF SafeInv, OneCallPerHandle, TypeInv, TypeOK
<1>4. pc[d] \in AssignLabels \cup ReleaseLabels \cup DecLabels => hid[d] # None
  BY TypeInvParts, LabelFacts, IPAMAssumption
<1>5. pc[d] \in BlockLabels => blk[d] \in BlockNames
  BY TypeInvParts, LabelFacts
<1>6. CallCovered(d)'
  <2>1. SUFFICES ASSUME pc[d] \in {"updateBlock", "decGet", "decPut", "relMark", "relDelete",
                   "relUpdate", "incDelete", "decQueryDelete", "decDelete", "relHandleDelete",
                   "incUpdate"}
                 PROVE  CallCovered(d)'
    BY <1>1 DEF CallCovered
  <2>2. hid[d] \in Handles /\ handles'[hid[d]] = handles[hid[d]]
    BY <1>3, <1>4, <2>1 DEF Frame, AssignLabels, ReleaseLabels, DecLabels
  <2>3. CASE pc[d] \in {"updateBlock", "decGet", "decPut"}
    <3>1. StoredIn(blocks'[blk[d]], hid[d]) \subseteq StoredIn(blocks[blk[d]], hid[d])
      BY <1>3, <1>4, <1>5, <2>2, <2>3 DEF Frame, AssignLabels, DecLabels, BlockLabels
    <3> DEFINE m == Cardinality(StoredIn(blocks'[blk[d]], hid[d]))
               n == Cardinality(StoredIn(blocks[blk[d]], hid[d]))
               k == CountIn(handles[hid[d]], blk[d])
    <3>2. m <= n /\ m \in Nat /\ n \in Nat
      BY <3>1, StoredMonotone, StoredFacts
    <3>3. num[d] \in Nat /\ k \in Nat
      <4>1. blk[d] \in BlockNames
        BY <1>5, <2>3 DEF BlockLabels, DecLabels
      <4> QED BY <4>1, <2>2 DEF TypeInv, TypeOK, CountIn, Handle
    <3>4. /\ Cardinality(Stored(hid[d], blk[d])) = n /\ Count(hid[d], blk[d]) = k
          /\ Cardinality(Stored(hid[d], blk[d])') = m /\ Count(hid[d], blk[d])' = k
      BY <1>1, <2>2, InTerms
    <3> HIDE DEF m, n, k
    <3> QED BY <1>1, <1>2, <2>3, <3>2, <3>3, <3>4 DEF CallCovered
  <2>4. CASE pc[d] \in {"relMark", "relDelete", "relUpdate"}
    <3>1. Count(hid[d], blk[d])' = Count(hid[d], blk[d])
      BY <1>1, <2>2 DEF Count
    <3> QED BY <1>1, <1>2, <2>4, <3>1 DEF CallCovered
  <2>5. CASE pc[d] \in {"incDelete", "decQueryDelete", "decDelete", "relHandleDelete",
                       "incUpdate"}
    BY <1>1, <1>2, <2>2, <2>5 DEF CallCovered
  <2> QED BY <2>1, <2>3, <2>4, <2>5
<1>7. CallReleases(d)'
  <2>1. ASSUME hid[d] \in Handles, NEW b \in BlockNames, Stored(hid[d], b) = {}
        PROVE  Stored(hid[d], b)' = {}
    <3>1. StoredIn(blocks'[b], hid[d]) \subseteq StoredIn(blocks[b], hid[d])
      BY <1>3, <2>1, IPAMAssumption DEF Frame
    <3> QED BY <1>1, <2>1, <3>1 DEF Stored, StoredIn
  <2>2. hid[d] \in Handles /\ hid[d] \notin released => hid[d] \notin released'
    BY <1>3, IPAMAssumption DEF Frame
  <2>3. hid[d] \in Handles =>
          \A g \in grants' : g.handle = hid[d] => g \in grants
    BY <1>3, IPAMAssumption DEF Frame
  <2>4. Releasing(d)' = Releasing(d) /\ Assigning(d)' = Assigning(d)
    BY <1>1 DEF Releasing, Assigning
  <2>5. Releasing(d) \/ Assigning(d) \/ pc[d] \in {"relHandle", "relHandleDelete"}
          => hid[d] \in Handles
    BY <1>3, <1>4 DEF Releasing, Assigning, ReleaseLabels
  <2> QED BY <1>1, <1>2, <2>1, <2>2, <2>3, <2>4, <2>5 DEF CallReleases
<1>8. CallMarks(d)'
  <2>1. \A b \in BlockNames : <<d, b>> \in bfresh' => <<d, b>> \in bfresh /\ blocks'[b] = blocks[b]
    BY DEF Frame
  <2>2. pc[d] \in {"relMark", "poolMark"} => blk[d] \in BlockNames
    BY <1>5 DEF BlockLabels
  <2> QED BY <1>1, <1>2, <2>1, <2>2 DEF CallMarks, BlockCurrent, Frame
<1> QED BY <1>6, <1>7, <1>8

\* What is left to show of a step of c: c itself, its handle and the blocks.
LEMMA SafeFrame ==
  ASSUME TypeInv, SafeInv, NEW c \in Clients, Frame(c), NEW h, h = hid[c],
         h \in Handles => HandleSafe(h)',
         CallCovered(c)', CallReleases(c)', CallMarks(c)', BlocksSafe'
  PROVE  SafeInv'
<1>1. OneCallPerHandle'
  BY DEF SafeInv, OneCallPerHandle, Frame, OthersKeep
<1>2. ASSUME NEW g \in Handles PROVE HandleSafe(g)'
  <2>1. CASE g = h
    BY <2>1
  <2>2. CASE g # h
    <3>1. HandleSafe(g) /\ handles'[g] = handles[g] /\ (g \in released' => g \in released)
      BY <2>2 DEF SafeInv, Frame
    <3>2. \A b \in BlockNames : StoredIn(blocks'[b], g) \subseteq StoredIn(blocks[b], g)
      BY <2>2 DEF Frame
    <3>3. ASSUME NEW b \in BlockNames
          PROVE  /\ Cardinality(Stored(g, b)') <= Count(g, b)'
                 /\ Stored(g, b) = {} => Stored(g, b)' = {}
      <4>1. /\ Cardinality(StoredIn(blocks'[b], g)) <= Cardinality(StoredIn(blocks[b], g))
            /\ Cardinality(StoredIn(blocks'[b], g)) \in Nat
            /\ Cardinality(StoredIn(blocks[b], g)) \in Nat
        BY <3>2, StoredMonotone, StoredFacts
      <4>2. Cardinality(StoredIn(blocks[b], g)) <= CountIn(handles[g], b)
        BY <3>1, InTerms DEF HandleSafe
      <4>3. CountIn(handles[g], b) \in Nat
        BY DEF TypeInv, TypeOK, CountIn, Handle
      <4>4. Cardinality(StoredIn(blocks'[b], g)) <= CountIn(handles'[g], b)
        BY <3>1, <4>1, <4>2, <4>3
      <4> QED BY <3>2, <4>4, InTerms
    <3> QED BY <3>1, <3>3 DEF HandleSafe
  <2> QED BY <2>1, <2>2
<1>3. \A d \in Clients : CallCovered(d)' /\ CallReleases(d)' /\ CallMarks(d)'
  BY OtherCalls
<1> QED BY <1>1, <1>2, <1>3 DEF SafeInv

\* A step that writes neither a block nor a handle.
LEMMA SafeQuiet ==
  ASSUME TypeInv, SafeInv, NEW c \in Clients, OthersKeep(c), hid'[c] \in {hid[c], None},
         blocks' = blocks, handles' = handles, grants' = grants, marked' = marked,
         \A p \in bfresh' : p \in bfresh \/ p[1] = c,
         \/ released' = released
         \/ /\ released' = released \cup {hid[c]}
            /\ \A b \in BlockNames : StoredIn(blocks[b], hid[c]) = {},
         CallCovered(c)', CallReleases(c)', CallMarks(c)'
  PROVE  SafeInv'
<1>1. Frame(c)
  BY DEF Frame
<1>2. BlocksSafe'
  BY DEF SafeInv, BlocksSafe, GrantsRecorded, Stored
<1>3. ASSUME NEW h \in Handles, h = hid[c] PROVE HandleSafe(h)'
  <2>1. HandleSafe(h)
    BY DEF SafeInv
  <2>2. \A b \in BlockNames : Stored(h, b)' = Stored(h, b) /\ Count(h, b)' = Count(h, b)
    BY DEF Stored, Count
  <2>3. h \in released' /\ h \notin released => \A b \in BlockNames : Stored(h, b) = {}
    BY <1>3, InTerms
  <2> QED BY <2>1, <2>2, <2>3 DEF HandleSafe
<1> QED BY <1>1, <1>2, <1>3, SafeFrame

\* A step that writes c's handle.
LEMMA SafeHandleWrite ==
  ASSUME TypeInv, SafeInv, NEW c \in Clients, OthersKeep(c), hid'[c] \in {hid[c], None},
         NEW h \in Handles, h = hid[c], NEW obj \in Handle \cup {None}, WriteHandle(h, obj),
         blocks' = blocks, grants' = grants, marked' = marked, bfresh' = bfresh,
         \/ released' = released
         \/ /\ released' = released \cup {h}
            /\ \A b \in BlockNames : StoredIn(blocks[b], h) = {},
         obj # None /\ obj.deleted => \A b \in BlockNames : obj.block[b] = 0,
         \A b \in BlockNames : Cardinality(StoredIn(blocks[b], h)) <= CountIn(obj, b),
         CallCovered(c)', CallReleases(c)', CallMarks(c)'
  PROVE  SafeInv'
<1>0. handles'[h] = obj /\ \A g \in Handles : g # h => handles'[g] = handles[g]
  BY TypeInvParts, WriteHandleStep
<1>1. Frame(c)
  BY <1>0 DEF Frame
<1>2. BlocksSafe'
  BY DEF SafeInv, BlocksSafe, GrantsRecorded, Stored
<1>3. HandleSafe(h)'
  <2>1. HandleSafe(h)
    BY DEF SafeInv
  <2>2. \A b \in BlockNames : /\ Stored(h, b)' = StoredIn(blocks[b], h)
                              /\ Stored(h, b) = StoredIn(blocks[b], h)
                              /\ Count(h, b)' = CountIn(obj, b)
    BY <1>0, InTerms
  <2> QED BY <1>0, <2>1, <2>2 DEF HandleSafe
<1> QED BY <1>1, <1>2, <1>3, SafeFrame

\* A step that writes a block.
LEMMA SafeBlockWrite ==
  ASSUME TypeInv, SafeInv, NEW c \in Clients, OthersKeep(c), hid'[c] \in {hid[c], None},
         NEW b \in BlockNames, NEW obj \in Block \cup {None}, blocks'[b] = obj,
         \A a \in BlockNames : a # b => blocks'[a] = blocks[a],
         \A p \in bfresh' : (p \in bfresh /\ p[2] # b) \/ p[1] = c,
         handles' = handles, marked \subseteq marked',
         \A x \in grants' : x \in grants \/ x.handle = hid[c],
         \A g \in Handles : g # hid[c] => StoredIn(obj, g) \subseteq StoredIn(blocks[b], g),
         hid[c] \in Handles =>
           Cardinality(StoredIn(obj, hid[c])) <= CountIn(handles[hid[c]], b),
         \/ released' = released /\ hid[c] \notin released
         \/ released' = released /\ StoredIn(obj, hid[c]) = {}
         \/ /\ released' = released \cup {hid[c]} /\ StoredIn(obj, hid[c]) = {}
            /\ \A a \in BlockNames : a # b => StoredIn(blocks[a], hid[c]) = {},
         CallCovered(c)', CallReleases(c)', CallMarks(c)', BlocksSafe'
  PROVE  SafeInv'
<1>1. Frame(c)
  <2>1. ASSUME NEW d \in Clients, NEW a \in BlockNames, d # c, <<d, a>> \in bfresh'
        PROVE  <<d, a>> \in bfresh /\ blocks'[a] = blocks[a]
    BY <2>1
  <2> QED BY <2>1 DEF Frame
<1>2. ASSUME NEW h \in Handles, h = hid[c] PROVE HandleSafe(h)'
  <2>1. HandleSafe(h)
    BY DEF SafeInv
  <2>2. \A a \in BlockNames : /\ Stored(h, a) = StoredIn(blocks[a], h)
                              /\ Stored(h, a)' = StoredIn(blocks'[a], h)
                              /\ Count(h, a) = CountIn(handles[h], a)
                              /\ Count(h, a)' = CountIn(handles[h], a)
    BY InTerms
  <2>3. \A a \in BlockNames : Cardinality(Stored(h, a)') <= Count(h, a)'
    BY <1>2, <2>1, <2>2 DEF HandleSafe
  <2>4. h \in released' => \A a \in BlockNames : Stored(h, a)' = {}
    BY <1>2, <2>1, <2>2 DEF HandleSafe
  <2> QED BY <2>1, <2>3, <2>4 DEF HandleSafe
<1> QED BY <1>1, <1>2, SafeFrame

-----------------------------------------------------------------------------
(* Where a call goes on                                                    *)

\* A call that is not at a block's mark or delete keeps CallMarks.
LEMMA MarksPlain ==
  ASSUME NEW c \in Clients, CallMarks(c), pc[c] \notin {"poolMark", "poolDelete"},
         list'[c] \in {list[c], NoList},
         pc'[c] \notin {"requeryDelete", "relGetDelete", "relDelete", "poolDelete", "relMark",
                        "poolMark"}
  PROVE  CallMarks(c)'
  BY DEF CallMarks, NoList

\* AutoAssign goes on to a call that relies on nothing, or returns.
LEMMA AssignGoesOn ==
  ASSUME SafeInv, NEW c \in Clients, Assigning(c), released' = released,
         list'[c] \in {list[c], NoList},
         \/ pc'[c] = "idle"
         \/ /\ pc'[c] \in {"panic", "getPool", "listBlocks", "listUnclaimed", "createBlock",
                           "incGet", "incCreate", "requery"}
            /\ hid'[c] = hid[c]
  PROVE  CallCovered(c)' /\ CallReleases(c)' /\ CallMarks(c)'
<1>1. CallReleases(c) /\ CallMarks(c) /\ pc[c] \notin {"poolMark", "poolDelete"}
  BY DEF SafeInv, Assigning, AssignLabels, DecLabels
<1>2. CallCovered(c)'
  BY DEF CallCovered
<1>3. CallReleases(c)'
  BY <1>1 DEF CallReleases, Releasing, Assigning, AssignLabels, ReleaseLabels, DecLabels
<1> QED BY <1>1, <1>2, <1>3, MarksPlain

\* A call that has returned relies on nothing.
LEMMA Returned ==
  ASSUME NEW c \in Clients, list'[c] = NoList,
         pc'[c] \in {"idle", "poolUnused", "poolUsed", "poolError"}
  PROVE  CallCovered(c)' /\ CallReleases(c)' /\ CallMarks(c)'
<1>1. CallCovered(c)'
  BY DEF CallCovered
<1>2. CallReleases(c)'
  BY DEF CallReleases, Releasing, Assigning, AssignLabels, ReleaseLabels, DecLabels
<1>3. CallMarks(c)'
  BY DEF CallMarks, NoList
<1> QED BY <1>1, <1>2, <1>3

\* ReleaseByHandle goes on to the next block: what is left is in r.
LEMMA NextGoesOn ==
  ASSUME TypeInv, SafeInv, NEW c \in Clients, hid[c] \in Handles,
         pc[c] \in ReleaseLabels \cup DecLabels,
         NEW r \in SUBSET BlockNames, NextBlock(c, r), grants' = grants,
         \A g \in grants : g.handle # hid[c],
         \A b \in BlockNames : b \notin r => StoredIn(blocks'[b], hid[c]) = {}
  PROVE  /\ OthersKeep(c) /\ hid'[c] \in {hid[c], None}
         /\ \/ released' = released
            \/ /\ released' = released \cup {hid[c]}
               /\ \A b \in BlockNames : StoredIn(blocks'[b], hid[c]) = {}
         /\ CallCovered(c)' /\ CallReleases(c)' /\ CallMarks(c)'
<1>0. LocalTypes /\ released \subseteq Handles
  BY TypeInvParts DEF StoreTypes
<1>1. /\ OthersKeep(c) /\ list'[c] = NoList
      /\ \/ /\ r = {} /\ pc'[c] = "idle" /\ hid'[c] = None
            /\ released' = released \cup {hid[c]}
         \/ /\ pc'[c] = "relGet" /\ hid'[c] = hid[c] /\ released' = released
            /\ blk'[c] \in r /\ rem'[c] = r \ {blk'[c]}
  BY <1>0, NextBlockStep
<1>2. CASE pc'[c] = "idle"
  BY <1>1, <1>2, Returned
<1>3. CASE pc'[c] = "relGet"
  <2>1. CallCovered(c)'
    BY <1>3 DEF CallCovered
  <2>2. CallReleases(c)'
    <3>1. \A b \in BlockNames : Stored(hid[c], b)' = StoredIn(blocks'[b], hid[c])
      BY <1>1, <1>3 DEF Stored, StoredIn
    <3>2. \A b \in BlockNames : Stored(hid[c], b)' = {} \/ b \in r
      BY <3>1
    <3> QED BY <1>1, <1>3, <3>2
            DEF CallReleases, Releasing, Assigning, AssignLabels, ReleaseLabels, DecLabels
  <2>3. CallMarks(c)'
    BY <1>1, <1>3, MarksPlain DEF SafeInv, ReleaseLabels, DecLabels
  <2> QED BY <1>1, <1>3, <2>1, <2>2, <2>3
<1> QED BY <1>1, <1>2, <1>3

\* The caller of decrementHandle goes on.
LEMMA DecGoesOn ==
  ASSUME TypeInv, SafeInv, NEW c \in Clients, pc[c] \in DecLabels, DecDone(c),
         blocks' = blocks, grants' = grants
  PROVE  /\ OthersKeep(c) /\ hid'[c] \in {hid[c], None}
         /\ \/ released' = released
            \/ /\ released' = released \cup {hid[c]}
               /\ \A b \in BlockNames : StoredIn(blocks[b], hid[c]) = {}
         /\ CallCovered(c)' /\ CallReleases(c)' /\ CallMarks(c)'
<1>0. /\ LocalTypes /\ released \subseteq Handles /\ hid[c] \in Handles
      /\ blk[c] \in BlockNames /\ rem[c] \in SUBSET BlockNames
  BY TypeInvParts, LabelFacts DEF StoreTypes, BlockLabels
<1>1. CASE cont[c] = "release"
  <2>1. NextBlock(c, rem[c])
    BY <1>1 DEF DecDone
  <2>2. Releasing(c) /\ CallReleases(c) /\ pc[c] \notin ReleaseLabels
    BY <1>1 DEF SafeInv, Releasing, DecLabels, ReleaseLabels
  <2>3. /\ \A g \in grants : g.handle # hid[c]
        /\ \A b \in BlockNames : b \notin rem[c] => StoredIn(blocks'[b], hid[c]) = {}
    BY <2>2, InTerms DEF CallReleases
  <2> QED BY <1>0, <2>1, <2>3, NextGoesOn
<1>2. CASE cont[c] # "release"
  <2>1. Assigning(c)
    BY <1>2 DEF Assigning
  <2>2. /\ OthersKeep(c) /\ list'[c] \in {list[c], NoList} /\ released' = released
        /\ \/ pc'[c] \in {"requery", "getPool"} /\ hid'[c] = hid[c]
           \/ pc'[c] = "idle" /\ hid'[c] = None
    BY <1>0, <1>2, DecDoneStep
  <2> QED BY <2>1, <2>2, AssignGoesOn
<1> QED BY <1>1, <1>2

\* decrementHandle starts with the handle counting the n addresses too much.
LEMMA StartDecGoesOn ==
  ASSUME TypeInv, SafeInv, NEW c \in Clients, hid[c] \in Handles, blk[c] \in BlockNames,
         pc[c] \in AssignLabels \cup ReleaseLabels,
         NEW n \in Nat, NEW then \in {"retry", "requery", "release"}, StartDec(c, n, then),
         released' = released, grants' = grants, handles' = handles,
         Cardinality(StoredIn(blocks'[blk[c]], hid[c])) + n <= CountIn(handles[hid[c]], blk[c]),
         then # "release" => Assigning(c),
         then = "release" =>
           /\ \A g \in grants : g.handle # hid[c]
           /\ \A b \in BlockNames : b \notin rem[c] => StoredIn(blocks'[b], hid[c]) = {}
  PROVE  /\ OthersKeep(c) /\ hid'[c] = hid[c]
         /\ CallCovered(c)' /\ CallReleases(c)' /\ CallMarks(c)'
<1>1. /\ OthersKeep(c) /\ list' = list /\ pc'[c] = "decGet" /\ hid' = hid /\ blk' = blk
      /\ rem' = rem /\ num'[c] = n /\ cont'[c] = then
  BY TypeInvParts, StartDecStep
<1>2. CallCovered(c)'
  <2>1. /\ Stored(hid[c], blk[c])' = StoredIn(blocks'[blk[c]], hid[c])
        /\ Count(hid[c], blk[c])' = CountIn(handles[hid[c]], blk[c])
    BY <1>1 DEF Stored, StoredIn, Count, CountIn
  <2> QED BY <1>1, <2>1 DEF CallCovered
<1>3. CallReleases(c)'
  <2>1. \A b \in BlockNames : Stored(hid[c], b)' = StoredIn(blocks'[b], hid[c])
    BY <1>1 DEF Stored, StoredIn
  <2>2. Assigning(c) => hid[c] \notin released
    BY DEF SafeInv, CallReleases
  <2> QED BY <1>1, <2>1, <2>2
          DEF CallReleases, Releasing, Assigning, AssignLabels, ReleaseLabels, DecLabels
<1>4. CallMarks(c)'
  BY <1>1, MarksPlain DEF SafeInv, AssignLabels, ReleaseLabels
<1> QED BY <1>1, <1>2, <1>3, <1>4

\* A write of block b keeps the marks and the grants on record.
LEMMA BlocksSafeWrite ==
  ASSUME TypeInv, SafeInv, NEW b \in BlockNames, NEW obj, blocks'[b] = obj,
         \A a \in BlockNames : a # b => blocks'[a] = blocks[a],
         marked \subseteq marked', grants' \subseteq Grant,
         obj # None /\ obj.deleted => b \in marked',
         \A x \in grants' : x.blk # b => x \in grants,
         b \notin marked' => \A x \in grants' : x.blk = b => x.ord \in StoredIn(obj, x.handle)
  PROVE  BlocksSafe'
<1>1. \A a \in BlockNames : blocks'[a] # None /\ blocks'[a].deleted => a \in marked'
  BY DEF SafeInv, BlocksSafe
<1>2. ASSUME NEW x \in grants', x.blk \notin marked'
      PROVE  x.ord \in StoredIn(blocks'[x.blk], x.handle)
  <2>1. x.blk \in BlockNames
    BY DEF Grant
  <2>2. CASE x.blk = b
    BY <1>2, <2>2
  <2>3. CASE x.blk # b
    <3>1. x \in grants /\ blocks'[x.blk] = blocks[x.blk] /\ x.blk \notin marked
      BY <1>2, <2>1, <2>3
    <3> QED BY <3>1 DEF SafeInv, BlocksSafe, GrantsRecorded, Stored, StoredIn
  <2> QED BY <2>2, <2>3
<1>3. GrantsRecorded'
  BY <1>2 DEF GrantsRecorded, Stored, StoredIn
<1> QED BY <1>1, <1>3 DEF BlocksSafe

\* Deleting a marked block by name is safe for everybody but its late holders.
LEMMA SafeBlockDelete ==
  ASSUME TypeInv, SafeInv, NEW c \in Clients, OthersKeep(c), hid'[c] \in {hid[c], None},
         NEW b \in BlockNames, b \in marked, WriteBlock(b, None),
         handles' = handles, marked' = marked, grants' = grants,
         \/ released' = released
         \/ /\ released' = released \cup {hid[c]}
            /\ \A a \in BlockNames : a # b => StoredIn(blocks[a], hid[c]) = {},
         CallCovered(c)', CallReleases(c)', CallMarks(c)'
  PROVE  SafeInv'
<1>1. /\ blocks'[b] = None /\ \A a \in BlockNames : a # b => blocks'[a] = blocks[a]
      /\ \A p \in bfresh' : p \in bfresh /\ p[2] # b
  BY TypeInvParts, WriteBlockStep
<1>2. \A g : StoredIn(None, g) = {}
  BY DEF StoredIn
<1>3. BlocksSafe'
  BY <1>1, BlocksSafeWrite DEF TypeInv, TypeOK
<1>4. hid[c] \in Handles => Cardinality(StoredIn(None, hid[c])) <= CountIn(handles[hid[c]], b)
  <2>1. Cardinality(StoredIn(None, hid[c])) = 0
    BY <1>2, FS_EmptySet
  <2>2. hid[c] \in Handles => CountIn(handles[hid[c]], b) \in Nat
    BY DEF TypeInv, TypeOK, CountIn, Handle
  <2> QED BY <2>1, <2>2
<1> QED BY <1>1, <1>2, <1>3, <1>4, SafeBlockWrite

-----------------------------------------------------------------------------
(* The calls preserve the invariant                                        *)

\* The calls of AutoAssign that only read.
LEMMA SafeAssignRead ==
  ASSUME TypeInv, SafeInv, NEW c \in Clients,
         \/ GetPool(c) \/ ListBlocks(c) \/ FindUnclaimedBlock(c) \/ IncGet(c) \/ Requery(c)
  PROVE  SafeInv'
<1> USE TypeInvParts DEF store, copies, history
<1>0. /\ hid[c] \in Handles /\ Assigning(c) /\ LocalTypes
      /\ pc[c] \in {"incGet", "requery"} => blk[c] \in BlockNames
  BY LabelFacts DEF GetPool, ListBlocks, FindUnclaimedBlock, IncGet, Requery, Assigning,
                    AssignLabels, BlockLabels
<1> DEFINE GoesOn ==
      /\ OthersKeep(c) /\ hid'[c] \in {hid[c], None} /\ list'[c] \in {list[c], NoList}
      /\ \/ pc'[c] = "idle"
         \/ /\ pc'[c] \in {"panic", "getPool", "listBlocks", "listUnclaimed", "createBlock",
                           "incGet", "incCreate", "requery"}
            /\ hid'[c] = hid[c]
<1>1. ASSUME GoesOn, blocks' = blocks, handles' = handles, UNCHANGED history,
             \A p \in bfresh' : p \in bfresh \/ p[1] = c
      PROVE  SafeInv'
  <2>1. CallCovered(c)' /\ CallReleases(c)' /\ CallMarks(c)'
    BY <1>0, <1>1, AssignGoesOn
  <2> QED BY <1>1, <2>1, SafeQuiet
<1>2. CASE GetPool(c)
  <2>1. Fits("listBlocks", hid[c], blk[c])
    BY <1>0 DEF Fits, Labels, PoolLabels, DecLabels, AssignLabels, BlockLabels
  <2>2. GoesOn
    BY <1>0, <1>2, <2>1, GotoStep, ReturnStep DEF GetPool, locals
  <2> QED BY <1>1, <1>2, <2>2 DEF GetPool
<1>3. CASE ListBlocks(c)
  <2>1. Fits("listUnclaimed", hid[c], blk[c])
    BY <1>0 DEF Fits, Labels, PoolLabels, DecLabels, AssignLabels, BlockLabels
  <2>2. GoesOn
    BY <1>0, <1>3, <2>1, GotoStep, TryBlockStep DEF ListBlocks, locals
  <2> QED BY <1>1, <1>3, <2>2 DEF ListBlocks
<1>4. CASE FindUnclaimedBlock(c)
  <2>1. ASSUME NEW b \in BlockNames, Goto(c, "createBlock"), blk' = [blk EXCEPT ![c] = b],
               UNCHANGED <<hid, tries, num, cont, rem, list>>
        PROVE  GoesOn
    BY <1>0, <2>1 DEF Goto, LocalTypes, OthersKeep
  <2>2. GoesOn
    BY <1>0, <1>4, <2>1, ReturnStep DEF FindUnclaimedBlock
  <2> QED BY <1>1, <1>4, <2>2 DEF FindUnclaimedBlock
<1>5. CASE IncGet(c)
  <2>1. \A label \in {"incCreate", "incDelete", "incUpdate"} : Fits(label, hid[c], blk[c])
    BY <1>0, <1>5 DEF IncGet, Fits, Labels, PoolLabels, DecLabels, AssignLabels
  <2>2. /\ OthersKeep(c) /\ hid' = hid /\ list' = list
        /\ pc'[c] \in {"incCreate", "incUpdate", "incDelete"}
        /\ pc'[c] = "incDelete" => handles[hid[c]].deleted
        /\ pc'[c] = "incUpdate" => handles[hid[c]] # None /\ ~handles[hid[c]].deleted
    BY <1>0, <1>5, <2>1, GotoStep DEF IncGet, locals
  <2>3. CASE pc'[c] = "incCreate"
    BY <1>1, <1>5, <2>2, <2>3 DEF IncGet
  <2>4. CASE pc'[c] \in {"incDelete", "incUpdate"}
    <3>1. CallCovered(c)'
      BY <1>5, <2>2, <2>4 DEF IncGet, CallCovered
    <3>2. CallReleases(c)'
      BY <1>0, <1>5, <2>2, <2>4 DEF IncGet, SafeInv, CallReleases, Releasing, Assigning,
                                    AssignLabels, ReleaseLabels, DecLabels
    <3>3. CallMarks(c)'
      BY <1>5, <2>2, <2>4, MarksPlain DEF IncGet, SafeInv
    <3> QED BY <1>5, <2>2, <3>1, <3>2, <3>3, SafeQuiet DEF IncGet
  <2> QED BY <2>2, <2>3, <2>4
<1>6. CASE Requery(c)
  <2>0. blk[c] \in BlockNames /\ mid[c] + 1 \in Nat
    BY <1>0, <1>6, LabelFacts DEF Requery
  <2>1. CASE blocks[blk[c]] # None /\ blocks[blk[c]].deleted
    <3>1. Goto(c, "requeryDelete") /\ UNCHANGED <<locals, bfresh>>
      BY <1>6, <2>1 DEF Requery
    <3>2. Fits("requeryDelete", hid[c], blk[c])
      BY <1>0, <2>0 DEF Fits, Labels, PoolLabels, DecLabels, AssignLabels
    <3>3. /\ OthersKeep(c) /\ pc'[c] = "requeryDelete" /\ hid' = hid /\ list' = list
          /\ blk' = blk
      BY <1>0, <3>1, <3>2, GotoStep DEF locals
    <3>4. CallCovered(c)'
      BY <3>3 DEF CallCovered
    <3>5. CallReleases(c)'
      BY <1>0, <1>6, <3>3 DEF Requery, SafeInv, CallReleases, Releasing, Assigning,
                              AssignLabels, ReleaseLabels, DecLabels
    <3>6. CallMarks(c)'
      BY <1>6, <2>0, <2>1, <3>3 DEF Requery, SafeInv, CallMarks, BlocksSafe
    <3> QED BY <1>6, <3>1, <3>3, <3>4, <3>5, <3>6, SafeQuiet DEF Requery
  <2>2. CASE ~(blocks[blk[c]] # None /\ blocks[blk[c]].deleted)
    <3>1. GoesOn
      BY <1>0, <1>6, <2>0, <2>2, TryBlockStep, RetryAssignStep DEF Requery
    <3> QED BY <1>1, <1>6, <3>1 DEF Requery
  <2> QED BY <2>1, <2>2
<1> QED BY <1>2, <1>3, <1>4, <1>5, <1>6

\* Everything recorded for h is counted, so that a handle which counts nothing
\* is recorded nowhere.
LEMMA NothingCounted ==
  ASSUME TypeInv, SafeInv, NEW h \in Handles,
         handles[h] = None \/ handles[h].deleted
  PROVE  \A b \in BlockNames :
           /\ StoredIn(blocks[b], h) = {} /\ Cardinality(StoredIn(blocks[b], h)) = 0
           /\ CountIn(handles[h], b) = 0
<1> TAKE b \in BlockNames
<1>1. HandleSafe(h)
  BY DEF SafeInv
<1>2. CountIn(handles[h], b) = 0
  BY <1>1 DEF HandleSafe, CountIn
<1>3. Cardinality(StoredIn(blocks[b], h)) <= 0
  BY <1>1, <1>2, InTerms DEF HandleSafe
<1> QED BY <1>2, <1>3, StoredFacts

\* Deleting a handle by name is safe when it is marked, or gone.
LEMMA SafeHandleDelete ==
  ASSUME TypeInv, SafeInv, NEW c \in Clients, OthersKeep(c), hid'[c] \in {hid[c], None},
         hid[c] \in Handles, handles[hid[c]] = None \/ handles[hid[c]].deleted,
         WriteHandle(hid[c], None),
         blocks' = blocks, grants' = grants, marked' = marked, bfresh' = bfresh,
         released' = released \/ released' = released \cup {hid[c]},
         CallCovered(c)', CallReleases(c)', CallMarks(c)'
  PROVE  SafeInv'
<1>1. \A b \in BlockNames :
        StoredIn(blocks[b], hid[c]) = {} /\ Cardinality(StoredIn(blocks[b], hid[c])) = 0
  BY NothingCounted
<1>2. \A b \in BlockNames : Cardinality(StoredIn(blocks[b], hid[c])) <= CountIn(None, b)
  BY <1>1 DEF CountIn
<1> QED BY <1>1, <1>2, SafeHandleWrite

\* incrementHandle wrote the handle: the block may be written.
LEMMA SafeIncrement ==
  ASSUME TypeInv, SafeInv, NEW c \in Clients, pc[c] \in {"incCreate", "incUpdate"},
         NEW hd \in Handle, ~hd.deleted,
         \A b \in BlockNames : Cardinality(StoredIn(blocks[b], hid[c])) <= hd.block[b],
         WriteHandle(hid[c], IncrementBlock(hd, blk[c], 1)), Incremented(c),
         UNCHANGED <<blocks, pool, bfresh, history>>
  PROVE  SafeInv'
<1> DEFINE obj == IncrementBlock(hd, blk[c], 1)
<1>0. hid[c] \in Handles /\ blk[c] \in BlockNames /\ LocalTypes /\ Assigning(c)
  BY TypeInvParts, LabelFacts DEF AssignLabels, BlockLabels, Assigning
<1>1. /\ OthersKeep(c) /\ list' = list /\ pc'[c] = "updateBlock" /\ hid' = hid /\ blk' = blk
  BY <1>0, IncrementedStep
<1>2. obj \in Handle /\ obj # None /\ ~obj.deleted
  BY <1>0, HandleTypes, IPAMAssumption DEF IncrementBlock
<1>3. \A b \in BlockNames :
        /\ Cardinality(StoredIn(blocks[b], hid[c])) \in Nat /\ hd.block[b] \in Nat
        /\ CountIn(obj, b) = IF b = blk[c] THEN hd.block[b] + 1 ELSE hd.block[b]
  BY <1>0, <1>2, StoredFacts DEF CountIn, IncrementBlock, Handle
<1> HIDE DEF obj
<1>4. \A b \in BlockNames : Cardinality(StoredIn(blocks[b], hid[c])) <= CountIn(obj, b)
  BY <1>3
<1>5. Cardinality(StoredIn(blocks[blk[c]], hid[c])) + 1 <= CountIn(obj, blk[c])
  BY <1>0, <1>3
<1>6. handles'[hid[c]] = obj
  BY <1>0, <1>2, TypeInvParts, WriteHandleStep DEF obj
<1>7. CallCovered(c)'
  <2>1. /\ Stored(hid[c], blk[c])' = StoredIn(blocks[blk[c]], hid[c])
        /\ Count(hid[c], blk[c])' = CountIn(obj, blk[c])
    BY <1>1, <1>6 DEF Stored, StoredIn, Count, CountIn
  <2> QED BY <1>1, <1>5, <2>1 DEF CallCovered
<1>8. CallReleases(c)'
  BY <1>0, <1>1 DEF SafeInv, history, CallReleases, Releasing, Assigning, AssignLabels,
                    ReleaseLabels, DecLabels
<1>9. CallMarks(c)'
  BY <1>1, MarksPlain DEF SafeInv
<1> QED BY <1>0, <1>1, <1>2, <1>4, <1>7, <1>8, <1>9, SafeHandleWrite DEF history, obj

\* The calls of AutoAssign that write the handle.
LEMMA SafeAssignHandle ==
  ASSUME TypeInv, SafeInv, NEW c \in Clients, IncDelete(c) \/ IncCreate(c) \/ IncUpdate(c)
  PROVE  SafeInv'
<1> USE TypeInvParts DEF store, copies, history
<1>0. hid[c] \in Handles /\ Assigning(c) /\ LocalTypes /\ blk[c] \in BlockNames
  BY LabelFacts DEF IncDelete, IncCreate, IncUpdate, Assigning, AssignLabels, BlockLabels
<1> DEFINE GoesOn ==
      /\ OthersKeep(c) /\ hid'[c] \in {hid[c], None} /\ list'[c] \in {list[c], NoList}
      /\ \/ pc'[c] = "idle"
         \/ pc'[c] \in {"getPool", "incGet"} /\ hid'[c] = hid[c]
<1>1. ASSUME GoesOn, UNCHANGED <<blocks, handles, bfresh, history>>
      PROVE  SafeInv'
  <2>1. CallCovered(c)' /\ CallReleases(c)' /\ CallMarks(c)'
    BY <1>0, <1>1, AssignGoesOn
  <2> QED BY <1>1, <2>1, SafeQuiet
<1>2. CASE IncDelete(c)
  <2>1. Fits("incCreate", hid[c], blk[c])
    BY <1>0 DEF Fits, Labels, PoolLabels, DecLabels, AssignLabels
  <2>2. OthersKeep(c) /\ hid' = hid /\ list' = list /\ pc'[c] = "incCreate"
    BY <1>0, <1>2, <2>1, GotoStep DEF IncDelete, locals
  <2>3. CallCovered(c)' /\ CallReleases(c)' /\ CallMarks(c)'
    BY <1>0, <1>2, <2>2, AssignGoesOn DEF IncDelete
  <2>4. handles[hid[c]] = None \/ handles[hid[c]].deleted
    BY <1>2 DEF IncDelete, SafeInv, CallCovered
  <2> QED BY <1>0, <1>2, <2>2, <2>3, <2>4, SafeHandleDelete DEF IncDelete
<1>3. CASE IncCreate(c)
  <2>1. CASE handles[hid[c]] = None
    <3>1. /\ WriteHandle(hid[c], IncrementBlock(NoHandle, blk[c], 1)) /\ Incremented(c)
          /\ UNCHANGED <<blocks, pool, bfresh, history>> /\ pc[c] = "incCreate"
      BY <1>3, <2>1 DEF IncCreate
    <3>2. NoHandle \in Handle /\ ~NoHandle.deleted
      BY HandleTypes DEF NoHandle
    <3>3. \A b \in BlockNames : Cardinality(StoredIn(blocks[b], hid[c])) = 0
      BY <1>0, <2>1, NothingCounted
    <3>4. \A b \in BlockNames : Cardinality(StoredIn(blocks[b], hid[c])) <= NoHandle.block[b]
      BY <3>3 DEF NoHandle
    <3> QED BY <3>1, <3>2, <3>4, SafeIncrement
  <2>2. CASE handles[hid[c]] # None
    <3>1. GoesOn
      BY <1>0, <1>3, <2>2, RetryIncrementStep DEF IncCreate
    <3> QED BY <1>1, <1>3, <2>2, <3>1 DEF IncCreate
  <2> QED BY <2>1, <2>2
<1>4. CASE IncUpdate(c)
  <2>1. CASE HandleCurrent(c)
    <3>1. /\ WriteHandle(hid[c], IncrementBlock(handles[hid[c]], blk[c], 1)) /\ Incremented(c)
          /\ UNCHANGED <<blocks, pool, bfresh, history>> /\ pc[c] = "incUpdate"
      BY <1>4, <2>1 DEF IncUpdate, HandleConflict, HandleGone
    <3>2. handles[hid[c]] \in Handle /\ handles[hid[c]] # None
      BY <1>0, <2>1 DEF HandleCurrent, CopiesOK, StoreTypes
    <3>3. ~handles[hid[c]].deleted
      BY <3>1 DEF SafeInv, CallCovered
    <3>4. \A b \in BlockNames :
            Cardinality(StoredIn(blocks[b], hid[c])) <= handles[hid[c]].block[b]
      BY <1>0, <3>2, InTerms DEF SafeInv, HandleSafe, CountIn
    <3> QED BY <3>1, <3>2, <3>3, <3>4, SafeIncrement
  <2>2. CASE ~HandleCurrent(c)
    <3>1. GoesOn
      BY <1>0, <1>4, <2>2, RetryIncrementStep, RetryAssignStep DEF IncUpdate
    <3> QED BY <1>1, <1>4, <2>2, <3>1 DEF IncUpdate
  <2> QED BY <2>1, <2>2
<1> QED BY <1>2, <1>3, <1>4

\* The calls of AutoAssign that write a block.
LEMMA SafeAssignBlock ==
  ASSUME TypeInv, SafeInv, NEW c \in Clients,
         CreateBlock(c) \/ UpdateBlock(c) \/ RequeryDelete(c)
  PROVE  SafeInv'
<1> USE TypeInvParts DEF store, copies, history
<1>0. hid[c] \in Handles /\ Assigning(c) /\ LocalTypes /\ blk[c] \in BlockNames
  BY LabelFacts DEF CreateBlock, UpdateBlock, RequeryDelete, Assigning, AssignLabels, BlockLabels
<1> DEFINE b == blk[c]
           h == hid[c]
<1>1. /\ h \notin released
      /\ Cardinality(StoredIn(blocks[b], h)) \in Nat /\ CountIn(handles[h], b) \in Nat
  <2>1. h \notin released
    BY <1>0 DEF SafeInv, CallReleases
  <2> QED BY <1>0, <2>1, StoredFacts DEF StoreTypes, CountIn, Handle
<1>2. CASE CreateBlock(c)
  <2>1. CASE blocks[b] # None
    <3>1. Goto(c, "panic") /\ UNCHANGED <<blocks, bfresh, locals>>
      BY <1>2, <2>1 DEF CreateBlock
    <3>2. Fits("panic", hid[c], blk[c])
      BY <1>0 DEF Fits, Labels, PoolLabels, DecLabels, AssignLabels
    <3>3. OthersKeep(c) /\ hid' = hid /\ list' = list /\ pc'[c] = "panic"
      BY <1>0, <3>1, <3>2, GotoStep DEF locals
    <3>4. CallCovered(c)' /\ CallReleases(c)' /\ CallMarks(c)'
      BY <1>0, <1>2, <3>3, AssignGoesOn DEF CreateBlock
    <3> QED BY <1>0, <1>2, <3>1, <3>3, <3>4, SafeQuiet DEF CreateBlock
  <2>2. CASE blocks[b] = None
    <3>1. /\ blocks' = [blocks EXCEPT ![b] = NewBlock] /\ TryBlock(c, b, NewBlock, 0)
          /\ bfresh' = {p \in bfresh : p[2] # b} \cup {<<c, b>>}
          /\ UNCHANGED <<handles, pool, hfresh, grants, marked, released>>
      BY <1>2, <2>2 DEF CreateBlock
    <3>2. /\ blocks'[b] = NewBlock /\ \A a \in BlockNames : a # b => blocks'[a] = blocks[a]
          /\ \A p \in bfresh' : (p \in bfresh /\ p[2] # b) \/ p[1] = c
      BY <1>0, <3>1 DEF StoreTypes
    <3>3. /\ OthersKeep(c) /\ hid'[c] \in {hid[c], None} /\ list'[c] \in {list[c], NoList}
          /\ \/ pc'[c] = "idle"
             \/ pc'[c] \in {"getPool", "incGet"} /\ hid'[c] = hid[c]
      BY <1>0, <3>1, TryBlockStep
    <3>4. CallCovered(c)' /\ CallReleases(c)' /\ CallMarks(c)'
      BY <1>0, <3>1, <3>3, AssignGoesOn
    <3>5. NewBlock \in Block /\ ~NewBlock.deleted
      BY BlockTypes DEF NewBlock
    <3>6. \A g \in Handles : StoredIn(NewBlock, g) = {}
      BY <3>5, StoredAfter
    <3>7. BlocksSafe'
      <4>1. b \notin marked => \A x \in grants : x.blk = b => x.ord \in StoredIn(NewBlock, x.handle)
        BY <2>2 DEF SafeInv, BlocksSafe, GrantsRecorded, Stored
      <4> HIDE DEF b
      <4> QED BY <1>0, <3>1, <3>2, <3>5, <4>1, BlocksSafeWrite DEF StoreTypes, b
    <3>8. Cardinality(StoredIn(NewBlock, h)) <= CountIn(handles[h], b)
      BY <1>0, <1>1, <3>6, FS_EmptySet
    <3> QED BY <1>0, <1>1, <3>1, <3>2, <3>3, <3>4, <3>5, <3>6, <3>7, <3>8, SafeBlockWrite
  <2> QED BY <2>1, <2>2
<1>3. CASE UpdateBlock(c)
  <2>0. Cardinality(StoredIn(blocks[b], h)) + 1 <= CountIn(handles[h], b)
    BY <1>3, InTerms DEF UpdateBlock, SafeInv, CallCovered
  <2>1. CASE BlockCurrent(c)
    <3>1. PICK o \in FreeOrdinals(blocks[b]) :
            /\ WriteBlock(b, Assign(blocks[b], o, h))
            /\ grants' = grants \cup {[handle |-> h, blk |-> b, ord |-> o]}
      BY <1>3, <2>1 DEF UpdateBlock, BlockConflict, BlockGone
    <3>2. Return(c) /\ UNCHANGED <<handles, pool, hfresh, marked, released>>
      BY <1>3, <2>1 DEF UpdateBlock, BlockConflict, BlockGone
    <3> DEFINE obj == Assign(blocks[b], o, h)
    <3>3. blocks[b] \in Block /\ blocks[b] # None /\ o \in Ordinals
      BY <1>0, <2>1 DEF BlockCurrent, CopiesOK, StoreTypes, FreeOrdinals
    <3>4. obj \in Block /\ obj.deleted = blocks[b].deleted
      BY <1>0, <3>3, BlockTypes DEF Assign
    <3>5. /\ StoredIn(obj, h) = StoredIn(blocks[b], h) \cup {o}
          /\ \A g \in Handles : g # h => StoredIn(obj, g) = StoredIn(blocks[b], g)
          /\ Cardinality(StoredIn(obj, h)) <= Cardinality(StoredIn(blocks[b], h)) + 1
          /\ Cardinality(StoredIn(obj, h)) \in Nat
      BY <1>0, <3>3, StoredAfter, AssignCounts, StoredFacts
    <3> HIDE DEF obj
    <3>6. /\ blocks'[b] = obj /\ \A a \in BlockNames : a # b => blocks'[a] = blocks[a]
          /\ \A p \in bfresh' : p \in bfresh /\ p[2] # b
      BY <1>0, <3>1, <3>4, WriteBlockStep DEF obj
    <3>7. OthersKeep(c) /\ hid'[c] = None /\ pc'[c] = "idle" /\ list'[c] = NoList
      BY <1>0, <3>2, ReturnStep
    <3>8. CallCovered(c)' /\ CallReleases(c)' /\ CallMarks(c)'
      BY <3>7, Returned
    <3>9. BlocksSafe'
      <4>1. grants' \subseteq Grant
        BY <1>0, <3>1, <3>3 DEF StoreTypes, Grant
      <4>2. ASSUME NEW x \in grants', x.blk = b, b \notin marked
            PROVE  x.ord \in StoredIn(obj, x.handle)
        <5>1. CASE x \in grants
          <6>1. x.ord \in StoredIn(blocks[b], x.handle) /\ x.handle \in Handles
            BY <4>2, <5>1, InTerms DEF SafeInv, BlocksSafe, GrantsRecorded, StoreTypes, Grant
          <6> QED BY <3>5, <6>1
        <5>2. CASE x = [handle |-> h, blk |-> b, ord |-> o]
          BY <3>5, <5>2
        <5> QED BY <3>1, <5>1, <5>2
      <4>3. obj.deleted => b \in marked
        BY <1>0, <3>3, <3>4 DEF SafeInv, BlocksSafe
      <4>4. \A x \in grants' : x.blk # b => x \in grants
        BY <3>1
      <4> HIDE DEF b
      <4> QED BY <1>0, <3>2, <3>6, <4>1, <4>2, <4>3, <4>4, BlocksSafeWrite DEF b
    <3>10. Cardinality(StoredIn(obj, h)) <= CountIn(handles[h], b)
      BY <1>1, <2>0, <3>5
    <3>11. \A x \in grants' : x \in grants \/ x.handle = hid[c]
      BY <3>1
    <3>12. /\ hid'[c] \in {hid[c], None} /\ handles' = handles /\ marked \subseteq marked'
           /\ released' = released /\ hid[c] \notin released
           /\ \A p \in bfresh' : (p \in bfresh /\ p[2] # b) \/ p[1] = c
           /\ \A g \in Handles : g # hid[c] => StoredIn(obj, g) \subseteq StoredIn(blocks[b], g)
      BY <1>1, <3>2, <3>5, <3>6, <3>7
    <3>13. b \in BlockNames /\ obj \in Block \cup {None}
      BY <1>0, <3>4
    <3>14. hid[c] \in Handles =>
             Cardinality(StoredIn(obj, hid[c])) <= CountIn(handles[hid[c]], b)
      BY <3>10
    <3> HIDE DEF b, h
    <3> QED BY <3>6, <3>7, <3>8, <3>9, <3>11, <3>12, <3>13, <3>14, SafeBlockWrite
  <2>2. CASE ~BlockCurrent(c)
    <3>1. PICK then \in {"requery", "retry"} : StartDec(c, 1, then)
      BY <1>3, <2>2 DEF UpdateBlock
    <3>2. UNCHANGED <<blocks, bfresh, grants, handles, pool, hfresh, marked, released>>
      BY <1>3, <2>2 DEF UpdateBlock
    <3>3. /\ OthersKeep(c) /\ hid'[c] = hid[c]
          /\ CallCovered(c)' /\ CallReleases(c)' /\ CallMarks(c)'
      BY <1>0, <1>3, <2>0, <3>1, <3>2, StartDecGoesOn DEF UpdateBlock, AssignLabels
    <3> QED BY <3>2, <3>3, SafeQuiet
  <2> QED BY <2>1, <2>2
<1>4. CASE RequeryDelete(c)
  <2>1. /\ OthersKeep(c) /\ hid'[c] \in {hid[c], None} /\ list'[c] = NoList
        /\ \/ pc'[c] = "idle"
           \/ pc'[c] = "getPool" /\ hid'[c] = hid[c]
    BY <1>0, <1>4, RetryAssignStep DEF RequeryDelete
  <2>2. CallCovered(c)' /\ CallReleases(c)' /\ CallMarks(c)'
    BY <1>0, <1>4, <2>1, AssignGoesOn DEF RequeryDelete
  <2>3. b \in marked
    BY <1>4 DEF RequeryDelete, SafeInv, CallMarks
  <2> QED BY <1>0, <1>4, <2>1, <2>2, <2>3, SafeBlockDelete DEF RequeryDelete
<1> QED BY <1>2, <1>3, <1>4

\* decrementHandle goes on to its own next call.
LEMMA DecStays ==
  ASSUME SafeInv, NEW c \in Clients, pc[c] \in DecLabels, pc'[c] \in DecLabels,
         hid'[c] = hid[c], blk'[c] = blk[c], cont'[c] = cont[c], rem'[c] = rem[c],
         list'[c] = list[c], blocks' = blocks, grants' = grants, released' = released
  PROVE  CallReleases(c)' /\ CallMarks(c)'
<1>1. \A b \in BlockNames : Stored(hid[c], b)' = Stored(hid[c], b)
  BY DEF Stored
<1>2. CallReleases(c) /\ CallMarks(c)
  BY DEF SafeInv
<1>3. CallReleases(c)'
  BY <1>1, <1>2 DEF CallReleases, Releasing, Assigning, AssignLabels, ReleaseLabels, DecLabels
<1>4. CallMarks(c)'
  BY <1>2, MarksPlain DEF DecLabels
<1> QED BY <1>3, <1>4

\* The calls of decrementHandle.
LEMMA SafeDecrement ==
  ASSUME TypeInv, SafeInv, NEW c \in Clients,
         DecGet(c) \/ DecQueryDelete(c) \/ DecPut(c) \/ DecDelete(c)
  PROVE  SafeInv'
<1> USE TypeInvParts DEF store, copies, history
<1>0. /\ pc[c] \in DecLabels /\ hid[c] \in Handles /\ blk[c] \in BlockNames
      /\ num[c] \in Nat /\ LocalTypes
  BY LabelFacts DEF DecGet, DecQueryDelete, DecPut, DecDelete, DecLabels, BlockLabels
<1>1. \A label \in DecLabels : Fits(label, hid[c], blk[c])
  BY <1>0 DEF Fits, Labels, PoolLabels, DecLabels
<1>2. ASSUME DecDone(c), blocks' = blocks, handles' = handles, grants' = grants,
             marked' = marked, bfresh' = bfresh
      PROVE  SafeInv'
  BY <1>0, <1>2, DecGoesOn, SafeQuiet
<1>3. ASSUME DecDone(c), blocks' = blocks, WriteHandle(hid[c], None), grants' = grants,
             marked' = marked, bfresh' = bfresh, pc[c] \in {"decQueryDelete", "decDelete"}
      PROVE  SafeInv'
  <2>1. handles[hid[c]] = None \/ handles[hid[c]].deleted
    BY <1>3 DEF SafeInv, CallCovered
  <2> QED BY <1>0, <1>3, <2>1, DecGoesOn, SafeHandleDelete
<1>4. CASE DecGet(c)
  <2>1. CASE DecDone(c)
    BY <1>2, <1>4, <2>1 DEF DecGet
  <2>2. CASE /\ handles[hid[c]] # None /\ handles[hid[c]].deleted /\ Goto(c, "decQueryDelete")
             /\ UNCHANGED <<locals, hfresh, released>>
    <3>1. OthersKeep(c) /\ pc'[c] = "decQueryDelete" /\ UNCHANGED locals
      BY <1>0, <1>1, <2>2, GotoStep DEF DecLabels
    <3>2. CallReleases(c)' /\ CallMarks(c)'
      BY <1>0, <1>4, <2>2, <3>1, DecStays DEF DecGet, locals, DecLabels
    <3>3. CallCovered(c)'
      BY <1>4, <2>2, <3>1 DEF DecGet, locals, CallCovered
    <3> QED BY <1>4, <2>2, <3>1, <3>2, <3>3, SafeQuiet DEF DecGet, locals
  <2>3. CASE /\ Goto(c, "decPut") /\ UNCHANGED <<locals, released>>
    <3>1. OthersKeep(c) /\ pc'[c] = "decPut" /\ UNCHANGED locals
      BY <1>0, <1>1, <2>3, GotoStep DEF DecLabels
    <3>2. CallReleases(c)' /\ CallMarks(c)'
      BY <1>0, <1>4, <2>3, <3>1, DecStays DEF DecGet, locals, DecLabels
    <3>3. CallCovered(c)'
      <4>1. Cardinality(Stored(hid[c], blk[c])) + num[c] <= Count(hid[c], blk[c])
        BY <1>4 DEF DecGet, SafeInv, CallCovered
      <4>2. /\ Stored(hid[c], blk[c])' = Stored(hid[c], blk[c])
            /\ Count(hid[c], blk[c])' = Count(hid[c], blk[c]) /\ num' = num
        BY <1>4, <3>1 DEF DecGet, locals, Stored, Count
      <4> QED BY <3>1, <4>1, <4>2 DEF CallCovered
    <3> QED BY <1>4, <2>3, <3>1, <3>2, <3>3, SafeQuiet DEF DecGet, locals
  <2> QED BY <1>4, <2>1, <2>2, <2>3 DEF DecGet
<1>5. CASE DecQueryDelete(c)
  BY <1>3, <1>5 DEF DecQueryDelete
<1>6. CASE DecDelete(c)
  BY <1>3, <1>6 DEF DecDelete
<1>7. CASE DecPut(c)
  <2> DEFINE hd == DecrementBlock(handles[hid[c]], blk[c], num[c])
  <2>1. CASE HandleCurrent(c)
    <3>1. handles[hid[c]] \in Handle /\ num[c] <= handles[hid[c]].block[blk[c]]
      BY <1>0, <1>7, <2>1 DEF DecPut, HandleCurrent, CopiesOK, StoreTypes
    <3>2. hd \in Handle /\ MarkHandle(hd) \in Handle
      BY <1>0, <3>1, HandleTypes
    <3>3. /\ hd # None /\ MarkHandle(hd) # None /\ handles[hid[c]] # None
          /\ MarkHandle(hd).block = hd.block /\ MarkHandle(hd).deleted = TRUE
          /\ hd.deleted = handles[hid[c]].deleted
          /\ \A b \in BlockNames : hd.block[b] =
               IF b = blk[c] THEN handles[hid[c]].block[b] - num[c] ELSE handles[hid[c]].block[b]
      BY <1>0, <3>1, <3>2, IPAMAssumption DEF MarkHandle, DecrementBlock, Handle
    <3>4. \A b \in BlockNames : Cardinality(StoredIn(blocks[b], hid[c])) <= hd.block[b]
      <4>1. ASSUME NEW b \in BlockNames
            PROVE  /\ Cardinality(StoredIn(blocks[b], hid[c])) <= CountIn(handles[hid[c]], b)
                   /\ Cardinality(StoredIn(blocks[b], hid[c])) \in Nat
                   /\ CountIn(handles[hid[c]], b) = handles[hid[c]].block[b]
                   /\ handles[hid[c]].block[b] \in Nat
        BY <1>0, <3>1, <3>3, InTerms, StoredFacts DEF SafeInv, HandleSafe, CountIn, Handle
      <4>2. Cardinality(StoredIn(blocks[blk[c]], hid[c])) + num[c]
              <= CountIn(handles[hid[c]], blk[c])
        BY <1>7, InTerms DEF DecPut, SafeInv, CallCovered
      <4> QED BY <1>0, <3>3, <4>1, <4>2
    <3> HIDE DEF hd
    <3>5. \A b \in BlockNames : /\ Cardinality(StoredIn(blocks[b], hid[c])) <= CountIn(hd, b)
                                /\ Cardinality(StoredIn(blocks[b], hid[c]))
                                     <= CountIn(MarkHandle(hd), b)
      BY <3>3, <3>4 DEF CountIn
    <3>6. CASE HandleEmpty(hd) /\ WriteHandle(hid[c], MarkHandle(hd)) /\ Goto(c, "decDelete")
               /\ UNCHANGED <<locals, released>>
      <4>1. OthersKeep(c) /\ pc'[c] = "decDelete" /\ UNCHANGED locals
        BY <1>0, <1>1, <3>6, GotoStep DEF DecLabels
      <4>2. CallReleases(c)' /\ CallMarks(c)'
        BY <1>0, <1>7, <3>6, <4>1, DecStays DEF DecPut, locals, DecLabels
      <4>3. handles'[hid[c]] = MarkHandle(hd)
        BY <1>0, <3>2, <3>6, WriteHandleStep
      <4>4. CallCovered(c)'
        BY <3>3, <4>1, <4>3 DEF locals, CallCovered
      <4>5. \A b \in BlockNames : MarkHandle(hd).block[b] = 0
        BY <3>3, <3>6 DEF HandleEmpty
      <4>6. UNCHANGED <<blocks, bfresh, grants, marked, released>> /\ hid'[c] = hid[c]
        BY <1>7, <3>6, <4>1 DEF DecPut, locals
      <4> QED BY <1>0, <3>2, <3>5, <3>6, <4>1, <4>2, <4>4, <4>5, <4>6, SafeHandleWrite
    <3>7. CASE WriteHandle(hid[c], hd) /\ DecDone(c)
      <4>1. UNCHANGED <<blocks, bfresh, grants, marked>>
        BY <1>7 DEF DecPut
      <4>2. hd.deleted => \A b \in BlockNames : hd.block[b] = 0
        <5>1. handles[hid[c]].deleted => \A b \in BlockNames : handles[hid[c]].block[b] = 0
          BY <1>0, <3>3 DEF SafeInv, HandleSafe
        <5> QED BY <1>0, <3>1, <3>3, <5>1
      <4>3. /\ OthersKeep(c) /\ hid'[c] \in {hid[c], None}
            /\ \/ released' = released
               \/ /\ released' = released \cup {hid[c]}
                  /\ \A b \in BlockNames : StoredIn(blocks[b], hid[c]) = {}
            /\ CallCovered(c)' /\ CallReleases(c)' /\ CallMarks(c)'
        BY <1>0, <3>7, <4>1, DecGoesOn
      <4> QED BY <1>0, <3>2, <3>5, <3>7, <4>1, <4>2, <4>3, SafeHandleWrite
    <3> QED BY <1>7, <2>1, <3>6, <3>7 DEF DecPut, HandleConflict, HandleGone, hd
  <2>2. CASE ~HandleCurrent(c)
    <3>1. UNCHANGED <<handles, hfresh, blocks, bfresh, grants, marked>>
      BY <1>7, <2>2 DEF DecPut
    <3>2. CASE DecDone(c)
      BY <1>2, <3>1, <3>2
    <3>3. CASE /\ Goto(c, "decGet") /\ inner' = [inner EXCEPT ![c] = @ + 1]
               /\ UNCHANGED <<hid, blk, outer, mid, num, cont, rem, list, released>>
      <4>1. OthersKeep(c) /\ pc'[c] = "decGet"
        BY <1>0, <3>3 DEF Goto, LocalTypes, OthersKeep
      <4>2. CallReleases(c)' /\ CallMarks(c)'
        BY <1>0, <3>1, <3>3, <4>1, DecStays DEF DecLabels
      <4>3. CallCovered(c)'
        <5>1. Cardinality(Stored(hid[c], blk[c])) + num[c] <= Count(hid[c], blk[c])
          BY <1>7 DEF DecPut, SafeInv, CallCovered
        <5>2. /\ Stored(hid[c], blk[c])' = Stored(hid[c], blk[c])
              /\ Count(hid[c], blk[c])' = Count(hid[c], blk[c])
          BY <3>1, <3>3 DEF Stored, Count
        <5> QED BY <3>3, <4>1, <5>1, <5>2 DEF CallCovered
      <4> QED BY <3>1, <3>3, <4>1, <4>2, <4>3, SafeQuiet
    <3> QED BY <1>7, <2>2, <3>2, <3>3 DEF DecPut
  <2> QED BY <2>1, <2>2
<1> QED BY <1>4, <1>5, <1>6, <1>7

\* ReleaseByHandle stays with its block, which may only have lost addresses.
LEMMA ReleaseStays ==
  ASSUME SafeInv, NEW c \in Clients, pc[c] \in ReleaseLabels \ {"relHandle", "relHandleDelete"},
         pc'[c] \in ReleaseLabels \ {"relHandle", "relHandleDelete"},
         hid'[c] = hid[c], blk'[c] = blk[c], rem'[c] = rem[c], grants' = grants,
         released' = released,
         \A b \in BlockNames : b # blk[c] => blocks'[b] = blocks[b]
  PROVE  CallReleases(c)'
<1>1. \A b \in BlockNames : b # blk[c] => Stored(hid[c], b)' = Stored(hid[c], b)
  BY DEF Stored
<1>2. CallReleases(c)
  BY DEF SafeInv
<1> QED BY <1>1, <1>2 DEF CallReleases, Releasing, Assigning, AssignLabels, ReleaseLabels,
                          DecLabels

\* What a call of ReleaseByHandle has at hand.
LEMMA ReleaseFacts ==
  ASSUME TypeInv, SafeInv, NEW c \in Clients, pc[c] \in ReleaseLabels
  PROVE  /\ hid[c] \in Handles /\ LocalTypes /\ released \subseteq Handles /\ num[c] \in Nat
         /\ rem[c] \in SUBSET BlockNames /\ pc[c] \notin {"poolMark", "poolDelete"}
         /\ pc[c] \in BlockLabels => blk[c] \in BlockNames
         /\ \A g \in grants : g.handle # hid[c]
         /\ pc[c] \notin {"relHandle", "relHandleDelete"} =>
              \A b \in BlockNames :
                b \notin rem[c] /\ b # blk[c] => StoredIn(blocks[b], hid[c]) = {}
<1>1. /\ hid[c] \in Handles /\ LocalTypes /\ released \subseteq Handles /\ num[c] \in Nat
      /\ rem[c] \in SUBSET BlockNames
      /\ pc[c] \in BlockLabels => blk[c] \in BlockNames
  BY TypeInvParts, LabelFacts DEF StoreTypes
<1>2. CallReleases(c)
  BY DEF SafeInv
<1>3. \A g \in grants : g.handle # hid[c]
  BY <1>2 DEF CallReleases, Releasing, ReleaseLabels
<1>4. pc[c] \notin {"relHandle", "relHandleDelete"} =>
        \A b \in BlockNames :
          b \notin rem[c] /\ b # blk[c] => StoredIn(blocks[b], hid[c]) = {}
  BY <1>2, InTerms DEF CallReleases, Releasing
<1> QED BY <1>1, <1>3, <1>4 DEF ReleaseLabels

\* The calls of ReleaseByHandle on the handle.
LEMMA SafeReleaseHandle ==
  ASSUME TypeInv, SafeInv, NEW c \in Clients, RelHandle(c) \/ RelHandleDelete(c)
  PROVE  SafeInv'
<1> USE TypeInvParts DEF store, copies, history
<1> DEFINE h == hid[c]
<1>0. /\ pc[c] \in ReleaseLabels /\ h \in Handles /\ LocalTypes
      /\ \A g \in grants : g.handle # h
  BY ReleaseFacts DEF RelHandle, RelHandleDelete, ReleaseLabels
<1>1. CASE RelHandle(c)
  <2>1. UNCHANGED <<blocks, handles, bfresh, hfresh, grants, marked>>
    BY <1>1 DEF RelHandle
  <2>2. ASSUME NEW r \in SUBSET BlockNames, NextBlock(c, r),
               \A b \in BlockNames : b \notin r => StoredIn(blocks[b], h) = {}
        PROVE  SafeInv'
    BY <1>0, <2>1, <2>2, NextGoesOn, SafeQuiet
  <2>3. CASE handles[h] = None
    BY <1>0, <1>1, <2>2, <2>3, NothingCounted DEF RelHandle
  <2>4. CASE handles[h] # None /\ handles[h].deleted
    <3>1. Goto(c, "relHandleDelete") /\ UNCHANGED <<locals, released>>
      BY <1>1, <2>4 DEF RelHandle
    <3>2. Fits("relHandleDelete", hid[c], blk[c])
      BY <1>0 DEF Fits, Labels, PoolLabels, DecLabels, ReleaseLabels, BlockLabels
    <3>3. OthersKeep(c) /\ pc'[c] = "relHandleDelete" /\ UNCHANGED locals
      BY <1>0, <3>1, <3>2, GotoStep
    <3>4. CallCovered(c)'
      BY <2>1, <2>4, <3>3 DEF locals, CallCovered
    <3>5. CallReleases(c)'
      BY <1>0, <2>1, <3>1, <3>3 DEF locals, CallReleases, Releasing, Assigning, AssignLabels,
                                    ReleaseLabels, DecLabels
    <3>6. CallMarks(c)'
      BY <1>1, <3>3, MarksPlain DEF RelHandle, SafeInv, locals
    <3> QED BY <2>1, <3>1, <3>3, <3>4, <3>5, <3>6, SafeQuiet DEF locals
  <2>5. CASE handles[h] # None /\ ~handles[h].deleted
    <3> DEFINE r == {b \in BlockNames : handles[h].block[b] > 0}
    <3>1. ASSUME NEW b \in BlockNames, b \notin r PROVE StoredIn(blocks[b], h) = {}
      <4>1. Cardinality(StoredIn(blocks[b], h)) <= handles[h].block[b]
        BY <1>0, <2>5, InTerms DEF SafeInv, HandleSafe, CountIn
      <4>2. handles[h].block[b] = 0
        BY <1>0, <2>5, <3>1 DEF StoreTypes, Handle
      <4> QED BY <4>1, <4>2, StoredFacts
    <3>2. NextBlock(c, r)
      BY <1>1, <2>5 DEF RelHandle
    <3> HIDE DEF r
    <3>3. r \in SUBSET BlockNames
      BY DEF r
    <3> QED BY <2>2, <3>1, <3>2, <3>3
  <2> QED BY <2>3, <2>4, <2>5
<1>2. CASE RelHandleDelete(c)
  <2>1. handles[h] = None \/ handles[h].deleted
    BY <1>2 DEF RelHandleDelete, SafeInv, CallCovered
  <2>2. \A b \in BlockNames : StoredIn(blocks'[b], h) = {}
    BY <1>0, <1>2, <2>1, NothingCounted DEF RelHandleDelete
  <2>3. /\ OthersKeep(c) /\ hid'[c] \in {hid[c], None}
        /\ released' = released \/ released' = released \cup {hid[c]}
        /\ CallCovered(c)' /\ CallReleases(c)' /\ CallMarks(c)'
    BY <1>0, <1>2, <2>2, NextGoesOn DEF RelHandleDelete
  <2> QED BY <1>0, <1>2, <2>1, <2>3, SafeHandleDelete DEF RelHandleDelete
<1> QED BY <1>1, <1>2

\* releaseByHandle reads a block.
LEMMA SafeReleaseGet ==
  ASSUME TypeInv, SafeInv, NEW c \in Clients, RelGet(c)
  PROVE  SafeInv'
<1> USE TypeInvParts DEF store, copies, history
<1> DEFINE h == hid[c]
           b == blk[c]
<1>0. /\ pc[c] = "relGet" /\ pc[c] \in ReleaseLabels /\ h \in Handles /\ LocalTypes
      /\ b \in BlockNames /\ \A g \in grants : g.handle # h
      /\ \A a \in BlockNames : a \notin rem[c] /\ a # b => StoredIn(blocks[a], h) = {}
      /\ rem[c] \in SUBSET BlockNames
  BY ReleaseFacts DEF RelGet, ReleaseLabels, BlockLabels
<1>1. UNCHANGED <<blocks, handles, hfresh, grants, marked>>
  BY DEF RelGet
<1>2. ASSUME StoredIn(blocks[b], h) = {}, NextBlock(c, rem[c]), bfresh' = bfresh
      PROVE  SafeInv'
  <2>1. \A a \in BlockNames : a \notin rem[c] => StoredIn(blocks'[a], h) = {}
    BY <1>0, <1>1, <1>2
  <2> QED BY <1>0, <1>1, <1>2, <2>1, NextGoesOn, SafeQuiet
<1>3. CASE blocks[b] = None
  BY <1>2, <1>3 DEF RelGet, StoredIn
<1>4. CASE blocks[b] # None /\ ~blocks[b].deleted /\ OwnedBy(blocks[b], h) = {}
  BY <1>2, <1>4 DEF RelGet, StoredIn
<1>5. CASE blocks[b] # None /\ blocks[b].deleted
  <2>1. Goto(c, "relGetDelete") /\ UNCHANGED <<locals, bfresh, released>>
    BY <1>5 DEF RelGet
  <2>2. Fits("relGetDelete", hid[c], blk[c])
    BY <1>0 DEF Fits, Labels, PoolLabels, DecLabels, ReleaseLabels
  <2>3. OthersKeep(c) /\ pc'[c] = "relGetDelete" /\ UNCHANGED locals
    BY <1>0, <2>1, <2>2, GotoStep
  <2>4. CallCovered(c)'
    BY <2>3 DEF CallCovered
  <2>5. CallReleases(c)'
    BY <1>0, <1>1, <2>1, <2>3, ReleaseStays DEF locals, ReleaseLabels
  <2>6. CallMarks(c)'
    <3>1. b \in marked
      BY <1>0, <1>5 DEF SafeInv, BlocksSafe
    <3>2. CallMarks(c)
      BY DEF SafeInv
    <3> QED BY <1>0, <1>1, <2>1, <2>3, <3>1, <3>2 DEF locals, CallMarks
  <2> QED BY <1>1, <2>1, <2>3, <2>4, <2>5, <2>6, SafeQuiet DEF locals
<1>6. CASE blocks[b] # None /\ ~blocks[b].deleted /\ OwnedBy(blocks[b], h) # {}
  <2>1. /\ Goto(c, IF Empty(Release(blocks[b], h)) THEN "relMark" ELSE "relUpdate")
        /\ num' = [num EXCEPT ![c] = Cardinality(OwnedBy(blocks[b], h))]
        /\ bfresh' = bfresh \cup {<<c, b>>}
        /\ UNCHANGED <<hid, blk, cont, rem, list, released>>
    BY <1>6 DEF RelGet, tries
  <2>2. /\ OthersKeep(c) /\ pc'[c] \in {"relMark", "relUpdate"}
        /\ pc'[c] = "relMark" => Empty(Release(blocks[b], h))
        /\ num'[c] = Cardinality(StoredIn(blocks[b], h))
    BY <1>0, <1>6, <2>1 DEF Goto, LocalTypes, OthersKeep, StoredIn
  <2>3. CallCovered(c)'
    <3>1. Cardinality(StoredIn(blocks[b], h)) <= CountIn(handles[h], b)
      BY <1>0, InTerms DEF SafeInv, HandleSafe
    <3>2. Count(hid[c], blk[c])' = CountIn(handles[h], b)
      BY <1>1, <2>1 DEF Count, CountIn
    <3> QED BY <2>1, <2>2, <3>1, <3>2 DEF CallCovered
  <2>4. CallReleases(c)'
    BY <1>0, <1>1, <2>1, <2>2, ReleaseStays DEF ReleaseLabels
  <2>5. CallMarks(c)'
    <3>1. \A a \in BlockNames : list'[c][a] = "none"
      BY <1>0, <2>1 DEF SafeInv, CallMarks
    <3> QED BY <1>1, <2>1, <2>2, <3>1 DEF CallMarks
  <2>6. \A p \in bfresh' : p \in bfresh \/ p[1] = c
    BY <2>1
  <2> QED BY <1>1, <2>1, <2>2, <2>3, <2>4, <2>5, <2>6, SafeQuiet
<1> QED BY <1>3, <1>4, <1>5, <1>6

\* releaseByHandle starts over on its block, or gives up.
LEMMA SafeRetryRelease ==
  ASSUME TypeInv, SafeInv, NEW c \in Clients, pc[c] \in {"relMark", "relUpdate"},
         RetryRelease(c) \/ Return(c), UNCHANGED <<blocks, handles, bfresh, history>>
  PROVE  SafeInv'
<1>0. /\ hid[c] \in Handles /\ LocalTypes /\ blk[c] \in BlockNames
  BY ReleaseFacts DEF ReleaseLabels, BlockLabels
<1>1. /\ OthersKeep(c) /\ list'[c] \in {list[c], NoList}
      /\ \/ pc'[c] = "idle" /\ hid'[c] = None
         \/ pc'[c] = "relGet" /\ hid' = hid /\ blk' = blk /\ rem' = rem
  BY <1>0, RetryReleaseStep, ReturnStep
<1>2. CallCovered(c)'
  BY <1>1 DEF CallCovered
<1>3. CallReleases(c)'
  <2>1. CASE pc'[c] = "relGet"
    BY <1>1, <2>1, ReleaseStays DEF ReleaseLabels, history
  <2>2. CASE pc'[c] = "idle"
    BY <2>2 DEF CallReleases, Releasing, Assigning, AssignLabels, ReleaseLabels, DecLabels
  <2> QED BY <1>1, <2>1, <2>2
<1>4. CallMarks(c)'
  BY <1>1, MarksPlain DEF SafeInv
<1> QED BY <1>1, <1>2, <1>3, <1>4, SafeQuiet DEF history

\* The calls of releaseByHandle that write or delete its block.
LEMMA SafeReleaseBlock ==
  ASSUME TypeInv, SafeInv, NEW c \in Clients,
         RelGetDelete(c) \/ RelMark(c) \/ RelDelete(c) \/ RelUpdate(c)
  PROVE  SafeInv'
<1> USE TypeInvParts DEF store, copies, history
<1> DEFINE h == hid[c]
           b == blk[c]
<1>0. /\ pc[c] \in ReleaseLabels \ {"relHandle", "relHandleDelete"} /\ h \in Handles
      /\ LocalTypes /\ b \in BlockNames /\ num[c] \in Nat /\ rem[c] \in SUBSET BlockNames
      /\ \A g \in grants : g.handle # h
      /\ \A a \in BlockNames : a \notin rem[c] /\ a # b => StoredIn(blocks[a], h) = {}
  BY ReleaseFacts DEF RelGetDelete, RelMark, RelDelete, RelUpdate, ReleaseLabels, BlockLabels
<1>1. pc[c] \in {"relMark", "relDelete", "relUpdate"} => num[c] <= CountIn(handles[h], b)
  BY InTerms DEF SafeInv, CallCovered
<1>2. \A g : StoredIn(None, g) = {} /\ Cardinality(StoredIn(None, g)) = 0
  BY FS_EmptySet DEF StoredIn
<1>3. CountIn(handles[h], b) \in Nat
  BY <1>0 DEF StoreTypes, CountIn, Handle
\* The block has been written without the handle's addresses, or is gone.
<1>4. ASSUME pc[c] \in {"relMark", "relDelete", "relUpdate"},
             StoredIn(blocks'[b], h) = {}, StartDec(c, num[c], "release"),
             \A a \in BlockNames : a # b => blocks'[a] = blocks[a],
             UNCHANGED <<handles, grants, released>>
      PROVE  /\ OthersKeep(c) /\ hid'[c] = hid[c]
             /\ CallCovered(c)' /\ CallReleases(c)' /\ CallMarks(c)'
  <2>1. Cardinality(StoredIn(blocks'[b], h)) + num[c] <= CountIn(handles[h], b)
    BY <1>0, <1>1, <1>3, <1>4, FS_EmptySet
  <2>2. \A a \in BlockNames : a \notin rem[c] => StoredIn(blocks'[a], h) = {}
    BY <1>0, <1>4
  <2> QED BY <1>0, <1>4, <2>1, <2>2, StartDecGoesOn
<1>5. CASE RelGetDelete(c)
  <2>1. b \in marked
    BY <1>5 DEF RelGetDelete, SafeInv, CallMarks
  <2>2. /\ blocks'[b] = None /\ \A a \in BlockNames : a # b => blocks'[a] = blocks[a]
    BY <1>0, <1>5, WriteBlockStep DEF RelGetDelete
  <2>3. \A a \in BlockNames : a \notin rem[c] => StoredIn(blocks'[a], h) = {}
    BY <1>0, <1>2, <2>2
  <2>4. /\ OthersKeep(c) /\ hid'[c] \in {hid[c], None}
        /\ \/ released' = released
           \/ /\ released' = released \cup {hid[c]}
              /\ \A a \in BlockNames : StoredIn(blocks'[a], hid[c]) = {}
        /\ CallCovered(c)' /\ CallReleases(c)' /\ CallMarks(c)'
    BY <1>0, <1>5, <2>3, NextGoesOn DEF RelGetDelete
  <2> QED BY <1>0, <1>5, <2>1, <2>2, <2>4, SafeBlockDelete DEF RelGetDelete
<1>6. CASE RelDelete(c)
  <2>1. b \in marked
    BY <1>6 DEF RelDelete, SafeInv, CallMarks
  <2>2. /\ blocks'[b] = None /\ \A a \in BlockNames : a # b => blocks'[a] = blocks[a]
    BY <1>0, <1>6, WriteBlockStep DEF RelDelete
  <2>3. /\ OthersKeep(c) /\ hid'[c] = hid[c]
        /\ CallCovered(c)' /\ CallReleases(c)' /\ CallMarks(c)'
    BY <1>2, <1>4, <1>6, <2>2 DEF RelDelete
  <2> QED BY <1>0, <1>6, <2>1, <2>3, SafeBlockDelete DEF RelDelete
\* A write of the current copy with the handle's addresses taken out.
<1>7. ASSUME BlockCurrent(c), NEW obj \in {Release(blocks[b], h),
                                           MarkDeleted(Release(blocks[b], h))},
             WriteBlock(b, obj), UNCHANGED <<handles, grants, released>>,
             \/ obj = Release(blocks[b], h) /\ marked' = marked
             \/ marked' = marked \cup {b},
             OthersKeep(c), hid'[c] = hid[c],
             CallCovered(c)', CallReleases(c)', CallMarks(c)'
      PROVE  SafeInv'
  <2>1. blocks[b] \in Block /\ blocks[b] # None
    BY <1>0, <1>7 DEF BlockCurrent, CopiesOK, StoreTypes
  <2>2. Release(blocks[b], h) \in Block /\ MarkDeleted(Release(blocks[b], h)) \in Block
    <3>1. 0 \in Ordinals
      BY BlockAssumption DEF Ordinals
    <3> QED BY <1>0, <2>1, <3>1, BlockTypes
  <2>3. /\ StoredIn(obj, h) = {}
        /\ \A g \in Handles : g # h => StoredIn(obj, g) = StoredIn(blocks[b], g)
    BY <1>0, <1>7, <2>1, <2>2, StoredAfter
  <2>4. /\ blocks'[b] = obj /\ \A a \in BlockNames : a # b => blocks'[a] = blocks[a]
        /\ \A p \in bfresh' : p \in bfresh /\ p[2] # b
    BY <1>0, <1>7, <2>2, WriteBlockStep
  <2>5. marked \subseteq marked'
    BY <1>7
  <2>6. obj # None /\ obj.deleted => b \in marked'
    <3>1. Release(blocks[b], h).deleted = blocks[b].deleted
      BY DEF Release
    <3>2. blocks[b].deleted => b \in marked
      BY <1>0, <2>1 DEF SafeInv, BlocksSafe
    <3> QED BY <1>7, <3>1, <3>2
  <2>7. b \notin marked' => \A x \in grants' : x.blk = b => x.ord \in StoredIn(obj, x.handle)
    <3>1. ASSUME NEW x \in grants, x.blk = b, b \notin marked
          PROVE  x.ord \in StoredIn(obj, x.handle)
      <4>1. x.handle \in Handles /\ x.handle # h
        BY <1>0, <3>1 DEF StoreTypes, Grant
      <4>2. x.ord \in StoredIn(blocks[b], x.handle)
        BY <3>1, InTerms DEF SafeInv, BlocksSafe, GrantsRecorded
      <4> QED BY <2>3, <4>1, <4>2
    <3> QED BY <1>7, <2>5, <3>1
  <2>8. grants' \subseteq Grant /\ \A x \in grants' : x \in grants
    BY <1>7 DEF StoreTypes
  <2>9. BlocksSafe'
    <3> HIDE DEF b, h
    <3> QED BY <1>0, <2>4, <2>5, <2>6, <2>7, <2>8, BlocksSafeWrite DEF b
  <2>10. Cardinality(StoredIn(obj, h)) <= CountIn(handles[h], b)
    BY <1>3, <2>3, FS_EmptySet
  <2>11. /\ obj \in Block \cup {None} /\ handles' = handles /\ hid'[c] \in {hid[c], None}
         /\ released' = released /\ StoredIn(obj, hid[c]) = {}
         /\ \A p \in bfresh' : (p \in bfresh /\ p[2] # b) \/ p[1] = c
         /\ \A g \in Handles : g # hid[c] => StoredIn(obj, g) \subseteq StoredIn(blocks[b], g)
         /\ hid[c] \in Handles =>
              Cardinality(StoredIn(obj, hid[c])) <= CountIn(handles[hid[c]], b)
         /\ \A x \in grants' : x \in grants \/ x.handle = hid[c]
    BY <1>7, <2>2, <2>3, <2>4, <2>8, <2>10
  <2> HIDE DEF b, h
  <2> QED BY <1>0, <1>7, <2>4, <2>5, <2>9, <2>11, SafeBlockWrite DEF b
<1>8. CASE RelUpdate(c)
  <2>1. CASE BlockCurrent(c)
    <3>1. /\ WriteBlock(b, Release(blocks[b], h)) /\ StartDec(c, num[c], "release")
          /\ UNCHANGED <<handles, grants, released, marked>> /\ pc[c] = "relUpdate"
      BY <1>8, <2>1 DEF RelUpdate, BlockConflict, BlockGone
    <3>2. blocks[b] \in Block /\ Release(blocks[b], h) \in Block
      <4>1. blocks[b] \in Block /\ 0 \in Ordinals
        BY <1>0, <2>1, BlockAssumption DEF BlockCurrent, CopiesOK, StoreTypes, Ordinals
      <4> QED BY <1>0, <4>1, BlockTypes
    <3>3. /\ StoredIn(blocks'[b], h) = {}
          /\ \A a \in BlockNames : a # b => blocks'[a] = blocks[a]
      BY <1>0, <3>1, <3>2, WriteBlockStep, StoredAfter
    <3>4. /\ OthersKeep(c) /\ hid'[c] = hid[c]
          /\ CallCovered(c)' /\ CallReleases(c)' /\ CallMarks(c)'
      BY <1>4, <3>1, <3>3
    <3> QED BY <1>7, <2>1, <3>1, <3>4
  <2>2. CASE ~BlockCurrent(c)
    BY <1>8, <2>2, SafeRetryRelease DEF RelUpdate
  <2> QED BY <2>1, <2>2
<1>9. CASE RelMark(c)
  <2>1. CASE BlockCurrent(c)
    <3>1. /\ WriteBlock(b, MarkDeleted(Release(blocks[b], h))) /\ marked' = marked \cup {b}
          /\ Goto(c, "relDelete") /\ UNCHANGED locals
          /\ UNCHANGED <<handles, grants, released>> /\ pc[c] = "relMark"
      BY <1>9, <2>1 DEF RelMark, BlockConflict, BlockGone
    <3>2. Fits("relDelete", hid[c], blk[c])
      BY <1>0 DEF Fits, Labels, PoolLabels, DecLabels, ReleaseLabels
    <3>3. OthersKeep(c) /\ pc'[c] = "relDelete"
      BY <1>0, <3>1, <3>2, GotoStep
    <3>4. CallCovered(c)'
      <4>1. Count(hid[c], blk[c])' = CountIn(handles[h], b)
        BY <3>1 DEF Count, CountIn, locals
      <4> QED BY <1>1, <3>1, <3>3, <4>1 DEF CallCovered, locals
    <3>5. CallReleases(c)'
      <4>1. \A a \in BlockNames : a # b => blocks'[a] = blocks[a]
        BY <3>1 DEF WriteBlock, StoreTypes
      <4> QED BY <1>0, <3>1, <3>3, <4>1, ReleaseStays DEF locals, ReleaseLabels
    <3>6. CallMarks(c)'
      <4>1. \A a \in BlockNames : list'[c][a] = "none"
        BY <3>1 DEF SafeInv, CallMarks, locals
      <4> QED BY <3>1, <3>3, <4>1 DEF CallMarks, locals
    <3>7. hid'[c] = hid[c]
      BY <3>1 DEF locals
    <3> QED BY <1>7, <2>1, <3>1, <3>3, <3>4, <3>5, <3>6, <3>7
  <2>2. CASE BlockConflict(c)
    BY <1>9, <2>2, SafeRetryRelease DEF RelMark, BlockConflict, BlockGone
  <2>3. CASE BlockGone(c)
    <3>1. /\ blocks[b] = None /\ StartDec(c, num[c], "release") /\ pc[c] = "relMark"
          /\ UNCHANGED <<blocks, bfresh, marked, handles, pool, hfresh, grants, released>>
      BY <1>9, <2>3 DEF RelMark, BlockGone, BlockConflict
    <3>2. /\ OthersKeep(c) /\ hid'[c] = hid[c]
          /\ CallCovered(c)' /\ CallReleases(c)' /\ CallMarks(c)'
      BY <1>2, <1>4, <3>1
    <3> QED BY <3>1, <3>2, SafeQuiet
  <2> QED BY <1>9, <2>1, <2>2, <2>3 DEF RelMark
<1> QED BY <1>5, <1>6, <1>8, <1>9

\* A call of DeleteIPPool holds no handle and relies only on its blocks.
LEMMA PoolGoesOn ==
  ASSUME NEW c \in Clients, pc'[c] \in PoolLabels
  PROVE  CallCovered(c)' /\ CallReleases(c)'
<1>1. CallCovered(c)'
  BY DEF CallCovered, PoolLabels
<1>2. CallReleases(c)'
  BY DEF CallReleases, Releasing, Assigning, AssignLabels, ReleaseLabels, DecLabels, PoolLabels
<1> QED BY <1>1, <1>2

\* The calls of DeleteIPPool.
LEMMA SafePool ==
  ASSUME TypeInv, SafeInv, NEW c \in Clients,
         PoolList(c) \/ PoolMark(c) \/ PoolDelete(c) \/ PoolReturn(c)
  PROVE  SafeInv'
<1> USE TypeInvParts DEF store, copies, history
<1>0. /\ pc[c] \in PoolLabels /\ hid[c] = None /\ hid[c] \notin Handles /\ LocalTypes
      /\ hid[c] \notin released /\ CallMarks(c)
      /\ list[c] \in [BlockNames -> Listed]
      /\ pc[c] \in BlockLabels => blk[c] \in BlockNames
  BY LabelFacts, IPAMAssumption
     DEF PoolList, PoolMark, PoolDelete, PoolReturn, PoolLabels, StoreTypes, SafeInv
\* DeleteIPPool goes on with what is left of its list.
<1>1. ASSUME NEW l \in [BlockNames -> Listed], NextListed(c, l), marked' = marked,
             \A b \in BlockNames :
               /\ l[b] = "marked" => b \in marked
               /\ l[b] = "empty" /\ <<c, b>> \in bfresh' => Empty(blocks'[b])
      PROVE  /\ OthersKeep(c) /\ hid'[c] = None
             /\ CallCovered(c)' /\ CallReleases(c)' /\ CallMarks(c)'
  <2>1. /\ OthersKeep(c) /\ hid'[c] = None /\ LocalTypes'
        /\ \A b \in BlockNames : list'[c][b] \in {l[b], "none"}
        /\ pc'[c] \in PoolLabels \ {"poolList"}
        /\ pc'[c] = "poolDelete" => l[blk'[c]] = "marked"
        /\ pc'[c] = "poolMark" => l[blk'[c]] = "empty"
        /\ pc'[c] \notin {"poolMark", "poolDelete"} => list'[c] = NoList
    BY <1>0, <1>1, NextListedStep
  <2>2. pc'[c] \in {"poolMark", "poolDelete"} => blk'[c] \in BlockNames
    BY <2>1 DEF LocalTypes, LocalsOK, BlockLabels
  <2>3. CallCovered(c)' /\ CallReleases(c)'
    BY <2>1, PoolGoesOn
  <2>4. CallMarks(c)'
    BY <1>1, <2>1, <2>2 DEF CallMarks, BlockCurrent, NoList, PoolLabels
  <2> QED BY <2>1, <2>3, <2>4
<1>2. ASSUME PoolFailed(c)
      PROVE  /\ OthersKeep(c) /\ hid'[c] = None
             /\ CallCovered(c)' /\ CallReleases(c)' /\ CallMarks(c)'
  BY <1>0, <1>2, PoolEndStep, Returned DEF PoolFailed
<1>3. CASE PoolList(c)
  <2> DEFINE l == [b \in BlockNames |->
                     IF blocks[b] = None THEN "none"
                     ELSE IF ~Empty(blocks[b]) THEN "used"
                     ELSE IF blocks[b].deleted THEN "marked" ELSE "empty"]
  <2>1. l \in [BlockNames -> Listed]
    BY DEF Listed
  <2>2. UNCHANGED <<blocks, handles, hfresh, grants, marked, released>>
    BY <1>3 DEF PoolList
  <2>3. \A b \in BlockNames :
          /\ l[b] = "marked" => b \in marked
          /\ l[b] = "empty" /\ <<c, b>> \in bfresh' => Empty(blocks'[b])
    BY <2>2 DEF SafeInv, BlocksSafe
  <2>4. NextListed(c, l)
    BY <1>3 DEF PoolList
  <2> HIDE DEF l
  <2>5. /\ OthersKeep(c) /\ hid'[c] = None
        /\ CallCovered(c)' /\ CallReleases(c)' /\ CallMarks(c)'
    BY <1>1, <2>1, <2>2, <2>3, <2>4
  <2>6. \A p \in bfresh' : p \in bfresh \/ p[1] = c
    BY <1>3 DEF PoolList
  <2> QED BY <2>2, <2>5, <2>6, SafeQuiet
<1>4. CASE PoolDelete(c)
  <2> DEFINE b == blk[c]
  <2>1. b \in BlockNames /\ b \in marked
    BY <1>0, <1>4 DEF PoolDelete, BlockLabels, CallMarks
  <2>2. /\ blocks'[b] = None /\ \A a \in BlockNames : a # b => blocks'[a] = blocks[a]
        /\ \A p \in bfresh' : p \in bfresh /\ p[2] # b
    BY <1>4, <2>1, WriteBlockStep DEF PoolDelete
  <2>3. UNCHANGED <<handles, grants, marked, released>>
    BY <1>4 DEF PoolDelete
  <2>4. \A a \in BlockNames :
          /\ list[c][a] = "marked" => a \in marked
          /\ list[c][a] = "empty" /\ <<c, a>> \in bfresh' => Empty(blocks'[a])
    BY <1>0, <2>2 DEF CallMarks
  <2>5. /\ OthersKeep(c) /\ hid'[c] = None
        /\ CallCovered(c)' /\ CallReleases(c)' /\ CallMarks(c)'
    BY <1>0, <1>1, <1>2, <1>4, <2>3, <2>4 DEF PoolDelete
  <2> QED BY <1>4, <2>1, <2>3, <2>5, SafeBlockDelete DEF PoolDelete
<1>5. CASE PoolMark(c)
  <2> DEFINE b == blk[c]
  <2>0. b \in BlockNames
    BY <1>0, <1>5 DEF PoolMark, BlockLabels
  <2>1. CASE ~BlockCurrent(c)
    BY <1>2, <1>5, <2>1, SafeQuiet DEF PoolMark
  <2>2. CASE BlockCurrent(c)
    <3> DEFINE obj == MarkDeleted(blocks[b])
    <3>1. /\ WriteBlock(b, obj) /\ marked' = marked \cup {b} /\ Goto(c, "poolDelete")
          /\ UNCHANGED locals /\ UNCHANGED <<handles, pool, hfresh, grants, released>>
      BY <1>5, <2>2 DEF PoolMark
    <3>2. blocks[b] \in Block /\ 0 \in Ordinals
      BY <2>0, <2>2, BlockAssumption DEF BlockCurrent, CopiesOK, StoreTypes, Ordinals
    <3>3. obj \in Block /\ \A g \in Handles : StoredIn(obj, g) = StoredIn(blocks[b], g)
      <4>1. ASSUME NEW g \in Handles
            PROVE  obj \in Block /\ StoredIn(obj, g) = StoredIn(blocks[b], g)
        BY <3>2, BlockTypes, StoredAfter
      <4>2. obj \in Block
        BY <3>2 DEF Block, MarkDeleted
      <4> QED BY <4>1, <4>2
    <3> HIDE DEF obj
    <3>4. /\ blocks'[b] = obj /\ \A a \in BlockNames : a # b => blocks'[a] = blocks[a]
          /\ \A p \in bfresh' : p \in bfresh /\ p[2] # b
      BY <2>0, <3>1, <3>3, WriteBlockStep
    <3>5. Fits("poolDelete", hid[c], blk[c])
      BY <1>0, <2>0 DEF Fits, Labels, PoolLabels
    <3>6. OthersKeep(c) /\ pc'[c] = "poolDelete" /\ hid' = hid /\ blk' = blk /\ list' = list
      BY <1>0, <3>1, <3>5, GotoStep DEF locals
    <3>7. CallCovered(c)' /\ CallReleases(c)'
      BY <3>6, PoolGoesOn DEF PoolLabels
    <3>8. CallMarks(c)'
      BY <1>0, <2>0, <3>1, <3>4, <3>6 DEF CallMarks
    <3>9. BlocksSafe'
      <4> HIDE DEF b
      <4> QED BY <2>0, <3>1, <3>4, BlocksSafeWrite DEF StoreTypes
    <3>10. /\ hid'[c] \in {hid[c], None} /\ obj \in Block \cup {None} /\ handles' = handles
           /\ released' = released /\ marked \subseteq marked'
           /\ \A p \in bfresh' : (p \in bfresh /\ p[2] # b) \/ p[1] = c
           /\ \A g \in Handles : g # hid[c] => StoredIn(obj, g) \subseteq StoredIn(blocks[b], g)
           /\ \A x \in grants' : x \in grants \/ x.handle = hid[c]
      BY <3>1, <3>3, <3>4, <3>6
    <3> HIDE DEF b
    <3> QED BY <1>0, <2>0, <3>4, <3>6, <3>7, <3>8, <3>9, <3>10, SafeBlockWrite
  <2> QED BY <2>1, <2>2
<1>6. CASE PoolReturn(c)
  <2>1. OthersKeep(c) /\ hid'[c] = None /\ pc'[c] = "idle" /\ list'[c] = NoList
    BY <1>0, <1>6, ReturnStep DEF PoolReturn
  <2>2. CallCovered(c)' /\ CallReleases(c)' /\ CallMarks(c)'
    BY <2>1, Returned
  <2> QED BY <1>6, <2>1, <2>2, SafeQuiet DEF PoolReturn
<1> QED BY <1>3, <1>4, <1>5, <1>6

\* A call of c begins on handle h, which no other call works on.
LEMMA SafeBegin ==
  ASSUME TypeInv, SafeInv, NEW c \in Clients, NEW h \in Handles,
         \A d \in Clients : hid[d] # h,
         OthersKeep(c), hid'[c] = h, list'[c] = NoList,
         UNCHANGED <<blocks, handles, bfresh, hfresh, marked>>,
         released' \subseteq released, grants' \subseteq grants,
         \/ pc'[c] = "getPool" /\ h \notin released'
         \/ pc'[c] = "relHandle" /\ \A g \in grants' : g.handle # h
  PROVE  SafeInv'
<1>1. OneCallPerHandle'
  BY DEF SafeInv, OneCallPerHandle, OthersKeep
<1>2. ASSUME NEW g \in Handles PROVE HandleSafe(g)'
  <2>1. HandleSafe(g)
    BY DEF SafeInv
  <2>2. \A b \in BlockNames : Stored(g, b)' = Stored(g, b) /\ Count(g, b)' = Count(g, b)
    BY DEF Stored, Count
  <2> QED BY <2>1, <2>2 DEF HandleSafe
<1>3. CallCovered(c)' /\ CallReleases(c)' /\ CallMarks(c)'
  <2>1. CallCovered(c)'
    BY DEF CallCovered
  <2>2. CallReleases(c)'
    BY DEF CallReleases, Releasing, Assigning, AssignLabels, ReleaseLabels, DecLabels
  <2>3. CallMarks(c)'
    BY DEF CallMarks, NoList
  <2> QED BY <2>1, <2>2, <2>3
<1>4. ASSUME NEW d \in Clients, d # c
      PROVE  CallCovered(d)' /\ CallReleases(d)' /\ CallMarks(d)'
  <2>1. /\ pc'[d] = pc[d] /\ hid'[d] = hid[d] /\ blk'[d] = blk[d] /\ num'[d] = num[d]
        /\ cont'[d] = cont[d] /\ rem'[d] = rem[d] /\ list'[d] = list[d]
    BY <1>4 DEF OthersKeep
  <2>2. CallCovered(d) /\ CallReleases(d) /\ CallMarks(d)
    BY DEF SafeInv
  <2>3. /\ \A b \in BlockNames : Stored(hid[d], b)' = Stored(hid[d], b)
        /\ Stored(hid[d], blk[d])' = Stored(hid[d], blk[d])
        /\ Count(hid[d], blk[d])' = Count(hid[d], blk[d])
    BY <2>1 DEF Stored, Count
  <2>4. CallCovered(d)'
    BY <2>1, <2>2, <2>3 DEF CallCovered
  <2>5. CallReleases(d)'
    BY <2>1, <2>2, <2>3 DEF CallReleases, Releasing, Assigning
  <2>6. CallMarks(d)'
    BY <2>1, <2>2 DEF CallMarks, BlockCurrent
  <2> QED BY <2>4, <2>5, <2>6
<1>5. BlocksSafe'
  BY DEF SafeInv, BlocksSafe, GrantsRecorded, Stored
<1> QED BY <1>1, <1>2, <1>3, <1>4, <1>5 DEF SafeInv

\* Starting a call preserves the invariant.
LEMMA SafeStart ==
  ASSUME ~SharedHandles, TypeInv, SafeInv, NEW c \in Clients,
         \/ \E h \in Handles : StartAutoAssign(c, h) \/ StartRelease(c, h)
         \/ StartDeleteIPPool(c)
  PROVE  SafeInv'
<1> USE TypeInvParts, NoListType DEF store, copies, history
<1>1. ASSUME NEW h \in Handles, StartAutoAssign(c, h) PROVE SafeInv'
  <2>1. Fits("getPool", h, None)
    BY DEF Fits, Labels, PoolLabels, AssignLabels, DecLabels, BlockLabels
  <2>2. OthersKeep(c) /\ pc'[c] = "getPool" /\ hid'[c] = h /\ list'[c] = NoList
    BY <1>1, <2>1, LocalsStep DEF StartAutoAssign
  <2>3. /\ \A d \in Clients : hid[d] # h
        /\ UNCHANGED <<blocks, handles, bfresh, hfresh, marked, grants>>
        /\ released' \subseteq released /\ h \notin released'
    BY <1>1 DEF StartAutoAssign, HandleIdle
  <2> QED BY <2>2, <2>3, SafeBegin
<1>2. ASSUME NEW h \in Handles, StartRelease(c, h) PROVE SafeInv'
  <2>1. Fits("relHandle", h, None)
    BY DEF Fits, Labels, PoolLabels, ReleaseLabels, DecLabels, BlockLabels
  <2>2. OthersKeep(c) /\ pc'[c] = "relHandle" /\ hid'[c] = h /\ list'[c] = NoList
    BY <1>2, <2>1, LocalsStep DEF StartRelease
  <2>3. /\ \A d \in Clients : hid[d] # h
        /\ UNCHANGED <<blocks, handles, bfresh, hfresh, marked, released>>
        /\ grants' \subseteq grants /\ \A g \in grants' : g.handle # h
    BY <1>2 DEF StartRelease, HandleIdle
  <2> QED BY <2>2, <2>3, SafeBegin
<1>3. CASE StartDeleteIPPool(c)
  <2>1. Fits("poolList", hid[c], blk[c])
    BY <1>3 DEF StartDeleteIPPool, Fits, Labels, PoolLabels, BlockLabels, DecLabels,
                LocalTypes, LocalsOK
  <2>2. OthersKeep(c) /\ pc'[c] = "poolList" /\ UNCHANGED locals
    BY <1>3, <2>1, GotoStep DEF StartDeleteIPPool
  <2>3. CallCovered(c)' /\ CallReleases(c)'
    BY <2>2, PoolGoesOn DEF PoolLabels
  <2>4. CallMarks(c)'
    BY <1>3, <2>2, MarksPlain DEF StartDeleteIPPool, SafeInv, locals
  <2> QED BY <1>3, <2>2, <2>3, <2>4, SafeQuiet DEF StartDeleteIPPool, locals
<1> QED BY <1>1, <1>2, <1>3

\* Failed calls, crashes and restarts preserve the invariant.
LEMMA SafeFault ==
  ASSUME TypeInv, SafeInv, NEW c \in Clients, ApiError(c) \/ Crash(c) \/ Restart(c)
  PROVE  SafeInv'
<1> USE TypeInvParts DEF store, copies, history
<1>0. /\ UNCHANGED <<blocks, handles, grants, marked>> /\ LocalTypes
      /\ \A p \in bfresh' : p \in bfresh
  BY DEF ApiError, Crash, Restart, DropCopies
<1>1. ASSUME Return(c) \/ PoolFailed(c), released' = released PROVE SafeInv'
  <2>1. /\ OthersKeep(c) /\ hid'[c] = None /\ list'[c] = NoList
        /\ pc'[c] \in {"idle", "poolError"}
    BY <1>0, <1>1, ReturnStep, PoolEndStep DEF PoolFailed
  <2>2. CallCovered(c)' /\ CallReleases(c)' /\ CallMarks(c)'
    BY <2>1, Returned
  <2> QED BY <1>0, <1>1, <2>1, <2>2, SafeQuiet
<1>2. CASE Crash(c) \/ Restart(c)
  BY <1>1, <1>2 DEF Crash, Restart
<1>3. CASE ApiError(c)
  <2>1. CASE /\ pc[c] \in AssignLabels \ {"getPool", "updateBlock"} /\ RetryAssign(c)
             /\ released' = released
    <3>1. hid[c] \in Handles /\ Assigning(c)
      BY <1>0, <2>1, LabelFacts DEF Assigning
    <3>2. /\ OthersKeep(c) /\ hid'[c] \in {hid[c], None} /\ list'[c] = NoList
          /\ \/ pc'[c] = "idle"
             \/ pc'[c] = "getPool" /\ hid'[c] = hid[c]
      BY <1>0, <2>1, <3>1, RetryAssignStep
    <3>3. CallCovered(c)' /\ CallReleases(c)' /\ CallMarks(c)'
      BY <2>1, <3>1, <3>2, AssignGoesOn
    <3> QED BY <1>0, <2>1, <3>2, <3>3, SafeQuiet
  <2>2. CASE pc[c] = "updateBlock" /\ StartDec(c, 1, "retry") /\ released' = released
    <3>1. hid[c] \in Handles /\ blk[c] \in BlockNames /\ Assigning(c)
      BY <1>0, <2>2, LabelFacts DEF Assigning, AssignLabels, BlockLabels
    <3>2. Cardinality(StoredIn(blocks[blk[c]], hid[c])) + 1 <= CountIn(handles[hid[c]], blk[c])
      BY <2>2, InTerms DEF SafeInv, CallCovered
    <3>3. /\ OthersKeep(c) /\ hid'[c] = hid[c]
          /\ CallCovered(c)' /\ CallReleases(c)' /\ CallMarks(c)'
      BY <1>0, <2>2, <3>1, <3>2, StartDecGoesOn DEF AssignLabels
    <3> QED BY <1>0, <2>2, <3>3, SafeQuiet
  <2>3. CASE pc[c] \in DecLabels /\ DecDone(c)
    BY <1>0, <2>3, DecGoesOn, SafeQuiet
  <2> QED BY <1>1, <1>3, <2>1, <2>2, <2>3 DEF ApiError
<1> QED BY <1>2, <1>3

\* A step that changes nothing the invariant looks at.
LEMMA SafeStutter ==
  ASSUME SafeInv, UNCHANGED <<blocks, handles, pc, locals, copies, history>>
  PROVE  SafeInv'
<1> USE DEF locals, copies, history
<1>1. \A h, b : Stored(h, b)' = Stored(h, b) /\ Count(h, b)' = Count(h, b)
  BY DEF Stored, Count
<1>2. OneCallPerHandle' /\ \A h \in Handles : HandleSafe(h)'
  BY <1>1 DEF SafeInv, OneCallPerHandle, HandleSafe
<1>3. ASSUME NEW c \in Clients PROVE CallCovered(c)' /\ CallReleases(c)' /\ CallMarks(c)'
  <2>1. CallCovered(c) /\ CallReleases(c) /\ CallMarks(c)
    BY DEF SafeInv
  <2>2. CallCovered(c)'
    BY <2>1 DEF CallCovered, Stored, Count
  <2>3. CallReleases(c)'
    BY <2>1 DEF CallReleases, Releasing, Assigning, Stored
  <2>4. CallMarks(c)'
    BY <2>1 DEF CallMarks, BlockCurrent
  <2> QED BY <2>2, <2>3, <2>4
<1>4. BlocksSafe'
  BY DEF SafeInv, BlocksSafe, GrantsRecorded, Stored
<1> QED BY <1>2, <1>3, <1>4 DEF SafeInv

\* The invariant holds initially: nothing is stored and no call runs.
LEMMA SafeInit == Init => SafeInv
<1> SUFFICES ASSUME Init PROVE SafeInv
  OBVIOUS
<1>1. OneCallPerHandle
  BY DEF Init, OneCallPerHandle
<1>2. ASSUME NEW h \in Handles PROVE HandleSafe(h)
  <2>1. \A b \in BlockNames : Stored(h, b) = {} /\ Count(h, b) = 0 /\ handles[h] = None
    BY DEF Init, Stored, Count
  <2> QED BY <2>1, FS_EmptySet DEF HandleSafe
<1>3. ASSUME NEW c \in Clients PROVE CallCovered(c) /\ CallReleases(c) /\ CallMarks(c)
  <2>1. pc[c] = "idle" /\ list[c] = NoList
    BY DEF Init
  <2> QED BY <2>1 DEF CallCovered, CallReleases, CallMarks, Releasing, Assigning, AssignLabels,
                      ReleaseLabels, DecLabels, NoList
<1>4. BlocksSafe
  BY DEF Init, BlocksSafe, GrantsRecorded
<1> QED BY <1>1, <1>2, <1>3, <1>4 DEF SafeInv

\* Every step preserves the invariant.
LEMMA SafeNext ==
  ASSUME ~SharedHandles, TypeInv, SafeInv, [Next]_vars
  PROVE  SafeInv'
<1>1. ASSUME NEW c \in Clients, Call(c) PROVE SafeInv'
  BY <1>1, SafeAssignRead, SafeAssignHandle, SafeAssignBlock, SafeDecrement, SafeReleaseHandle,
     SafeReleaseGet, SafeReleaseBlock, SafePool DEF Call
<1>2. CASE UNCHANGED vars \/ ChangePool
  BY <1>2, SafeStutter DEF vars, store, ChangePool
<1> QED BY <1>1, <1>2, SafeStart, SafeFault DEF Next

-----------------------------------------------------------------------------
(* What follows                                                            *)

\* As long as no two calls work on one handle at the same time, the invariant
\* holds in every reachable state.
THEOREM Safety ==
  ASSUME ~SharedHandles
  PROVE  Spec => []SafeInv
<1>1. TypeInv /\ SafeInv /\ [Next]_vars => SafeInv'
  BY SafeNext
<1> QED BY <1>1, SafeInit, TypeInvHolds, PTL DEF Spec

\* A handle never under-counts the addresses recorded for it, in any
\* interleaving of AutoAssign, ReleaseByHandle and DeleteIPPool, with failing
\* calls and crashes at any point.
THEOREM HandlesCover ==
  ASSUME ~SharedHandles
  PROVE  Spec => []HandleCovers
<1>1. SafeInv => HandleCovers
  BY DEF SafeInv, HandleSafe, HandleCovers
<1> QED BY <1>1, Safety, PTL

\* ReleaseByHandle that returned nil left no address of its handle behind.
THEOREM ReleaseIsComplete ==
  ASSUME ~SharedHandles
  PROVE  Spec => []ReleasedClean
<1>1. TypeInv /\ SafeInv => ReleasedClean
  BY DEF TypeInv, TypeOK, SafeInv, HandleSafe, ReleasedClean
<1> QED BY <1>1, Safety, TypeInvHolds, PTL

\* An address returned to a caller stays recorded as his until he releases it.
THEOREM GrantsAreRecorded ==
  ASSUME ~SharedHandles
  PROVE  Spec => []GrantsRecorded
<1>1. SafeInv => GrantsRecorded
  BY DEF SafeInv, BlocksSafe
<1> QED BY <1>1, Safety, PTL

-----------------------------------------------------------------------------
(* The address pool: every API call of a client is a step of AddressPool   *)
(* on the addresses handed out and the blocks marked, or changes neither.  *)

\* What was granted from a block that is still in service is in its owner list.
LEMMA GrantInBlock ==
  ASSUME TypeInv, SafeInv, NEW g \in grants, g.blk \notin marked
  PROVE  /\ g.handle \in Handles /\ g.blk \in BlockNames /\ g.ord \in Ordinals
         /\ blocks[g.blk] # None /\ blocks[g.blk].alloc[g.ord] = g.handle
<1>1. g.handle \in Handles /\ g.blk \in BlockNames /\ g.ord \in Ordinals
  BY DEF TypeInv, TypeOK, Grant
<1>2. g.ord \in Stored(g.handle, g.blk)
  BY DEF SafeInv, BlocksSafe, GrantsRecorded
<1> QED BY <1>1, <1>2 DEF Stored, OwnedBy

\* The free address that AutoAssign takes from a current copy is nobody's.
LEMMA UpdateTakes ==
  ASSUME TypeInv, SafeInv, NEW c \in Clients, UpdateBlock(c)
  PROVE  AP!Next \/ UNCHANGED AP!poolVars
<1> DEFINE h == hid[c]
           b == blk[c]
<1>1. CASE BlockCurrent(c)
  <2>1. PICK o \in FreeOrdinals(blocks[b]) :
          grants' = grants \cup {[handle |-> h, blk |-> b, ord |-> o]}
    BY <1>1 DEF UpdateBlock, BlockConflict, BlockGone
  <2>2. h \in Handles /\ b \in BlockNames /\ o \in Ordinals /\ marked' = marked
    BY TypeInvParts, LabelFacts DEF UpdateBlock, AssignLabels, BlockLabels, FreeOrdinals
  <2>3. b \notin marked => \A g \in grants : ~(g.blk = b /\ g.ord = o)
    BY <2>1, GrantInBlock, BlockAssumption DEF FreeOrdinals
  <2>4. AP!Take(h, b, o)
    BY <2>1, <2>2, <2>3 DEF AP!Take
  <2> QED BY <2>2, <2>4 DEF AP!Next
<1>2. CASE ~BlockCurrent(c)
  BY <1>2 DEF UpdateBlock, AP!poolVars
<1> QED BY <1>1, <1>2

\* The block ReleaseByHandle marks shows no address but its own handle's, and
\* those were given back when the call began.
LEMMA RelMarkRetires ==
  ASSUME TypeInv, SafeInv, NEW c \in Clients, RelMark(c)
  PROVE  AP!Next \/ UNCHANGED AP!poolVars
<1> DEFINE h == hid[c]
           b == blk[c]
<1>1. CASE BlockCurrent(c)
  <2>1. marked' = marked \cup {b} /\ grants' = grants
    BY <1>1 DEF RelMark, BlockConflict, BlockGone
  <2>2. b \in BlockNames /\ \A g \in grants : g.handle # h
    BY ReleaseFacts DEF RelMark, ReleaseLabels, BlockLabels
  <2>3. Empty(Release(blocks[b], h))
    BY <1>1 DEF RelMark, SafeInv, CallMarks
  <2>4. ASSUME NEW g \in grants, b \notin marked, g.blk = b PROVE FALSE
    <3>1. g.ord \in Ordinals /\ blocks[b].alloc[g.ord] = g.handle /\ g.handle \in Handles
      BY <2>4, GrantInBlock
    <3>2. Release(blocks[b], h).alloc[g.ord] = g.handle
      BY <2>2, <3>1 DEF Release
    <3> QED BY <2>3, <3>1, <3>2, BlockAssumption DEF Empty
  <2>5. AP!Retire(b)
    BY <2>1, <2>4 DEF AP!Retire
  <2> QED BY <2>2, <2>5 DEF AP!Next
<1>2. CASE ~BlockCurrent(c)
  BY <1>2 DEF RelMark, AP!poolVars
<1> QED BY <1>1, <1>2

\* The block DeleteIPPool marks is as empty as it was listed.
LEMMA PoolMarkRetires ==
  ASSUME TypeInv, SafeInv, NEW c \in Clients, PoolMark(c)
  PROVE  AP!Next \/ UNCHANGED AP!poolVars
<1> DEFINE b == blk[c]
<1>1. CASE BlockCurrent(c)
  <2>1. marked' = marked \cup {b} /\ grants' = grants
    BY <1>1 DEF PoolMark
  <2>2. b \in BlockNames
    BY TypeInvParts, LabelFacts DEF PoolMark, BlockLabels
  <2>3. Empty(blocks[b])
    BY <1>1 DEF PoolMark, SafeInv, CallMarks
  <2>4. ASSUME NEW g \in grants, b \notin marked, g.blk = b PROVE FALSE
    <3>1. g.ord \in Ordinals /\ blocks[b].alloc[g.ord] = g.handle /\ g.handle \in Handles
      BY <2>4, GrantInBlock
    <3> QED BY <2>3, <3>1, BlockAssumption DEF Empty
  <2>5. AP!Retire(b)
    BY <2>1, <2>4 DEF AP!Retire
  <2> QED BY <2>2, <2>5 DEF AP!Next
<1>2. CASE ~BlockCurrent(c)
  BY <1>2 DEF PoolMark, AP!poolVars
<1> QED BY <1>1, <1>2

\* Every step of the clients is a step of the address pool, or none.
LEMMA StepRefines ==
  ASSUME TypeInv, SafeInv, [Next]_vars
  PROVE  [AP!Next]_(AP!poolVars)
<1> USE DEF store, copies, history, AP!poolVars
<1>1. ASSUME NEW c \in Clients, Call(c) PROVE AP!Next \/ UNCHANGED AP!poolVars
  <2>1. CASE UpdateBlock(c) \/ RelMark(c) \/ PoolMark(c)
    BY <2>1, UpdateTakes, RelMarkRetires, PoolMarkRetires
  <2>2. CASE \/ GetPool(c) \/ ListBlocks(c) \/ FindUnclaimedBlock(c) \/ CreateBlock(c)
             \/ IncGet(c) \/ IncDelete(c) \/ IncCreate(c) \/ IncUpdate(c)
             \/ Requery(c) \/ RequeryDelete(c)
    BY <2>2 DEF GetPool, ListBlocks, FindUnclaimedBlock, CreateBlock, IncGet, IncDelete,
                IncCreate, IncUpdate, Requery, RequeryDelete
  <2>3. CASE DecGet(c) \/ DecQueryDelete(c) \/ DecPut(c) \/ DecDelete(c)
    BY <2>3 DEF DecGet, DecQueryDelete, DecPut, DecDelete
  <2>4. CASE \/ RelHandle(c) \/ RelHandleDelete(c) \/ RelGet(c) \/ RelGetDelete(c)
             \/ RelDelete(c) \/ RelUpdate(c)
    BY <2>4 DEF RelHandle, RelHandleDelete, RelGet, RelGetDelete, RelDelete, RelUpdate
  <2>5. CASE PoolList(c) \/ PoolDelete(c) \/ PoolReturn(c)
    BY <2>5 DEF PoolList, PoolDelete, PoolReturn
  <2> QED BY <1>1, <2>1, <2>2, <2>3, <2>4, <2>5 DEF Call
<1>2. ASSUME NEW c \in Clients, NEW h \in Handles, StartAutoAssign(c, h) \/ StartRelease(c, h)
      PROVE  AP!Next \/ UNCHANGED AP!poolVars
  <2>1. CASE StartAutoAssign(c, h)
    BY <2>1 DEF StartAutoAssign
  <2>2. CASE StartRelease(c, h)
    <3>1. AP!GiveBack(h)
      BY <2>2 DEF StartRelease, AP!GiveBack
    <3> QED BY <3>1 DEF AP!Next
  <2> QED BY <1>2, <2>1, <2>2
<1>3. ASSUME NEW c \in Clients, StartDeleteIPPool(c) \/ ApiError(c) \/ Crash(c) \/ Restart(c)
      PROVE  UNCHANGED AP!poolVars
  BY <1>3 DEF StartDeleteIPPool, ApiError, Crash, Restart
<1>4. CASE ChangePool \/ UNCHANGED vars
  BY <1>4 DEF ChangePool, vars
<1> QED BY <1>1, <1>2, <1>3, <1>4 DEF Next

\* Whatever the other clients do between two API calls of a client, and
\* wherever calls fail or processes die, an address of a block in service is
\* handed to one caller at a time, and a block is taken out of service only
\* when nobody holds an address of it.
THEOREM Implementation ==
  ASSUME ~SharedHandles
  PROVE  Spec => ImplementsAddressPool
<1>1. Init => AP!Init
  BY DEF Init, AP!Init
<1>2. TypeInv /\ SafeInv /\ [Next]_vars => [AP!Next]_(AP!poolVars)
  BY StepRefines
<1> QED BY <1>1, <1>2, TypeInvHolds, Safety, PTL DEF Spec, ImplementsAddressPool, AP!Spec

\* The address pool keeps its callers apart: no two of them hold one address
\* of a block that has never been out of service.
LEMMA PoolExclusive == AP!Spec => []AP!Exclusive
<1>1. AP!Init => AP!Exclusive
  BY DEF AP!Init, AP!Exclusive
<1>2. AP!Exclusive /\ [AP!Next]_(AP!poolVars) => AP!Exclusive'
  <2> SUFFICES ASSUME AP!Exclusive, [AP!Next]_(AP!poolVars) PROVE AP!Exclusive'
    OBVIOUS
  <2>1. ASSUME NEW h \in Handles, NEW b \in BlockNames, NEW o \in Ordinals, AP!Take(h, b, o)
        PROVE  AP!Exclusive'
    <3> DEFINE t == [handle |-> h, blk |-> b, ord |-> o]
    <3>1. t.blk = b /\ t.ord = o /\ grants' = grants \cup {t} /\ marked' = marked
      BY <2>1 DEF AP!Take
    <3>2. b \notin marked => \A g \in grants : ~(g.blk = b /\ g.ord = o)
      BY <2>1 DEF AP!Take
    <3> HIDE DEF t
    <3> QED BY <3>1, <3>2 DEF AP!Exclusive
  <2>2. ASSUME NEW h \in Handles, AP!GiveBack(h) PROVE AP!Exclusive'
    BY <2>2 DEF AP!GiveBack, AP!Exclusive
  <2>3. ASSUME NEW b \in BlockNames, AP!Retire(b) PROVE AP!Exclusive'
    BY <2>3 DEF AP!Retire, AP!Exclusive
  <2>4. CASE UNCHANGED AP!poolVars
    BY <2>4 DEF AP!poolVars, AP!Exclusive
  <2> QED BY <2>1, <2>2, <2>3, <2>4 DEF AP!Next
<1> QED BY <1>1, <1>2, PTL DEF AP!Spec

\* So no two callers of AutoAssign ever hold one address of a block that has
\* never been marked deleted.
THEOREM AddressesExclusive ==
  ASSUME ~SharedHandles
  PROVE  Spec => []AP!Exclusive
BY Implementation, PoolExclusive, PTL DEF ImplementsAddressPool
=============================================================================
