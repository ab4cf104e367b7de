----------------------------- MODULE IPAMProofs -----------------------------
(***************************************************************************)
(* Proofs about IPAM, for any number of clients, handles, blocks,          *)
(* addresses and retries.                                                  *)
(***************************************************************************)
EXTENDS IPAMInv, FiniteSetTheorems, TLAPS

-----------------------------------------------------------------------------
(* The operators on blocks and handles                                     *)

\* The operators on blocks make blocks.
LEMMA BlockTypes ==
  /\ NewBlock \in Block
  /\ \A bk \in Block, o \in Ordinals, h \in Handles :
       /\ Assign(bk, o, h) \in Block
       /\ Release(bk, h) \in Block
       /\ MarkDeleted(bk) \in Block
  BY BlockAssumption DEF NewBlock, Block, Owner, Assign, Release, MarkDeleted

\* The operators on handles make handles, as long as a decrement does not go
\* below zero.
LEMMA HandleTypes ==
  /\ NoHandle \in Handle
  /\ \A hd \in Handle, b \in BlockNames, n \in Nat :
       /\ IncrementBlock(hd, b, n) \in Handle
       /\ n <= hd.block[b] => DecrementBlock(hd, b, n) \in Handle
       /\ MarkHandle(hd) \in Handle
  BY DEF NoHandle, Handle, IncrementBlock, DecrementBlock, MarkHandle

\* A block's addresses are finitely many, so that they can be counted.
LEMMA OwnedFinite ==
  ASSUME NEW bk, NEW h
  PROVE  IsFiniteSet(OwnedBy(bk, h)) /\ Cardinality(OwnedBy(bk, h)) \in Nat
<1>1. IsFiniteSet(Ordinals)
  BY BlockAssumption, FS_Interval DEF Ordinals
<1>2. OwnedBy(bk, h) \subseteq Ordinals
  BY DEF OwnedBy
<1> QED BY <1>1, <1>2, FS_Subset, FS_CardinalityType

-----------------------------------------------------------------------------
(* The control-flow operators: what they do to the caller's locals, and    *)
(* that they leave the other clients alone.                                *)

LocalTypes ==
  /\ pc \in [Clients -> Labels]
  /\ hid \in [Clients -> Handles \cup {None}]
  /\ blk \in [Clients -> BlockNames \cup {None}]
  /\ outer \in [Clients -> Nat]
  /\ mid \in [Clients -> Nat]
  /\ inner \in [Clients -> Nat]
  /\ num \in [Clients -> Nat]
  /\ cont \in [Clients -> {"requery", "retry", "release"}]
  /\ rem \in [Clients -> SUBSET BlockNames]
  /\ list \in [Clients -> [BlockNames -> Listed]]
  /\ LocalsOK

OthersKeep(c) ==
  \A d \in Clients : d # c =>
    /\ pc'[d] = pc[d] /\ hid'[d] = hid[d] /\ blk'[d] = blk[d] /\ num'[d] = num[d]
    /\ cont'[d] = cont[d] /\ rem'[d] = rem[d] /\ list'[d] = list[d]

\* A client's handle, where it has one, and its block fit its label.
Fits(label, h, b) ==
  /\ label \in Labels
  /\ label \in {"idle"} \cup PoolLabels => h = None
  /\ label \notin {"idle"} \cup PoolLabels => h \in Handles
  /\ label \in BlockLabels => b \in BlockNames

\* An empty list of blocks is a list of blocks.
LEMMA NoListType == NoList \in [BlockNames -> Listed]
  BY DEF NoList, Listed

\* Going to a label with new locals that fit it keeps the locals' types.
LEMMA LocalsStep ==
  ASSUME LocalTypes, NEW c \in Clients, NEW label,
         NEW h \in Handles \cup {None}, NEW b \in BlockNames \cup {None}, NEW n \in Nat,
         NEW r \in SUBSET BlockNames, NEW l \in [BlockNames -> Listed],
         Fits(label, h, b), Goto(c, label), Locals(c, h, b, n, r, l)
  PROVE  /\ LocalTypes' /\ OthersKeep(c)
         /\ pc'[c] = label /\ hid'[c] = h /\ blk'[c] = b /\ rem'[c] = r /\ list'[c] = l
<1>1. /\ pc' \in [Clients -> Labels] /\ hid' \in [Clients -> Handles \cup {None}]
      /\ blk' \in [Clients -> BlockNames \cup {None}]
  BY DEF LocalTypes, Goto, Locals, Fits
<1>2. /\ outer' \in [Clients -> Nat] /\ mid' \in [Clients -> Nat]
      /\ inner' \in [Clients -> Nat] /\ num' \in [Clients -> Nat]
  BY DEF LocalTypes, Locals
<1>3. /\ cont' \in [Clients -> {"requery", "retry", "release"}]
      /\ rem' \in [Clients -> SUBSET BlockNames]
      /\ list' \in [Clients -> [BlockNames -> Listed]]
  BY DEF LocalTypes, Locals
<1>4. /\ OthersKeep(c)
      /\ pc'[c] = label /\ hid'[c] = h /\ blk'[c] = b /\ rem'[c] = r /\ list'[c] = l
  BY DEF LocalTypes, Goto, Locals, OthersKeep
<1>5. LocalsOK'
  BY <1>4 DEF LocalTypes, LocalsOK, OthersKeep, Fits
<1> QED BY <1>1, <1>2, <1>3, <1>4, <1>5 DEF LocalTypes

\* A call that returns leaves no locals behind.
LEMMA ReturnStep ==
  ASSUME LocalTypes, NEW c \in Clients, Return(c)
  PROVE  /\ LocalTypes' /\ OthersKeep(c)
         /\ pc'[c] = "idle" /\ hid'[c] = None /\ list'[c] = NoList
<1>1. Fits("idle", None, None)
  BY DEF Fits, Labels, PoolLabels, BlockLabels, DecLabels
<1> QED BY <1>1, LocalsStep, NoListType DEF Return, NoLocals

\* A failed attempt of AutoAssign starts over or returns.
LEMMA RetryAssignStep ==
  ASSUME LocalTypes, NEW c \in Clients, hid[c] \in Handles, RetryAssign(c)
  PROVE  /\ LocalTypes' /\ OthersKeep(c) /\ list'[c] = NoList
         /\ \/ pc'[c] = "idle" /\ hid'[c] = None
            \/ pc'[c] = "getPool" /\ hid'[c] = hid[c]
<1>1. CASE Return(c)
  BY <1>1, ReturnStep
<1>2. CASE Goto(c, "getPool") /\ Locals(c, hid[c], None, outer[c] + 1, {}, NoList)
  <2>1. Fits("getPool", hid[c], None) /\ outer[c] + 1 \in Nat
    BY DEF Fits, Labels, AssignLabels, PoolLabels, BlockLabels, DecLabels, LocalTypes
  <2> QED BY <1>2, <2>1, LocalsStep, NoListType
<1> QED BY <1>1, <1>2 DEF RetryAssign

\* ReleaseByHandle goes on to another block of r, or returns nil when r is empty.
LEMMA NextBlockStep ==
  ASSUME LocalTypes, NEW c \in Clients, hid[c] \in Handles, released \subseteq Handles,
         NEW r \in SUBSET BlockNames, NextBlock(c, r)
  PROVE  /\ LocalTypes' /\ OthersKeep(c) /\ released' \subseteq Handles
         /\ list'[c] = NoList
         /\ \/ /\ r = {} /\ pc'[c] = "idle" /\ hid'[c] = None
               /\ released' = released \cup {hid[c]}
            \/ /\ pc'[c] = "relGet" /\ hid'[c] = hid[c] /\ released' = released
               /\ blk'[c] \in r /\ rem'[c] = r \ {blk'[c]}
<1>1. CASE r = {} /\ Return(c) /\ released' = released \cup {hid[c]}
  BY <1>1, ReturnStep
<1>2. ASSUME NEW b \in r, Goto(c, "relGet"), Locals(c, hid[c], b, 0, r \ {b}, NoList),
             released' = released
      PROVE  /\ LocalTypes' /\ OthersKeep(c) /\ list'[c] = NoList
             /\ pc'[c] = "relGet" /\ hid'[c] = hid[c] /\ blk'[c] = b /\ rem'[c] = r \ {b}
  <2>1. Fits("relGet", hid[c], b)
    BY DEF Fits, Labels, ReleaseLabels, PoolLabels, BlockLabels
  <2> QED BY <1>2, <2>1, LocalsStep, NoListType
<1> QED BY <1>1, <1>2 DEF NextBlock

\* decrementHandle starts on the handle and the block at hand.
LEMMA StartDecStep ==
  ASSUME LocalTypes, NEW c \in Clients, hid[c] \in Handles, blk[c] \in BlockNames,
         NEW n \in Nat, NEW then \in {"requery", "retry", "release"}, StartDec(c, n, then)
  PROVE  /\ LocalTypes' /\ OthersKeep(c) /\ list' = list
         /\ pc'[c] = "decGet" /\ hid' = hid /\ blk' = blk /\ rem' = rem
         /\ num'[c] = n /\ cont'[c] = then
<1>1. Fits("decGet", hid[c], blk[c])
  BY DEF Fits, Labels, PoolLabels, BlockLabels, DecLabels
<1> QED BY <1>1 DEF StartDec, Goto, LocalTypes, LocalsOK, Fits, OthersKeep

\* Where the caller of decrementHandle goes on.
LEMMA DecDoneStep ==
  ASSUME LocalTypes, NEW c \in Clients, hid[c] \in Handles, blk[c] \in BlockNames,
         released \subseteq Handles, DecDone(c)
  PROVE  /\ LocalTypes' /\ OthersKeep(c) /\ released' \subseteq Handles
         /\ list'[c] \in {list[c], NoList}
         /\ \/ /\ cont[c] = "requery" /\ pc'[c] = "requery" /\ hid' = hid /\ blk' = blk
               /\ released' = released
            \/ /\ cont[c] = "retry" /\ released' = released
               /\ \/ pc'[c] = "idle" /\ hid'[c] = None
                  \/ pc'[c] = "getPool" /\ hid'[c] = hid[c]
            \/ /\ cont[c] = "release" /\ rem[c] = {} /\ pc'[c] = "idle" /\ hid'[c] = None
               /\ released' = released \cup {hid[c]}
            \/ /\ cont[c] = "release" /\ pc'[c] = "relGet" /\ hid'[c] = hid[c]
               /\ released' = released /\ blk'[c] \in rem[c] /\ rem'[c] = rem[c] \ {blk'[c]}
<1>1. CASE /\ cont[c] = "requery" /\ Goto(c, "requery")
           /\ num' = [num EXCEPT ![c] = 0] /\ inner' = [inner EXCEPT ![c] = 0]
           /\ UNCHANGED <<hid, blk, outer, mid, cont, rem, list, released>>
  <2>1. Fits("requery", hid[c], blk[c])
    BY DEF Fits, Labels, AssignLabels, PoolLabels, BlockLabels
  <2> QED BY <1>1, <2>1 DEF Goto, LocalTypes, LocalsOK, Fits, OthersKeep
<1>2. CASE cont[c] = "retry" /\ RetryAssign(c) /\ UNCHANGED released
  BY <1>2, RetryAssignStep
<1>3. CASE cont[c] = "release" /\ NextBlock(c, rem[c])
  <2>1. rem[c] \in SUBSET BlockNames
    BY DEF LocalTypes
  <2> QED BY <1>3, <2>1, NextBlockStep
<1> QED BY <1>1, <1>2, <1>3 DEF DecDone

\* Going to a label the locals fit keeps their types.
LEMMA GotoStep ==
  ASSUME LocalTypes, NEW c \in Clients, NEW label, Fits(label, hid[c], blk[c]),
         Goto(c, label), UNCHANGED locals
  PROVE  LocalTypes' /\ OthersKeep(c) /\ pc'[c] = label
  BY DEF Goto, LocalTypes, LocalsOK, Fits, OthersKeep, locals

\* assignFromExistingBlock goes on to the handle, or the attempt fails.
LEMMA TryBlockStep ==
  ASSUME LocalTypes, NEW c \in Clients, hid[c] \in Handles, NEW b \in BlockNames,
         NEW n \in Nat, NEW obj, TryBlock(c, b, obj, n)
  PROVE  /\ LocalTypes' /\ OthersKeep(c) /\ list'[c] \in {list[c], NoList}
         /\ \/ pc'[c] = "idle" /\ hid'[c] = None
            \/ pc'[c] = "getPool" /\ hid'[c] = hid[c]
            \/ pc'[c] = "incGet" /\ hid'[c] = hid[c] /\ blk'[c] = b
<1>1. CASE RetryAssign(c)
  BY <1>1, RetryAssignStep
<1>2. CASE /\ Goto(c, "incGet") /\ blk' = [blk EXCEPT ![c] = b]
           /\ mid' = [mid EXCEPT ![c] = n]
           /\ UNCHANGED <<hid, outer, inner, num, cont, rem, list>>
  <2>1. Fits("incGet", hid[c], b)
    BY DEF Fits, Labels, AssignLabels, PoolLabels, BlockLabels
  <2> QED BY <1>2, <2>1 DEF Goto, LocalTypes, LocalsOK, Fits, OthersKeep
<1> QED BY <1>1, <1>2 DEF TryBlock

\* incrementHandle reads the handle again, or the attempt fails.
LEMMA RetryIncrementStep ==
  ASSUME LocalTypes, NEW c \in Clients, hid[c] \in Handles, blk[c] \in BlockNames,
         RetryIncrement(c)
  PROVE  /\ LocalTypes' /\ OthersKeep(c) /\ list'[c] \in {list[c], NoList}
         /\ \/ pc'[c] = "idle" /\ hid'[c] = None
            \/ pc'[c] = "getPool" /\ hid'[c] = hid[c]
            \/ pc'[c] = "incGet" /\ hid'[c] = hid[c] /\ blk'[c] = blk[c]
<1>1. CASE RetryAssign(c)
  BY <1>1, RetryAssignStep
<1>2. CASE /\ Goto(c, "incGet") /\ inner' = [inner EXCEPT ![c] = @ + 1]
           /\ UNCHANGED <<hid, blk, outer, mid, num, cont, rem, list>>
  <2>1. Fits("incGet", hid[c], blk[c])
    BY DEF Fits, Labels, AssignLabels, PoolLabels, BlockLabels
  <2> QED BY <1>2, <2>1 DEF Goto, LocalTypes, LocalsOK, Fits, OthersKeep
<1> QED BY <1>1, <1>2 DEF RetryIncrement

\* After incrementHandle the block is written.
LEMMA IncrementedStep ==
  ASSUME LocalTypes, NEW c \in Clients, hid[c] \in Handles, blk[c] \in BlockNames,
         Incremented(c)
  PROVE  /\ LocalTypes' /\ OthersKeep(c) /\ list' = list
         /\ pc'[c] = "updateBlock" /\ hid' = hid /\ blk' = blk
<1>1. Fits("updateBlock", hid[c], blk[c])
  BY DEF Fits, Labels, AssignLabels, PoolLabels, BlockLabels
<1> QED BY <1>1 DEF Incremented, Goto, LocalTypes, LocalsOK, Fits, OthersKeep

\* releaseByHandle reads the block again, or gives up.
LEMMA RetryReleaseStep ==
  ASSUME LocalTypes, NEW c \in Clients, hid[c] \in Handles, blk[c] \in BlockNames,
         RetryRelease(c)
  PROVE  /\ LocalTypes' /\ OthersKeep(c) /\ list'[c] \in {list[c], NoList}
         /\ \/ pc'[c] = "idle" /\ hid'[c] = None
            \/ pc'[c] = "relGet" /\ hid' = hid /\ blk' = blk /\ rem' = rem
<1>1. CASE Return(c)
  BY <1>1, ReturnStep
<1>2. CASE /\ Goto(c, "relGet") /\ mid' = [mid EXCEPT ![c] = @ + 1]
           /\ num' = [num EXCEPT ![c] = 0]
           /\ UNCHANGED <<hid, blk, outer, inner, cont, rem, list>>
  <2>1. Fits("relGet", hid[c], blk[c])
    BY DEF Fits, Labels, ReleaseLabels, PoolLabels, BlockLabels
  <2> QED BY <1>2, <2>1 DEF Goto, LocalTypes, LocalsOK, Fits, OthersKeep
<1> QED BY <1>1, <1>2 DEF RetryRelease

\* DeleteIPPool has a result.
LEMMA PoolEndStep ==
  ASSUME LocalTypes, NEW c \in Clients, NEW label \in {"poolUnused", "poolUsed", "poolError"},
         Goto(c, label), NoLocals(c)
  PROVE  /\ LocalTypes' /\ OthersKeep(c) /\ list'[c] = NoList
         /\ pc'[c] = label /\ hid'[c] = None
<1>1. Fits(label, None, None)
  BY DEF Fits, Labels, PoolLabels, BlockLabels, DecLabels
<1> QED BY <1>1, LocalsStep, NoListType DEF NoLocals

\* DeleteIPPool goes on to a listed block, or has a result.
LEMMA NextListedStep ==
  ASSUME LocalTypes, NEW c \in Clients, NEW l \in [BlockNames -> Listed], NextListed(c, l)
  PROVE  /\ LocalTypes' /\ OthersKeep(c) /\ hid'[c] = None
         /\ \A b \in BlockNames : list'[c][b] \in {l[b], "none"}
         /\ pc'[c] \in PoolLabels \ {"poolList"}
         /\ pc'[c] = "poolDelete" => l[blk'[c]] = "marked"
         /\ pc'[c] = "poolMark" => l[blk'[c]] = "empty"
         /\ pc'[c] \notin {"poolMark", "poolDelete"} => list'[c] = NoList
<1> USE DEF PoolLabels
<1>1. CASE Goto(c, "poolUnused") /\ NoLocals(c)
  BY <1>1, PoolEndStep DEF NoList
<1>2. CASE Goto(c, "poolUsed") /\ NoLocals(c)
  BY <1>2, PoolEndStep DEF NoList
<1>3. ASSUME NEW b \in BlockNames, NEW label \in {"poolMark", "poolDelete"}, NEW m,
             m = [l EXCEPT ![b] = "none"], Goto(c, label), Locals(c, None, b, 0, {}, m)
      PROVE  /\ LocalTypes' /\ OthersKeep(c) /\ hid'[c] = None /\ blk'[c] = b
             /\ \A a \in BlockNames : list'[c][a] \in {l[a], "none"}
             /\ pc'[c] = label
  <2>1. Fits(label, None, b)
    BY DEF Fits, Labels, BlockLabels
  <2>2. m \in [BlockNames -> Listed] /\ \A a \in BlockNames : m[a] \in {l[a], "none"}
    BY <1>3 DEF Listed
  <2> QED BY <1>3, <2>1, <2>2, LocalsStep
<1>4. CASE \E b \in BlockNames :
             /\ l[b] \in {"empty", "marked"}
             /\ Goto(c, IF l[b] = "empty" THEN "poolMark" ELSE "poolDelete")
             /\ Locals(c, None, b, 0, {}, [l EXCEPT ![b] = "none"])
  <2>1. PICK b \in BlockNames :
             /\ l[b] \in {"empty", "marked"}
             /\ Goto(c, IF l[b] = "empty" THEN "poolMark" ELSE "poolDelete")
             /\ Locals(c, None, b, 0, {}, [l EXCEPT ![b] = "none"])
    BY <1>4
  <2>2. CASE l[b] = "empty"
    <3>1. Goto(c, "poolMark")
      BY <2>1, <2>2
    <3>2. /\ LocalTypes' /\ OthersKeep(c) /\ hid'[c] = None /\ blk'[c] = b
          /\ \A a \in BlockNames : list'[c][a] \in {l[a], "none"}
          /\ pc'[c] = "poolMark"
      BY <2>1, <3>1, <1>3
    <3> QED BY <2>2, <3>2
  <2>3. CASE l[b] = "marked"
    <3>1. Goto(c, "poolDelete")
      BY <2>1, <2>3
    <3>2. /\ LocalTypes' /\ OthersKeep(c) /\ hid'[c] = None /\ blk'[c] = b
          /\ \A a \in BlockNames : list'[c][a] \in {l[a], "none"}
          /\ pc'[c] = "poolDelete"
      BY <2>1, <3>1, <1>3
    <3> QED BY <2>3, <3>2
  <2> QED BY <2>1, <2>2, <2>3
<1> QED BY <1>1, <1>2, <1>4 DEF NextListed

-----------------------------------------------------------------------------
(* Type correctness                                                        *)

StoreTypes ==
  /\ blocks \in [BlockNames -> Block \cup {None}]
  /\ handles \in [Handles -> Handle \cup {None}]
  /\ pool \in {"enabled", "disabled"}
  /\ bfresh \subseteq Clients \X BlockNames
  /\ hfresh \subseteq Clients \X Handles
  /\ grants \subseteq Grant
  /\ marked \subseteq BlockNames
  /\ released \subseteq Handles

\* The type invariant, by what the steps change together.
LEMMA TypeInvParts == TypeInv <=> StoreTypes /\ LocalTypes /\ CopiesOK
  BY DEF TypeInv, TypeOK, StoreTypes, LocalTypes

\* The locals a label promises.
LEMMA LabelFacts ==
  ASSUME LocalTypes, NEW c \in Clients
  PROVE  /\ pc[c] \in AssignLabels \cup ReleaseLabels \cup DecLabels \cup {"panic"}
              => hid[c] \in Handles
         /\ pc[c] \in BlockLabels => blk[c] \in BlockNames
         /\ pc[c] \in {"idle"} \cup PoolLabels => hid[c] = None
         /\ num[c] \in Nat /\ mid[c] + 1 \in Nat
         /\ rem[c] \in SUBSET BlockNames /\ list[c] \in [BlockNames -> Listed]
  BY DEF LocalTypes, LocalsOK, AssignLabels, ReleaseLabels, DecLabels, PoolLabels

\* A write of a block changes that block and outdates every copy of it.
LEMMA WriteBlockStep ==
  ASSUME StoreTypes, CopiesOK, NEW b \in BlockNames, NEW obj \in Block \cup {None},
         WriteBlock(b, obj)
  PROVE  /\ blocks' \in [BlockNames -> Block \cup {None}]
         /\ bfresh' \subseteq bfresh
         /\ \A p \in bfresh' : p[2] # b /\ blocks'[p[2]] # None
         /\ blocks'[b] = obj
         /\ \A a \in BlockNames : a # b => blocks'[a] = blocks[a]
  BY DEF StoreTypes, CopiesOK, WriteBlock

\* A write of a handle changes that handle and outdates every copy of it.
LEMMA WriteHandleStep ==
  ASSUME StoreTypes, CopiesOK, NEW h \in Handles, NEW obj \in Handle \cup {None},
         WriteHandle(h, obj)
  PROVE  /\ handles' \in [Handles -> Handle \cup {None}]
         /\ hfresh' \subseteq hfresh
         /\ \A p \in hfresh' : p[2] # h /\ handles'[p[2]] # None
         /\ handles'[h] = obj
         /\ \A g \in Handles : g # h => handles'[g] = handles[g]
  BY DEF StoreTypes, CopiesOK, WriteHandle

\* The last conjunct of CopiesOK in a step that does not end in decPut.
LEMMA DecPutFrame ==
  ASSUME LocalTypes, CopiesOK, NEW c \in Clients, OthersKeep(c), pc'[c] # "decPut",
         \A d \in Clients : <<d, hid[d]>> \in hfresh' /\ d # c =>
           <<d, hid[d]>> \in hfresh /\ handles'[hid[d]] = handles[hid[d]]
  PROVE  \A d \in Clients :
           pc'[d] = "decPut" /\ <<d, hid'[d]>> \in hfresh'
             => num'[d] <= handles'[hid'[d]].block[blk'[d]]
  BY DEF LocalTypes, CopiesOK, OthersKeep, HandleCurrent

\* A step that writes neither a block nor a handle, and reads no handle.
LEMMA QuietStep ==
  ASSUME TypeInv, NEW c \in Clients, LocalTypes', OthersKeep(c), pc'[c] # "decPut",
         blocks' = blocks, handles' = handles, pool' \in {"enabled", "disabled"},
         \A p \in bfresh' : p \in Clients \X BlockNames /\ blocks[p[2]] # None,
         hfresh' \subseteq hfresh, grants' \subseteq grants, marked' = marked,
         released' \subseteq Handles
  PROVE  TypeInv'
<1>1. StoreTypes /\ LocalTypes /\ CopiesOK
  BY TypeInvParts
<1>2. StoreTypes'
  BY <1>1 DEF StoreTypes
<1>3. CopiesOK'
  BY <1>1, DecPutFrame DEF CopiesOK, HandleCurrent
<1> QED BY <1>2, <1>3 DEF TypeInv, TypeOK, StoreTypes, LocalTypes

\* A step that writes one block.
LEMMA BlockWriteStep ==
  ASSUME TypeInv, NEW c \in Clients, LocalTypes', OthersKeep(c), pc'[c] # "decPut",
         NEW b \in BlockNames, NEW obj \in Block \cup {None}, WriteBlock(b, obj),
         handles' = handles, pool' = pool, hfresh' = hfresh,
         grants' \subseteq Grant, marked' \subseteq BlockNames, released' \subseteq Handles
  PROVE  TypeInv'
<1>1. StoreTypes /\ LocalTypes /\ CopiesOK
  BY TypeInvParts
<1>2. StoreTypes'
  BY <1>1, WriteBlockStep DEF StoreTypes
<1>3. CopiesOK'
  BY <1>1, DecPutFrame, WriteBlockStep DEF CopiesOK, HandleCurrent
<1> QED BY <1>2, <1>3 DEF TypeInv, TypeOK, StoreTypes, LocalTypes

\* A step that writes one handle.
LEMMA HandleWriteStep ==
  ASSUME TypeInv, NEW c \in Clients, LocalTypes', OthersKeep(c), pc'[c] # "decPut",
         NEW h \in Handles, NEW obj \in Handle \cup {None}, WriteHandle(h, obj),
         blocks' = blocks, pool' = pool, bfresh' = bfresh,
         grants' = grants, marked' = marked, released' \subseteq Handles
  PROVE  TypeInv'
<1>1. StoreTypes /\ LocalTypes /\ CopiesOK
  BY TypeInvParts
<1>2. StoreTypes'
  BY <1>1, WriteHandleStep DEF StoreTypes
<1>3. \A d \in Clients : <<d, hid[d]>> \in hfresh' /\ d # c =>
        <<d, hid[d]>> \in hfresh /\ handles'[hid[d]] = handles[hid[d]]
  <2> TAKE d \in Clients
  <2> HAVE <<d, hid[d]>> \in hfresh' /\ d # c
  <2>1. <<d, hid[d]>> \in hfresh /\ hid[d] # h
    BY <1>1, WriteHandleStep
  <2>2. hid[d] \in Handles
    BY <2>1, <1>1 DEF StoreTypes
  <2> QED BY <2>1, <2>2, <1>1, WriteHandleStep
<1>4. CopiesOK'
  BY <1>1, <1>3, DecPutFrame, WriteHandleStep DEF CopiesOK, HandleCurrent
<1> QED BY <1>2, <1>4 DEF TypeInv, TypeOK, StoreTypes, LocalTypes

\* Starting a call preserves the type invariant.
LEMMA TypeInvStart ==
  ASSUME TypeInv, NEW c \in Clients,
         \/ \E h \in Handles : StartAutoAssign(c, h) \/ StartRelease(c, h)
         \/ StartDeleteIPPool(c)
  PROVE  TypeInv'
<1> USE TypeInvParts, NoListType
<1>1. ASSUME NEW h \in Handles, StartAutoAssign(c, h) PROVE TypeInv'
  <2>1. Fits("getPool", h, None)
    BY DEF Fits, Labels, AssignLabels, PoolLabels, BlockLabels, DecLabels
  <2>2. LocalTypes' /\ OthersKeep(c) /\ pc'[c] = "getPool"
    BY <1>1, <2>1, LocalsStep DEF StartAutoAssign
  <2> QED BY <1>1, <2>2, QuietStep DEF StartAutoAssign, StoreTypes, CopiesOK, store, copies
<1>2. ASSUME NEW h \in Handles, StartRelease(c, h) PROVE TypeInv'
  <2>1. Fits("relHandle", h, None)
    BY DEF Fits, Labels, ReleaseLabels, PoolLabels, BlockLabels, DecLabels
  <2>2. LocalTypes' /\ OthersKeep(c) /\ pc'[c] = "relHandle"
    BY <1>2, <2>1, LocalsStep DEF StartRelease
  <2> QED BY <1>2, <2>2, QuietStep DEF StartRelease, StoreTypes, CopiesOK, store, copies
<1>3. CASE StartDeleteIPPool(c)
  <2>1. Fits("poolList", hid[c], blk[c])
    BY <1>3 DEF StartDeleteIPPool, Fits, Labels, PoolLabels, BlockLabels, DecLabels,
                LocalTypes, LocalsOK
  <2>2. LocalTypes' /\ OthersKeep(c) /\ pc'[c] = "poolList"
    BY <1>3, <2>1, GotoStep DEF StartDeleteIPPool
  <2> QED BY <1>3, <2>2, QuietStep DEF StartDeleteIPPool, StoreTypes, CopiesOK, store, copies,
             history
<1> QED BY <1>1, <1>2, <1>3

\* The calls of AutoAssign preserve the type invariant.
LEMMA TypeInvAssign ==
  ASSUME TypeInv, NEW c \in Clients,
         \/ GetPool(c) \/ ListBlocks(c) \/ FindUnclaimedBlock(c) \/ CreateBlock(c)
         \/ IncGet(c) \/ IncDelete(c) \/ IncCreate(c) \/ IncUpdate(c)
         \/ UpdateBlock(c) \/ Requery(c) \/ RequeryDelete(c)
  PROVE  TypeInv'
<1> USE TypeInvParts DEF store, copies, history, AssignLabels, BlockLabels
<1>1. CASE GetPool(c)
  <2>1. Fits("listBlocks", hid[c], blk[c])
    BY <1>1, LabelFacts DEF GetPool, Fits, Labels, PoolLabels, DecLabels
  <2>2. LocalTypes' /\ OthersKeep(c) /\ pc'[c] # "decPut"
    BY <1>1, <2>1, GotoStep, ReturnStep DEF GetPool
  <2> QED BY <1>1, <2>2, QuietStep DEF GetPool, StoreTypes, CopiesOK
<1>2. CASE ListBlocks(c)
  <2>1. Fits("listUnclaimed", hid[c], blk[c])
    BY <1>2, LabelFacts DEF ListBlocks, Fits, Labels, PoolLabels, DecLabels
  <2>2. LocalTypes' /\ OthersKeep(c) /\ pc'[c] # "decPut"
    BY <1>2, <2>1, GotoStep, TryBlockStep, LabelFacts DEF ListBlocks
  <2> QED BY <1>2, <2>2, QuietStep DEF ListBlocks, StoreTypes, CopiesOK
<1>3. CASE FindUnclaimedBlock(c)
  <2>1. ASSUME NEW b \in BlockNames, Goto(c, "createBlock"), blk' = [blk EXCEPT ![c] = b],
               UNCHANGED <<hid, tries, num, cont, rem, list>>
        PROVE  LocalTypes' /\ OthersKeep(c) /\ pc'[c] # "decPut"
    <3>1. Fits("createBlock", hid[c], b)
      BY <1>3, LabelFacts DEF FindUnclaimedBlock, Fits, Labels, PoolLabels, DecLabels
    <3> QED BY <2>1, <3>1 DEF Goto, LocalTypes, LocalsOK, Fits, OthersKeep, tries
  <2>2. LocalTypes' /\ OthersKeep(c) /\ pc'[c] # "decPut"
    BY <1>3, <2>1, ReturnStep DEF FindUnclaimedBlock
  <2> QED BY <1>3, <2>2, QuietStep DEF FindUnclaimedBlock, StoreTypes, CopiesOK
<1>4. CASE CreateBlock(c)
  <2>1. hid[c] \in Handles /\ blk[c] \in BlockNames
    BY <1>4, LabelFacts DEF CreateBlock
  <2>2. CASE blocks[blk[c]] = None
    <3>1. LocalTypes' /\ OthersKeep(c) /\ pc'[c] # "decPut"
      BY <1>4, <2>1, <2>2, TryBlockStep DEF CreateBlock
    <3>2. StoreTypes'
      BY <1>4, <2>1, <2>2, BlockTypes DEF CreateBlock, StoreTypes
    <3>3. NewBlock # None
      BY BlockTypes, IPAMAssumption
    <3>4. \A p \in bfresh' : blocks'[p[2]] # None
      BY <1>4, <2>1, <2>2, <3>3 DEF CreateBlock, StoreTypes, CopiesOK
    <3>5. CopiesOK'
      BY <1>4, <2>2, <3>1, <3>4, DecPutFrame DEF CreateBlock, CopiesOK, HandleCurrent
    <3> QED BY <3>1, <3>2, <3>5 DEF TypeInv, TypeOK, StoreTypes, LocalTypes
  <2>3. CASE blocks[blk[c]] # None
    <3>1. Fits("panic", hid[c], blk[c])
      BY <2>1 DEF Fits, Labels, PoolLabels, DecLabels
    <3>2. LocalTypes' /\ OthersKeep(c) /\ pc'[c] # "decPut"
      BY <1>4, <2>3, <3>1, GotoStep DEF CreateBlock
    <3> QED BY <1>4, <2>3, <3>2, QuietStep DEF CreateBlock, StoreTypes, CopiesOK
  <2> QED BY <2>2, <2>3
<1>5. CASE IncGet(c)
  <2>1. hid[c] \in Handles /\ blk[c] \in BlockNames
    BY <1>5, LabelFacts DEF IncGet
  <2>2. \A label \in {"incCreate", "incDelete", "incUpdate"} : Fits(label, hid[c], blk[c])
    BY <2>1 DEF Fits, Labels, PoolLabels, DecLabels
  <2>3. LocalTypes' /\ OthersKeep(c) /\ pc'[c] # "decPut"
    BY <1>5, <2>2, GotoStep DEF IncGet
  <2>4. StoreTypes'
    BY <1>5, <2>1 DEF IncGet, StoreTypes
  <2>5. CopiesOK'
    BY <1>5, <2>1, <2>3, DecPutFrame DEF IncGet, CopiesOK, HandleCurrent
  <2> QED BY <2>3, <2>4, <2>5 DEF TypeInv, TypeOK, StoreTypes, LocalTypes
<1>6. CASE IncDelete(c)
  <2>1. hid[c] \in Handles /\ blk[c] \in BlockNames
    BY <1>6, LabelFacts DEF IncDelete
  <2>2. Fits("incCreate", hid[c], blk[c])
    BY <2>1 DEF Fits, Labels, PoolLabels, DecLabels
  <2>3. LocalTypes' /\ OthersKeep(c) /\ pc'[c] # "decPut"
    BY <1>6, <2>2, GotoStep DEF IncDelete
  <2> QED BY <1>6, <2>1, <2>3, HandleWriteStep DEF IncDelete, StoreTypes
<1>7. CASE IncCreate(c)
  <2>1. hid[c] \in Handles /\ blk[c] \in BlockNames
    BY <1>7, LabelFacts DEF IncCreate
  <2>2. LocalTypes' /\ OthersKeep(c) /\ pc'[c] # "decPut"
    BY <1>7, <2>1, IncrementedStep, RetryIncrementStep DEF IncCreate
  <2>3. IncrementBlock(NoHandle, blk[c], 1) \in Handle
    BY <2>1, HandleTypes
  <2>4. CASE handles[hid[c]] = None
    BY <1>7, <2>1, <2>2, <2>3, <2>4, HandleWriteStep DEF IncCreate, StoreTypes
  <2>5. CASE handles[hid[c]] # None
    BY <1>7, <2>2, <2>5, QuietStep DEF IncCreate, StoreTypes, CopiesOK
  <2> QED BY <2>4, <2>5
<1>8. CASE IncUpdate(c)
  <2>1. hid[c] \in Handles /\ blk[c] \in BlockNames
    BY <1>8, LabelFacts DEF IncUpdate
  <2>2. LocalTypes' /\ OthersKeep(c) /\ pc'[c] # "decPut"
    BY <1>8, <2>1, IncrementedStep, RetryIncrementStep, RetryAssignStep DEF IncUpdate
  <2>3. CASE HandleCurrent(c)
    <3>1. handles[hid[c]] \in Handle
      BY <2>1, <2>3 DEF HandleCurrent, CopiesOK, StoreTypes
    <3>2. IncrementBlock(handles[hid[c]], blk[c], 1) \in Handle
      BY <2>1, <3>1, HandleTypes
    <3> QED BY <1>8, <2>1, <2>2, <2>3, <3>2, HandleWriteStep
            DEF IncUpdate, StoreTypes, HandleConflict, HandleGone
  <2>4. CASE ~HandleCurrent(c)
    BY <1>8, <2>2, <2>4, QuietStep DEF IncUpdate, StoreTypes, CopiesOK
  <2> QED BY <2>3, <2>4
<1>9. CASE UpdateBlock(c)
  <2>1. hid[c] \in Handles /\ blk[c] \in BlockNames
    BY <1>9, LabelFacts DEF UpdateBlock
  <2>2. LocalTypes' /\ OthersKeep(c) /\ pc'[c] # "decPut"
    BY <1>9, <2>1, ReturnStep, StartDecStep DEF UpdateBlock
  <2>3. CASE BlockCurrent(c)
    <3>1. blocks[blk[c]] \in Block
      BY <2>1, <2>3 DEF BlockCurrent, CopiesOK, StoreTypes
    <3>2. PICK o \in FreeOrdinals(blocks[blk[c]]) :
            /\ WriteBlock(blk[c], Assign(blocks[blk[c]], o, hid[c]))
            /\ grants' = grants \cup {[handle |-> hid[c], blk |-> blk[c], ord |-> o]}
      BY <1>9, <2>3 DEF UpdateBlock, BlockConflict, BlockGone
    <3>3. o \in Ordinals
      BY <3>2 DEF FreeOrdinals
    <3>4. Assign(blocks[blk[c]], o, hid[c]) \in Block /\ grants' \subseteq Grant
      BY <2>1, <3>1, <3>2, <3>3, BlockTypes DEF Grant, StoreTypes
    <3> QED BY <1>9, <2>1, <2>2, <3>2, <3>4, BlockWriteStep DEF UpdateBlock, StoreTypes
  <2>4. CASE ~BlockCurrent(c)
    BY <1>9, <2>2, <2>4, QuietStep DEF UpdateBlock, StoreTypes, CopiesOK
  <2> QED BY <2>3, <2>4
<1>10. CASE Requery(c)
  <2>1. hid[c] \in Handles /\ blk[c] \in BlockNames /\ mid[c] + 1 \in Nat
    BY <1>10, LabelFacts DEF Requery
  <2>2. Fits("requeryDelete", hid[c], blk[c])
    BY <2>1 DEF Fits, Labels, PoolLabels, DecLabels
  <2>3. LocalTypes' /\ OthersKeep(c) /\ pc'[c] # "decPut"
    BY <1>10, <2>1, <2>2, GotoStep, TryBlockStep, RetryAssignStep DEF Requery
  <2> QED BY <1>10, <2>1, <2>3, QuietStep DEF Requery, StoreTypes, CopiesOK
<1>11. CASE RequeryDelete(c)
  <2>1. hid[c] \in Handles /\ blk[c] \in BlockNames
    BY <1>11, LabelFacts DEF RequeryDelete
  <2>2. LocalTypes' /\ OthersKeep(c) /\ pc'[c] # "decPut"
    BY <1>11, <2>1, RetryAssignStep DEF RequeryDelete
  <2> QED BY <1>11, <2>1, <2>2, BlockWriteStep DEF RequeryDelete, StoreTypes
<1> QED BY <1>1, <1>2, <1>3, <1>4, <1>5, <1>6, <1>7, <1>8, <1>9, <1>10, <1>11

\* The calls of decrementHandle preserve the type invariant.
LEMMA TypeInvDecrement ==
  ASSUME TypeInv, NEW c \in Clients,
         DecGet(c) \/ DecQueryDelete(c) \/ DecPut(c) \/ DecDelete(c)
  PROVE  TypeInv'
<1> USE TypeInvParts DEF store, copies, history, DecLabels, BlockLabels
<1>0. /\ hid[c] \in Handles /\ blk[c] \in BlockNames /\ num[c] \in Nat
      /\ released \subseteq Handles
  BY LabelFacts DEF DecGet, DecQueryDelete, DecPut, DecDelete, StoreTypes
<1>1. CASE DecGet(c)
  <2>1. \A label \in {"decQueryDelete", "decPut"} : Fits(label, hid[c], blk[c])
    BY <1>0 DEF Fits, Labels, PoolLabels
  <2>2. CASE pc'[c] # "decPut"
    <3>1. /\ LocalTypes' /\ OthersKeep(c) /\ released' \subseteq Handles
      BY <1>0, <1>1, <2>1, GotoStep, DecDoneStep DEF DecGet
    <3>2. hfresh' \subseteq hfresh
      BY <1>1, <2>2 DEF DecGet, Goto, LocalTypes
    <3> QED BY <1>1, <2>2, <3>1, <3>2, QuietStep DEF DecGet, StoreTypes, CopiesOK
  <2>3. CASE pc'[c] = "decPut"
    <3>1. /\ Goto(c, "decPut") /\ UNCHANGED <<locals, released>>
          /\ handles[hid[c]] # None /\ handles[hid[c]].block[blk[c]] >= num[c]
          /\ hfresh' = hfresh \cup {<<c, hid[c]>>}
      BY <1>0, <1>1, <2>3, DecDoneStep DEF DecGet, CanDecrement, Goto, LocalTypes
    <3>2. LocalTypes' /\ OthersKeep(c)
      BY <2>1, <3>1, GotoStep
    <3>3. StoreTypes'
      BY <1>0, <1>1, <3>1 DEF DecGet, StoreTypes
    <3>4. num[c] <= handles[hid[c]].block[blk[c]]
      <4>1. handles[hid[c]].block[blk[c]] \in Nat
        BY <1>0, <3>1 DEF StoreTypes, Handle
      <4> QED BY <1>0, <3>1, <4>1
    <3>5. CopiesOK'
      BY <1>0, <1>1, <3>1, <3>2, <3>4 DEF DecGet, CopiesOK, HandleCurrent, OthersKeep, locals
    <3> QED BY <3>2, <3>3, <3>5 DEF TypeInv, TypeOK, StoreTypes, LocalTypes
  <2> QED BY <2>2, <2>3
<1>2. CASE DecQueryDelete(c)
  <2>1. /\ LocalTypes' /\ OthersKeep(c) /\ pc'[c] # "decPut" /\ released' \subseteq Handles
    BY <1>0, <1>2, DecDoneStep DEF DecQueryDelete
  <2> QED BY <1>0, <1>2, <2>1, HandleWriteStep DEF DecQueryDelete
<1>3. CASE DecPut(c)
  <2> DEFINE hd == DecrementBlock(handles[hid[c]], blk[c], num[c])
  <2>1. Fits("decDelete", hid[c], blk[c])
    BY <1>0 DEF Fits, Labels, PoolLabels
  <2>2. CASE HandleCurrent(c)
    <3>1. handles[hid[c]] \in Handle /\ num[c] <= handles[hid[c]].block[blk[c]]
      BY <1>0, <1>3, <2>2 DEF DecPut, HandleCurrent, CopiesOK, StoreTypes
    <3>2. hd \in Handle /\ MarkHandle(hd) \in Handle
      BY <1>0, <3>1, HandleTypes
    <3> HIDE DEF hd
    <3>3. \/ /\ WriteHandle(hid[c], MarkHandle(hd)) /\ Goto(c, "decDelete")
             /\ UNCHANGED <<locals, released>>
          \/ WriteHandle(hid[c], hd) /\ DecDone(c)
      BY <1>3, <2>2 DEF DecPut, HandleConflict, HandleGone, hd
    <3>4. /\ LocalTypes' /\ OthersKeep(c) /\ pc'[c] # "decPut" /\ released' \subseteq Handles
      BY <1>0, <2>1, <3>3, GotoStep, DecDoneStep
    <3>5. UNCHANGED <<blocks, pool, bfresh, grants, marked>>
      BY <1>3 DEF DecPut
    <3> QED BY <1>0, <3>2, <3>3, <3>4, <3>5, HandleWriteStep
  <2>3. CASE ~HandleCurrent(c)
    <3>1. ASSUME Goto(c, "decGet"), inner' = [inner EXCEPT ![c] = @ + 1],
                 UNCHANGED <<hid, blk, outer, mid, num, cont, rem, list, released>>
          PROVE  /\ LocalTypes' /\ OthersKeep(c) /\ pc'[c] # "decPut"
                 /\ released' \subseteq Handles
      <4>1. Fits("decGet", hid[c], blk[c])
        BY <1>0 DEF Fits, Labels, PoolLabels
      <4> QED BY <1>0, <3>1, <4>1 DEF Goto, LocalTypes, LocalsOK, Fits, OthersKeep
    <3>2. /\ LocalTypes' /\ OthersKeep(c) /\ pc'[c] # "decPut" /\ released' \subseteq Handles
      BY <1>0, <1>3, <2>3, <3>1, DecDoneStep DEF DecPut
    <3> QED BY <1>3, <2>3, <3>2, QuietStep DEF DecPut, StoreTypes, CopiesOK
  <2> QED BY <2>2, <2>3
<1>4. CASE DecDelete(c)
  <2>1. /\ LocalTypes' /\ OthersKeep(c) /\ pc'[c] # "decPut" /\ released' \subseteq Handles
    BY <1>0, <1>4, DecDoneStep DEF DecDelete
  <2> QED BY <1>0, <1>4, <2>1, HandleWriteStep DEF DecDelete
<1> QED BY <1>1, <1>2, <1>3, <1>4

\* The calls of ReleaseByHandle preserve the type invariant.
LEMMA TypeInvRelease ==
  ASSUME TypeInv, NEW c \in Clients,
         \/ RelHandle(c) \/ RelHandleDelete(c) \/ RelGet(c) \/ RelGetDelete(c)
         \/ RelMark(c) \/ RelDelete(c) \/ RelUpdate(c)
  PROVE  TypeInv'
<1> USE TypeInvParts DEF store, copies, history, ReleaseLabels, BlockLabels
<1>0. /\ hid[c] \in Handles /\ num[c] \in Nat /\ rem[c] \in SUBSET BlockNames
      /\ released \subseteq Handles
      /\ pc[c] \notin {"relHandle", "relHandleDelete"} => blk[c] \in BlockNames
  BY LabelFacts DEF RelHandle, RelHandleDelete, RelGet, RelGetDelete, RelMark, RelDelete,
                    RelUpdate, StoreTypes
<1>1. CASE RelHandle(c)
  <2>1. Fits("relHandleDelete", hid[c], blk[c])
    BY <1>0 DEF Fits, Labels, PoolLabels, DecLabels
  <2>2. /\ LocalTypes' /\ OthersKeep(c) /\ pc'[c] # "decPut" /\ released' \subseteq Handles
    BY <1>0, <1>1, <2>1, GotoStep, NextBlockStep DEF RelHandle
  <2> QED BY <1>1, <2>2, QuietStep DEF RelHandle, StoreTypes, CopiesOK
<1>2. CASE RelHandleDelete(c)
  <2>1. /\ LocalTypes' /\ OthersKeep(c) /\ pc'[c] # "decPut" /\ released' \subseteq Handles
    BY <1>0, <1>2, NextBlockStep DEF RelHandleDelete
  <2> QED BY <1>0, <1>2, <2>1, HandleWriteStep DEF RelHandleDelete
<1>3. CASE RelGet(c)
  <2>0. blk[c] \in BlockNames
    BY <1>0, <1>3 DEF RelGet
  <2>1. \A label \in {"relGetDelete", "relMark", "relUpdate"} : Fits(label, hid[c], blk[c])
    BY <1>0, <2>0 DEF Fits, Labels, PoolLabels, DecLabels
  <2>2. ASSUME NEW label \in {"relMark", "relUpdate"}, NEW n \in Nat, Goto(c, label),
               num' = [num EXCEPT ![c] = n],
               UNCHANGED <<hid, blk, tries, cont, rem, list, released>>
        PROVE  /\ LocalTypes' /\ OthersKeep(c) /\ pc'[c] # "decPut"
               /\ released' \subseteq Handles
    BY <1>0, <2>1, <2>2 DEF Goto, LocalTypes, LocalsOK, Fits, OthersKeep, tries
  <2>3. Cardinality(OwnedBy(blocks[blk[c]], hid[c])) \in Nat
    BY OwnedFinite
  <2>4. /\ LocalTypes' /\ OthersKeep(c) /\ pc'[c] # "decPut" /\ released' \subseteq Handles
    BY <1>0, <1>3, <2>1, <2>2, <2>3, GotoStep, NextBlockStep DEF RelGet
  <2> QED BY <1>3, <2>0, <2>4, QuietStep DEF RelGet, StoreTypes, CopiesOK
<1>4. CASE RelGetDelete(c)
  <2>1. /\ LocalTypes' /\ OthersKeep(c) /\ pc'[c] # "decPut" /\ released' \subseteq Handles
    BY <1>0, <1>4, NextBlockStep DEF RelGetDelete
  <2>2. blk[c] \in BlockNames
    BY <1>0, <1>4 DEF RelGetDelete
  <2> QED BY <1>4, <2>1, <2>2, BlockWriteStep DEF RelGetDelete, StoreTypes
<1>5. CASE RelMark(c)
  <2>0. blk[c] \in BlockNames
    BY <1>0, <1>5 DEF RelMark
  <2>1. Fits("relDelete", hid[c], blk[c])
    BY <1>0, <2>0 DEF Fits, Labels, PoolLabels, DecLabels
  <2>2. LocalTypes' /\ OthersKeep(c) /\ pc'[c] # "decPut"
    BY <1>0, <1>5, <2>0, <2>1, GotoStep, RetryReleaseStep, StartDecStep DEF RelMark
  <2>3. CASE BlockCurrent(c)
    <3>1. MarkDeleted(Release(blocks[blk[c]], hid[c])) \in Block
      <4>1. blocks[blk[c]] \in Block
        BY <2>0, <2>3 DEF BlockCurrent, CopiesOK, StoreTypes
      <4>2. 0 \in Ordinals
        BY BlockAssumption DEF Ordinals
      <4> QED BY <1>0, <4>1, <4>2, BlockTypes
    <3> QED BY <1>5, <2>0, <2>2, <2>3, <3>1, BlockWriteStep
            DEF RelMark, StoreTypes, BlockConflict, BlockGone
  <2>4. CASE ~BlockCurrent(c)
    BY <1>5, <2>2, <2>4, QuietStep DEF RelMark, StoreTypes, CopiesOK
  <2> QED BY <2>3, <2>4
<1>6. CASE RelDelete(c)
  <2>1. blk[c] \in BlockNames
    BY <1>0, <1>6 DEF RelDelete
  <2>2. LocalTypes' /\ OthersKeep(c) /\ pc'[c] # "decPut"
    BY <1>0, <1>6, <2>1, StartDecStep DEF RelDelete
  <2> QED BY <1>6, <2>1, <2>2, BlockWriteStep DEF RelDelete, StoreTypes
<1>7. CASE RelUpdate(c)
  <2>0. blk[c] \in BlockNames
    BY <1>0, <1>7 DEF RelUpdate
  <2>1. LocalTypes' /\ OthersKeep(c) /\ pc'[c] # "decPut"
    BY <1>0, <1>7, <2>0, ReturnStep, RetryReleaseStep, StartDecStep DEF RelUpdate
  <2>2. CASE BlockCurrent(c)
    <3>1. Release(blocks[blk[c]], hid[c]) \in Block
      <4>1. blocks[blk[c]] \in Block
        BY <2>0, <2>2 DEF BlockCurrent, CopiesOK, StoreTypes
      <4>2. 0 \in Ordinals
        BY BlockAssumption DEF Ordinals
      <4> QED BY <1>0, <4>1, <4>2, BlockTypes
    <3> QED BY <1>7, <2>0, <2>1, <2>2, <3>1, BlockWriteStep
            DEF RelUpdate, StoreTypes, BlockConflict, BlockGone
  <2>3. CASE ~BlockCurrent(c)
    BY <1>7, <2>1, <2>3, QuietStep DEF RelUpdate, StoreTypes, CopiesOK
  <2> QED BY <2>2, <2>3
<1> QED BY <1>1, <1>2, <1>3, <1>4, <1>5, <1>6, <1>7

\* The calls of DeleteIPPool preserve the type invariant.
LEMMA TypeInvPool ==
  ASSUME TypeInv, NEW c \in Clients,
         PoolList(c) \/ PoolMark(c) \/ PoolDelete(c) \/ PoolReturn(c)
  PROVE  TypeInv'
<1> USE TypeInvParts DEF store, copies, history, PoolLabels, BlockLabels
<1>1. CASE PoolList(c)
  <2> DEFINE l == [b \in BlockNames |->
                      IF blocks[b] = None THEN "none"
                      ELSE IF ~Empty(blocks[b]) THEN "used"
                      ELSE IF blocks[b].deleted THEN "marked" ELSE "empty"]
  <2>1. l \in [BlockNames -> Listed]
    BY DEF Listed
  <2>2. NextListed(c, l)
    BY <1>1 DEF PoolList
  <2> HIDE DEF l
  <2>3. LocalTypes' /\ OthersKeep(c) /\ pc'[c] # "decPut"
    BY <2>1, <2>2, NextListedStep
  <2> QED BY <1>1, <2>3, QuietStep DEF PoolList, StoreTypes, CopiesOK
<1>2. CASE PoolMark(c)
  <2>0. blk[c] \in BlockNames /\ hid[c] = None
    BY <1>2, LabelFacts DEF PoolMark
  <2>1. Fits("poolDelete", hid[c], blk[c])
    BY <2>0 DEF Fits, Labels
  <2>2. LocalTypes' /\ OthersKeep(c) /\ pc'[c] # "decPut"
    BY <1>2, <2>1, GotoStep, PoolEndStep DEF PoolMark, PoolFailed
  <2>3. CASE BlockCurrent(c)
    <3>1. MarkDeleted(blocks[blk[c]]) \in Block
      <4>1. blocks[blk[c]] \in Block
        BY <2>0, <2>3 DEF BlockCurrent, CopiesOK, StoreTypes
      <4> QED BY <4>1 DEF Block, MarkDeleted
    <3> QED BY <1>2, <2>0, <2>2, <2>3, <3>1, BlockWriteStep DEF PoolMark, StoreTypes
  <2>4. CASE ~BlockCurrent(c)
    BY <1>2, <2>2, <2>4, QuietStep DEF PoolMark, StoreTypes, CopiesOK
  <2> QED BY <2>3, <2>4
<1>3. CASE PoolDelete(c)
  <2>1. blk[c] \in BlockNames /\ list[c] \in [BlockNames -> Listed]
    BY <1>3, LabelFacts DEF PoolDelete
  <2>2. LocalTypes' /\ OthersKeep(c) /\ pc'[c] # "decPut"
    BY <1>3, <2>1, NextListedStep, PoolEndStep DEF PoolDelete, PoolFailed
  <2> QED BY <1>3, <2>1, <2>2, BlockWriteStep DEF PoolDelete, StoreTypes
<1>4. CASE PoolReturn(c)
  <2>1. LocalTypes' /\ OthersKeep(c) /\ pc'[c] # "decPut"
    BY <1>4, ReturnStep DEF PoolReturn
  <2> QED BY <1>4, <2>1, QuietStep DEF PoolReturn, StoreTypes, CopiesOK
<1> QED BY <1>1, <1>2, <1>3, <1>4

\* Faults and the administrator preserve the type invariant.
LEMMA TypeInvEnvironment ==
  ASSUME TypeInv
  PROVE  /\ \A c \in Clients : ApiError(c) \/ Crash(c) \/ Restart(c) => TypeInv'
         /\ ChangePool => TypeInv'
<1> USE TypeInvParts DEF store, copies, history
<1>1. ASSUME NEW c \in Clients, ApiError(c) PROVE TypeInv'
  <2>1. /\ LocalTypes' /\ OthersKeep(c) /\ pc'[c] # "decPut" /\ released' \subseteq Handles
    <3>0. released \subseteq Handles
      BY DEF StoreTypes
    <3>1. CASE pc[c] \in {"poolList", "poolMark", "poolDelete"} /\ PoolFailed(c)
               /\ UNCHANGED released
      BY <3>0, <3>1, PoolEndStep DEF PoolFailed
    <3>2. CASE Return(c) /\ UNCHANGED released
      BY <3>0, <3>2, ReturnStep
    <3>3. CASE pc[c] \in AssignLabels /\ RetryAssign(c) /\ UNCHANGED released
      BY <3>0, <3>3, LabelFacts, RetryAssignStep
    <3>4. CASE pc[c] = "updateBlock" /\ StartDec(c, 1, "retry") /\ UNCHANGED released
      BY <3>0, <3>4, LabelFacts, StartDecStep DEF AssignLabels, BlockLabels
    <3>5. CASE pc[c] \in DecLabels /\ DecDone(c)
      BY <3>0, <3>5, LabelFacts, DecDoneStep DEF BlockLabels
    <3> QED BY <1>1, <3>1, <3>2, <3>3, <3>4, <3>5 DEF ApiError
  <2> QED BY <1>1, <2>1, QuietStep DEF ApiError, DropCopies, StoreTypes, CopiesOK
<1>2. ASSUME NEW c \in Clients, Crash(c) PROVE TypeInv'
  <2>1. LocalTypes' /\ OthersKeep(c) /\ pc'[c] # "decPut"
    BY <1>2, ReturnStep DEF Crash
  <2> QED BY <1>2, <2>1, QuietStep DEF Crash, DropCopies, StoreTypes, CopiesOK
<1>3. ASSUME NEW c \in Clients, Restart(c) PROVE TypeInv'
  <2>1. LocalTypes' /\ OthersKeep(c) /\ pc'[c] # "decPut"
    BY <1>3, ReturnStep DEF Restart
  <2> QED BY <1>3, <2>1, QuietStep DEF Restart, StoreTypes, CopiesOK
<1>4. ASSUME ChangePool PROVE TypeInv'
  BY <1>4 DEF ChangePool, locals, TypeInv, TypeOK, LocalsOK, CopiesOK, HandleCurrent
<1> QED BY <1>1, <1>2, <1>3, <1>4

\* The type invariant holds initially.
LEMMA TypeInvInit == Init => TypeInv
<1> SUFFICES ASSUME Init PROVE TypeInv
  OBVIOUS
<1>1. TypeOK
  BY NoListType DEF Init, TypeOK, Labels
<1>2. LocalsOK
  BY DEF Init, LocalsOK, PoolLabels, BlockLabels, DecLabels
<1>3. CopiesOK
  BY DEF Init, CopiesOK
<1> QED BY <1>1, <1>2, <1>3 DEF TypeInv

\* Every step preserves the type invariant.
LEMMA TypeInvNext == TypeInv /\ [Next]_vars => TypeInv'
<1> SUFFICES ASSUME TypeInv, [Next]_vars PROVE TypeInv'
  OBVIOUS
<1>1. ASSUME NEW c \in Clients, Call(c) PROVE TypeInv'
  BY <1>1, TypeInvAssign, TypeInvDecrement, TypeInvRelease, TypeInvPool DEF Call
<1>2. CASE Next
  BY <1>1, <1>2, TypeInvStart, TypeInvEnvironment DEF Next
<1>3. CASE UNCHANGED vars
  BY <1>3 DEF vars, store, locals, copies, history, TypeInv, TypeOK, LocalsOK, CopiesOK,
              HandleCurrent
<1> QED BY <1>2, <1>3

\* The type invariant, with what a label says of a call's locals and copies,
\* holds in every reachable state.
LEMMA TypeInvHolds == Spec => []TypeInv
<1>1. TypeInv /\ [Next]_vars => TypeInv'
  BY TypeInvNext
<1> QED BY <1>1, TypeInvInit, PTL DEF Spec

\* In every reachable state the objects and the clients' locals have the
\* types TypeOK gives them; in particular a handle's counters never go below
\* zero and no call works on a block outside the pool.
THEOREM TypeCorrect == Spec => []TypeOK
<1>1. TypeInv => TypeOK
  BY DEF TypeInv
<1> QED BY <1>1, TypeInvHolds, PTL

-----------------------------------------------------------------------------
(* Reserved addresses                                                      *)

Keeps(bk) == \A o \in Reserved : bk.alloc[o] = ReservedHandle

\* The operators on blocks leave the reserved addresses alone: they are not
\* free, and their owner is no handle.
LEMMA KeepsReserved ==
  /\ Keeps(NewBlock)
  /\ \A bk \in Block, h \in Handles : Keeps(bk) =>
       /\ \A o \in FreeOrdinals(bk) : Keeps(Assign(bk, o, h))
       /\ Keeps(Release(bk, h)) /\ Keeps(MarkDeleted(bk)) /\ Keeps(MarkDeleted(Release(bk, h)))
BY BlockAssumption DEF Keeps, NewBlock, Assign, Release, MarkDeleted, FreeOrdinals, Block

\* What a write of block b has to show.
LEMMA ReservedWrite ==
  ASSUME TypeInv, ReservedKept, NEW b \in BlockNames, NEW obj, WriteBlock(b, obj),
         obj = None \/ Keeps(obj)
  PROVE  ReservedKept'
BY DEF ReservedKept, WriteBlock, Keeps, TypeInv, TypeOK

LEMMA ReservedNext == TypeInv /\ ReservedKept /\ [Next]_vars => ReservedKept'
<1> SUFFICES ASSUME TypeInv, ReservedKept, [Next]_vars PROVE ReservedKept'
  OBVIOUS
<1>u. blocks' = blocks => ReservedKept'
  BY DEF ReservedKept
<1>1. ASSUME NEW c \in Clients, CreateBlock(c) PROVE ReservedKept'
  <2>1. blk[c] \in BlockNames
    BY <1>1 DEF CreateBlock, TypeInv, LocalsOK, BlockLabels
  <2>2. CASE blocks' = [blocks EXCEPT ![blk[c]] = NewBlock]
    BY <2>1, <2>2, KeepsReserved DEF ReservedKept, Keeps, TypeInv, TypeOK
  <2> QED BY <1>1, <1>u, <2>2 DEF CreateBlock
<1>2. ASSUME NEW c \in Clients, UpdateBlock(c) PROVE ReservedKept'
  <2>1. blk[c] \in BlockNames /\ hid[c] \in Handles
    BY <1>2 DEF UpdateBlock, TypeInv, LocalsOK, BlockLabels, PoolLabels
  <2>2. CASE BlockCurrent(c)
    <3>1. blocks[blk[c]] \in Block /\ Keeps(blocks[blk[c]])
      BY <2>1, <2>2 DEF BlockCurrent, TypeInv, TypeOK, CopiesOK, ReservedKept, Keeps
    <3>2. PICK o \in FreeOrdinals(blocks[blk[c]]) :
            WriteBlock(blk[c], Assign(blocks[blk[c]], o, hid[c]))
      BY <1>2, <2>2 DEF UpdateBlock, BlockConflict, BlockGone
    <3>3. Keeps(Assign(blocks[blk[c]], o, hid[c]))
      BY <2>1, <3>1, KeepsReserved
    <3> QED BY <2>1, <3>2, <3>3, ReservedWrite
  <2> QED BY <1>2, <1>u, <2>2 DEF UpdateBlock
<1>3. ASSUME NEW c \in Clients, RelMark(c) \/ RelUpdate(c) PROVE ReservedKept'
  <2>1. blk[c] \in BlockNames /\ hid[c] \in Handles
    BY <1>3 DEF RelMark, RelUpdate, TypeInv, LocalsOK, BlockLabels, PoolLabels
  <2>2. CASE BlockCurrent(c)
    <3>1. blocks[blk[c]] \in Block /\ Keeps(blocks[blk[c]])
      BY <2>1, <2>2 DEF BlockCurrent, TypeInv, TypeOK, CopiesOK, ReservedKept, Keeps
    <3>2. \/ WriteBlock(blk[c], MarkDeleted(Release(blocks[blk[c]], hid[c])))
          \/ WriteBlock(blk[c], Release(blocks[blk[c]], hid[c]))
      BY <1>3, <2>2 DEF RelMark, RelUpdate, BlockConflict, BlockGone
    <3>3. /\ Keeps(MarkDeleted(Release(blocks[blk[c]], hid[c])))
          /\ Keeps(Release(blocks[blk[c]], hid[c]))
      BY <2>1, <3>1, KeepsReserved
    <3> QED BY <2>1, <3>2, <3>3, ReservedWrite
  <2> QED BY <1>3, <1>u, <2>2 DEF RelMark, RelUpdate
<1>4. ASSUME NEW c \in Clients, PoolMark(c) PROVE ReservedKept'
  <2>1. blk[c] \in BlockNames
    BY <1>4 DEF PoolMark, TypeInv, LocalsOK, BlockLabels
  <2>2. CASE BlockCurrent(c)
    <3>1. blocks[blk[c]] \in Block /\ Keeps(blocks[blk[c]])
      BY <2>1, <2>2 DEF BlockCurrent, TypeInv, TypeOK, CopiesOK, ReservedKept, Keeps
    <3>2. WriteBlock(blk[c], MarkDeleted(blocks[blk[c]]))
      BY <1>4, <2>2 DEF PoolMark
    <3>3. Keeps(MarkDeleted(blocks[blk[c]]))
      BY <3>1 DEF Keeps, MarkDeleted
    <3> QED BY <2>1, <3>2, <3>3, ReservedWrite
  <2> QED BY <1>4, <1>u, <2>2 DEF PoolMark
<1>5. ASSUME NEW c \in Clients,
             RequeryDelete(c) \/ RelGetDelete(c) \/ RelDelete(c) \/ PoolDelete(c)
      PROVE  ReservedKept'
  <2>1. blk[c] \in BlockNames
    BY <1>5 DEF RequeryDelete, RelGetDelete, RelDelete, PoolDelete, TypeInv, LocalsOK, BlockLabels
  <2>2. WriteBlock(blk[c], None)
    BY <1>5 DEF RequeryDelete, RelGetDelete, RelDelete, PoolDelete
  <2> QED BY <2>1, <2>2, ReservedWrite
<1>6. ASSUME NEW c \in Clients, Call(c) PROVE ReservedKept'
  <2>1. ASSUME GetPool(c) \/ ListBlocks(c) \/ FindUnclaimedBlock(c)
                 \/ IncGet(c) \/ IncDelete(c) \/ IncCreate(c) \/ IncUpdate(c) \/ Requery(c)
        PROVE  blocks' = blocks
    BY <2>1 DEF GetPool, ListBlocks, FindUnclaimedBlock, IncGet, IncDelete, IncCreate, IncUpdate,
                Requery, store
  <2>2. ASSUME DecGet(c) \/ DecQueryDelete(c) \/ DecPut(c) \/ DecDelete(c)
                 \/ RelHandle(c) \/ RelHandleDelete(c) \/ RelGet(c) \/ PoolList(c) \/ PoolReturn(c)
        PROVE  blocks' = blocks
    BY <2>2 DEF DecGet, DecQueryDelete, DecPut, DecDelete, RelHandle, RelHandleDelete, RelGet,
                PoolList, PoolReturn, store
  <2> QED BY <1>6, <1>u, <1>1, <1>2, <1>3, <1>4, <1>5, <2>1, <2>2 DEF Call
<1>7. ASSUME NEW c \in Clients,
             \/ \E h \in Handles : StartAutoAssign(c, h) \/ StartRelease(c, h)
             \/ StartDeleteIPPool(c) \/ ApiError(c) \/ Crash(c) \/ Restart(c)
      PROVE  ReservedKept'
  BY <1>7, <1>u DEF StartAutoAssign, StartRelease, StartDeleteIPPool, ApiError, Crash, Restart, store
<1>8. CASE ChangePool
  BY <1>8, <1>u DEF ChangePool
<1>9. CASE UNCHANGED vars
  BY <1>9, <1>u DEF vars, store
<1> QED BY <1>6, <1>7, <1>8, <1>9 DEF Next

\* The addresses outside a VLAN pool's range stay reserved in every block,
\* also when clients share a handle.
THEOREM ReservedStay == Spec => []ReservedKept
<1>1. Init => ReservedKept
  BY DEF Init, ReservedKept
<1>2. TypeInv /\ ReservedKept /\ [Next]_vars => ReservedKept'
  BY ReservedNext
<1> QED BY <1>1, <1>2, TypeInvHolds, PTL DEF Spec
=============================================================================
