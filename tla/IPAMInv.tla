------------------------------- MODULE IPAMInv ------------------------------
(***************************************************************************)
(* The inductive invariant of IPAM: what is true between the API calls of  *)
(* a running AutoAssign or ReleaseByHandle, on which the safety properties *)
(* rest.  TLC checks it on small instances; module IPAMSafety proves it.   *)
(***************************************************************************)
EXTENDS IPAM

\* Where a call has a block at hand.
BlockLabels ==
  {"createBlock", "incGet", "incDelete", "incCreate", "incUpdate", "updateBlock",
   "requery", "requeryDelete", "relGet", "relGetDelete", "relMark", "relDelete",
   "relUpdate", "poolMark", "poolDelete"} \cup DecLabels

\* A running call knows its handle, and its block once it has chosen one.
LocalsOK ==
  \A c \in Clients :
    /\ pc[c] \in {"idle"} \cup PoolLabels => hid[c] = None
    /\ pc[c] \notin {"idle"} \cup PoolLabels => hid[c] \in Handles
    /\ pc[c] \in BlockLabels => blk[c] \in BlockNames

\* A current copy is a copy of an object that exists, and it still passes the
\* check DecrementBlock made on it.
CopiesOK ==
  /\ \A p \in bfresh : blocks[p[2]] # None
  /\ \A p \in hfresh : handles[p[2]] # None
  /\ \A c \in Clients :
       pc[c] = "decPut" /\ HandleCurrent(c)
         => num[c] <= handles[hid[c]].block[blk[c]]

TypeInv == TypeOK /\ LocalsOK /\ CopiesOK

-----------------------------------------------------------------------------
(* From here on handles are not shared.                                    *)

\* One call at a time works on a handle.
OneCallPerHandle ==
  \A c, d \in Clients : hid[c] = hid[d] /\ hid[c] # None => c = d

\* A handle never under-counts, a handle marked deleted counts nothing, and a
\* handle that has been released is recorded nowhere.
HandleSafe(h) ==
  /\ handles[h] # None /\ handles[h].deleted => \A b \in BlockNames : handles[h].block[b] = 0
  /\ \A b \in BlockNames : Cardinality(Stored(h, b)) <= Count(h, b)
  /\ h \in released => \A b \in BlockNames : Stored(h, b) = {}

\* While a call is between its handle write and its block write, in either
\* order, the handle counts more than the block holds: by the address about
\* to be recorded, or by the addresses already freed.  A call about to delete
\* the handle by name still finds it marked, or gone, and one about to
\* increment it finds it in use.
CallCovered(c) ==
  /\ pc[c] = "updateBlock" =>
       Cardinality(Stored(hid[c], blk[c])) + 1 <= Count(hid[c], blk[c])
  /\ pc[c] \in {"decGet", "decPut"} =>
       Cardinality(Stored(hid[c], blk[c])) + num[c] <= Count(hid[c], blk[c])
  /\ pc[c] \in {"relMark", "relDelete", "relUpdate"} =>
       num[c] <= Count(hid[c], blk[c])
  /\ pc[c] \in {"incDelete", "decQueryDelete", "decDelete", "relHandleDelete"} =>
       handles[hid[c]] = None \/ handles[hid[c]].deleted
  /\ pc[c] = "incUpdate" => handles[hid[c]] # None /\ ~handles[hid[c]].deleted

\* What ReleaseByHandle has left to do: every block that still lists its handle
\* is the current one, before its write, or a later one.
Releasing(c) ==
  \/ pc[c] \in ReleaseLabels \ {"relHandle", "relHandleDelete"}
  \/ pc[c] \in DecLabels /\ cont[c] = "release"
Assigning(c) ==
  \/ pc[c] \in AssignLabels
  \/ pc[c] \in DecLabels /\ cont[c] # "release"

CallReleases(c) ==
  /\ Releasing(c) =>
       \A b \in BlockNames :
         \/ Stored(hid[c], b) = {}
         \/ b \in rem[c]
         \/ b = blk[c] /\ pc[c] \in ReleaseLabels
  /\ Assigning(c) => hid[c] \notin released
  /\ Releasing(c) \/ pc[c] \in {"relHandle", "relHandleDelete"} =>
       \A g \in grants : g.handle # hid[c]

\* A block is deleted by name only after it was marked, and marked only with a
\* copy that shows it empty.
CallMarks(c) ==
  /\ pc[c] \in {"requeryDelete", "relGetDelete", "relDelete", "poolDelete"} =>
       blk[c] \in marked
  /\ pc[c] = "relMark" /\ BlockCurrent(c) => Empty(Release(blocks[blk[c]], hid[c]))
  /\ pc[c] = "poolMark" /\ BlockCurrent(c) => Empty(blocks[blk[c]])
  /\ \A b \in BlockNames :
       /\ pc[c] \notin {"poolMark", "poolDelete"} => list[c][b] = "none"
       /\ list[c][b] = "marked" => b \in marked
       /\ list[c][b] = "empty" /\ <<c, b>> \in bfresh => Empty(blocks[b])

\* The mark in a block agrees with the history, and what was granted from a
\* block that was never marked is recorded there.
BlocksSafe ==
  /\ \A b \in BlockNames : blocks[b] # None /\ blocks[b].deleted => b \in marked
  /\ GrantsRecorded

\* The inductive invariant as a whole: at every point where another client or
\* a crash can come in between two API calls of AutoAssign, ReleaseByHandle or
\* DeleteIPPool, the handles cover the blocks, what a running release still has
\* to visit is on its list, and a block is on its way out only if it was empty.
SafeInv ==
  /\ OneCallPerHandle
  /\ \A h \in Handles : HandleSafe(h)
  /\ \A c \in Clients : CallCovered(c) /\ CallReleases(c) /\ CallMarks(c)
  /\ BlocksSafe
=============================================================================
