-------------------------- MODULE QuotaQueueProofs --------------------------
(***************************************************************************)
(* For any number of requests, namespaces and workers, the work lists of   *)
(* the quota evaluator lose no request, hold none twice and never forget a *)
(* wake-up, and every step of theirs is one that module Batches allows.    *)
(***************************************************************************)
EXTENDS QuotaQueue, SequenceTheorems, TLAPS

-----------------------------------------------------------------------------
(* The workqueue                                                           *)

WorkqueueOK ==
  /\ queue \in Seq(Namespaces)
  /\ dirty \subseteq Namespaces /\ processing \subseteq Namespaces
  /\ QueueShape

\* What Append and Tail do to the elements of a queue.
LEMMA AppendElements ==
  ASSUME NEW s \in Seq(Namespaces), NEW n \in Namespaces
  PROVE  /\ Append(s, n) \in Seq(Namespaces)
         /\ DOMAIN s = 1 .. Len(s) /\ Len(s) \in Nat
         /\ DOMAIN Append(s, n) = 1 .. Len(s) + 1
         /\ \A i \in DOMAIN s : Append(s, n)[i] = s[i]
         /\ Append(s, n)[Len(s) + 1] = n
OBVIOUS

LEMMA TailElements ==
  ASSUME NEW s \in Seq(Namespaces), s # <<>>
  PROVE  /\ Head(s) = s[1] /\ Head(s) \in Namespaces
         /\ Tail(s) \in Seq(Namespaces)
         /\ DOMAIN s = 1 .. Len(s) /\ Len(s) \in Nat /\ Len(s) # 0
         /\ DOMAIN Tail(s) = 1 .. Len(s) - 1
         /\ \A i \in DOMAIN Tail(s) : Tail(s)[i] = s[i + 1]
OBVIOUS

LEMMA AppendShape ==
  ASSUME WorkqueueOK, NEW n \in Namespaces,
         \A i \in DOMAIN queue : queue[i] # n,
         queue' = Append(queue, n),
         n \in dirty' \ processing',
         \A m \in Namespaces \ {n} : m \in dirty' \ processing' <=> m \in dirty \ processing
  PROVE  QueueShape'
<1> DEFINE a == Append(queue, n)
<1>1. /\ DOMAIN queue = 1 .. Len(queue) /\ Len(queue) \in Nat
      /\ DOMAIN a = 1 .. Len(queue) + 1
      /\ \A i \in DOMAIN queue : a[i] = queue[i]
      /\ a[Len(queue) + 1] = n
  BY AppendElements DEF WorkqueueOK
<1>2. \A i, j \in DOMAIN a : a[i] = a[j] => i = j
  BY <1>1 DEF WorkqueueOK, QueueShape
<1>3. \A m \in Namespaces : m \in dirty' \ processing' <=> \E i \in DOMAIN a : a[i] = m
  BY <1>1 DEF WorkqueueOK, QueueShape
<1> QED BY <1>2, <1>3 DEF QueueShape

LEMMA AddOK ==
  ASSUME WorkqueueOK, NEW n \in Namespaces, QueueAdd(n)
  PROVE  WorkqueueOK'
<1>1. /\ queue' \in Seq(Namespaces)
      /\ dirty' \subseteq Namespaces /\ processing' \subseteq Namespaces
  BY AppendElements DEF WorkqueueOK, QueueAdd
<1>2. CASE n \in dirty \cup processing
  BY <1>2 DEF WorkqueueOK, QueueAdd, QueueShape
<1>3. CASE n \notin dirty \cup processing
  BY <1>3, AppendShape DEF WorkqueueOK, QueueAdd, QueueShape
<1> QED BY <1>1, <1>2, <1>3 DEF WorkqueueOK, QueueShape

LEMMA GetOK ==
  ASSUME WorkqueueOK, QueueGet
  PROVE  WorkqueueOK' /\ Head(queue) \in dirty /\ Head(queue) \notin processing
                      /\ Head(queue) \in Namespaces
<1> DEFINE t == Tail(queue)
<1>1. /\ queue # <<>> /\ queue' = t
      /\ processing' = processing \cup {queue[1]} /\ dirty' = dirty \ {queue[1]}
      /\ Head(queue) = queue[1] /\ queue[1] \in Namespaces
      /\ t \in Seq(Namespaces)
      /\ DOMAIN queue = 1 .. Len(queue) /\ Len(queue) \in Nat /\ Len(queue) # 0
      /\ DOMAIN t = 1 .. Len(queue) - 1
      /\ \A i \in DOMAIN t : t[i] = queue[i + 1]
  BY TailElements DEF WorkqueueOK, QueueGet
<1> HIDE DEF t
<1>2. \A i, j \in DOMAIN t : t[i] = t[j] => i = j
  BY <1>1 DEF WorkqueueOK, QueueShape
<1>3. ASSUME NEW m \in Namespaces
      PROVE  m \in dirty' \ processing' <=> \E i \in DOMAIN t : t[i] = m
  <2>1. CASE m = queue[1]
    BY <1>1, <2>1 DEF WorkqueueOK, QueueShape
  <2>2. CASE m # queue[1]
    <3>1. (\E i \in DOMAIN t : t[i] = m) => \E i \in DOMAIN queue : queue[i] = m
      BY <1>1
    <3>2. ASSUME NEW i \in DOMAIN queue, queue[i] = m PROVE \E j \in DOMAIN t : t[j] = m
      <4>1. i - 1 \in DOMAIN t /\ t[i - 1] = m
        BY <1>1, <2>2, <3>2
      <4> QED BY <4>1
    <3> QED BY <1>1, <2>2, <3>1, <3>2 DEF WorkqueueOK, QueueShape
  <2> QED BY <2>1, <2>2
<1>4. queue[1] \in dirty \ processing
  BY <1>1 DEF WorkqueueOK, QueueShape
<1> QED BY <1>1, <1>2, <1>3, <1>4 DEF WorkqueueOK, QueueShape

LEMMA DoneOK ==
  ASSUME WorkqueueOK, NEW n \in processing, QueueDone(n)
  PROVE  WorkqueueOK'
<1>1. /\ queue' \in Seq(Namespaces)
      /\ dirty' \subseteq Namespaces /\ processing' \subseteq Namespaces
  BY AppendElements DEF WorkqueueOK, QueueDone
<1>2. CASE n \in dirty
  BY <1>2, AppendShape DEF WorkqueueOK, QueueDone, QueueShape
<1>3. CASE n \notin dirty
  BY <1>3 DEF WorkqueueOK, QueueDone, QueueShape
<1> QED BY <1>1, <1>2, <1>3 DEF WorkqueueOK

-----------------------------------------------------------------------------
(* The steps                                                               *)

LEMMA InitInv == Init => QueueInv
<1> SUFFICES ASSUME Init PROVE QueueInv
  OBVIOUS
<1>1. QueueTypeOK
  BY QueueAssumption DEF Init, QueueTypeOK
<1>2. QueueShape /\ OneWorker
  BY DEF Init, QueueShape, OneWorker, Processing, Working
<1>3. LockHolder /\ Progress /\ Filed
  BY QueueAssumption DEF Init, LockHolder, Progress, Filed, Added
<1>4. NoneLost /\ Woken
  BY DEF Init, NoneLost, Woken, Added
<1> QED BY <1>1, <1>2, <1>3, <1>4 DEF QueueInv

\* The queue is added to first: the namespace is dirty from then on.
LEMMA AddToQueueInv ==
  ASSUME QueueInv, NEW w \in Waiters, AddToQueue(w)
  PROVE  QueueInv'
<1> USE DEF AddToQueue, lists, worker
<1> NsOf[w] \in Namespaces
  BY QueueAssumption
<1>1. WorkqueueOK'
  BY AddOK DEF QueueInv, QueueTypeOK, WorkqueueOK
<1>2. QueueTypeOK'
  BY <1>1 DEF QueueInv, QueueTypeOK, WorkqueueOK
<1>3. OneWorker'
  BY DEF QueueInv, OneWorker, QueueAdd
<1>4. LockHolder'
  BY QueueAssumption DEF QueueInv, QueueTypeOK, LockHolder
<1>5. Progress'
  BY DEF QueueInv, Progress, Working
<1>6. \A v \in Waiters : Added(v)' <=> Added(v)
  BY DEF QueueInv, QueueTypeOK, Added
<1>7. \A n \in Namespaces : Expected(n)' <=> Expected(n)
  BY DEF Expected
<1>8. Filed'
  BY <1>6, <1>7, QueueAssumption DEF QueueInv, QueueTypeOK, Filed, QueueAdd
<1>9. NoneLost'
  BY <1>6 DEF QueueInv, NoneLost, InList, Held
<1>10. Woken'
  BY <1>7 DEF QueueInv, Woken, QueueAdd
<1> QED BY <1>1, <1>2, <1>3, <1>4, <1>5, <1>8, <1>9, <1>10 DEF QueueInv, WorkqueueOK

\* addWork adds the request to one list and leaves the rest alone.
LEMMA ListsAfterAdd ==
  ASSUME QueueInv, NEW w \in Waiters, AddToList(w)
  PROVE  /\ w \in work'[NsOf[w]] \/ w \in dirtyWork'[NsOf[w]]
         /\ \A n \in Namespaces, v \in Waiters :
              /\ v \in work[n] => v \in work'[n]
              /\ v \in dirtyWork[n] => v \in dirtyWork'[n]
              /\ v \in work'[n] => v \in work[n] \/ (v = w /\ n = NsOf[w])
              /\ v \in dirtyWork'[n] => v \in dirtyWork[n] \/ (v = w /\ n = NsOf[w])
<1> NsOf[w] \in Namespaces
  BY QueueAssumption
<1>1. CASE NsOf[w] \in inProgress
  BY <1>1 DEF QueueInv, QueueTypeOK, AddToList
<1>2. CASE NsOf[w] \notin inProgress
  BY <1>2 DEF QueueInv, QueueTypeOK, AddToList
<1> QED BY <1>1, <1>2

LEMMA AddToListInv ==
  ASSUME QueueInv, NEW w \in Waiters, AddToList(w)
  PROVE  QueueInv'
<1> USE DEF AddToList, workqueue, worker
<1> NsOf[w] \in Namespaces
  BY QueueAssumption
<1>2. QueueTypeOK'
  BY DEF QueueInv, QueueTypeOK
<1>3. QueueShape' /\ OneWorker'
  BY DEF QueueInv, QueueShape, OneWorker
<1>4. LockHolder'
  BY QueueAssumption DEF QueueInv, QueueTypeOK, LockHolder
<1>5. Progress'
  BY DEF QueueInv, QueueTypeOK, Progress, Working
<1>6. \A v \in Waiters : Added(v)' <=> Added(v) \/ v = w
  BY DEF QueueInv, QueueTypeOK, Added
<1>7. \A n \in Namespaces : Expected(n)' <=> Expected(n)
  BY DEF Expected
<1>a. \A n \in Namespaces, v \in Waiters :
        /\ v \in work[n] => v \in work'[n]
        /\ v \in dirtyWork[n] => v \in dirtyWork'[n]
        /\ v \in work'[n] => v \in work[n] \/ (v = w /\ n = NsOf[w])
        /\ v \in dirtyWork'[n] => v \in dirtyWork[n] \/ (v = w /\ n = NsOf[w])
  BY ListsAfterAdd
<1>8. Filed'
  <2>1. \A n \in Namespaces, v \in Waiters :
          v \in work'[n] \cup dirtyWork'[n] => NsOf[v] = n /\ Added(v)'
    BY <1>a, <1>6 DEF QueueInv, Filed
  <2>2. \A k \in Workers, v \in Waiters : v \in batch'[k] => NsOf[v] = ns'[k] /\ Added(v)'
    BY <1>6 DEF QueueInv, Filed
  <2>3. \A v \in closed' : Added(v)'
    BY <1>6 DEF QueueInv, QueueTypeOK, Filed
  <2>4. \A v \in Waiters :
          call'[v] = "adding" => NsOf[v] \in dirty' \/ Expected(NsOf[v])'
    BY <1>7, QueueAssumption DEF QueueInv, QueueTypeOK, Filed
  <2> QED BY <2>1, <2>2, <2>3, <2>4 DEF Filed
<1>9. ~InList(w) /\ ~Held(w) /\ w \notin closed
  BY DEF QueueInv, Filed, InList, Held, Added
<1>10. NoneLost'
  <2>1. \A v \in Waiters : Held(v)' <=> Held(v)
    BY DEF Held
  <2>2. \A v \in Waiters \ {w} :
          /\ v \in work'[NsOf[v]] <=> v \in work[NsOf[v]]
          /\ v \in dirtyWork'[NsOf[v]] <=> v \in dirtyWork[NsOf[v]]
    BY <1>a, QueueAssumption
  <2>3. InList(w)' /\ ~(w \in work'[NsOf[w]] /\ w \in dirtyWork'[NsOf[w]])
    BY <1>9 DEF QueueInv, QueueTypeOK, InList
  <2>4. \A k \in Workers : w \notin batch[k]
    BY <1>9 DEF Held
  <2> QED BY <1>6, <1>9, <2>1, <2>2, <2>3, <2>4 DEF QueueInv, NoneLost, InList
<1>11. Woken'
  <2>1. NsOf[w] \in dirty \/ Expected(NsOf[w])
    BY DEF QueueInv, Filed
  <2>2. \A n \in Namespaces \ {NsOf[w]} : work'[n] = work[n] /\ dirtyWork'[n] = dirtyWork[n]
    BY DEF QueueInv, QueueTypeOK
  <2>3. dirtyWork'[NsOf[w]] # {} => NsOf[w] \in inProgress
    BY DEF QueueInv, QueueTypeOK, Woken
  <2> QED BY <1>7, <2>1, <2>2, <2>3 DEF QueueInv, Woken
<1> QED BY <1>2, <1>3, <1>4, <1>5, <1>8, <1>10, <1>11 DEF QueueInv

LEMMA ReturnInv ==
  ASSUME QueueInv, NEW w \in Waiters, Return(w)
  PROVE  QueueInv'
<1> USE DEF Return, workqueue, worker, lists
<1>2. QueueTypeOK'
  BY DEF QueueInv, QueueTypeOK
<1>3. QueueShape' /\ OneWorker'
  BY DEF QueueInv, QueueShape, OneWorker
<1>4. LockHolder' /\ Progress'
  BY DEF QueueInv, QueueTypeOK, LockHolder, Progress, Working
<1>6. \A v \in Waiters : Added(v)' <=> Added(v)
  BY DEF QueueInv, QueueTypeOK, Added
<1>7. \A n \in Namespaces : Expected(n)' <=> Expected(n)
  BY DEF Expected
<1>8. Filed' /\ Woken'
  BY <1>6, <1>7, QueueAssumption DEF QueueInv, QueueTypeOK, Filed, Woken
<1>9. NoneLost'
  BY <1>6 DEF QueueInv, NoneLost, InList, Held
<1> QED BY <1>2, <1>3, <1>4, <1>8, <1>9 DEF QueueInv

\* The head of the queue is in no other worker's hands.
LEMMA GetInv ==
  ASSUME QueueInv, NEW k \in Workers, Get(k)
  PROVE  QueueInv'
<1> USE DEF Get, lists
<1> DEFINE n == Head(queue)
<1>1. WorkqueueOK' /\ n \in dirty /\ n \notin processing /\ n \in Namespaces
  BY GetOK DEF QueueInv, QueueTypeOK, WorkqueueOK
<1>a. /\ dirty' = dirty \ {n} /\ processing' = processing \cup {n}
      /\ pc' = [pc EXCEPT ![k] = "got"] /\ ns' = [ns EXCEPT ![k] = n]
  BY DEF QueueGet
<1> HIDE DEF n
<1>2. QueueTypeOK'
  BY <1>1, <1>a DEF QueueInv, QueueTypeOK, WorkqueueOK
<1>3. OneWorker'
  BY <1>1, <1>a, QueueAssumption DEF QueueInv, QueueTypeOK, OneWorker, Processing, Working
<1>4. LockHolder' /\ Progress'
  BY <1>a DEF QueueInv, QueueTypeOK, LockHolder, Progress, Working
<1>6. \A v \in Waiters : Added(v)' <=> Added(v)
  BY DEF Added
<1>7. \A m \in Namespaces : Expected(m)' <=> Expected(m) \/ m = n
  BY <1>a DEF QueueInv, QueueTypeOK, Expected
<1>8. Filed'
  <2>1. batch[k] = {}
    BY DEF QueueInv, QueueTypeOK, OneWorker
  <2> QED BY <1>a, <1>6, <1>7, <2>1, QueueAssumption DEF QueueInv, QueueTypeOK, Filed
<1>9. NoneLost'
  BY <1>6 DEF QueueInv, NoneLost, InList, Held
<1>10. Woken'
  BY <1>a, <1>7 DEF QueueInv, Woken
<1> QED BY <1>1, <1>2, <1>3, <1>4, <1>8, <1>9, <1>10 DEF QueueInv, WorkqueueOK

\* When workLock is free nobody else is at work on the namespace a worker got.
LEMMA GotAlone ==
  ASSUME QueueInv, NEW k \in Workers, pc[k] = "got", workLock = None
  PROVE  /\ ns[k] \in Namespaces
         /\ ns[k] \notin inProgress
         /\ dirtyWork[ns[k]] = {}
         /\ \A l \in Workers \ {k} : ns[l] # ns[k]
         /\ \A w \in Waiters : call[w] # "adding"
<1>1. ns[k] \in Namespaces
  BY DEF QueueInv, QueueTypeOK, OneWorker
<1>2. \A l \in Workers : pc[l] # "swap"
  BY QueueAssumption DEF QueueInv, QueueTypeOK, LockHolder
<1>3. \A l \in Workers \ {k} : ns[l] # ns[k]
  BY <1>1, <1>2, QueueAssumption DEF QueueInv, QueueTypeOK, OneWorker, Processing, Working
<1>4. ns[k] \notin inProgress
  BY <1>1, <1>3 DEF QueueInv, Progress, Working
<1>5. \A w \in Waiters : call[w] # "adding"
  BY QueueAssumption DEF QueueInv, LockHolder
<1> QED BY <1>1, <1>3, <1>4, <1>5 DEF QueueInv, Woken

LEMMA GetWorkInv ==
  ASSUME QueueInv, NEW k \in Workers, GetWork(k)
  PROVE  QueueInv'
<1> USE DEF GetWork, workqueue
<1> DEFINE n == ns[k]
<1>1. /\ n \in Namespaces /\ n \notin inProgress /\ dirtyWork[n] = {}
      /\ \A l \in Workers \ {k} : ns[l] # n
      /\ \A w \in Waiters : call[w] # "adding"
  BY GotAlone
<1>2. QueueTypeOK'
  BY <1>1 DEF QueueInv, QueueTypeOK
<1>3. QueueShape' /\ OneWorker'
  BY <1>1 DEF QueueInv, QueueTypeOK, QueueShape, OneWorker, Processing, Working
<1>4. LockHolder'
  BY QueueAssumption DEF QueueInv, QueueTypeOK, LockHolder
<1>5. Progress'
  BY <1>1 DEF QueueInv, QueueTypeOK, Progress, Working
<1>6. \A v \in Waiters : Added(v)' <=> Added(v)
  BY DEF Added
<1>7. \A m \in Namespaces \ {n} : Expected(m)' <=> Expected(m)
  BY <1>1 DEF QueueInv, QueueTypeOK, Expected
<1>8. Filed'
  BY <1>1, <1>6, <1>7, QueueAssumption DEF QueueInv, QueueTypeOK, Filed
<1>9. batch[k] = {}
  BY DEF QueueInv, QueueTypeOK, OneWorker
<1>10. NoneLost'
  <2> SUFFICES ASSUME NEW w \in Waiters, Added(w)
               PROVE  /\ InList(w)' \/ Held(w)' \/ w \in closed
                      /\ ~(w \in work'[NsOf[w]] /\ w \in dirtyWork'[NsOf[w]])
                      /\ ~(InList(w)' /\ Held(w)')
                      /\ w \in closed => ~InList(w)' /\ ~Held(w)'
                      /\ \A i, j \in Workers : w \in batch'[i] /\ w \in batch'[j] => i = j
    BY <1>6 DEF NoneLost
  <2>1. CASE w \in work[n]
    <3>1. NsOf[w] = n /\ ~Held(w) /\ w \notin closed
      BY <1>1, <2>1 DEF QueueInv, Filed, NoneLost, InList
    <3>2. ~InList(w)' /\ Held(w)' /\ \A l \in Workers : w \in batch'[l] <=> l = k
      BY <1>1, <2>1, <3>1 DEF QueueInv, QueueTypeOK, InList, Held
    <3> QED BY <3>1, <3>2 DEF InList
  <2>2. CASE w \notin work[n]
    <3>1. /\ w \in work'[NsOf[w]] <=> w \in work[NsOf[w]]
          /\ w \in dirtyWork'[NsOf[w]] <=> w \in dirtyWork[NsOf[w]]
      BY <1>1, <2>2, QueueAssumption DEF QueueInv, QueueTypeOK
    <3>2. \A l \in Workers : w \in batch'[l] <=> w \in batch[l]
      BY <1>9, <2>2 DEF QueueInv, QueueTypeOK
    <3> QED BY <3>1, <3>2 DEF QueueInv, NoneLost, InList, Held
  <2> QED BY <2>1, <2>2
<1>11. Woken'
  BY <1>1, <1>7 DEF QueueInv, QueueTypeOK, Woken
<1> QED BY <1>2, <1>3, <1>4, <1>5, <1>8, <1>10, <1>11 DEF QueueInv

LEMMA CheckAttributesInv ==
  ASSUME QueueInv, NEW k \in Workers, CheckAttributes(k)
  PROVE  QueueInv'
<1> USE DEF CheckAttributes, workqueue, lists
<1>2. QueueTypeOK'
  BY DEF QueueInv, QueueTypeOK
<1>3. QueueShape' /\ OneWorker'
  BY DEF QueueInv, QueueTypeOK, QueueShape, OneWorker, Processing, Working
<1>4. LockHolder' /\ Progress'
  BY DEF QueueInv, QueueTypeOK, LockHolder, Progress, Working
<1>6. \A v \in Waiters : Added(v)' <=> Added(v)
  BY DEF Added
<1>7. \A n \in Namespaces : Expected(n)' <=> Expected(n)
  BY DEF QueueInv, QueueTypeOK, Expected
<1>8. Filed' /\ Woken'
  BY <1>6, <1>7, QueueAssumption DEF QueueInv, QueueTypeOK, Filed, Woken
<1>9. NoneLost'
  <2> SUFFICES ASSUME NEW w \in Waiters, Added(w)
               PROVE  /\ InList(w)' \/ Held(w)' \/ w \in closed'
                      /\ ~(w \in work[NsOf[w]] /\ w \in dirtyWork[NsOf[w]])
                      /\ ~(InList(w)' /\ Held(w)')
                      /\ w \in closed' => ~InList(w)' /\ ~Held(w)'
                      /\ \A i, j \in Workers : w \in batch'[i] /\ w \in batch'[j] => i = j
    BY <1>6 DEF NoneLost
  <2>1. InList(w)' <=> InList(w)
    BY DEF InList
  <2>2. CASE w \in batch[k]
    <3>1. \A l \in Workers : w \notin batch'[l]
      BY <2>2 DEF QueueInv, QueueTypeOK, NoneLost
    <3>2. ~InList(w)
      BY <2>2 DEF QueueInv, NoneLost, Held
    <3> QED BY <2>1, <2>2, <3>1, <3>2 DEF Held, InList
  <2>3. CASE w \notin batch[k]
    <3>1. \A l \in Workers : w \in batch'[l] <=> w \in batch[l]
      BY <2>3 DEF QueueInv, QueueTypeOK
    <3> QED BY <2>1, <2>3, <3>1 DEF QueueInv, NoneLost, Held
  <2> QED BY <2>2, <2>3
<1> QED BY <1>2, <1>3, <1>4, <1>8, <1>9 DEF QueueInv

LEMMA DoneInv ==
  ASSUME QueueInv, NEW k \in Workers, Done(k)
  PROVE  QueueInv'
<1> USE DEF Done, lists
<1>1. WorkqueueOK' /\ ns[k] \in processing
  BY DoneOK DEF QueueInv, QueueTypeOK, OneWorker, Processing, Working, WorkqueueOK
<1>2. QueueTypeOK'
  BY <1>1 DEF QueueInv, QueueTypeOK, WorkqueueOK
<1>3. OneWorker'
  BY DEF QueueInv, QueueTypeOK, OneWorker, Processing, Working, QueueDone
<1>4. LockHolder'
  BY QueueAssumption DEF QueueInv, QueueTypeOK, LockHolder
<1>5. Progress'
  BY DEF QueueInv, QueueTypeOK, Progress, Working
<1>6. \A v \in Waiters : Added(v)' <=> Added(v)
  BY DEF Added
<1>7. \A n \in Namespaces : Expected(n)' <=> Expected(n)
  BY DEF QueueInv, QueueTypeOK, Expected
<1>8. Filed' /\ Woken'
  BY <1>6, <1>7, QueueAssumption DEF QueueInv, QueueTypeOK, Filed, Woken, QueueDone
<1>9. NoneLost'
  BY <1>6 DEF QueueInv, NoneLost, InList, Held
<1> QED BY <1>1, <1>2, <1>3, <1>4, <1>5, <1>8, <1>9 DEF QueueInv, WorkqueueOK

LEMMA CompleteWorkInv ==
  ASSUME QueueInv, NEW k \in Workers, CompleteWork(k)
  PROVE  QueueInv'
<1> USE DEF CompleteWork, workqueue
<1> DEFINE n == ns[k]
<1>1. n \in Namespaces /\ n \in inProgress /\ work[n] = {} /\ batch[k] = {}
  BY DEF QueueInv, QueueTypeOK, OneWorker, Progress, Working
<1>a. \A l \in Workers \ {k} : pc[l] # "swap"
  BY DEF QueueInv, QueueTypeOK, LockHolder
<1>b. \A l \in Workers \ {k} : ns[l] = n => pc[l] = "got"
  BY <1>1, QueueAssumption DEF QueueInv, QueueTypeOK, OneWorker, Working
<1>2. QueueTypeOK'
  BY <1>1 DEF QueueInv, QueueTypeOK
<1>3. QueueShape' /\ OneWorker'
  BY <1>1 DEF QueueInv, QueueTypeOK, QueueShape, OneWorker, Processing, Working
<1>4. LockHolder'
  BY <1>a, QueueAssumption DEF QueueInv, QueueTypeOK, LockHolder
<1>5. Progress'
  BY <1>1, <1>b DEF QueueInv, QueueTypeOK, Progress, Working
<1>6. \A v \in Waiters : Added(v)' <=> Added(v)
  BY DEF Added
<1>7. \A m \in Namespaces : Expected(m)' <=> Expected(m)
  BY DEF QueueInv, QueueTypeOK, Expected
<1>8. Filed'
  BY <1>1, <1>6, <1>7, QueueAssumption DEF QueueInv, QueueTypeOK, Filed
<1>9. NoneLost'
  <2>1. \A w \in Waiters : InList(w)' <=> InList(w)
    BY <1>1, QueueAssumption DEF QueueInv, QueueTypeOK, InList
  <2>2. \A w \in Waiters : ~(w \in work'[NsOf[w]] /\ w \in dirtyWork'[NsOf[w]])
                           \/ ~Added(w)
    BY <1>1, QueueAssumption DEF QueueInv, QueueTypeOK, NoneLost
  <2> QED BY <1>6, <2>1, <2>2 DEF QueueInv, NoneLost, Held
<1>10. Woken'
  BY <1>1, <1>7 DEF QueueInv, QueueTypeOK, Woken
<1> QED BY <1>2, <1>3, <1>4, <1>5, <1>8, <1>9, <1>10 DEF QueueInv

\* The steps together.
LEMMA NextInv == QueueInv /\ [Next]_vars => QueueInv'
<1> SUFFICES ASSUME QueueInv, [Next]_vars PROVE QueueInv'
  OBVIOUS
<1>1. CASE UNCHANGED vars
  <2>1. \A n \in Namespaces : Expected(n)' <=> Expected(n)
    BY <1>1 DEF vars, worker, Expected
  <2>2. QueueTypeOK' /\ QueueShape' /\ OneWorker' /\ LockHolder' /\ Progress'
    BY <1>1 DEF QueueInv, vars, workqueue, lists, worker, QueueTypeOK, QueueShape,
                OneWorker, LockHolder, Progress
  <2>3. Filed' /\ Woken'
    BY <1>1, <2>1, QueueAssumption DEF QueueInv, vars, workqueue, lists, worker, Filed, Woken, Added
  <2>4. NoneLost'
    BY <1>1 DEF QueueInv, vars, lists, worker, NoneLost, InList, Held, Added
  <2> QED BY <2>2, <2>3, <2>4 DEF QueueInv
<1>2. ASSUME NEW w \in Waiters, WaiterStep(w) PROVE QueueInv'
  BY <1>2, AddToQueueInv, AddToListInv, ReturnInv DEF WaiterStep
<1>3. ASSUME NEW k \in Workers, WorkerStep(k) PROVE QueueInv'
  BY <1>3, GetInv, GetWorkInv, CheckAttributesInv, DoneInv, CompleteWorkInv DEF WorkerStep
<1> QED BY <1>1, <1>2, <1>3 DEF Next

\* The invariant of the work lists of quotaEvaluator: types, the shape of the
\* workqueue, who holds workLock, and where every request is.
THEOREM QueueInvariant == Spec => []QueueInv
<1> QED BY InitInv, NextInv, PTL DEF Spec

\* No request that addWork has put in a list is lost or held twice by getWork,
\* checkAttributes and completeWork.
THEOREM NoRequestLost == Spec => []NoneLost
<1>1. QueueInv => NoneLost
  BY DEF QueueInv
<1> QED BY <1>1, QueueInvariant, PTL

\* A list with requests in it always has a wake-up: its namespace is in the
\* workqueue or a worker has just got it.
THEOREM NoWakeUpLost == Spec => []Woken
<1>1. QueueInv => Woken
  BY DEF QueueInv
<1> QED BY <1>1, QueueInvariant, PTL

-----------------------------------------------------------------------------
(* The refinement                                                          *)

Queued == {w \in Waiters : InList(w)}
Taken  == {w \in Waiters : Held(w)}

\* A step that moves no request does nothing in Batches.
LEMMA Stutter ==
  ASSUME UNCHANGED <<work, dirtyWork, batch, closed>>
  PROVE  Queued' = Queued /\ Taken' = Taken /\ closed' = closed
BY DEF Queued, Taken, InList, Held

LEMMA SubmitStep ==
  ASSUME QueueInv, NEW w \in Waiters, AddToList(w)
  PROVE  B!Submit(w)
<1> USE DEF AddToList, worker
<1>1. ~InList(w) /\ ~Held(w) /\ w \notin closed /\ NsOf[w] \in Namespaces
  BY QueueAssumption DEF QueueInv, Filed, InList, Held, Added
<1>2. \A v \in Waiters : InList(v)' <=> InList(v) \/ v = w
  BY ListsAfterAdd, QueueAssumption DEF InList
<1>3. Taken' = Taken /\ closed' = closed
  BY DEF Taken, Held
<1>4. Queued' = Queued \cup {w}
  BY <1>2 DEF Queued
<1>5. w \notin Queued \cup Taken \cup closed
  BY <1>1 DEF Queued, Taken
<1> QED BY <1>3, <1>4, <1>5 DEF B!Submit, Queued, Taken

LEMMA TakeStep ==
  ASSUME QueueInv, NEW k \in Workers, GetWork(k), work[ns[k]] # {}
  PROVE  B!Take(ns[k])
<1> USE DEF GetWork
<1> DEFINE n == ns[k]
           L == work[n]
<1>1. /\ n \in Namespaces /\ n \notin inProgress /\ dirtyWork[n] = {}
      /\ \A l \in Workers \ {k} : ns[l] # n
  BY GotAlone
<1>2. batch[k] = {} /\ L \subseteq Waiters
  BY <1>1 DEF QueueInv, QueueTypeOK, OneWorker
<1>3. B!In(n, Queued) = L
  <2>1. \A w \in Waiters : w \in L => NsOf[w] = n
    BY <1>1 DEF QueueInv, Filed
  <2>2. \A w \in Waiters : NsOf[w] = n => (InList(w) <=> w \in L)
    BY <1>1 DEF InList
  <2> QED BY <1>2, <2>1, <2>2 DEF B!In, Queued
<1>4. B!In(n, Taken) = {}
  BY <1>1, <1>2 DEF QueueInv, Filed, B!In, Taken, Held
<1>5. Queued' = Queued \ L
  <2>1. \A w \in Waiters : InList(w)' <=> InList(w) /\ w \notin L
    <3>1. \A w \in Waiters : w \in L => NsOf[w] = n
      BY <1>1 DEF QueueInv, Filed
    <3> QED BY <1>1, <3>1, QueueAssumption DEF QueueInv, QueueTypeOK, InList
  <2> QED BY <2>1 DEF Queued
<1>6. Taken' = Taken \cup L
  <2>1. \A l \in Workers : batch'[l] = IF l = k THEN L ELSE batch[l]
    BY <1>1 DEF QueueInv, QueueTypeOK
  <2> QED BY <1>2, <2>1 DEF Taken, Held
<1> QED BY <1>1, <1>3, <1>4, <1>5, <1>6 DEF B!Take, Queued, Taken

LEMMA AnswerStep ==
  ASSUME QueueInv, NEW k \in Workers, CheckAttributes(k)
  PROVE  ns[k] \in Namespaces /\ B!Answer(ns[k])
<1> USE DEF CheckAttributes, lists
<1> DEFINE n == ns[k]
           L == batch[k]
<1>1. n \in Namespaces /\ L # {} /\ L \subseteq Waiters
  BY DEF QueueInv, QueueTypeOK, OneWorker
<1>2. \A l \in Workers : batch'[l] = IF l = k THEN {} ELSE batch[l]
  BY DEF QueueInv, QueueTypeOK
<1>3. \A w \in Waiters, l \in Workers : w \in batch[l] /\ NsOf[w] = n => l = k
  BY <1>1 DEF QueueInv, QueueTypeOK, Filed, OneWorker, Processing
<1>4. \A w \in L : NsOf[w] = n
  BY <1>1 DEF QueueInv, Filed
<1>5. B!In(n, Taken) = L
  BY <1>1, <1>3, <1>4 DEF B!In, Taken, Held
<1>6. Taken' = Taken \ L
  BY <1>1, <1>2, <1>3, <1>4 DEF Taken, Held
<1>7. Queued' = Queued
  BY DEF Queued, InList
<1> QED BY <1>1, <1>5, <1>6, <1>7 DEF B!Answer, Queued, Taken

\* completeWork only moves a list: what waits and what is taken stays.
LEMMA SwapStep ==
  ASSUME QueueInv, NEW k \in Workers, CompleteWork(k)
  PROVE  Queued' = Queued /\ Taken' = Taken /\ closed' = closed
<1> USE DEF CompleteWork
<1>1. ns[k] \in Namespaces /\ work[ns[k]] = {}
  BY DEF QueueInv, QueueTypeOK, OneWorker, Progress, Working
<1>2. \A w \in Waiters : InList(w)' <=> InList(w)
  BY <1>1, QueueAssumption DEF QueueInv, QueueTypeOK, InList
<1> QED BY <1>2 DEF Queued, Taken, Held

LEMMA EmptyStep ==
  ASSUME QueueInv, NEW k \in Workers, GetWork(k), work[ns[k]] = {}
  PROVE  Queued' = Queued /\ Taken' = Taken /\ closed' = closed
<1> USE DEF GetWork
<1>1. ns[k] \in Namespaces /\ dirtyWork[ns[k]] = {} /\ batch[k] = {}
  BY GotAlone DEF QueueInv, QueueTypeOK, OneWorker
<1>2. work' = work /\ dirtyWork' = dirtyWork /\ batch' = batch
  BY <1>1 DEF QueueInv, QueueTypeOK
<1> QED BY <1>2 DEF Queued, Taken, InList, Held

\* Every step of the work lists is a step of Batches or changes nothing there:
\* a worker takes all that waits in a namespace, nobody else takes any of it
\* meanwhile, and each request is answered once.
THEOREM QueueImplementsBatches == Spec => B!Spec
<1>1. Init => B!Init
  BY QueueAssumption DEF Init, B!Init, InList, Held
<1>2. ASSUME QueueInv, [Next]_vars PROVE [B!Next]_(B!vars)
  <2> SUFFICES ASSUME ~(Queued' = Queued /\ Taken' = Taken /\ closed' = closed)
               PROVE  B!Next
    BY DEF B!vars, Queued, Taken
  <2>1. ASSUME NEW w \in Waiters, AddToList(w) PROVE B!Next
    BY <1>2, <2>1, SubmitStep DEF B!Next
  <2>2. ASSUME NEW k \in Workers, GetWork(k) PROVE B!Next
    <3>1. work[ns[k]] # {}
      BY <1>2, <2>2, EmptyStep
    <3>2. ns[k] \in Namespaces
      BY <1>2, <2>2, GotAlone DEF GetWork
    <3> QED BY <1>2, <2>2, <3>1, <3>2, TakeStep DEF B!Next
  <2>3. ASSUME NEW k \in Workers, CheckAttributes(k) PROVE B!Next
    BY <1>2, <2>3, AnswerStep DEF B!Next
  <2>4. ASSUME NEW k \in Workers, CompleteWork(k) PROVE B!Next
    BY <1>2, <2>4, SwapStep
  <2>5. ASSUME UNCHANGED <<work, dirtyWork, batch, closed>> PROVE B!Next
    BY <2>5, Stutter
  <2>6. ASSUME NEW w \in Waiters, AddToQueue(w) \/ Return(w) PROVE B!Next
    BY <2>5, <2>6 DEF AddToQueue, Return, lists, worker
  <2>7. ASSUME NEW k \in Workers, Get(k) \/ Done(k) PROVE B!Next
    BY <2>5, <2>7 DEF Get, Done, lists
  <2>8. CASE UNCHANGED vars
    BY <2>5, <2>8 DEF vars, lists, worker
  <2> QED BY <1>2, <2>1, <2>2, <2>3, <2>4, <2>6, <2>7, <2>8
          DEF Next, WaiterStep, WorkerStep
<1> QED BY <1>1, <1>2, QueueInvariant, PTL DEF Spec, B!Spec
=============================================================================
