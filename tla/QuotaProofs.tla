---------------------------- MODULE QuotaProofs -----------------------------
(***************************************************************************)
(* Admission against quotas, for any number of requests, namespaces,       *)
(* quotas and retries, with and without the controller that recounts them. *)
(* A request that is admitted and was never refused is charged once to     *)
(* every quota that matches it, no pass overwrites what another has        *)
(* written, a quota balances, and nobody waits in a circle.  Without the   *)
(* controller the usage of a quota is what was charged, and what is        *)
(* admitted is within the limit.                                           *)
(***************************************************************************)
EXTENDS QuotaAdmission, FiniteSums, TLAPS

USE DEF Checking, Updating

LEMMA ZeroType == Zero \in Version
BY DEF Zero, Version

LEMMA InitInv == Init => QuotaInv
<1> SUFFICES ASSUME Init PROVE QuotaInv
  OBVIOUS
<1>1. QuotaTypeOK
  BY ZeroType, QuotaAssumption DEF Init, QuotaTypeOK, Results, Labels
<1>2. RequestsOK
  BY QuotaAssumption DEF Init, RequestsOK
<1>3. CopiesTrue /\ PassOK /\ RunningOK /\ FinishOK
  BY DEF Init, CopiesTrue, True, PassOK, RunningOK, FinishOK, Zero
<1>4. AdmittedPaid /\ ChargedOnce
  BY DEF Init, AdmittedPaid, ChargedOnce, Admitted
<1> QED BY <1>1, <1>2, <1>3, <1>4 DEF QuotaInv, Init

\* What a step that leaves the quotas, the charges and the passes alone keeps.
LEMMA SubmitInv ==
  ASSUME QuotaInv, NEW w \in Waiters, Submit(w)
  PROVE  QuotaInv'
<1> USE DEF Submit, quotaVars, pass, controller, history
<1>1. QuotaTypeOK'
  BY DEF QuotaInv, QuotaTypeOK
<1>2. RequestsOK'
  BY QuotaAssumption DEF QuotaInv, QuotaTypeOK, RequestsOK
<1>3. CopiesTrue' /\ RunningOK'
  BY DEF QuotaInv, CopiesTrue, True, RunningOK, RunningAt, Owes
<1>4. PassOK' /\ FinishOK'
  BY DEF QuotaInv, PassOK, PassAt, FinishOK, Counting, Owes
<1>5. AdmittedPaid' /\ ChargedOnce'
  BY DEF QuotaInv, AdmittedPaid, ChargedOnce, Admitted
<1> QED BY <1>1, <1>2, <1>3, <1>4, <1>5 DEF QuotaInv

LEMMA TakeInv ==
  ASSUME QuotaInv, NEW n \in Namespaces, Take(n)
  PROVE  QuotaInv'
<1> USE DEF Take, quotaVars, pass, controller, history
<1>1. QuotaTypeOK'
  BY DEF QuotaInv, QuotaTypeOK, Labels
<1>2. RequestsOK'
  BY QuotaAssumption DEF QuotaInv, QuotaTypeOK, RequestsOK
<1>3. CopiesTrue' /\ RunningOK'
  BY DEF QuotaInv, QuotaTypeOK, CopiesTrue, True, RunningOK, RunningAt, Owes
<1>4. PassOK' /\ FinishOK'
  BY DEF QuotaInv, QuotaTypeOK, PassOK, PassAt, FinishOK, Counting, Owes
<1>5. AdmittedPaid' /\ ChargedOnce'
  BY DEF QuotaInv, AdmittedPaid, ChargedOnce, Admitted
<1> QED BY <1>1, <1>2, <1>3, <1>4, <1>5 DEF QuotaInv

LEMMA FinishInv ==
  ASSUME QuotaInv, NEW n \in Namespaces, Finish(n)
  PROVE  QuotaInv'
<1> USE DEF Finish, ForgetPass, quotaVars, controller, history
<1>1. QuotaTypeOK'
  BY ZeroType, QuotaAssumption DEF QuotaInv, QuotaTypeOK, Labels
<1>2. RequestsOK'
  BY QuotaAssumption DEF QuotaInv, QuotaTypeOK, RequestsOK
<1>3. CopiesTrue' /\ RunningOK'
  BY DEF QuotaInv, QuotaTypeOK, CopiesTrue, True, RunningOK, RunningAt, Owes
<1>4. PassOK' /\ FinishOK'
  BY DEF QuotaInv, QuotaTypeOK, PassOK, PassAt, FinishOK, Counting, Owes
<1>5. AdmittedPaid' /\ ChargedOnce'
  BY QuotaAssumption DEF QuotaInv, AdmittedPaid, ChargedOnce, Admitted, FinishOK, Counting, Owes
<1> QED BY <1>1, <1>2, <1>3, <1>4, <1>5 DEF QuotaInv

\* checkCache returns a true copy and leaves a true one.
LEMMA NewestTrue ==
  ASSUME QuotaInv, NEW q \in Quotas, NEW v \in Version, True(v, q)
  PROVE  /\ Newest(v, q) \in Version /\ True(Newest(v, q), q)
         /\ LruAfter(v, q) \in Version \cup {None}
         /\ LruAfter(v, q) # None => True(LruAfter(v, q), q)
BY DEF QuotaInv, QuotaTypeOK, CopiesTrue, Newest, LruAfter

LEMMA StartPassInv ==
  ASSUME QuotaInv, NEW n \in Namespaces, NEW qs \in SUBSET Quotas, NEW r \in 0 .. Retries,
         NEW l \in {"lock", "check"},
         StartPass(n, qs),
         pc' = [pc EXCEPT ![n] = l], retries' = [retries EXCEPT ![n] = r],
         UNCHANGED <<requests, controller, history, faults>>,
         pc[n] # "idle",
         \A w \in batch[n], q \in qs : charged[q][w] = 0,
         \A w \in Counting(n), q \in Quotas \ qs : Owes(w, q) => charged[q][w] = 1,
         \A w \in Counting(n), q \in qs : result[w] \in {"nil", "created"} => ~Owes(w, q)
  PROVE  QuotaInv'
<1> USE DEF StartPass, requests, controller, history
<1>a. \A q \in Quotas : /\ Newest(seen[q], q) \in Version /\ True(Newest(seen[q], q), q)
                        /\ LruAfter(seen[q], q) \in Version \cup {None}
                        /\ LruAfter(seen[q], q) # None => True(LruAfter(seen[q], q), q)
  BY NewestTrue DEF QuotaInv, QuotaTypeOK, CopiesTrue
<1>b. \A q \in Quotas : Newest(seen[q], q).total \in Int
  BY <1>a DEF Version
<1>1. QuotaTypeOK'
  <2>1. copy' \in [Namespaces -> [Quotas -> Version]] /\ lru' \in [Quotas -> Version \cup {None}]
    BY <1>a DEF QuotaInv, QuotaTypeOK
  <2>2. running' \in [Namespaces -> [Quotas -> Int]]
    BY <1>b DEF QuotaInv, QuotaTypeOK
  <2>3. /\ todo' \in [Namespaces -> SUBSET Quotas] /\ failed' \in [Namespaces -> SUBSET Quotas]
        /\ left' \in [Namespaces -> SUBSET Waiters] /\ billed' \in [Namespaces -> SUBSET Waiters]
        /\ retries' \in [Namespaces -> 0 .. Retries] /\ pc' \in [Namespaces -> Labels]
    BY DEF QuotaInv, QuotaTypeOK, Labels
  <2> QED BY <2>1, <2>2, <2>3 DEF QuotaInv, QuotaTypeOK
<1>2. RequestsOK'
  BY QuotaAssumption DEF QuotaInv, QuotaTypeOK, RequestsOK
<1>3. CopiesTrue'
  <2>1. \A q \in Quotas : True(seen[q], q)' /\ (lru[q] # None => True(lru[q], q))'
    BY <1>a DEF QuotaInv, QuotaTypeOK, CopiesTrue, True
  <2>2. \A m \in Namespaces, q \in Quotas :
          pc'[m] \in Checking \cup Updating => True(copy[m][q], q)'
    <3> SUFFICES ASSUME NEW m \in Namespaces, NEW q \in Quotas,
                        pc'[m] \in Checking \cup Updating
                 PROVE  True(copy[m][q], q)'
      OBVIOUS
    <3>1. CASE m = n
      BY <1>a, <3>1 DEF QuotaInv, QuotaTypeOK, True
    <3>2. CASE m # n
      BY <3>2 DEF QuotaInv, QuotaTypeOK, CopiesTrue, True
    <3> QED BY <3>1, <3>2
  <2> QED BY <2>1, <2>2 DEF CopiesTrue
<1>4. PassOK'
  <2> SUFFICES ASSUME NEW m \in Namespaces PROVE (pc[m] \in Checking \cup Updating => PassAt(m))'
    BY DEF PassOK
  <2>1. CASE m = n
    BY <2>1 DEF QuotaInv, QuotaTypeOK, PassAt, Counting, Owes
  <2>2. CASE m # n
    BY <2>2 DEF QuotaInv, QuotaTypeOK, PassOK, PassAt, Counting, Owes
  <2> QED BY <2>1, <2>2
<1>5. RunningOK'
  <2> SUFFICES ASSUME NEW m \in Namespaces, NEW q \in Quotas PROVE (pc[m] \in Checking => RunningAt(m, q))'
    BY DEF RunningOK
  <2>1. CASE m = n
    BY <1>b, <2>1 DEF QuotaInv, QuotaTypeOK, RunningAt
  <2>2. CASE m # n
    BY <2>2 DEF QuotaInv, QuotaTypeOK, RunningOK, RunningAt, Owes
  <2> QED BY <2>1, <2>2
<1>6. FinishOK'
  BY DEF QuotaInv, QuotaTypeOK, FinishOK, Counting, Owes
<1>7. AdmittedPaid' /\ ChargedOnce'
  BY DEF QuotaInv, AdmittedPaid, ChargedOnce, Admitted
<1> QED BY <1>1, <1>2, <1>3, <1>4, <1>5, <1>6, <1>7 DEF QuotaInv

LEMMA GetQuotasInv ==
  ASSUME QuotaInv, NEW n \in Namespaces, GetQuotas(n)
  PROVE  QuotaInv'
<1>1. \A w \in batch[n] : /\ result[w] = "defaultDeny"
                          /\ \A q \in Quotas : charged[q][w] = 0
  BY DEF GetQuotas, QuotaInv, QuotaTypeOK, RequestsOK
<1>2. Retries \in 0 .. Retries
  BY QuotaAssumption
<1> QED BY <1>1, <1>2, StartPassInv DEF GetQuotas, Counting

LEMMA RetryInv ==
  ASSUME QuotaInv, NEW n \in Namespaces, Retry(n)
  PROVE  QuotaInv'
<1> DEFINE qs == failed[n]
<1>1. /\ qs \in SUBSET Quotas /\ retries[n] - 1 \in 0 .. Retries
      /\ todo[n] \cup failed[n] = qs /\ pc[n] = "update" /\ PassAt(n)
  BY QuotaAssumption DEF Retry, QuotaInv, QuotaTypeOK, PassOK
<1>2. /\ \A w \in batch[n], q \in qs : charged[q][w] = 0
      /\ \A w \in Counting(n), q \in Quotas \ qs : Owes(w, q) => charged[q][w] = 1
      /\ \A w \in Counting(n), q \in qs : result[w] \in {"nil", "created"} => ~Owes(w, q)
  BY <1>1 DEF PassAt
<1>3. /\ StartPass(n, qs)
      /\ retries' = [retries EXCEPT ![n] = retries[n] - 1]
      /\ pc' = [pc EXCEPT ![n] = "check"]
      /\ UNCHANGED <<requests, controller, history, faults>>
  BY DEF Retry, QuotaInv, QuotaTypeOK
<1> HIDE DEF qs
<1> QED BY <1>1, <1>2, <1>3, StartPassInv

\* The locks play no part: taking them only moves the worker on.
LEMMA LockInv ==
  ASSUME QuotaInv, NEW n \in Namespaces, GetLock(n) \/ NewLock(n) \/ Acquire(n)
  PROVE  QuotaInv'
<1>1. PICK l \in Checking : pc' = [pc EXCEPT ![n] = l]
  BY DEF GetLock, NewLock, Acquire
<1>2. UNCHANGED <<quotaVars, requests, pass, controller, history, faults>> /\ pc[n] \in Checking
  BY DEF GetLock, NewLock, Acquire
<1> USE <1>1, <1>2 DEF quotaVars, requests, pass, controller, history
<1>3. QuotaTypeOK'
  BY DEF QuotaInv, QuotaTypeOK, Labels
<1>4. RequestsOK'
  BY QuotaAssumption DEF QuotaInv, QuotaTypeOK, RequestsOK
<1>5. CopiesTrue' /\ RunningOK'
  BY DEF QuotaInv, QuotaTypeOK, CopiesTrue, True, RunningOK, RunningAt, Owes
<1>6. PassOK' /\ FinishOK'
  BY DEF QuotaInv, QuotaTypeOK, PassOK, PassAt, FinishOK, Counting, Owes
<1>7. AdmittedPaid' /\ ChargedOnce'
  BY DEF QuotaInv, AdmittedPaid, ChargedOnce, Admitted
<1> QED BY <1>3, <1>4, <1>5, <1>6, <1>7 DEF QuotaInv

LEMMA CheckRequestInv ==
  ASSUME QuotaInv, NEW n \in Namespaces, NEW w \in Waiters, CheckRequest(n, w)
  PROVE  QuotaInv'
<1> USE DEF CheckRequest, quotaVars, controller
<1>a. PassAt(n) /\ failed[n] = {} /\ w \in batch[n] /\ pc[n] = "check"
  BY DEF QuotaInv, PassOK, PassAt
<1>b. \A q \in Quotas : Delta[w][q] \in Nat /\ running[n][q] \in Int
  BY QuotaAssumption DEF QuotaInv, QuotaTypeOK
<1>1. QuotaTypeOK'
  <2>1. running' \in [Namespaces -> [Quotas -> Int]]
    <3>1. CASE running' = running
      BY <3>1 DEF QuotaInv, QuotaTypeOK
    <3>2. CASE running' = [running EXCEPT ![n] =
                 [q \in Quotas |-> IF q \in Matching(n, w) THEN @[q] + Delta[w][q] ELSE @[q]]]
      BY <1>b, <3>2 DEF QuotaInv, QuotaTypeOK
    <3> QED BY <3>1, <3>2
  <2>2. left' \in [Namespaces -> SUBSET Waiters]
    BY DEF QuotaInv, QuotaTypeOK
  <2>3. /\ billed' \in [Namespaces -> SUBSET Waiters]
        /\ result' \in [Waiters -> Results] /\ refused' \subseteq Waiters
    <3> USE DEF QuotaInv, QuotaTypeOK, Results
    <3>1. CASE ~Fits(n, w)
      BY <3>1
    <3>2. CASE Fits(n, w) /\ (w \in DryRun \/ Matching(n, w) = {})
      BY <3>2
    <3>3. CASE Fits(n, w) /\ w \notin DryRun /\ Matching(n, w) # {}
      <4>1. billed' = [billed EXCEPT ![n] = @ \cup {w}] /\ UNCHANGED <<result, refused>>
        BY <3>3
      <4> HIDE DEF CheckRequest
      <4> QED BY <4>1
    <3> QED BY <3>1, <3>2, <3>3
  <2> QED BY <2>1, <2>2, <2>3 DEF QuotaInv, QuotaTypeOK
<1>2. RequestsOK'
  <2>1. \A v \in Waiters : v # w => result'[v] = result[v]
    BY DEF QuotaInv, QuotaTypeOK
  <2>2. NsOf[w] = n /\ w \notin answered
    BY <1>a DEF QuotaInv, RequestsOK
  <2> QED BY <1>a, <2>1, <2>2 DEF QuotaInv, RequestsOK
<1>3. CopiesTrue'
  BY DEF QuotaInv, CopiesTrue, True
<1>c. \A m \in Namespaces \ {n} : /\ w \notin batch[m]
                                  /\ left'[m] = left[m] /\ billed'[m] = billed[m]
                                  /\ running'[m] = running[m]
  <2> SUFFICES ASSUME NEW m \in Namespaces \ {n}
               PROVE  /\ w \notin batch[m]
                      /\ left'[m] = left[m] /\ billed'[m] = billed[m]
                      /\ running'[m] = running[m]
    OBVIOUS
  <2>1. w \notin batch[m]
    BY <1>a DEF QuotaInv, RequestsOK
  <2>2. left'[m] = left[m]
    BY DEF QuotaInv, QuotaTypeOK
  <2>3. CASE running' = running /\ billed' = billed
    BY <2>1, <2>2, <2>3
  <2>4. CASE Fits(n, w) /\ w \notin DryRun /\ Matching(n, w) # {}
    <3>1. billed'[m] = billed[m] /\ running'[m] = running[m]
      BY <2>4 DEF QuotaInv, QuotaTypeOK
    <3> QED BY <2>1, <2>2, <3>1
  <2> QED BY <2>3, <2>4
<1>d. \A v \in Waiters \ {w} : /\ result'[v] = result[v]
                               /\ v \in refused' <=> v \in refused
  BY DEF QuotaInv, QuotaTypeOK
<1>e. left'[n] = left[n] \ {w} /\ w \in left[n]
  BY DEF QuotaInv, QuotaTypeOK
<1>4. PassOK'
  <2> SUFFICES ASSUME NEW m \in Namespaces, pc[m] \in Checking \cup Updating
               PROVE  PassAt(m)'
    BY DEF PassOK
  <2>1. CASE m = n
    <3>0. \A q \in Quotas : q \in Matching(n, w) <=> q \in todo[n] /\ Owes(w, q)
      BY <1>a DEF QuotaInv, QuotaTypeOK, Matching, Owes
    <3>1. CASE ~Fits(n, w)
      BY <1>a, <1>d, <1>e, <2>1, <3>1 DEF QuotaInv, QuotaTypeOK, PassAt, Counting, Owes
    <3>2. CASE Fits(n, w) /\ (w \in DryRun \/ Matching(n, w) = {})
      BY <1>a, <1>d, <1>e, <2>1, <3>0, <3>2 DEF QuotaInv, QuotaTypeOK, PassAt, Counting, Owes
    <3>3. CASE Fits(n, w) /\ w \notin DryRun /\ Matching(n, w) # {}
      <4>1. billed'[n] = billed[n] \cup {w} /\ result' = result /\ refused' = refused
        BY <3>3 DEF QuotaInv, QuotaTypeOK
      <4> QED BY <1>a, <1>e, <2>1, <4>1 DEF QuotaInv, QuotaTypeOK, PassAt, Counting, Owes
    <3> QED BY <3>1, <3>2, <3>3
  <2>2. CASE m # n
    <3>1. PassAt(m)
      BY DEF QuotaInv, PassOK
    <3>2. \A v \in batch[m] : v \in Waiters \ {w}
      BY <1>c, <2>2 DEF QuotaInv, QuotaTypeOK
    <3> QED BY <1>c, <1>d, <2>2, <3>1, <3>2 DEF PassAt, Counting, Owes
  <2> QED BY <2>1, <2>2
<1>5. RunningOK'
  <2> SUFFICES ASSUME NEW m \in Namespaces, NEW q \in Quotas, pc[m] \in Checking
               PROVE  RunningAt(m, q)'
    BY DEF RunningOK
  <2>1. RunningAt(m, q)
    BY DEF QuotaInv, RunningOK
  <2>2. CASE m = n
    <3>1. CASE running' = running /\ billed' = billed
      BY <2>1, <3>1 DEF RunningAt, Owes
    <3>2. CASE Fits(n, w) /\ w \notin DryRun /\ Matching(n, w) # {}
      <4>1. billed'[n] = billed[n] \cup {w}
        BY <3>2 DEF QuotaInv, QuotaTypeOK
      <4>2. running'[n][q] = IF q \in todo[n] /\ Owes(w, q) THEN running[n][q] + Delta[w][q]
                                                          ELSE running[n][q]
        BY <3>2 DEF QuotaInv, QuotaTypeOK, Matching, Owes
      <4>3. copy[n][q].total \in Int
        BY DEF QuotaInv, QuotaTypeOK, Version
      <4> QED BY <1>b, <2>1, <2>2, <4>1, <4>2, <4>3 DEF RunningAt, Owes
    <3> QED BY <3>1, <3>2
  <2>3. CASE m # n
    BY <1>c, <2>1, <2>3 DEF RunningAt, Owes
  <2> QED BY <2>2, <2>3
<1>6. FinishOK'
  <2> SUFFICES ASSUME NEW m \in Namespaces, pc[m] = "finish",
                      NEW v \in Counting(m)', NEW q \in Quotas,
                      result'[v] \in {"nil", "created"}, Owes(v, q)
               PROVE  charged[q][v] = 1
    BY DEF FinishOK, Owes
  <2>1. m # n /\ v \in Waiters \ {w}
    BY <1>a, <1>c DEF QuotaInv, QuotaTypeOK, Counting
  <2>2. v \in Counting(m) /\ result[v] \in {"nil", "created"}
    BY <1>d, <2>1 DEF Counting
  <2> QED BY <2>2 DEF QuotaInv, FinishOK
<1>7. AdmittedPaid' /\ ChargedOnce'
  <2>1. w \notin answered
    BY <1>a DEF QuotaInv, RequestsOK
  <2>2. \A v \in Admitted' \ refused' : v \in Admitted \ refused /\ v \in Waiters
    BY <1>d, <2>1 DEF QuotaInv, QuotaTypeOK, Admitted
  <2> QED BY <2>2 DEF QuotaInv, AdmittedPaid, ChargedOnce
<1> QED BY <1>1, <1>2, <1>3, <1>4, <1>5, <1>6, <1>7 DEF QuotaInv

LEMMA EndCheckInv ==
  ASSUME QuotaInv, NEW n \in Namespaces, EndCheck(n)
  PROVE  QuotaInv'
<1> DEFINE changed == {q \in todo[n] : running[n][q] # copy[n][q].total}
<1>a. /\ pc[n] = "check" /\ left[n] = {} /\ failed[n] = {} /\ PassAt(n)
      /\ todo' = [todo EXCEPT ![n] = changed]
      /\ pc' = [pc EXCEPT ![n] = IF changed = {} THEN "finish" ELSE "update"]
  BY DEF EndCheck, QuotaInv, PassOK, PassAt
<1>b. UNCHANGED <<quotaVars, requests, copy, running, left, billed, failed, retries, cur,
                  base, controller, history, faults>>
  BY DEF EndCheck
<1>c. changed \subseteq todo[n] /\ changed \subseteq Quotas
  BY DEF QuotaInv, QuotaTypeOK
\* A quota that has not changed is owed nothing by those that count.
<1>d. \A v \in Counting(n), q \in Quotas \ changed : Owes(v, q) => charged[q][v] = 1
  <2> SUFFICES ASSUME NEW v \in Counting(n), NEW q \in Quotas \ changed, Owes(v, q)
               PROVE  charged[q][v] = 1
    OBVIOUS
  <2>1. CASE q \notin todo[n]
    BY <1>a, <2>1 DEF PassAt
  <2>2. CASE q \in todo[n]
    <3>1. RunningAt(n, q) /\ running[n][q] = copy[n][q].total /\ copy[n][q].total \in Int
      BY <1>a, <2>2 DEF QuotaInv, QuotaTypeOK, RunningOK, Version
    <3>2. v \in billed[n]
      BY <1>a, <2>2 DEF PassAt
    <3> QED BY <2>2, <3>1, <3>2 DEF RunningAt
  <2> QED BY <2>1, <2>2
<1> HIDE DEF changed
<1> USE <1>a, <1>b, <1>c DEF quotaVars, requests, controller, history
<1>1. QuotaTypeOK'
  BY DEF QuotaInv, QuotaTypeOK, Labels
<1>2. RequestsOK'
  BY QuotaAssumption DEF QuotaInv, QuotaTypeOK, RequestsOK
<1>3. CopiesTrue'
  BY DEF QuotaInv, QuotaTypeOK, CopiesTrue, True
<1>4. RunningOK'
  BY DEF QuotaInv, QuotaTypeOK, RunningOK, RunningAt, Owes
<1>5. PassOK'
  <2> SUFFICES ASSUME NEW m \in Namespaces PROVE (pc[m] \in Checking \cup Updating => PassAt(m))'
    BY DEF PassOK
  <2>1. CASE m = n
    BY <1>d, <2>1 DEF QuotaInv, QuotaTypeOK, PassAt, Counting, Owes
  <2>2. CASE m # n
    BY <2>2 DEF QuotaInv, QuotaTypeOK, PassOK, PassAt, Counting, Owes
  <2> QED BY <2>1, <2>2
<1>6. FinishOK'
  <2> SUFFICES ASSUME NEW m \in Namespaces, pc'[m] = "finish", NEW v \in Counting(m), NEW q \in Quotas,
                      result[v] \in {"nil", "created"}, Owes(v, q)
               PROVE  charged[q][v] = 1
    BY DEF FinishOK, Counting, Owes
  <2>1. CASE m = n
    <3>1. changed = {}
      BY <2>1 DEF QuotaInv, QuotaTypeOK
    <3> QED BY <1>d, <2>1, <3>1
  <2>2. CASE m # n
    BY <2>2 DEF QuotaInv, QuotaTypeOK, FinishOK
  <2> QED BY <2>1, <2>2
<1>7. AdmittedPaid' /\ ChargedOnce'
  BY DEF QuotaInv, AdmittedPaid, ChargedOnce, Admitted
<1> QED BY <1>1, <1>2, <1>3, <1>4, <1>5, <1>6, <1>7 DEF QuotaInv

LEMMA ReadBaseInv ==
  ASSUME QuotaInv, NEW n \in Namespaces, ReadBase(n)
  PROVE  QuotaInv'
<1> PICK q \in todo[n] : cur' = [cur EXCEPT ![n] = q] /\ base' = [base EXCEPT ![n] = seen[q]]
  BY DEF ReadBase
<1> USE DEF ReadBase, quotaVars, requests, controller, history
<1>1. QuotaTypeOK'
  BY DEF QuotaInv, QuotaTypeOK, Labels
<1>2. RequestsOK'
  BY QuotaAssumption DEF QuotaInv, QuotaTypeOK, RequestsOK
<1>3. CopiesTrue' /\ RunningOK'
  BY DEF QuotaInv, QuotaTypeOK, CopiesTrue, True, RunningOK, RunningAt, Owes
<1>4. PassOK' /\ FinishOK'
  BY DEF QuotaInv, QuotaTypeOK, PassOK, PassAt, FinishOK, Counting, Owes
<1>5. AdmittedPaid' /\ ChargedOnce'
  BY DEF QuotaInv, AdmittedPaid, ChargedOnce, Admitted
<1> QED BY <1>1, <1>2, <1>3, <1>4, <1>5 DEF QuotaInv

\* An update that is not applied leaves its quota to the next pass.
LEMMA NotPutInv ==
  ASSUME QuotaInv, NEW n \in Namespaces, pc[n] = "put",
         lru' = [lru EXCEPT ![cur[n]] = LruAfter(base[n], cur[n])],
         failed' = [failed EXCEPT ![n] = @ \cup {cur[n]}],
         todo' = [todo EXCEPT ![n] = @ \ {cur[n]}],
         pc' = [pc EXCEPT ![n] = "update"],
         UNCHANGED <<stored, seen, requests, copy, running, left, billed, retries, cur, base,
                     controller, history>>,
         faults' \in 0 .. MaxFaults
  PROVE  QuotaInv'
<1> USE DEF requests, controller, history
<1>a. cur[n] \in todo[n] /\ cur[n] \in Quotas
  BY DEF QuotaInv, QuotaTypeOK, PassOK, PassAt
<1>b. \A q \in Quotas : lru'[q] \in {lru[q], None}
  BY <1>a DEF QuotaInv, QuotaTypeOK, LruAfter
<1>1. QuotaTypeOK'
  <2>1. lru' \in [Quotas -> Version \cup {None}]
    BY <1>a, <1>b DEF QuotaInv, QuotaTypeOK
  <2> QED BY <1>a, <2>1 DEF QuotaInv, QuotaTypeOK, Labels
<1>2. RequestsOK'
  BY QuotaAssumption DEF QuotaInv, QuotaTypeOK, RequestsOK
<1>3. CopiesTrue' /\ RunningOK'
  BY <1>b DEF QuotaInv, QuotaTypeOK, CopiesTrue, True, RunningOK, RunningAt, Owes
<1>4. PassOK'
  <2> SUFFICES ASSUME NEW m \in Namespaces PROVE (pc[m] \in Checking \cup Updating => PassAt(m))'
    BY DEF PassOK
  <2>1. CASE m = n
    <3>1. PassAt(n) /\ todo'[n] \cup failed'[n] = todo[n] \cup failed[n]
      BY <1>a DEF QuotaInv, QuotaTypeOK, PassOK
    <3> QED BY <2>1, <3>1 DEF QuotaInv, QuotaTypeOK, PassAt, Counting, Owes
  <2>2. CASE m # n
    BY <2>2 DEF QuotaInv, QuotaTypeOK, PassOK, PassAt, Counting, Owes
  <2> QED BY <2>1, <2>2
<1>5. FinishOK'
  BY DEF QuotaInv, QuotaTypeOK, FinishOK, Counting, Owes
<1>6. AdmittedPaid' /\ ChargedOnce'
  BY DEF QuotaInv, AdmittedPaid, ChargedOnce, Admitted
<1> QED BY <1>1, <1>2, <1>3, <1>4, <1>5, <1>6 DEF QuotaInv

LEMMA BatchType ==
  ASSUME QuotaInv, NEW m \in Namespaces, NEW w \in batch[m]
  PROVE  w \in Waiters /\ NsOf[w] = m
<1>1. batch[m] \subseteq Waiters
  BY DEF QuotaInv, QuotaTypeOK
<1>2. NsOf[w] = m
  BY DEF QuotaInv, RequestsOK
<1> QED BY <1>1, <1>2

LEMMA PutStatusInv ==
  ASSUME QuotaInv, NEW n \in Namespaces, PutStatus(n)
  PROVE  QuotaInv'
<1>1. CASE ~Written(n, cur[n])
  <2>1. faults' \in 0 .. MaxFaults
    BY DEF PutStatus, QuotaInv, QuotaTypeOK
  <2> QED BY <1>1, <2>1, NotPutInv DEF PutStatus, history
<1>2. CASE Written(n, cur[n])
  <2> DEFINE q == cur[n]
             new == NewVersion(n, q, Newest(base[n], q))
  <2>a. /\ pc[n] = "put" /\ q \in todo[n] /\ q \in Quotas /\ PassAt(n)
        /\ q \notin failed[n] /\ left[n] = {}
    BY DEF PutStatus, QuotaInv, QuotaTypeOK, PassOK, PassAt
  <2>b. /\ new \in Version /\ new.rv = stored[q].rv + 1
    <3>1. Newest(base[n], q) \in Version
      BY <2>a DEF Newest, QuotaInv, QuotaTypeOK
    <3>2. stored[q].rv \in Nat /\ running[n][q] \in Int
      BY <2>a DEF QuotaInv, QuotaTypeOK, Version
    <3> QED BY <3>1, <3>2 DEF NewVersion, Version
  <2>c. /\ stored' = [stored EXCEPT ![q] = new] /\ lru' = [lru EXCEPT ![q] = new]
        /\ todo' = [todo EXCEPT ![n] = @ \ {q}] /\ pc' = [pc EXCEPT ![n] = "update"]
        /\ UNCHANGED <<seen, requests, copy, running, left, billed, failed, retries, cur, base,
                       controller, refused, faults>>
    BY <1>2 DEF PutStatus
  <2> DEFINE more == [w \in Waiters |-> IF w \in billed[n] /\ Owes(w, q) THEN charged[q][w] + 1
                                                                       ELSE charged[q][w]]
  <2>h. charged' = [charged EXCEPT ![q] = more] /\ more \in [Waiters -> Nat]
    <3>1. more \in [Waiters -> Nat]
      BY <2>a DEF QuotaInv, QuotaTypeOK
    <3>2. charged' = [charged EXCEPT ![q] = more]
      BY <1>2, <2>a DEF PutStatus, Charge, QuotaInv, QuotaTypeOK, Owes
    <3> QED BY <3>1, <3>2
  <2>i. \A w \in Waiters : more[w] = IF w \in billed[n] /\ Owes(w, q) THEN charged[q][w] + 1
                                                                    ELSE charged[q][w]
    OBVIOUS
  <2> HIDE DEF more
  <2>d. \A p \in Quotas, w \in Waiters :
          charged'[p][w] = IF p = q /\ w \in billed[n] /\ Owes(w, q) THEN charged[p][w] + 1
                                                                   ELSE charged[p][w]
    BY <2>a, <2>h, <2>i DEF QuotaInv, QuotaTypeOK
  <2>e. charged' \in [Quotas -> [Waiters -> Nat]]
    BY <2>h DEF QuotaInv, QuotaTypeOK
  <2>f. \A w \in billed[n] : /\ w \in batch[n] /\ w \in Waiters /\ NsOf[w] = n
                             /\ w \notin answered /\ charged[q][w] = 0
    BY <2>a DEF QuotaInv, QuotaTypeOK, PassAt, RequestsOK
  <2> HIDE DEF q, new
  <2> USE <2>c DEF requests, controller
  <2>1. QuotaTypeOK'
    BY <2>a, <2>b, <2>e DEF QuotaInv, QuotaTypeOK, Labels
  <2>2. RequestsOK'
    <3>1. \A w \in Waiters : w \notin answered /\ (w \in batch[NsOf[w]] => pc'[NsOf[w]] = "get") =>
            result[w] = "defaultDeny" /\ \A p \in Quotas : charged'[p][w] = 0
      BY <2>a, <2>d, <2>f, QuotaAssumption DEF QuotaInv, QuotaTypeOK, RequestsOK
    <3> QED BY <2>a, <3>1 DEF QuotaInv, QuotaTypeOK, RequestsOK
  <2>3. CopiesTrue'
    <3>1. \A p \in Quotas, v \in Version : True(v, p) => True(v, p)'
      BY <2>a, <2>b DEF QuotaInv, QuotaTypeOK, Version, True
    <3>2. stored'[q] = new /\ lru'[q] = new /\ new.rv \in Nat
      BY <2>a, <2>b DEF QuotaInv, QuotaTypeOK, Version
    <3>3. \A p \in Quotas : True(seen[p], p)' /\ (lru'[p] # None => True(lru[p], p)')
      <4> SUFFICES ASSUME NEW p \in Quotas
                   PROVE  True(seen[p], p)' /\ (lru'[p] # None => True(lru[p], p)')
        OBVIOUS
      <4>1. True(seen[p], p)'
        BY <3>1 DEF QuotaInv, QuotaTypeOK, CopiesTrue, True
      <4>2. CASE p = q
        BY <3>2, <4>1, <4>2 DEF True
      <4>3. CASE p # q
        BY <3>1, <4>1, <4>3 DEF QuotaInv, QuotaTypeOK, CopiesTrue, True
      <4> QED BY <4>2, <4>3
    <3>4. \A m \in Namespaces, p \in Quotas :
            pc'[m] \in Checking \cup Updating => True(copy[m][p], p)'
      BY <2>a, <3>1 DEF QuotaInv, QuotaTypeOK, CopiesTrue, True
    <3> QED BY <3>3, <3>4 DEF CopiesTrue
  <2>4. RunningOK'
    BY DEF QuotaInv, QuotaTypeOK, RunningOK, RunningAt, Owes
  \* Nobody in another batch is charged.
  <2>g. \A m \in Namespaces \ {n} : \A w \in batch[m], p \in Quotas : charged'[p][w] = charged[p][w]
    <3> SUFFICES ASSUME NEW m \in Namespaces \ {n}, NEW w \in batch[m], NEW p \in Quotas
                 PROVE  charged'[p][w] = charged[p][w]
      OBVIOUS
    <3>0. w \in Waiters /\ NsOf[w] = m
      BY BatchType
    <3>1. w \in Waiters /\ w \notin billed[n]
      BY <2>f, <3>0
    <3> QED BY <2>d, <3>1
  <2>5. PassOK'
    <3> SUFFICES ASSUME NEW m \in Namespaces PROVE (pc[m] \in Checking \cup Updating => PassAt(m))'
      BY DEF PassOK
    <3>1. CASE m = n
      <4> DEFINE open == todo[n] \cup failed[n]
      <4>1. /\ todo'[n] = todo[n] \ {q} /\ pc'[n] = "update"
            /\ todo'[n] \cup failed'[n] = open \ {q}
        BY <2>a DEF QuotaInv, QuotaTypeOK
      <4>2. \A w \in batch[n], p \in open \ {q} : charged'[p][w] = 0
        BY <2>a, <2>d DEF QuotaInv, QuotaTypeOK, PassAt
      <4>3. \A w \in Counting(n), p \in Quotas \ (open \ {q}) : Owes(w, p) => charged'[p][w] = 1
        <5> SUFFICES ASSUME NEW w \in Counting(n), NEW p \in Quotas \ (open \ {q}), Owes(w, p)
                     PROVE  charged'[p][w] = 1
          OBVIOUS
        <5>0. w \in Waiters /\ w \in batch[n]
          BY DEF QuotaInv, QuotaTypeOK, Counting
        <5>1. CASE p = q
          <6>1. w \in billed[n] /\ charged[q][w] = 0
            BY <2>a, <5>0, <5>1 DEF PassAt
          <6> QED BY <2>a, <2>d, <5>0, <5>1, <6>1
        <5>2. CASE p # q
          BY <2>a, <2>d, <5>0, <5>2 DEF PassAt
        <5> QED BY <5>1, <5>2
      <4> QED BY <2>a, <3>1, <4>1, <4>2, <4>3 DEF PassAt, Counting, Owes
    <3>2. CASE m # n
      <4>1. pc'[m] = pc[m] /\ todo'[m] = todo[m]
        BY <3>2 DEF QuotaInv, QuotaTypeOK
      <4>2. \A w \in batch[m], p \in Quotas : charged'[p][w] = charged[p][w]
        BY <2>g, <3>2
      <4>3. todo[m] \cup failed[m] \subseteq Quotas
        BY DEF QuotaInv, QuotaTypeOK
      <4>4. pc[m] \in Checking \cup Updating => PassAt(m)
        BY DEF QuotaInv, PassOK
      <4> QED BY <4>1, <4>2, <4>3, <4>4 DEF PassAt, Counting, Owes
    <3> QED BY <3>1, <3>2
  <2>6. FinishOK'
    BY <2>a, <2>g DEF QuotaInv, QuotaTypeOK, FinishOK, Counting, Owes
  <2>7. AdmittedPaid' /\ ChargedOnce'
    <3>1. \A w \in Admitted, p \in Quotas : charged'[p][w] = charged[p][w]
      BY <2>d, <2>f DEF QuotaInv, QuotaTypeOK, Admitted
    <3>2. ChargedOnce'
      <4> SUFFICES ASSUME NEW p \in Quotas, NEW w \in Waiters PROVE charged'[p][w] <= 1
        BY DEF ChargedOnce
      <4>1. charged[p][w] <= 1 /\ charged[p][w] \in Nat
        BY DEF QuotaInv, QuotaTypeOK, ChargedOnce
      <4> QED BY <2>d, <2>f, <4>1
    <3> QED BY <3>1, <3>2 DEF QuotaInv, AdmittedPaid, Admitted
  <2> QED BY <2>1, <2>2, <2>3, <2>4, <2>5, <2>6, <2>7 DEF QuotaInv
<1> QED BY <1>1, <1>2

LEMMA PutFailsInv ==
  ASSUME QuotaInv, NEW n \in Namespaces, PutFails(n)
  PROVE  QuotaInv'
<1>1. faults' \in 0 .. MaxFaults
  BY QuotaAssumption DEF PutFails, Fault, QuotaInv, QuotaTypeOK
<1> QED BY <1>1, NotPutInv DEF PutFails

\* The batch gets its results; what it leaves admitted is paid for.
LEMMA ResultsInv ==
  ASSUME QuotaInv, NEW n \in Namespaces, pc[n] # "idle", pc' = [pc EXCEPT ![n] = "finish"],
         result' \in [Waiters -> Results],
         \A w \in Waiters \ batch[n] : result'[w] = result[w],
         \A w \in Counting(n), q \in Quotas :
           result'[w] \in {"nil", "created"} /\ Owes(w, q) => charged[q][w] = 1,
         UNCHANGED <<quotaVars, queued, batch, answered, pass, controller, history>>,
         faults' \in 0 .. MaxFaults
  PROVE  QuotaInv'
<1> USE DEF quotaVars, pass, controller, history
<1>a. \A w \in batch[n] : w \in Waiters /\ NsOf[w] = n /\ w \notin answered
  BY DEF QuotaInv, QuotaTypeOK, RequestsOK
<1>b. \A m \in Namespaces \ {n} : \A w \in batch[m] : result'[w] = result[w]
  <2> SUFFICES ASSUME NEW m \in Namespaces \ {n}, NEW w \in batch[m] PROVE result'[w] = result[w]
    OBVIOUS
  <2>0. w \in Waiters /\ NsOf[w] = m
    BY BatchType
  <2>1. w \in Waiters \ batch[n]
    BY <1>a, <2>0
  <2> QED BY <2>1
<1>1. QuotaTypeOK'
  BY DEF QuotaInv, QuotaTypeOK, Labels
<1>2. RequestsOK'
  <2>1. \A w \in Waiters : w \notin answered /\ (w \in batch[NsOf[w]] => pc'[NsOf[w]] = "get") =>
          result'[w] = "defaultDeny" /\ \A q \in Quotas : charged[q][w] = 0
    BY <1>a, QuotaAssumption DEF QuotaInv, QuotaTypeOK, RequestsOK
  <2> QED BY <2>1 DEF QuotaInv, QuotaTypeOK, RequestsOK
<1>3. CopiesTrue' /\ RunningOK'
  BY DEF QuotaInv, QuotaTypeOK, CopiesTrue, True, RunningOK, RunningAt, Owes
<1>4. PassOK'
  <2> SUFFICES ASSUME NEW m \in Namespaces, pc'[m] \in Checking \cup Updating PROVE PassAt(m)'
    BY DEF PassOK
  <2>1. m # n /\ pc'[m] = pc[m] /\ PassAt(m)
    BY DEF QuotaInv, QuotaTypeOK, PassOK
  <2> QED BY <1>b, <2>1 DEF PassAt, Counting, Owes
<1>5. FinishOK'
  <2> SUFFICES ASSUME NEW m \in Namespaces, pc'[m] = "finish", NEW v \in Counting(m), NEW q \in Quotas,
                      result'[v] \in {"nil", "created"}, Owes(v, q)
               PROVE  charged[q][v] = 1
    BY DEF FinishOK, Counting, Owes
  <2>1. CASE m = n
    BY <2>1
  <2>2. CASE m # n
    BY <1>b, <2>2 DEF QuotaInv, QuotaTypeOK, FinishOK, Counting
  <2> QED BY <2>1, <2>2
<1>6. AdmittedPaid' /\ ChargedOnce'
  BY <1>a DEF QuotaInv, QuotaTypeOK, AdmittedPaid, ChargedOnce, Admitted
<1> QED BY <1>1, <1>2, <1>3, <1>4, <1>5, <1>6 DEF QuotaInv

LEMMA SettledType ==
  ASSUME QuotaInv, NEW n \in Namespaces, NEW r \in {"nil", "error"}
  PROVE  /\ Settled(n, r) \in [Waiters -> Results]
         /\ \A w \in Waiters \ batch[n] : Settled(n, r)[w] = result[w]
         /\ \A w \in Waiters : Settled(n, r)[w] \in {result[w], r}
BY DEF Settled, Results, QuotaInv, QuotaTypeOK

LEMMA EndUpdateInv ==
  ASSUME QuotaInv, NEW n \in Namespaces, EndUpdate(n)
  PROVE  QuotaInv'
<1>1. pc[n] = "update" /\ todo[n] = {} /\ PassAt(n)
  BY DEF EndUpdate, QuotaInv, PassOK
<1>2. PICK r \in {"nil", "error"} : result' = Settled(n, r) /\ (r = "nil" => failed[n] = {})
  BY DEF EndUpdate
<1>3. \A w \in Counting(n), q \in Quotas :
        result'[w] \in {"nil", "created"} /\ Owes(w, q) => charged[q][w] = 1
  <2> SUFFICES ASSUME NEW w \in Counting(n), NEW q \in Quotas,
                      result'[w] \in {"nil", "created"}, Owes(w, q)
               PROVE  charged[q][w] = 1
    OBVIOUS
  <2>1. q \notin failed[n] /\ q \notin todo[n]
    BY <1>1, <1>2, SettledType DEF QuotaInv, QuotaTypeOK, PassAt, Counting
  <2> QED BY <1>1, <2>1 DEF PassAt
<1>4. faults' \in 0 .. MaxFaults
  BY DEF EndUpdate, QuotaInv, QuotaTypeOK
<1>5. /\ result' \in [Waiters -> Results]
      /\ \A w \in Waiters \ batch[n] : result'[w] = result[w]
  BY <1>2, SettledType
<1>6. /\ pc' = [pc EXCEPT ![n] = "finish"]
      /\ UNCHANGED <<quotaVars, queued, batch, answered, pass, controller, history>>
  BY DEF EndUpdate
<1> QED BY <1>1, <1>3, <1>4, <1>5, <1>6, ResultsInv

LEMMA GetQuotasFailsInv ==
  ASSUME QuotaInv, NEW n \in Namespaces, GetQuotasFails(n)
  PROVE  QuotaInv'
<1>1. faults' \in 0 .. MaxFaults
  BY QuotaAssumption DEF GetQuotasFails, Fault, QuotaInv, QuotaTypeOK
<1>2. /\ pc' = [pc EXCEPT ![n] = "finish"] /\ pc[n] # "idle"
      /\ UNCHANGED <<quotaVars, queued, batch, answered, pass, controller, history>>
  BY DEF GetQuotasFails
<1>3. CASE result' = [w \in Waiters |-> IF w \in batch[n] THEN "error" ELSE result[w]]
  <2>1. /\ result' \in [Waiters -> Results]
        /\ \A w \in Waiters \ batch[n] : result'[w] = result[w]
        /\ \A w \in Counting(n) : result'[w] = "error"
    BY <1>3 DEF QuotaInv, QuotaTypeOK, Results, Counting
  <2> QED BY <1>1, <1>2, <2>1, ResultsInv
<1>4. CASE pc[n] = "update" /\ todo[n] = {} /\ result' = Settled(n, "error")
  <2>1. /\ result' \in [Waiters -> Results]
        /\ \A w \in Waiters \ batch[n] : result'[w] = result[w]
        /\ \A w \in Waiters : result'[w] \in {result[w], "error"}
    BY <1>4, SettledType
  <2>2. PassAt(n)
    BY <1>4 DEF QuotaInv, PassOK
  <2>3. \A w \in Counting(n), q \in Quotas :
          result'[w] \in {"nil", "created"} /\ Owes(w, q) => charged[q][w] = 1
    BY <2>1, <2>2 DEF PassAt, Counting, QuotaInv, QuotaTypeOK
  <2> QED BY <1>1, <1>2, <2>1, <2>3, ResultsInv
<1> QED BY <1>3, <1>4 DEF GetQuotasFails

LEMMA SeeQuotaInv ==
  ASSUME QuotaInv, NEW q \in Quotas, SeeQuota(q)
  PROVE  QuotaInv'
<1> USE DEF SeeQuota, requests, pass, controller, history
<1>1. QuotaTypeOK'
  BY DEF QuotaInv, QuotaTypeOK
<1>2. RequestsOK'
  BY DEF QuotaInv, RequestsOK
<1>3. CopiesTrue'
  BY DEF QuotaInv, QuotaTypeOK, Version, CopiesTrue, True
<1>4. PassOK' /\ RunningOK' /\ FinishOK'
  BY DEF QuotaInv, PassOK, PassAt, RunningOK, RunningAt, FinishOK, Counting, Owes
<1>5. AdmittedPaid' /\ ChargedOnce'
  BY DEF QuotaInv, AdmittedPaid, ChargedOnce, Admitted
<1> QED BY <1>1, <1>2, <1>3, <1>4, <1>5 DEF QuotaInv

\* The sum of the shares, in terms of the set of namespaces.
LEMMA SharesSum ==
  ASSUME NEW u \in [Namespaces -> Int]
  PROVE  SumFunction(u) = SumFunctionOnSet(u, Namespaces) /\ SumFunction(u) \in Int
<1>1. DOMAIN u = Namespaces /\ IsFiniteSet(Namespaces) /\ \A n \in Namespaces : u[n] \in Int
  BY QuotaAssumption
<1>2. SumFunctionOnSet(u, Namespaces) \in Int
  BY <1>1, SumType
<1> QED BY <1>1, <1>2 DEF SumFunction

LEMMA UsageType ==
  ASSUME NEW q \in Quotas, NEW s \in SUBSET Waiters
  PROVE  Usage(s, q) \in Nat
<1> DEFINE f == [w \in Waiters |-> Delta[w][q]]
<1>1. IsFiniteSet(s)
  BY QuotaAssumption, FS_Subset
<1>2. \A w \in s : f[w] \in Nat
  BY QuotaAssumption
<1> HIDE DEF f
<1>3. SumFunctionOnSet(f, s) \in Nat
  BY <1>1, <1>2, SumNat
<1> QED BY <1>3 DEF Usage, f

\* What the controller counts has the type of a quota.
LEMMA RecountedType ==
  ASSUME NEW q \in Quotas, NEW v \in Version, seenLive \subseteq Waiters
  PROVE  Recounted(v, q) \in Version
<1> DEFINE u == [n \in Namespaces |-> Usage(InNamespace(seenLive, n), q)]
<1>1. u \in [Namespaces -> Int]
  <2>1. \A n \in Namespaces : InNamespace(seenLive, n) \in SUBSET Waiters
    BY DEF InNamespace
  <2>2. \A n \in Namespaces : Usage(InNamespace(seenLive, n), q) \in Int
    BY <2>1, UsageType
  <2> QED BY <2>2
<1>2. Recounted(v, q) = [v EXCEPT !.total = (v.total - SumFunction(v.used)) + SumFunction(u), !.used = u]
  BY DEF Recounted
<1> HIDE DEF u
<1>3. v.total \in Int /\ v.used \in [Namespaces -> Int]
  BY DEF Version
<1>4. SumFunction(v.used) \in Int /\ SumFunction(u) \in Int
  BY <1>1, <1>3, SharesSum
<1>5. (v.total - SumFunction(v.used)) + SumFunction(u) \in Int
  BY <1>3, <1>4
<1> QED BY <1>1, <1>2, <1>5 DEF Version

\* A pass of the controller: what it writes is newer than every copy.
LEMMA ReconcileInv ==
  ASSUME QuotaInv, NEW q \in Quotas, ReconcileRead(q) \/ ReconcilePut(q)
  PROVE  QuotaInv'
<1> USE DEF requests, pass, history
<1>1. UNCHANGED <<seen, lru, requests, pc, pass, locks, live, seenLive, history, faults>>
  BY DEF ReconcileRead, ReconcilePut, quotaVars
<1>2. \/ stored' = stored
      \/ /\ recount[q] \in Version /\ recount[q].rv = stored[q].rv
         /\ stored' = [stored EXCEPT ![q] = [recount[q] EXCEPT !.rv = @ + 1]]
  BY DEF ReconcileRead, ReconcilePut, quotaVars, QuotaInv, QuotaTypeOK
<1>3. /\ stored' \in [Quotas -> Version]
      /\ \A r \in Quotas : stored'[r] = stored[r] \/ stored'[r].rv > stored[r].rv
  <2>1. CASE stored' = stored
    BY <2>1 DEF QuotaInv, QuotaTypeOK
  <2>2. CASE /\ recount[q] \in Version /\ recount[q].rv = stored[q].rv
             /\ stored' = [stored EXCEPT ![q] = [recount[q] EXCEPT !.rv = @ + 1]]
    <3>1. [recount[q] EXCEPT !.rv = @ + 1] \in Version /\ recount[q].rv \in Nat
      BY <2>2 DEF Version
    <3>2. [recount[q] EXCEPT !.rv = @ + 1].rv = stored[q].rv + 1
      BY <2>2 DEF Version
    <3>3. stored \in [Quotas -> Version]
      BY DEF QuotaInv, QuotaTypeOK
    <3> HIDE DEF Version
    <3> QED BY <2>2, <3>1, <3>2, <3>3
  <2> QED BY <1>2, <2>1, <2>2
<1>4. recount' \in [Quotas -> Version \cup {None}]
  <2>1. Recounted(seen[q], q) \in Version
    BY RecountedType DEF QuotaInv, QuotaTypeOK
  <2> QED BY <2>1 DEF ReconcileRead, ReconcilePut, QuotaInv, QuotaTypeOK
<1>5. QuotaTypeOK'
  BY <1>1, <1>3, <1>4 DEF QuotaInv, QuotaTypeOK
<1>6. CopiesTrue'
  <2>1. ASSUME NEW r \in Quotas, NEW v \in Version, True(v, r) PROVE True(v, r)'
    <3>1. v.rv \in Nat /\ stored[r].rv \in Nat /\ stored'[r].rv \in Nat
      BY <1>3 DEF Version, QuotaInv, QuotaTypeOK
    <3> QED BY <1>3, <2>1, <3>1 DEF True
  <2>2. \A r \in Quotas : True(seen[r], r)' /\ (lru'[r] # None => True(lru[r], r)')
    BY <1>1, <2>1 DEF QuotaInv, QuotaTypeOK, CopiesTrue
  <2>3. \A n \in Namespaces, r \in Quotas :
          pc'[n] \in Checking \cup Updating => True(copy[n][r], r)'
    BY <1>1, <2>1 DEF QuotaInv, QuotaTypeOK, CopiesTrue
  <2> QED BY <2>2, <2>3 DEF CopiesTrue
<1>7. RequestsOK' /\ RunningOK'
  BY <1>1 DEF QuotaInv, RequestsOK, RunningOK, RunningAt, Owes
<1>8. PassOK' /\ FinishOK'
  BY <1>1 DEF QuotaInv, PassOK, PassAt, FinishOK, Counting, Owes
<1>9. AdmittedPaid' /\ ChargedOnce'
  BY <1>1 DEF QuotaInv, AdmittedPaid, ChargedOnce, Admitted
<1> QED BY <1>5, <1>6, <1>7, <1>8, <1>9 DEF QuotaInv

\* The objects of admitted requests come and go.
LEMMA ObjectsInv ==
  ASSUME QuotaInv, NEW w \in Waiters, Create(w) \/ Delete(w)
  PROVE  QuotaInv'
<1> USE DEF quotaVars, requests, pass, history
<1>1. /\ UNCHANGED <<quotaVars, queued, batch, answered, pc, pass, seenLive, recount, history, faults>>
      /\ live' \subseteq Waiters
      /\ result' = result \/ (w \in answered /\ result[w] = "nil"
                              /\ result' = [result EXCEPT ![w] = "created"])
  BY DEF Create, Delete, QuotaInv, QuotaTypeOK
<1>2. /\ result' \in [Waiters -> Results]
      /\ \A v \in Waiters : result'[v] = result[v] \/ v \in answered
      /\ \A v \in Waiters : result'[v] \in {"nil", "created"} <=> result[v] \in {"nil", "created"}
  BY <1>1 DEF QuotaInv, QuotaTypeOK, Results
<1>3. QuotaTypeOK'
  BY <1>1, <1>2 DEF QuotaInv, QuotaTypeOK
<1>4. RequestsOK'
  BY <1>1, <1>2 DEF QuotaInv, RequestsOK
<1>5. CopiesTrue' /\ RunningOK'
  BY <1>1 DEF QuotaInv, CopiesTrue, True, RunningOK, RunningAt, Owes
<1>6. PassOK' /\ FinishOK'
  <2>1. \A n \in Namespaces : Counting(n)' = Counting(n) /\ Counting(n) \subseteq Waiters
    BY <1>1 DEF Counting, QuotaInv, QuotaTypeOK
  <2>2. ASSUME NEW n \in Namespaces, PassAt(n) PROVE PassAt(n)'
    BY <1>1, <1>2, <2>1, <2>2 DEF PassAt, Owes
  <2>3. FinishOK'
    BY <1>1, <1>2, <2>1 DEF QuotaInv, FinishOK, Owes
  <2> QED BY <1>1, <2>2, <2>3 DEF QuotaInv, PassOK
<1>7. AdmittedPaid' /\ ChargedOnce'
  BY <1>1, <1>2 DEF QuotaInv, QuotaTypeOK, AdmittedPaid, ChargedOnce, Admitted
<1> QED BY <1>3, <1>4, <1>5, <1>6, <1>7 DEF QuotaInv

LEMMA UnchangedInv ==
  ASSUME QuotaInv, UNCHANGED <<quotaVars, requests, pc, pass, live, recount, history, faults>>,
         seenLive' \subseteq Waiters
  PROVE  QuotaInv'
<1> USE DEF quotaVars, requests, pass, history
<1>1. QuotaTypeOK'
  BY DEF QuotaInv, QuotaTypeOK
<1>2. RequestsOK' /\ CopiesTrue' /\ RunningOK'
  BY DEF QuotaInv, RequestsOK, CopiesTrue, True, RunningOK, RunningAt, Owes
<1>3. PassOK' /\ FinishOK'
  BY DEF QuotaInv, PassOK, PassAt, FinishOK, Counting, Owes
<1>4. AdmittedPaid' /\ ChargedOnce'
  BY DEF QuotaInv, AdmittedPaid, ChargedOnce, Admitted
<1> QED BY <1>1, <1>2, <1>3, <1>4 DEF QuotaInv

LEMMA NextInv == QuotaInv /\ [Next]_vars => QuotaInv'
<1> SUFFICES ASSUME QuotaInv, [Next]_vars PROVE QuotaInv'
  OBVIOUS
<1>1. CASE \E n \in Namespaces : WorkerStep(n)
  BY <1>1, TakeInv, GetQuotasInv, LockInv, CheckRequestInv, EndCheckInv, ReadBaseInv,
     PutStatusInv, EndUpdateInv, RetryInv, FinishInv DEF WorkerStep
<1>2. CASE \E n \in Namespaces : GetQuotasFails(n) \/ PutFails(n)
  BY <1>2, GetQuotasFailsInv, PutFailsInv
<1>3. CASE \E w \in Waiters : Submit(w) \/ Create(w) \/ Delete(w)
  BY <1>3, SubmitInv, ObjectsInv
<1>4. CASE \E q \in Quotas : SeeQuota(q) \/ ReconcileRead(q) \/ ReconcilePut(q)
  BY <1>4, SeeQuotaInv, ReconcileInv
<1>5. CASE SeeObjects
  <2>1. seenLive' \subseteq Waiters
    BY <1>5 DEF SeeObjects, QuotaInv, QuotaTypeOK
  <2> QED BY <1>5, <2>1, UnchangedInv DEF SeeObjects
<1>6. CASE UNCHANGED vars
  <2>1. seenLive' \subseteq Waiters
    BY <1>6 DEF vars, controller, QuotaInv, QuotaTypeOK
  <2> QED BY <1>6, <2>1, UnchangedInv DEF vars, controller
<1> QED BY <1>1, <1>2, <1>3, <1>4, <1>5, <1>6 DEF Next

\* Requests and batches, copies and stored quotas, charges and open quotas stay
\* in step, however the passes of the namespaces interleave with each other and
\* with the controller.
THEOREM QuotaInvariant == Spec => []QuotaInv
BY InitInv, NextInv, PTL DEF Spec

\* A request that evaluate lets through, and that no pass refused, has been
\* added once to every quota that matches it.
THEOREM AdmittedArePaid == Spec => []AdmittedPaid
<1>1. QuotaInv => AdmittedPaid
  BY DEF QuotaInv
<1> QED BY <1>1, QuotaInvariant, PTL

\* No sequence of failed updates and retries charges a request twice.
THEOREM NobodyChargedTwice == Spec => []ChargedOnce
<1>1. QuotaInv => ChargedOnce
  BY DEF QuotaInv
<1> QED BY <1>1, QuotaInvariant, PTL

\* A status update adds to the stored usage what the pass has counted on its
\* copy: the resourceVersion keeps it from being applied to another, be it of
\* another worker or of the controller.
THEOREM NoUpdateIsLost == Spec => NoLostUpdate
<1> DEFINE Adds(n) == pc[n] = "put" /\ pc'[n] # "put" /\ stored' # stored =>
                        stored'[cur[n]].total - stored[cur[n]].total
                          = running[n][cur[n]] - copy[n][cur[n]].total
<1>1. QuotaInv /\ [Next]_vars => [\A n \in Namespaces : Adds(n)]_vars
  <2> SUFFICES ASSUME QuotaInv, Next, NEW n \in Namespaces,
                      pc[n] = "put", pc'[n] # "put", stored' # stored
               PROVE  stored'[cur[n]].total - stored[cur[n]].total
                        = running[n][cur[n]] - copy[n][cur[n]].total
    OBVIOUS
  <2>1. PutStatus(n)
    <3>1. \A m \in Namespaces \ {n} : ~WorkerStep(m) /\ ~GetQuotasFails(m) /\ ~PutFails(m)
      BY DEF QuotaInv, QuotaTypeOK, WorkerStep, Take, GetQuotas, GetLock, NewLock, Acquire,
             CheckRequest, EndCheck, ReadBase, PutStatus, EndUpdate, Retry, Finish,
             GetQuotasFails, PutFails
    <3>2. ~GetQuotasFails(n) /\ ~PutFails(n)
      BY DEF GetQuotasFails, PutFails, quotaVars
    <3>3. ~ \E w \in Waiters : Submit(w) \/ Create(w) \/ Delete(w)
      BY DEF Submit, Create, Delete, quotaVars
    <3>4. ~ \E q \in Quotas : SeeQuota(q) \/ ReconcileRead(q) \/ ReconcilePut(q)
      BY DEF SeeQuota, ReconcileRead, ReconcilePut, quotaVars
    <3>5. ~SeeObjects
      BY DEF SeeObjects, quotaVars
    <3>6. WorkerStep(n)
      BY <3>1, <3>2, <3>3, <3>4, <3>5 DEF Next
    <3> QED BY <3>6 DEF WorkerStep, Take, GetQuotas, GetLock, NewLock, Acquire,
              CheckRequest, EndCheck, ReadBase, EndUpdate, Retry, Finish
  <2> DEFINE q == cur[n]
  <2>2. q \in Quotas /\ True(copy[n][q], q) /\ running[n][q] \in Int
    BY DEF QuotaInv, QuotaTypeOK, PassOK, PassAt, CopiesTrue
  <2>3. copy[n][q] = stored[q] /\ stored'[q].total = running[n][q]
    BY <2>1, <2>2 DEF PutStatus, Written, True, NewVersion, QuotaInv, QuotaTypeOK
  <2> QED BY <2>3
<1> QED BY <1>1, QuotaInvariant, PTL DEF Spec, NoLostUpdate

-----------------------------------------------------------------------------
(* The locks                                                               *)

\* The smallest of the quotas that are not locked.
LEMMA NextToLockIsLeast ==
  ASSUME NEW n \in Namespaces, Unlocked(n) # {}
  PROVE  /\ NextToLock(n) \in Unlocked(n)
         /\ \A q \in Unlocked(n) : NextToLock(n) <= q
<1>1. Unlocked(n) \subseteq Nat /\ NextToLock(n) = Min(Unlocked(n))
  BY QuotaAssumption DEF Unlocked, NextToLock
<1> DEFINE U == Unlocked(n)
<1> HIDE DEF U
<1>2. U \subseteq Nat /\ U # {}
  BY <1>1 DEF U
<1>3. \E x \in U : \A y \in U : x <= y
  BY <1>2, NatMin
<1>4. Min(U) \in U /\ \A y \in U : Min(U) <= y
  BY <1>3 DEF Min
<1> QED BY <1>1, <1>4 DEF U

LEMMA LocksInit == Init => LocksInv
BY QuotaAssumption DEF Init, LocksInv, Unlocked, Labels

\* A step of a worker that has all the locks, and the last one, which gives
\* them back.
LEMMA LocksKept ==
  ASSUME LocksInv, NEW n \in Namespaces, UNCHANGED <<mutex, want, held>>,
         NEW l \in Labels \ {"idle", "get", "lock", "newLock", "acquire"},
         pc' = [pc EXCEPT ![n] = l]
  PROVE  LocksInv'
BY DEF LocksInv, Unlocked

LEMMA LocksNext == LocksInv /\ [Next]_vars => LocksInv'
<1> SUFFICES ASSUME LocksInv, [Next]_vars PROVE LocksInv'
  OBVIOUS
<1> USE DEF locks
<1>u. ASSUME UNCHANGED <<pc, mutex, want, held>> PROVE LocksInv'
  BY <1>u DEF LocksInv, Unlocked
<1>1. ASSUME NEW n \in Namespaces, Take(n) \/ GetQuotas(n) PROVE LocksInv'
  <2>1. /\ UNCHANGED <<mutex, want, held>> /\ pc[n] \in {"idle", "get"}
        /\ \/ pc' = [pc EXCEPT ![n] = "get"] /\ pc[n] = "idle"
           \/ pc' = [pc EXCEPT ![n] = "lock"] /\ pc[n] = "get"
    BY <1>1 DEF Take, GetQuotas
  <2> QED BY <2>1, QuotaAssumption DEF LocksInv, Unlocked, Labels
<1>2. ASSUME NEW n \in Namespaces, GetLock(n) PROVE LocksInv'
  <2>1. pc[n] = "lock" /\ Unlocked(n) # {} /\ UNCHANGED <<mutex, held>>
    BY <1>2 DEF GetLock, LocksInv
  <2>2. NextToLock(n) \in Unlocked(n) /\ \A q \in Unlocked(n) : NextToLock(n) <= q
    BY <2>1, NextToLockIsLeast
  <2>3. NextToLock(n) \in Quotas
    BY <2>2 DEF Unlocked
  <2>4. CASE mutex[NextToLock(n)] = None
    <3>1. pc' = [pc EXCEPT ![n] = "newLock"] /\ UNCHANGED want
      BY <1>2, <2>4 DEF GetLock
    <3> QED BY <2>1, <3>1 DEF LocksInv, Unlocked, Labels
  <2>5. CASE mutex[NextToLock(n)] # None
    <3> DEFINE l == <<NextToLock(n), mutex[NextToLock(n)]>>
    <3>1. pc' = [pc EXCEPT ![n] = "acquire"] /\ want' = [want EXCEPT ![n] = l]
      BY <1>2, <2>5 DEF GetLock
    <3>2. l \in Quotas \X Namespaces /\ l[1] = NextToLock(n)
      BY <2>3, <2>5 DEF LocksInv
    <3> HIDE DEF l
    <3> QED BY <2>1, <2>2, <3>1, <3>2 DEF LocksInv, Unlocked, Labels
  <2> QED BY <2>4, <2>5
<1>3. ASSUME NEW n \in Namespaces, NewLock(n) PROVE LocksInv'
  <2>1. pc[n] = "newLock" /\ Unlocked(n) # {} /\ UNCHANGED held
    BY <1>3 DEF NewLock, LocksInv
  <2>2. NextToLock(n) \in Unlocked(n) /\ \A q \in Unlocked(n) : NextToLock(n) <= q
    BY <2>1, NextToLockIsLeast
  <2> DEFINE l == <<NextToLock(n), n>>
  <2>3. /\ pc' = [pc EXCEPT ![n] = "acquire"] /\ want' = [want EXCEPT ![n] = l]
        /\ mutex' = [mutex EXCEPT ![NextToLock(n)] = n]
    BY <1>3 DEF NewLock
  <2>4. l \in Quotas \X Namespaces /\ l[1] = NextToLock(n)
    BY <2>2 DEF Unlocked
  <2> HIDE DEF l
  <2> QED BY <2>1, <2>2, <2>3, <2>4 DEF LocksInv, Unlocked, Labels
<1>4. ASSUME NEW n \in Namespaces, Acquire(n) PROVE LocksInv'
  <2>1. /\ pc[n] = "acquire" /\ want[n] \in Quotas \X Namespaces /\ want[n][1] \in Unlocked(n)
        /\ \A q \in Unlocked(n) : want[n][1] <= q
        /\ \A l \in held[n], q \in Unlocked(n) : l[1] < q
    BY <1>4 DEF Acquire, LocksInv
  <2>2. /\ UNCHANGED <<mutex, want>> /\ held' = [held EXCEPT ![n] = @ \cup {want[n]}]
        /\ held' \in [Namespaces -> SUBSET (Quotas \X Namespaces)]
    BY <1>4, <2>1 DEF Acquire, LocksInv
  <2>3. Unlocked(n)' = Unlocked(n) \ {want[n][1]}
    BY <2>2 DEF Unlocked, LocksInv
  <2>4. \A l \in held'[n], q \in Unlocked(n)' : l[1] < q
    <3> SUFFICES ASSUME NEW l \in held'[n], NEW q \in Unlocked(n)' PROVE l[1] < q
      OBVIOUS
    <3>1. q \in Unlocked(n) /\ q # want[n][1] /\ q \in Nat
      BY <2>3, QuotaAssumption DEF Unlocked
    <3>2. l \in held[n] \/ l = want[n]
      BY <2>2 DEF LocksInv
    <3>3. want[n][1] \in Nat
      BY <2>1, QuotaAssumption DEF Unlocked
    <3> QED BY <2>1, <3>1, <3>2, <3>3
  <2>5. \A m \in Namespaces \ {n} : pc'[m] = pc[m] /\ held'[m] = held[m] /\ Unlocked(m)' = Unlocked(m)
    BY <1>4, <2>2 DEF Acquire, LocksInv, Unlocked
  <2>6. /\ pc' \in [Namespaces -> Labels] /\ pc'[n] \in {"check", "lock"}
        /\ pc'[n] = "lock" => Unlocked(n)' # {}
    BY <1>4, <2>2 DEF Acquire, LocksInv, Labels, Unlocked
  <2>7. want' \in [Namespaces -> (Quotas \X Namespaces) \cup {None}]
    BY <2>2 DEF LocksInv
  <2>8. ASSUME NEW m \in Namespaces
        PROVE  /\ pc'[m] \in {"idle", "get"} => held'[m] = {}
               /\ pc'[m] \in {"lock", "newLock", "acquire"} =>
                    /\ Unlocked(m)' # {}
                    /\ \A l \in held'[m], q \in Unlocked(m)' : l[1] < q
               /\ pc'[m] = "acquire" =>
                    /\ want'[m] \in Quotas \X Namespaces /\ want'[m][1] \in Unlocked(m)'
                    /\ \A q \in Unlocked(m)' : want'[m][1] <= q
    <3>1. CASE m = n
      BY <2>4, <2>6, <3>1
    <3>2. CASE m # n
      BY <2>2, <2>5, <3>2 DEF LocksInv
    <3> QED BY <3>1, <3>2
  <2>9. mutex' \in [Quotas -> Namespaces \cup {None}]
    BY <2>2 DEF LocksInv
  <2> QED BY <2>2, <2>6, <2>7, <2>8, <2>9 DEF LocksInv
<1>5. ASSUME NEW n \in Namespaces, Finish(n) PROVE LocksInv'
  BY <1>5 DEF Finish, LocksInv, Unlocked, Labels
<1>6. ASSUME NEW n \in Namespaces, NEW w \in Waiters, CheckRequest(n, w) PROVE LocksInv'
  BY <1>6, <1>u DEF CheckRequest
<1>7. ASSUME NEW n \in Namespaces,
             EndCheck(n) \/ ReadBase(n) \/ PutStatus(n) \/ EndUpdate(n) \/ Retry(n)
               \/ GetQuotasFails(n) \/ PutFails(n)
      PROVE  LocksInv'
  <2>1. UNCHANGED <<mutex, want, held>>
    BY <1>7 DEF EndCheck, ReadBase, PutStatus, EndUpdate, Retry, GetQuotasFails, PutFails
  <2>2. \E l \in Labels \ {"idle", "get", "lock", "newLock", "acquire"} : pc' = [pc EXCEPT ![n] = l]
    BY <1>7 DEF EndCheck, ReadBase, PutStatus, EndUpdate, Retry, GetQuotasFails, PutFails, Labels
  <2> QED BY <2>1, <2>2, LocksKept
<1>8. CASE \E w \in Waiters : Submit(w) \/ Create(w) \/ Delete(w)
  BY <1>8, <1>u DEF Submit, Create, Delete
<1>9. CASE SeeObjects \/ (\E q \in Quotas : SeeQuota(q) \/ ReconcileRead(q) \/ ReconcilePut(q))
  BY <1>9, <1>u DEF SeeObjects, SeeQuota, ReconcileRead, ReconcilePut
<1>10. CASE UNCHANGED vars
  BY <1>10, <1>u DEF vars
<1> QED BY <1>1, <1>2, <1>3, <1>4, <1>5, <1>6, <1>7, <1>8, <1>9, <1>10 DEF Next, WorkerStep

\* Workers that wait for each other's locks would each wait for a quota after
\* all those it has locked; the one that waits for the last of them waits for
\* nobody among them.
LEMMA NoCycle == LocksInv => NoCircularWait
<1> SUFFICES ASSUME LocksInv, NEW ns \in (SUBSET Namespaces) \ {{}},
                    ~ \E n \in ns : ~(pc[n] = "acquire" /\ \E m \in ns : want[n] \in held[m])
             PROVE  FALSE
  BY DEF NoCircularWait
<1>a. \A n \in ns : n \in Namespaces /\ pc[n] = "acquire" /\ \E m \in ns : want[n] \in held[m]
  OBVIOUS
<1> DEFINE S == {want[n][1] : n \in ns}
<1>1. IsFiniteSet(S) /\ S \subseteq Quotas /\ S # {}
  <2>1. \A n \in ns : want[n][1] \in Quotas
    BY <1>a DEF LocksInv, Unlocked
  <2>2. S \subseteq Quotas
    BY <2>1
  <2>3. S # {}
    <3>1. PICK n \in ns : TRUE
      OBVIOUS
    <3>2. want[n][1] \in S
      OBVIOUS
    <3> HIDE DEF S
    <3> QED BY <3>2
  <2> HIDE DEF S
  <2> QED BY <2>2, <2>3, FS_Subset, QuotaAssumption
<1>2. PICK q \in S : \A p \in S : p <= q
  <2> HIDE DEF S
  <2>1. S \subseteq Int
    BY <1>1, QuotaAssumption
  <2> QED BY <1>1, <2>1, FiniteMax
<1>3. PICK n \in ns : want[n][1] = q
  BY <1>2
<1>4. PICK m \in ns : want[n] \in held[m]
  BY <1>a, <1>3
<1>5. want[n][1] < want[m][1]
  BY <1>a, <1>4 DEF LocksInv
<1>6. want[m][1] <= q /\ q \in Nat /\ want[m][1] \in Nat
  BY <1>1, <1>2, QuotaAssumption
<1> QED BY <1>3, <1>5, <1>6

\* lockAquisition never leaves workers waiting for each other, although a
\* quota may have had several locks: each takes them in the order of the names.
THEOREM NoDeadlock == Spec => []NoCircularWait
<1>1. Init => LocksInv
  BY LocksInit
<1>2. LocksInv /\ [Next]_vars => LocksInv'
  BY LocksNext
<1>3. LocksInv => NoCircularWait
  BY NoCycle
<1> QED BY <1>1, <1>2, <1>3, PTL DEF Spec

-----------------------------------------------------------------------------
(* The books                                                               *)

LEMMA ZeroBalanced == Zero \in Balanced
<1> DEFINE u == [n \in Namespaces |-> 0]
<1>1. u \in [Namespaces -> Int] /\ Zero.used = u /\ Zero.total = 0
  BY DEF Zero
<1>2. SumFunctionOnSet(u, Namespaces) = SumFunctionOnSet(u, {})
  <2>1. {} \in SUBSET Namespaces /\ (\A x \in Namespaces : u[x] \in Int)
        /\ (\A x \in Namespaces \ {} : u[x] = 0)
    OBVIOUS
  <2> HIDE DEF u
  <2> QED BY <2>1, SumSupport, QuotaAssumption
<1> HIDE DEF u
<1>3. SumFunction(u) = 0
  BY <1>1, <1>2, SharesSum, SumEmpty
<1> QED BY <1>1, <1>3, ZeroType DEF Balanced

\* What UpdateQuotaStatus writes balances if the copy it has read does.
LEMMA NewVersionBalanced ==
  ASSUME NEW n \in Namespaces, NEW q \in Quotas, NEW b \in Balanced,
         stored[q] \in Balanced, running[n][q] \in Int
  PROVE  NewVersion(n, q, b) \in Balanced
<1> DEFINE d == running[n][q] - b.total
<1> DEFINE u == [b.used EXCEPT ![n] = b.used[n] + d]
<1>1. b.used \in [Namespaces -> Int] /\ b.total \in Int /\ b.total = SumFunction(b.used)
  BY DEF Balanced, Version
<1>2. d \in Int
  BY <1>1
<1>3. u \in [Namespaces -> Int]
  BY <1>1, <1>2
<1>4. SumFunctionOnSet(u, Namespaces) = SumFunctionOnSet(b.used, Namespaces) + d
  <2> HIDE DEF d
  <2> QED BY <1>1, <1>2, SumExcept, QuotaAssumption
<1>5. SumFunction(u) = SumFunction(b.used) + d
  <2> HIDE DEF u, d
  <2> QED BY <1>1, <1>3, <1>4, SharesSum
<1>6. SumFunction(u) = running[n][q]
  <2> HIDE DEF u
  <2> QED BY <1>1, <1>5
<1>7. NewVersion(n, q, b) = [rv |-> stored[q].rv + 1, total |-> running[n][q], used |-> u]
  BY DEF NewVersion
<1>8. stored[q].rv + 1 \in Nat
  BY DEF Balanced, Version
<1> HIDE DEF u
<1>9. NewVersion(n, q, b) \in Version
  BY <1>3, <1>7, <1>8 DEF Version
<1> QED BY <1>6, <1>7, <1>9 DEF Balanced

\* So does what the controller has recounted.
LEMMA RecountedBalanced ==
  ASSUME NEW q \in Quotas, NEW v \in Balanced, seenLive \subseteq Waiters
  PROVE  Recounted(v, q) \in Balanced
<1> DEFINE u == [n \in Namespaces |-> Usage(InNamespace(seenLive, n), q)]
<1>1. u \in [Namespaces -> Int]
  <2>1. \A n \in Namespaces : InNamespace(seenLive, n) \in SUBSET Waiters
    BY DEF InNamespace
  <2>2. \A n \in Namespaces : Usage(InNamespace(seenLive, n), q) \in Int
    BY <2>1, UsageType
  <2> QED BY <2>2
<1>2. Recounted(v, q) = [v EXCEPT !.total = (v.total - SumFunction(v.used)) + SumFunction(u), !.used = u]
  BY DEF Recounted
<1> HIDE DEF u
<1>3. v.rv \in Nat /\ v.total \in Int /\ v.total = SumFunction(v.used) /\ SumFunction(u) \in Int
  BY <1>1, SharesSum DEF Balanced, Version
<1>4. (v.total - SumFunction(v.used)) + SumFunction(u) = SumFunction(u)
  BY <1>3
<1>5. Recounted(v, q) = [rv |-> v.rv, total |-> SumFunction(u), used |-> u]
  BY <1>2, <1>4 DEF Balanced, Version
<1> QED BY <1>1, <1>3, <1>5 DEF Balanced, Version

LEMMA BooksInit == Init => BooksInv
<1> SUFFICES ASSUME Init PROVE BooksInv
  OBVIOUS
<1>1. QuotaTypeOK
  BY ZeroType, QuotaAssumption DEF Init, QuotaTypeOK, Results, Labels
<1> QED BY <1>1, ZeroBalanced DEF Init, BooksInv

\* checkCache returns a copy that balances and leaves one.
LEMMA NewestBalanced ==
  ASSUME BooksInv, NEW q \in Quotas, NEW v \in Balanced
  PROVE  /\ Newest(v, q) \in Balanced /\ Newest(v, q) \in Version /\ Newest(v, q).total \in Int
         /\ LruAfter(v, q) \in Balanced \cup {None} /\ LruAfter(v, q) \in Version \cup {None}
<1>1. Newest(v, q) \in Balanced /\ LruAfter(v, q) \in Balanced \cup {None}
  BY DEF BooksInv, Newest, LruAfter
<1> QED BY <1>1 DEF Balanced, Version

LEMMA StartPassBalanced ==
  ASSUME BooksInv, NEW n \in Namespaces, NEW qs \in SUBSET Quotas, NEW r \in 0 .. Retries,
         NEW l \in {"lock", "check"},
         StartPass(n, qs),
         pc' = [pc EXCEPT ![n] = l], retries' = [retries EXCEPT ![n] = r],
         UNCHANGED <<requests, controller, history, faults>>
  PROVE  BooksInv'
<1> USE DEF StartPass, requests, controller, history
<1>1. \A q \in Quotas : /\ Newest(seen[q], q) \in Version /\ Newest(seen[q], q).total \in Int
                        /\ LruAfter(seen[q], q) \in Balanced \cup {None}
                        /\ LruAfter(seen[q], q) \in Version \cup {None}
  BY NewestBalanced DEF BooksInv
<1>2. running' \in [Namespaces -> [Quotas -> Int]]
  BY <1>1 DEF BooksInv, QuotaTypeOK
<1>3. copy' \in [Namespaces -> [Quotas -> Version]] /\ lru' \in [Quotas -> Version \cup {None}]
  BY <1>1 DEF BooksInv, QuotaTypeOK
<1>4. QuotaTypeOK'
  BY <1>2, <1>3 DEF BooksInv, QuotaTypeOK, Labels
<1>5. \A q \in Quotas : lru'[q] \in Balanced \cup {None}
  BY <1>1
<1> QED BY <1>4, <1>5 DEF BooksInv, QuotaTypeOK

LEMMA BooksNext == BooksInv /\ [Next]_vars => BooksInv'
<1> SUFFICES ASSUME BooksInv, [Next]_vars PROVE BooksInv'
  OBVIOUS
<1> USE DEF quotaVars, requests, pass, controller, history
<1>1. ASSUME NEW n \in Namespaces,
             Take(n) \/ GetLock(n) \/ NewLock(n) \/ Acquire(n) \/ EndCheck(n)
      PROVE  BooksInv'
  <2>1. /\ UNCHANGED <<quotaVars, result, answered, copy, running, left, billed, failed,
                       retries, cur, base, controller, history, faults>>
        /\ \E l \in Labels \ {"put"} : pc' = [pc EXCEPT ![n] = l]
    BY <1>1 DEF Labels, Take, GetLock, NewLock, Acquire, EndCheck
  <2>2. queued' \subseteq Waiters /\ batch' \in [Namespaces -> SUBSET Waiters]
    <3>1. CASE Take(n)
      BY <3>1 DEF BooksInv, QuotaTypeOK, Take
    <3>2. CASE UNCHANGED requests
      BY <3>2 DEF BooksInv, QuotaTypeOK
    <3> QED BY <1>1, <3>1, <3>2 DEF GetLock, NewLock, Acquire, EndCheck
  <2>3. todo' \in [Namespaces -> SUBSET Quotas]
    <3>1. CASE EndCheck(n)
      BY <3>1 DEF BooksInv, QuotaTypeOK, EndCheck
    <3>2. CASE UNCHANGED pass
      BY <3>2 DEF BooksInv, QuotaTypeOK
    <3> QED BY <1>1, <3>1, <3>2 DEF Take, GetLock, NewLock, Acquire
  <2>4. pc' \in [Namespaces -> Labels]
    BY <2>1 DEF BooksInv, QuotaTypeOK
  <2>5. QuotaTypeOK'
    BY <2>1, <2>2, <2>3, <2>4 DEF BooksInv, QuotaTypeOK
  <2> QED BY <2>1, <2>5 DEF BooksInv, QuotaTypeOK
<1>2. ASSUME NEW n \in Namespaces, EndUpdate(n) \/ GetQuotasFails(n) PROVE BooksInv'
  <2>1. result' \in [Waiters -> Results]
    BY <1>2 DEF BooksInv, QuotaTypeOK, Results, EndUpdate, GetQuotasFails, Settled
  <2>2. faults' \in 0 .. MaxFaults
    BY <1>2, QuotaAssumption DEF BooksInv, QuotaTypeOK, EndUpdate, GetQuotasFails, Fault
  <2>3. /\ pc' = [pc EXCEPT ![n] = "finish"]
        /\ UNCHANGED <<quotaVars, queued, batch, answered, pass, controller, history>>
    BY <1>2 DEF EndUpdate, GetQuotasFails
  <2> QED BY <2>1, <2>2, <2>3 DEF BooksInv, QuotaTypeOK, Labels
<1>3. ASSUME NEW n \in Namespaces, GetQuotas(n) PROVE BooksInv'
  <2>1. Quotas \in SUBSET Quotas /\ Retries \in 0 .. Retries
    BY QuotaAssumption
  <2> QED BY <1>3, <2>1, StartPassBalanced DEF GetQuotas
<1>4. ASSUME NEW n \in Namespaces, Retry(n) PROVE BooksInv'
  <2>1. failed[n] \in SUBSET Quotas /\ retries[n] - 1 \in 0 .. Retries
    BY <1>4, QuotaAssumption DEF Retry, BooksInv, QuotaTypeOK
  <2>2. /\ StartPass(n, failed[n]) /\ retries' = [retries EXCEPT ![n] = retries[n] - 1]
        /\ pc' = [pc EXCEPT ![n] = "check"]
        /\ UNCHANGED <<requests, controller, history, faults>>
    BY <1>4 DEF Retry, BooksInv, QuotaTypeOK
  <2> QED BY <2>1, <2>2, StartPassBalanced
<1>5. ASSUME NEW n \in Namespaces, NEW w \in Waiters, CheckRequest(n, w) PROVE BooksInv'
  <2>1. \A q \in Quotas : running[n][q] \in Int /\ Delta[w][q] \in Int
    BY QuotaAssumption DEF BooksInv, QuotaTypeOK
  <2>2. running' \in [Namespaces -> [Quotas -> Int]]
    <3>1. CASE running' = running
      BY <3>1 DEF BooksInv, QuotaTypeOK
    <3>2. CASE running' = [running EXCEPT ![n] =
                 [q \in Quotas |-> IF q \in Matching(n, w) THEN @[q] + Delta[w][q] ELSE @[q]]]
      BY <2>1, <3>2 DEF BooksInv, QuotaTypeOK
    <3> QED BY <1>5, <3>1, <3>2 DEF CheckRequest
  <2>3. /\ left' \in [Namespaces -> SUBSET Waiters]
        /\ billed' = billed \/ billed' = [billed EXCEPT ![n] = @ \cup {w}]
        /\ refused' \subseteq Waiters
        /\ \/ result' = result
           \/ result' = [result EXCEPT ![w] = "denied"]
           \/ result' = [result EXCEPT ![w] = "nil"]
    <3>1. left' \in [Namespaces -> SUBSET Waiters]
      BY <1>5 DEF CheckRequest, BooksInv, QuotaTypeOK
    <3>2. billed' = billed \/ billed' = [billed EXCEPT ![n] = @ \cup {w}]
      BY <1>5 DEF CheckRequest
    <3>3. refused' = refused \/ refused' = refused \cup {w}
      BY <1>5 DEF CheckRequest
    <3>4. \/ result' = result
          \/ result' = [result EXCEPT ![w] = "denied"]
          \/ result' = [result EXCEPT ![w] = "nil"]
      BY <1>5 DEF CheckRequest
    <3> QED BY <3>1, <3>2, <3>3, <3>4 DEF BooksInv, QuotaTypeOK
  <2>4. billed' \in [Namespaces -> SUBSET Waiters] /\ result' \in [Waiters -> Results]
    <3>1. billed \in [Namespaces -> SUBSET Waiters] /\ billed[n] \cup {w} \in SUBSET Waiters
      BY DEF BooksInv, QuotaTypeOK
    <3>2. result \in [Waiters -> Results] /\ "denied" \in Results /\ "nil" \in Results
      BY DEF BooksInv, QuotaTypeOK, Results
    <3> QED BY <2>3, <3>1, <3>2
  <2>5. QuotaTypeOK'
    BY <1>5, <2>2, <2>3, <2>4 DEF CheckRequest, BooksInv, QuotaTypeOK
  <2> QED BY <1>5, <2>5 DEF CheckRequest, BooksInv
<1>6. ASSUME NEW n \in Namespaces, ReadBase(n) PROVE BooksInv'
  <2>1. PICK q \in todo[n] : cur' = [cur EXCEPT ![n] = q] /\ base' = [base EXCEPT ![n] = seen[q]]
    BY <1>6 DEF ReadBase
  <2>2. q \in Quotas /\ seen[q] \in Balanced
    BY DEF BooksInv, QuotaTypeOK
  <2>3. QuotaTypeOK'
    BY <1>6, <2>1, <2>2 DEF ReadBase, BooksInv, QuotaTypeOK, Labels
  <2> QED BY <1>6, <2>1, <2>2, <2>3 DEF ReadBase, BooksInv, QuotaTypeOK
<1>7. ASSUME NEW n \in Namespaces, PutStatus(n) \/ PutFails(n) PROVE BooksInv'
  <2> DEFINE q == cur[n]
  <2> DEFINE v == NewVersion(n, q, Newest(base[n], q))
  <2>1. /\ pc[n] = "put" /\ q \in Quotas /\ pc' = [pc EXCEPT ![n] = "update"]
        /\ todo' = [todo EXCEPT ![n] = @ \ {q}]
        /\ failed' = failed \/ failed' = [failed EXCEPT ![n] = @ \cup {q}]
        /\ UNCHANGED <<seen, requests, copy, running, left, billed, retries, cur, base,
                       controller, refused>>
    BY <1>7 DEF PutStatus, PutFails, BooksInv
  <2>2. /\ Newest(base[n], q) \in Balanced
        /\ LruAfter(base[n], q) \in Balanced \cup {None}
    BY <2>1, NewestBalanced DEF BooksInv
  <2>3. v \in Balanced
    BY <2>1, <2>2, NewVersionBalanced DEF BooksInv, QuotaTypeOK
  <2>4. \/ stored' = [stored EXCEPT ![q] = v] /\ lru' = [lru EXCEPT ![q] = v]
        \/ stored' = stored /\ lru' = [lru EXCEPT ![q] = LruAfter(base[n], q)]
    BY <1>7 DEF PutStatus, PutFails
  <2>5. charged' \in [Quotas -> [Waiters -> Nat]]
    <3>1. CASE charged' = charged
      BY <3>1 DEF BooksInv, QuotaTypeOK
    <3>2. CASE Charge(n, q)
      BY <2>1, <3>2 DEF Charge, BooksInv, QuotaTypeOK
    <3> QED BY <1>7, <3>1, <3>2 DEF PutStatus, PutFails
  <2>6. faults' \in 0 .. MaxFaults
    BY <1>7, QuotaAssumption DEF PutStatus, PutFails, Fault, BooksInv, QuotaTypeOK
  <2> HIDE DEF q, v
  <2>7. \A p \in Quotas : stored'[p] \in Balanced /\ lru'[p] \in Balanced \cup {None}
    BY <2>1, <2>2, <2>3, <2>4 DEF BooksInv, QuotaTypeOK
  <2>8. stored' \in [Quotas -> Version] /\ lru' \in [Quotas -> Version \cup {None}]
    <3>1. v \in Version /\ LruAfter(base[n], q) \in Version \cup {None}
      BY <2>2, <2>3 DEF Balanced
    <3>2. stored \in [Quotas -> Version] /\ lru \in [Quotas -> Version \cup {None}]
      BY DEF BooksInv, QuotaTypeOK
    <3> QED BY <2>4, <3>1, <3>2
  <2>9. todo' \in [Namespaces -> SUBSET Quotas] /\ failed' \in [Namespaces -> SUBSET Quotas]
    <3>1. /\ todo \in [Namespaces -> SUBSET Quotas] /\ failed \in [Namespaces -> SUBSET Quotas]
          /\ todo[n] \ {q} \in SUBSET Quotas /\ failed[n] \cup {q} \in SUBSET Quotas
      BY <2>1 DEF BooksInv, QuotaTypeOK
    <3> QED BY <2>1, <3>1
  <2>10. QuotaTypeOK'
    BY <2>1, <2>5, <2>6, <2>8, <2>9 DEF BooksInv, QuotaTypeOK, Labels
  <2> QED BY <2>1, <2>7, <2>10 DEF BooksInv, QuotaTypeOK
<1>8. ASSUME NEW n \in Namespaces, Finish(n) PROVE BooksInv'
  <2>1. QuotaTypeOK'
    BY <1>8, ZeroType, QuotaAssumption DEF Finish, ForgetPass, BooksInv, QuotaTypeOK, Labels
  <2> QED BY <1>8, <2>1, ZeroBalanced DEF Finish, ForgetPass, BooksInv, QuotaTypeOK
<1>9. CASE \E w \in Waiters : Submit(w) \/ Create(w) \/ Delete(w)
  BY <1>9 DEF Submit, Create, Delete, BooksInv, QuotaTypeOK, Results
<1>10. ASSUME NEW q \in Quotas, SeeQuota(q) PROVE BooksInv'
  BY <1>10 DEF SeeQuota, BooksInv, QuotaTypeOK
<1>11. ASSUME NEW q \in Quotas, ReconcileRead(q) PROVE BooksInv'
  <2>1. Recounted(seen[q], q) \in Balanced /\ Recounted(seen[q], q) \in Version
    BY RecountedBalanced DEF BooksInv, QuotaTypeOK, Balanced
  <2> QED BY <1>11, <2>1 DEF ReconcileRead, BooksInv, QuotaTypeOK
<1>12. ASSUME NEW q \in Quotas, ReconcilePut(q) PROVE BooksInv'
  <2>1. recount[q] \in Balanced
    BY <1>12 DEF ReconcilePut, BooksInv
  <2>2. [recount[q] EXCEPT !.rv = @ + 1] \in Balanced /\ [recount[q] EXCEPT !.rv = @ + 1] \in Version
    BY <2>1 DEF Balanced, Version
  <2> QED BY <1>12, <2>2 DEF ReconcilePut, BooksInv, QuotaTypeOK
<1>13. CASE SeeObjects
  BY <1>13 DEF SeeObjects, BooksInv, QuotaTypeOK
<1>14. CASE UNCHANGED vars
  BY <1>14 DEF vars, BooksInv, QuotaTypeOK
<1> QED BY <1>1, <1>2, <1>3, <1>4, <1>5, <1>6, <1>7, <1>8, <1>9, <1>10, <1>11, <1>12, <1>13,
           <1>14 DEF Next, WorkerStep

\* Every quota balances, with and without the controller, although
\* UpdateQuotaStatus computes the share from another copy than the total.
THEOREM BooksBalance == Spec => []TotalIsSum
<1>1. BooksInv => TotalIsSum
  BY DEF BooksInv, Balanced, TotalIsSum
<1> QED BY <1>1, BooksInit, BooksNext, PTL DEF Spec

\* Types are kept in both cases: with the controller, too.
THEOREM QuotaTypeCorrect == Spec => []QuotaTypeOK
<1>1. BooksInv => QuotaTypeOK
  BY DEF BooksInv
<1> QED BY <1>1, BooksInit, BooksNext, PTL DEF Spec

-----------------------------------------------------------------------------
(* The ledger                                                              *)

LEMMA WaitersSum ==
  ASSUME NEW u \in [Waiters -> Int]
  PROVE  SumFunction(u) = SumFunctionOnSet(u, Waiters) /\ SumFunction(u) \in Int
<1>1. DOMAIN u = Waiters /\ IsFiniteSet(Waiters) /\ \A w \in Waiters : u[w] \in Int
  BY QuotaAssumption
<1>2. SumFunctionOnSet(u, Waiters) \in Int
  BY <1>1, SumType
<1> QED BY <1>1, <1>2 DEF SumFunction

\* A request more, and none.
LEMMA UsageOfMore ==
  ASSUME NEW q \in Quotas, NEW s \in SUBSET Waiters, NEW w \in Waiters, w \notin s
  PROVE  Usage(s \cup {w}, q) = Usage(s, q) + Delta[w][q]
<1> DEFINE f == [v \in Waiters |-> Delta[v][q]]
<1>1. IsFiniteSet(s)
  BY QuotaAssumption, FS_Subset
<1>2. f[w] = Delta[w][q] /\ f[w] \in Int /\ \A x \in s \cup {w} : f[x] \in Int
  BY QuotaAssumption
<1> HIDE DEF f
<1>3. SumFunctionOnSet(f, s \cup {w}) = f[w] + SumFunctionOnSet(f, s)
  BY <1>1, <1>2, SumAddElement
<1>4. SumFunctionOnSet(f, s) \in Int
  BY <1>1, <1>2, SumType
<1>5. SumFunctionOnSet(f, s \cup {w}) = SumFunctionOnSet(f, s) + Delta[w][q]
  BY <1>2, <1>3, <1>4
<1> QED BY <1>5 DEF Usage, f

LEMMA UsageOfNone == ASSUME NEW q PROVE Usage({}, q) = 0
BY SumEmpty DEF Usage

\* The charges c with one more for every request of s that owes something.
LEMMA ChargesAdd ==
  ASSUME NEW q \in Quotas, NEW s \in SUBSET Waiters,
         NEW c \in [Waiters -> Nat], NEW d \in [Waiters -> Nat],
         \A w \in Waiters : d[w] = IF w \in s /\ Delta[w][q] > 0 THEN c[w] + 1 ELSE c[w]
  PROVE  SumFunction([w \in Waiters |-> d[w] * Delta[w][q]])
           = SumFunction([w \in Waiters |-> c[w] * Delta[w][q]]) + Usage(s, q)
<1> DEFINE u == [w \in Waiters |-> Delta[w][q]]
<1> DEFINE f == [w \in Waiters |-> c[w] * Delta[w][q]]
<1> DEFINE h == [w \in Waiters |-> d[w] * Delta[w][q]]
<1> DEFINE e == [w \in Waiters |-> IF w \in s THEN Delta[w][q] ELSE 0]
<1>1. \A x \in Nat, y \in Nat : x * y \in Nat /\ (x + 1) * y = x * y + y /\ x * 0 = 0
  OBVIOUS
<1>2. ASSUME NEW w \in Waiters
      PROVE  /\ f[w] \in Int /\ e[w] \in Int /\ h[w] \in Int /\ u[w] \in Int
             /\ h[w] = f[w] + e[w]
             /\ w \in s => e[w] = u[w]
             /\ w \notin s => e[w] = 0
  <2>1. c[w] \in Nat /\ Delta[w][q] \in Nat /\ d[w] \in Nat
    BY QuotaAssumption
  <2>2. /\ f[w] = c[w] * Delta[w][q] /\ h[w] = d[w] * Delta[w][q] /\ u[w] = Delta[w][q]
        /\ e[w] = IF w \in s THEN Delta[w][q] ELSE 0
    OBVIOUS
  <2>3. c[w] * Delta[w][q] \in Nat /\ d[w] * Delta[w][q] \in Nat
    BY <1>1, <2>1
  <2>4. d[w] * Delta[w][q] = c[w] * Delta[w][q] + (IF w \in s THEN Delta[w][q] ELSE 0)
    <3>1. CASE w \in s /\ Delta[w][q] > 0
      <4>1. d[w] = c[w] + 1
        BY <3>1
      <4>2. (c[w] + 1) * Delta[w][q] = c[w] * Delta[w][q] + Delta[w][q]
        BY <1>1, <2>1
      <4> QED BY <3>1, <4>1, <4>2
    <3>2. CASE w \in s /\ ~(Delta[w][q] > 0)
      <4>1. d[w] = c[w] /\ Delta[w][q] = 0
        BY <2>1, <3>2
      <4> QED BY <1>1, <2>1, <4>1
    <3>3. CASE w \notin s
      <4>1. d[w] = c[w]
        BY <3>3
      <4> QED BY <2>3, <3>3, <4>1
    <3> QED BY <3>1, <3>2, <3>3
  <2> HIDE DEF f, h, e, u
  <2> QED BY <2>1, <2>2, <2>3, <2>4
<1>3. f \in [Waiters -> Int] /\ h \in [Waiters -> Int]
  BY <1>2
<1>4. IsFiniteSet(Waiters) /\ IsFiniteSet(s)
  BY QuotaAssumption, FS_Subset
<1> HIDE DEF f, h, e, u
<1>5. SumFunctionOnSet(h, Waiters) = SumFunctionOnSet(f, Waiters) + SumFunctionOnSet(e, Waiters)
  BY <1>2, <1>4, SumOfSums
<1>6. SumFunctionOnSet(e, Waiters) = SumFunctionOnSet(e, s)
  <2>1. (\A w \in Waiters : e[w] \in Int) /\ (\A w \in Waiters \ s : e[w] = 0)
    BY <1>2
  <2> QED BY <1>4, <2>1, SumSupport
<1>7. SumFunctionOnSet(e, s) = SumFunctionOnSet(u, s)
  <2>1. \A w \in s : e[w] \in Int /\ u[w] = e[w]
    BY <1>2
  <2> QED BY <1>4, <2>1, SumCongruence
<1>8. SumFunction(h) = SumFunction(f) + SumFunctionOnSet(u, s)
  BY <1>3, <1>5, <1>6, <1>7, WaitersSum
<1> QED BY <1>8 DEF f, h, u, Usage

\* Nothing is charged and nothing is used.
LEMMA LedgerInit == Init => LedgerInv
<1> SUFFICES ASSUME Init PROVE LedgerInv
  OBVIOUS
<1>1. RunningExact /\ WithinHard
  BY QuotaAssumption DEF Init, RunningExact, WithinHard, Zero
<1>2. ASSUME NEW q \in Quotas
      PROVE  stored[q].total = SumFunction([w \in Waiters |-> charged[q][w] * Delta[w][q]])
  <2> DEFINE f == [w \in Waiters |-> charged[q][w] * Delta[w][q]]
  <2>1. \A w \in Waiters : charged[q][w] = 0 /\ Delta[w][q] \in Nat
    BY QuotaAssumption DEF Init
  <2>2. \A w \in Waiters : f[w] = 0
    BY <2>1
  <2>3. f \in [Waiters -> Int]
    BY <2>2
  <2> HIDE DEF f
  <2>4. SumFunctionOnSet(f, Waiters) = SumFunctionOnSet(f, {})
    <3>1. {} \in SUBSET Waiters /\ (\A w \in Waiters \ {} : f[w] = 0) /\ \A w \in Waiters : f[w] \in Int
      BY <2>2
    <3> QED BY <3>1, SumSupport, QuotaAssumption
  <2>5. SumFunction(f) = 0
    BY <2>3, <2>4, WaitersSum, SumEmpty
  <2>6. stored[q].total = 0
    BY DEF Init, Zero
  <2> QED BY <2>5, <2>6 DEF f
<1> QED BY <1>1, <1>2 DEF LedgerInv, LedgerExact

\* A worker that goes on, or gives up, without counting anything.
LEMMA RunningKept ==
  ASSUME RunningExact, UNCHANGED <<copy, running, left, billed>>,
         \A n \in Namespaces : /\ todo'[n] \subseteq todo[n]
                               /\ pc'[n] \in Checking \cup Updating => pc[n] \in Checking \cup Updating
  PROVE  RunningExact'
BY DEF RunningExact

LEMMA NewestWithin ==
  ASSUME WithinHard, NEW q \in Quotas, NEW v, v.total <= Hard[q]
  PROVE  /\ Newest(v, q).total <= Hard[q]
         /\ LruAfter(v, q) # None => LruAfter(v, q).total <= Hard[q]
BY DEF WithinHard, Newest, LruAfter

LEMMA StartPassLedger ==
  ASSUME QuotaInv, LedgerInv, NEW n \in Namespaces, NEW qs \in SUBSET Quotas, StartPass(n, qs),
         NEW l \in {"lock", "check"}, pc' = [pc EXCEPT ![n] = l], UNCHANGED charged
  PROVE  LedgerInv'
<1> USE DEF StartPass
<1>1. \A q \in Quotas : seen[q].total <= Hard[q]
  BY DEF LedgerInv, WithinHard
<1>2. \A q \in Quotas : /\ Newest(seen[q], q).total <= Hard[q]
                        /\ LruAfter(seen[q], q) # None => LruAfter(seen[q], q).total <= Hard[q]
  BY <1>1, NewestWithin DEF LedgerInv
<1>3. WithinHard'
  BY <1>2 DEF LedgerInv, WithinHard, QuotaInv, QuotaTypeOK
<1>4. RunningExact'
  <2> SUFFICES ASSUME NEW m \in Namespaces
               PROVE  /\ left'[m] \cap billed'[m] = {}
                      /\ pc'[m] \in Checking \cup Updating =>
                           \A q \in todo'[m] : running'[m][q] = copy'[m][q].total + Usage(billed'[m], q)
    BY DEF RunningExact
  <2>1. CASE m = n
    <3>1. \A q \in Quotas : Newest(seen[q], q).total \in Int
      <4>1. \A q \in Quotas : Newest(seen[q], q) \in Version
        BY DEF QuotaInv, QuotaTypeOK, Newest
      <4> QED BY <4>1 DEF Version
    <3>2. /\ billed'[n] = {} /\ todo'[n] = qs
          /\ \A q \in qs : /\ running'[n][q] = Newest(seen[q], q).total
                           /\ copy'[n][q].total = Newest(seen[q], q).total
      BY DEF QuotaInv, QuotaTypeOK
    <3>3. \A q \in qs : running'[n][q] = copy'[n][q].total + Usage(billed'[n], q)
      <4> SUFFICES ASSUME NEW q \in qs
                   PROVE  running'[n][q] = copy'[n][q].total + Usage(billed'[n], q)
        OBVIOUS
      <4>1. Usage(billed'[n], q) = 0
        BY <3>2, UsageOfNone
      <4>2. running'[n][q] = copy'[n][q].total /\ copy'[n][q].total \in Int
        BY <3>1, <3>2
      <4> HIDE DEF StartPass
      <4> QED BY <4>1, <4>2
    <3> QED BY <2>1, <3>2, <3>3
  <2>2. CASE m # n
    BY <2>2 DEF QuotaInv, QuotaTypeOK, LedgerInv, RunningExact
  <2> QED BY <2>1, <2>2
<1> QED BY <1>3, <1>4 DEF LedgerInv, LedgerExact

LEMMA CheckRequestLedger ==
  ASSUME QuotaInv, LedgerInv, NEW n \in Namespaces, NEW w \in Waiters, CheckRequest(n, w)
  PROVE  LedgerInv'
<1>1. UNCHANGED <<quotaVars, pc, copy, todo, charged>>
  BY DEF CheckRequest
<1>2. LedgerExact'
  BY <1>1 DEF LedgerInv, LedgerExact, quotaVars
<1>3. left' = [left EXCEPT ![n] = @ \ {w}] /\ w \in left[n] /\ pc[n] = "check"
  BY DEF CheckRequest
<1>4. CASE UNCHANGED <<running, billed>>
  <2>1. RunningExact'
    BY <1>1, <1>3, <1>4 DEF LedgerInv, RunningExact, QuotaInv, QuotaTypeOK
  <2>2. WithinHard'
    BY <1>1, <1>4 DEF LedgerInv, WithinHard, quotaVars
  <2> QED BY <1>2, <2>1, <2>2 DEF LedgerInv
<1>5. CASE /\ Fits(n, w)
           /\ running' = [running EXCEPT ![n] =
                [q \in Quotas |-> IF q \in Matching(n, w) THEN @[q] + Delta[w][q] ELSE @[q]]]
           /\ billed' = [billed EXCEPT ![n] = @ \cup {w}]
  <2>1. /\ \A m \in Namespaces \ {n} : /\ running'[m] = running[m] /\ billed'[m] = billed[m]
                                       /\ left'[m] = left[m]
        /\ billed'[n] = billed[n] \cup {w} /\ left'[n] = left[n] \ {w}
        /\ \A q \in Quotas : running'[n][q] = IF q \in Matching(n, w)
                               THEN running[n][q] + Delta[w][q] ELSE running[n][q]
    BY <1>3, <1>5 DEF QuotaInv, QuotaTypeOK
  <2>2. w \notin billed[n] /\ billed[n] \in SUBSET Waiters
    BY <1>3 DEF LedgerInv, RunningExact, QuotaInv, QuotaTypeOK
  <2>3. ASSUME NEW q \in todo[n]
        PROVE  running'[n][q] = copy[n][q].total + Usage(billed'[n], q)
    <3>1. /\ q \in Quotas /\ running[n][q] = copy[n][q].total + Usage(billed[n], q)
          /\ copy[n][q].total \in Int /\ Delta[w][q] \in Nat
      BY <1>3, QuotaAssumption DEF LedgerInv, RunningExact, QuotaInv, QuotaTypeOK, Version
    <3>2. running'[n][q] = running[n][q] + Delta[w][q]
      <4>1. CASE q \in Matching(n, w)
        BY <2>1, <3>1, <4>1
      <4>2. CASE q \notin Matching(n, w)
        <5>1. Delta[w][q] = 0 /\ running[n][q] \in Int
          BY <3>1, <4>2 DEF Matching, QuotaInv, QuotaTypeOK
        <5> QED BY <2>1, <3>1, <4>2, <5>1
      <4> QED BY <4>1, <4>2
    <3>3. Usage(billed'[n], q) = Usage(billed[n], q) + Delta[w][q] /\ Usage(billed[n], q) \in Nat
      BY <2>1, <2>2, <3>1, UsageOfMore, UsageType
    <3> QED BY <3>1, <3>2, <3>3
  <2>4. RunningExact'
    <3> SUFFICES ASSUME NEW m \in Namespaces
                 PROVE  /\ left'[m] \cap billed'[m] = {}
                        /\ pc[m] \in Checking \cup Updating =>
                             \A q \in todo[m] : running'[m][q] = copy[m][q].total + Usage(billed'[m], q)
      BY <1>1 DEF RunningExact
    <3>1. CASE m = n
      BY <2>1, <2>3, <3>1 DEF LedgerInv, RunningExact
    <3>2. CASE m # n
      BY <2>1, <3>2 DEF LedgerInv, RunningExact
    <3> QED BY <3>1, <3>2
  <2>5. WithinHard'
    <3>1. \A q \in Quotas : running'[n][q] <= Hard[q]
      BY <1>5, <2>1 DEF Fits, LedgerInv, WithinHard
    <3> QED BY <1>1, <2>1, <3>1 DEF LedgerInv, WithinHard, quotaVars
  <2> QED BY <1>2, <2>4, <2>5 DEF LedgerInv
<1> QED BY <1>4, <1>5 DEF CheckRequest

\* A write adds to the total what it charges.
LEMMA PutStatusLedger ==
  ASSUME QuotaInv, LedgerInv, NEW n \in Namespaces, PutStatus(n) \/ PutFails(n)
  PROVE  LedgerInv'
<1> DEFINE q == cur[n]
<1>1. /\ pc[n] = "put" /\ pc' = [pc EXCEPT ![n] = "update"] /\ todo' = [todo EXCEPT ![n] = @ \ {q}]
      /\ UNCHANGED <<seen, copy, running, left, billed>>
  BY DEF PutStatus, PutFails
<1>2. q \in Quotas /\ q \in todo[n] /\ True(copy[n][q], q)
  BY <1>1 DEF QuotaInv, QuotaTypeOK, PassOK, PassAt, CopiesTrue
<1>3. RunningExact'
  BY <1>1, RunningKept DEF LedgerInv, QuotaInv, QuotaTypeOK
<1>4. CASE /\ UNCHANGED <<stored, charged>>
           /\ lru' = [lru EXCEPT ![q] = LruAfter(base[n], q)]
  <2>1. LruAfter(base[n], q) \in {None, lru[q]}
    BY DEF LruAfter
  <2>2. WithinHard'
    BY <1>1, <1>2, <1>4, <2>1 DEF LedgerInv, WithinHard, QuotaInv, QuotaTypeOK
  <2> QED BY <1>3, <1>4, <2>2 DEF LedgerInv, LedgerExact
<1>5. CASE PutStatus(n) /\ Written(n, q)
  <2> DEFINE v == NewVersion(n, q, Newest(base[n], q))
  <2>1. v.total = running[n][q]
    BY DEF NewVersion
  <2>2. stored' = [stored EXCEPT ![q] = v] /\ lru' = [lru EXCEPT ![q] = v] /\ Charge(n, q)
    BY <1>5 DEF PutStatus
  <2> HIDE DEF v
  <2>3. WithinHard'
    BY <1>1, <1>2, <2>1, <2>2 DEF LedgerInv, WithinHard, QuotaInv, QuotaTypeOK
  <2>4. copy[n][q] = stored[q]
    BY <1>2, <1>5 DEF Written, True
  <2>5. running[n][q] = stored[q].total + Usage(billed[n], q)
    BY <1>1, <1>2, <2>4 DEF LedgerInv, RunningExact
  <2>6. /\ charged[q] \in [Waiters -> Nat] /\ charged'[q] \in [Waiters -> Nat]
        /\ billed[n] \in SUBSET Waiters
        /\ \A w \in Waiters : charged'[q][w] =
             IF w \in billed[n] /\ Delta[w][q] > 0 THEN charged[q][w] + 1 ELSE charged[q][w]
        /\ \A p \in Quotas \ {q} : charged'[p] = charged[p]
    <3> HIDE DEF q
    <3>1. charged \in [Quotas -> [Waiters -> Nat]] /\ billed[n] \in SUBSET Waiters
      BY DEF QuotaInv, QuotaTypeOK
    <3>2. charged'[q] = [w \in Waiters |->
            IF w \in billed[n] /\ Delta[w][q] > 0 THEN charged[q][w] + 1 ELSE charged[q][w]]
      BY <1>2, <2>2, <3>1 DEF Charge
    <3>3. \A p \in Quotas \ {q} : charged'[p] = charged[p]
      BY <2>2, <3>1 DEF Charge
    <3> QED BY <1>2, <3>1, <3>2, <3>3
  <2>7. SumFunction([w \in Waiters |-> charged'[q][w] * Delta[w][q]])
          = SumFunction([w \in Waiters |-> charged[q][w] * Delta[w][q]]) + Usage(billed[n], q)
    <3> HIDE DEF q
    <3> QED BY <1>2, <2>6, ChargesAdd
  <2>8. LedgerExact'
    <3> SUFFICES ASSUME NEW p \in Quotas
                 PROVE  stored'[p].total = SumFunction([w \in Waiters |-> charged'[p][w] * Delta[w][p]])
      BY DEF LedgerExact
    <3>1. CASE p = q
      <4>1. stored'[q] = v
        BY <1>2, <2>2 DEF QuotaInv, QuotaTypeOK
      <4>2. stored[q].total = SumFunction([w \in Waiters |-> charged[q][w] * Delta[w][q]])
        BY <1>2 DEF LedgerInv, LedgerExact
      <4> HIDE DEF q
      <4> QED BY <2>1, <2>5, <2>7, <3>1, <4>1, <4>2
    <3>2. CASE p # q
      <4>1. stored'[p] = stored[p] /\ charged'[p] = charged[p]
        BY <2>2, <2>6, <3>2 DEF QuotaInv, QuotaTypeOK
      <4> QED BY <4>1 DEF LedgerInv, LedgerExact
    <3> QED BY <3>1, <3>2
  <2> QED BY <1>3, <2>3, <2>8 DEF LedgerInv
<1> QED BY <1>4, <1>5 DEF PutStatus, PutFails, history

LEMMA LedgerNext == QuotaInv /\ NoRecount /\ LedgerInv /\ [Next]_vars => LedgerInv'
<1> SUFFICES ASSUME QuotaInv, NoRecount, LedgerInv, [Next]_vars PROVE LedgerInv'
  OBVIOUS
<1> USE DEF quotaVars, pass, history
<1>u. ASSUME UNCHANGED <<quotaVars, copy, running, left, billed, charged>>,
             \A n \in Namespaces : /\ todo'[n] \subseteq todo[n]
                                   /\ pc'[n] \in Checking \cup Updating => pc[n] \in Checking \cup Updating
      PROVE  LedgerInv'
  <2>1. RunningExact'
    BY <1>u, RunningKept DEF LedgerInv
  <2> QED BY <1>u, <2>1 DEF LedgerInv, LedgerExact, WithinHard
<1>1. ASSUME NEW n \in Namespaces,
             Take(n) \/ GetLock(n) \/ NewLock(n) \/ Acquire(n) \/ EndCheck(n) \/ ReadBase(n)
               \/ EndUpdate(n) \/ GetQuotasFails(n)
      PROVE  LedgerInv'
  <2>1. UNCHANGED <<quotaVars, copy, running, left, billed, charged>>
    BY <1>1 DEF Take, GetLock, NewLock, Acquire, EndCheck, ReadBase, EndUpdate, GetQuotasFails
  <2>2. /\ \A m \in Namespaces \ {n} : pc'[m] = pc[m]
        /\ pc'[n] \in Checking \cup Updating => pc[n] \in Checking \cup Updating
    BY <1>1 DEF Take, GetLock, NewLock, Acquire, EndCheck, ReadBase, EndUpdate, GetQuotasFails,
                QuotaInv, QuotaTypeOK
  <2>3. \A m \in Namespaces : todo'[m] \subseteq todo[m]
    <3>1. CASE EndCheck(n)
      BY <3>1 DEF EndCheck, QuotaInv, QuotaTypeOK
    <3>2. CASE todo' = todo
      BY <3>2
    <3> QED BY <1>1, <3>1, <3>2 DEF Take, GetLock, NewLock, Acquire, ReadBase, EndUpdate, GetQuotasFails
  <2> QED BY <2>1, <2>2, <2>3, <1>u
<1>2. ASSUME NEW n \in Namespaces, GetQuotas(n) PROVE LedgerInv'
  <2>1. Quotas \in SUBSET Quotas
    OBVIOUS
  <2> QED BY <1>2, <2>1, StartPassLedger DEF GetQuotas
<1>3. ASSUME NEW n \in Namespaces, Retry(n) PROVE LedgerInv'
  <2>1. failed[n] \in SUBSET Quotas
    BY DEF QuotaInv, QuotaTypeOK
  <2> QED BY <1>3, <2>1, StartPassLedger DEF Retry
<1>4. ASSUME NEW n \in Namespaces, Finish(n) PROVE LedgerInv'
  <2>1. RunningExact'
    BY <1>4 DEF Finish, ForgetPass, LedgerInv, RunningExact, QuotaInv, QuotaTypeOK
  <2>2. WithinHard'
    BY <1>4, QuotaAssumption DEF Finish, ForgetPass, LedgerInv, WithinHard, QuotaInv, QuotaTypeOK
  <2> QED BY <1>4, <2>1, <2>2 DEF Finish, LedgerInv, LedgerExact
<1>5. CASE \E w \in Waiters : Submit(w) \/ Create(w) \/ Delete(w)
  BY <1>5, <1>u DEF Submit, Create, Delete
<1>6. ASSUME NEW q \in Quotas, SeeQuota(q) PROVE LedgerInv'
  <2>1. RunningExact'
    BY <1>6, RunningKept DEF SeeQuota, LedgerInv
  <2>2. WithinHard'
    BY <1>6 DEF SeeQuota, LedgerInv, WithinHard, QuotaInv, QuotaTypeOK
  <2> QED BY <1>6, <2>1, <2>2 DEF SeeQuota, LedgerInv, LedgerExact
<1>7. ~ \E q \in Quotas : ReconcileRead(q) \/ ReconcilePut(q)
  BY DEF NoRecount, ReconcileRead, ReconcilePut
<1>8. CASE SeeObjects
  BY <1>8, <1>u DEF SeeObjects
<1>9. CASE UNCHANGED vars
  BY <1>9, <1>u DEF vars
<1> QED BY <1>1, <1>2, <1>3, <1>4, <1>5, <1>6, <1>7, <1>8, <1>9, CheckRequestLedger, PutStatusLedger
        DEF Next, WorkerStep

\* Without the controller nothing is recounted.
LEMMA NoRecountInvariant == ~Recount /\ Spec => []NoRecount
<1>1. Init /\ ~Recount => NoRecount
  BY DEF Init, NoRecount
<1>2. NoRecount /\ [Next]_vars => NoRecount'
  <2> SUFFICES ASSUME NoRecount, [Next]_vars PROVE recount' = recount
    BY DEF NoRecount
  <2> USE DEF controller
  <2>1. ASSUME NEW n \in Namespaces, WorkerStep(n) PROVE recount' = recount
    BY <2>1 DEF WorkerStep, Take, GetQuotas, GetLock, NewLock, Acquire, CheckRequest, EndCheck,
                ReadBase, PutStatus, EndUpdate, Retry, Finish
  <2>2. ASSUME NEW n \in Namespaces, GetQuotasFails(n) \/ PutFails(n) PROVE recount' = recount
    BY <2>2 DEF GetQuotasFails, PutFails
  <2>3. ASSUME NEW w \in Waiters, Submit(w) \/ Create(w) \/ Delete(w) PROVE recount' = recount
    BY <2>3 DEF Submit, Create, Delete
  <2>4. ASSUME NEW q \in Quotas, SeeQuota(q) \/ ReconcileRead(q) \/ ReconcilePut(q)
        PROVE  recount' = recount
    BY <2>4 DEF SeeQuota, ReconcileRead, ReconcilePut, NoRecount
  <2> QED BY <2>1, <2>2, <2>3, <2>4 DEF Next, SeeObjects, vars
<1> QED BY <1>1, <1>2, PTL DEF Spec

LEMMA LedgerInvariant == ~Recount /\ Spec => [](QuotaInv /\ LedgerInv)
<1>1. Init => LedgerInv
  BY LedgerInit
<1>2. QuotaInv /\ NoRecount /\ LedgerInv /\ [Next]_vars => LedgerInv'
  BY LedgerNext
<1> QED BY <1>1, <1>2, QuotaInvariant, NoRecountInvariant, PTL DEF Spec

\* The usage in a quota is what the requests charged to it have asked for.
THEOREM LedgerIsExact == ~Recount /\ Spec => []LedgerExact
<1>1. LedgerInv => LedgerExact
  BY DEF LedgerInv
<1> QED BY <1>1, LedgerInvariant, PTL

\* The requests admitted, of all namespaces together, fit in every quota:
\* each is charged once, the charges are the total, the total is within Hard.
THEOREM NothingOvercommitted == ~Recount /\ Spec => []NoOvercommit
<1>1. QuotaInv /\ LedgerInv => NoOvercommit
  <2> SUFFICES ASSUME QuotaInv, LedgerInv, NEW q \in Quotas
               PROVE  Usage(Admitted \ refused, q) <= Hard[q]
    BY DEF NoOvercommit
  <2> DEFINE u == [w \in Waiters |-> Delta[w][q]]
  <2> DEFINE f == [w \in Waiters |-> charged[q][w] * Delta[w][q]]
  <2> DEFINE A == Admitted \ refused
  <2>1. A \in SUBSET Waiters /\ IsFiniteSet(Waiters)
    BY QuotaAssumption DEF QuotaInv, QuotaTypeOK, Admitted
  <2>2. \A w \in Waiters : Delta[w][q] \in Nat /\ charged[q][w] \in Nat
    BY QuotaAssumption DEF QuotaInv, QuotaTypeOK
  <2>m. \A x \in Nat, y \in Nat : x * y \in Nat
    OBVIOUS
  <2>3. \A w \in Waiters : u[w] \in Nat /\ f[w] \in Nat
    BY <2>2, <2>m
  <2>4. \A w \in A : u[w] <= f[w]
    <3> SUFFICES ASSUME NEW w \in A PROVE Delta[w][q] <= charged[q][w] * Delta[w][q]
      BY <2>1
    <3>1. CASE Delta[w][q] = 0
      BY <2>1, <2>2, <2>m, <3>1
    <3>2. CASE Delta[w][q] > 0
      <4>1. charged[q][w] = 1
        BY <3>2 DEF QuotaInv, AdmittedPaid
      <4> QED BY <2>1, <2>2, <4>1
    <3> QED BY <2>1, <2>2, <3>1, <3>2
  <2>5. f \in [Waiters -> Int] /\ stored[q].total = SumFunction(f) /\ stored[q].total <= Hard[q]
    BY <2>3 DEF LedgerInv, LedgerExact, WithinHard
  <2>h. Hard[q] \in Int
    BY QuotaAssumption
  <2> HIDE DEF u, f, A
  <2>6. SumFunctionOnSet(u, A) <= SumFunctionOnSet(f, Waiters)
    BY <2>1, <2>3, <2>4, SumMonotonic
  <2>7. SumFunctionOnSet(f, Waiters) <= Hard[q] /\ SumFunctionOnSet(f, Waiters) \in Int
    BY <2>5, WaitersSum
  <2>8. SumFunctionOnSet(u, A) \in Int
    <3>1. IsFiniteSet(A) /\ \A w \in A : u[w] \in Int
      BY <2>1, <2>3, FS_Subset
    <3> QED BY <3>1, SumType
  <2>9. SumFunctionOnSet(u, A) <= Hard[q]
    BY <2>6, <2>7, <2>8, <2>h
  <2> QED BY <2>9 DEF u, A, Usage
<1> QED BY <1>1, LedgerInvariant, PTL
=============================================================================
