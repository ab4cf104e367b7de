------------------------------ MODULE Batches -------------------------------
(***************************************************************************)
(* What the work lists of the quota evaluator promise to the requests that *)
(* wait in Evaluate: a worker takes all the requests that wait in one      *)
(* namespace, no other worker takes any of that namespace until those are  *)
(* answered, and every request that waits is answered, once.               *)
(***************************************************************************)
CONSTANTS Waiters, Namespaces, NsOf

VARIABLES queued, taken, answered
vars == <<queued, taken, answered>>

In(n, s) == {w \in s : NsOf[w] = n}

Init == queued = {} /\ taken = {} /\ answered = {}

Submit(w) ==
  /\ w \notin queued \cup taken \cup answered
  /\ queued' = queued \cup {w}
  /\ UNCHANGED <<taken, answered>>

Take(n) ==
  /\ In(n, queued) # {} /\ In(n, taken) = {}
  /\ queued' = queued \ In(n, queued)
  /\ taken' = taken \cup In(n, queued)
  /\ UNCHANGED answered

Answer(n) ==
  /\ In(n, taken) # {}
  /\ taken' = taken \ In(n, taken)
  /\ answered' = answered \cup In(n, taken)
  /\ UNCHANGED queued

Next ==
  \/ \E w \in Waiters : Submit(w)
  \/ \E n \in Namespaces : Take(n) \/ Answer(n)

Spec == Init /\ [][Next]_vars
FairSpec == Spec /\ \A n \in Namespaces : WF_vars(Take(n)) /\ WF_vars(Answer(n))
=============================================================================
