-------------------------- MODULE RateLimit_proofs --------------------------
(***************************************************************************)
(* Proofs about RateLimit, for every number of threads, cap, windows and   *)
(* requests: the cap per straggler, and that every refusal is earned.      *)
(***************************************************************************)
EXTENDS RateLimit, TLAPS

\* A thread about to swap has read the clock and holds a Window; its count is a number.
LEMMA Swapping ==
  ASSUME TypeOK, NEW t \in Threads, step[t] = "swap"
  PROVE  /\ captured[t] \in Windows /\ captured[t] \in Int
         /\ observed[t] \in WindowObjects
         /\ CountOf(t) \in Nat \ {0}
<1>1. captured[t] \in Windows /\ observed[t] \in WindowObjects
  BY DEF TypeOK
<1>2. captured[t] \in Int
  BY <1>1 DEF Windows
<1>3. observed[t].count \in Nat
  BY <1>1 DEF WindowObjects
<1>4. CountOf(t) \in Nat \ {0}
  BY <1>3 DEF CountOf
<1> QED BY <1>1, <1>2, <1>4

\* Type correctness is inductive.
LEMMA TypeStep == TypeOK /\ [Next]_vars => TypeOK'
<1> SUFFICES ASSUME TypeOK, [Next]_vars PROVE TypeOK'
  OBVIOUS
<1> USE LimitAssumption, BoundsAssumption, NoneAssumption
<1>1. CASE Tick
  BY <1>1 DEF TypeOK, Tick, Windows
<1>2. ASSUME NEW t \in Threads, Arrive(t) PROVE TypeOK'
  BY <1>2 DEF TypeOK, Arrive
<1>3. ASSUME NEW t \in Threads, Read(t) PROVE TypeOK'
  <2>1. captured' = captured /\ window' = window /\ observed' = [observed EXCEPT ![t] = window]
        /\ step' = [step EXCEPT ![t] = "swap"] /\ step[t] # "idle"
    BY <1>3 DEF Read
  <2>2. window \in WindowObjects /\ window.object <= window.object
    BY DEF TypeOK, WindowObjects
  <2> QED BY <1>3, <2>1, <2>2 DEF TypeOK, Read
<1>4. ASSUME NEW t \in Threads, Swap(t) PROVE TypeOK'
  <2>1. /\ captured[t] \in Windows /\ CountOf(t) \in Nat
    BY <1>4, Swapping DEF Swap
  <2>2. window' \in WindowObjects
    <3>1. window.object + 1 \in Nat
      BY DEF TypeOK, WindowObjects
    <3> QED BY <1>4, <2>1, <3>1 DEF Swap, WindowObjects
  <2>3. admitted' \in [Windows -> Nat]
    BY <1>4, <2>1 DEF Swap, Answer, TypeOK
  <2>4. stragglers' \in Nat
    BY <1>4 DEF Swap, TypeOK
  <2>5. ASSUME NEW s \in Threads, step'[s] = "swap"
        PROVE  observed'[s] \in WindowObjects /\ observed'[s].object <= window'.object
    <3>1. s # t /\ step[s] = "swap" /\ observed'[s] = observed[s]
      BY <1>4, <2>5 DEF Swap, Answer, TypeOK
    <3>2. /\ observed[s] \in WindowObjects /\ observed[s].object <= window.object
          /\ window'.object = window.object + 1
      BY <1>4, <3>1 DEF Swap, TypeOK
    <3>3. observed[s].object \in Nat /\ window.object \in Nat
      BY <3>2 DEF WindowObjects, TypeOK
    <3> QED BY <3>1, <3>2, <3>3
  <2>6. ASSUME NEW s \in Threads PROVE step'[s] # "idle" => captured'[s] \in Windows
    BY <1>4 DEF Swap, Answer, TypeOK
  <2> QED BY <1>4, <2>2, <2>3, <2>4, <2>5, <2>6 DEF Swap, Answer, TypeOK
<1>5. ASSUME NEW t \in Threads, SwapFails(t) PROVE TypeOK'
  BY <1>5 DEF TypeOK, SwapFails
<1>6. CASE UNCHANGED vars
  BY <1>6 DEF TypeOK, vars
<1> QED BY <1>1, <1>2, <1>3, <1>4, <1>5, <1>6 DEF Next, Filter, Quiet

\* The variables keep their types.
THEOREM TypeCorrect == Spec => []TypeOK
<1>1. Init => TypeOK
  BY LimitAssumption, BoundsAssumption DEF Init, TypeOK, WindowObjects, Windows
<1> QED BY <1>1, TypeStep, PTL DEF Spec

----
\* A thread holds the current Window as soon as it holds one with the current number.
LEMMA ObservedStep ==
  TypeOK /\ ObservedIsCurrent /\ [Next]_vars => ObservedIsCurrent'
<1> SUFFICES ASSUME TypeOK, ObservedIsCurrent, [Next]_vars,
                    NEW u \in Threads, step'[u] = "swap"
             PROVE  /\ observed'[u].object <= window'.object
                    /\ observed'[u].object = window'.object => observed'[u] = window'
  BY DEF ObservedIsCurrent
<1>0. window.object \in Int
  BY DEF TypeOK, WindowObjects
<1>1. CASE Tick \/ UNCHANGED vars
  BY <1>1 DEF Tick, vars, ObservedIsCurrent
<1>2. ASSUME NEW t \in Threads, Arrive(t) \/ SwapFails(t)
      PROVE  /\ observed'[u].object <= window'.object
             /\ observed'[u].object = window'.object => observed'[u] = window'
  BY <1>2 DEF Arrive, SwapFails, ObservedIsCurrent, TypeOK
<1>3. ASSUME NEW t \in Threads, Read(t)
      PROVE  /\ observed'[u].object <= window'.object
             /\ observed'[u].object = window'.object => observed'[u] = window'
  <2>1. CASE u = t
    BY <1>0, <1>3, <2>1 DEF Read, TypeOK
  <2>2. CASE u # t
    BY <1>3, <2>2 DEF Read, TypeOK, ObservedIsCurrent
  <2> QED BY <2>1, <2>2
<1>4. ASSUME NEW t \in Threads, Swap(t)
      PROVE  /\ observed'[u].object <= window'.object
             /\ observed'[u].object = window'.object => observed'[u] = window'
  <2>1. u # t /\ step[u] = "swap" /\ observed'[u] = observed[u]
    BY <1>4 DEF Swap, Answer, TypeOK
  <2>2. window'.object = window.object + 1
    BY <1>4 DEF Swap
  <2>3. observed[u].object <= window.object /\ observed[u].object \in Int
    BY <2>1, Swapping DEF ObservedIsCurrent, WindowObjects
  <2> QED BY <1>0, <2>1, <2>2, <2>3
<1> QED BY <1>1, <1>2, <1>3, <1>4 DEF Next, Filter, Quiet

\* One straggler more is worth Limit requests more.
LEMMA OneMore ==
  ASSUME NEW s \in Nat
  PROVE  /\ Limit * s \in Nat /\ Limit * (s + 1) \in Nat
         /\ Limit * (1 + s) = Limit * s + Limit
         /\ Limit * (s + 1) = Limit * s + Limit
         /\ Limit * (1 + (s + 1)) = Limit * s + Limit + Limit
BY LimitAssumption

\* A swap counts exactly one request: on top of the count when the window is the current
\* one, from 1 again when it is not.
LEMMA SwapCounts ==
  ASSUME TypeOK, ObservedIsCurrent, NEW t \in Threads, Swap(t)
  PROVE  /\ window'.start = captured[t]
         /\ window'.count = CountOf(t)
         /\ CountOf(t) = IF window.start = captured[t] THEN window.count + 1 ELSE 1
         /\ \A w \in Windows :
              admitted'[w] = IF w = captured[t] /\ CountOf(t) <= Limit
                             THEN admitted[w] + 1 ELSE admitted[w]
<1>1. observed[t] = window
  BY DEF Swap, ObservedIsCurrent
<1>2. window'.start = captured[t] /\ window'.count = CountOf(t)
  BY DEF Swap
<1>3. CountOf(t) = IF window.start = captured[t] THEN window.count + 1 ELSE 1
  BY <1>1 DEF CountOf
<1>4. ASSUME NEW w \in Windows
      PROVE  admitted'[w] = IF w = captured[t] /\ CountOf(t) <= Limit
                            THEN admitted[w] + 1 ELSE admitted[w]
  BY DEF Swap, Answer, TypeOK
<1> QED BY <1>2, <1>3, <1>4

\* AdmittedSoFar says the same of any window, and the same again after a step.
LEMMA AdmittedStep ==
  TypeOK /\ CapInv /\ [Next]_vars => AdmittedSoFar'
<1> SUFFICES ASSUME TypeOK, CapInv, [Next]_vars PROVE AdmittedSoFar'
  OBVIOUS
<1>1. CASE UNCHANGED <<window, admitted, stragglers>>
  BY <1>1 DEF CapInv, AdmittedSoFar
<1>2. ASSUME NEW t \in Threads, Swap(t) PROVE AdmittedSoFar'
  <2> DEFINE c == captured[t]
             s == stragglers
  <2> SUFFICES ASSUME NEW w \in Windows
               PROVE  /\ w > window'.start => admitted'[w] <= Limit * stragglers'
                      /\ w = window'.start =>
                           /\ admitted'[w] <= Limit * stragglers' + Limit
                           /\ admitted'[w] <= Limit * stragglers' + window'.count
                           /\ admitted'[w] >= IF window'.count <= Limit
                                              THEN window'.count ELSE Limit
                      /\ w < window'.start => admitted'[w] <= Limit * (1 + stragglers')
    BY DEF AdmittedSoFar
  <2>1. /\ w \in Int /\ c \in Int /\ window.start \in Int /\ window.count \in Nat
        /\ admitted[w] \in Nat /\ s \in Nat /\ Limit \in Nat \ {0}
    <3>1. step[t] = "swap"
      BY <1>2 DEF Swap
    <3>2. c \in Int
      BY <3>1, Swapping
    <3>3. window \in WindowObjects /\ admitted[w] \in Nat /\ s \in Nat
      BY DEF TypeOK
    <3> HIDE DEF c, s
    <3> QED BY <3>2, <3>3, LimitAssumption DEF Windows, WindowObjects
  <2>2. /\ window'.start = c
        /\ window'.count = IF window.start = c THEN window.count + 1 ELSE 1
        /\ admitted'[w] = IF w = c /\ window'.count <= Limit THEN admitted[w] + 1 ELSE admitted[w]
    BY <1>2, SwapCounts DEF CapInv
  <2>3. /\ w > window.start => admitted[w] <= Limit * s
        /\ w = window.start =>
             /\ admitted[w] <= Limit * s + Limit
             /\ admitted[w] <= Limit * s + window.count
             /\ admitted[w] >= IF window.count <= Limit THEN window.count ELSE Limit
        /\ w < window.start => admitted[w] <= Limit * s + Limit
    BY <2>1, OneMore DEF CapInv, AdmittedSoFar
  <2>4. /\ Limit * s \in Nat
        /\ Limit * (1 + s) = Limit * s + Limit
    BY <2>1, OneMore
  <2>5. CASE c < window.start
    <3>1. stragglers' = s + 1
      BY <1>2, <2>5 DEF Swap
    <3>2. Limit * stragglers' = Limit * s + Limit
          /\ Limit * (1 + stragglers') = Limit * s + Limit + Limit
      BY <2>1, <3>1, OneMore
    <3> HIDE DEF c, s
    <3> QED BY <2>1, <2>2, <2>3, <2>4, <2>5, <3>2
  <2>6. CASE ~(c < window.start)
    <3>1. stragglers' = s
      BY <1>2, <2>6 DEF Swap
    <3> HIDE DEF c, s
    <3> QED BY <2>1, <2>2, <2>3, <2>4, <2>6, <3>1
  <2> QED BY <2>5, <2>6
<1> QED BY <1>1, <1>2 DEF Next, Filter, Quiet, Tick, Arrive, Read, SwapFails, vars

\* The strengthening holds of every reachable state.
THEOREM CapInvariant == Spec => [](TypeOK /\ CapInv)
<1>1. Init => TypeOK /\ CapInv
  <2> SUFFICES ASSUME Init PROVE CapInv
    BY LimitAssumption, BoundsAssumption DEF Init, TypeOK, WindowObjects, Windows
  <2>1. ObservedIsCurrent
    BY DEF Init, ObservedIsCurrent
  <2>2. AdmittedSoFar
    BY LimitAssumption, OneMore DEF Init, AdmittedSoFar, Windows
  <2> QED BY <2>1, <2>2 DEF CapInv
<1>2. TypeOK /\ CapInv /\ [Next]_vars => (TypeOK /\ CapInv)'
  BY TypeStep, ObservedStep, AdmittedStep DEF CapInv
<1> QED BY <1>1, <1>2, PTL DEF Spec

\* No window lets through more than Limit requests, and Limit more for each straggler.
THEOREM CapIsPerStraggler == Spec => []CapPerStraggler
<1>1. TypeOK /\ CapInv => CapPerStraggler
  <2> SUFFICES ASSUME TypeOK, CapInv, NEW w \in Windows
               PROVE  admitted[w] <= Limit * (1 + stragglers)
    BY DEF CapPerStraggler
  <2>1. /\ w \in Int /\ window.start \in Int
        /\ admitted[w] \in Nat /\ stragglers \in Nat
    BY DEF TypeOK, Windows, WindowObjects
  <2>2. /\ Limit * stragglers \in Nat
        /\ Limit * (1 + stragglers) = Limit * stragglers + Limit
    BY <2>1, OneMore
  <2> QED BY <2>1, <2>2, LimitAssumption DEF CapInv, AdmittedSoFar
<1> QED BY <1>1, CapInvariant, PTL

\* A request is refused only when Limit others of its window were let through.
THEOREM RefusalIsEarned == Spec => RefusalsAreEarned
<1> DEFINE Earned ==
      \A t \in Threads :
        step[t] = "swap" /\ step'[t] = "idle" /\ admitted' = admitted =>
          admitted[captured[t]] >= Limit
<1>1. TypeOK /\ CapInv /\ [Next]_vars => [Earned]_vars
  <2> SUFFICES ASSUME TypeOK, CapInv, Next, NEW t \in Threads,
                      step[t] = "swap", step'[t] = "idle", admitted' = admitted
               PROVE  admitted[captured[t]] >= Limit
    OBVIOUS
  <2>1. Swap(t)
    BY DEF Next, Filter, Tick, Arrive, Read, Swap, SwapFails, Answer, Quiet, vars, TypeOK
  <2>2. /\ captured[t] \in Windows /\ window.count \in Nat
        /\ admitted[captured[t]] \in Nat /\ Limit \in Nat \ {0} /\ CountOf(t) \in Nat
    BY Swapping, LimitAssumption DEF TypeOK, WindowObjects
  <2>3. CountOf(t) > Limit
    BY <2>1, <2>2, SwapCounts DEF CapInv
  <2>4. CountOf(t) = IF window.start = captured[t] THEN window.count + 1 ELSE 1
    BY <2>1, SwapCounts DEF CapInv
  <2>5. window.start = captured[t] /\ window.count >= Limit
    BY <2>2, <2>3, <2>4
  <2>6. admitted[captured[t]] >= IF window.count <= Limit THEN window.count ELSE Limit
    BY <2>2, <2>5 DEF CapInv, AdmittedSoFar
  <2> QED BY <2>2, <2>5, <2>6
<1>2. Spec => [][Earned]_vars
  BY <1>1, CapInvariant, PTL DEF Spec
<1> QED BY <1>2 DEF RefusalsAreEarned
=============================================================================
