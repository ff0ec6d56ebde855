----------------------------- MODULE RateLimit -----------------------------
(***************************************************************************)
(* The fixed-window request cap of RateLimitFilter.java, and its copy in   *)
(* CloudEventHttpSecurityFilter.java.  Request threads share one           *)
(* AtomicReference to an immutable Window and replace it with              *)
(* compareAndSet.  Each thread reads the clock once, before its loop.      *)
(* Requests that are not counted (the cap is 0, a q/ path, a 401 from the  *)
(* API-key check that comes first) never reach the window and are left out.*)
(***************************************************************************)
EXTENDS Integers

CONSTANTS
  Threads,      \* request threads
  Limit,        \* requestsPerMinute
  LastWindow,   \* bound: the clock runs through windows 0..LastWindow
  MaxRequests,  \* bound: requests counted in one behaviour
  None          \* no clock reading, no Window

ASSUME LimitAssumption == Limit \in Nat \ {0}
ASSUME BoundsAssumption == LastWindow \in Nat /\ MaxRequests \in Nat
ASSUME NoneAssumption == None \notin Int

Windows == 0..LastWindow

VARIABLES
  clock,       \* the current window of the wall clock
  window,      \* the Window referenced: its start, its count, and which object it is
  step,        \* step[t]: what thread t does next
  captured,    \* captured[t]: windowStart, the window t read from the clock
  observed,    \* observed[t]: the Window t has read
  arrived,     \* requests that entered the filter
  admitted,    \* history: admitted[w], requests let through that captured window w
  stragglers   \* history: requests counted after a later window had been opened

vars == <<clock, window, step, captured, observed, arrived, admitted, stragglers>>

Init ==
  /\ clock = 0
  /\ window = [start |-> 0, count |-> 0, object |-> 0]
  /\ step = [t \in Threads |-> "idle"]
  /\ captured = [t \in Threads |-> None]
  /\ observed = [t \in Threads |-> None]
  /\ arrived = 0
  /\ admitted = [w \in Windows |-> 0]
  /\ stragglers = 0

Tick ==
  /\ clock < LastWindow
  /\ clock' = clock + 1
  /\ UNCHANGED <<window, step, captured, observed, arrived, admitted, stragglers>>

\* A request enters the filter and reads the clock.
Arrive(t) ==
  /\ step[t] = "idle"
  /\ arrived < MaxRequests
  /\ arrived' = arrived + 1
  /\ captured' = [captured EXCEPT ![t] = clock]
  /\ step' = [step EXCEPT ![t] = "read"]
  /\ UNCHANGED <<clock, window, observed, admitted, stragglers>>

\* Fault: the Window read is not kept.
Read_Unkept(t) ==
  /\ step[t] = "read"
  /\ step' = [step EXCEPT ![t] = "swap"]
  /\ UNCHANGED <<clock, window, captured, observed, arrived, admitted, stragglers>>

\* observed = window.get()
Read(t) ==
  /\ step[t] = "read"
  /\ observed' = [observed EXCEPT ![t] = window]
  /\ step' = [step EXCEPT ![t] = "swap"]
  /\ UNCHANGED <<clock, window, captured, arrived, admitted, stragglers>>

\* Fault: the count of the window before goes on.
CountOf_Carried(t) == observed[t].count + 1

\* The count of the Window that t wants to install: another window starts again at 1.
CountOf(t) ==
  IF observed[t].start = captured[t] THEN observed[t].count + 1 ELSE 1

\* The request is answered: passed on, or refused with 429.
Answer(t, count) ==
  /\ step' = [step EXCEPT ![t] = "idle"]
  /\ captured' = [captured EXCEPT ![t] = None]
  /\ observed' = [observed EXCEPT ![t] = None]
  /\ admitted' = IF count <= Limit
                 THEN [admitted EXCEPT ![captured[t]] = @ + 1]
                 ELSE admitted

\* Fault: set() in the place of compareAndSet.
Swap_Blind(t) ==
  /\ step[t] = "swap"
  /\ window' = [start |-> captured[t], count |-> CountOf(t), object |-> window.object + 1]
  /\ stragglers' = IF captured[t] < window.start THEN stragglers + 1 ELSE stragglers
  /\ Answer(t, CountOf(t))
  /\ UNCHANGED <<clock, arrived>>

\* compareAndSet finds the very object that was observed, and replaces it.
Swap(t) ==
  /\ step[t] = "swap"
  /\ observed[t].object = window.object
  /\ window' = [start |-> captured[t], count |-> CountOf(t), object |-> window.object + 1]
  /\ stragglers' = IF captured[t] < window.start THEN stragglers + 1 ELSE stragglers
  /\ Answer(t, CountOf(t))
  /\ UNCHANGED <<clock, arrived>>

\* Fault: the loop computes again from the Window it had.
SwapFails_NoReread(t) ==
  /\ step[t] = "swap"
  /\ observed[t].object # window.object
  /\ UNCHANGED vars

\* Another thread was first: the loop reads again.
SwapFails(t) ==
  /\ step[t] = "swap"
  /\ observed[t].object # window.object
  /\ step' = [step EXCEPT ![t] = "read"]
  /\ UNCHANGED <<clock, window, captured, observed, arrived, admitted, stragglers>>

\* The bounds are reached and every request is answered.
Quiet ==
  /\ \A t \in Threads : step[t] = "idle"
  /\ arrived = MaxRequests /\ clock = LastWindow
  /\ UNCHANGED vars

Filter(t) == Read(t) \/ Swap(t) \/ SwapFails(t)

Next == Tick \/ (\E t \in Threads : Arrive(t) \/ Filter(t)) \/ Quiet

Spec == Init /\ [][Next]_vars

\* Request threads are scheduled.
FairSpec == Spec /\ \A t \in Threads : WF_vars(Filter(t))

----
WindowObjects == [start : Windows, count : Nat, object : Nat]

\* The types of the variables; a thread in its loop has read the clock, and one about to
\* swap holds a Window that was referenced no later than the one referenced now.
TypeOK ==
  /\ clock \in Windows
  /\ window \in WindowObjects
  /\ step \in [Threads -> {"idle", "read", "swap"}]
  /\ captured \in [Threads -> Windows \cup {None}]
  /\ observed \in [Threads -> WindowObjects \cup {None}]
  /\ arrived \in 0..MaxRequests
  /\ admitted \in [Windows -> Nat]
  /\ stragglers \in Nat
  /\ \A t \in Threads :
       /\ step[t] # "idle" => captured[t] \in Windows
       /\ step[t] = "swap" =>
            observed[t] \in WindowObjects /\ observed[t].object <= window.object

\* What the cap comes to: Limit requests a window, and Limit more for every straggler, a
\* request that counts itself in a window already left and so wipes out the count of the
\* later one.  Without stragglers no window admits more than Limit.
CapPerStraggler == \A w \in Windows : admitted[w] <= Limit * (1 + stragglers)

\* A 429 is earned: whoever is refused, Limit requests of its own window were let through.
RefusalsAreEarned ==
  [][\A t \in Threads :
       step[t] = "swap" /\ step'[t] = "idle" /\ admitted' = admitted =>
         admitted[captured[t]] >= Limit]_vars

\* The loop ends: a thread goes round again only because another request was counted.
EveryRequestAnswered == \A t \in Threads : step[t] = "read" ~> step[t] = "idle"

\* RateLimitFilter.java line 17: "Caps total request throughput with a fixed 60s window".
CapHolds == \A w \in Windows : admitted[w] <= Limit

----
(* The strengthening that makes CapPerStraggler and RefusalsAreEarned inductive. *)

\* A Window an object number stands for is unique: whoever observed the current number
\* observed the current Window.
ObservedIsCurrent ==
  \A t \in Threads :
    step[t] = "swap" =>
      /\ observed[t].object <= window.object
      /\ observed[t].object = window.object => observed[t] = window

\* What was let through in a window later than, equal to and earlier than the one referenced.
AdmittedSoFar ==
  \A w \in Windows :
    /\ w > window.start => admitted[w] <= Limit * stragglers
    /\ w = window.start =>
         /\ admitted[w] <= Limit * stragglers + Limit
         /\ admitted[w] <= Limit * stragglers + window.count
         /\ admitted[w] >= IF window.count <= Limit THEN window.count ELSE Limit
    /\ w < window.start => admitted[w] <= Limit * (1 + stragglers)

CapInv == ObservedIsCurrent /\ AdmittedSoFar
=============================================================================
