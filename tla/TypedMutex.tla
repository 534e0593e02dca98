----------------------------- MODULE TypedMutex -----------------------------
(***************************************************************************)
(* What POSIX promises of a mutex, without pointers, lazy initialisation   *)
(* or native objects: one holder at a time, an owner that may lock again   *)
(* exactly when the type the program asked for is recursive, and a wait on *)
(* a condition variable that gives back the depth it took away.            *)
(***************************************************************************)
EXTENDS Integers

CONSTANTS
  Threads, Mutexes,
  Types,          \* the types a program can ask for
  Recursive,      \* the recursive one of them
  MaxDepth,       \* the deepest recursion the implementation grants
  NotParked       \* "the thread sleeps in no wait"

VARIABLES
  ready,          \* mutexes that may be used
  type,           \* mutex -> the type asked for
  held,           \* thread -> mutex -> how many times the thread holds it
  parked          \* thread -> <<mutex, depth>> it left to sleep, or NotParked

vars == <<ready, type, held, parked>>

Init ==
  /\ ready \in SUBSET Mutexes
  /\ type \in [Mutexes -> Types]
  /\ held = [t \in Threads |-> [m \in Mutexes |-> 0]]
  /\ parked = [t \in Threads |-> NotParked]

\* Nobody but t holds m.
OpenTo(t, m) == \A u \in Threads \ {t} : held[u][m] = 0

Idle(m) ==
  /\ \A t \in Threads : held[t][m] = 0
  /\ \A t \in Threads : parked[t] # NotParked => parked[t][1] # m

Initialise(m, k) ==
  /\ m \notin ready
  /\ Idle(m)
  /\ ready' = ready \cup {m}
  /\ type' = [type EXCEPT ![m] = k]
  /\ UNCHANGED <<held, parked>>

Destroy(m) ==
  /\ m \in ready
  /\ Idle(m)
  /\ ready' = ready \ {m}
  /\ UNCHANGED <<type, held, parked>>

Acquire(t, m) ==
  /\ m \in ready
  /\ parked[t] = NotParked
  /\ OpenTo(t, m)
  /\ held[t][m] = 0 \/ (type[m] = Recursive /\ held[t][m] < MaxDepth)
  /\ held' = [held EXCEPT ![t][m] = @ + 1]
  /\ UNCHANGED <<ready, type, parked>>

Release(t, m) ==
  /\ held[t][m] > 0
  /\ parked[t] = NotParked
  /\ held' = [held EXCEPT ![t][m] = @ - 1]
  /\ UNCHANGED <<ready, type, parked>>

Park(t, m) ==
  /\ held[t][m] > 0
  /\ parked[t] = NotParked
  /\ parked' = [parked EXCEPT ![t] = <<m, held[t][m]>>]
  /\ held' = [held EXCEPT ![t][m] = 0]
  /\ UNCHANGED <<ready, type>>

Unpark(t) ==
  /\ parked[t] # NotParked
  /\ OpenTo(t, parked[t][1])
  /\ held' = [held EXCEPT ![t][parked[t][1]] = parked[t][2]]
  /\ parked' = [parked EXCEPT ![t] = NotParked]
  /\ UNCHANGED <<ready, type>>

Next ==
  \/ \E m \in Mutexes : \E k \in Types : Initialise(m, k)
  \/ \E m \in Mutexes : Destroy(m)
  \/ \E t \in Threads : \E m \in Mutexes :
       Acquire(t, m) \/ Release(t, m) \/ Park(t, m)
  \/ \E t \in Threads : Unpark(t)

Spec == Init /\ [][Next]_vars

=============================================================================
