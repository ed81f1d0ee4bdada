----------------------------- MODULE EventWait -----------------------------
(***************************************************************************)
(* What IOManager promises the fibers and callbacks that wait for events,  *)
(* without epoll, without worker threads and without counters: a place to  *)
(* wait (a descriptor and an event) holds one waiter, and a waiter leaves  *)
(* its place once, woken or forgotten.  IOManager.tla implements this      *)
(* specification; HookIO.tla is written on top of it.                      *)
(***************************************************************************)
CONSTANTS
    Waiters,    \* the fibers and callbacks
    Slots,      \* the places to wait: a descriptor and an event
    None        \* no waiter

VARIABLES
    slot,       \* the waiter of each place
    fate        \* "new", "waiting", "woken" or "deleted" per waiter

Init ==
    /\ slot = [s \in Slots |-> None]
    /\ fate = [x \in Waiters |-> "new"]

\* addEvent: a waiter takes an empty place.
Register(s, x) ==
    /\ slot[s] = None
    /\ fate[x] = "new"
    /\ slot' = [slot EXCEPT ![s] = x]
    /\ fate' = [fate EXCEPT ![x] = "waiting"]

\* An event, cancelEvent or cancelAll: the waiters of some places are scheduled.
Wake(S) ==
    /\ S # {}
    /\ \A s \in S : slot[s] # None
    /\ slot' = [s \in Slots |-> IF s \in S THEN None ELSE slot[s]]
    /\ fate' = [x \in Waiters |-> IF \E s \in S : slot[s] = x THEN "woken" ELSE fate[x]]

\* delEvent: the waiter is dropped and will not be scheduled.
Forget(s) ==
    /\ slot[s] # None
    /\ slot' = [slot EXCEPT ![s] = None]
    /\ fate' = [fate EXCEPT ![slot[s]] = "deleted"]

\* A woken fiber runs on and may wait again.
Resume(x) ==
    /\ fate[x] = "woken"
    /\ fate' = [fate EXCEPT ![x] = "new"]
    /\ UNCHANGED slot

Next ==
    \/ \E s \in Slots, x \in Waiters : Register(s, x)
    \/ \E S \in SUBSET Slots : Wake(S)
    \/ \E s \in Slots : Forget(s)
    \/ \E x \in Waiters : Resume(x)

Spec == Init /\ [][Next]_<<slot, fate>>
=============================================================================
