------------------------------ MODULE ResourcePool ------------------------------
(***************************************************************************)
(* What a pool of the daemon promises to the requests that share it.       *)
(*                                                                         *)
(* A resource is opened for a key when no other resource of that key is    *)
(* open, is handed out only while the pool is open, is closed once, and is *)
(* closed only when nobody holds it.  A pool that Forces may also close    *)
(* resources in use, but only after it has been closed itself.             *)
(***************************************************************************)
CONSTANTS Key, Resource, User, None, Forces

VARIABLES
    life,   \* per resource: "fresh", "open" or "closed"
    key,    \* per resource: the key it was opened for
    hold,   \* per user: the resource it holds
    pool    \* "open" or "closed"

vars == <<life, key, hold, pool>>

TypeOK ==
    /\ life \in [Resource -> {"fresh", "open", "closed"}]
    /\ key \in [Resource -> Key \cup {None}]
    /\ hold \in [User -> Resource \cup {None}]
    /\ pool \in {"open", "closed"}

Init ==
    /\ life = [r \in Resource |-> "fresh"]
    /\ key = [r \in Resource |-> None]
    /\ hold = [u \in User |-> None]
    /\ pool = "open"

Held(r) == \E u \in User : hold[u] = r

Open(r, k) ==
    /\ life[r] = "fresh"
    /\ \A q \in Resource : life[q] = "open" => key[q] # k
    /\ life' = [life EXCEPT ![r] = "open"]
    /\ key' = [key EXCEPT ![r] = k]
    /\ UNCHANGED <<hold, pool>>

Take(u, r) ==
    /\ pool = "open" /\ life[r] = "open" /\ hold[u] = None
    /\ hold' = [hold EXCEPT ![u] = r]
    /\ UNCHANGED <<life, key, pool>>

Return(u) ==
    /\ hold' = [hold EXCEPT ![u] = None]
    /\ UNCHANGED <<life, key, pool>>

Discard(r) ==
    /\ life[r] = "open"
    /\ Held(r) => Forces /\ pool = "closed"
    /\ life' = [life EXCEPT ![r] = "closed"]
    /\ UNCHANGED <<key, hold, pool>>

Shut ==
    /\ pool' = "closed"
    /\ UNCHANGED <<life, key, hold>>

Next ==
    \/ \E r \in Resource : Discard(r) \/ \E k \in Key : Open(r, k)
    \/ \E u \in User : Return(u) \/ \E r \in Resource : Take(u, r)
    \/ Shut

Spec == Init /\ [][Next]_vars

\* What is held is open, except that a pool which Forces may have been closed.
HeldIsOpen ==
    \A u \in User : hold[u] # None /\ (pool = "open" \/ ~Forces) => life[hold[u]] = "open"
================================================================================
