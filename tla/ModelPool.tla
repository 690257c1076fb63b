----------------------------- MODULE ModelPool -----------------------------
(* What the pool of the container promises to its callers: a model is      *)
(* leased from the free ones, to one client at a time, and is either given *)
(* back or (when a call throws between the lease and the try block) lost.  *)
CONSTANTS Clients, Models, NoModel

VARIABLES
    free,   \* models a client may lease
    lease   \* model leased to each client

vars == <<free, lease>>

Init ==
    /\ free = Models
    /\ lease = [c \in Clients |-> NoModel]

Lease(c, m) ==
    /\ lease[c] = NoModel
    /\ m \in free
    /\ free' = free \ {m}
    /\ lease' = [lease EXCEPT ![c] = m]

GiveBack(c) ==
    /\ lease[c] \in Models
    /\ free' = free \cup {lease[c]}
    /\ lease' = [lease EXCEPT ![c] = NoModel]

Lose(c) ==
    /\ lease[c] \in Models
    /\ lease' = [lease EXCEPT ![c] = NoModel]
    /\ UNCHANGED free

Next ==
    \E c \in Clients : (\E m \in Models : Lease(c, m)) \/ GiveBack(c) \/ Lose(c)

Spec == Init /\ [][Next]_vars
=============================================================================
