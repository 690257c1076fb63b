---------------------------- MODULE MCLazyInit ----------------------------
(* Small instances of LazyInit for TLC.                                    *)
EXTENDS LazyInit

CONSTANTS t1, t2, t3

\* Two threads queue calls and initialise, a third one only queues.
Racing == [t \in Threads |-> CASE t = t1 -> <<"set", "seed", "set", "init">>
                               [] t = t2 -> <<"seed", "seedAll", "init", "set">>
                               [] OTHER -> <<"init", "set">>]
Seeded == [t \in Threads |-> <<"seed", "set", "init">>]
=============================================================================
