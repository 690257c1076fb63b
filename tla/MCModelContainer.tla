------------------------- MODULE MCModelContainer -------------------------
(* Small instances of ModelContainer for TLC: three client threads and one *)
(* that manages the constant buffers.                                      *)
EXTENDS ModelContainer, TLC

CONSTANTS c1, c2, c3, admin, m1, m2, m3

Serving(calls) == [t \in Threads |-> calls]
Managed(calls, script) == [t \in Threads |-> IF t = admin THEN script ELSE calls]

RunOnce == Serving(<<"run">>)
RunTwice == Serving(<<"run", "run">>)

\* Rolling out new weights: load, fold, swap, release the old ones.
Rollout == <<"updateInactive", "foldInactive", "swap", "freeInactive">>
RolloutTwice ==
    Managed(<<"run", "run">>, Rollout \o <<"updateInactive", "foldInactive", "swap">>)

\* New weights swapped in without an explicit fold: the next run folds them.
SwapUnfolded == Managed(<<"run">>, <<"updateInactive", "swap">>)

\* Non-thread-aware calls between the steps of a rollout.
SingleThreaded == Managed(<<"runSingle", "runSingle">>, Rollout)

\* Every operation, ending on a swap to a released buffer.
Everything ==
    [t \in Threads |->
        CASE t = admin -> <<"updateActive", "foldActive", "updateInactive",
                            "foldInactive", "freeInactive", "swap">>
          [] t = c1 -> <<"run">>
          [] OTHER -> <<"run", "runSingle">>]

ModelSymmetry == Permutations(Models)
ClientSymmetry == Permutations(Threads \ {admin}) \cup ModelSymmetry
=============================================================================
