---------------------------- MODULE MCWatchtower ----------------------------
(* One contract with two rival spends, or two contracts that share a script. *)
EXTENDS Watchtower, TLC

CONSTANTS o1, o2, o3, s1, s2, a, b, c

MCSpends == (a :> o1) @@ (b :> o1) @@ (c :> o2)
MCScripts == (o1 :> s1) @@ (o2 :> s2) @@ (o3 :> s2)
MCWallets == {[used |-> {o1}, script |-> MCScripts], [used |-> {o2, o3}, script |-> MCScripts]}
=============================================================================
