------------------------------ MODULE HopPool ------------------------------
(***************************************************************************)
(* What the bastion hops of SshService promise, without dials, awaits and  *)
(* caches: a reference-counted pool.  A hop is up or not; a host wants the *)
(* hops of the chain registered for it.  A hop that some host wants goes   *)
(* down only with the network, or in the very step in which the last host  *)
(* stops wanting it.  A hop that no host wants yet, or wants any more, may *)
(* be closed.                                                              *)
(***************************************************************************)
CONSTANTS Hops, Users

VARIABLES
  up,    (* the hops that are up                                           *)
  wants  (* the hops each user wants                                       *)

poolVars == <<up, wants>>

Init == up = {} /\ wants = [u \in Users |-> {}]

(* The hops that only u wants.                                             *)
OnlyFor(u) == {p \in wants[u] : \A v \in Users \ {u} : p \notin wants[v]}

Unwanted == {p \in up : \A u \in Users : p \notin wants[u]}

(* One hop at a time comes up, and only once until it goes down.           *)
Dial(p) ==
  /\ p \notin up
  /\ up' = up \cup {p}
  /\ UNCHANGED wants

(* u changes to the hops of another chain, perhaps of none.                *)
Change(u, hops) ==
  /\ wants' = [wants EXCEPT ![u] = hops]
  /\ \E idle \in SUBSET Unwanted : up' = (up \ (OnlyFor(u) \ hops)) \ idle

(* The network fails.                                                      *)
Lose(p) ==
  /\ up' = up \ {p}
  /\ UNCHANGED wants

Next ==
  \/ \E p \in Hops : Dial(p) \/ Lose(p)
  \/ \E u \in Users, hops \in SUBSET Hops : Change(u, hops)

Spec == Init /\ [][Next]_poolVars
=============================================================================
