------------------------------ MODULE ResourceLock ------------------------------
(***************************************************************************)
(* What the locks of the control plane and of its agents promise: a set of *)
(* owners in which two conflict only when one of them works on behalf of   *)
(* the other (a stage of a worktree move under the reservation of the      *)
(* move, a nested claim of an agent's operation beside the outer ones).    *)
(***************************************************************************)
CONSTANTS
  Owner,        \* operations that may own resources
  Conflicts,    \* the pairs of operations that must not run together
  Serves        \* the pairs <<stage, move>>

VARIABLE owners

Init == owners = {}

Acquire(o) ==
  /\ o \notin owners
  /\ \A p \in owners : <<p, o>> \in Conflicts => <<o, p>> \in Serves
  /\ owners' = owners \union {o}

Release(o) ==
  /\ o \in owners
  /\ owners' = owners \ {o}

Next == \E o \in Owner : Acquire(o) \/ Release(o)

Spec == Init /\ [][Next]_owners
===============================================================================
