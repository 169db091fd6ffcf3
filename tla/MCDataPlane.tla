----------------------------- MODULE MCDataPlane -----------------------------
(***************************************************************************)
(* A producer that counts its Commits beside direct callers, two threads   *)
(* (so that start() can be called twice) and the owner.  Handle 1 is the   *)
(* first command's: a dispatch on it resolves when that was a create whose *)
(* device allocation succeeded and which has already been handled.         *)
(***************************************************************************)
EXTENDS DataPlane

MCCommands ==
    {[k |-> "create", loc |-> "device", wide |-> FALSE],
     [k |-> "create", loc |-> "host", wide |-> TRUE],
     [k |-> "dispatch", kernel |-> "gemv", bufs |-> {1}],
     [k |-> "shutdown"],
     [k |-> "other"]}
=============================================================================
