---------------------------- MODULE CrashStore ----------------------------
(***************************************************************************)
(* What the AurionOS file system promises as long as no entry is removed:  *)
(* a map from names to contents with a volatile copy, the one commands     *)
(* read and write, and a durable copy, the one a boot would read back.     *)
(*                                                                         *)
(* The promise is isolation.  A command makes dirty at most the two paths  *)
(* it is about.  Saving may leave the durable copy of a dirty path in any  *)
(* state, for the save writes sector after sector and the machine may stop *)
(* between two of them.  It never disturbs a path that is not dirty, and   *)
(* a path that is not dirty reads after a boot as it does before.          *)
(***************************************************************************)

CONSTANTS
  Name,      \* the paths in use
  Value,     \* what reading a path can return
  Missing    \* what reading returns for a path that has no entry

VARIABLES
  volatile,  \* what a command reads for each path
  durable,   \* what a command would read for each path after a reboot
  dirty,     \* the paths changed since their durable copy was complete
  up         \* TRUE when the tables have been loaded

vars == <<volatile, durable, dirty, up>>

Blank == [n \in Name |-> Missing]

Init ==
  /\ volatile = Blank
  /\ durable = Blank
  /\ dirty = {}
  /\ up = FALSE

(* After a step, the durable copy of a path that is not dirty is complete. *)
CleanIsDurable == \A n \in Name \ dirty' : durable'[n] = volatile'[n]

(* A command changes one path, or the two paths of a rename. *)
Update ==
  /\ up
  /\ UNCHANGED <<durable, up>>
  /\ volatile' \in [Name -> Value]
  /\ LET changed == {n \in Name : volatile'[n] # volatile[n]} \cup (dirty' \ dirty)
     IN  \E m, n \in Name : changed \subseteq {m, n}
  /\ CleanIsDurable

(* Writing a sector may touch only the paths that are dirty. *)
Persist ==
  /\ up
  /\ UNCHANGED <<volatile, up>>
  /\ durable' \in [Name -> Value]
  /\ \A n \in Name \ dirty : durable'[n] = durable[n]
  /\ dirty' \subseteq dirty
  /\ CleanIsDurable

(* The tables in memory are dropped: a power failure or a reload. *)
Drop ==
  /\ up
  /\ volatile' = Blank
  /\ dirty' = {}
  /\ up' = FALSE
  /\ UNCHANGED durable

(* A boot reads back exactly the durable copy. *)
Recover ==
  /\ ~up
  /\ volatile' = durable
  /\ up' = TRUE
  /\ UNCHANGED <<durable, dirty>>

Next == Update \/ Persist \/ Drop \/ Recover

Spec == Init /\ [][Next]_vars
===========================================================================
