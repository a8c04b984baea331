------------------------------- MODULE VSpace -------------------------------
(***************************************************************************)
(* What the kernel expects of a virtual address space: a partial map from  *)
(* virtual to physical pages with permissions.  Mapping a page that is     *)
(* mapped fails, mapping for want of memory fails and changes nothing,     *)
(* unmapping returns the page that was mapped.                             *)
(***************************************************************************)
CONSTANTS Pages, Frames, Perms, None

VARIABLES
  vmap,   \* virtual page -> [ppn, perms] or None
  ret     \* the last call and its result

vars == <<vmap, ret>>

Result(op, v, err, ppn) == [op |-> op, page |-> v, err |-> err, ppn |-> ppn]

Init == vmap = [v \in Pages |-> None] /\ ret = Result("init", 0, "ERR_OK", 0)

Map(v) ==
  /\ ret' = Result("map", v, "ERR_OK", 0)
  /\ vmap[v] = None
  /\ \E p \in Frames, perms \in Perms :
       vmap' = [vmap EXCEPT ![v] = [ppn |-> p, perms |-> perms]]

MapExists(v) ==
  /\ ret' = Result("map", v, "ERR_PAGING_MAPPING_EXISTS", 0)
  /\ vmap[v] # None
  /\ UNCHANGED vmap

(* Memory for the page tables may run out, but not for a mapped page. *)
MapNoMemory(v) ==
  /\ ret' = Result("map", v, "ERR_PAGING_SETUP_TABLE", 0)
  /\ vmap[v] = None
  /\ UNCHANGED vmap

Unmap(v) ==
  /\ vmap[v] # None
  /\ ret' = Result("unmap", v, "ERR_OK", vmap[v].ppn)
  /\ vmap' = [vmap EXCEPT ![v] = None]

UnmapMissing(v) ==
  /\ ret' = Result("unmap", v, "ERR_PAGING_MAPPING_DOESNT_EXIST", 0)
  /\ vmap[v] = None
  /\ UNCHANGED vmap

(* Calls with arguments that are refused whatever is mapped. *)
Refuse(op, v) ==
  /\ ret' \in {Result(op, v, err, 0) : err \in {"ERR_PAGING_UNALIGNED_ADDRESS",
                 "ERR_NOT_IMPLEMENTED", "ERR_PAGING_INVALID_TYPE"}}
  /\ UNCHANGED vmap

Next ==
  \E v \in Pages :
    \/ Map(v) \/ MapExists(v) \/ MapNoMemory(v)
    \/ Unmap(v) \/ UnmapMissing(v)
    \/ \E op \in {"map", "unmap"} : Refuse(op, v)

Spec == Init /\ [][Next]_vars
=============================================================================
