------------------------------ MODULE ObjectLog ------------------------------
(***************************************************************************)
(* What the object store promises its callers, whatever happens to         *)
(* processes and disks: one log of committed operations, to which an       *)
(* operation is added at most once, a create only where there is no        *)
(* object, an update only as the successor of the latest version.          *)
(* Nothing is ever taken out or changed.                                   *)
(***************************************************************************)
EXTENDS Naturals, Sequences

CONSTANTS
    Ops,        \* operations, each named by its clientOpId
    Ids,        \* object ids
    ActionOf,   \* "create" or "update"
    TargetOf    \* the object each operation is about

VARIABLE log

Entries == {log[i] : i \in 1 .. Len(log)}

Done(o) == \E e \in Entries : e.op = o
Exists(id) == \E e \in Entries : e.id = id
IsLatest(id, v) ==
    /\ \E e \in Entries : e.id = id /\ e.ver = v
    /\ \A e \in Entries : e.id = id => e.ver <= v

Init == log = << >>

Commit(o, v) == log' = Append(log, [op |-> o, id |-> TargetOf[o], ver |-> v])

Create(o) ==
    /\ ActionOf[o] = "create"
    /\ ~Exists(TargetOf[o])
    /\ Commit(o, 1)

Update(o) ==
    /\ ActionOf[o] = "update"
    /\ ~Done(o)
    /\ \E e \in Entries :
        /\ IsLatest(TargetOf[o], e.ver)
        /\ Commit(o, e.ver + 1)

Next == \E o \in Ops : Create(o) \/ Update(o)

Spec == Init /\ [][Next]_log
=============================================================================
