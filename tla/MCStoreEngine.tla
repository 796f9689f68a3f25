---------------------------- MODULE MCStoreEngine ----------------------------
(* Small instances of StoreEngine: one object, created once and updated by  *)
(* two operations; every client may run and retry some of them.             *)
EXTENDS StoreEngine

CONSTANTS P, Q, c1, c2, c3, x, mk, up1, up2

SameProcess == [c \in Clients |-> P]
TwoProcesses == [c \in Clients |-> IF c = c1 THEN P ELSE Q]

AnyOp == [c \in Clients |-> Ops]
OneOpEach == [c \in Clients |->
    CASE c = c1 -> {mk} [] c = c2 -> {up1} [] OTHER -> {up2}]

Actions == [o \in Ops |-> IF o = mk THEN "create" ELSE "update"]
Targets == [o \in Ops |-> x]
=============================================================================
