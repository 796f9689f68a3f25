--------------------------- MODULE MCTerminalInput ---------------------------
(***************************************************************************)
(* A small terminal for TLC.  Controllers are interchangeable.  Two states *)
(* are explored once when they differ only in what controllers do after    *)
(* the session is over, which cannot lead to anything being typed, or in   *)
(* the order of typed inputs that no property compares: only writes and    *)
(* interrupts are ordered.                                                 *)
(***************************************************************************)
EXTENDS TerminalInput, TLC

Interchangeable == Permutations(Controllers)

IsOrdered(input) == input.source \in {"write", "interrupt"}
Typed ==
    <<SelectSeq(typed, IsOrdered), {typed[i] : i \in 1 .. Len(typed)}, Len(typed)>>

WhatMatters ==
    <<session, lane, reservation, notice, turn, activeTurn, nextSeq, Typed, crossed, faults,
      Len(leases), IF session = "live" THEN <<people, leases>> ELSE None>>
=============================================================================
