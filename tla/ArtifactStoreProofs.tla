------------------------- MODULE ArtifactStoreProofs -------------------------
(***************************************************************************)
(* Theorems about ArtifactStore: one call at a time under a publication     *)
(* lock, and a record keeps its bytes, with the two exceptions that the     *)
(* properties name.                                                         *)
(***************************************************************************)
EXTENDS ArtifactStore, TLAPS

(* A call at work has a process, and a put at work knows what to publish.   *)
AtWork(c) == pc[c] \notin {"idle", "done"}
WorkersOK ==
    /\ \A c \in Calls : AtWork(c) => alive[ProcOf[c]]
    /\ \A c \in Puts : AtWork(c) => input[c] \in Inputs
    /\ \A c \in Calls : At(c, "idle") => result[c] = None

(* The lock directory at each stage of an acquisition and of a takeover.    *)
LockOK ==
    ~raced =>
      /\ owner # None => dir = owner
      /\ aged => dir # None /\ owner = None /\ ~alive[ProcOf[dir]]
      /\ \A c \in Calls : pc[c] \in {"own", "undo"} => dir = c /\ owner = None
      /\ \A c \in Calls : At(c, "confirm") => judged[c] # None /\ ~alive[ProcOf[judged[c]]]
      /\ \A c \in Calls : At(c, "rm") => dir # None /\ ~alive[ProcOf[dir]]
      /\ \A c, d \in Calls : At(c, "rm") /\ At(d, "rm") => c = d
      /\ \A c \in Calls : Holds(c) => owner = c

(* What a holder of the lock may rely on at each of its steps.              *)
TempsOK == ~raced => \A c \in Puts : At(c, "rename") => c \in temps

RecordOK == record # None => final = BytesOf[record]
PutOK(c) ==
    /\ pc[c] \in {"write", "rename"} => record = None /\ final = None
    /\ pc[c] \in {"append", "commit"} => /\ final = BytesOf[input[c]]
                                         /\ record \in {None, input[c]}
    /\ result[c] = "ok" => record = input[c] /\ record # None
SweepOK(s) ==
    /\ pc[s] \in {"trace", "unlink"} /\ target[s] = Final => record = None
    /\ At(s, "unlink") => target[s] \in traced
DataOK ==
    ~raced /\ ~misread =>
      /\ RecordOK
      /\ \A c \in Puts : PutOK(c)
      /\ \A s \in Sweeps : SweepOK(s)
      /\ unlinked \subseteq traced

IInv == TypeOK /\ WorkersOK /\ LockOK /\ TempsOK /\ DataOK



(* TypeOK in two parts: the program counters and all other variables.       *)
PcTyped ==
    /\ pc \in [Calls -> PutSteps \cup SweepSteps]
    /\ \A c \in Puts : pc[c] \in PutSteps
    /\ \A s \in Sweeps : pc[s] \in SweepSteps
DataTyped ==
    /\ alive \in [Procs -> BOOLEAN] /\ blind \subseteq Procs
    /\ root \in BOOLEAN /\ aged \in BOOLEAN
    /\ dir \in Calls \cup {None} /\ owner \in Calls \cup {None}
    /\ temps \subseteq Puts /\ final \in BytesSet \cup {None}
    /\ record \in Inputs \cup {None} /\ traced \subseteq Names
    /\ input \in [Puts -> Inputs \cup {None}] /\ judged \in [Calls -> Calls \cup {None}]
    /\ todo \in [Sweeps -> SUBSET Names] /\ target \in [Sweeps -> Names \cup {None}]
    /\ result \in [Calls -> {"ok", "failed", None}]
    /\ unlinked \subseteq Names /\ raced \in BOOLEAN /\ misread \in BOOLEAN
    /\ faults \in 0 .. MaxFaults

USE DEF At, Go, Answer, Leave, lock, bytes, store, rest, work, history

-----------------------------------------------------------------------------
(* Every step leaves the program counters in their ranges, one by one.     *)
LEMMA PcKept ==
    ASSUME TypeOK, Next
    PROVE  PcTyped'
  <1>1. ASSUME NEW c \in Calls, Enter(c) PROVE PcTyped'
    BY <1>1 DEF Enter, PutSteps, SweepSteps, Outside, Acquiring, TypeOK, PcTyped
  <1>2. ASSUME NEW c \in Calls, MakeDir(c) PROVE PcTyped'
    BY <1>2 DEF MakeDir, PutSteps, SweepSteps, Outside, Acquiring, Calls, TypeOK, PcTyped
  <1>3. ASSUME NEW c \in Calls, Own(c) PROVE PcTyped'
    BY <1>3, ArtifactStoreAssumption
    DEF Own, Admitted, PutSteps, SweepSteps, Outside, Acquiring, Publishing, Sweeping, Calls,
        TypeOK, PcTyped
  <1>4. ASSUME NEW c \in Calls, Undo(c) PROVE PcTyped'
    BY <1>4 DEF Undo, Refused, PutSteps, SweepSteps, Outside, TypeOK, PcTyped
  <1>5. ASSUME NEW c \in Calls, Look(c) PROVE PcTyped'
    BY <1>5 DEF Look, PutSteps, SweepSteps, Outside, Acquiring, Calls, TypeOK, PcTyped
  <1>6. ASSUME NEW c \in Calls, Confirm(c) PROVE PcTyped'
    BY <1>6 DEF Confirm, Break, PutSteps, SweepSteps, Outside, Acquiring, Calls, TypeOK, PcTyped
  <1>7. ASSUME NEW c \in Calls, Stat(c) PROVE PcTyped'
    BY <1>7 DEF Stat, PutSteps, SweepSteps, Outside, Acquiring, Calls, TypeOK, PcTyped
  <1>8. ASSUME NEW c \in Calls, ConfirmAge(c) PROVE PcTyped'
    BY <1>8
    DEF ConfirmAge, Break, PutSteps, SweepSteps, Outside, Acquiring, Calls, TypeOK, PcTyped
  <1>9. ASSUME NEW c \in Calls, TakeOver(c) PROVE PcTyped'
    BY <1>9 DEF TakeOver, PutSteps, SweepSteps, Outside, Acquiring, TypeOK, PcTyped
  <1>10. ASSUME NEW c \in Calls, Wait(c) PROVE PcTyped'
    BY <1>10 DEF Wait, Refused, PutSteps, SweepSteps, Outside, Acquiring, Calls, TypeOK, PcTyped
  <1>11. ASSUME NEW c \in Calls, ReleaseRead(c) PROVE PcTyped'
    BY <1>11
    DEF ReleaseRead, Released, PutSteps, SweepSteps, Outside, Releasing, Calls, TypeOK,
        PcTyped
  <1>12. ASSUME NEW c \in Calls, ReleaseRemove(c) PROVE PcTyped'
    BY <1>12 DEF ReleaseRemove, Released, PutSteps, SweepSteps, Outside, TypeOK, PcTyped
  <1>13. ASSUME NEW c \in Calls, Fail(c) PROVE PcTyped'
    BY <1>13
    DEF Fail, Refused, PutSteps, SweepSteps, Outside, Acquiring, Releasing, Calls, TypeOK,
        PcTyped
  <1>14. ASSUME NEW c \in Puts, StartPut(c) PROVE PcTyped'
    BY <1>14 DEF StartPut, PutSteps, SweepSteps, Outside, Acquiring, Calls, TypeOK, PcTyped
  <1>15. ASSUME NEW c \in Puts, Inspect(c) PROVE PcTyped'
    BY <1>15
    DEF Inspect, PutSteps, SweepSteps, Outside, Acquiring, Releasing, Publishing, Sweeping,
        Calls, TypeOK, PcTyped
  <1>16. ASSUME NEW c \in Puts, Replay(c) PROVE PcTyped'
    BY <1>16
    DEF Replay, PutSteps, SweepSteps, Outside, Acquiring, Releasing, Publishing, Sweeping,
        Calls, TypeOK, PcTyped
  <1>17. ASSUME NEW c \in Puts, WriteTemp(c) PROVE PcTyped'
    BY <1>17
    DEF WriteTemp, PutSteps, SweepSteps, Outside, Acquiring, Releasing, Publishing, Sweeping,
        Calls, TypeOK, PcTyped
  <1>18. ASSUME NEW c \in Puts, RenameTemp(c) PROVE PcTyped'
    BY <1>18
    DEF RenameTemp, PutSteps, SweepSteps, Outside, Acquiring, Releasing, Publishing, Sweeping,
        Calls, TypeOK, PcTyped
  <1>19. ASSUME NEW c \in Puts, Append(c) PROVE PcTyped'
    BY <1>19
    DEF Append, PutSteps, SweepSteps, Outside, Acquiring, Releasing, Publishing, Sweeping,
        Calls, TypeOK, PcTyped
  <1>20. ASSUME NEW c \in Puts, Commit(c) PROVE PcTyped'
    BY <1>20 DEF Commit, PutSteps, SweepSteps, Releasing, Calls, TypeOK, PcTyped
  <1>21. ASSUME NEW s \in Sweeps, List(s) PROVE PcTyped'
    BY <1>21, ArtifactStoreAssumption DEF List, SweepSteps, Calls, TypeOK, PcTyped
  <1>22. ASSUME NEW s \in Sweeps, Scan(s) PROVE PcTyped'
    BY <1>22
    DEF Scan, PutSteps, SweepSteps, Outside, Acquiring, Releasing, Publishing, Calls, TypeOK,
        PcTyped
  <1>23. ASSUME NEW s \in Sweeps, Visit(s) PROVE PcTyped'
    BY <1>23 DEF Visit, PutSteps, SweepSteps, Outside, Acquiring, Calls, TypeOK, PcTyped
  <1>24. ASSUME NEW s \in Sweeps, Recheck(s) PROVE PcTyped'
    BY <1>24
    DEF Recheck, PutSteps, SweepSteps, Outside, Acquiring, Releasing, Publishing, Sweeping,
        Calls, TypeOK, PcTyped
  <1>25. ASSUME NEW s \in Sweeps, Trace(s) PROVE PcTyped'
    BY <1>25
    DEF Trace, PutSteps, SweepSteps, Outside, Acquiring, Releasing, Publishing, Sweeping,
        Calls, TypeOK, PcTyped
  <1>26. ASSUME NEW s \in Sweeps, Unlink(s) PROVE PcTyped'
    BY <1>26 DEF Unlink, PutSteps, SweepSteps, Releasing, Calls, TypeOK, PcTyped
  <1>27. ASSUME NEW p \in Procs, Crash(p) PROVE PcTyped'
    BY <1>27 DEF Crash, PutSteps, SweepSteps, Outside, Calls, TypeOK, PcTyped
  <1>28. ASSUME NEW p \in Procs, SeeAgain(p) PROVE PcTyped'
    BY <1>28 DEF SeeAgain, TypeOK, PcTyped
  <1>29. ASSUME Age PROVE PcTyped'
    BY <1>29 DEF Age, TypeOK, PcTyped
  <1> QED
    BY <1>1, <1>2, <1>3, <1>4, <1>5, <1>6, <1>7, <1>8, <1>9, <1>10, <1>11, <1>12, <1>13,
       <1>14, <1>15, <1>16, <1>17, <1>18, <1>19, <1>20, <1>21, <1>22, <1>23, <1>24, <1>25,
       <1>26, <1>27, <1>28, <1>29
    DEF Next, Acquire, Release, Put, Sweep

(* The other variables.  The renamed bytes are those of an input, because a *)
(* put at work has one.                                                     *)
LEMMA DataTypedKept ==
    ASSUME TypeOK, WorkersOK, Next
    PROVE  DataTyped'
  <1>1. ASSUME NEW c \in Calls, Enter(c) PROVE DataTyped'
    BY <1>1 DEF Enter, TypeOK, DataTyped
  <1>2. ASSUME NEW c \in Calls, MakeDir(c) PROVE DataTyped'
    BY <1>2 DEF MakeDir, TypeOK, DataTyped
  <1>3. ASSUME NEW c \in Calls, Own(c) PROVE DataTyped'
    BY <1>3 DEF Own, TypeOK, DataTyped
  <1>4. ASSUME NEW c \in Calls, Undo(c) PROVE DataTyped'
    BY <1>4 DEF Undo, RemoveDir, Refused, TypeOK, DataTyped
  <1>5. ASSUME NEW c \in Calls, Look(c) PROVE DataTyped'
    BY SMTT(20), <1>5 DEF Look, Judge, TypeOK, DataTyped
  <1>6. ASSUME NEW c \in Calls, Confirm(c) PROVE DataTyped'
    BY <1>6 DEF Confirm, Break, TypeOK, DataTyped
  <1>7. ASSUME NEW c \in Calls, Stat(c) PROVE DataTyped'
    BY <1>7 DEF Stat, Judge, TypeOK, DataTyped
  <1>8. ASSUME NEW c \in Calls, ConfirmAge(c) PROVE DataTyped'
    BY <1>8 DEF ConfirmAge, Break, TypeOK, DataTyped
  <1>9. ASSUME NEW c \in Calls, TakeOver(c) PROVE DataTyped'
    BY <1>9 DEF TakeOver, RemoveDir, TypeOK, DataTyped
  <1>10. ASSUME NEW c \in Calls, Wait(c) PROVE DataTyped'
    BY <1>10 DEF Wait, Refused, TypeOK, DataTyped
  <1>11. ASSUME NEW c \in Calls, ReleaseRead(c) PROVE DataTyped'
    BY <1>11 DEF ReleaseRead, Released, TypeOK, DataTyped
  <1>12. ASSUME NEW c \in Calls, ReleaseRemove(c) PROVE DataTyped'
    BY <1>12 DEF ReleaseRemove, Released, RemoveDir, TypeOK, DataTyped
  <1>13. ASSUME NEW c \in Calls, Fail(c) PROVE DataTyped'
    <2>1. pc[c] \in {"write", "commit"} => c \in Puts
      BY DEF TypeOK, Calls, SweepSteps, Outside, Acquiring, Sweeping, Releasing
    <2>2. temps' \subseteq Puts BY <1>13, <2>1 DEF Fail, Leave, Refused, TypeOK
    <2>3. record' \in Inputs \cup {None} /\ blind' \subseteq Procs
      BY <1>13, <2>1 DEF Fail, Leave, Refused, Record, TypeOK
    <2>4. result' \in [Calls -> {"ok", "failed", None}] /\ faults' \in 0 .. MaxFaults
      BY <1>13, ArtifactStoreAssumption DEF Fail, Leave, Refused, TypeOK
    <2> QED
      BY <1>13, <2>2, <2>3, <2>4
      DEF Fail, TypeOK, DataTyped, lock, bytes, store, rest, work, history, BytesSet
  <1>14. ASSUME NEW c \in Puts, StartPut(c) PROVE DataTyped'
    BY <1>14 DEF StartPut, TypeOK, DataTyped
  <1>15. ASSUME NEW c \in Puts, Inspect(c) PROVE DataTyped'
    BY <1>15 DEF Inspect, TypeOK, DataTyped
  <1>16. ASSUME NEW c \in Puts, Replay(c) PROVE DataTyped'
    BY <1>16 DEF Replay, TypeOK, DataTyped
  <1>17. ASSUME NEW c \in Puts, WriteTemp(c) PROVE DataTyped'
    BY <1>17 DEF WriteTemp, TypeOK, DataTyped
  <1>18. ASSUME NEW c \in Puts, RenameTemp(c) PROVE DataTyped'
    BY <1>18 DEF RenameTemp, WorkersOK, AtWork, TypeOK, DataTyped, BytesSet
  <1>19. ASSUME NEW c \in Puts, Append(c) PROVE DataTyped'
    BY <1>19 DEF Append, TypeOK, DataTyped
  <1>20. ASSUME NEW c \in Puts, Commit(c) PROVE DataTyped'
    BY <1>20 DEF Commit, Record, TypeOK, DataTyped
  <1>21. ASSUME NEW s \in Sweeps, List(s) PROVE DataTyped'
    BY <1>21 DEF List, TypeOK, DataTyped
  <1>22. ASSUME NEW s \in Sweeps, Scan(s) PROVE DataTyped'
    BY <1>22 DEF Scan, TypeOK, DataTyped, Names
  <1>23. ASSUME NEW s \in Sweeps, Visit(s) PROVE DataTyped'
    BY <1>23 DEF Visit, TypeOK, DataTyped
  <1>24. ASSUME NEW s \in Sweeps, Recheck(s) PROVE DataTyped'
    BY <1>24 DEF Recheck, TypeOK, DataTyped
  <1>25. ASSUME NEW s \in Sweeps, Trace(s) PROVE DataTyped'
    BY <1>25 DEF Trace, TypeOK, DataTyped, Names, OnDisk
  <1>26. ASSUME NEW s \in Sweeps, Unlink(s) PROVE DataTyped'
    BY <1>26 DEF Unlink, TypeOK, DataTyped, Names, OnDisk
  <1>27. ASSUME NEW p \in Procs, Crash(p) PROVE DataTyped'
    BY <1>27 DEF Crash, TypeOK, DataTyped
  <1>28. ASSUME NEW p \in Procs, SeeAgain(p) PROVE DataTyped'
    BY <1>28 DEF SeeAgain, TypeOK, DataTyped
  <1>29. ASSUME Age PROVE DataTyped'
    BY <1>29 DEF Age, TypeOK, DataTyped
  <1> QED
    BY <1>1, <1>2, <1>3, <1>4, <1>5, <1>6, <1>7, <1>8, <1>9, <1>10, <1>11, <1>12, <1>13,
       <1>14, <1>15, <1>16, <1>17, <1>18, <1>19, <1>20, <1>21, <1>22, <1>23, <1>24, <1>25,
       <1>26, <1>27, <1>28, <1>29
    DEF Next, Acquire, Release, Put, Sweep

(* TypeOK is the two together.                                              *)
LEMMA TypesKept ==
    ASSUME TypeOK, WorkersOK, Next
    PROVE  TypeOK'
  BY PcKept, DataTypedKept DEF TypeOK, PcTyped, DataTyped

(* A call at work has a live process, and a put at work an input.           *)
LEMMA WorkersKept ==
    ASSUME TypeOK, WorkersOK, Next
    PROVE  WorkersOK'
  <1>1. ASSUME NEW c \in Calls, Enter(c) PROVE WorkersOK'
    BY <1>1 DEF Enter, WorkersOK, AtWork
  <1>2. ASSUME NEW c \in Calls, MakeDir(c) PROVE WorkersOK'
    BY <1>2 DEF MakeDir, TypeOK, WorkersOK, AtWork, Calls
  <1>3. ASSUME NEW c \in Calls, Own(c) PROVE WorkersOK'
    BY <1>3 DEF Own, Admitted, TypeOK, WorkersOK, AtWork, Calls
  <1>4. ASSUME NEW c \in Calls, Undo(c) PROVE WorkersOK'
    BY <1>4 DEF Undo, Refused, WorkersOK, AtWork
  <1>5. ASSUME NEW c \in Calls, Look(c) PROVE WorkersOK'
    BY <1>5 DEF Look, TypeOK, WorkersOK, AtWork, Calls
  <1>6. ASSUME NEW c \in Calls, Confirm(c) PROVE WorkersOK'
    BY <1>6 DEF Confirm, Break, TypeOK, WorkersOK, AtWork, Calls
  <1>7. ASSUME NEW c \in Calls, Stat(c) PROVE WorkersOK'
    BY <1>7 DEF Stat, TypeOK, WorkersOK, AtWork, Calls
  <1>8. ASSUME NEW c \in Calls, ConfirmAge(c) PROVE WorkersOK'
    BY <1>8 DEF ConfirmAge, Break, TypeOK, WorkersOK, AtWork, Calls
  <1>9. ASSUME NEW c \in Calls, TakeOver(c) PROVE WorkersOK'
    BY <1>9 DEF TakeOver, WorkersOK, AtWork
  <1>10. ASSUME NEW c \in Calls, Wait(c) PROVE WorkersOK'
    BY <1>10 DEF Wait, Refused, TypeOK, WorkersOK, AtWork, Calls
  <1>11. ASSUME NEW c \in Calls, ReleaseRead(c) PROVE WorkersOK'
    BY <1>11 DEF ReleaseRead, Released, TypeOK, WorkersOK, AtWork, Calls
  <1>12. ASSUME NEW c \in Calls, ReleaseRemove(c) PROVE WorkersOK'
    BY <1>12 DEF ReleaseRemove, Released, WorkersOK, AtWork
  <1>13. ASSUME NEW c \in Calls, Fail(c) PROVE WorkersOK'
    BY <1>13 DEF Fail, Refused, TypeOK, WorkersOK, AtWork, Calls
  <1>14. ASSUME NEW c \in Puts, StartPut(c) PROVE WorkersOK'
    BY <1>14 DEF StartPut, TypeOK, WorkersOK, AtWork
  <1>15. ASSUME NEW c \in Puts, Inspect(c) PROVE WorkersOK'
    BY <1>15 DEF Inspect, WorkersOK, AtWork
  <1>16. ASSUME NEW c \in Puts, Replay(c) PROVE WorkersOK'
    BY <1>16 DEF Replay, TypeOK, WorkersOK, AtWork, Calls
  <1>17. ASSUME NEW c \in Puts, WriteTemp(c) PROVE WorkersOK'
    BY <1>17 DEF WriteTemp, WorkersOK, AtWork
  <1>18. ASSUME NEW c \in Puts, RenameTemp(c) PROVE WorkersOK'
    BY <1>18 DEF RenameTemp, TypeOK, WorkersOK, AtWork, Calls
  <1>19. ASSUME NEW c \in Puts, Append(c) PROVE WorkersOK'
    BY <1>19 DEF Append, TypeOK, WorkersOK, AtWork, Calls
  <1>20. ASSUME NEW c \in Puts, Commit(c) PROVE WorkersOK'
    BY <1>20 DEF Commit, TypeOK, WorkersOK, AtWork, Calls
  <1>21. ASSUME NEW s \in Sweeps, List(s) PROVE WorkersOK'
    BY <1>21, ArtifactStoreAssumption DEF List, WorkersOK, AtWork
  <1>22. ASSUME NEW s \in Sweeps, Scan(s) PROVE WorkersOK'
    BY <1>22 DEF Scan, WorkersOK, AtWork
  <1>23. ASSUME NEW s \in Sweeps, Visit(s) PROVE WorkersOK'
    BY <1>23 DEF Visit, TypeOK, WorkersOK, AtWork, Calls
  <1>24. ASSUME NEW s \in Sweeps, Recheck(s) PROVE WorkersOK'
    BY <1>24 DEF Recheck, TypeOK, WorkersOK, AtWork, Calls
  <1>25. ASSUME NEW s \in Sweeps, Trace(s) PROVE WorkersOK'
    BY <1>25 DEF Trace, TypeOK, WorkersOK, AtWork, Calls
  <1>26. ASSUME NEW s \in Sweeps, Unlink(s) PROVE WorkersOK'
    BY <1>26 DEF Unlink, WorkersOK, AtWork
  <1>27. ASSUME NEW p \in Procs, Crash(p) PROVE WorkersOK'
    BY <1>27 DEF Crash, WorkersOK, AtWork, Calls
  <1>28. ASSUME NEW p \in Procs, SeeAgain(p) PROVE WorkersOK'
    BY <1>28 DEF SeeAgain, WorkersOK, AtWork
  <1>29. ASSUME Age PROVE WorkersOK'
    BY <1>29 DEF Age, WorkersOK, AtWork
  <1> QED
    BY <1>1, <1>2, <1>3, <1>4, <1>5, <1>6, <1>7, <1>8, <1>9, <1>10, <1>11, <1>12, <1>13,
       <1>14, <1>15, <1>16, <1>17, <1>18, <1>19, <1>20, <1>21, <1>22, <1>23, <1>24, <1>25,
       <1>26, <1>27, <1>28, <1>29
    DEF Next, Acquire, Release, Put, Sweep

(* The lock directory: a removal by name meets the directory it was meant   *)
(* for, since a dead call's directory stays until the one remover is done.   *)
LEMMA LockKept ==
    ASSUME TypeOK, WorkersOK, LockOK, Next
    PROVE  LockOK'
  <1>1. ASSUME NEW c \in Calls, Enter(c) PROVE LockOK'
    BY <1>1 DEF Enter, LockOK, Holds, Publishing, Sweeping, Releasing
  <1>2. ASSUME NEW c \in Calls, MakeDir(c) PROVE LockOK'
    BY <1>2, ArtifactStoreAssumption
    DEF MakeDir, TypeOK, LockOK, Holds, Publishing, Sweeping, Releasing
  <1>3. ASSUME NEW c \in Calls, Own(c) PROVE LockOK'
    BY <1>3, ArtifactStoreAssumption DEF Own, Admitted, TypeOK, LockOK, Holds
  <1>4. ASSUME NEW c \in Calls, Undo(c) PROVE LockOK'
    BY <1>4
    DEF Undo, RemoveDir, Refused, TypeOK, WorkersOK, AtWork, LockOK, Holds, Publishing,
        Sweeping, Releasing
  <1>5. ASSUME NEW c \in Calls, Look(c) PROVE LockOK'
    BY <1>5 DEF Look, Judge, TypeOK, LockOK, Holds, Publishing, Sweeping, Releasing
  <1>6. ASSUME NEW c \in Calls, Confirm(c) PROVE LockOK'
    BY <1>6, ArtifactStoreAssumption
    DEF Confirm, Break, TypeOK, WorkersOK, AtWork, LockOK, Holds, Publishing, Sweeping,
        Releasing
  <1>7. ASSUME NEW c \in Calls, Stat(c) PROVE LockOK'
    BY <1>7 DEF Stat, Judge, TypeOK, LockOK, Holds, Publishing, Sweeping, Releasing
  <1>8. ASSUME NEW c \in Calls, ConfirmAge(c) PROVE LockOK'
    BY <1>8 DEF ConfirmAge, Break, TypeOK, LockOK, Holds, Publishing, Sweeping, Releasing
  <1>9. ASSUME NEW c \in Calls, TakeOver(c) PROVE LockOK'
    BY <1>9
    DEF TakeOver, RemoveDir, TypeOK, WorkersOK, AtWork, LockOK, Holds, Publishing, Sweeping,
        Releasing
  <1>10. ASSUME NEW c \in Calls, Wait(c) PROVE LockOK'
    BY <1>10 DEF Wait, Refused, TypeOK, LockOK, Holds, Publishing, Sweeping, Releasing
  <1>11. ASSUME NEW c \in Calls, ReleaseRead(c) PROVE LockOK'
    BY <1>11 DEF ReleaseRead, Released, TypeOK, LockOK, Holds, Releasing
  <1>12. ASSUME NEW c \in Calls, ReleaseRemove(c) PROVE LockOK'
    BY <1>12, ArtifactStoreAssumption
    DEF ReleaseRemove, Released, RemoveDir, TypeOK, WorkersOK, AtWork, LockOK, Holds,
        Publishing, Sweeping, Releasing
  <1>13. ASSUME NEW c \in Calls, Fail(c) PROVE LockOK'
    BY <1>13 DEF Fail, Refused, TypeOK, LockOK, Holds, Publishing, Sweeping, Releasing
  <1>14. ASSUME NEW c \in Puts, StartPut(c) PROVE LockOK'
    BY <1>14 DEF StartPut, LockOK, Holds, Publishing, Sweeping, Releasing
  <1>15. ASSUME NEW c \in Puts, Inspect(c) PROVE LockOK'
    BY <1>15 DEF Inspect, LockOK, Holds, Publishing
  <1>16. ASSUME NEW c \in Puts, Replay(c) PROVE LockOK'
    BY <1>16 DEF Replay, TypeOK, LockOK, Holds, Publishing
  <1>17. ASSUME NEW c \in Puts, WriteTemp(c) PROVE LockOK'
    BY <1>17 DEF WriteTemp, LockOK, Holds, Publishing
  <1>18. ASSUME NEW c \in Puts, RenameTemp(c) PROVE LockOK'
    BY <1>18 DEF RenameTemp, TypeOK, LockOK, Holds, Publishing
  <1>19. ASSUME NEW c \in Puts, Append(c) PROVE LockOK'
    BY <1>19 DEF Append, TypeOK, LockOK, Holds, Publishing
  <1>20. ASSUME NEW c \in Puts, Commit(c) PROVE LockOK'
    BY <1>20 DEF Commit, TypeOK, LockOK, Holds, Publishing
  <1>21. ASSUME NEW s \in Sweeps, List(s) PROVE LockOK'
    BY <1>21 DEF List, LockOK, Holds, Publishing, Sweeping, Releasing
  <1>22. ASSUME NEW s \in Sweeps, Scan(s) PROVE LockOK'
    BY <1>22 DEF Scan, LockOK, Holds, Publishing, Sweeping, Releasing
  <1>23. ASSUME NEW s \in Sweeps, Visit(s) PROVE LockOK'
    BY <1>23 DEF Visit, TypeOK, LockOK, Holds, Publishing, Sweeping, Releasing
  <1>24. ASSUME NEW s \in Sweeps, Recheck(s) PROVE LockOK'
    BY <1>24 DEF Recheck, TypeOK, LockOK, Holds, Sweeping
  <1>25. ASSUME NEW s \in Sweeps, Trace(s) PROVE LockOK'
    BY <1>25 DEF Trace, TypeOK, LockOK, Holds, Sweeping
  <1>26. ASSUME NEW s \in Sweeps, Unlink(s) PROVE LockOK'
    BY <1>26 DEF Unlink, LockOK, Holds, Sweeping
  <1>27. ASSUME NEW p \in Procs, Crash(p) PROVE LockOK'
    BY <1>27 DEF Crash, WorkersOK, AtWork, LockOK, Holds, Publishing, Sweeping, Releasing
  <1>28. ASSUME NEW p \in Procs, SeeAgain(p) PROVE LockOK'
    BY <1>28 DEF SeeAgain, LockOK, Holds
  <1>29. ASSUME Age PROVE LockOK'
    BY <1>29 DEF Age, LockOK, Holds
  <1> QED
    BY <1>1, <1>2, <1>3, <1>4, <1>5, <1>6, <1>7, <1>8, <1>9, <1>10, <1>11, <1>12, <1>13,
       <1>14, <1>15, <1>16, <1>17, <1>18, <1>19, <1>20, <1>21, <1>22, <1>23, <1>24, <1>25,
       <1>26, <1>27, <1>28, <1>29
    DEF Next, Acquire, Release, Put, Sweep

(* A sweep that holds the lock is alone, so no put is at its rename.        *)
LEMMA TempsKept ==
    ASSUME TypeOK, LockOK, TempsOK, Next
    PROVE  TempsOK'
  <1>1. ASSUME NEW c \in Calls, Enter(c) PROVE TempsOK'
    BY <1>1 DEF Enter, TempsOK
  <1>2. ASSUME NEW c \in Calls, MakeDir(c) PROVE TempsOK'
    BY <1>2 DEF MakeDir, TypeOK, TempsOK, Calls
  <1>3. ASSUME NEW c \in Calls, Own(c) PROVE TempsOK'
    BY <1>3 DEF Own, Admitted, TypeOK, TempsOK, Calls
  <1>4. ASSUME NEW c \in Calls, Undo(c) PROVE TempsOK'
    BY <1>4 DEF Undo, Refused, TempsOK
  <1>5. ASSUME NEW c \in Calls, Look(c) PROVE TempsOK'
    BY <1>5 DEF Look, TypeOK, TempsOK, Calls
  <1>6. ASSUME NEW c \in Calls, Confirm(c) PROVE TempsOK'
    BY <1>6 DEF Confirm, Break, TypeOK, TempsOK, Calls
  <1>7. ASSUME NEW c \in Calls, Stat(c) PROVE TempsOK'
    BY <1>7 DEF Stat, TypeOK, TempsOK, Calls
  <1>8. ASSUME NEW c \in Calls, ConfirmAge(c) PROVE TempsOK'
    BY <1>8 DEF ConfirmAge, Break, TypeOK, TempsOK, Calls
  <1>9. ASSUME NEW c \in Calls, TakeOver(c) PROVE TempsOK'
    BY <1>9 DEF TakeOver, TempsOK
  <1>10. ASSUME NEW c \in Calls, Wait(c) PROVE TempsOK'
    BY <1>10 DEF Wait, Refused, TypeOK, TempsOK, Calls
  <1>11. ASSUME NEW c \in Calls, ReleaseRead(c) PROVE TempsOK'
    BY <1>11 DEF ReleaseRead, Released, TypeOK, TempsOK, Calls
  <1>12. ASSUME NEW c \in Calls, ReleaseRemove(c) PROVE TempsOK'
    BY <1>12 DEF ReleaseRemove, Released, TempsOK
  <1>13. ASSUME NEW c \in Calls, Fail(c) PROVE TempsOK'
    BY <1>13 DEF Fail, Refused, TypeOK, TempsOK, Calls
  <1>14. ASSUME NEW c \in Puts, StartPut(c) PROVE TempsOK'
    BY <1>14 DEF StartPut, TempsOK
  <1>15. ASSUME NEW c \in Puts, Inspect(c) PROVE TempsOK'
    BY <1>15 DEF Inspect, TempsOK
  <1>16. ASSUME NEW c \in Puts, Replay(c) PROVE TempsOK'
    BY <1>16 DEF Replay, TypeOK, TempsOK, Calls
  <1>17. ASSUME NEW c \in Puts, WriteTemp(c) PROVE TempsOK'
    BY <1>17 DEF WriteTemp, TempsOK
  <1>18. ASSUME NEW c \in Puts, RenameTemp(c) PROVE TempsOK'
    BY <1>18 DEF RenameTemp, TypeOK, TempsOK, Calls
  <1>19. ASSUME NEW c \in Puts, Append(c) PROVE TempsOK'
    BY <1>19 DEF Append, TypeOK, TempsOK, Calls
  <1>20. ASSUME NEW c \in Puts, Commit(c) PROVE TempsOK'
    BY <1>20 DEF Commit, TypeOK, TempsOK, Calls
  <1>21. ASSUME NEW s \in Sweeps, List(s) PROVE TempsOK'
    BY <1>21 DEF List, TempsOK
  <1>22. ASSUME NEW s \in Sweeps, Scan(s) PROVE TempsOK'
    BY <1>22 DEF Scan, TempsOK
  <1>23. ASSUME NEW s \in Sweeps, Visit(s) PROVE TempsOK'
    BY <1>23 DEF Visit, TypeOK, TempsOK, Calls
  <1>24. ASSUME NEW s \in Sweeps, Recheck(s) PROVE TempsOK'
    BY <1>24 DEF Recheck, TypeOK, TempsOK, Calls
  <1>25. ASSUME NEW s \in Sweeps, Trace(s) PROVE TempsOK'
    BY <1>25 DEF Trace, TypeOK, TempsOK, Calls
  <1>26. ASSUME NEW s \in Sweeps, Unlink(s) PROVE TempsOK'
    BY <1>26 DEF Unlink, LockOK, TempsOK, Holds, Calls, Publishing, Sweeping
  <1>27. ASSUME NEW p \in Procs, Crash(p) PROVE TempsOK'
    BY <1>27 DEF Crash, TempsOK, Calls
  <1>28. ASSUME NEW p \in Procs, SeeAgain(p) PROVE TempsOK'
    BY <1>28 DEF SeeAgain, TempsOK
  <1>29. ASSUME Age PROVE TempsOK'
    BY <1>29 DEF Age, TempsOK
  <1> QED
    BY <1>1, <1>2, <1>3, <1>4, <1>5, <1>6, <1>7, <1>8, <1>9, <1>10, <1>11, <1>12, <1>13,
       <1>14, <1>15, <1>16, <1>17, <1>18, <1>19, <1>20, <1>21, <1>22, <1>23, <1>24, <1>25,
       <1>26, <1>27, <1>28, <1>29
    DEF Next, Acquire, Release, Put, Sweep

(* The bytes and the record only change under the lock, so what a holder    *)
(* knew at its last step still holds at its next.                           *)
LEMMA DataKept ==
    ASSUME TypeOK, WorkersOK, LockOK, DataOK, Next
    PROVE  DataOK'
  <1>1. ASSUME NEW c \in Calls, Enter(c) PROVE DataOK'
    BY <1>1 DEF Enter, DataOK, RecordOK, PutOK, SweepOK
  <1>2. ASSUME NEW c \in Calls, MakeDir(c) PROVE DataOK'
    BY <1>2 DEF MakeDir, TypeOK, DataOK, RecordOK, PutOK, SweepOK, Calls
  <1>3. ASSUME NEW c \in Calls, Own(c) PROVE DataOK'
    BY <1>3 DEF Own, Admitted, TypeOK, DataOK, RecordOK, PutOK, SweepOK, Calls
  <1>4. ASSUME NEW c \in Calls, Undo(c) PROVE DataOK'
    BY <1>4 DEF Undo, Refused, DataOK, RecordOK, PutOK, SweepOK
  <1>5. ASSUME NEW c \in Calls, Look(c) PROVE DataOK'
    BY <1>5 DEF Look, TypeOK, DataOK, RecordOK, PutOK, SweepOK, Calls
  <1>6. ASSUME NEW c \in Calls, Confirm(c) PROVE DataOK'
    BY <1>6 DEF Confirm, Break, TypeOK, DataOK, RecordOK, PutOK, SweepOK, Calls
  <1>7. ASSUME NEW c \in Calls, Stat(c) PROVE DataOK'
    BY <1>7 DEF Stat, TypeOK, DataOK, RecordOK, PutOK, SweepOK, Calls
  <1>8. ASSUME NEW c \in Calls, ConfirmAge(c) PROVE DataOK'
    BY <1>8 DEF ConfirmAge, Break, TypeOK, DataOK, RecordOK, PutOK, SweepOK, Calls
  <1>9. ASSUME NEW c \in Calls, TakeOver(c) PROVE DataOK'
    BY <1>9 DEF TakeOver, DataOK, RecordOK, PutOK, SweepOK
  <1>10. ASSUME NEW c \in Calls, Wait(c) PROVE DataOK'
    BY <1>10 DEF Wait, Refused, TypeOK, DataOK, RecordOK, PutOK, SweepOK, Calls
  <1>11. ASSUME NEW c \in Calls, ReleaseRead(c) PROVE DataOK'
    BY <1>11 DEF ReleaseRead, Released, TypeOK, DataOK, RecordOK, PutOK, SweepOK, Calls
  <1>12. ASSUME NEW c \in Calls, ReleaseRemove(c) PROVE DataOK'
    BY <1>12 DEF ReleaseRemove, Released, DataOK, RecordOK, PutOK, SweepOK
  <1>13. ASSUME NEW c \in Calls, Fail(c) PROVE DataOK'
    <2> SUFFICES ASSUME ~raced, ~misread PROVE DataOK'
      BY <1>13 DEF Fail, DataOK, history
    <2>1. RecordOK /\ (\A d \in Puts : PutOK(d)) /\ (\A s \in Sweeps : SweepOK(s))
      BY DEF DataOK
    <2>2. /\ UNCHANGED <<final, traced, input, target, unlinked>>
          /\ \A d \in Calls \ {c} : pc'[d] = pc[d] /\ result'[d] = result[d]
          /\ pc'[c] \in {"done", "undo", "relRead"}
          /\ result'[c] \in {result[c], "failed"}
      BY <1>13 DEF Fail, Refused, Leave, TypeOK, bytes, rest, history
    <2>3. CASE record' = record
      BY <2>1, <2>2, <2>3 DEF DataOK, RecordOK, PutOK, SweepOK, Calls
    <2>4. CASE At(c, "commit") /\ record = None /\ record' = input[c]
      <3>1. c \in Puts /\ input[c] \in Inputs
        BY <2>4
        DEF TypeOK, WorkersOK, AtWork, Calls, SweepSteps, Outside, Acquiring, Sweeping,
            Releasing
      <3>2. final = BytesOf[input[c]] BY <2>1, <2>4, <3>1 DEF PutOK
      <3>3. \A d \in Calls \ {c} : ~Holds(d)
        BY <2>4 DEF LockOK, Holds, Publishing, Calls
      <3> QED
        BY <2>1, <2>2, <2>4, <3>1, <3>2, <3>3, ArtifactStoreAssumption
        DEF DataOK, RecordOK, PutOK, SweepOK, Calls, Holds, Publishing, Sweeping
    <2> QED BY <1>13, <2>3, <2>4 DEF Fail, Record
  <1>14. ASSUME NEW c \in Puts, StartPut(c) PROVE DataOK'
    <2>1. result[c] # "ok" BY <1>14, ArtifactStoreAssumption DEF StartPut, WorkersOK, Calls
    <2> QED
      BY <1>14, <2>1, ArtifactStoreAssumption
      DEF StartPut, TypeOK, DataOK, RecordOK, PutOK, SweepOK, Calls, lock, bytes, store, rest, work, history
  <1>15. ASSUME NEW c \in Puts, Inspect(c) PROVE DataOK'
    BY <1>15, ArtifactStoreAssumption
    DEF Inspect, TypeOK, DataOK, RecordOK, PutOK, SweepOK, BytesSet
  <1>16. ASSUME NEW c \in Puts, Replay(c) PROVE DataOK'
    BY <1>16, ArtifactStoreAssumption
    DEF Replay, Differs, TypeOK, WorkersOK, AtWork, DataOK, RecordOK, PutOK, SweepOK, Calls
  <1>17. ASSUME NEW c \in Puts, WriteTemp(c) PROVE DataOK'
    BY <1>17 DEF WriteTemp, DataOK, RecordOK, PutOK, SweepOK
  <1>18. ASSUME NEW c \in Puts, RenameTemp(c) PROVE DataOK'
    BY <1>18
    DEF RenameTemp, TypeOK, LockOK, DataOK, RecordOK, PutOK, SweepOK, Holds, Calls, Publishing
  <1>19. ASSUME NEW c \in Puts, Append(c) PROVE DataOK'
    BY ZenonT(60), <1>19, ArtifactStoreAssumption
    DEF Append, TypeOK, AtWork, DataOK, RecordOK, PutOK, SweepOK, Calls
  <1>20. ASSUME NEW c \in Puts, Commit(c) PROVE DataOK'
    BY <1>20, ArtifactStoreAssumption
    DEF Commit, Record, TypeOK, WorkersOK, AtWork, LockOK, DataOK, RecordOK, PutOK, SweepOK,
        Holds, Calls, Publishing, Sweeping
  <1>21. ASSUME NEW s \in Sweeps, List(s) PROVE DataOK'
    BY <1>21 DEF List, DataOK, RecordOK, PutOK, SweepOK
  <1>22. ASSUME NEW s \in Sweeps, Scan(s) PROVE DataOK'
    BY <1>22 DEF Scan, DataOK, RecordOK, PutOK, SweepOK
  <1>23. ASSUME NEW s \in Sweeps, Visit(s) PROVE DataOK'
    BY <1>23, ArtifactStoreAssumption DEF Visit, TypeOK, DataOK, RecordOK, PutOK, SweepOK, Calls
  <1>24. ASSUME NEW s \in Sweeps, Recheck(s) PROVE DataOK'
    BY <1>24, ArtifactStoreAssumption
    DEF Recheck, TypeOK, WorkersOK, AtWork, DataOK, RecordOK, PutOK, SweepOK, Calls
  <1>25. ASSUME NEW s \in Sweeps, Trace(s) PROVE DataOK'
    BY <1>25, ArtifactStoreAssumption DEF Trace, TypeOK, DataOK, RecordOK, PutOK, SweepOK, Calls
  <1>26. ASSUME NEW s \in Sweeps, Unlink(s) PROVE DataOK'
    BY <1>26, ArtifactStoreAssumption
    DEF Unlink, LockOK, DataOK, RecordOK, PutOK, SweepOK, Holds, Calls, Publishing, Sweeping
  <1>27. ASSUME NEW p \in Procs, Crash(p) PROVE DataOK'
    BY <1>27 DEF Crash, DataOK, RecordOK, PutOK, SweepOK, Calls
  <1>28. ASSUME NEW p \in Procs, SeeAgain(p) PROVE DataOK'
    BY <1>28 DEF SeeAgain, DataOK, RecordOK, PutOK, SweepOK
  <1>29. ASSUME Age PROVE DataOK'
    BY <1>29 DEF Age, DataOK, RecordOK, PutOK, SweepOK
  <1> QED
    BY <1>1, <1>2, <1>3, <1>4, <1>5, <1>6, <1>7, <1>8, <1>9, <1>10, <1>11, <1>12, <1>13,
       <1>14, <1>15, <1>16, <1>17, <1>18, <1>19, <1>20, <1>21, <1>22, <1>23, <1>24, <1>25,
       <1>26, <1>27, <1>28, <1>29
    DEF Next, Acquire, Release, Put, Sweep
-----------------------------------------------------------------------------
(* A step that changes nothing keeps everything.                            *)
LEMMA StutterKept ==
    ASSUME IInv, UNCHANGED vars
    PROVE  IInv'
  <1>1. UNCHANGED <<alive, root, dir, owner, aged, temps, final, record, blind, traced, pc, input,
                    judged, todo, target, result, unlinked, raced, misread, faults>>
    BY DEF vars
  <1>2. TypeOK' BY <1>1 DEF IInv, TypeOK
  <1>3. WorkersOK' /\ TempsOK' BY <1>1 DEF IInv, WorkersOK, AtWork, TempsOK
  <1>4. LockOK' BY <1>1 DEF IInv, LockOK, Holds
  <1>5. DataOK' BY <1>1 DEF IInv, DataOK, RecordOK, PutOK, SweepOK
  <1> QED BY <1>2, <1>3, <1>4, <1>5 DEF IInv

(* The inductive invariant.                                                 *)
THEOREM Inductive == Spec => []IInv
  <1>1. Init => IInv
    <2> SUFFICES ASSUME Init PROVE IInv OBVIOUS
    <2>1. TypeOK
      <3>1. PcTyped BY DEF Init, PcTyped, PutSteps, SweepSteps, Outside, Calls
      <3>2. /\ todo \in [Sweeps -> SUBSET Names] /\ target \in [Sweeps -> Names \cup {None}]
            /\ input \in [Puts -> Inputs \cup {None}]
            /\ judged \in [Calls -> Calls \cup {None}]
            /\ result \in [Calls -> {"ok", "failed", None}]
            /\ alive \in [Procs -> BOOLEAN]
        BY DEF Init
      <3>3. /\ blind \subseteq Procs /\ temps \subseteq Puts /\ traced \subseteq Names
            /\ unlinked \subseteq Names /\ faults \in 0 .. MaxFaults
        BY ArtifactStoreAssumption DEF Init
      <3>4. DataTyped BY <3>2, <3>3 DEF Init, DataTyped
      <3> QED BY <3>1, <3>4 DEF TypeOK, PcTyped, DataTyped
    <2>2. WorkersOK BY DEF Init, WorkersOK, AtWork, Calls
    <2>3. LockOK /\ TempsOK
      BY DEF Init, LockOK, TempsOK, Holds, Publishing, Sweeping, Releasing, Calls
    <2>4. DataOK
      BY ArtifactStoreAssumption DEF Init, DataOK, RecordOK, PutOK, SweepOK, Calls
    <2> QED BY <2>1, <2>2, <2>3, <2>4 DEF IInv
  <1>2. IInv /\ [Next]_vars => IInv'
    <2> SUFFICES ASSUME IInv, [Next]_vars PROVE IInv' OBVIOUS
    <2>1. CASE Next
      BY <2>1, TypesKept, WorkersKept, LockKept, TempsKept, DataKept DEF IInv
    <2>2. CASE UNCHANGED vars BY <2>2, StutterKept
    <2> QED BY <2>1, <2>2
  <1> QED BY <1>1, <1>2, PTL DEF Spec

(* Every variable keeps its type.                                           *)
THEOREM TypeCorrect == Spec => []TypeOK
  <1>1. IInv => TypeOK BY DEF IInv
  <1> QED BY <1>1, Inductive, PTL

(* One call at a time works on an artifact, and no sweep takes the temporary *)
(* file of a put, unless takeovers overlapped (publication-lock.ts).        *)
THEOREM Exclusive == Spec => []PublicationIsExclusiveUnlessRaced
  <1>1. IInv => PublicationIsExclusiveUnlessRaced
    BY DEF IInv, LockOK, TempsOK, PublicationIsExclusiveUnlessRaced
  <1> QED BY <1>1, Inductive, PTL

(* A record keeps its bytes, a put that was answered ok is on record, and    *)
(* what was deleted was traced, unless takeovers overlapped or a stale stat  *)
(* hid the record from whoever held the lease (orphan-sweep.ts).            *)
THEOREM BytesStay == Spec => []RecordedBytesStayUnlessMisread
  <1>1. IInv => RecordedBytesStayUnlessMisread
    BY DEF IInv, DataOK, RecordOK, PutOK, RecordedBytesStayUnlessMisread
  <1> QED BY <1>1, Inductive, PTL
=============================================================================
