---------------------------- MODULE StorageProofs ---------------------------
(***************************************************************************)
(* What Storage guarantees for any number of uploads, any names, and any   *)
(* bound on the numbers tried.                                             *)
(***************************************************************************)
EXTENDS Storage, TLAPS

\* The name an upload is at is one the directory is described for.
LEMMA FinalType ==
  ASSUME TypeOK, NEW u \in Upload
  PROVE  Final(u) \in Path
  BY DEF TypeOK, Final, Path

LEMMA HeldParts ==
  /\ Absent \in Held /\ Before \in Held
  /\ \A u \in Upload : Placeholder(u) \in Held /\ Content(u) \in Held
  /\ Absent # Before
  /\ \A u, v \in Upload :
       /\ Placeholder(u) # Absent /\ Placeholder(u) # Before
       /\ Content(u) # Absent /\ Content(u) # Before
       /\ Placeholder(u) # Content(v)
       /\ Placeholder(u) = Placeholder(v) => u = v
       /\ Content(u) = Content(v) => u = v
       /\ AfterRemove(Placeholder(u)) = Absent
  BY DEF Held, Absent, Before, Placeholder, Content, AfterRemove

LEMMA RemoveType ==
  ASSUME NEW e \in Held
  PROVE  AfterRemove(e) \in {e, Absent}
  BY DEF AfterRemove

LEMMA InitType == Init => TypeOK
  <1> SUFFICES ASSUME Init PROVE TypeOK
    OBVIOUS
  <1>1. disk \in [Path -> Held]
    BY HeldParts DEF Init
  <1>2. try \in [Upload -> 0..MaxTry]
    BY MaxTryType DEF Init
  <1>3. stage \in [Upload -> Stage]
    BY DEF Init, Stage
  <1> QED
    BY <1>1, <1>2, <1>3 DEF Init, TypeOK

----------------------------------------------------------------------------
(* Every step keeps the types.                                              *)

LEMMA HandlerType ==
  ASSUME TypeOK, NEW u \in Upload,
         Accept(u) \/ Copy(u) \/ Handle(u) \/ Age(u) \/ Touch(u)
  PROVE  TypeOK'
  <1> USE DEF sweepVars
  <1>1. CASE Accept(u)
    BY <1>1 DEF TypeOK, Accept, Add, Go, Stage, Busy, dirVars
  <1>2. CASE Copy(u)
    BY <1>2 DEF TypeOK, Copy, Go, Stage, Busy, dirVars, waitVars
  <1>3. CASE CreateTemp(u)
    BY <1>3 DEF TypeOK, CreateTemp, Go, Stage, Busy, waitVars
  <1>4. CASE Reserve(u)
    <2>1. Final(u) \in Path /\ Placeholder(u) \in Held
      BY FinalType, HeldParts
    <2>2. disk' \in [Path -> Held] /\ raced' \subseteq Path
      BY <1>4, <2>1 DEF TypeOK, Reserve
    <2>3. try' \in [Upload -> 0..MaxTry]
      BY <1>4, MaxTryType DEF TypeOK, Reserve, MoreTries
    <2>4. stage' \in [Upload -> Stage]
      BY <1>4 DEF TypeOK, Reserve, Go, Stage, Busy
    <2>5. litter' \subseteq Upload
      BY <1>4 DEF TypeOK, Reserve
    <2> QED
      BY <1>4, <2>2, <2>3, <2>4, <2>5 DEF TypeOK, Reserve, waitVars
  <1>5. CASE Clear(u)
    <2>1. Final(u) \in Path
      BY FinalType
    <2>2. disk' \in [Path -> Held]
      BY <1>5, <2>1, RemoveType, HeldParts DEF TypeOK, Clear
    <2> QED
      BY <1>5, <2>2 DEF TypeOK, Clear, Go, Stage, Busy, waitVars
  <1>6. CASE Rename(u)
    <2>1. Final(u) \in Path /\ Content(u) \in Held
      BY FinalType, HeldParts
    <2>2. disk' \in [Path -> Held]
      BY <1>6, <2>1 DEF TypeOK, Rename, dirVars
    <2> QED
      BY <1>6, <2>2 DEF TypeOK, Rename, Go, Stage, Busy, dirVars, waitVars
  <1>7. CASE CleanUp(u)
    BY <1>7 DEF TypeOK, CleanUp, Discard, Go, Stage, Busy, waitVars
  <1>8. CASE Record(u)
    BY <1>8 DEF TypeOK, Record, Go, Stage, Busy, dirVars, waitVars
  <1>9. CASE Return(u)
    BY <1>9 DEF TypeOK, Return, Finished, Done, Go, Stage, dirVars
  <1>10. CASE Age(u)
    BY <1>10 DEF TypeOK, Age, waitVars
  <1>11. CASE Touch(u)
    BY <1>11 DEF TypeOK, Touch, waitVars
  <1> QED
    BY <1>1, <1>2, <1>3, <1>4, <1>5, <1>6, <1>7, <1>8, <1>9, <1>10, <1>11
       DEF Handle

LEMMA NodeType ==
  ASSUME TypeOK,
         \/ \E s \in Sweeper : Remove(s) \/ \E u \in Upload : Judge(s, u)
         \/ Start \/ CloseServer \/ WaitUploads \/ WaitIdle
         \/ WaitTimeout \/ Kill
  PROVE  TypeOK'
  <1> USE DEF sweepVars
  <1>1. CASE Start
    BY <1>1 DEF TypeOK, Start, dirVars
  <1>2. ASSUME NEW s \in Sweeper, Remove(s) \/ \E u \in Upload : Judge(s, u)
        PROVE  TypeOK'
    <2>1. CASE Remove(s)
      <3>1. doomed' \in [Sweeper -> Upload \cup {NoUpload}]
        BY <2>1 DEF TypeOK, Remove
      <3>2. part' \in [Upload -> {"none", "fresh", "old"}] /\ torn' \subseteq Upload
        BY <2>1 DEF TypeOK, Remove
      <3> QED
        BY <2>1, <3>1, <3>2 DEF TypeOK, Remove, waitVars
    <2>2. ASSUME NEW u \in Upload, Judge(s, u) PROVE TypeOK'
      BY <2>2 DEF TypeOK, Judge, waitVars, dirVars
    <2> QED
      BY <1>2, <2>1, <2>2
  <1>3. CASE CloseServer
    BY <1>3 DEF TypeOK, CloseServer, dirVars, waitVars
  <1>4. CASE WaitUploads
    BY <1>4 DEF TypeOK, WaitUploads, dirVars
  <1>5. CASE WaitIdle \/ WaitTimeout
    BY <1>5 DEF TypeOK, WaitIdle, WaitTimeout, dirVars, waitVars
  <1>6. CASE Kill
    BY <1>6 DEF TypeOK, Kill, Stage, dirVars, waitVars
  <1> QED
    BY <1>1, <1>2, <1>3, <1>4, <1>5, <1>6

LEMMA StepType == TypeOK /\ [Next]_vars => TypeOK'
  <1> SUFFICES ASSUME TypeOK, [Next]_vars PROVE TypeOK'
    OBVIOUS
  <1>1. CASE UNCHANGED vars
    BY <1>1 DEF TypeOK, vars
  <1>2. CASE Next
    BY <1>2, HandlerType, NodeType DEF Next
  <1> QED
    BY <1>1, <1>2

\* The variables have their types in every behaviour.
THEOREM TypeCorrect == Spec => []TypeOK
  <1>1. Init => TypeOK
    BY InitType
  <1>2. TypeOK /\ [Next]_vars => TypeOK'
    BY StepType
  <1> QED
    BY <1>1, <1>2, PTL DEF Spec

----------------------------------------------------------------------------
(* The inductive invariant.  Outside the names that were reserved inside    *)
(* somebody's window, the stage of an upload says what the directory holds  *)
(* under its name, and two uploads are never at one name; the count of the  *)
(* uploads in flight agrees with the stages, and its channel is open while  *)
(* it is not zero.                                                          *)

Claim(u) ==
  Final(u) \notin raced =>
    /\ stage[u] = "reserved" => disk[Final(u)] = Placeholder(u)
    /\ stage[u] = "cleared" => \/ disk[Final(u)] = Absent
                               \/ u \in litter /\ disk[Final(u)] = Placeholder(u)
    /\ stage[u] \in Kept => disk[Final(u)] = Content(u)

Windows ==
  \A u, v \in Upload :
    stage[u] = "cleared" /\ stage[v] = "cleared" /\ Final(u) = Final(v)
      => u = v \/ Final(u) \in raced

NotStored(u) == stage[u] \in {"reserved", "cleared"} => Final(u) \notin Stored

\* Where a placeholder that could not be closed or removed stays.
Spoilt == {"cleared", "failing", "failed", "refused"}

PlaceholderOf(u) ==
  \A p \in Path :
    disk[p] = Placeholder(u) =>
      /\ p = Final(u)
      /\ \/ stage[u] \in {"reserved", "dead"}
         \/ u \in litter /\ stage[u] \in Spoilt

DirInv ==
  /\ \A u \in Upload : Claim(u) /\ NotStored(u) /\ PlaceholderOf(u)
  /\ Windows
  /\ StoredStays

Working == {"copying", "copied", "reserved", "cleared"}

PartInv ==
  \A u \in Upload :
    part[u] # "none" =>
      \/ stage[u] \in Working \cup {"failing", "dead"}
      \/ u \in leftover /\ stage[u] \in {"failed", "refused"}

\* What a sweep may take was "old" once; of a transfer that never was, the .part
\* is there as long as its handler works.
SweepInv ==
  /\ \A u \in Upload \ stalled :
       /\ part[u] # "old" /\ u \notin torn
       /\ stage[u] \in Working => part[u] # "none"
  /\ \A s \in Sweeper : doomed[s] # NoUpload => doomed[s] \in stalled

Counted == node # "off" => \A u \in flying : stage[u] \in Busy

Channels ==
  /\ flying # {} => ~IsClosed(idle)
  /\ \A u \in Upload : u = idle \/ u \in shut => stage[u] # "idle"

Covered(u) ==
  \/ u \in flying /\ waitOn = idle
  \/ /\ stage[u] \in {"answered", "refused"}
     /\ part[u] = "none" \/ u \in leftover

FlightInv ==
  /\ Counted
  /\ Channels
  /\ node = "waiting" => \A u \in awaited : Covered(u)

IInv == TypeOK /\ DirInv /\ PartInv /\ SweepInv /\ FlightInv

LEMMA InitInv == Init => IInv
  <1> SUFFICES ASSUME Init PROVE IInv
    OBVIOUS
  <1>1. \A u \in Upload : stage[u] = "idle" /\ part[u] = "none"
    BY DEF Init
  <1>2. StoredStays
    BY DEF Init, StoredStays, Path
  <1>3. \A p \in Path : disk[p] \in {Absent, Before}
    BY DEF Init
  <1>4. DirInv
    BY <1>1, <1>2, <1>3, HeldParts
       DEF DirInv, Claim, NotStored, PlaceholderOf, Windows, Kept
  <1>5. PartInv
    BY <1>1 DEF PartInv
  <1>7. SweepInv
    BY <1>1 DEF SweepInv, Init, Working
  <1>6. FlightInv
    BY <1>1, NamesAreNoUploads DEF Init, FlightInv, Counted, Channels
  <1> QED
    BY <1>4, <1>5, <1>6, <1>7, InitType DEF IInv

----------------------------------------------------------------------------
(* The directory.                                                           *)

\* A step that leaves the directory alone and moves no upload into a stage
\* that says something of it.
LEMMA DirQuiet ==
  ASSUME TypeOK, DirInv, UNCHANGED <<disk, try, raced, litter>>,
         \A u \in Upload :
           \/ stage'[u] = stage[u]
           \/ /\ stage'[u] \notin {"reserved", "cleared"}
              /\ stage'[u] \in Kept => stage[u] \in Kept
              /\ stage[u] \in {"reserved", "dead"} => stage'[u] = "dead"
              /\ stage[u] \in Spoilt /\ stage'[u] \notin Kept
                   => stage'[u] \in Spoilt \cup {"dead"}
              /\ stage[u] \in Spoilt => stage'[u] \notin Kept
  PROVE  DirInv'
  <1>1. \A u \in Upload : Final(u)' = Final(u)
    BY DEF Final
  <1>2. \A u \in Upload : Claim(u)' /\ NotStored(u)'
    BY <1>1 DEF DirInv, Claim, NotStored, Kept
  <1>3. ASSUME NEW u \in Upload PROVE PlaceholderOf(u)'
    <2>1. PlaceholderOf(u)
      BY DEF DirInv
    <2> QED
      BY <2>1, <1>1 DEF PlaceholderOf, Spoilt
  <1>4. Windows'
    BY <1>1 DEF DirInv, Windows
  <1>5. StoredStays'
    BY DEF DirInv, StoredStays
  <1> QED
    BY <1>2, <1>3, <1>4, <1>5 DEF DirInv

\* Reserving a free name makes it the upload's, and marks it when another
\* upload is inside its window.
LEMMA DirReserve ==
  ASSUME TypeOK, DirInv, NEW u \in Upload, Reserve(u)
  PROVE  DirInv'
  <1> DEFINE p == Final(u)
  <1>0. p \in Path /\ stage[u] = "copied" /\ u \in DOMAIN stage
        /\ disk \in [Path -> Held] /\ raced \subseteq Path
    BY FinalType DEF Reserve, TypeOK
  <1>1. CASE /\ disk[p] = Absent
             /\ disk' = [disk EXCEPT ![p] = Placeholder(u)]
             /\ \/ stage' = [stage EXCEPT ![u] = "reserved"] /\ UNCHANGED litter
                \/ /\ stage' = [stage EXCEPT ![u] = "failing"]
                   /\ litter' = litter \cup {u}
             /\ raced' = IF \E v \in Upload : stage[v] = "cleared" /\ Final(v) = p
                         THEN raced \cup {p} ELSE raced
             /\ UNCHANGED try
    <2>1. \A v \in Upload : Final(v)' = Final(v)
      BY <1>1 DEF Final
    <2>2. \A q \in Path : disk'[q] = IF q = p THEN Placeholder(u) ELSE disk[q]
      BY <1>0, <1>1
    <2>3. /\ \A v \in Upload \ {u} : stage'[v] = stage[v]
          /\ \/ stage'[u] = "reserved"
             \/ stage'[u] = "failing" /\ u \in litter'
          /\ litter \subseteq litter'
      BY <1>1, <1>0 DEF TypeOK
    <2>4. p \notin Stored
      BY <1>1, HeldParts DEF DirInv, StoredStays
    <2>5. \A v \in Upload : Final(v) \in Path
      BY FinalType
    <2>6. ASSUME NEW v \in Upload PROVE Claim(v)'
      <3>1. CASE v = u
        BY <3>1, <2>1, <2>2, <2>3, <1>0 DEF Claim, Kept
      <3>2. CASE v # u
        <4> SUFFICES ASSUME Final(v) \notin raced' PROVE Claim(v)'
          BY <2>1 DEF Claim
        <4>1. Final(v) \notin raced /\ ~(stage[v] = "cleared" /\ Final(v) = p)
          BY <1>1
        <4>2. Claim(v)
          BY DEF DirInv
        <4>3. Final(v) = p => stage[v] \notin Kept \cup {"reserved"}
          BY <4>1, <4>2, <1>1, HeldParts DEF Claim
        <4> QED
          BY <4>1, <4>2, <4>3, <3>2, <2>1, <2>2, <2>3, <2>5 DEF Claim
      <3> QED
        BY <3>1, <3>2
    <2>7. \A v \in Upload : NotStored(v)'
      BY <2>1, <2>3, <2>4 DEF DirInv, NotStored
    <2>8. ASSUME NEW v \in Upload PROVE PlaceholderOf(v)'
      <3>1. PlaceholderOf(v)
        BY DEF DirInv
      <3>2. CASE v = u
        BY <3>1, <3>2, <2>1, <2>2, <2>3, <1>0 DEF PlaceholderOf, Spoilt
      <3>3. CASE v # u
        BY <3>1, <3>3, <2>1, <2>2, <2>3, <1>0, HeldParts
           DEF PlaceholderOf, Spoilt
      <3> QED
        BY <3>2, <3>3
    <2>9. Windows'
      BY <1>1, <2>1, <2>3 DEF DirInv, Windows
    <2>10. StoredStays'
      BY <2>2, <2>4 DEF DirInv, StoredStays, Path
    <2> QED
      BY <2>6, <2>7, <2>8, <2>9, <2>10 DEF DirInv
  <1>2. CASE /\ try' = [try EXCEPT ![u] = @ + 1]
             /\ UNCHANGED <<disk, stage, raced, litter>>
    <2>1. \A v \in Upload : stage[v] # "copied" => Final(v)' = Final(v)
      BY <1>2, <1>0 DEF TypeOK, Final
    <2>2. \A v \in Upload : Claim(v)' /\ NotStored(v)'
      BY <1>2, <2>1 DEF DirInv, Claim, NotStored, Kept
    <2>3. \A v \in Upload : PlaceholderOf(v)'
      BY <1>2, <2>1 DEF DirInv, PlaceholderOf, Spoilt
    <2>4. Windows'
      BY <1>2, <2>1 DEF DirInv, Windows
    <2>5. StoredStays'
      BY <1>2 DEF DirInv, StoredStays
    <2> QED
      BY <2>2, <2>3, <2>4, <2>5 DEF DirInv
  <1>3. CASE /\ stage' = [stage EXCEPT ![u] = "failing"]
             /\ UNCHANGED <<disk, try, raced, litter>>
    BY <1>3, <1>0, DirQuiet DEF TypeOK, Kept, Spoilt
  <1> QED
    BY <1>1, <1>2, <1>3 DEF Reserve, Go, Free, InWindow

\* Clearing the placeholder: outside the raced names it is the upload's own.
LEMMA DirClear ==
  ASSUME TypeOK, DirInv, NEW u \in Upload, Clear(u)
  PROVE  DirInv'
  <1> DEFINE p == Final(u)
  <1>0. /\ p \in Path /\ stage[u] = "reserved" /\ disk \in [Path -> Held]
        /\ UNCHANGED <<try, raced>>
    BY FinalType DEF Clear, TypeOK
  <1>1. \A v \in Upload : Final(v)' = Final(v) /\ Final(v) \in Path
    BY <1>0, FinalType DEF Final
  <1>2. /\ \A q \in Path \ {p} : disk'[q] = disk[q]
        /\ litter \subseteq litter' /\ litter' \subseteq litter \cup {u}
        /\ \/ disk'[p] = AfterRemove(disk[p])
           \/ disk'[p] = disk[p] /\ u \in litter'
    BY <1>0 DEF Clear
  <1>3. \A v \in Upload : stage'[v] = IF v = u THEN "cleared" ELSE stage[v]
    BY DEF Clear, Go, TypeOK
  <1>4. p \notin Stored
    BY <1>0 DEF DirInv, NotStored
  <1>5. p \notin raced => disk[p] = Placeholder(u)
    BY <1>0 DEF DirInv, Claim
  <1>6. \A v \in Upload :
          v # u /\ Final(v) = p /\ p \notin raced =>
            stage[v] \notin Kept \cup {"reserved", "cleared"}
    BY <1>5, HeldParts DEF DirInv, Claim
  <1>7. \A v \in Upload : Claim(v)'
    <2> SUFFICES ASSUME NEW v \in Upload PROVE Claim(v)'
      OBVIOUS
    <2>1. CASE v = u
      BY <2>1, <1>0, <1>1, <1>2, <1>3, <1>5, HeldParts DEF Claim, Kept
    <2>2. CASE v # u
      BY <2>2, <1>0, <1>1, <1>2, <1>3, <1>6 DEF DirInv, Claim
    <2> QED
      BY <2>1, <2>2
  <1>8. \A v \in Upload : NotStored(v)'
    BY <1>0, <1>1, <1>3 DEF DirInv, NotStored
  <1>9. \A v \in Upload : PlaceholderOf(v)'
    <2> SUFFICES ASSUME NEW v \in Upload, NEW q \in Path,
                        disk'[q] = Placeholder(v)
                 PROVE  /\ q = Final(v)'
                        /\ \/ stage'[v] \in {"reserved", "dead"}
                           \/ v \in litter' /\ stage'[v] \in Spoilt
      BY DEF PlaceholderOf
    <2>1. AfterRemove(disk[p]) \in {disk[p], Absent}
      BY <1>0, RemoveType
    <2>2. AfterRemove(Placeholder(v)) = Absent /\ Placeholder(v) # Absent
      BY HeldParts
    <2>3. disk[q] = Placeholder(v) /\ (q = p => u \in litter')
      BY <2>1, <2>2, <1>2
    <2>4. /\ q = Final(v)
          /\ \/ stage[v] \in {"reserved", "dead"}
             \/ v \in litter /\ stage[v] \in Spoilt
      BY <2>3 DEF DirInv, PlaceholderOf
    <2>5. CASE v = u
      BY <2>3, <2>4, <2>5, <1>1, <1>3 DEF Spoilt
    <2>6. CASE v # u
      BY <2>4, <2>6, <1>1, <1>2, <1>3
    <2> QED
      BY <2>5, <2>6
  <1>10. Windows'
    BY <1>0, <1>1, <1>3, <1>6 DEF DirInv, Windows
  <1>11. StoredStays'
    BY <1>2, <1>4 DEF DirInv, StoredStays, Path
  <1> QED
    BY <1>7, <1>8, <1>9, <1>10, <1>11 DEF DirInv

\* The rename puts the upload's content where nobody else claims the name.
LEMMA DirRename ==
  ASSUME TypeOK, DirInv, NEW u \in Upload, Rename(u)
  PROVE  DirInv'
  <1> DEFINE p == Final(u)
  <1>0. /\ p \in Path /\ stage[u] = "cleared" /\ disk \in [Path -> Held]
        /\ UNCHANGED <<try, raced, litter>>
    BY FinalType DEF Rename, TypeOK
  <1>1. CASE /\ disk' = [disk EXCEPT ![p] = Content(u)]
             /\ stage' = [stage EXCEPT ![u] = "saved"]
    <2>1. \A v \in Upload : Final(v)' = Final(v) /\ Final(v) \in Path
      BY <1>0, FinalType DEF Final
    <2>2. \A q \in Path : disk'[q] = IF q = p THEN Content(u) ELSE disk[q]
      BY <1>0, <1>1
    <2>3. \A v \in Upload : stage'[v] = IF v = u THEN "saved" ELSE stage[v]
      BY <1>1 DEF TypeOK
    <2>4. p \notin Stored
      BY <1>0 DEF DirInv, NotStored
    <2>5. p \notin raced => disk[p] \in {Absent, Placeholder(u)}
      BY <1>0 DEF DirInv, Claim
    <2>6. \A v \in Upload :
            v # u /\ Final(v) = p /\ p \notin raced =>
              stage[v] \notin Kept \cup {"reserved", "cleared"}
      BY <1>0, <2>5, HeldParts DEF DirInv, Claim, Windows
    <2>7. \A v \in Upload : Claim(v)'
      <3> SUFFICES ASSUME NEW v \in Upload PROVE Claim(v)'
        OBVIOUS
      <3>1. CASE v = u
        BY <3>1, <1>0, <2>1, <2>2, <2>3 DEF Claim, Kept
      <3>2. CASE v # u
        BY <3>2, <1>0, <2>1, <2>2, <2>3, <2>6 DEF DirInv, Claim
      <3> QED
        BY <3>1, <3>2
    <2>8. \A v \in Upload : NotStored(v)'
      BY <2>1, <2>3 DEF DirInv, NotStored
    <2>9. ASSUME NEW v \in Upload PROVE PlaceholderOf(v)'
      <3>1. PlaceholderOf(v)
        BY DEF DirInv
      <3> QED
        BY <3>1, <1>0, <2>1, <2>2, <2>3, HeldParts DEF PlaceholderOf, Spoilt
    <2>10. Windows'
      BY <1>0, <2>1, <2>3 DEF DirInv, Windows
    <2>11. StoredStays'
      BY <2>2, <2>4 DEF DirInv, StoredStays, Path
    <2> QED
      BY <2>7, <2>8, <2>9, <2>10, <2>11 DEF DirInv
  <1>2. CASE stage' = [stage EXCEPT ![u] = "failing"] /\ UNCHANGED disk
    BY <1>2, <1>0, DirQuiet DEF TypeOK, Kept, Spoilt
  <1> QED
    BY <1>1, <1>2 DEF Rename, Go, dirVars

LEMMA DirStep == TypeOK /\ DirInv /\ [Next]_vars => DirInv'
  <1> SUFFICES ASSUME TypeOK, DirInv, [Next]_vars PROVE DirInv'
    OBVIOUS
  <1>1. CASE UNCHANGED vars
    BY <1>1, DirQuiet DEF vars
  <1>2. ASSUME NEW u \in Upload, Accept(u) \/ CreateTemp(u) \/ Copy(u)
        PROVE  DirInv'
    <2>1. UNCHANGED <<disk, try, raced, litter>>
      BY <1>2 DEF Accept, CreateTemp, Copy, dirVars
    <2>2. /\ \E s \in {"counted", "copying", "copied", "failing"} :
               stage' = [stage EXCEPT ![u] = s]
          /\ stage[u] \in {"idle", "counted", "copying"}
      BY <1>2 DEF Accept, CreateTemp, Copy, Go
    <2> QED
      BY <2>1, <2>2, DirQuiet DEF TypeOK, Kept, Spoilt
  <1>3. ASSUME NEW u \in Upload, CleanUp(u) \/ Record(u) \/ Return(u)
        PROVE  DirInv'
    <2>1. UNCHANGED <<disk, try, raced, litter>>
      BY <1>3 DEF CleanUp, Record, Return, dirVars
    <2>2. \/ stage[u] = "failing" /\ stage' = [stage EXCEPT ![u] = "failed"]
          \/ stage[u] = "saved" /\ stage' = [stage EXCEPT ![u] = "noted"]
          \/ stage[u] = "noted" /\ stage' = [stage EXCEPT ![u] = "answered"]
          \/ stage[u] = "failed" /\ stage' = [stage EXCEPT ![u] = "refused"]
      BY <1>3 DEF CleanUp, Record, Return, Finished, Go
    <2> QED
      BY <2>1, <2>2, DirQuiet DEF TypeOK, Kept, Spoilt
  <1>4. ASSUME NEW u \in Upload, Age(u) \/ Touch(u) PROVE DirInv'
    BY <1>4, DirQuiet DEF Age, Touch, sweepVars
  <1>5. CASE \/ \E s \in Sweeper : Remove(s) \/ \E u \in Upload : Judge(s, u)
             \/ Start \/ CloseServer \/ WaitUploads \/ WaitIdle \/ WaitTimeout
    <2>1. UNCHANGED <<disk, try, raced, litter, stage>>
      BY <1>5 DEF Remove, Judge, Start, CloseServer, WaitUploads, WaitIdle,
                  WaitTimeout, dirVars
    <2> QED
      BY <2>1, DirQuiet
  <1>6. CASE Kill
    <2>1. UNCHANGED <<disk, try, raced, litter>>
      BY <1>6 DEF Kill, dirVars
    <2>2. \A u \in Upload :
            stage'[u] = IF stage[u] \in Busy THEN "dead" ELSE stage[u]
      BY <1>6 DEF Kill
    <2> QED
      BY <2>1, <2>2, DirQuiet DEF Kept, Busy, Spoilt
  <1> QED
    BY <1>1, <1>2, <1>3, <1>4, <1>5, <1>6, DirReserve, DirClear, DirRename
       DEF Next, Handle

----------------------------------------------------------------------------
(* The .part entries.                                                       *)

LEMMA PartStep == TypeOK /\ PartInv /\ [Next]_vars => PartInv'
  <1> SUFFICES ASSUME TypeOK, PartInv, [Next]_vars PROVE PartInv'
    OBVIOUS
  <1>1. CASE UNCHANGED vars
    BY <1>1 DEF vars, PartInv
  <1>2. ASSUME NEW u \in Upload, CreateTemp(u) \/ CleanUp(u)
        PROVE  PartInv'
    BY <1>2 DEF CreateTemp, CleanUp, Discard, Go, TypeOK, PartInv, Working
  <1>3. ASSUME NEW u \in Upload, Accept(u) \/ Copy(u) \/ Record(u) \/ Return(u)
        PROVE  PartInv'
    BY <1>3 DEF Accept, Copy, Record, Return, Finished, Go, dirVars, TypeOK,
                PartInv, Working
  <1>4. ASSUME NEW u \in Upload, Reserve(u) \/ Clear(u)
        PROVE  PartInv'
    BY <1>4 DEF Reserve, Clear, Go, TypeOK, PartInv, Working
  <1>5. ASSUME NEW u \in Upload, Rename(u) PROVE PartInv'
    BY <1>5 DEF Rename, Go, dirVars, TypeOK, PartInv, Working
  <1>6. ASSUME NEW u \in Upload, Age(u) \/ Touch(u) PROVE PartInv'
    BY <1>6 DEF Age, Touch, TypeOK, PartInv
  <1>7. ASSUME NEW s \in Sweeper, Remove(s) PROVE PartInv'
    BY <1>7 DEF Remove, TypeOK, PartInv
  <1>8. CASE \/ \E s \in Sweeper : \E u \in Upload : Judge(s, u)
             \/ Start \/ CloseServer \/ WaitUploads \/ WaitIdle \/ WaitTimeout
    BY <1>8 DEF Judge, Start, CloseServer, WaitUploads, WaitIdle, WaitTimeout,
                dirVars, PartInv
  <1>9. CASE Kill
    BY <1>9 DEF Kill, dirVars, Busy, PartInv, Working
  <1> QED
    BY <1>1, <1>2, <1>3, <1>4, <1>5, <1>6, <1>7, <1>8, <1>9 DEF Next, Handle

----------------------------------------------------------------------------
(* The sweeps.                                                              *)

\* A step of no sweep, which brings no handler to work without a .part.
LEMMA SweepQuiet ==
  ASSUME TypeOK, SweepInv, UNCHANGED <<stalled, torn>>,
         \A s \in Sweeper : doomed'[s] \in {doomed[s], NoUpload},
         \A u \in Upload :
           /\ part'[u] = "old" => part[u] = "old"
           /\ stage'[u] \in Working =>
                part'[u] # "none" \/ (stage[u] \in Working /\ part'[u] = part[u])
  PROVE  SweepInv'
  BY DEF SweepInv

LEMMA SweepStep == TypeOK /\ SweepInv /\ [Next]_vars => SweepInv'
  <1> SUFFICES ASSUME TypeOK, SweepInv, [Next]_vars PROVE SweepInv'
    OBVIOUS
  <1>1. CASE UNCHANGED vars
    BY <1>1, SweepQuiet DEF vars
  <1>2. ASSUME NEW u \in Upload, CreateTemp(u) \/ CleanUp(u)
        PROVE  SweepInv'
    <2>1. UNCHANGED <<doomed, stalled, torn>>
      BY <1>2 DEF CreateTemp, CleanUp, sweepVars
    <2>2. CASE CreateTemp(u)
      BY <2>1, <2>2 DEF CreateTemp, Go, TypeOK, Working, SweepInv
    <2>3. CASE CleanUp(u)
      BY <2>1, <2>3 DEF CleanUp, Discard, Go, TypeOK, Working, SweepInv
    <2> QED
      BY <1>2, <2>2, <2>3
  <1>3. ASSUME NEW u \in Upload, Accept(u) \/ Copy(u) \/ Record(u) \/ Return(u)
        PROVE  SweepInv'
    BY <1>3, SweepQuiet
       DEF Accept, Copy, Record, Return, Finished, Go, dirVars, TypeOK, Working,
           sweepVars
  <1>4. ASSUME NEW u \in Upload, Reserve(u) \/ Clear(u)
        PROVE  SweepInv'
    BY <1>4, SweepQuiet DEF Reserve, Clear, Go, TypeOK, Working, sweepVars
  <1>5. ASSUME NEW u \in Upload, Rename(u) PROVE SweepInv'
    BY <1>5, SweepQuiet DEF Rename, Go, dirVars, TypeOK, Working, sweepVars
  <1>6. ASSUME NEW u \in Upload, Age(u) PROVE SweepInv'
    BY <1>6 DEF Age, TypeOK, SweepInv
  <1>7. ASSUME NEW u \in Upload, Touch(u) PROVE SweepInv'
    <2>1. UNCHANGED <<stage, doomed, stalled, torn>>
      BY <1>7 DEF Touch, sweepVars
    <2>2. \A v \in Upload : part'[v] \in {part[v], "fresh"}
      BY <1>7 DEF Touch, TypeOK
    <2> QED
      BY <2>1, <2>2 DEF SweepInv
  <1>8. ASSUME NEW s \in Sweeper, NEW u \in Upload, Judge(s, u)
        PROVE  SweepInv'
    <2>1. part[u] = "old" /\ u \in stalled
      BY <1>8 DEF Judge, Stale, SweepInv
    <2>2. /\ UNCHANGED <<stage, part, stalled, torn>>
          /\ \A t \in Sweeper : doomed'[t] \in {doomed[t], u}
      BY <1>8 DEF Judge, dirVars, TypeOK
    <2> QED
      BY <2>1, <2>2 DEF SweepInv
  <1>9. ASSUME NEW s \in Sweeper, Remove(s) PROVE SweepInv'
    <2>1. doomed[s] \in stalled
      BY <1>9 DEF Remove, SweepInv
    <2>2. /\ \A u \in Upload : part'[u] # part[u] =>
                                  u = doomed[s] /\ part'[u] = "none"
          /\ torn' \subseteq torn \cup {doomed[s]}
          /\ UNCHANGED <<stage, stalled>>
          /\ \A t \in Sweeper : doomed'[t] \in {doomed[t], NoUpload}
      BY <1>9 DEF Remove, TypeOK
    <2>3. \A u \in Upload \ stalled : part'[u] = part[u] /\ u \notin torn'
      BY <2>1, <2>2 DEF SweepInv
    <2>4. \A t \in Sweeper : doomed'[t] # NoUpload => doomed'[t] \in stalled
      BY <2>2 DEF SweepInv
    <2> QED
      BY <2>2, <2>3, <2>4 DEF SweepInv
  <1>10. CASE Start \/ CloseServer \/ WaitUploads \/ WaitIdle \/ WaitTimeout
    BY <1>10, SweepQuiet
       DEF Start, CloseServer, WaitUploads, WaitIdle, WaitTimeout, dirVars,
           sweepVars
  <1>11. CASE Kill
    <2>1. \A u \in Upload : stage'[u] \in Working => FALSE
      BY <1>11 DEF Kill, Busy, Working, TypeOK
    <2>2. UNCHANGED <<part, stalled, torn>>
      BY <1>11 DEF Kill, dirVars
    <2>3. \A s \in Sweeper : doomed'[s] \in {doomed[s], NoUpload}
      BY <1>11 DEF Kill, TypeOK
    <2> QED
      BY <2>1, <2>2, <2>3, SweepQuiet
  <1> QED
    BY <1>1, <1>2, <1>3, <1>4, <1>5, <1>6, <1>7, <1>8, <1>9, <1>10, <1>11
       DEF Next, Handle

----------------------------------------------------------------------------
(* The count of uploads in flight.                                          *)

\* A step that leaves the counter alone and moves no upload out of flight.
LEMMA FlightQuiet ==
  ASSUME TypeOK, FlightInv, UNCHANGED <<waitVars, node>>,
         \A u \in Upload :
           /\ stage[u] \in Busy => stage'[u] \in Busy
           /\ stage[u] # "idle" => stage'[u] # "idle"
           /\ stage[u] \in {"answered", "refused"} => stage'[u] = stage[u]
           /\ part[u] = "none" => part'[u] = "none" \/ stage[u] = "counted",
         leftover \subseteq leftover'
  PROVE  FlightInv'
  <1>1. Counted'
    BY DEF FlightInv, Counted, waitVars, TypeOK
  <1>2. Channels'
    BY DEF FlightInv, Channels, IsClosed, waitVars
  <1>3. ASSUME node' = "waiting", NEW u \in awaited' PROVE Covered(u)'
    <2>1. Covered(u) /\ u \in Upload
      BY <1>3 DEF FlightInv, waitVars, TypeOK
    <2> QED
      BY <2>1 DEF Covered, waitVars
  <1> QED
    BY <1>1, <1>2, <1>3 DEF FlightInv

\* add: the channel of a new upload was never closed, and while an upload that
\* is waited for is in flight the channel is not replaced.
LEMMA FlightAccept ==
  ASSUME TypeOK, FlightInv, NEW u \in Upload, Accept(u)
  PROVE  FlightInv'
  <1>1. /\ node # "off" /\ stage[u] = "idle"
        /\ flying' = flying \cup {u}
        /\ idle' = IF flying = {} THEN u ELSE idle
        /\ UNCHANGED <<shut, part, node, waitOn, awaited, leftover>>
    BY DEF Accept, Add, dirVars
  <1>2. \A v \in Upload : stage'[v] = IF v = u THEN "counted" ELSE stage[v]
    BY DEF Accept, Go, TypeOK
  <1>3. Counted'
    BY <1>1, <1>2 DEF FlightInv, Counted, Busy, TypeOK
  <1>4. Channels'
    BY <1>1, <1>2, NamesAreNoUploads DEF FlightInv, Channels, IsClosed
  <1>5. ASSUME node' = "waiting", NEW v \in awaited' PROVE Covered(v)'
    <2>1. Covered(v) /\ v \in Upload
      BY <1>1, <1>5 DEF FlightInv, TypeOK
    <2> QED
      BY <2>1, <1>1, <1>2 DEF Covered
  <1> QED
    BY <1>3, <1>4, <1>5 DEF FlightInv

\* done: an upload leaves the count with its work behind it.
LEMMA FlightReturn ==
  ASSUME TypeOK, FlightInv, PartInv, NEW u \in Upload, Return(u)
  PROVE  FlightInv'
  <1>1. /\ stage[u] \in {"noted", "failed"}
        /\ flying' = flying \ {u}
        /\ shut' = IF flying = {u} THEN shut \cup {idle} ELSE shut
        /\ UNCHANGED <<idle, part, node, waitOn, awaited, leftover>>
    BY DEF Return, Finished, Done, dirVars
  <1>2. \A v \in Upload :
          stage'[v] = IF v = u THEN stage'[u] ELSE stage[v]
    BY DEF Return, Go, TypeOK
  <1>3. /\ stage'[u] \in {"answered", "refused"}
        /\ part'[u] = "none" \/ u \in leftover
    BY <1>1 DEF Return, Go, TypeOK, PartInv, Working
  <1>4. Counted'
    BY <1>1, <1>2 DEF FlightInv, Counted, TypeOK
  <1>5. Channels'
    <2>1. flying' # {} => ~IsClosed(idle)'
      BY <1>1 DEF FlightInv, Channels, IsClosed
    <2>2. ASSUME NEW v \in Upload, v = idle' \/ v \in shut'
          PROVE  stage'[v] # "idle"
      BY <2>2, <1>1, <1>2, <1>3 DEF FlightInv, Channels
    <2> QED
      BY <2>1, <2>2 DEF Channels
  <1>6. ASSUME node' = "waiting", NEW v \in awaited' PROVE Covered(v)'
    <2>1. Covered(v) /\ v \in Upload
      BY <1>1, <1>6 DEF FlightInv, TypeOK
    <2> QED
      BY <2>1, <1>1, <1>2, <1>3 DEF Covered
  <1> QED
    BY <1>4, <1>5, <1>6 DEF FlightInv

LEMMA FlightStep == TypeOK /\ PartInv /\ FlightInv /\ [Next]_vars => FlightInv'
  <1> SUFFICES ASSUME TypeOK, PartInv, FlightInv, [Next]_vars PROVE FlightInv'
    OBVIOUS
  <1>1. CASE UNCHANGED vars
    BY <1>1, FlightQuiet DEF vars, waitVars
  <1>2. ASSUME NEW u \in Upload, CreateTemp(u) PROVE FlightInv'
    BY <1>2, FlightQuiet DEF CreateTemp, Go, TypeOK, Busy
  <1>3. ASSUME NEW u \in Upload, Copy(u) \/ CleanUp(u) \/ Record(u)
        PROVE  FlightInv'
    BY <1>3, FlightQuiet
       DEF Copy, CleanUp, Discard, Record, Go, TypeOK, Busy, dirVars
  <1>4. ASSUME NEW u \in Upload, Reserve(u) \/ Clear(u) PROVE FlightInv'
    BY <1>4, FlightQuiet DEF Reserve, Clear, Go, TypeOK, Busy
  <1>5. ASSUME NEW u \in Upload, Rename(u) PROVE FlightInv'
    BY <1>5, FlightQuiet DEF Rename, Go, TypeOK, Busy, dirVars
  <1>6. ASSUME NEW u \in Upload, Age(u) \/ Touch(u) PROVE FlightInv'
    BY <1>6, FlightQuiet DEF Age, Touch, TypeOK
  <1>7. ASSUME NEW s \in Sweeper, Remove(s) \/ \E u \in Upload : Judge(s, u)
        PROVE  FlightInv'
    <2>1. UNCHANGED <<waitVars, node, stage, leftover>>
      BY <1>7 DEF Remove, Judge
    <2>2. \A u \in Upload : part[u] = "none" => part'[u] = "none"
      BY <1>7 DEF Remove, Judge, dirVars, TypeOK
    <2> QED
      BY <2>1, <2>2, FlightQuiet
  <1>8. CASE Start
    <2>1. /\ flying' = {} /\ idle' = First /\ node' = "up"
          /\ UNCHANGED <<shut, stage>>
      BY <1>8 DEF Start
    <2> QED
      BY <2>1, NamesAreNoUploads DEF FlightInv, Counted, Channels
  <1>9. CASE CloseServer \/ WaitIdle \/ WaitTimeout
    <2>1. /\ node # "off" /\ node' # "waiting"
          /\ UNCHANGED <<stage, flying, idle, shut>>
      BY <1>9 DEF CloseServer, WaitIdle, WaitTimeout, waitVars
    <2> QED
      BY <2>1 DEF FlightInv, Counted, Channels, IsClosed
  <1>10. CASE WaitUploads
    <2>1. /\ node # "off" /\ waitOn' = idle /\ awaited' = flying
          /\ UNCHANGED <<stage, flying, idle, shut>>
      BY <1>10 DEF WaitUploads
    <2> QED
      BY <2>1 DEF FlightInv, Counted, Channels, IsClosed, Covered
  <1>11. CASE Kill
    <2>1. node' = "off" /\ UNCHANGED waitVars
      BY <1>11 DEF Kill
    <2>2. \A u \in Upload : stage[u] # "idle" => stage'[u] # "idle"
      BY <1>11 DEF Kill
    <2> QED
      BY <2>1, <2>2 DEF FlightInv, Counted, Channels, IsClosed, waitVars
  <1> QED
    BY <1>1, <1>2, <1>3, <1>4, <1>5, <1>6, <1>7, <1>8, <1>9, <1>10, <1>11,
       FlightAccept, FlightReturn DEF Next, Handle

----------------------------------------------------------------------------
(* Results.                                                                 *)

\* The directory, the .part entries and the count agree with the stages of the
\* handlers in every state.
THEOREM Inductive == Spec => []IInv
  <1>1. Init => IInv
    BY InitInv
  <1>2. IInv /\ [Next]_vars => IInv'
    BY StepType, DirStep, PartStep, SweepStep, FlightStep DEF IInv
  <1> QED
    BY <1>1, <1>2, PTL DEF Spec

\* Nothing the directory held before is overwritten or removed.
THEOREM StoredIsSafe == Spec => []StoredStays
  <1>1. IInv => StoredStays
    BY DEF IInv, DirInv
  <1> QED
    BY <1>1, Inductive, PTL

\* A received file is lost in no other way than through the window that commit
\* leaves between its Remove and its Rename.
THEOREM LossNeedsTheWindow == Spec => []OnlyTheWindowLoses
  <1>1. IInv => OnlyTheWindowLoses
    BY DEF IInv, DirInv, Claim, OnlyTheWindowLoses
  <1> QED
    BY <1>1, Inductive, PTL

\* A handler that returned left neither a .part entry nor a placeholder, but
\* where the very call that removes it failed.
THEOREM HandlersCleanUp == Spec => []NothingLeftBehind
  <1>1. IInv => NothingLeftBehind
    BY DEF IInv, DirInv, PartInv, PlaceholderOf, NothingLeftBehind, Working,
           Spoilt
  <1> QED
    BY <1>1, Inductive, PTL

\* WaitUploads returns nil only when what was in flight has finished.
THEOREM WaitIsSound == Spec => []WaitCoversUploads
  <1>1. IInv => WaitCoversUploads
    <2> SUFFICES ASSUME IInv, node = "waiting", IsClosed(waitOn),
                        NEW u \in awaited
                 PROVE  /\ stage[u] \in {"answered", "refused"}
                        /\ part[u] = "none" \/ u \in leftover
      BY DEF WaitCoversUploads
    <2>1. Covered(u) /\ (flying # {} => ~IsClosed(idle))
      BY DEF IInv, FlightInv, Channels
    <2> QED
      BY <2>1 DEF Covered
  <1> QED
    BY <1>1, Inductive, PTL

\* A sweep judges and removes in two steps, and only a transfer that once paused
\* for staleAfter can lose its .part, or a piece of it, to any number of them.
THEOREM SweepSparesFresh == Spec => []FreshPartsStay
  <1>1. IInv => FreshPartsStay
    BY DEF IInv, SweepInv, Working, FreshPartsStay
  <1> QED
    BY <1>1, Inductive, PTL

\* No file is lost but through the window between Remove and Rename.
THEOREM FilesAreSafe == Spec => []FilesStay
BY StoredIsSafe, LossNeedsTheWindow, PTL DEF FilesStay
=============================================================================
