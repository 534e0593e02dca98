--------------------------- MODULE DirStreamProofs ---------------------------
(***************************************************************************)
(* The invariants of DirStream hold for any threads, streams, native       *)
(* directories, cells and buffer size.  IInv is inductive: one lemma per   *)
(* action, one step per conjunct that the action disturbs.                 *)
(***************************************************************************)
EXTENDS DirStream, TLAPS

\* Where a block begins; a directory that fits in one block has one.
LEMMA BlockOfOK ==
  /\ \A e \in Int : BlockOf(e) \in Int
  /\ Last <= Block => \A e \in Entries : BlockOf(e) = 0
<1> USE DirConstantsOK DEF BlockOf, Entries
<1>1. \A e \in Int : BlockOf(e) \in Int
  OBVIOUS
<1>2. ASSUME Last <= Block, NEW e \in Entries PROVE BlockOf(e) = 0
  <2>1. (e - 1) \div Block = 0
    BY <1>2
  <2> QED BY <2>1
<1> QED BY <1>1, <1>2

LEMMA InitInv == Init => IInv
<1> SUFFICES ASSUME Init PROVE IInv
  OBVIOUS
<1>1. TypeOK
  <2>1. 0 \in 0..Last /\ 0 \in Int
    BY DirConstantsOK
  <2>2. /\ pos \in [Dirs -> 0..Last]
        /\ entry \in [Threads -> 0..Last]
        /\ buffer \in [Dirs -> Int]
        /\ copied \in [Cells -> Int]
        /\ got \in [Threads -> Int]
    BY <2>1 DEF Init, TORN
  <2>3. handed \in [Streams -> SUBSET (Cells \X Int)]
    BY DEF Init
  <2> QED BY <2>2, <2>3 DEF Init, TypeOK, Labels
<1>2. CallsOK /\ Alone /\ Unused /\ CellsApart /\ NoLeak /\ MutexOwned
  BY DEF Init, CallsOK, Alone, Unused, CellsApart, NoLeak, MutexOwned,
         Reading, Holding, Filling, Locked
<1>3. InsertAtomic /\ HandedIntact /\ OwnDir /\ OneBlock /\ InBuffer
      /\ CopiedRight
  BY DEF Init, InsertAtomic, HandedIntact, OwnDir, OneBlock, InBuffer,
         CopiedRight, Reading, Holding, Filling
<1> QED BY <1>1, <1>2, <1>3 DEF IInv

LEMMA OpendirInv ==
  ASSUME IInv, NEW t \in Threads, NEW s \in Streams, Opendir(t, s)
  PROVE  IInv'
<1> USE DEF Opendir, create_shim_dir, NativeOpen, heap, local
<1>1. TypeOK'
  BY DirConstantsOK, BlockOfOK DEF IInv, TypeOK, CallsOK, Labels, TORN,
     Entries, Filling, Holding, Reading
<1>2. CallsOK'
  BY DirConstantsOK DEF IInv, CallsOK, TypeOK, Alone, Entries, Filling,
     Holding, Reading
<1>3. Alone'
  BY DirConstantsOK DEF IInv, Alone, TypeOK, CallsOK, Labels, Locked,
     Entries, Filling, Holding, Reading
<1>4. Unused'
  BY DirConstantsOK DEF IInv, Unused, TypeOK, CallsOK, Alone, Entries,
     Filling, Holding, Reading
<1>5. CellsApart'
  BY DirConstantsOK DEF IInv, CellsApart, TypeOK, CallsOK, Unused,
     InsertAtomic, MutexOwned, Entries, Filling, Holding, Locked, Reading
<1>6. NoLeak'
  BY DirConstantsOK DEF IInv, NoLeak, TypeOK, CallsOK, Unused, InsertAtomic,
     CellsApart, MutexOwned, Entries, Filling, Holding, Locked, Reading
<1>7. MutexOwned'
  BY DirConstantsOK DEF IInv, MutexOwned, TypeOK, CallsOK, Alone, Entries,
     Filling, Holding, Locked, Reading
<1>8. InsertAtomic'
  BY DirConstantsOK DEF IInv, InsertAtomic, TypeOK, CallsOK, CellsApart,
     MutexOwned, Alone, Unused, Entries, Filling, Holding, Locked, Reading
<1>9. HandedIntact'
  BY DirConstantsOK DEF IInv, HandedIntact, TypeOK, CallsOK, Unused,
     InsertAtomic, CellsApart, Entries, Filling, Holding, Reading
<1>10. OwnDir'
  BY DirConstantsOK DEF IInv, OwnDir, TypeOK, CallsOK, Entries, Filling,
     Holding, Reading
<1>11. InBuffer'
  BY DirConstantsOK, BlockOfOK DEF IInv, InBuffer, TypeOK, CallsOK, Alone,
     OwnDir, OneBlock, Private, Entries, Filling, Holding, Reading
<1>12. CopiedRight'
  BY DirConstantsOK, BlockOfOK DEF IInv, CopiedRight, TypeOK, CallsOK,
     InBuffer, Private, Entries, Filling, Holding, Reading
<1>13. OneBlock'
  BY DEF IInv, OneBlock
<1> QED BY <1>1, <1>2, <1>3, <1>4, <1>5, <1>6, <1>7, <1>8, <1>9, <1>10,
   <1>11, <1>12, <1>13 DEF IInv

LEMMA OpendirSysDevicesInv ==
  ASSUME IInv, NEW t \in Threads, NEW s \in Streams, OpendirSysDevices(t, s)
  PROVE  IInv'
<1> USE DEF OpendirSysDevices, create_shim_dir, native, heap, local
<1>1. TypeOK'
  BY DirConstantsOK, BlockOfOK DEF IInv, TypeOK, CallsOK, Labels, TORN,
     Entries, Filling, Holding, Reading
<1>2. CallsOK'
  BY DirConstantsOK DEF IInv, CallsOK, TypeOK, Alone, Entries, Filling,
     Holding, Reading
<1>3. Alone'
  BY DirConstantsOK DEF IInv, Alone, TypeOK, CallsOK, Labels, Locked,
     Entries, Filling, Holding, Reading
<1>4. Unused'
  BY DirConstantsOK DEF IInv, Unused, TypeOK, CallsOK, Alone, Entries,
     Filling, Holding, Reading
<1>5. CellsApart'
  BY DirConstantsOK DEF IInv, CellsApart, TypeOK, CallsOK, Unused,
     InsertAtomic, MutexOwned, Entries, Filling, Holding, Locked, Reading
<1>6. NoLeak'
  BY DirConstantsOK DEF IInv, NoLeak, TypeOK, CallsOK, Unused, InsertAtomic,
     CellsApart, MutexOwned, Entries, Filling, Holding, Locked, Reading
<1>7. MutexOwned'
  BY DirConstantsOK DEF IInv, MutexOwned, TypeOK, CallsOK, Alone, Entries,
     Filling, Holding, Locked, Reading
<1>8. InsertAtomic'
  BY DirConstantsOK DEF IInv, InsertAtomic, TypeOK, CallsOK, CellsApart,
     MutexOwned, Alone, Unused, Entries, Filling, Holding, Locked, Reading
<1>9. HandedIntact'
  BY DirConstantsOK DEF IInv, HandedIntact, TypeOK, CallsOK, Unused,
     InsertAtomic, CellsApart, Entries, Filling, Holding, Reading
<1>10. OwnDir'
  BY DirConstantsOK DEF IInv, OwnDir, TypeOK, CallsOK, Entries, Filling,
     Holding, Reading
<1>11. InBuffer'
  BY DirConstantsOK, BlockOfOK DEF IInv, InBuffer, TypeOK, CallsOK, Alone,
     OwnDir, OneBlock, Private, Entries, Filling, Holding, Reading
<1>12. CopiedRight'
  BY DirConstantsOK, BlockOfOK DEF IInv, CopiedRight, TypeOK, CallsOK,
     InBuffer, Private, Entries, Filling, Holding, Reading
<1>13. OneBlock'
  BY DEF IInv, OneBlock
<1> QED BY <1>1, <1>2, <1>3, <1>4, <1>5, <1>6, <1>7, <1>8, <1>9, <1>10,
   <1>11, <1>12, <1>13 DEF IInv

LEMMA ReaddirInv ==
  ASSUME IInv, NEW t \in Threads, NEW s \in Streams, Readdir(t, s)
  PROVE  IInv'
<1> USE DEF Readdir, NativeReaddir, MayCall, InCall, heap, stream
<1>1. TypeOK'
  BY DirConstantsOK, BlockOfOK DEF IInv, TypeOK, CallsOK, Labels, TORN,
     Entries, Filling, Holding, Reading
<1>2. CallsOK'
  BY DirConstantsOK DEF IInv, CallsOK, TypeOK, Alone, Entries, Filling,
     Holding, Reading
<1>3. Alone'
  BY DirConstantsOK DEF IInv, Alone, TypeOK, CallsOK, Labels, Locked,
     Entries, Filling, Holding, Reading
<1>4. CellsApart'
  BY DirConstantsOK DEF IInv, CellsApart, TypeOK, CallsOK, Unused,
     InsertAtomic, MutexOwned, Entries, Filling, Holding, Locked, Reading
<1>5. NoLeak'
  BY DirConstantsOK DEF IInv, NoLeak, TypeOK, CallsOK, Unused, InsertAtomic,
     CellsApart, MutexOwned, Entries, Filling, Holding, Locked, Reading
<1>6. MutexOwned'
  BY DirConstantsOK DEF IInv, MutexOwned, TypeOK, CallsOK, Alone, Entries,
     Filling, Holding, Locked, Reading
<1>7. InsertAtomic'
  BY DirConstantsOK DEF IInv, InsertAtomic, TypeOK, CallsOK, CellsApart,
     MutexOwned, Alone, Unused, Entries, Filling, Holding, Locked, Reading
<1>8. OneBlock'
  BY DirConstantsOK, BlockOfOK DEF IInv, OneBlock, TypeOK, CallsOK, Entries,
     Filling, Holding, Reading
<1>9. InBuffer'
  BY DirConstantsOK, BlockOfOK DEF IInv, InBuffer, TypeOK, CallsOK, Alone,
     OwnDir, OneBlock, Private, Entries, Filling, Holding, Reading
<1>10. CopiedRight'
  BY DirConstantsOK, BlockOfOK DEF IInv, CopiedRight, TypeOK, CallsOK,
     InBuffer, Private, Entries, Filling, Holding, Reading
<1>11. Unused' /\ HandedIntact' /\ OwnDir'
  BY DEF IInv, Unused, HandedIntact, OwnDir
<1> QED BY <1>1, <1>2, <1>3, <1>4, <1>5, <1>6, <1>7, <1>8, <1>9, <1>10, <1>11
   DEF IInv

LEMMA Readdir_rInv ==
  ASSUME IInv, NEW t \in Threads, NEW s \in Streams, Readdir_r(t, s)
  PROVE  IInv'
<1> USE DEF Readdir_r, NativeReaddir, MayCall, InCall, heap, stream
<1>1. TypeOK'
  BY DirConstantsOK, BlockOfOK DEF IInv, TypeOK, CallsOK, Labels, TORN,
     Entries, Filling, Holding, Reading
<1>2. CallsOK'
  BY DirConstantsOK DEF IInv, CallsOK, TypeOK, Alone, Entries, Filling,
     Holding, Reading
<1>3. Alone'
  BY DirConstantsOK DEF IInv, Alone, TypeOK, CallsOK, Labels, Locked,
     Entries, Filling, Holding, Reading
<1>4. CellsApart'
  BY DirConstantsOK DEF IInv, CellsApart, TypeOK, CallsOK, Unused,
     InsertAtomic, MutexOwned, Entries, Filling, Holding, Locked, Reading
<1>5. NoLeak'
  BY DirConstantsOK DEF IInv, NoLeak, TypeOK, CallsOK, Unused, InsertAtomic,
     CellsApart, MutexOwned, Entries, Filling, Holding, Locked, Reading
<1>6. MutexOwned'
  BY DirConstantsOK DEF IInv, MutexOwned, TypeOK, CallsOK, Alone, Entries,
     Filling, Holding, Locked, Reading
<1>7. InsertAtomic'
  BY DirConstantsOK DEF IInv, InsertAtomic, TypeOK, CallsOK, CellsApart,
     MutexOwned, Alone, Unused, Entries, Filling, Holding, Locked, Reading
<1>8. OneBlock'
  BY DirConstantsOK, BlockOfOK DEF IInv, OneBlock, TypeOK, CallsOK, Entries,
     Filling, Holding, Reading
<1>9. InBuffer'
  BY DirConstantsOK, BlockOfOK DEF IInv, InBuffer, TypeOK, CallsOK, Alone,
     OwnDir, OneBlock, Private, Entries, Filling, Holding, Reading
<1>10. CopiedRight'
  BY DirConstantsOK, BlockOfOK DEF IInv, CopiedRight, TypeOK, CallsOK,
     InBuffer, Private, Entries, Filling, Holding, Reading
<1>11. Unused' /\ HandedIntact' /\ OwnDir'
  BY DEF IInv, Unused, HandedIntact, OwnDir
<1> QED BY <1>1, <1>2, <1>3, <1>4, <1>5, <1>6, <1>7, <1>8, <1>9, <1>10, <1>11
   DEF IInv

LEMMA CopyInv ==
  ASSUME IInv, NEW t \in Threads, Copy(t)
  PROVE  IInv'
<1> USE DEF Copy, Malloc, native, stream
<1>1. TypeOK'
  BY DirConstantsOK, BlockOfOK DEF IInv, TypeOK, CallsOK, Labels, AtPointer,
     TORN, Entries, Filling, Holding, Reading
<1>2. CallsOK'
  BY DirConstantsOK DEF IInv, CallsOK, TypeOK, Alone, Entries, Filling,
     Holding, Reading
<1>3. Alone'
  BY DirConstantsOK DEF IInv, Alone, TypeOK, CallsOK, Labels, Locked,
     Entries, Filling, Holding, Reading
<1>4. CellsApart'
  BY DirConstantsOK DEF IInv, CellsApart, TypeOK, CallsOK, Unused,
     InsertAtomic, MutexOwned, Entries, Filling, Holding, Locked, Reading
<1>5. NoLeak'
  BY DirConstantsOK DEF IInv, NoLeak, TypeOK, CallsOK, Unused, InsertAtomic,
     CellsApart, MutexOwned, Entries, Filling, Holding, Locked, Reading
<1>6. MutexOwned'
  BY DirConstantsOK DEF IInv, MutexOwned, TypeOK, CallsOK, Alone, Entries,
     Filling, Holding, Locked, Reading
<1>7. InsertAtomic'
  BY DirConstantsOK DEF IInv, InsertAtomic, TypeOK, CallsOK, CellsApart,
     MutexOwned, Alone, Unused, Entries, Filling, Holding, Locked, Reading
<1>8. HandedIntact'
  BY DirConstantsOK DEF IInv, HandedIntact, TypeOK, CallsOK, Unused,
     InsertAtomic, CellsApart, Entries, Filling, Holding, Reading
<1>9. InBuffer'
  BY DirConstantsOK, BlockOfOK DEF IInv, InBuffer, TypeOK, CallsOK, Alone,
     OwnDir, OneBlock, Private, Entries, Filling, Holding, Reading
<1>10. CopiedRight'
  BY DirConstantsOK, BlockOfOK DEF IInv, CopiedRight, TypeOK, CallsOK,
     InBuffer, Private, AtPointer, Entries, Filling, Holding, Reading
<1>11. Unused' /\ OwnDir' /\ OneBlock'
  BY DEF IInv, Unused, OwnDir, OneBlock
<1> QED BY <1>1, <1>2, <1>3, <1>4, <1>5, <1>6, <1>7, <1>8, <1>9, <1>10, <1>11
   DEF IInv

LEMMA Copy_rInv ==
  ASSUME IInv, NEW t \in Threads, Copy_r(t)
  PROVE  IInv'
<1> USE DEF Copy_r, Leave, native, heap, stream
<1>1. TypeOK'
  BY DirConstantsOK, BlockOfOK DEF IInv, TypeOK, CallsOK, Labels, AtPointer,
     TORN, Entries, Filling, Holding, Reading
<1>2. CallsOK'
  BY DirConstantsOK DEF IInv, CallsOK, TypeOK, Alone, Entries, Filling,
     Holding, Reading
<1>3. Alone'
  BY DirConstantsOK DEF IInv, Alone, TypeOK, CallsOK, Labels, Locked,
     Entries, Filling, Holding, Reading
<1>4. CellsApart'
  BY DirConstantsOK DEF IInv, CellsApart, TypeOK, CallsOK, Unused,
     InsertAtomic, MutexOwned, Entries, Filling, Holding, Locked, Reading
<1>5. NoLeak'
  BY DirConstantsOK DEF IInv, NoLeak, TypeOK, CallsOK, Unused, InsertAtomic,
     CellsApart, MutexOwned, Entries, Filling, Holding, Locked, Reading
<1>6. MutexOwned'
  BY DirConstantsOK DEF IInv, MutexOwned, TypeOK, CallsOK, Alone, Entries,
     Filling, Holding, Locked, Reading
<1>7. InsertAtomic'
  BY DirConstantsOK DEF IInv, InsertAtomic, TypeOK, CallsOK, CellsApart,
     MutexOwned, Alone, Unused, Entries, Filling, Holding, Locked, Reading
<1>8. InBuffer'
  BY DirConstantsOK, BlockOfOK DEF IInv, InBuffer, TypeOK, CallsOK, Alone,
     OwnDir, OneBlock, Private, Entries, Filling, Holding, Reading
<1>9. CopiedRight'
  BY DirConstantsOK, BlockOfOK DEF IInv, CopiedRight, TypeOK, CallsOK,
     InBuffer, Private, AtPointer, Entries, Filling, Holding, Reading
<1>10. Unused' /\ HandedIntact' /\ OwnDir' /\ OneBlock'
  BY DEF IInv, Unused, HandedIntact, OwnDir, OneBlock
<1> QED BY <1>1, <1>2, <1>3, <1>4, <1>5, <1>6, <1>7, <1>8, <1>9, <1>10 DEF
   IInv

LEMMA LockInv ==
  ASSUME IInv, NEW t \in Threads, Lock(t)
  PROVE  IInv'
<1> USE DEF Lock, native, heap, stream, local
<1>1. TypeOK'
  BY DirConstantsOK, BlockOfOK DEF IInv, TypeOK, CallsOK, Labels, TORN,
     Entries, Filling, Holding, Reading
<1>2. CallsOK'
  BY DirConstantsOK DEF IInv, CallsOK, TypeOK, Alone, Entries, Filling,
     Holding, Reading
<1>3. Alone'
  BY DirConstantsOK DEF IInv, Alone, TypeOK, CallsOK, Labels, Locked,
     Entries, Filling, Holding, Reading
<1>4. CellsApart'
  BY DirConstantsOK DEF IInv, CellsApart, TypeOK, CallsOK, Unused,
     InsertAtomic, MutexOwned, Entries, Filling, Holding, Locked, Reading
<1>5. NoLeak'
  BY DirConstantsOK DEF IInv, NoLeak, TypeOK, CallsOK, Unused, InsertAtomic,
     CellsApart, MutexOwned, Entries, Filling, Holding, Locked, Reading
<1>6. MutexOwned'
  BY DirConstantsOK DEF IInv, MutexOwned, TypeOK, CallsOK, Alone, Entries,
     Filling, Holding, Locked, Reading
<1>7. InsertAtomic'
  BY DirConstantsOK DEF IInv, InsertAtomic, TypeOK, CallsOK, CellsApart,
     MutexOwned, Alone, Unused, Entries, Filling, Holding, Locked, Reading
<1>8. InBuffer'
  BY DirConstantsOK, BlockOfOK DEF IInv, InBuffer, TypeOK, CallsOK, Alone,
     OwnDir, OneBlock, Private, Entries, Filling, Holding, Reading
<1>9. CopiedRight'
  BY DirConstantsOK, BlockOfOK DEF IInv, CopiedRight, TypeOK, CallsOK,
     InBuffer, Private, Entries, Filling, Holding, Reading
<1>10. Unused' /\ HandedIntact' /\ OwnDir' /\ OneBlock'
  BY DEF IInv, Unused, HandedIntact, OwnDir, OneBlock
<1> QED BY <1>1, <1>2, <1>3, <1>4, <1>5, <1>6, <1>7, <1>8, <1>9, <1>10 DEF
   IInv

LEMMA LinkInv ==
  ASSUME IInv, NEW t \in Threads, Link(t)
  PROVE  IInv'
<1> USE DEF Link, native, heap, stream
<1>1. TypeOK'
  BY DirConstantsOK, BlockOfOK DEF IInv, TypeOK, CallsOK, Labels, TORN,
     Entries, Filling, Holding, Reading
<1>2. CallsOK'
  BY DirConstantsOK DEF IInv, CallsOK, TypeOK, Alone, Entries, Filling,
     Holding, Reading
<1>3. Alone'
  BY DirConstantsOK DEF IInv, Alone, TypeOK, CallsOK, Labels, Locked,
     Entries, Filling, Holding, Reading
<1>4. CellsApart'
  BY DirConstantsOK DEF IInv, CellsApart, TypeOK, CallsOK, Unused,
     InsertAtomic, MutexOwned, Entries, Filling, Holding, Locked, Reading
<1>5. NoLeak'
  BY DirConstantsOK DEF IInv, NoLeak, TypeOK, CallsOK, Unused, InsertAtomic,
     CellsApart, MutexOwned, Entries, Filling, Holding, Locked, Reading
<1>6. MutexOwned'
  BY DirConstantsOK DEF IInv, MutexOwned, TypeOK, CallsOK, Alone, Entries,
     Filling, Holding, Locked, Reading
<1>7. InsertAtomic'
  BY DirConstantsOK DEF IInv, InsertAtomic, TypeOK, CallsOK, CellsApart,
     MutexOwned, Alone, Unused, Entries, Filling, Holding, Locked, Reading
<1>8. InBuffer'
  BY DirConstantsOK, BlockOfOK DEF IInv, InBuffer, TypeOK, CallsOK, Alone,
     OwnDir, OneBlock, Private, Entries, Filling, Holding, Reading
<1>9. CopiedRight'
  BY DirConstantsOK, BlockOfOK DEF IInv, CopiedRight, TypeOK, CallsOK,
     InBuffer, Private, Entries, Filling, Holding, Reading
<1>10. Unused' /\ HandedIntact' /\ OwnDir' /\ OneBlock'
  BY DEF IInv, Unused, HandedIntact, OwnDir, OneBlock
<1> QED BY <1>1, <1>2, <1>3, <1>4, <1>5, <1>6, <1>7, <1>8, <1>9, <1>10 DEF
   IInv

LEMMA InsertInv ==
  ASSUME IInv, NEW t \in Threads, Insert(t)
  PROVE  IInv'
<1> USE DEF Insert, native, heap, stream, local
<1>1. TypeOK'
  BY DirConstantsOK, BlockOfOK DEF IInv, TypeOK, CallsOK, Labels, TORN,
     Entries, Filling, Holding, Reading
<1>2. CallsOK'
  BY DirConstantsOK DEF IInv, CallsOK, TypeOK, Alone, Entries, Filling,
     Holding, Reading
<1>3. Alone'
  BY DirConstantsOK DEF IInv, Alone, TypeOK, CallsOK, Labels, Locked,
     Entries, Filling, Holding, Reading
<1>4. Unused'
  BY DirConstantsOK DEF IInv, Unused, TypeOK, CallsOK, Alone, Entries,
     Filling, Holding, Reading
<1>5. CellsApart'
  BY DirConstantsOK DEF IInv, CellsApart, TypeOK, CallsOK, Unused,
     InsertAtomic, MutexOwned, Entries, Filling, Holding, Locked, Reading
<1>6. NoLeak'
  BY DirConstantsOK DEF IInv, NoLeak, TypeOK, CallsOK, Unused, InsertAtomic,
     CellsApart, MutexOwned, Entries, Filling, Holding, Locked, Reading
<1>7. MutexOwned'
  BY DirConstantsOK DEF IInv, MutexOwned, TypeOK, CallsOK, Alone, Entries,
     Filling, Holding, Locked, Reading
<1>8. InsertAtomic'
  BY DirConstantsOK DEF IInv, InsertAtomic, TypeOK, CallsOK, CellsApart,
     MutexOwned, Alone, Unused, Entries, Filling, Holding, Locked, Reading
<1>9. HandedIntact'
  BY DirConstantsOK DEF IInv, HandedIntact, TypeOK, CallsOK, Unused,
     InsertAtomic, CellsApart, Entries, Filling, Holding, Reading
<1>10. InBuffer'
  BY DirConstantsOK, BlockOfOK DEF IInv, InBuffer, TypeOK, CallsOK, Alone,
     OwnDir, OneBlock, Private, Entries, Filling, Holding, Reading
<1>11. CopiedRight'
  BY DirConstantsOK, BlockOfOK DEF IInv, CopiedRight, TypeOK, CallsOK,
     InBuffer, Private, Entries, Filling, Holding, Reading
<1>12. OwnDir' /\ OneBlock'
  BY DEF IInv, OwnDir, OneBlock
<1> QED BY <1>1, <1>2, <1>3, <1>4, <1>5, <1>6, <1>7, <1>8, <1>9, <1>10,
   <1>11, <1>12 DEF IInv

LEMMA UnlockInv ==
  ASSUME IInv, NEW t \in Threads, Unlock(t)
  PROVE  IInv'
<1> USE DEF Unlock, Return, Leave, native, heap, stream
<1>1. TypeOK'
  BY DirConstantsOK, BlockOfOK DEF IInv, TypeOK, CallsOK, Labels, TORN,
     Entries, Filling, Holding, Reading
<1>2. CallsOK'
  BY DirConstantsOK DEF IInv, CallsOK, TypeOK, Alone, Entries, Filling,
     Holding, Reading
<1>3. Alone'
  BY DirConstantsOK DEF IInv, Alone, TypeOK, CallsOK, Labels, Locked,
     Entries, Filling, Holding, Reading
<1>4. Unused'
  BY DirConstantsOK DEF IInv, Unused, TypeOK, CallsOK, Alone, Entries,
     Filling, Holding, Reading
<1>5. CellsApart'
  BY DirConstantsOK DEF IInv, CellsApart, TypeOK, CallsOK, Unused,
     InsertAtomic, MutexOwned, Entries, Filling, Holding, Locked, Reading
<1>6. NoLeak'
  BY DirConstantsOK DEF IInv, NoLeak, TypeOK, CallsOK, Unused, InsertAtomic,
     CellsApart, MutexOwned, Entries, Filling, Holding, Locked, Reading
<1>7. MutexOwned'
  BY DirConstantsOK DEF IInv, MutexOwned, TypeOK, CallsOK, Alone, Entries,
     Filling, Holding, Locked, Reading
<1>8. InsertAtomic'
  BY DirConstantsOK DEF IInv, InsertAtomic, TypeOK, CallsOK, CellsApart,
     MutexOwned, Alone, Unused, Entries, Filling, Holding, Locked, Reading
<1>9. HandedIntact'
  BY DirConstantsOK DEF IInv, HandedIntact, TypeOK, CallsOK, Unused,
     InsertAtomic, CellsApart, Entries, Filling, Holding, Reading
<1>10. InBuffer'
  BY DirConstantsOK, BlockOfOK DEF IInv, InBuffer, TypeOK, CallsOK, Alone,
     OwnDir, OneBlock, Private, Entries, Filling, Holding, Reading
<1>11. CopiedRight'
  BY DirConstantsOK, BlockOfOK DEF IInv, CopiedRight, TypeOK, CallsOK,
     InBuffer, Private, Entries, Filling, Holding, Reading
<1>12. OwnDir' /\ OneBlock'
  BY DEF IInv, OwnDir, OneBlock
<1> QED BY <1>1, <1>2, <1>3, <1>4, <1>5, <1>6, <1>7, <1>8, <1>9, <1>10,
   <1>11, <1>12 DEF IInv

LEMMA SeekdirInv ==
  ASSUME IInv, NEW t \in Threads, NEW s \in Streams, Seekdir(t, s)
  PROVE  IInv'
<1> USE DEF Seekdir, MayCall, InCall, heap, stream, local
<1>1. TypeOK'
  BY DirConstantsOK, BlockOfOK DEF IInv, TypeOK, CallsOK, Labels, TORN,
     Entries, Filling, Holding, Reading
<1>2. OneBlock'
  BY DirConstantsOK, BlockOfOK DEF IInv, OneBlock, TypeOK, CallsOK, Entries,
     Filling, Holding, Reading
<1>3. InBuffer'
  BY DirConstantsOK, BlockOfOK DEF IInv, InBuffer, TypeOK, CallsOK, Alone,
     OwnDir, OneBlock, Private, Entries, Filling, Holding, Reading
<1>4. CallsOK' /\ Alone' /\ Unused' /\ CellsApart' /\ NoLeak' /\ MutexOwned'
   /\ InsertAtomic' /\ HandedIntact' /\ OwnDir' /\ CopiedRight'
  BY DEF IInv, CallsOK, Alone, Unused, CellsApart, NoLeak, MutexOwned,
     InsertAtomic, HandedIntact, OwnDir, CopiedRight, Private
<1> QED BY <1>1, <1>2, <1>3, <1>4 DEF IInv

LEMMA UseNullDirInv ==
  ASSUME IInv, NEW t \in Threads, NEW s \in Streams, UseNullDir(t, s)
  PROVE  IInv'
<1> USE DEF UseNullDir, MayCall, InCall, native, heap, stream, local
<1>1. TypeOK'
  BY DirConstantsOK, BlockOfOK DEF IInv, TypeOK, CallsOK, Labels, TORN,
     Entries, Filling, Holding, Reading
<1>2. CallsOK' /\ Alone' /\ Unused' /\ CellsApart' /\ NoLeak' /\ MutexOwned'
   /\ InsertAtomic' /\ HandedIntact' /\ OwnDir' /\ OneBlock' /\ InBuffer' /\
   CopiedRight'
  BY DEF IInv, CallsOK, Alone, Unused, CellsApart, NoLeak, MutexOwned,
     InsertAtomic, HandedIntact, OwnDir, OneBlock, InBuffer, CopiedRight,
     Private
<1> QED BY <1>1, <1>2 DEF IInv

LEMMA ClosedirInv ==
  ASSUME IInv, NEW t \in Threads, NEW s \in Streams, Closedir(t, s)
  PROVE  IInv'
<1> USE DEF Closedir, MayCall, InCall, heap
<1>1. TypeOK'
  BY DirConstantsOK, BlockOfOK DEF IInv, TypeOK, CallsOK, Labels, TORN,
     Entries, Filling, Holding, Reading
<1>2. CallsOK'
  BY DirConstantsOK DEF IInv, CallsOK, TypeOK, Alone, Entries, Filling,
     Holding, Reading
<1>3. Alone'
  BY DirConstantsOK DEF IInv, Alone, TypeOK, CallsOK, Labels, Locked,
     Entries, Filling, Holding, Reading
<1>4. Unused'
  BY DirConstantsOK DEF IInv, Unused, TypeOK, CallsOK, Alone, Entries,
     Filling, Holding, Reading
<1>5. CellsApart'
  BY DirConstantsOK DEF IInv, CellsApart, TypeOK, CallsOK, Unused,
     InsertAtomic, MutexOwned, Entries, Filling, Holding, Locked, Reading
<1>6. NoLeak'
  BY DirConstantsOK DEF IInv, NoLeak, TypeOK, CallsOK, Unused, InsertAtomic,
     CellsApart, MutexOwned, Entries, Filling, Holding, Locked, Reading
<1>7. MutexOwned'
  BY DirConstantsOK DEF IInv, MutexOwned, TypeOK, CallsOK, Alone, Entries,
     Filling, Holding, Locked, Reading
<1>8. InsertAtomic'
  BY DirConstantsOK DEF IInv, InsertAtomic, TypeOK, CallsOK, CellsApart,
     MutexOwned, Alone, Unused, Entries, Filling, Holding, Locked, Reading
<1>9. HandedIntact'
  BY DirConstantsOK DEF IInv, HandedIntact, TypeOK, CallsOK, Unused,
     InsertAtomic, CellsApart, Entries, Filling, Holding, Reading
<1>10. OwnDir'
  BY DirConstantsOK DEF IInv, OwnDir, TypeOK, CallsOK, Entries, Filling,
     Holding, Reading
<1>11. OneBlock'
  BY DirConstantsOK, BlockOfOK DEF IInv, OneBlock, TypeOK, CallsOK, Entries,
     Filling, Holding, Reading
<1>12. InBuffer'
  BY DirConstantsOK, BlockOfOK DEF IInv, InBuffer, TypeOK, CallsOK, Alone,
     OwnDir, OneBlock, Private, Entries, Filling, Holding, Reading
<1>13. CopiedRight'
  BY DirConstantsOK, BlockOfOK DEF IInv, CopiedRight, TypeOK, CallsOK,
     InBuffer, Private, Entries, Filling, Holding, Reading
<1> QED BY <1>1, <1>2, <1>3, <1>4, <1>5, <1>6, <1>7, <1>8, <1>9, <1>10,
   <1>11, <1>12, <1>13 DEF IInv

LEMMA DestroyLockInv ==
  ASSUME IInv, NEW t \in Threads, DestroyLock(t)
  PROVE  IInv'
<1> USE DEF DestroyLock, native, heap, stream, local
<1>1. TypeOK'
  BY DirConstantsOK, BlockOfOK DEF IInv, TypeOK, CallsOK, Labels, TORN,
     Entries, Filling, Holding, Reading
<1>2. MutexOwned'
  BY DirConstantsOK DEF IInv, MutexOwned, TypeOK, CallsOK, Alone, Entries,
     Filling, Holding, Locked, Reading
<1>3. CallsOK' /\ Alone' /\ Unused' /\ CellsApart' /\ NoLeak' /\
   InsertAtomic' /\ HandedIntact' /\ OwnDir' /\ OneBlock' /\ InBuffer' /\
   CopiedRight'
  BY DEF IInv, CallsOK, Alone, Unused, CellsApart, NoLeak, InsertAtomic,
     HandedIntact, OwnDir, OneBlock, InBuffer, CopiedRight, Private
<1> QED BY <1>1, <1>2, <1>3 DEF IInv

LEMMA DestroyEntryInv ==
  ASSUME IInv, NEW t \in Threads, DestroyEntry(t)
  PROVE  IInv'
<1> USE DEF DestroyEntry, native, stream, local
<1>1. TypeOK'
  BY DirConstantsOK, BlockOfOK DEF IInv, TypeOK, CallsOK, Labels, TORN,
     Entries, Filling, Holding, Reading
<1>2. Unused'
  BY DirConstantsOK DEF IInv, Unused, TypeOK, CallsOK, Alone, Entries,
     Filling, Holding, Reading
<1>3. CellsApart'
  BY DirConstantsOK DEF IInv, CellsApart, TypeOK, CallsOK, Unused,
     InsertAtomic, MutexOwned, Entries, Filling, Holding, Locked, Reading
<1>4. NoLeak'
  BY DirConstantsOK DEF IInv, NoLeak, TypeOK, CallsOK, Unused, InsertAtomic,
     CellsApart, MutexOwned, Entries, Filling, Holding, Locked, Reading
<1>5. InsertAtomic'
  BY DirConstantsOK DEF IInv, InsertAtomic, TypeOK, CallsOK, CellsApart,
     MutexOwned, Alone, Unused, Entries, Filling, Holding, Locked, Reading
<1>6. HandedIntact'
  BY DirConstantsOK DEF IInv, HandedIntact, TypeOK, CallsOK, Unused,
     InsertAtomic, CellsApart, Entries, Filling, Holding, Reading
<1>7. CallsOK' /\ Alone' /\ MutexOwned' /\ OwnDir' /\ OneBlock' /\ InBuffer'
   /\ CopiedRight'
  BY DEF IInv, CallsOK, Alone, MutexOwned, OwnDir, OneBlock, InBuffer,
     CopiedRight, Private
<1> QED BY <1>1, <1>2, <1>3, <1>4, <1>5, <1>6, <1>7 DEF IInv

LEMMA DestroyDoneInv ==
  ASSUME IInv, NEW t \in Threads, DestroyDone(t)
  PROVE  IInv'
<1> USE DEF DestroyDone, Leave, native, heap
<1>1. TypeOK'
  BY DirConstantsOK, BlockOfOK DEF IInv, TypeOK, CallsOK, Labels, TORN,
     Entries, Filling, Holding, Reading
<1>2. CallsOK'
  BY DirConstantsOK DEF IInv, CallsOK, TypeOK, Alone, Entries, Filling,
     Holding, Reading
<1>3. Alone'
  BY DirConstantsOK DEF IInv, Alone, TypeOK, CallsOK, Labels, Locked,
     Entries, Filling, Holding, Reading
<1>4. Unused'
  BY DirConstantsOK DEF IInv, Unused, TypeOK, CallsOK, Alone, Entries,
     Filling, Holding, Reading
<1>5. CellsApart'
  BY DirConstantsOK DEF IInv, CellsApart, TypeOK, CallsOK, Unused,
     InsertAtomic, MutexOwned, Entries, Filling, Holding, Locked, Reading
<1>6. NoLeak'
  BY DirConstantsOK DEF IInv, NoLeak, TypeOK, CallsOK, Unused, InsertAtomic,
     CellsApart, MutexOwned, Entries, Filling, Holding, Locked, Reading
<1>7. MutexOwned'
  BY DirConstantsOK DEF IInv, MutexOwned, TypeOK, CallsOK, Alone, Entries,
     Filling, Holding, Locked, Reading
<1>8. InsertAtomic'
  BY DirConstantsOK DEF IInv, InsertAtomic, TypeOK, CallsOK, CellsApart,
     MutexOwned, Alone, Unused, Entries, Filling, Holding, Locked, Reading
<1>9. OwnDir'
  BY DirConstantsOK DEF IInv, OwnDir, TypeOK, CallsOK, Entries, Filling,
     Holding, Reading
<1>10. InBuffer'
  BY DirConstantsOK, BlockOfOK DEF IInv, InBuffer, TypeOK, CallsOK, Alone,
     OwnDir, OneBlock, Private, Entries, Filling, Holding, Reading
<1>11. CopiedRight'
  BY DirConstantsOK, BlockOfOK DEF IInv, CopiedRight, TypeOK, CallsOK,
     InBuffer, Private, Entries, Filling, Holding, Reading
<1>12. HandedIntact' /\ OneBlock'
  BY DEF IInv, HandedIntact, OneBlock
<1> QED BY <1>1, <1>2, <1>3, <1>4, <1>5, <1>6, <1>7, <1>8, <1>9, <1>10,
   <1>11, <1>12 DEF IInv

LEMMA NextInv == IInv /\ [Next]_vars => IInv'
<1>1. ASSUME IInv, NEW t \in Threads, Step(t) PROVE IInv'
  BY <1>1, CopyInv, Copy_rInv, LockInv, LinkInv, InsertInv, UnlockInv,
     DestroyLockInv, DestroyEntryInv, DestroyDoneInv DEF Step
<1>2. ASSUME IInv, NEW t \in Threads, NEW s \in Streams,
             \/ Opendir(t, s) \/ OpendirSysDevices(t, s)
             \/ Readdir(t, s) \/ Readdir_r(t, s) \/ Seekdir(t, s)
             \/ Closedir(t, s) \/ UseNullDir(t, s)
      PROVE IInv'
  BY <1>2, OpendirInv, OpendirSysDevicesInv, ReaddirInv, Readdir_rInv,
     SeekdirInv, ClosedirInv, UseNullDirInv
<1>3. ASSUME IInv, UNCHANGED vars PROVE IInv'
  BY <1>3 DEF IInv, TypeOK, CallsOK, Alone, Unused, CellsApart, NoLeak,
     MutexOwned, InsertAtomic, HandedIntact, OwnDir, OneBlock, InBuffer,
     CopiedRight, Private, vars, stream, native, heap, local
<1> QED BY <1>1, <1>2, <1>3 DEF Next

\* The invariant holds in every state of every behaviour.
THEOREM Inductive == Spec => []IInv
BY InitInv, NextInv, PTL DEF Spec

\* Whatever threads read, open and close, every entry in memory is reached
\* from its stream's list or about to be: closedir frees them all.
THEOREM NoLeakCorrect == Spec => []NoLeak
BY Inductive, PTL DEF IInv

\* What readdir returned is neither freed nor overwritten before closedir.
THEOREM HandedCorrect == Spec => []HandedIntact
BY Inductive, PTL DEF IInv

\* A stream that is read by one thread at a time, or that fits in one native
\* buffer, delivers the entries that the native readdir delivers.
THEOREM FaithfulCorrect == Spec => []Faithful
<1>1. IInv => Faithful
  <2> SUFFICES ASSUME IInv, NEW t \in Threads, Private(t), pc[t] \in Reading
               PROVE  AtPointer(t) = {entry[t]}
    BY DEF IInv, Faithful, CopiedRight
  <2>1. buffer[dir[tgt[t]]] = BlockOf(entry[t])
    BY DEF IInv, InBuffer
  <2>2. BlockOf(entry[t]) \in Int /\ entry[t] \in Int
    BY BlockOfOK DEF IInv, TypeOK
  <2>3. BlockOf(entry[t]) + (entry[t] - BlockOf(entry[t])) = entry[t]
    BY <2>2
  <2> QED BY <2>1, <2>3 DEF AtPointer
<1> QED BY <1>1, Inductive, PTL

=============================================================================
