--------------------------- MODULE LazyMutexProofs ---------------------------
(***************************************************************************)
(* The invariants of LazyMutex hold for any threads, mutexes and native    *)
(* addresses, whether or not native allocations fail.  IInv is inductive:  *)
(* one lemma per action, one step per conjunct that the action disturbs.   *)
(***************************************************************************)
EXTENDS LazyMutex, TLAPS

\* The translation of types is total, and the two routes to a native type
\* agree: a static initialiser of a type other than NORMAL gives the native
\* type that pthread_mutex_init would have given for it.
LEMMA KindsOK ==
  /\ \A k \in LinuxKinds : linux_to_native_mutex_kind(k) \in NativeKinds
  /\ \A k \in LinuxKinds \cup {DEFAULT} : KindForInit(k) \in NativeKinds
  /\ \A k \in LinuxKinds : StaticType(k) \in LinuxKinds \cup {DEFAULT}
  /\ \A k \in LinuxKinds :
       KindForInit(StaticType(k)) = IF k = LINUX_NORMAL
                                    THEN NATIVE_DEFAULT
                                    ELSE linux_to_native_mutex_kind(k)
  /\ FREE \notin NativeKinds /\ NATIVE_DEFAULT \in NativeKinds
BY DEF linux_to_native_mutex_kind, NativeKinds, LinuxKinds, KindForInit,
       StaticType, LINUX_NORMAL, LINUX_RECURSIVE, LINUX_ERRORCHECK,
       LINUX_ADAPTIVE_NP, NATIVE_ERRORCHECK, NATIVE_RECURSIVE, NATIVE_NORMAL,
       NATIVE_ADAPTIVE_NP, NATIVE_DEFAULT, DEFAULT, FREE

LEMMA InitInv == Init => IInv
<1> SUFFICES ASSUME Init PROVE IInv
  OBVIOUS
<1>1. TypeOK
  <2>1. linux_kind \in [Mutexes -> LinuxKinds] /\ ready \in SUBSET Mutexes
    BY ConstantsOK DEF Init
  <2>2. type \in [Mutexes -> LinuxKinds \cup {DEFAULT}]
    BY <2>1, KindsOK DEF Init
  <2>3. wrapped \in [Mutexes -> Objects \cup {NULL, DESTROYED}]
    BY DEF Init
  <2>4. 0 \in 0..MaxDepth /\ 0 \in Int
    BY ConstantsOK
  <2> QED BY <2>1, <2>2, <2>3, <2>4 DEF Init, TypeOK, Labels
<1>2. CallsOnReady /\ HeldIsReady /\ InitLockHeld /\ NullIsStatic
  BY ConstantsOK
     DEF Init, CallsOnReady, HeldIsReady, InitLockHeld, NullIsStatic,
         InitSection
<1>3. SlowPathIsTyped /\ InitIsFirst /\ EnterIsSafe /\ HandleIsOwn
      /\ SleepSaves
  BY DEF Init, SlowPathIsTyped, InitIsFirst, EnterIsSafe, HandleIsOwn,
         SleepSaves, InitSection
<1>4. \A m \in ready : wrapped[m] = NULL
  BY DEF Init
<1>5. ObjectsApart /\ OwnedIsCounted /\ KindIsChosen /\ OwnershipAgrees
  BY <1>4, ConstantsOK
     DEF Init, ObjectsApart, OwnedIsCounted, KindIsChosen, OwnershipAgrees,
         Sound
<1> QED BY <1>1, <1>2, <1>3, <1>5 DEF IInv

LEMMA MutexInitInv ==
  ASSUME IInv, NEW t \in Threads, NEW m \in Mutexes, NEW k \in AttrKinds,
         MutexInit(t, m, k)
  PROVE  IInv'
<1> USE DEF MutexInit, Unused, NativeInit, frame, fate
<1>1. TypeOK'
  BY ConstantsOK, KindsOK DEF IInv, TypeOK, OwnedIsCounted, HandleIsOwn,
     CallsOnReady
<1>2. CallsOnReady'
  BY ConstantsOK DEF IInv, CallsOnReady, TypeOK
<1>3. HeldIsReady'
  BY ConstantsOK DEF IInv, HeldIsReady, TypeOK, CallsOnReady
<1>4. NullIsStatic'
  BY ConstantsOK DEF IInv, NullIsStatic, TypeOK
<1>5. InitIsFirst'
  BY ConstantsOK DEF IInv, InitIsFirst, TypeOK, InitLockHeld,
     SlowPathIsTyped, EnterIsSafe, CallsOnReady, InitSection
<1>6. EnterIsSafe'
  BY ConstantsOK DEF IInv, EnterIsSafe, TypeOK, CallsOnReady
<1>7. ObjectsApart'
  BY ConstantsOK, KindsOK DEF IInv, ObjectsApart, TypeOK, CallsOnReady
<1>8. HandleIsOwn'
  BY ConstantsOK, KindsOK DEF IInv, HandleIsOwn, TypeOK, CallsOnReady,
     ObjectsApart, EnterIsSafe, InitIsFirst
<1>9. OwnedIsCounted'
  BY ConstantsOK DEF IInv, OwnedIsCounted, TypeOK, HandleIsOwn
<1>10. KindIsChosen'
  BY ConstantsOK, KindsOK DEF IInv, KindIsChosen, TypeOK, ObjectsApart,
     NullIsStatic, SlowPathIsTyped, InitIsFirst, EnterIsSafe, CallsOnReady,
     InitSection, Sound
<1>11. OwnershipAgrees'
  BY ConstantsOK DEF IInv, OwnershipAgrees, TypeOK, ObjectsApart,
     HandleIsOwn, HeldIsReady, OwnedIsCounted, CallsOnReady, InitIsFirst,
     EnterIsSafe, Sound
<1>12. InitLockHeld' /\ SlowPathIsTyped' /\ SleepSaves'
  BY DEF IInv, InitLockHeld, SlowPathIsTyped, SleepSaves
<1> QED BY <1>1, <1>2, <1>3, <1>4, <1>5, <1>6, <1>7, <1>8, <1>9, <1>10,
   <1>11, <1>12 DEF IInv

LEMMA MutexDestroyInv ==
  ASSUME IInv, NEW t \in Threads, NEW m \in Mutexes,
         MutexDestroy(t, m)
  PROVE  IInv'
<1> USE DEF MutexDestroy, Abort, AssertWrapped, NativeDestroy, Unused,
   memory, program, native, frame, fate
<1>1. TypeOK'
  <2>1. CASE ~AssertWrapped(m)
    BY <2>1 DEF IInv, TypeOK
  <2>2. CASE AssertWrapped(m)
    <3>1. wrapped' \in [Mutexes -> Objects \cup {NULL, DESTROYED}]
      BY <2>2 DEF IInv, TypeOK
    <3>2. objKind' \in [Objects -> NativeKinds \cup {FREE}]
      BY <2>2 DEF IInv, TypeOK
    <3>3. ready' \in SUBSET Mutexes
      BY <2>2 DEF IInv, TypeOK
    <3> QED BY <2>2, <3>1, <3>2, <3>3 DEF IInv, TypeOK
  <2> QED BY <2>1, <2>2
<1>2. CallsOnReady'
  BY ConstantsOK DEF IInv, CallsOnReady, TypeOK
<1>3. HeldIsReady'
  BY ConstantsOK DEF IInv, HeldIsReady, TypeOK, CallsOnReady
<1>4. NullIsStatic'
  BY ConstantsOK DEF IInv, NullIsStatic, TypeOK
<1>5. InitIsFirst'
  BY ConstantsOK DEF IInv, InitIsFirst, TypeOK, InitLockHeld,
     SlowPathIsTyped, EnterIsSafe, CallsOnReady, InitSection
<1>6. EnterIsSafe'
  BY ConstantsOK DEF IInv, EnterIsSafe, TypeOK, CallsOnReady
<1>7. ObjectsApart'
  BY ConstantsOK DEF IInv, ObjectsApart, TypeOK, CallsOnReady
<1>8. HandleIsOwn'
  BY ConstantsOK DEF IInv, HandleIsOwn, TypeOK, CallsOnReady, ObjectsApart,
     EnterIsSafe, InitIsFirst
<1>9. KindIsChosen'
  BY ConstantsOK DEF IInv, KindIsChosen, TypeOK, ObjectsApart, NullIsStatic,
     SlowPathIsTyped, InitIsFirst, EnterIsSafe, CallsOnReady, InitSection,
     Sound
<1>10. OwnershipAgrees'
  BY ConstantsOK DEF IInv, OwnershipAgrees, TypeOK, ObjectsApart,
     HandleIsOwn, HeldIsReady, OwnedIsCounted, CallsOnReady, InitIsFirst,
     EnterIsSafe, Sound
<1>11. InitLockHeld' /\ SlowPathIsTyped' /\ OwnedIsCounted' /\ SleepSaves'
  BY DEF IInv, InitLockHeld, SlowPathIsTyped, OwnedIsCounted, SleepSaves
<1> QED BY <1>1, <1>2, <1>3, <1>4, <1>5, <1>6, <1>7, <1>8, <1>9, <1>10, <1>11
   DEF IInv

LEMMA MutexUnlockInv ==
  ASSUME IInv, NEW t \in Threads, NEW m \in Mutexes,
         MutexUnlock(t, m)
  PROVE  IInv'
<1> USE DEF MutexUnlock, Abort, AssertWrapped, NativeUnlock, memory, program,
   native, frame, fate
<1>1. TypeOK'
  <2> DEFINE o == wrapped[m]
  <2>1. CASE wrapped[m] # NULL /\ o \in Objects /\ owner[o] = t
    <3>1. count[o] \in 1..MaxDepth
      BY <2>1, ConstantsOK DEF IInv, TypeOK, OwnedIsCounted
    <3>2. count' = [count EXCEPT ![o] = @ - 1]
      BY <2>1
    <3>3. count' \in [Objects -> 0..MaxDepth]
      BY <3>1, <3>2, <2>1, ConstantsOK DEF IInv, TypeOK
    <3>4. owner' \in [Objects -> Threads \cup {NoThread}]
      BY <2>1 DEF IInv, TypeOK
    <3>5. held' \in [Threads -> [Mutexes -> Int]]
      BY <2>1 DEF IInv, TypeOK
    <3> QED BY <2>1, <3>3, <3>4, <3>5 DEF IInv, TypeOK
  <2>2. CASE ~(wrapped[m] # NULL /\ o \in Objects /\ owner[o] = t)
    BY <2>2 DEF IInv, TypeOK
  <2> QED BY <2>1, <2>2
<1>2. HeldIsReady'
  <2>1. m \in ready /\ ready' = ready
    OBVIOUS
  <2>2. \A u \in Threads : \A n \in Mutexes :
          n # m => held'[u][n] = held[u][n]
    BY DEF IInv, TypeOK
  <2> QED BY <2>1, <2>2 DEF IInv, HeldIsReady
<1>3. OwnedIsCounted'
  BY ConstantsOK DEF IInv, OwnedIsCounted, TypeOK, HandleIsOwn
<1>4. OwnershipAgrees'
  BY ConstantsOK DEF IInv, OwnershipAgrees, TypeOK, ObjectsApart,
     HandleIsOwn, HeldIsReady, OwnedIsCounted, CallsOnReady, InitIsFirst,
     EnterIsSafe, Sound
<1>5. CallsOnReady' /\ InitLockHeld' /\ NullIsStatic' /\ SlowPathIsTyped' /\
   InitIsFirst' /\ EnterIsSafe' /\ ObjectsApart' /\ HandleIsOwn' /\
   SleepSaves' /\ KindIsChosen'
  BY DEF IInv, CallsOnReady, InitLockHeld, NullIsStatic, SlowPathIsTyped,
     InitIsFirst, EnterIsSafe, ObjectsApart, HandleIsOwn, SleepSaves,
     KindIsChosen, Sound
<1> QED BY <1>1, <1>2, <1>3, <1>4, <1>5 DEF IInv

LEMMA CallInv ==
  ASSUME IInv, NEW t \in Threads, NEW m \in Mutexes, NEW o \in Ops,
         Call(t, m, o)
  PROVE  IInv'
<1> USE DEF Call, Goto, memory, program, native, fate
<1>1. TypeOK'
  BY ConstantsOK DEF IInv, TypeOK, OwnedIsCounted, HandleIsOwn, CallsOnReady,
     Labels, Ops
<1>2. CallsOnReady'
  BY ConstantsOK DEF IInv, CallsOnReady, TypeOK
<1>3. InitLockHeld'
  BY ConstantsOK DEF IInv, InitLockHeld, TypeOK, InitSection
<1>4. SlowPathIsTyped'
  BY ConstantsOK DEF IInv, SlowPathIsTyped, TypeOK, CallsOnReady, InitSection
<1>5. InitIsFirst'
  BY ConstantsOK DEF IInv, InitIsFirst, TypeOK, InitLockHeld,
     SlowPathIsTyped, EnterIsSafe, CallsOnReady, InitSection
<1>6. EnterIsSafe'
  BY ConstantsOK DEF IInv, EnterIsSafe, TypeOK, CallsOnReady
<1>7. HandleIsOwn'
  BY ConstantsOK DEF IInv, HandleIsOwn, TypeOK, CallsOnReady, ObjectsApart,
     EnterIsSafe, InitIsFirst
<1>8. SleepSaves'
  BY ConstantsOK DEF IInv, SleepSaves, TypeOK, OwnedIsCounted, HandleIsOwn
<1>9. HeldIsReady' /\ NullIsStatic' /\ ObjectsApart' /\ OwnedIsCounted' /\
   KindIsChosen' /\ OwnershipAgrees'
  BY DEF IInv, HeldIsReady, NullIsStatic, ObjectsApart, OwnedIsCounted,
     KindIsChosen, OwnershipAgrees, Sound
<1> QED BY <1>1, <1>2, <1>3, <1>4, <1>5, <1>6, <1>7, <1>8, <1>9 DEF IInv

LEMMA CheckInv ==
  ASSUME IInv, NEW t \in Threads, Check(t)
  PROVE  IInv'
<1> USE DEF Check, Goto, memory, program, native, frame, fate
<1>1. TypeOK'
  BY ConstantsOK DEF IInv, TypeOK, OwnedIsCounted, HandleIsOwn, CallsOnReady,
     Labels, Ops
<1>2. CallsOnReady'
  BY ConstantsOK DEF IInv, CallsOnReady, TypeOK
<1>3. InitLockHeld'
  BY ConstantsOK DEF IInv, InitLockHeld, TypeOK, InitSection
<1>4. SlowPathIsTyped'
  BY ConstantsOK DEF IInv, SlowPathIsTyped, TypeOK, CallsOnReady, InitSection
<1>5. InitIsFirst'
  BY ConstantsOK DEF IInv, InitIsFirst, TypeOK, InitLockHeld,
     SlowPathIsTyped, EnterIsSafe, CallsOnReady, InitSection
<1>6. EnterIsSafe'
  BY ConstantsOK DEF IInv, EnterIsSafe, TypeOK, CallsOnReady
<1>7. HandleIsOwn'
  BY ConstantsOK DEF IInv, HandleIsOwn, TypeOK, CallsOnReady, ObjectsApart,
     EnterIsSafe, InitIsFirst
<1>8. SleepSaves'
  BY ConstantsOK DEF IInv, SleepSaves, TypeOK, OwnedIsCounted, HandleIsOwn
<1>9. HeldIsReady' /\ NullIsStatic' /\ ObjectsApart' /\ OwnedIsCounted' /\
   KindIsChosen' /\ OwnershipAgrees'
  BY DEF IInv, HeldIsReady, NullIsStatic, ObjectsApart, OwnedIsCounted,
     KindIsChosen, OwnershipAgrees, Sound
<1> QED BY <1>1, <1>2, <1>3, <1>4, <1>5, <1>6, <1>7, <1>8, <1>9 DEF IInv

LEMMA AcquireInitLockInv ==
  ASSUME IInv, NEW t \in Threads, AcquireInitLock(t)
  PROVE  IInv'
<1> USE DEF AcquireInitLock, Goto, memory, program, native, frame, fate
<1>1. TypeOK'
  BY ConstantsOK DEF IInv, TypeOK, OwnedIsCounted, HandleIsOwn, CallsOnReady,
     Labels, Ops
<1>2. CallsOnReady'
  BY ConstantsOK DEF IInv, CallsOnReady, TypeOK
<1>3. InitLockHeld'
  BY ConstantsOK DEF IInv, InitLockHeld, TypeOK, InitSection
<1>4. SlowPathIsTyped'
  BY ConstantsOK DEF IInv, SlowPathIsTyped, TypeOK, CallsOnReady, InitSection
<1>5. InitIsFirst'
  BY ConstantsOK DEF IInv, InitIsFirst, TypeOK, InitLockHeld,
     SlowPathIsTyped, EnterIsSafe, CallsOnReady, InitSection
<1>6. EnterIsSafe'
  BY ConstantsOK DEF IInv, EnterIsSafe, TypeOK, CallsOnReady
<1>7. HandleIsOwn'
  BY ConstantsOK DEF IInv, HandleIsOwn, TypeOK, CallsOnReady, ObjectsApart,
     EnterIsSafe, InitIsFirst
<1>8. SleepSaves'
  BY ConstantsOK DEF IInv, SleepSaves, TypeOK, OwnedIsCounted, HandleIsOwn
<1>9. HeldIsReady' /\ NullIsStatic' /\ ObjectsApart' /\ OwnedIsCounted' /\
   KindIsChosen' /\ OwnershipAgrees'
  BY DEF IInv, HeldIsReady, NullIsStatic, ObjectsApart, OwnedIsCounted,
     KindIsChosen, OwnershipAgrees, Sound
<1> QED BY <1>1, <1>2, <1>3, <1>4, <1>5, <1>6, <1>7, <1>8, <1>9 DEF IInv

LEMMA RecheckInv ==
  ASSUME IInv, NEW t \in Threads, Recheck(t)
  PROVE  IInv'
<1> USE DEF Recheck, Goto, memory, program, native, frame, fate
<1>1. TypeOK'
  BY ConstantsOK DEF IInv, TypeOK, OwnedIsCounted, HandleIsOwn, CallsOnReady,
     Labels, Ops
<1>2. CallsOnReady'
  BY ConstantsOK DEF IInv, CallsOnReady, TypeOK
<1>3. InitLockHeld'
  BY ConstantsOK DEF IInv, InitLockHeld, TypeOK, InitSection
<1>4. SlowPathIsTyped'
  BY ConstantsOK DEF IInv, SlowPathIsTyped, TypeOK, CallsOnReady, InitSection
<1>5. InitIsFirst'
  BY ConstantsOK DEF IInv, InitIsFirst, TypeOK, InitLockHeld,
     SlowPathIsTyped, EnterIsSafe, CallsOnReady, InitSection
<1>6. EnterIsSafe'
  BY ConstantsOK DEF IInv, EnterIsSafe, TypeOK, CallsOnReady
<1>7. HandleIsOwn'
  BY ConstantsOK DEF IInv, HandleIsOwn, TypeOK, CallsOnReady, ObjectsApart,
     EnterIsSafe, InitIsFirst
<1>8. SleepSaves'
  BY ConstantsOK DEF IInv, SleepSaves, TypeOK, OwnedIsCounted, HandleIsOwn
<1>9. HeldIsReady' /\ NullIsStatic' /\ ObjectsApart' /\ OwnedIsCounted' /\
   KindIsChosen' /\ OwnershipAgrees'
  BY DEF IInv, HeldIsReady, NullIsStatic, ObjectsApart, OwnedIsCounted,
     KindIsChosen, OwnershipAgrees, Sound
<1> QED BY <1>1, <1>2, <1>3, <1>4, <1>5, <1>6, <1>7, <1>8, <1>9 DEF IInv

LEMMA LazyInitInv ==
  ASSUME IInv, NEW t \in Threads, LazyInit(t)
  PROVE  IInv'
<1> USE DEF LazyInit, NativeInit, Goto, program, frame, fate
<1>1. TypeOK'
  BY ConstantsOK, KindsOK DEF IInv, TypeOK, OwnedIsCounted, HandleIsOwn,
     CallsOnReady, Labels, Ops
<1>2. CallsOnReady'
  BY ConstantsOK DEF IInv, CallsOnReady, TypeOK
<1>3. InitLockHeld'
  BY ConstantsOK DEF IInv, InitLockHeld, TypeOK, InitSection
<1>4. NullIsStatic'
  BY ConstantsOK DEF IInv, NullIsStatic, TypeOK
<1>5. SlowPathIsTyped'
  BY ConstantsOK DEF IInv, SlowPathIsTyped, TypeOK, CallsOnReady, InitSection
<1>6. InitIsFirst'
  BY ConstantsOK DEF IInv, InitIsFirst, TypeOK, InitLockHeld,
     SlowPathIsTyped, EnterIsSafe, CallsOnReady, InitSection
<1>7. EnterIsSafe'
  BY ConstantsOK DEF IInv, EnterIsSafe, TypeOK, CallsOnReady
<1>8. ObjectsApart'
  BY ConstantsOK, KindsOK DEF IInv, ObjectsApart, TypeOK, CallsOnReady
<1>9. HandleIsOwn'
  BY ConstantsOK, KindsOK DEF IInv, HandleIsOwn, TypeOK, CallsOnReady,
     ObjectsApart, EnterIsSafe, InitIsFirst
<1>10. OwnedIsCounted'
  BY ConstantsOK DEF IInv, OwnedIsCounted, TypeOK, HandleIsOwn
<1>11. SleepSaves'
  BY ConstantsOK DEF IInv, SleepSaves, TypeOK, OwnedIsCounted, HandleIsOwn
<1>12. KindIsChosen'
  BY ConstantsOK, KindsOK DEF IInv, KindIsChosen, TypeOK, ObjectsApart,
     NullIsStatic, SlowPathIsTyped, InitIsFirst, EnterIsSafe, CallsOnReady,
     InitSection, Sound
<1>13. OwnershipAgrees'
  BY ConstantsOK DEF IInv, OwnershipAgrees, TypeOK, ObjectsApart,
     HandleIsOwn, HeldIsReady, OwnedIsCounted, CallsOnReady, InitIsFirst,
     EnterIsSafe, Sound
<1>14. HeldIsReady'
  BY DEF IInv, HeldIsReady
<1> QED BY <1>1, <1>2, <1>3, <1>4, <1>5, <1>6, <1>7, <1>8, <1>9, <1>10,
   <1>11, <1>12, <1>13, <1>14 DEF IInv

LEMMA LazyInitFailsInv ==
  ASSUME IInv, NEW t \in Threads, LazyInitFails(t)
  PROVE  IInv'
<1> USE DEF LazyInitFails, Goto, memory, program, native, frame
<1>1. TypeOK'
  BY ConstantsOK DEF IInv, TypeOK, OwnedIsCounted, HandleIsOwn, CallsOnReady,
     Labels, Ops
<1>2. CallsOnReady'
  BY ConstantsOK DEF IInv, CallsOnReady, TypeOK
<1>3. InitLockHeld'
  BY ConstantsOK DEF IInv, InitLockHeld, TypeOK, InitSection
<1>4. SlowPathIsTyped'
  BY ConstantsOK DEF IInv, SlowPathIsTyped, TypeOK, CallsOnReady, InitSection
<1>5. InitIsFirst'
  BY ConstantsOK DEF IInv, InitIsFirst, TypeOK, InitLockHeld,
     SlowPathIsTyped, EnterIsSafe, CallsOnReady, InitSection
<1>6. EnterIsSafe'
  BY ConstantsOK DEF IInv, EnterIsSafe, TypeOK, CallsOnReady
<1>7. HandleIsOwn'
  BY ConstantsOK DEF IInv, HandleIsOwn, TypeOK, CallsOnReady, ObjectsApart,
     EnterIsSafe, InitIsFirst
<1>8. SleepSaves'
  BY ConstantsOK DEF IInv, SleepSaves, TypeOK, OwnedIsCounted, HandleIsOwn
<1>9. KindIsChosen'
  BY ConstantsOK DEF IInv, KindIsChosen, TypeOK, ObjectsApart, NullIsStatic,
     SlowPathIsTyped, InitIsFirst, EnterIsSafe, CallsOnReady, InitSection,
     Sound
<1>10. OwnershipAgrees'
  BY ConstantsOK DEF IInv, OwnershipAgrees, TypeOK, ObjectsApart,
     HandleIsOwn, HeldIsReady, OwnedIsCounted, CallsOnReady, InitIsFirst,
     EnterIsSafe, Sound
<1>11. HeldIsReady' /\ NullIsStatic' /\ ObjectsApart' /\ OwnedIsCounted'
  BY DEF IInv, HeldIsReady, NullIsStatic, ObjectsApart, OwnedIsCounted
<1> QED BY <1>1, <1>2, <1>3, <1>4, <1>5, <1>6, <1>7, <1>8, <1>9, <1>10, <1>11
   DEF IInv

LEMMA ReleaseInitLockInv ==
  ASSUME IInv, NEW t \in Threads, ReleaseInitLock(t)
  PROVE  IInv'
<1> USE DEF ReleaseInitLock, Goto, memory, program, native, frame, fate
<1>1. TypeOK'
  BY ConstantsOK DEF IInv, TypeOK, OwnedIsCounted, HandleIsOwn, CallsOnReady,
     Labels, Ops
<1>2. CallsOnReady'
  BY ConstantsOK DEF IInv, CallsOnReady, TypeOK
<1>3. InitLockHeld'
  BY ConstantsOK DEF IInv, InitLockHeld, TypeOK, InitSection
<1>4. SlowPathIsTyped'
  BY ConstantsOK DEF IInv, SlowPathIsTyped, TypeOK, CallsOnReady, InitSection
<1>5. InitIsFirst'
  BY ConstantsOK DEF IInv, InitIsFirst, TypeOK, InitLockHeld,
     SlowPathIsTyped, EnterIsSafe, CallsOnReady, InitSection
<1>6. EnterIsSafe'
  BY ConstantsOK DEF IInv, EnterIsSafe, TypeOK, CallsOnReady
<1>7. HandleIsOwn'
  BY ConstantsOK DEF IInv, HandleIsOwn, TypeOK, CallsOnReady, ObjectsApart,
     EnterIsSafe, InitIsFirst
<1>8. SleepSaves'
  BY ConstantsOK DEF IInv, SleepSaves, TypeOK, OwnedIsCounted, HandleIsOwn
<1>9. HeldIsReady' /\ NullIsStatic' /\ ObjectsApart' /\ OwnedIsCounted' /\
   KindIsChosen' /\ OwnershipAgrees'
  BY DEF IInv, HeldIsReady, NullIsStatic, ObjectsApart, OwnedIsCounted,
     KindIsChosen, OwnershipAgrees, Sound
<1> QED BY <1>1, <1>2, <1>3, <1>4, <1>5, <1>6, <1>7, <1>8, <1>9 DEF IInv

LEMMA NativeStaticInitInv ==
  ASSUME IInv, NEW t \in Threads, NativeStaticInit(t)
  PROVE  IInv'
<1> USE DEF NativeStaticInit, NativeInit, program, frame, fate
<1>1. TypeOK'
  BY ConstantsOK, KindsOK DEF IInv, TypeOK, OwnedIsCounted, HandleIsOwn,
     CallsOnReady
<1>2. NullIsStatic'
  BY ConstantsOK DEF IInv, NullIsStatic, TypeOK
<1>3. InitIsFirst'
  BY ConstantsOK DEF IInv, InitIsFirst, TypeOK, InitLockHeld,
     SlowPathIsTyped, EnterIsSafe, CallsOnReady, InitSection
<1>4. EnterIsSafe'
  BY ConstantsOK DEF IInv, EnterIsSafe, TypeOK, CallsOnReady
<1>5. ObjectsApart'
  BY ConstantsOK, KindsOK DEF IInv, ObjectsApart, TypeOK, CallsOnReady
<1>6. HandleIsOwn'
  BY ConstantsOK, KindsOK DEF IInv, HandleIsOwn, TypeOK, CallsOnReady,
     ObjectsApart, EnterIsSafe, InitIsFirst
<1>7. OwnedIsCounted'
  BY ConstantsOK DEF IInv, OwnedIsCounted, TypeOK, HandleIsOwn
<1>8. KindIsChosen'
  BY ConstantsOK, KindsOK DEF IInv, KindIsChosen, TypeOK, ObjectsApart,
     NullIsStatic, SlowPathIsTyped, InitIsFirst, EnterIsSafe, CallsOnReady,
     InitSection, Sound
<1>9. OwnershipAgrees'
  BY ConstantsOK DEF IInv, OwnershipAgrees, TypeOK, ObjectsApart,
     HandleIsOwn, HeldIsReady, OwnedIsCounted, CallsOnReady, InitIsFirst,
     EnterIsSafe, Sound
<1>10. CallsOnReady' /\ HeldIsReady' /\ InitLockHeld' /\ SlowPathIsTyped' /\
   SleepSaves'
  BY DEF IInv, CallsOnReady, HeldIsReady, InitLockHeld, SlowPathIsTyped,
     SleepSaves
<1> QED BY <1>1, <1>2, <1>3, <1>4, <1>5, <1>6, <1>7, <1>8, <1>9, <1>10 DEF
   IInv

LEMMA NativeStaticInitFailsInv ==
  ASSUME IInv, NEW t \in Threads, NativeStaticInitFails(t)
  PROVE  IInv'
<1> USE DEF NativeStaticInitFails, Return, Goto, memory, program, native,
   fate
<1>1. TypeOK'
  BY ConstantsOK DEF IInv, TypeOK, OwnedIsCounted, HandleIsOwn, CallsOnReady,
     Labels, Ops
<1>2. CallsOnReady'
  BY ConstantsOK DEF IInv, CallsOnReady, TypeOK
<1>3. InitLockHeld'
  BY ConstantsOK DEF IInv, InitLockHeld, TypeOK, InitSection
<1>4. SlowPathIsTyped'
  BY ConstantsOK DEF IInv, SlowPathIsTyped, TypeOK, CallsOnReady, InitSection
<1>5. InitIsFirst'
  BY ConstantsOK DEF IInv, InitIsFirst, TypeOK, InitLockHeld,
     SlowPathIsTyped, EnterIsSafe, CallsOnReady, InitSection
<1>6. EnterIsSafe'
  BY ConstantsOK DEF IInv, EnterIsSafe, TypeOK, CallsOnReady
<1>7. HandleIsOwn'
  BY ConstantsOK DEF IInv, HandleIsOwn, TypeOK, CallsOnReady, ObjectsApart,
     EnterIsSafe, InitIsFirst
<1>8. SleepSaves'
  BY ConstantsOK DEF IInv, SleepSaves, TypeOK, OwnedIsCounted, HandleIsOwn
<1>9. HeldIsReady' /\ NullIsStatic' /\ ObjectsApart' /\ OwnedIsCounted' /\
   KindIsChosen' /\ OwnershipAgrees'
  BY DEF IInv, HeldIsReady, NullIsStatic, ObjectsApart, OwnedIsCounted,
     KindIsChosen, OwnershipAgrees, Sound
<1> QED BY <1>1, <1>2, <1>3, <1>4, <1>5, <1>6, <1>7, <1>8, <1>9 DEF IInv

LEMMA NativeEnterInv ==
  ASSUME IInv, NEW t \in Threads, NativeEnter(t)
  PROVE  IInv'
<1> USE DEF NativeEnter, Goto, memory, program, native, fate
<1>1. TypeOK'
  BY ConstantsOK DEF IInv, TypeOK, OwnedIsCounted, HandleIsOwn, CallsOnReady,
     Labels, Ops
<1>2. CallsOnReady'
  BY ConstantsOK DEF IInv, CallsOnReady, TypeOK
<1>3. InitLockHeld'
  BY ConstantsOK DEF IInv, InitLockHeld, TypeOK, InitSection
<1>4. SlowPathIsTyped'
  BY ConstantsOK DEF IInv, SlowPathIsTyped, TypeOK, CallsOnReady, InitSection
<1>5. InitIsFirst'
  BY ConstantsOK DEF IInv, InitIsFirst, TypeOK, InitLockHeld,
     SlowPathIsTyped, EnterIsSafe, CallsOnReady, InitSection
<1>6. EnterIsSafe'
  BY ConstantsOK DEF IInv, EnterIsSafe, TypeOK, CallsOnReady
<1>7. HandleIsOwn'
  BY ConstantsOK DEF IInv, HandleIsOwn, TypeOK, CallsOnReady, ObjectsApart,
     EnterIsSafe, InitIsFirst
<1>8. SleepSaves'
  BY ConstantsOK DEF IInv, SleepSaves, TypeOK, OwnedIsCounted, HandleIsOwn
<1>9. HeldIsReady' /\ NullIsStatic' /\ ObjectsApart' /\ OwnedIsCounted' /\
   KindIsChosen' /\ OwnershipAgrees'
  BY DEF IInv, HeldIsReady, NullIsStatic, ObjectsApart, OwnedIsCounted,
     KindIsChosen, OwnershipAgrees, Sound
<1> QED BY <1>1, <1>2, <1>3, <1>4, <1>5, <1>6, <1>7, <1>8, <1>9 DEF IInv

LEMMA NativeAcquireInv ==
  ASSUME IInv, NEW t \in Threads, NativeAcquire(t)
  PROVE  IInv'
<1> USE DEF NativeAcquire, Return, Goto, memory, fate
<1>1. TypeOK'
  BY ConstantsOK DEF IInv, TypeOK, OwnedIsCounted, HandleIsOwn, CallsOnReady,
     Labels, Ops
<1>2. CallsOnReady'
  BY ConstantsOK DEF IInv, CallsOnReady, TypeOK
<1>3. HeldIsReady'
  BY ConstantsOK DEF IInv, HeldIsReady, TypeOK, CallsOnReady
<1>4. InitLockHeld'
  BY ConstantsOK DEF IInv, InitLockHeld, TypeOK, InitSection
<1>5. SlowPathIsTyped'
  BY ConstantsOK DEF IInv, SlowPathIsTyped, TypeOK, CallsOnReady, InitSection
<1>6. InitIsFirst'
  BY ConstantsOK DEF IInv, InitIsFirst, TypeOK, InitLockHeld,
     SlowPathIsTyped, EnterIsSafe, CallsOnReady, InitSection
<1>7. EnterIsSafe'
  BY ConstantsOK DEF IInv, EnterIsSafe, TypeOK, CallsOnReady
<1>8. HandleIsOwn'
  BY ConstantsOK DEF IInv, HandleIsOwn, TypeOK, CallsOnReady, ObjectsApart,
     EnterIsSafe, InitIsFirst
<1>9. OwnedIsCounted'
  BY ConstantsOK DEF IInv, OwnedIsCounted, TypeOK, HandleIsOwn
<1>10. SleepSaves'
  BY ConstantsOK DEF IInv, SleepSaves, TypeOK, OwnedIsCounted, HandleIsOwn
<1>11. OwnershipAgrees'
  BY ConstantsOK DEF IInv, OwnershipAgrees, TypeOK, ObjectsApart,
     HandleIsOwn, HeldIsReady, OwnedIsCounted, CallsOnReady, InitIsFirst,
     EnterIsSafe, Sound
<1>12. NullIsStatic' /\ ObjectsApart' /\ KindIsChosen'
  BY DEF IInv, NullIsStatic, ObjectsApart, KindIsChosen, Sound
<1> QED BY <1>1, <1>2, <1>3, <1>4, <1>5, <1>6, <1>7, <1>8, <1>9, <1>10,
   <1>11, <1>12 DEF IInv

LEMMA NativeRelockInv ==
  ASSUME IInv, NEW t \in Threads, NativeRelock(t)
  PROVE  IInv'
<1> USE DEF NativeRelock, CanRelock, Return, Goto, memory, fate
<1>1. TypeOK'
  BY ConstantsOK DEF IInv, TypeOK, OwnedIsCounted, HandleIsOwn, CallsOnReady,
     Labels, Ops
<1>2. CallsOnReady'
  BY ConstantsOK DEF IInv, CallsOnReady, TypeOK
<1>3. HeldIsReady'
  BY ConstantsOK DEF IInv, HeldIsReady, TypeOK, CallsOnReady
<1>4. InitLockHeld'
  BY ConstantsOK DEF IInv, InitLockHeld, TypeOK, InitSection
<1>5. SlowPathIsTyped'
  BY ConstantsOK DEF IInv, SlowPathIsTyped, TypeOK, CallsOnReady, InitSection
<1>6. InitIsFirst'
  BY ConstantsOK DEF IInv, InitIsFirst, TypeOK, InitLockHeld,
     SlowPathIsTyped, EnterIsSafe, CallsOnReady, InitSection
<1>7. EnterIsSafe'
  BY ConstantsOK DEF IInv, EnterIsSafe, TypeOK, CallsOnReady
<1>8. HandleIsOwn'
  BY ConstantsOK DEF IInv, HandleIsOwn, TypeOK, CallsOnReady, ObjectsApart,
     EnterIsSafe, InitIsFirst
<1>9. OwnedIsCounted'
  BY ConstantsOK DEF IInv, OwnedIsCounted, TypeOK, HandleIsOwn
<1>10. SleepSaves'
  BY ConstantsOK DEF IInv, SleepSaves, TypeOK, OwnedIsCounted, HandleIsOwn
<1>11. OwnershipAgrees'
  BY ConstantsOK DEF IInv, OwnershipAgrees, TypeOK, ObjectsApart,
     HandleIsOwn, HeldIsReady, OwnedIsCounted, CallsOnReady, InitIsFirst,
     EnterIsSafe, Sound
<1>12. NullIsStatic' /\ ObjectsApart' /\ KindIsChosen'
  BY DEF IInv, NullIsStatic, ObjectsApart, KindIsChosen, Sound
<1> QED BY <1>1, <1>2, <1>3, <1>4, <1>5, <1>6, <1>7, <1>8, <1>9, <1>10,
   <1>11, <1>12 DEF IInv

LEMMA NativeRefuseInv ==
  ASSUME IInv, NEW t \in Threads, NativeRefuse(t)
  PROVE  IInv'
<1> USE DEF NativeRefuse, CanRelock, Return, Goto, memory, program, native,
   fate
<1>1. TypeOK'
  BY ConstantsOK DEF IInv, TypeOK, OwnedIsCounted, HandleIsOwn, CallsOnReady,
     Labels, Ops
<1>2. CallsOnReady'
  BY ConstantsOK DEF IInv, CallsOnReady, TypeOK
<1>3. InitLockHeld'
  BY ConstantsOK DEF IInv, InitLockHeld, TypeOK, InitSection
<1>4. SlowPathIsTyped'
  BY ConstantsOK DEF IInv, SlowPathIsTyped, TypeOK, CallsOnReady, InitSection
<1>5. InitIsFirst'
  BY ConstantsOK DEF IInv, InitIsFirst, TypeOK, InitLockHeld,
     SlowPathIsTyped, EnterIsSafe, CallsOnReady, InitSection
<1>6. EnterIsSafe'
  BY ConstantsOK DEF IInv, EnterIsSafe, TypeOK, CallsOnReady
<1>7. HandleIsOwn'
  BY ConstantsOK DEF IInv, HandleIsOwn, TypeOK, CallsOnReady, ObjectsApart,
     EnterIsSafe, InitIsFirst
<1>8. SleepSaves'
  BY ConstantsOK DEF IInv, SleepSaves, TypeOK, OwnedIsCounted, HandleIsOwn
<1>9. HeldIsReady' /\ NullIsStatic' /\ ObjectsApart' /\ OwnedIsCounted' /\
   KindIsChosen' /\ OwnershipAgrees'
  BY DEF IInv, HeldIsReady, NullIsStatic, ObjectsApart, OwnedIsCounted,
     KindIsChosen, OwnershipAgrees, Sound
<1> QED BY <1>1, <1>2, <1>3, <1>4, <1>5, <1>6, <1>7, <1>8, <1>9 DEF IInv

LEMMA NativeWaitRefusedInv ==
  ASSUME IInv, NEW t \in Threads, NativeWaitRefused(t)
  PROVE  IInv'
<1> USE DEF NativeWaitRefused, Return, Goto, memory, program, native, fate
<1>1. TypeOK'
  BY ConstantsOK DEF IInv, TypeOK, OwnedIsCounted, HandleIsOwn, CallsOnReady,
     Labels, Ops
<1>2. CallsOnReady'
  BY ConstantsOK DEF IInv, CallsOnReady, TypeOK
<1>3. InitLockHeld'
  BY ConstantsOK DEF IInv, InitLockHeld, TypeOK, InitSection
<1>4. SlowPathIsTyped'
  BY ConstantsOK DEF IInv, SlowPathIsTyped, TypeOK, CallsOnReady, InitSection
<1>5. InitIsFirst'
  BY ConstantsOK DEF IInv, InitIsFirst, TypeOK, InitLockHeld,
     SlowPathIsTyped, EnterIsSafe, CallsOnReady, InitSection
<1>6. EnterIsSafe'
  BY ConstantsOK DEF IInv, EnterIsSafe, TypeOK, CallsOnReady
<1>7. HandleIsOwn'
  BY ConstantsOK DEF IInv, HandleIsOwn, TypeOK, CallsOnReady, ObjectsApart,
     EnterIsSafe, InitIsFirst
<1>8. SleepSaves'
  BY ConstantsOK DEF IInv, SleepSaves, TypeOK, OwnedIsCounted, HandleIsOwn
<1>9. HeldIsReady' /\ NullIsStatic' /\ ObjectsApart' /\ OwnedIsCounted' /\
   KindIsChosen' /\ OwnershipAgrees'
  BY DEF IInv, HeldIsReady, NullIsStatic, ObjectsApart, OwnedIsCounted,
     KindIsChosen, OwnershipAgrees, Sound
<1> QED BY <1>1, <1>2, <1>3, <1>4, <1>5, <1>6, <1>7, <1>8, <1>9 DEF IInv

LEMMA NativeSleepInv ==
  ASSUME IInv, NEW t \in Threads, NativeSleep(t)
  PROVE  IInv'
<1> USE DEF NativeSleep, Goto, memory, fate
<1>1. TypeOK'
  BY ConstantsOK DEF IInv, TypeOK, OwnedIsCounted, HandleIsOwn, CallsOnReady,
     Labels, Ops
<1>2. CallsOnReady'
  BY ConstantsOK DEF IInv, CallsOnReady, TypeOK
<1>3. HeldIsReady'
  BY ConstantsOK DEF IInv, HeldIsReady, TypeOK, CallsOnReady
<1>4. InitLockHeld'
  BY ConstantsOK DEF IInv, InitLockHeld, TypeOK, InitSection
<1>5. SlowPathIsTyped'
  BY ConstantsOK DEF IInv, SlowPathIsTyped, TypeOK, CallsOnReady, InitSection
<1>6. InitIsFirst'
  BY ConstantsOK DEF IInv, InitIsFirst, TypeOK, InitLockHeld,
     SlowPathIsTyped, EnterIsSafe, CallsOnReady, InitSection
<1>7. EnterIsSafe'
  BY ConstantsOK DEF IInv, EnterIsSafe, TypeOK, CallsOnReady
<1>8. HandleIsOwn'
  BY ConstantsOK DEF IInv, HandleIsOwn, TypeOK, CallsOnReady, ObjectsApart,
     EnterIsSafe, InitIsFirst
<1>9. OwnedIsCounted'
  BY ConstantsOK DEF IInv, OwnedIsCounted, TypeOK, HandleIsOwn
<1>10. SleepSaves'
  BY ConstantsOK DEF IInv, SleepSaves, TypeOK, OwnedIsCounted, HandleIsOwn
<1>11. OwnershipAgrees'
  BY ConstantsOK DEF IInv, OwnershipAgrees, TypeOK, ObjectsApart,
     HandleIsOwn, HeldIsReady, OwnedIsCounted, CallsOnReady, InitIsFirst,
     EnterIsSafe, Sound
<1>12. NullIsStatic' /\ ObjectsApart' /\ KindIsChosen'
  BY DEF IInv, NullIsStatic, ObjectsApart, KindIsChosen, Sound
<1> QED BY <1>1, <1>2, <1>3, <1>4, <1>5, <1>6, <1>7, <1>8, <1>9, <1>10,
   <1>11, <1>12 DEF IInv

LEMMA NativeWakeInv ==
  ASSUME IInv, NEW t \in Threads, NativeWake(t)
  PROVE  IInv'
<1> USE DEF NativeWake, Return, Goto, memory, fate
<1>1. TypeOK'
  BY ConstantsOK DEF IInv, TypeOK, OwnedIsCounted, HandleIsOwn, CallsOnReady,
     Labels, Ops
<1>2. CallsOnReady'
  BY ConstantsOK DEF IInv, CallsOnReady, TypeOK
<1>3. HeldIsReady'
  BY ConstantsOK DEF IInv, HeldIsReady, TypeOK, CallsOnReady
<1>4. InitLockHeld'
  BY ConstantsOK DEF IInv, InitLockHeld, TypeOK, InitSection
<1>5. SlowPathIsTyped'
  BY ConstantsOK DEF IInv, SlowPathIsTyped, TypeOK, CallsOnReady, InitSection
<1>6. InitIsFirst'
  BY ConstantsOK DEF IInv, InitIsFirst, TypeOK, InitLockHeld,
     SlowPathIsTyped, EnterIsSafe, CallsOnReady, InitSection
<1>7. EnterIsSafe'
  BY ConstantsOK DEF IInv, EnterIsSafe, TypeOK, CallsOnReady
<1>8. HandleIsOwn'
  BY ConstantsOK DEF IInv, HandleIsOwn, TypeOK, CallsOnReady, ObjectsApart,
     EnterIsSafe, InitIsFirst
<1>9. OwnedIsCounted'
  BY ConstantsOK DEF IInv, OwnedIsCounted, TypeOK, HandleIsOwn, SleepSaves
<1>10. SleepSaves'
  BY ConstantsOK DEF IInv, SleepSaves, TypeOK, OwnedIsCounted, HandleIsOwn
<1>11. OwnershipAgrees'
  BY ConstantsOK DEF IInv, OwnershipAgrees, TypeOK, ObjectsApart,
     HandleIsOwn, HeldIsReady, OwnedIsCounted, CallsOnReady, InitIsFirst,
     EnterIsSafe, Sound
<1>12. NullIsStatic' /\ ObjectsApart' /\ KindIsChosen'
  BY DEF IInv, NullIsStatic, ObjectsApart, KindIsChosen, Sound
<1> QED BY <1>1, <1>2, <1>3, <1>4, <1>5, <1>6, <1>7, <1>8, <1>9, <1>10,
   <1>11, <1>12 DEF IInv

LEMMA NextInv == IInv /\ [Next]_vars => IInv'
<1>1. ASSUME IInv, Next PROVE IInv'
  <2>1. PICK t \in Threads : Step(t)
    BY <1>1 DEF Next
  <2> QED
    BY <1>1, <2>1, MutexInitInv, MutexDestroyInv, MutexUnlockInv, CallInv,
       CheckInv, AcquireInitLockInv, RecheckInv, LazyInitInv,
       LazyInitFailsInv, ReleaseInitLockInv, NativeStaticInitInv,
       NativeStaticInitFailsInv, NativeEnterInv, NativeAcquireInv,
       NativeRelockInv, NativeRefuseInv, NativeWaitRefusedInv,
       NativeSleepInv, NativeWakeInv
    DEF Step
<1>2. ASSUME IInv, UNCHANGED vars PROVE IInv'
  BY <1>2
     DEF IInv, TypeOK, CallsOnReady, HeldIsReady, InitLockHeld, NullIsStatic,
         SlowPathIsTyped, InitIsFirst, EnterIsSafe, ObjectsApart, HandleIsOwn,
         OwnedIsCounted, SleepSaves, KindIsChosen, OwnershipAgrees, Sound,
         vars, memory, program, native, frame, fate
<1> QED BY <1>1, <1>2

\* The invariant holds in every state of every behaviour.
THEOREM Inductive == Spec => []IInv
BY InitInv, NextInv, PTL DEF Spec

\* Every variable keeps its type (the counts of native owners in range, the
\* program's own counts integers).
THEOREM TypeCorrect == Spec => []TypeOK
BY Inductive, PTL DEF IInv

\* An unlock always finds the native object that was locked.
THEOREM OwnershipCorrect == Spec => []OwnershipAgrees
BY Inductive, PTL DEF IInv

\* A native type has one of Linux's, whichever way the object was made.
LEMMA KindIsFaithful == IInv => KindFidelity
<1>1. \A k \in LinuxKinds \cup {DEFAULT} :
        /\ KindForInit(k) = NATIVE_RECURSIVE <=> k = LINUX_RECURSIVE
        /\ k = LINUX_ERRORCHECK => KindForInit(k) = NATIVE_ERRORCHECK
        /\ k = LINUX_NORMAL => KindForInit(k) = NATIVE_NORMAL
  BY DEF KindForInit, linux_to_native_mutex_kind, LinuxKinds, LINUX_NORMAL,
         LINUX_RECURSIVE, LINUX_ERRORCHECK, LINUX_ADAPTIVE_NP,
         NATIVE_ERRORCHECK, NATIVE_RECURSIVE, NATIVE_NORMAL,
         NATIVE_ADAPTIVE_NP, NATIVE_DEFAULT, DEFAULT
<1>2. ASSUME IInv PROVE KindFidelity
  <2> SUFFICES ASSUME NEW m \in Mutexes, Sound(m), wrapped[m] \in Objects
               PROVE  /\ objKind[wrapped[m]] = NATIVE_RECURSIVE
                          <=> type[m] = LINUX_RECURSIVE
                      /\ type[m] = LINUX_ERRORCHECK
                          => objKind[wrapped[m]] = NATIVE_ERRORCHECK
                      /\ type[m] = LINUX_NORMAL
                          => objKind[wrapped[m]] = NATIVE_NORMAL
    BY DEF KindFidelity
  <2>1. objKind[wrapped[m]] = KindForInit(type[m])
    BY <1>2, ConstantsOK DEF IInv, KindIsChosen
  <2>2. type[m] \in LinuxKinds \cup {DEFAULT}
    BY <1>2 DEF IInv, TypeOK
  <2> QED BY <1>1, <2>1, <2>2
<1> QED BY <1>2

\* The native type behaves as the type the program asked for.
THEOREM KindCorrect == Spec => []KindFidelity
<1> QED BY KindIsFaithful, Inductive, PTL

\* No two threads hold one mutex, however its first uses interleave.
THEOREM MutualExclusionCorrect == Spec => []MutualExclusion
<1>1. IInv => MutualExclusion
  <2> SUFFICES ASSUME IInv, NEW m \in Mutexes \ failed,
                      NEW t \in Threads, NEW u \in Threads,
                      held[t][m] > 0, held[u][m] > 0
               PROVE  t = u
    BY DEF MutualExclusion
  <2>1. Sound(m)
    BY DEF IInv, HeldIsReady, Sound
  <2>2. /\ wrapped[m] \in Objects
        /\ owner[wrapped[m]] = t
        /\ owner[wrapped[m]] = u
    BY <2>1 DEF IInv, OwnershipAgrees
  <2> QED BY <2>2
<1> QED BY <1>1, Inductive, PTL

-----------------------------------------------------------------------------
\* A native object is made only behind a mutex that has none: a null pointer,
\* or a mutex that is not ready.
LEMMA NoOrphanMade ==
  ASSUME IInv, NoOrphanObject, failed' = failed, NEW m \in Mutexes, NEW o \in Objects,
         NEW kind, NativeInit(m, o, kind), m \in ready', ready' \in {ready, ready \cup {m}},
         failed = {} /\ m \in ready => wrapped[m] = NULL
  PROVE  NoOrphanObject'
<1> SUFFICES ASSUME failed = {}, NEW p \in Objects, objKind'[p] # FREE
             PROVE  \E n \in ready' : wrapped'[n] = p
  BY DEF NoOrphanObject
<1>1. TypeOK
  BY DEF IInv
<1>2. wrapped'[m] = o /\ \A n \in Mutexes \ {m} : wrapped'[n] = wrapped[n]
  BY <1>1 DEF NativeInit, TypeOK
<1>3. CASE p = o
  BY <1>2, <1>3
<1>4. CASE p # o
  <2>1. objKind[p] # FREE
    BY <1>1, <1>4 DEF NativeInit, TypeOK
  <2>2. PICK n \in ready : wrapped[n] = p
    BY <2>1 DEF NoOrphanObject
  <2>3. n # m
    BY <2>2, ConstantsOK
  <2> QED
    BY <1>1, <1>2, <2>2, <2>3 DEF TypeOK
<1> QED
  BY <1>3, <1>4

\* One is destroyed only with the mutex that it is behind.
LEMMA NoOrphanDestroyed ==
  ASSUME IInv, NoOrphanObject, NEW m \in ready, NativeDestroy(m, wrapped[m]),
         wrapped[m] \in Objects, failed' = failed
  PROVE  NoOrphanObject'
<1> SUFFICES ASSUME failed = {}, NEW p \in Objects, objKind'[p] # FREE
             PROVE  \E n \in ready' : wrapped'[n] = p
  BY DEF NoOrphanObject
<1>1. TypeOK
  BY DEF IInv
<1>2. p # wrapped[m] /\ objKind[p] # FREE
  BY <1>1 DEF NativeDestroy, TypeOK
<1>3. PICK n \in ready : wrapped[n] = p
  BY <1>2 DEF NoOrphanObject
<1> QED
  BY <1>1, <1>2, <1>3 DEF NativeDestroy, TypeOK

LEMMA NoOrphanStep ==
  ASSUME IInv, NoOrphanObject, NEW t \in Threads, Step(t)
  PROVE  NoOrphanObject'
<1>1. ASSUME NEW m \in Mutexes, NEW k \in AttrKinds, MutexInit(t, m, k)
      PROVE  NoOrphanObject'
  BY <1>1, NoOrphanMade DEF MutexInit, fate
<1>2. ASSUME NEW m \in Mutexes, MutexDestroy(t, m) PROVE NoOrphanObject'
  <2>1. \/ /\ m \in ready /\ wrapped[m] \in Objects
           /\ NativeDestroy(m, wrapped[m]) /\ failed' = failed
        \/ UNCHANGED <<wrapped, objKind, ready, failed>>
    BY <1>2 DEF MutexDestroy, Abort, fate, memory, native, program
  <2> QED
    BY <2>1, NoOrphanDestroyed DEF NoOrphanObject
<1>3. CASE LazyInit(t)
  <2>1. /\ tgt[t] \in ready /\ tgt[t] \in Mutexes
        /\ failed = {} => wrapped[tgt[t]] = NULL
    BY <1>3 DEF LazyInit, IInv, CallsOnReady, InitIsFirst, TypeOK
  <2>2. UNCHANGED <<ready, failed>>
    BY <1>3 DEF LazyInit, program, fate
  <2> QED
    BY <1>3, <2>1, <2>2, NoOrphanMade DEF LazyInit
<1>4. CASE NativeStaticInit(t)
  <2>1. tgt[t] \in ready /\ tgt[t] \in Mutexes /\ wrapped[tgt[t]] = NULL
    BY <1>4 DEF NativeStaticInit, IInv, CallsOnReady, TypeOK
  <2>2. UNCHANGED <<ready, failed>>
    BY <1>4 DEF NativeStaticInit, program, fate
  <2> QED
    BY <1>4, <2>1, <2>2, NoOrphanMade DEF NativeStaticInit
<1>5. CASE LazyInitFails(t)
  BY <1>5 DEF LazyInitFails, NoOrphanObject
\* No other step makes, moves or destroys one.
<1>6. ASSUME UNCHANGED <<wrapped, objKind, ready, failed>> PROVE NoOrphanObject'
  BY <1>6 DEF NoOrphanObject
<1>7. ASSUME NEW m \in Mutexes, MutexUnlock(t, m) PROVE NoOrphanObject'
  BY <1>6, <1>7 DEF MutexUnlock, Abort, memory, program, native, fate
<1>8. ASSUME NEW m \in Mutexes, NEW o \in Ops, Call(t, m, o) PROVE NoOrphanObject'
  BY <1>6, <1>8 DEF Call, memory, program, native, fate
<1>9. CASE Check(t) \/ AcquireInitLock(t) \/ Recheck(t) \/ ReleaseInitLock(t)
  BY <1>6, <1>9
  DEF Check, AcquireInitLock, Recheck, ReleaseInitLock, memory, program, native, fate
<1>10. CASE NativeStaticInitFails(t) \/ NativeEnter(t) \/ NativeRefuse(t)
            \/ NativeWaitRefused(t)
  BY <1>6, <1>10
  DEF NativeStaticInitFails, NativeEnter, NativeRefuse, NativeWaitRefused, memory, program,
      native, fate
<1>11. CASE NativeAcquire(t) \/ NativeRelock(t) \/ NativeSleep(t) \/ NativeWake(t)
  BY <1>6, <1>11 DEF NativeAcquire, NativeRelock, NativeSleep, NativeWake, memory, fate
<1> QED
  BY <1>1, <1>2, <1>3, <1>4, <1>5, <1>7, <1>8, <1>9, <1>10, <1>11 DEF Step

\* Whoever comes first, every native mutex stays reachable from one of the
\* program's, and can be freed with it.
THEOREM NoOrphanCorrect == Spec => []NoOrphanObject
<1>1. Init => NoOrphanObject
  BY DEF Init, NoOrphanObject
<1>2. IInv /\ NoOrphanObject /\ [Next]_vars => NoOrphanObject'
  <2> SUFFICES ASSUME IInv, NoOrphanObject, [Next]_vars PROVE NoOrphanObject'
    OBVIOUS
  <2>1. CASE UNCHANGED vars
    BY <2>1 DEF vars, memory, native, program, fate, NoOrphanObject
  <2> QED
    BY <2>1, NoOrphanStep DEF Next
<1> QED
  BY <1>1, <1>2, Inductive, PTL DEF Spec

-----------------------------------------------------------------------------
\* A native object is made in memory that was free, for a mutex that has none.
LEMMA MadeElsewhere ==
  ASSUME IInv, NEW n \in Mutexes, NEW o \in Objects, NEW kind, NativeInit(n, o, kind),
         Sound(n) => wrapped[n] = NULL,
         NEW m \in Mutexes, Sound(m), wrapped[m] # NULL
  PROVE  wrapped'[m] = wrapped[m] /\ objKind'[wrapped[m]] = objKind[wrapped[m]]
<1>1. TypeOK /\ m # n
  BY DEF IInv
<1>2. wrapped[m] \in Objects /\ objKind[wrapped[m]] # FREE
  BY DEF IInv, KindIsChosen, ObjectsApart, Sound
<1> QED
  BY <1>1, <1>2 DEF NativeInit, TypeOK

LEMMA PointerStaysStep ==
  ASSUME IInv, [Next]_vars, NEW m \in Mutexes, Sound(m), wrapped[m] # NULL, m \in ready'
  PROVE  wrapped'[m] = wrapped[m] /\ objKind'[wrapped[m]] = objKind[wrapped[m]]
<1> USE DEF Sound
<1>1. ASSUME UNCHANGED <<wrapped, objKind>>
      PROVE  wrapped'[m] = wrapped[m] /\ objKind'[wrapped[m]] = objKind[wrapped[m]]
  BY <1>1
<1>2. CASE UNCHANGED vars
  BY <1>1, <1>2 DEF vars, memory, native
<1>3. ASSUME NEW t \in Threads, Step(t)
      PROVE  wrapped'[m] = wrapped[m] /\ objKind'[wrapped[m]] = objKind[wrapped[m]]
  <2>1. ASSUME NEW n \in Mutexes, NEW k \in AttrKinds, MutexInit(t, n, k)
        PROVE  wrapped'[m] = wrapped[m] /\ objKind'[wrapped[m]] = objKind[wrapped[m]]
    BY <2>1, MadeElsewhere DEF MutexInit
  <2>2. ASSUME NEW n \in Mutexes, MutexDestroy(t, n)
        PROVE  wrapped'[m] = wrapped[m] /\ objKind'[wrapped[m]] = objKind[wrapped[m]]
    <3>1. CASE UNCHANGED <<wrapped, objKind>>
      BY <1>1, <3>1
    <3>2. CASE wrapped[n] \in Objects /\ NativeDestroy(n, wrapped[n])
      <4>1. n # m /\ n \in ready
        BY <2>2, <3>2 DEF MutexDestroy, NativeDestroy
      <4>2. wrapped[m] \in Objects /\ wrapped[m] # wrapped[n]
        BY <3>2, <4>1 DEF IInv, KindIsChosen, ObjectsApart
      <4> QED
        BY <3>2, <4>1, <4>2 DEF NativeDestroy, IInv, TypeOK
    <3> QED
      BY <2>2, <3>1, <3>2 DEF MutexDestroy, Abort, memory, native
  <2>3. CASE LazyInit(t)
    <3>1. tgt[t] \in Mutexes /\ (tgt[t] \notin failed => wrapped[tgt[t]] = NULL)
      BY <2>3 DEF LazyInit, IInv, CallsOnReady, InitIsFirst, TypeOK
    <3> QED
      BY <2>3, <3>1, MadeElsewhere DEF LazyInit
  <2>4. CASE NativeStaticInit(t)
    <3>1. tgt[t] \in Mutexes /\ wrapped[tgt[t]] = NULL
      BY <2>4 DEF NativeStaticInit, IInv, CallsOnReady, TypeOK
    <3> QED
      BY <2>4, <3>1, MadeElsewhere DEF NativeStaticInit
  <2>5. ASSUME NEW n \in Mutexes, MutexUnlock(t, n) PROVE UNCHANGED <<wrapped, objKind>>
    BY <2>5 DEF MutexUnlock, Abort, memory, native
  <2>6. ASSUME NEW n \in Mutexes, NEW o \in Ops, Call(t, n, o) PROVE UNCHANGED <<wrapped, objKind>>
    BY <2>6 DEF Call, memory, native
  <2>7. CASE Check(t) \/ AcquireInitLock(t) \/ Recheck(t) \/ LazyInitFails(t) \/ ReleaseInitLock(t)
    BY <1>1, <2>7
    DEF Check, AcquireInitLock, Recheck, LazyInitFails, ReleaseInitLock, memory, native
  <2>8. CASE NativeStaticInitFails(t) \/ NativeEnter(t) \/ NativeRefuse(t)
             \/ NativeWaitRefused(t)
    BY <1>1, <2>8
    DEF NativeStaticInitFails, NativeEnter, NativeRefuse, NativeWaitRefused, memory, native
  <2>9. CASE NativeAcquire(t) \/ NativeRelock(t) \/ NativeSleep(t) \/ NativeWake(t)
    BY <1>1, <2>9 DEF NativeAcquire, NativeRelock, NativeSleep, NativeWake, memory
  <2> QED
    BY <1>1, <1>3, <2>1, <2>2, <2>3, <2>4, <2>5, <2>6, <2>7, <2>8, <2>9 DEF Step
<1> QED
  BY <1>2, <1>3 DEF Next

\* Once a mutex has a native object, no thread's first use gives it another
\* one or another type while the mutex exists.
THEOREM PointerStaysCorrect == Spec => PointerStays
<1>1. IInv /\ [Next]_vars =>
        [\A m \in Mutexes : Sound(m) /\ wrapped[m] # NULL /\ m \in ready' =>
           wrapped'[m] = wrapped[m] /\ objKind'[wrapped[m]] = objKind[wrapped[m]]]_vars
  BY PointerStaysStep
<1> QED
  BY <1>1, Inductive, PTL DEF Spec, PointerStays

-----------------------------------------------------------------------------
(* The refinement of TypedMutex.  A mutex in failed is not one of POSIX's: *)
(* the steps below are of states without any.                              *)

LEMMA ParkedIs ==
  \A t \in Threads : /\ Parked[t] = <<>> <=> pc[t] # "sleeping"
                     /\ pc[t] = "sleeping" => Parked[t] = <<tgt[t], saved[t]>>
                                               /\ Parked[t][1] = tgt[t] /\ Parked[t][2] = saved[t]
<1>1. \A a, b : <<a, b>> # <<>> /\ <<a, b>>[1] = a /\ <<a, b>>[2] = b
  OBVIOUS
<1> QED
  BY <1>1 DEF Parked

\* Threads that neither fall asleep nor wake up leave all that is parked.
LEMMA ParkedStays ==
  ASSUME TypeOK, NEW t \in Threads, pc[t] # "sleeping", pc'[t] # "sleeping",
         \A u \in Threads \ {t} : /\ pc'[u] = pc[u] /\ tgt'[u] = tgt[u] /\ saved'[u] = saved[u]
  PROVE  Parked' = Parked
  BY DEF Parked

\* Steps of the shim that POSIX does not know of.
LEMMA PosixStutters ==
  ASSUME TypeOK, NEW t \in Threads, pc[t] # "sleeping", pc'[t] # "sleeping",
         \A u \in Threads \ {t} : /\ pc'[u] = pc[u] /\ tgt'[u] = tgt[u] /\ saved'[u] = saved[u],
         UNCHANGED <<ready, type, held>>
  PROVE  UNCHANGED Posix!vars
  BY ParkedStays DEF Posix!vars

LEMMA ReturnsAwake ==
  ASSUME TypeOK, NEW t \in Threads, Return(t)
  PROVE  /\ pc'[t] = "idle"
         /\ \A u \in Threads \ {t} : /\ pc'[u] = pc[u] /\ tgt'[u] = tgt[u] /\ saved'[u] = saved[u]
  BY DEF TypeOK, Return, Goto

LEMMA GoesAwake ==
  ASSUME TypeOK, NEW t \in Threads, NEW label, Goto(t, label), UNCHANGED saved,
         \A u \in Threads \ {t} : tgt'[u] = tgt[u]
  PROVE  /\ pc'[t] = label
         /\ \A u \in Threads \ {t} : /\ pc'[u] = pc[u] /\ tgt'[u] = tgt[u] /\ saved'[u] = saved[u]
  BY DEF TypeOK, Goto

\* What a thread inside the native call finds: its own mutex's object.
LEMMA InsideCall ==
  ASSUME IInv, failed = {}, NEW t \in Threads, pc[t] \in {"blocked", "sleeping"}
  PROVE  /\ tgt[t] \in ready /\ tgt[t] \in Mutexes
         /\ obj[t] \in Objects /\ obj[t] = wrapped[tgt[t]]
         /\ \A u \in Threads : held[u][tgt[t]] = IF owner[obj[t]] = u THEN count[obj[t]] ELSE 0
         /\ objKind[obj[t]] = NATIVE_RECURSIVE <=> type[tgt[t]] = LINUX_RECURSIVE
<1>1. tgt[t] \in ready /\ tgt[t] \in Mutexes
  BY DEF IInv, CallsOnReady, TypeOK
<1>2. obj[t] \in Objects /\ obj[t] = wrapped[tgt[t]]
  BY DEF IInv, HandleIsOwn
<1>3. \A u \in Threads : held[u][tgt[t]] = IF owner[obj[t]] = u THEN count[obj[t]] ELSE 0
  BY <1>1, <1>2 DEF IInv, OwnershipAgrees, Sound
<1>4. IInv => KindFidelity
  BY KindIsFaithful
<1>5. objKind[obj[t]] = NATIVE_RECURSIVE <=> type[tgt[t]] = LINUX_RECURSIVE
  BY <1>1, <1>2, <1>4 DEF KindFidelity, Sound
<1> QED
  BY <1>1, <1>2, <1>3, <1>5

LEMMA InitRefines == Init => Posix!Init
<1> SUFFICES ASSUME Init PROVE Posix!Init
  OBVIOUS
<1>1. type \in [Mutexes -> LinuxKinds \cup {DEFAULT}]
  BY ConstantsOK, KindsOK DEF Init
<1>2. Parked = [t \in Threads |-> <<>>]
  BY DEF Init, Parked
<1> QED
  BY <1>1, <1>2 DEF Init, Posix!Init

\* A mutex that POSIX lets be initialised or destroyed is one that nobody
\* holds and nobody sleeps with.
LEMMA UnusedIsIdle ==
  ASSUME NEW m \in Mutexes, Unused(m)
  PROVE  Posix!Idle(m)
  BY ParkedIs DEF Unused, Posix!Idle

LEMMA MutexInitRefines ==
  ASSUME IInv, NEW t \in Threads, NEW m \in Mutexes, NEW k \in AttrKinds, MutexInit(t, m, k)
  PROVE  Posix!Initialise(m, k)
<1>1. Posix!Idle(m)
  BY UnusedIsIdle DEF MutexInit
<1>2. Parked' = Parked
  BY DEF MutexInit, frame, Parked
<1> QED
  BY <1>1, <1>2 DEF MutexInit, Posix!Initialise

LEMMA MutexDestroyRefines ==
  ASSUME IInv, NEW t \in Threads, NEW m \in Mutexes, MutexDestroy(t, m)
  PROVE  Posix!Destroy(m) \/ UNCHANGED Posix!vars
<1>1. Posix!Idle(m)
  BY UnusedIsIdle DEF MutexDestroy
<1>2. Parked' = Parked
  BY DEF MutexDestroy, Abort, frame, Parked
<1>3. UNCHANGED <<type, held>> /\ (ready' = ready \/ ready' = ready \ {m}) /\ m \in ready
  BY DEF MutexDestroy, Abort, NativeDestroy, program
<1> QED
  BY <1>1, <1>2, <1>3 DEF Posix!Destroy, Posix!vars

\* The owner of the native object is the thread that POSIX says holds the
\* mutex; anyone else is told EPERM and changes nothing.
LEMMA MutexUnlockRefines ==
  ASSUME IInv, failed = {}, NEW t \in Threads, NEW m \in Mutexes, MutexUnlock(t, m)
  PROVE  Posix!Release(t, m) \/ UNCHANGED Posix!vars
<1>1. Parked' = Parked /\ UNCHANGED <<ready, type>>
  BY DEF MutexUnlock, Abort, frame, program, Parked
<1>2. CASE AssertWrapped(m) /\ wrapped[m] \in Objects /\ owner[wrapped[m]] = t
  <2>1. held' = [held EXCEPT ![t][m] = @ - 1]
    BY <1>2 DEF MutexUnlock, NativeUnlock
  <2>2. held[t][m] = count[wrapped[m]]
    BY <1>2 DEF MutexUnlock, IInv, OwnershipAgrees, Sound
  <2>3. count[wrapped[m]] > 0
    BY <1>2, ConstantsOK DEF IInv, TypeOK, OwnedIsCounted
  <2>4. Parked[t] = <<>>
    BY ParkedIs DEF MutexUnlock
  <2> QED
    BY <1>1, <2>1, <2>2, <2>3, <2>4 DEF Posix!Release
<1>3. CASE ~(AssertWrapped(m) /\ wrapped[m] \in Objects /\ owner[wrapped[m]] = t)
  <2>1. held' = held
    BY <1>3 DEF MutexUnlock, NativeUnlock, Abort, program
  <2> QED
    BY <1>1, <2>1 DEF Posix!vars
<1> QED
  BY <1>2, <1>3

\* Before the native call, and when it is refused, POSIX sees nothing: not
\* the lazy initialisation of the shim, and not FreeBSD's own.
LEMMA ShimStutters ==
  ASSUME IInv, NEW t \in Threads,
         \/ \E m \in Mutexes : \E o \in Ops : Call(t, m, o)
         \/ Check(t) \/ AcquireInitLock(t) \/ Recheck(t)
         \/ LazyInit(t) \/ LazyInitFails(t) \/ ReleaseInitLock(t)
  PROVE  UNCHANGED Posix!vars
<1>1. TypeOK
  BY DEF IInv
<1>2. CASE \E m \in Mutexes : \E o \in Ops : Call(t, m, o)
  <2> PICK m \in Mutexes, o \in Ops : Call(t, m, o)
    BY <1>2
  <2>1. /\ pc[t] # "sleeping" /\ Goto(t, "check") /\ UNCHANGED <<ready, type, held, saved>>
        /\ \A u \in Threads \ {t} : tgt'[u] = tgt[u]
    BY <1>1 DEF Call, program, TypeOK
  <2> QED
    BY <1>1, <2>1, GoesAwake, PosixStutters
<1>3. ASSUME NEW label, label # "sleeping", pc[t] # "sleeping", Goto(t, label),
             UNCHANGED <<program, frame>>
      PROVE  UNCHANGED Posix!vars
  BY <1>1, <1>3, GoesAwake, PosixStutters DEF program, frame
<1>4. CASE Check(t)
  BY <1>3, <1>4 DEF Check
<1>5. CASE AcquireInitLock(t)
  BY <1>3, <1>5 DEF AcquireInitLock
<1>6. CASE Recheck(t)
  BY <1>3, <1>6 DEF Recheck
<1>7. CASE LazyInit(t)
  BY <1>3, <1>7 DEF LazyInit
<1>8. CASE LazyInitFails(t)
  BY <1>3, <1>8 DEF LazyInitFails
<1>9. CASE ReleaseInitLock(t)
  BY <1>3, <1>9 DEF ReleaseInitLock
<1> QED
  BY <1>2, <1>4, <1>5, <1>6, <1>7, <1>8, <1>9

LEMMA NativeStutters ==
  ASSUME IInv, NEW t \in Threads,
         \/ NativeStaticInit(t) \/ NativeStaticInitFails(t) \/ NativeEnter(t)
         \/ NativeRefuse(t) \/ NativeWaitRefused(t)
  PROVE  UNCHANGED Posix!vars
<1>1. TypeOK
  BY DEF IInv
<1>2. CASE NativeStaticInit(t)
  BY <1>2 DEF NativeStaticInit, program, frame, Posix!vars, Parked
<1>3. CASE NativeEnter(t)
  <2>1. /\ pc[t] # "sleeping" /\ Goto(t, "blocked") /\ UNCHANGED <<ready, type, held, saved>>
        /\ UNCHANGED tgt
    BY <1>3 DEF NativeEnter, program
  <2> QED
    BY <1>1, <2>1, GoesAwake, PosixStutters
<1>4. ASSUME pc[t] # "sleeping", Return(t), UNCHANGED program
      PROVE  UNCHANGED Posix!vars
  BY <1>1, <1>4, ReturnsAwake, PosixStutters DEF program
<1>5. CASE NativeStaticInitFails(t)
  BY <1>4, <1>5 DEF NativeStaticInitFails
<1>6. CASE NativeRefuse(t)
  BY <1>4, <1>6 DEF NativeRefuse
<1>7. CASE NativeWaitRefused(t)
  BY <1>4, <1>7 DEF NativeWaitRefused
<1> QED
  BY <1>2, <1>3, <1>5, <1>6, <1>7

\* A native lock that is granted is one that POSIX grants: nobody else holds
\* the mutex, and its owner takes it again only if it is recursive.
LEMMA NativeLockRefines ==
  ASSUME IInv, failed = {}, NEW t \in Threads, NativeAcquire(t) \/ NativeRelock(t)
  PROVE  Posix!Acquire(t, tgt[t])
<1>1. TypeOK
  BY DEF IInv
<1>2. pc[t] = "blocked" /\ Return(t) /\ UNCHANGED <<ready, type>>
      /\ held' = [held EXCEPT ![t][tgt[t]] = @ + 1]
  BY DEF NativeAcquire, NativeRelock
<1>3. /\ tgt[t] \in ready /\ tgt[t] \in Mutexes
      /\ obj[t] \in Objects /\ obj[t] = wrapped[tgt[t]]
      /\ \A u \in Threads : held[u][tgt[t]] = IF owner[obj[t]] = u THEN count[obj[t]] ELSE 0
      /\ objKind[obj[t]] = NATIVE_RECURSIVE <=> type[tgt[t]] = LINUX_RECURSIVE
  BY <1>2, InsideCall
<1>4. Parked' = Parked /\ Parked[t] = <<>>
  BY <1>1, <1>2, ReturnsAwake, ParkedStays, ParkedIs
<1>5. owner[obj[t]] \in {NoThread, t}
  BY DEF NativeAcquire, NativeRelock, CanRelock
<1>6. Posix!OpenTo(t, tgt[t])
  BY <1>3, <1>5, ConstantsOK DEF Posix!OpenTo
<1>7. \/ held[t][tgt[t]] = 0
      \/ type[tgt[t]] = LINUX_RECURSIVE /\ held[t][tgt[t]] < MaxDepth
  <2>1. CASE NativeAcquire(t)
    BY <1>3, <2>1, ConstantsOK DEF NativeAcquire
  <2>2. CASE NativeRelock(t)
    BY <1>3, <2>2 DEF NativeRelock, CanRelock
  <2> QED
    BY <2>1, <2>2
<1> QED
  BY <1>2, <1>3, <1>4, <1>6, <1>7 DEF Posix!Acquire

\* A wait gives away the whole depth of its mutex ...
LEMMA NativeSleepRefines ==
  ASSUME IInv, failed = {}, NEW t \in Threads, NativeSleep(t)
  PROVE  Posix!Park(t, tgt[t])
<1> DEFINE m == tgt[t]
<1>1. TypeOK
  BY DEF IInv
<1>2. /\ m \in Mutexes /\ obj[t] \in Objects
      /\ \A u \in Threads : held[u][m] = IF owner[obj[t]] = u THEN count[obj[t]] ELSE 0
  BY InsideCall DEF NativeSleep
<1>3. held[t][m] = count[obj[t]]
  BY <1>2 DEF NativeSleep
<1>4. count[obj[t]] \in Nat /\ count[obj[t]] > 0
  BY <1>1, <1>2, ConstantsOK DEF NativeSleep, IInv, TypeOK, OwnedIsCounted
<1>5. held' = [held EXCEPT ![t][m] = 0]
  <2>1. held[t][m] - count[obj[t]] = 0
    BY <1>3, <1>4
  <2>2. held' = [held EXCEPT ![t][m] = held[t][m] - count[obj[t]]]
    BY DEF NativeSleep
  <2> QED
    BY <2>1, <2>2
<1>6. Parked[t] = <<>>
  BY ParkedIs DEF NativeSleep
<1>7. Parked' = [Parked EXCEPT ![t] = <<m, held[t][m]>>]
  <2>1. pc' = [pc EXCEPT ![t] = "sleeping"] /\ tgt' = tgt
        /\ saved' = [saved EXCEPT ![t] = held[t][m]]
    BY <1>3 DEF NativeSleep, Goto
  <2> QED
    BY <1>1, <2>1 DEF Parked, TypeOK
<1> QED
  BY <1>3, <1>4, <1>5, <1>6, <1>7 DEF NativeSleep, Posix!Park

\* ... and has it back before it returns.
LEMMA NativeWakeRefines ==
  ASSUME IInv, failed = {}, NEW t \in Threads, NativeWake(t)
  PROVE  Posix!Unpark(t)
<1> DEFINE m == tgt[t]
<1>1. TypeOK
  BY DEF IInv
<1>2. /\ m \in Mutexes /\ obj[t] \in Objects
      /\ \A u \in Threads : held[u][m] = IF owner[obj[t]] = u THEN count[obj[t]] ELSE 0
  BY InsideCall DEF NativeWake
<1>3. \A u \in Threads : held[u][m] = 0
  BY <1>2, ConstantsOK DEF NativeWake
<1>4. Parked[t] # <<>> /\ Parked[t][1] = m /\ Parked[t][2] = saved[t]
  BY ParkedIs DEF NativeWake
<1>5. held' = [held EXCEPT ![t][m] = saved[t]]
  <2>1. held[t][m] + saved[t] = saved[t]
    BY <1>1, <1>3 DEF TypeOK
  <2>2. held' = [held EXCEPT ![t][m] = held[t][m] + saved[t]]
    BY DEF NativeWake
  <2> QED
    BY <2>1, <2>2
<1>6. Parked' = [Parked EXCEPT ![t] = <<>>]
  <2>1. /\ pc'[t] = "idle"
        /\ \A u \in Threads \ {t} : /\ pc'[u] = pc[u] /\ tgt'[u] = tgt[u] /\ saved'[u] = saved[u]
    BY <1>1, ReturnsAwake DEF NativeWake
  <2> QED
    BY <2>1 DEF Parked
<1> QED
  BY <1>3, <1>4, <1>5, <1>6 DEF NativeWake, Posix!Unpark, Posix!OpenTo

LEMMA NextRefines == IInv /\ failed = {} /\ [Next]_vars => [Posix!Next]_(Posix!vars)
<1> SUFFICES ASSUME IInv, failed = {}, [Next]_vars PROVE [Posix!Next]_(Posix!vars)
  OBVIOUS
<1>1. CASE UNCHANGED vars
  BY <1>1 DEF vars, program, frame, Posix!vars, Parked
<1>2. ASSUME NEW t \in Threads, Step(t) PROVE [Posix!Next]_(Posix!vars)
  <2>1. CASE \E m \in Mutexes : \E k \in AttrKinds : MutexInit(t, m, k)
    <3>1. AttrKinds \subseteq LinuxKinds \cup {DEFAULT}
      BY ConstantsOK
    <3> QED
      BY <2>1, <3>1, MutexInitRefines DEF Posix!Next
  <2>2. CASE \E m \in Mutexes : MutexDestroy(t, m)
    BY <2>2, MutexDestroyRefines DEF Posix!Next
  <2>3. CASE \E m \in Mutexes : MutexUnlock(t, m)
    BY <2>3, MutexUnlockRefines DEF Posix!Next
  <2>4. CASE NativeAcquire(t) \/ NativeRelock(t)
    <3>1. tgt[t] \in Mutexes
      BY <2>4, InsideCall DEF NativeAcquire, NativeRelock
    <3> QED
      BY <2>4, <3>1, NativeLockRefines DEF Posix!Next
  <2>5. CASE NativeSleep(t)
    <3>1. tgt[t] \in Mutexes
      BY <2>5, InsideCall DEF NativeSleep
    <3> QED
      BY <2>5, <3>1, NativeSleepRefines DEF Posix!Next
  <2>6. CASE NativeWake(t)
    BY <2>6, NativeWakeRefines DEF Posix!Next
  <2> QED
    BY <1>2, <2>1, <2>2, <2>3, <2>4, <2>5, <2>6, ShimStutters, NativeStutters DEF Step
<1> QED
  BY <1>1, <1>2 DEF Next

\* As long as no lazy initialisation has failed unnoticed (pthread.c:224),
\* the shim's mutexes are POSIX mutexes of the types the program asked for,
\* however the first uses of a statically initialised one interleave.
THEOREM ImplementsPosixCorrect == Spec /\ [](failed = {}) => ImplementsPosix
BY Inductive, InitRefines, NextRefines, PTL DEF Spec, ImplementsPosix, Posix!Spec

\* Nothing else makes them fail: where FreeBSD always finds memory they are
\* POSIX mutexes without a condition.
THEOREM MutexesArePosix == ~AllocFails => (Spec => ImplementsPosix)
<1> SUFFICES ASSUME ~AllocFails PROVE Spec => ImplementsPosix
  OBVIOUS
<1>1. Init => failed = {}
  BY DEF Init
<1>2. failed = {} /\ [Next]_vars => (failed = {})'
  <2>1. ASSUME NEW t \in Threads, Step(t) PROVE failed' = failed
    BY <2>1
    DEF Step, fate, MutexInit, MutexDestroy, MutexUnlock, Abort, Call, Check, AcquireInitLock,
        Recheck, LazyInit, LazyInitFails, ReleaseInitLock, NativeStaticInit,
        NativeStaticInitFails, NativeEnter, NativeAcquire, NativeRelock, NativeRefuse,
        NativeWaitRefused, NativeSleep, NativeWake
  <2> QED
    BY <2>1 DEF Next, vars, fate
<1>3. Spec => [](failed = {})
  BY <1>1, <1>2, PTL DEF Spec
<1> QED
  BY <1>3, ImplementsPosixCorrect, PTL
=============================================================================
