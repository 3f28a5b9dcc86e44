--------------------------- MODULE FileLockProofs ---------------------------
(* What file-lock.ts guarantees for any number of processes: its types under  *)
(* every fault, and mutual exclusion until a process dies or a removal of the *)
(* directory fails, where no holder outlives the staleness window.            *)
EXTENDS FileLock, TLAPS

\* Failures are counted up to their bound.
LEMMA Counting ==
    /\ 0 \in 0..MaxFailures
    /\ \A n \in 0..MaxFailures : n < MaxFailures => n + 1 \in 0..MaxFailures
BY FileLockAssumption DEF FileLockAssumption

\* What a removal does to the directory, and to the count.
LEMMA Removing ==
    ASSUME TypeOK, Removal
    PROVE  /\ exists' \in BOOLEAN /\ owner' \in Proc \cup {NoOwner} /\ old' \in BOOLEAN
           /\ failures' \in 0..MaxFailures
<1>1. CASE RemoveDir /\ UNCHANGED failures
  BY <1>1 DEF TypeOK, RemoveDir
<1>2. CASE RemoveFails
  <2>1. failures' \in 0..MaxFailures
    BY <1>2, Counting DEF TypeOK, RemoveFails
  <2> QED
    BY <1>2, <2>1 DEF TypeOK, RemoveFails
<1> QED
  BY <1>1, <1>2 DEF Removal

\* Every step of acquireLockSync, of release and of the environment keeps the types.
LEMMA TypeStep == TypeOK /\ [Next]_vars => TypeOK'
<1> SUFFICES ASSUME TypeOK, [Next]_vars PROVE TypeOK'
  OBVIOUS
<1> USE DEF TypeOK, Steps, Goto, dirVars
<1>1. ASSUME NEW p \in Proc, Start(p) PROVE TypeOK'
  BY <1>1 DEF Start
<1>2. ASSUME NEW p \in Proc, Advance(p) PROVE TypeOK'
  <2>1. CASE Mkdir(p)
    BY <2>1 DEF Mkdir
  <2>2. CASE WriteOwner(p)
    BY <2>2 DEF WriteOwner
  <2>3. CASE StatAge(p)
    BY <2>3 DEF StatAge
  <2>4. CASE ReadOwner(p)
    BY <2>4 DEF ReadOwner
  <2>5. CASE Remove(p)
    BY <2>5, Removing DEF Remove
  <2>6. CASE Poll(p)
    BY <2>6 DEF Poll
  <2>7. CASE GiveUp(p)
    BY <2>7 DEF GiveUp
  <2>8. CASE Release(p)
    BY <2>8, Removing DEF Release
  <2> QED
    BY <1>2, <2>1, <2>2, <2>3, <2>4, <2>5, <2>6, <2>7, <2>8 DEF Advance
<1>3. ASSUME NEW p \in Proc, Expire(p) \/ Crash(p) \/ RecyclePid(p) PROVE TypeOK'
  BY <1>3 DEF Expire, Crash, RecyclePid
<1>4. CASE Age
  BY <1>4 DEF Age
<1>5. CASE UNCHANGED vars
  BY <1>5 DEF vars
<1> QED
  BY <1>1, <1>2, <1>3, <1>4, <1>5 DEF Next

\* Type correctness of the lock directory and of acquireLockSync's control state,
\* whatever the environment does.
THEOREM TypeCorrect == Spec => []TypeOK
<1>1. Init => TypeOK
  BY Counting DEF Init, TypeOK, Steps
<1> QED
  BY <1>1, TypeStep, PTL DEF Spec

-----------------------------------------------------------------------------
\* The directory is on disk exactly while somebody holds the lock: the link that
\* makes mutual exclusion inductive. It is what a crash breaks.
DirMeansHeld == exists <=> \E p \in Proc : Holds(p)

\* Nobody ever judges the lock stale, because every owner lives and every
\* directory is fresh.
NeverStale ==
    /\ old = FALSE
    /\ pidUsed = Proc
    /\ \A p \in Proc : pc[p] \notin {"remove", "dead"}

SafeInv == TypeOK /\ (Undisturbed => DirMeansHeld /\ NeverStale /\ MutualExclusion)

\* Nobody holds the lock at first.
LEMMA SafeInit == Init => SafeInv
BY FileLockAssumption, Counting
DEF Init, SafeInv, TypeOK, Steps, DirMeansHeld, NeverStale, MutualExclusion, Holds

\* Each step of a contender keeps that, and a step in which a process dies or a
\* removal fails promises nothing any more.
LEMMA SafeStep ==
    ASSUME "slow" \notin Faults
    PROVE  SafeInv /\ [Next]_vars => SafeInv'
<1> SUFFICES ASSUME SafeInv, [Next]_vars, TypeOK', Undisturbed'
             PROVE  (DirMeansHeld /\ NeverStale /\ MutualExclusion)'
  BY TypeStep DEF SafeInv
<1> USE DEF TypeOK, Steps, DirMeansHeld, NeverStale, MutualExclusion, Holds, Goto, dirVars
<1> DEFINE Safe == DirMeansHeld /\ NeverStale /\ MutualExclusion
\* The dead stay dead and a failure stays counted: nothing had happened before the step.
<1>0. TypeOK /\ Undisturbed /\ Safe
  <2>1. AllLive
    BY DEF Undisturbed, AllLive, Next, Advance, Start, Mkdir, WriteOwner, StatAge, ReadOwner,
           Remove, Poll, GiveUp, Release, Expire, Crash, RecyclePid, Age, vars
  <2>2. failures = 0
    <3>1. failures' = failures \/ failures' = failures + 1
      BY DEF Next, Advance, Start, Mkdir, WriteOwner, StatAge, ReadOwner, Remove, Removal,
             RemoveFails, Poll, GiveUp, Release, Expire, Crash, RecyclePid, Age, vars
    <3>2. failures \in Nat /\ failures' = 0
      BY FileLockAssumption DEF FileLockAssumption, Undisturbed, SafeInv
    <3> QED
      BY <3>1, <3>2
  <2> QED
    BY <2>1, <2>2 DEF SafeInv, Undisturbed
<1>1. ASSUME NEW p \in Proc, Start(p) PROVE Safe'
  BY <1>0, <1>1 DEF Start
<1>2. ASSUME NEW p \in Proc, Mkdir(p) PROVE Safe'
  BY <1>0, <1>2 DEF Mkdir
<1>3. ASSUME NEW p \in Proc, WriteOwner(p) PROVE Safe'
  BY <1>0, <1>3 DEF WriteOwner
<1>4. ASSUME NEW p \in Proc, StatAge(p) PROVE Safe'
  BY <1>0, <1>4 DEF StatAge
<1>5. ASSUME NEW p \in Proc, ReadOwner(p) PROVE Safe'
  <2>1. ~OwnerGone
    BY <1>0 DEF OwnerGone
  <2> QED
    BY <1>0, <1>5, <2>1 DEF ReadOwner
<1>6. ASSUME NEW p \in Proc, Remove(p) PROVE Safe'
  BY <1>0, <1>6 DEF Remove
<1>7. ASSUME NEW p \in Proc, Poll(p) \/ GiveUp(p) PROVE Safe'
  BY <1>0, <1>7 DEF Poll, GiveUp
<1>8. ASSUME NEW p \in Proc, Release(p) PROVE Safe'
  <2>1. RemoveDir
    BY <1>0, <1>8, FileLockAssumption
    DEF Release, Removal, RemoveFails, Undisturbed
  <2> QED
    BY <1>0, <1>8, <2>1 DEF Release, RemoveDir
<1>9. ASSUME NEW p \in Proc, Expire(p) \/ Crash(p) \/ RecyclePid(p) PROVE Safe'
  <2>1. CASE Expire(p)
    BY <1>0, <2>1 DEF Expire
  <2>2. CASE Crash(p)
    BY <2>2 DEF Crash, AllLive, Undisturbed
  <2>3. CASE RecyclePid(p)
    BY <1>0, <2>3 DEF RecyclePid, AllLive, Undisturbed
  <2> QED
    BY <1>9, <2>1, <2>2, <2>3
<1>10. CASE Age
  BY <1>0, <1>10 DEF Age
<1>11. CASE UNCHANGED vars
  BY <1>0, <1>11 DEF vars
<1> QED
  BY <1>1, <1>2, <1>3, <1>4, <1>5, <1>6, <1>7, <1>8, <1>9, <1>10, <1>11
  DEF Next, Advance

\* For any number of contenders, crashes and reused pids included: as long as no
\* process has died, no removal has failed and no holder stays past staleMs, withLock
\* runs its callback alone.
THEOREM Exclusive ==
    ASSUME "slow" \notin Faults
    PROVE  Spec => []AloneWhileLive
<1>1. SafeInv => AloneWhileLive
  BY DEF SafeInv, AloneWhileLive
<1> QED
  BY <1>1, SafeInit, SafeStep, PTL DEF Spec

\* Under the same condition no rmSync, neither a takeover's nor a release's,
\* removes the directory of a process that still believes it holds the lock.
THEOREM NeverStolen ==
    ASSUME "slow" \notin Faults
    PROVE  Spec => NoStolenLock
<1>1. SafeInv' => [Undisturbed' /\ exists /\ ~exists' => \A p \in Proc : ~Holds(p)']_vars
  BY DEF SafeInv, DirMeansHeld
<1> QED
  BY <1>1, SafeInit, SafeStep, PTL DEF Spec, NoStolenLock
=============================================================================
