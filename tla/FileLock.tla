------------------------------ MODULE FileLock ------------------------------
(***************************************************************************)
(* The cross-process lock of skills/_shared/lib/file-lock.ts: a `mkdir` of *)
(* a sibling `<file>.lock` directory, an owner.json written inside it, a   *)
(* staleness test made of two separate file system reads, and a takeover   *)
(* that removes the directory and contends again.                          *)
(*                                                                         *)
(* Every file system call is one step; between two calls of one process    *)
(* any other process may run.                                              *)
(***************************************************************************)
EXTENDS Naturals

CONSTANTS Proc,       \* the processes that contend for one target path
          TryLock,    \* those that call with timeoutMs = 0 (the sweep)
          Faults,     \* what the environment may do: subset of FaultKinds
          NoOwner,    \* owner.json absent or unreadable
          MaxFailures \* bound: removals of the directory that fail

FaultKinds == {"crash",    \* a process may die between any two of its calls
               "slow",     \* a holder may outlive the staleness window
               "recycle"}  \* the OS may hand a dead owner's pid to a stranger

ASSUME FileLockAssumption ==
    /\ TryLock \subseteq Proc
    /\ Faults \subseteq FaultKinds
    /\ NoOwner \notin Proc
    /\ MaxFailures \in Nat

VARIABLES exists,   \* the lock directory is on disk
          owner,    \* the pid in its owner.json
          old,      \* its mtime is further back than staleMs
          pc,       \* where each process is in acquireLockSync / release
          late,     \* the processes whose acquire deadline has passed
          pidUsed,  \* the pids the OS would report alive
          failures  \* how many removals have failed

dirVars == <<exists, owner, old>>
vars == <<dirVars, pc, late, pidUsed, failures>>

Steps == {"idle",      \* outside acquireLockSync
          "mkdir",     \* about to call mkdirSync
          "write",     \* created the directory, about to write owner.json
          "held",      \* holds the lock: the critical section
          "stat",      \* isStale: about to stat the directory
          "read",      \* isStale: about to read owner.json
          "remove",    \* judged the lock stale, about to rmSync it
          "contend",   \* not stale: the deadline test and the poll sleep
          "dead"}      \* the process is gone

\* A process in acquireLockSync's loop.
Waiting == {"mkdir", "stat", "read", "remove", "contend"}

\* A process that mkdir let through believes it holds the lock.
Holds(p) == pc[p] \in {"write", "held"}

Goto(p, step) == pc' = [pc EXCEPT ![p] = step]

TypeOK ==
    /\ exists \in BOOLEAN
    /\ owner \in Proc \cup {NoOwner}
    /\ old \in BOOLEAN
    /\ pc \in [Proc -> Steps]
    /\ late \subseteq Proc
    /\ pidUsed \subseteq Proc
    /\ failures \in 0..MaxFailures

Init ==
    /\ exists = FALSE
    /\ owner = NoOwner
    /\ old = FALSE
    /\ pc = [p \in Proc |-> "idle"]
    /\ late = {}
    /\ pidUsed = Proc
    /\ failures = 0

-----------------------------------------------------------------------------
(* acquireLockSync *)

\* The call, with its deadline; a timeoutMs = 0 caller is past it at once.
Start(p) ==
    /\ pc[p] = "idle"
    /\ Goto(p, "mkdir")
    /\ late' = IF p \in TryLock THEN late \cup {p} ELSE late \ {p}
    /\ UNCHANGED <<dirVars, pidUsed, failures>>

\* Mutant: mkdirSync(dir, {recursive: true}), which succeeds on a directory that
\* is already there.
MkdirRecursive(p) ==
    /\ pc[p] = "mkdir"
    /\ Goto(p, "write")
    /\ exists' = TRUE
    /\ UNCHANGED <<owner, old, late, pidUsed, failures>>

\* mkdirSync: atomic, exactly one contender creates the directory.
Mkdir(p) ==
    /\ pc[p] = "mkdir"
    /\ IF exists
       THEN Goto(p, "stat") /\ UNCHANGED dirVars
       ELSE /\ Goto(p, "write")
            /\ exists' = TRUE
            /\ owner' = NoOwner
            /\ old' = FALSE
    /\ UNCHANGED <<late, pidUsed, failures>>

\* writeFileSync(owner.json): best effort. Where the directory has been removed
\* meanwhile nothing is written and the caller still returns a lock; where it has
\* been re-created by another process, that process's owner.json is overwritten.
\* Creating the file refreshes the directory's mtime, overwriting it does not.
WriteOwner(p) ==
    /\ pc[p] = "write"
    /\ Goto(p, "held")
    /\ owner' = IF exists THEN p ELSE owner
    /\ old' = (old /\ ~(exists /\ owner = NoOwner))
    /\ UNCHANGED <<exists, late, pidUsed, failures>>

\* Mutant: staleness judged by the owner's pid alone, the mtime never read.
StatPidOnly(p) ==
    /\ pc[p] = "stat"
    /\ Goto(p, IF exists THEN "read" ELSE "contend")
    /\ UNCHANGED <<dirVars, late, pidUsed, failures>>

\* isStale, first read: the directory's mtime. A vanished directory is not stale.
StatAge(p) ==
    /\ pc[p] = "stat"
    /\ Goto(p, IF ~exists THEN "contend" ELSE IF old THEN "remove" ELSE "read")
    /\ UNCHANGED <<dirVars, late, pidUsed, failures>>

\* Mutant: an unreadable owner.json counts as a dead owner.
OwnerUnreadable == exists /\ owner \notin pidUsed

\* isStale, second read: the owner's pid. A missing or partial owner.json means
\* the lock is assumed held.
OwnerGone == exists /\ owner # NoOwner /\ owner \notin pidUsed

ReadOwner(p) ==
    /\ pc[p] = "read"
    /\ Goto(p, IF OwnerGone THEN "remove" ELSE "contend")
    /\ UNCHANGED <<dirVars, late, pidUsed, failures>>

\* rmSync(dir, {recursive, force}): removes whatever directory is there now.
RemoveDir ==
    /\ exists' = FALSE
    /\ owner' = NoOwner
    /\ old' = FALSE

\* It may fail, and both callers swallow the error: the directory stays, with its
\* owner.json or, where only the directory itself could not be removed, without it
\* and with a fresh mtime.
RemoveFails ==
    /\ exists /\ failures < MaxFailures
    /\ \/ UNCHANGED <<owner, old>>
       \/ owner' = NoOwner /\ old' = (old /\ owner = NoOwner)
    /\ failures' = failures + 1
    /\ UNCHANGED exists

Removal == (RemoveDir /\ UNCHANGED failures) \/ RemoveFails

\* The takeover: remove, then re-enter the loop at mkdir, without the deadline test
\* and without sleeping, also where the removal has failed.
Remove(p) ==
    /\ pc[p] = "remove"
    /\ Removal
    /\ Goto(p, "mkdir")
    /\ UNCHANGED <<late, pidUsed>>

\* Mutant: the deadline is tested for the callers that never wait only.
GiveUpTryLock(p) ==
    /\ pc[p] = "contend"
    /\ p \in TryLock
    /\ Goto(p, "idle")
    /\ UNCHANGED <<dirVars, late, pidUsed, failures>>

\* Not stale and past the deadline: throw.
GiveUp(p) ==
    /\ pc[p] = "contend"
    /\ p \in late
    /\ Goto(p, "idle")
    /\ UNCHANGED <<dirVars, late, pidUsed, failures>>

\* Not stale, the deadline is ahead: sleep pollMs and contend again.
Poll(p) ==
    /\ pc[p] = "contend"
    /\ p \notin late
    /\ Goto(p, "mkdir")
    /\ UNCHANGED <<dirVars, late, pidUsed, failures>>

\* release(): idempotent, and it removes the directory whoever created it. Where that
\* fails the lock is left behind by a process that lives on.
Release(p) ==
    /\ pc[p] = "held"
    /\ Removal
    /\ Goto(p, "idle")
    /\ UNCHANGED <<late, pidUsed>>

-----------------------------------------------------------------------------
(* The environment *)

\* The clock passes the directory's mtime + staleMs. While its holder lives this
\* needs a critical section longer than the window ("slow").
Age ==
    /\ exists /\ ~old
    /\ "slow" \in Faults \/ \A p \in Proc : ~Holds(p)
    /\ old' = TRUE
    /\ UNCHANGED <<exists, owner, pc, late, pidUsed, failures>>

\* The clock passes a caller's deadline.
Expire(p) ==
    /\ pc[p] \in Waiting
    /\ p \notin late
    /\ late' = late \cup {p}
    /\ UNCHANGED <<dirVars, pc, pidUsed, failures>>

\* The process dies; what it wrote stays on disk.
Crash(p) ==
    /\ "crash" \in Faults
    /\ pc[p] # "dead"
    /\ Goto(p, "dead")
    /\ late' = late \ {p}
    /\ pidUsed' = pidUsed \ {p}
    /\ UNCHANGED <<dirVars, failures>>

\* The OS reuses a dead process's pid: process.kill(pid, 0) answers again.
RecyclePid(p) ==
    /\ "recycle" \in Faults
    /\ pc[p] = "dead" /\ p \notin pidUsed
    /\ pidUsed' = pidUsed \cup {p}
    /\ UNCHANGED <<dirVars, late, pc, failures>>

-----------------------------------------------------------------------------

Advance(p) ==
    \/ Mkdir(p) \/ WriteOwner(p) \/ StatAge(p) \/ ReadOwner(p)
    \/ Remove(p) \/ Poll(p) \/ GiveUp(p) \/ Release(p)

Next ==
    \/ \E p \in Proc : Start(p) \/ Advance(p) \/ Expire(p) \/ Crash(p) \/ RecyclePid(p)
    \/ Age

Spec == Init /\ [][Next]_vars

\* acquireLockSync is synchronous code: once entered it runs on, the critical
\* section it guards ends, and the clock passes. Nothing makes a process call it
\* (Start), crash, or lose its pid.
FairSpec ==
    /\ Spec
    /\ WF_vars(Age)
    /\ \A p \in Proc : WF_vars(Advance(p)) /\ WF_vars(Expire(p))

-----------------------------------------------------------------------------
(* Properties *)

\* What the lock is for (acquireLockSync, withLock): two processes are never both
\* past mkdir. The read-modify-write cycles of spend-tracker and cooldown-registry,
\* and the recovery of a run by a sweep, each assume they are alone.
MutualExclusion == \A p, q \in Proc : Holds(p) /\ Holds(q) => p = q

\* A dead process stays dead: no process has died so far.
AllLive == \A p \in Proc : pc[p] # "dead"

\* So far no lock was left behind: nobody has died and every removal has worked.
Undisturbed == AllLive /\ failures = 0

\* Until a process dies or a removal fails, withLock's callback runs alone, whoever
\* contends, polls, times out or judges the directory stale.
AloneWhileLive == Undisturbed => MutualExclusion

\* Until then, a takeover or a release (the two rmSync calls) never removes the
\* directory of a process that goes on believing it holds the lock.
NoStolenLock ==
    [][Undisturbed' /\ exists /\ ~exists' => \A p \in Proc : ~Holds(p)']_vars

\* The directory is on disk and no process that holds it is left to remove it.
Orphaned == exists /\ \A p \in Proc : ~Holds(p)

\* isStale's two tests together: as long as processes keep asking for the lock, a
\* directory left behind by a dead holder is not there for ever, not even when the
\* holder died before writing owner.json or its pid now belongs to a stranger, nor
\* when some removals of it fail (rmSync fails at most MaxFailures times).
OrphanReclaimed ==
    []<>(\E p \in Proc : pc[p] \in Waiting) => []<>~Orphaned

\* The loop of acquireLockSync ends: a caller gets the lock or the timeout error
\* (or dies), even where takeovers make it skip the deadline test. This holds while
\* removals fail at most MaxFailures times: with a stale directory that can never be
\* removed the loop goes from mkdir to rmSync for ever, as Remove shows.
ContenderLeaves ==
    \A p \in Proc : pc[p] \in Waiting ~> pc[p] \notin Waiting
=============================================================================
