--------------------------- MODULE RunKernelProofs ---------------------------
(* What the Run Kernel's store guarantees for any number of processes,        *)
(* projects, runs and idempotency keys.                                        *)
EXTENDS RunKernelOutbox, RunKernelRebuild, WellFoundedInduction, TLAPS

LEMMA StatesFacts ==
    /\ "prepared" \in States
    /\ Unknown \notin States
    /\ \A a, b : Lifecycle!CanTransition(a, b) => a \in States
BY DEF States, Unknown, Lifecycle!States, Lifecycle!Unknown, Lifecycle!LiveStates,
       Lifecycle!TerminalStates, Lifecycle!CanTransition

LEMMA NoCommandType == NoCommand \in Commands
BY RunKernelAssumption, StatesFacts DEF NoCommand, Commands, Command, Types

LEMMA CandidateType ==
    ASSUME TypeOK, NEW p \in Proc
    PROVE  /\ Candidate(p) \in Event /\ ProjectOf[cmd[p].run] \in Project
           /\ Candidate(p).type = "run.prepared" => Candidate(p).to = "prepared"
BY RunKernelAssumption DEF TypeOK, Commands, Command, Event, Candidate

\* A command's end touches the process's own variables only, and keeps their types.
LEMMA EndType ==
    ASSUME TypeOK, NEW p \in Proc, NEW result \in Outcomes, End(p, result)
    PROVE  /\ pc' \in [Proc -> Steps]
           /\ cmd' \in [Proc -> Commands]
           /\ from' \in [Proc -> States]
           /\ seen' \in [Proc -> Nat]
           /\ outcome' \in [Proc -> Outcomes]
BY NoCommandType, StatesFacts DEF TypeOK, End, Steps

LEMMA RowOfType ==
    ASSUME TypeOK, NEW pr \in Project, NEW key
    PROVE  RowOf(pr, key) \in Nat
BY DEF RowOf, Rows, TypeOK

LEMMA TypeInit == Init => TypeOK
BY NoCommandType, StatesFacts
DEF Init, TypeOK, NoProjection, Projection, Steps, Outcomes

\* The store changes in one place: the transaction that appends an event.
LEMMA StoreStep ==
    ASSUME [Next]_vars
    PROVE  (\E p \in Proc : AppendEvent(p)) \/ UNCHANGED storeVars
BY DEF Next, vars, Begin, Replay, ReadCurrent, ReadPrior, AnswerDuplicate, Refuse, Crash

LEMMA TypeStep == TypeOK /\ [Next]_vars => TypeOK'
<1> SUFFICES ASSUME TypeOK, [Next]_vars PROVE TypeOK'
  OBVIOUS
<1> USE DEF storeVars
<1>1. ASSUME NEW p \in Proc, NEW c \in Commands, Begin(p, c) PROVE TypeOK'
  BY <1>1 DEF Begin, TypeOK, Steps, Outcomes
<1>2. ASSUME NEW p \in Proc, Replay(p) PROVE TypeOK'
  <2>1. CASE pc' = [pc EXCEPT ![p] = "current"] /\ UNCHANGED <<cmd, from, seen, outcome>>
    BY <1>2, <2>1 DEF Replay, TypeOK, Steps
  <2>2. CASE End(p, "returned") \/ End(p, "conflict")
    <3>1. "returned" \in Outcomes /\ "conflict" \in Outcomes
      BY DEF Outcomes
    <3>2. UNCHANGED storeVars
      BY <1>2 DEF Replay
    <3> QED
      BY <2>2, <3>1, <3>2, EndType DEF TypeOK
  <2> QED
    BY <1>2, <2>1, <2>2 DEF Replay
<1>3. ASSUME NEW p \in Proc, ReadCurrent(p) PROVE TypeOK'
  <2>1. CASE Lifecycle!CanTransition(proj[cmd[p].run].state, cmd[p].to)
    BY <1>3, <2>1, StatesFacts DEF ReadCurrent, TypeOK, Steps
  <2>2. CASE ~Lifecycle!CanTransition(proj[cmd[p].run].state, cmd[p].to)
    <3>1. End(p, "rejected") /\ "rejected" \in Outcomes /\ UNCHANGED storeVars
      BY <1>3, <2>2 DEF ReadCurrent, Outcomes
    <3> QED
      BY <3>1, EndType DEF TypeOK
  <2> QED
    BY <2>1, <2>2
<1>4. ASSUME NEW p \in Proc, ReadPrior(p) PROVE TypeOK'
  <2>1. RowOf(ProjectOf[cmd[p].run], cmd[p].key) \in Nat
    BY CandidateType, RowOfType
  <2> QED
    BY <1>4, <2>1 DEF ReadPrior, TypeOK, Steps
<1>5. ASSUME NEW p \in Proc, AnswerDuplicate(p) PROVE TypeOK'
  <2>1. /\ End(p, "returned") \/ End(p, "conflict")
        /\ UNCHANGED storeVars
    BY <1>5 DEF AnswerDuplicate
  <2>2. "returned" \in Outcomes /\ "conflict" \in Outcomes
    BY DEF Outcomes
  <2> QED
    BY <2>1, <2>2, EndType DEF TypeOK
<1>6. ASSUME NEW p \in Proc, AppendEvent(p) PROVE TypeOK'
  <2> DEFINE e == Candidate(p)
             pr == ProjectOf[e.run]
             n == Len(journal[pr]) + 1
  <2>1. e \in Event /\ e.run \in Run /\ pr \in Project
    BY CandidateType DEF Candidate, Event
  <2>2. n \in Nat
    BY <2>1 DEF TypeOK
  <2>3. journal' \in [Project -> Seq(Event)]
    BY <1>6, <2>1 DEF AppendEvent, TypeOK
  <2>4. pending' \subseteq Project \X Nat
    BY <1>6, <2>1, <2>2 DEF AppendEvent, TypeOK
  <2>5. proj' \in [Run -> Projection]
    <3>1. proj' = Projected(proj, e, n)
      BY <1>6 DEF AppendEvent
    <3>2. e.to \in States /\ proj[e.run] \in Projection
      BY <2>1 DEF Event, TypeOK
    <3> QED
      BY <2>1, <2>2, <3>1, <3>2 DEF Projected, TypeOK, Projection
  <2>6. End(p, "returned") /\ "returned" \in Outcomes
    BY <1>6 DEF AppendEvent, Outcomes
  <2> QED
    BY <2>3, <2>4, <2>5, <2>6, EndType DEF TypeOK
<1>7. ASSUME NEW p \in Proc, Refuse(p) \/ Crash(p) PROVE TypeOK'
  <2>1. /\ End(p, "rejected") \/ End(p, "none")
        /\ UNCHANGED storeVars
    BY <1>7 DEF Refuse, Crash
  <2>2. "rejected" \in Outcomes /\ "none" \in Outcomes
    BY DEF Outcomes
  <2> QED
    BY <2>1, <2>2, EndType DEF TypeOK
<1>8. CASE UNCHANGED vars
  BY <1>8 DEF vars, procVars, TypeOK
<1> QED
  BY <1>1, <1>2, <1>3, <1>4, <1>5, <1>6, <1>7, <1>8 DEF Next

\* Type correctness of the tables and of every command in progress.
THEOREM TypeCorrect == Spec => []TypeOK
BY TypeInit, TypeStep, PTL DEF Spec

-----------------------------------------------------------------------------
(* What one append does to the rows *)

\* Appending event e as row n of project pr: the rows of every project and of
\* every run, before and after.
AppendsRow(e, pr, n) ==
    /\ e \in Event /\ pr \in Project /\ n \in Nat \ {0}
    /\ pr = ProjectOf[e.run]
    /\ Rows(pr)' = Rows(pr) \cup {n}
    /\ \A i \in Rows(pr) : i \in Nat /\ i < n
    /\ journal'[pr][n] = e
    /\ \A i \in Rows(pr) : journal'[pr][i] = journal[pr][i]
    /\ \A q \in Project \ {pr} : journal'[q] = journal[q]
    /\ proj' = Projected(proj, e, n)
    /\ Applies(proj, e)

LEMMA AppendRows ==
    ASSUME TypeOK, NEW p \in Proc, AppendEvent(p)
    PROVE  \E e \in Event, pr \in Project, n \in Nat \ {0} :
              e = Candidate(p) /\ RowOf(pr, e.key) = 0 /\ AppendsRow(e, pr, n)
<1>1. PICK e, pr, n : e = Candidate(p) /\ pr = ProjectOf[e.run] /\ n = Len(journal[pr]) + 1
  OBVIOUS
<1>2. e \in Event /\ pr \in Project
  BY <1>1, CandidateType DEF Candidate, Event
<1>3. journal[pr] \in Seq(Event) /\ n \in Nat \ {0}
  BY <1>1, <1>2 DEF TypeOK
<1>4. journal' = [journal EXCEPT ![pr] = Append(@, e)]
  BY <1>1 DEF AppendEvent
<1>5. journal'[pr] = Append(journal[pr], e)
  BY <1>2, <1>4 DEF TypeOK
<1>6. \A q \in Project \ {pr} : journal'[q] = journal[q]
  BY <1>2, <1>4 DEF TypeOK
<1>7. /\ Rows(pr)' = Rows(pr) \cup {n}
      /\ \A i \in Rows(pr) : i \in Nat /\ i < n
      /\ journal'[pr][n] = e
      /\ \A i \in Rows(pr) : journal'[pr][i] = journal[pr][i]
  BY <1>1, <1>2, <1>3, <1>5 DEF Rows
<1>8. proj' = Projected(proj, e, n) /\ Applies(proj, e) /\ RowOf(pr, e.key) = 0
  BY <1>1 DEF AppendEvent
<1> QED
  BY <1>1, <1>2, <1>3, <1>6, <1>7, <1>8 DEF AppendsRow

LEMMA AppendRunRows ==
    ASSUME TypeOK, NEW e \in Event, NEW pr \in Project, NEW n \in Nat \ {0},
           AppendsRow(e, pr, n), NEW r \in Run
    PROVE  /\ StateRows(r)' = IF e.run = r /\ e.type \in {"run.prepared", "run.transitioned"}
                              THEN StateRows(r) \cup {n} ELSE StateRows(r)
           /\ ProjectedRows(r)' = IF e.run = r /\ e.type # "other"
                                  THEN ProjectedRows(r) \cup {n} ELSE ProjectedRows(r)
           /\ \A i \in ProjectedRows(r) \cup StateRows(r) :
                  journal'[ProjectOf[r]][i] = journal[ProjectOf[r]][i]
           /\ e.run = r => \A i \in ProjectedRows(r) \cup StateRows(r) : i \in Nat /\ i < n
<1>1. ProjectOf[r] \in Project
  BY RunKernelAssumption
<1>2. CASE ProjectOf[r] = pr
  BY <1>2 DEF AppendsRow, StateRows, ProjectedRows
<1>3. CASE ProjectOf[r] # pr
  <2>1. journal'[ProjectOf[r]] = journal[ProjectOf[r]] /\ e.run # r
    BY <1>1, <1>3 DEF AppendsRow
  <2> QED
    BY <2>1 DEF StateRows, ProjectedRows, Rows
<1> QED
  BY <1>2, <1>3

LEMMA RowsUnchanged ==
    ASSUME UNCHANGED storeVars
    PROVE  /\ \A pr : Rows(pr)' = Rows(pr)
           /\ \A r : StateRows(r)' = StateRows(r) /\ ProjectedRows(r)' = ProjectedRows(r)
BY DEF storeVars, Rows, StateRows, ProjectedRows

-----------------------------------------------------------------------------
(* Idempotency keys *)

LEMMA RowOfZero ==
    ASSUME TypeOK, NEW pr \in Project, NEW key, RowOf(pr, key) = 0, key # NoKey
    PROVE  \A i \in Rows(pr) : journal[pr][i].key # key
<1> SUFFICES ASSUME \E i \in Rows(pr) : journal[pr][i].key = key PROVE FALSE
  OBVIOUS
<1>1. RowOf(pr, key) \in Rows(pr)
  BY DEF RowOf
<1> QED
  BY <1>1 DEF Rows, TypeOK

LEMMA KeyStep == TypeOK /\ KeyRecordedOnce /\ [Next]_vars => KeyRecordedOnce'
<1> SUFFICES ASSUME TypeOK, KeyRecordedOnce, [Next]_vars PROVE KeyRecordedOnce'
  OBVIOUS
<1>1. CASE UNCHANGED storeVars
  BY <1>1, RowsUnchanged DEF KeyRecordedOnce, storeVars
<1>2. ASSUME NEW p \in Proc, AppendEvent(p) PROVE KeyRecordedOnce'
  <2>1. PICK e \in Event, pr \in Project, n \in Nat \ {0} :
           RowOf(pr, e.key) = 0 /\ AppendsRow(e, pr, n)
    BY <1>2, AppendRows
  <2>2. e.key # NoKey => \A i \in Rows(pr) : journal[pr][i].key # e.key
    BY <2>1, RowOfZero
  <2>3. ASSUME NEW q \in Project \ {pr}, NEW i \in Rows(q)', NEW j \in Rows(q)',
               journal'[q][i].key = journal'[q][j].key, journal'[q][i].key # NoKey
        PROVE  i = j
    BY <2>1, <2>3 DEF KeyRecordedOnce, Rows, AppendsRow
  <2>4. ASSUME NEW i \in Rows(pr)', NEW j \in Rows(pr)',
               journal'[pr][i].key = journal'[pr][j].key, journal'[pr][i].key # NoKey
        PROVE  i = j
    <3>1. CASE i = n \/ j = n
      BY <2>1, <2>2, <2>4, <3>1 DEF AppendsRow
    <3>2. CASE i \in Rows(pr) /\ j \in Rows(pr)
      BY <2>1, <2>4, <3>2 DEF KeyRecordedOnce, AppendsRow
    <3> QED
      BY <2>1, <2>4, <3>1, <3>2 DEF AppendsRow
  <2> QED
    BY <2>3, <2>4 DEF KeyRecordedOnce
<1> QED
  BY <1>1, <1>2, StoreStep

\* A key is recorded at most once, although every command reads it outside the
\* transaction first: what decides is the lookup inside BEGIN IMMEDIATE.
THEOREM KeysRecordedOnce == Spec => []KeyRecordedOnce
<1>1. Init => KeyRecordedOnce
  BY DEF Init, KeyRecordedOnce, Rows
<1> QED
  BY <1>1, TypeInit, TypeStep, KeyStep, PTL DEF Spec

-----------------------------------------------------------------------------
(* The journal as a history, and the projections as its image *)

HistoryInv == TypeOK /\ ProjectionIsHistory /\ HistoryLegal

\* A run whose row is in the table has been prepared, and only such a run.
LEMMA KnownHasRows ==
    ASSUME TypeOK, ProjectionIsHistory, NEW r \in Run
    PROVE  /\ StateRows(r) = {} => proj[r] = NoProjection /\ proj[r].state = Unknown
           /\ StateRows(r) # {} => proj[r].state \in States /\ proj[r] # NoProjection
<1>1. CASE StateRows(r) = {}
  BY <1>1 DEF ProjectionIsHistory, NoProjection
<1>2. CASE StateRows(r) # {}
  <2>1. PICK j \in StateRows(r) : proj[r].state = journal[ProjectOf[r]][j].to
    BY <1>2 DEF ProjectionIsHistory
  <2>2. journal[ProjectOf[r]][j] \in Event
    BY <2>1, RunKernelAssumption DEF StateRows, Rows, TypeOK
  <2>3. proj[r].state \in States
    BY <2>1, <2>2 DEF Event
  <2> QED
    BY <1>2, <2>3, StatesFacts DEF NoProjection
<1> QED
  BY <1>1, <1>2

LEMMA HistoryInit == Init => HistoryInv
<1> SUFFICES ASSUME Init PROVE HistoryInv
  OBVIOUS
<1>1. ASSUME NEW r \in Run PROVE StateRows(r) = {} /\ proj[r] = NoProjection
  <2>1. Rows(ProjectOf[r]) = {}
    BY RunKernelAssumption DEF Init, Rows
  <2> QED
    BY <2>1 DEF Init, StateRows
<1> QED
  BY <1>1, TypeInit DEF HistoryInv, ProjectionIsHistory, HistoryLegal

LEMMA HistoryStep == HistoryInv /\ [Next]_vars => HistoryInv'
<1> SUFFICES ASSUME HistoryInv, [Next]_vars PROVE HistoryInv'
  OBVIOUS
<1>1. TypeOK /\ TypeOK'
  BY TypeStep DEF HistoryInv
<1>2. CASE UNCHANGED storeVars
  <2>1. /\ \A r : StateRows(r)' = StateRows(r) /\ ProjectedRows(r)' = ProjectedRows(r)
        /\ journal' = journal /\ proj' = proj
    BY <1>2, RowsUnchanged DEF storeVars
  <2>2. ProjectionIsHistory'
    BY <2>1 DEF HistoryInv, ProjectionIsHistory, IsLatest
  <2>3. HistoryLegal'
    BY <2>1 DEF HistoryInv, HistoryLegal, IsLatest
  <2> QED
    BY <1>1, <2>2, <2>3 DEF HistoryInv
<1>3. ASSUME NEW p \in Proc, AppendEvent(p) PROVE HistoryInv'
  <2>0. PICK e \in Event, pr \in Project, n \in Nat \ {0} : AppendsRow(e, pr, n)
    BY <1>1, <1>3, AppendRows
  <2>1. /\ e.run \in Run
        /\ journal'[pr][n] = e
        /\ proj' = Projected(proj, e, n)
        /\ Applies(proj, e)
    BY <2>0 DEF AppendsRow, Event
  <2>2. \A r \in Run :
           /\ StateRows(r)' = IF e.run = r /\ e.type \in {"run.prepared", "run.transitioned"}
                              THEN StateRows(r) \cup {n} ELSE StateRows(r)
           /\ ProjectedRows(r)' = IF e.run = r /\ e.type # "other"
                                  THEN ProjectedRows(r) \cup {n} ELSE ProjectedRows(r)
           /\ \A i \in ProjectedRows(r) \cup StateRows(r) :
                  journal'[ProjectOf[r]][i] = journal[ProjectOf[r]][i]
           /\ e.run = r => \A i \in ProjectedRows(r) \cup StateRows(r) : i \in Nat /\ i < n
    BY <1>1, <2>0, AppendRunRows
  <2>3. \A r \in Run : e.run = r => pr = ProjectOf[r]
    BY <2>0 DEF AppendsRow
  <2>4. e.type \in Types /\ proj \in [Run -> Projection]
    BY <1>1, <2>1 DEF Event, TypeOK
  <2>5. \A r \in Run : r # e.run \/ e.type = "other" => proj'[r] = proj[r]
    BY <2>1, <2>4 DEF Projected
  <2>6. e.type # "other" =>
          /\ proj'[e.run].last = n
          /\ proj'[e.run].state = IF e.type = "x_run_route_resolved"
                                  THEN proj[e.run].state ELSE e.to
    BY <2>1, <2>4 DEF Projected, Projection
  <2>7. ASSUME NEW r \in Run
        PROVE  IF StateRows(r)' = {}
               THEN proj'[r] = NoProjection
               ELSE /\ \E j \in StateRows(r)' : /\ IsLatest(j, StateRows(r)')
                                               /\ proj'[r].state = journal'[ProjectOf[r]][j].to
                    /\ IsLatest(proj'[r].last, ProjectedRows(r)')
    <3>1. CASE r # e.run \/ e.type = "other"
      <4>1. /\ StateRows(r)' = StateRows(r) /\ ProjectedRows(r)' = ProjectedRows(r)
            /\ proj'[r] = proj[r]
            /\ \A i \in StateRows(r) : journal'[ProjectOf[r]][i] = journal[ProjectOf[r]][i]
        BY <2>2, <2>5, <3>1
      <4> QED
        BY <4>1 DEF HistoryInv, ProjectionIsHistory, IsLatest
    <3>2. CASE r = e.run /\ e.type \in {"run.prepared", "run.transitioned"}
      <4>1. /\ StateRows(r)' = StateRows(r) \cup {n}
            /\ ProjectedRows(r)' = ProjectedRows(r) \cup {n}
            /\ \A i \in ProjectedRows(r) \cup StateRows(r) : i \in Nat /\ i < n
        BY <2>2, <3>2
      <4>2. IsLatest(n, StateRows(r)') /\ IsLatest(n, ProjectedRows(r)')
        BY <2>1, <4>1 DEF IsLatest
      <4>3. proj'[r].state = journal'[ProjectOf[r]][n].to /\ proj'[r].last = n
        BY <2>1, <2>3, <2>6, <3>2
      <4> QED
        BY <4>1, <4>2, <4>3
    <3>3. CASE r = e.run /\ e.type = "x_run_route_resolved"
      <4>1. /\ StateRows(r)' = StateRows(r)
            /\ ProjectedRows(r)' = ProjectedRows(r) \cup {n}
            /\ \A i \in ProjectedRows(r) \cup StateRows(r) : i \in Nat /\ i < n
            /\ \A i \in StateRows(r) : journal'[ProjectOf[r]][i] = journal[ProjectOf[r]][i]
        BY <2>2, <3>3
      <4>2. proj[r].state = "prepared"
        BY <2>1, <3>3 DEF Applies
      <4>3. StateRows(r) # {}
        BY <1>1, <4>2, KnownHasRows, StatesFacts DEF HistoryInv
      <4>4. IsLatest(n, ProjectedRows(r)')
        BY <2>1, <4>1 DEF IsLatest
      <4>5. proj'[r].state = proj[r].state /\ proj'[r].last = n
        BY <2>6, <3>3
      <4>6. PICK j \in StateRows(r) : /\ IsLatest(j, StateRows(r))
                                     /\ proj[r].state = journal[ProjectOf[r]][j].to
        BY <4>3 DEF HistoryInv, ProjectionIsHistory
      <4> QED
        BY <4>1, <4>3, <4>4, <4>5, <4>6
    <3> QED
      BY <2>4, <3>1, <3>2, <3>3 DEF Types
  <2>8. ProjectionIsHistory'
    BY <2>7 DEF ProjectionIsHistory, IsLatest
  <2>9. ASSUME NEW r \in Run, NEW i \in StateRows(r)'
        PROVE  LET ev == journal'[ProjectOf[r]][i]
                   before == {k \in StateRows(r)' : k < i}
               IN IF ev.type = "run.prepared" THEN before = {}
                  ELSE /\ Lifecycle!CanTransition(ev.from, ev.to)
                       /\ \E j \in before : /\ IsLatest(j, before)
                                            /\ journal'[ProjectOf[r]][j].to = ev.from
    <3>1. CASE i \in StateRows(r)
      <4>1. {k \in StateRows(r)' : k < i} = {k \in StateRows(r) : k < i}
        BY <2>1, <2>2, <3>1
      <4>2. \A k \in StateRows(r) : journal'[ProjectOf[r]][k] = journal[ProjectOf[r]][k]
        BY <2>2
      <4> QED
        BY <3>1, <4>1, <4>2 DEF HistoryInv, HistoryLegal
    <3>2. CASE i \notin StateRows(r)
      <4>1. /\ i = n /\ e.run = r /\ e.type \in {"run.prepared", "run.transitioned"}
            /\ \A k \in StateRows(r) : k \in Nat /\ k < n
        BY <2>2, <3>2
      <4>2. {k \in StateRows(r)' : k < i} = StateRows(r)
        BY <2>1, <2>2, <4>1
      <4>3. journal'[ProjectOf[r]][i] = e
        BY <2>1, <2>3, <4>1
      <4>4. CASE e.type = "run.prepared"
        <5>1. proj[r] = NoProjection
          BY <2>1, <4>1, <4>4 DEF Applies
        <5>2. StateRows(r) = {}
          BY <1>1, <5>1, KnownHasRows DEF HistoryInv
        <5> QED
          BY <4>2, <4>3, <4>4, <5>2
      <4>5. CASE e.type = "run.transitioned"
        <5>1. proj[r].state = e.from /\ Lifecycle!CanTransition(e.from, e.to)
          BY <2>1, <4>1, <4>5 DEF Applies
        <5>2. StateRows(r) # {}
          BY <1>1, <5>1, KnownHasRows, StatesFacts DEF HistoryInv
        <5>3. PICK j \in StateRows(r) : /\ IsLatest(j, StateRows(r))
                                       /\ proj[r].state = journal[ProjectOf[r]][j].to
          BY <5>2 DEF HistoryInv, ProjectionIsHistory
        <5>4. journal'[ProjectOf[r]][j].to = e.from
          BY <2>2, <5>1, <5>3
        <5> QED
          BY <4>2, <4>3, <4>5, <5>1, <5>3, <5>4
      <4> QED
        BY <4>1, <4>4, <4>5
    <3> QED
      BY <3>1, <3>2
  <2>10. HistoryLegal'
    BY <2>9 DEF HistoryLegal, IsLatest
  <2> QED
    BY <1>1, <2>8, <2>10 DEF HistoryInv
<1> QED
  BY <1>2, <1>3, StoreStep

\* The journal of every run is a walk of the lifecycle table that starts with its
\* preparation, for any number of processes deciding transitions from stale reads.
THEOREM JournalIsLegal == Spec => []HistoryLegal
BY HistoryInit, HistoryStep, PTL DEF Spec, HistoryInv

\* The projections are the image of the journal at every moment.
THEOREM ProjectionsFollow == Spec => []ProjectionIsHistory
BY HistoryInit, HistoryStep, PTL DEF Spec, HistoryInv

-----------------------------------------------------------------------------
(* Refinement *)

LEMMA LifecycleStep == TypeOK /\ [Next]_vars => [Lifecycle!Next]_LifecycleState
<1> SUFFICES ASSUME TypeOK, [Next]_vars PROVE [Lifecycle!Next]_LifecycleState
  OBVIOUS
<1>1. CASE UNCHANGED storeVars
  BY <1>1 DEF storeVars, LifecycleState
<1>2. ASSUME NEW p \in Proc, AppendEvent(p) PROVE [Lifecycle!Next]_LifecycleState
  <2>1. PICK e \in Event, pr \in Project, n \in Nat \ {0} :
           e = Candidate(p) /\ AppendsRow(e, pr, n)
    BY <1>2, AppendRows
  <2>2. /\ e.run \in Run /\ e.type \in Types /\ e.to \in States
        /\ proj \in [Run -> Projection]
        /\ proj' = Projected(proj, e, n)
        /\ Applies(proj, e)
    BY <2>1 DEF TypeOK, Event, AppendsRow
  <2>3. e.type = "run.prepared" => e.to = "prepared"
    BY <2>1, CandidateType
  <2>4. CASE e.type = "run.prepared"
    <3>1. proj[e.run].state = Unknown
      BY <2>2, <2>4 DEF Applies, NoProjection
    <3>2. LifecycleState' = [LifecycleState EXCEPT ![e.run] = "prepared"]
      BY <2>2, <2>3, <2>4 DEF Projected, LifecycleState
    <3>3. Lifecycle!Prepare(e.run)
      BY <2>2, <3>1, <3>2 DEF Lifecycle!Prepare, LifecycleState, Unknown
    <3> QED
      BY <2>2, <3>3 DEF Lifecycle!Next
  <2>5. CASE e.type = "run.transitioned"
    <3>1. proj[e.run].state = e.from /\ Lifecycle!CanTransition(e.from, e.to)
      BY <2>2, <2>5 DEF Applies
    <3>2. LifecycleState' = [LifecycleState EXCEPT ![e.run] = e.to]
      BY <2>2, <2>5 DEF Projected, LifecycleState
    <3>3. Lifecycle!Transition(e.run, e.to)
      BY <2>2, <3>1, <3>2 DEF Lifecycle!Transition, LifecycleState
    <3> QED
      BY <2>2, <3>3 DEF Lifecycle!Next, States
  <2>6. CASE e.type \in {"x_run_route_resolved", "other"}
    <3>1. \A r \in Run : proj'[r].state = proj[r].state
      BY <2>2, <2>6 DEF Projected, Projection
    <3> QED
      BY <3>1 DEF LifecycleState
  <2> QED
    BY <2>2, <2>4, <2>5, <2>6 DEF Types
<1> QED
  BY <1>1, <1>2, StoreStep

\* The store is an implementation of the lifecycle: what a reader of the
\* projections sees of a run is one preparation and then legal transitions only,
\* none of them out of a terminal state.
THEOREM StoreImplementsLifecycle == Spec => ImplementsLifecycle
<1>1. Init => Lifecycle!Init
  BY DEF Init, Lifecycle!Init, LifecycleState, NoProjection, Unknown
<1> QED
  BY <1>1, TypeInit, TypeStep, LifecycleStep, PTL
  DEF Spec, ImplementsLifecycle, Lifecycle!Spec

-----------------------------------------------------------------------------
(* What a caller was told *)

LEMMA RowOfFound ==
    ASSUME TypeOK, NEW pr \in Project, NEW key, RowOf(pr, key) # 0
    PROVE  RowOf(pr, key) \in Rows(pr) /\ journal[pr][RowOf(pr, key)].key = key
BY DEF RowOf

\* A row once written is never changed or removed.
LEMMA RecordedStays ==
    ASSUME TypeOK, [Next]_vars, NEW c \in Commands, Recorded(c)
    PROVE  Recorded(c)'
<1>1. ProjectOf[c.run] \in Project
  BY RunKernelAssumption DEF Commands, Command
<1>2. CASE UNCHANGED storeVars
  BY <1>2 DEF storeVars, Recorded, Rows
<1>3. ASSUME NEW p \in Proc, AppendEvent(p) PROVE Recorded(c)'
  <2>1. PICK e \in Event, pr \in Project, n \in Nat \ {0} : AppendsRow(e, pr, n)
    BY <1>3, AppendRows
  <2>2. CASE pr = ProjectOf[c.run]
    BY <2>1, <2>2 DEF AppendsRow, Recorded
  <2>3. CASE pr # ProjectOf[c.run]
    <3>1. journal'[ProjectOf[c.run]] = journal[ProjectOf[c.run]]
      BY <1>1, <2>1, <2>3 DEF AppendsRow
    <3> QED
      BY <3>1 DEF Recorded, Rows
  <2> QED
    BY <2>2, <2>3
<1> QED
  BY <1>2, <1>3, StoreStep

LEMMA EndOutcome ==
    ASSUME TypeOK, NEW p \in Proc, NEW result \in Outcomes, End(p, result)
    PROVE  /\ \A q \in Proc \ {p} : cmd'[q] = cmd[q] /\ outcome'[q] = outcome[q]
           /\ outcome'[p] = result
           /\ result = "returned" => cmd'[p] = cmd[p]
BY DEF TypeOK, End

\* A process whose last outcome is "returned" had it before, or returns just now
\* in one of three ways.
Returns(q) == End(q, "returned") /\ (Replay(q) \/ AnswerDuplicate(q) \/ AppendEvent(q))

LEMMA WhoReturned ==
    ASSUME TypeOK, [Next]_vars, NEW q \in Proc, outcome'[q] = "returned"
    PROVE  cmd'[q] = cmd[q] /\ (outcome[q] = "returned" \/ Returns(q))
<1> USE DEF Outcomes
<1>1. ASSUME NEW p \in Proc, NEW result \in Outcomes, End(p, result),
             result # "returned" \/ Replay(p) \/ AnswerDuplicate(p) \/ AppendEvent(p)
      PROVE  cmd'[q] = cmd[q] /\ (outcome[q] = "returned" \/ Returns(q))
  <2>1. CASE p = q
    <3>1. result = "returned"
      BY <1>1, <2>1, EndOutcome
    <3> QED
      BY <1>1, <2>1, <3>1, EndOutcome DEF Returns
  <2>2. CASE p # q
    BY <1>1, <2>2, EndOutcome
  <2> QED
    BY <2>1, <2>2
<1>2. CASE UNCHANGED <<cmd, outcome>>
  BY <1>2
<1>3. ASSUME NEW p \in Proc, NEW c \in Commands, Begin(p, c)
      PROVE  cmd'[q] = cmd[q] /\ outcome[q] = "returned"
  BY <1>3 DEF Begin, TypeOK
<1>4. ASSUME NEW p \in Proc, Replay(p) \/ AnswerDuplicate(p) \/ AppendEvent(p)
      PROVE  cmd'[q] = cmd[q] /\ (outcome[q] = "returned" \/ Returns(q))
  <2>1. \/ UNCHANGED <<cmd, outcome>>
        \/ \E result \in {"returned", "conflict"} : End(p, result)
    BY <1>4 DEF Replay, AnswerDuplicate, AppendEvent
  <2> QED
    BY <1>1, <1>2, <1>4, <2>1
<1>5. ASSUME NEW p \in Proc, ReadCurrent(p) \/ ReadPrior(p) \/ Refuse(p) \/ Crash(p)
      PROVE  cmd'[q] = cmd[q] /\ (outcome[q] = "returned" \/ Returns(q))
  <2>1. \/ UNCHANGED <<cmd, outcome>>
        \/ \E result \in {"rejected", "none"} : End(p, result)
    BY <1>5 DEF ReadCurrent, ReadPrior, Refuse, Crash
  <2> QED
    BY <1>1, <1>2, <2>1
<1> QED
  BY <1>2, <1>3, <1>4, <1>5 DEF Next, vars, procVars

LEMMA ReturnsRecorded ==
    ASSUME TypeOK, [Next]_vars, NEW q \in Proc, Returns(q),
           NEW c \in Commands, c = cmd[q]
    PROVE  Recorded(c)'
<1> DEFINE pr == ProjectOf[c.run]
<1>1. pr \in Project /\ c = [type |-> c.type, run |-> c.run, to |-> c.to, key |-> c.key]
  BY RunKernelAssumption DEF Commands, Command
<1>2. outcome'[q] = "returned"
  BY EndOutcome DEF Returns, Outcomes
<1>3. CASE Replay(q)
  <2>1. PICK row : row = RowOf(pr, c.key)
    OBVIOUS
  <2>2. pc' = [pc EXCEPT ![q] = "idle"]
    BY DEF Returns, End
  <2>3. row # 0
    BY <1>3, <2>1, <2>2 DEF Replay, TypeOK
  <2>4. ~(journal[pr][row].run = c.run /\ journal[pr][row].type = c.type
            /\ journal[pr][row].to = c.to) => outcome'[q] = "conflict"
    BY <1>3, <2>1, <2>3, EndOutcome DEF Replay, Outcomes
  <2>5. row \in Rows(pr) /\ journal[pr][row].key = c.key
    BY <1>1, <2>1, <2>3, RowOfFound
  <2>6. Recorded(c)
    BY <1>1, <1>2, <2>4, <2>5 DEF Recorded
  <2> QED
    BY <2>6, RecordedStays
<1>4. CASE AnswerDuplicate(q)
  <2>1. PICK row : row = RowOf(pr, c.key)
    OBVIOUS
  <2>2. row # 0
    BY <1>4, <2>1 DEF AnswerDuplicate
  <2>3. journal[pr][row] # Candidate(q) => outcome'[q] = "conflict"
    BY <1>4, <2>1, EndOutcome DEF AnswerDuplicate, Outcomes
  <2>4. row \in Rows(pr)
    BY <1>1, <2>1, <2>2, RowOfFound
  <2>5. Recorded(c)
    BY <1>1, <1>2, <2>3, <2>4 DEF Recorded, Candidate
  <2> QED
    BY <2>5, RecordedStays
<1>5. CASE AppendEvent(q)
  <2>1. PICK e \in Event, h \in Project, n \in Nat \ {0} :
           e = Candidate(q) /\ AppendsRow(e, h, n)
    BY <1>5, AppendRows
  <2>2. /\ h = pr
        /\ [type |-> e.type, run |-> e.run, to |-> e.to, key |-> e.key] = c
    BY <1>1, <2>1 DEF Candidate, AppendsRow
  <2> QED
    BY <2>1, <2>2 DEF AppendsRow, Recorded
<1> QED
  BY <1>3, <1>4, <1>5 DEF Returns

LEMMA AcknowledgedStep ==
    TypeOK /\ AcknowledgedIsRecorded /\ [Next]_vars => AcknowledgedIsRecorded'
<1> SUFFICES ASSUME TypeOK, AcknowledgedIsRecorded, [Next]_vars,
                    NEW q \in Proc, outcome'[q] = "returned"
             PROVE  Recorded(cmd[q])'
  BY DEF AcknowledgedIsRecorded
<1>1. PICK c \in Commands : c = cmd[q]
  BY DEF TypeOK
<1>2. cmd'[q] = c
  BY <1>1, WhoReturned
<1>3. Recorded(c)'
  <2>1. CASE outcome[q] = "returned"
    BY <1>1, <2>1, RecordedStays DEF AcknowledgedIsRecorded
  <2>2. CASE Returns(q)
    BY <1>1, <2>2, ReturnsRecorded
  <2> QED
    BY <2>1, <2>2, WhoReturned
<1> QED
  BY <1>2, <1>3 DEF Recorded

\* A caller that was not told of an error finds exactly its command in the
\* journal, whether it wrote the event or was answered from an earlier one.
THEOREM AcknowledgedRecorded == Spec => []AcknowledgedIsRecorded
<1>1. Init => AcknowledgedIsRecorded
  BY DEF Init, AcknowledgedIsRecorded
<1> QED
  BY <1>1, TypeInit, TypeStep, AcknowledgedStep, PTL DEF Spec

-----------------------------------------------------------------------------
(* rebuildProjections. The rows after each event of a project's journal are  *)
(* a function of the journal; replaying it recomputes that function.         *)

\* w[n] are the rows of pr's runs after the first n of its events, each of which applied.
Replays(w, pr) ==
    /\ w[0] = [r \in Run |-> NoProjection]
    /\ \A n \in Rows(pr) : /\ Applies(w[n - 1], journal[pr][n])
                           /\ w[n] = Projected(w[n - 1], journal[pr][n], n)
    /\ \A r \in Run : ProjectOf[r] = pr => w[Len(journal[pr])][r] = proj[r]

ReplayInv ==
    \A pr \in Project :
        /\ \A n \in Rows(pr) : ProjectOf[journal[pr][n].run] = pr
        /\ \E w \in [0..Len(journal[pr]) -> [Run -> Projection]] : Replays(w, pr)

LEMMA ReplayInit == Init => ReplayInv
<1> SUFFICES ASSUME Init, NEW pr \in Project
             PROVE  /\ \A n \in Rows(pr) : ProjectOf[journal[pr][n].run] = pr
                    /\ \E w \in [0..Len(journal[pr]) -> [Run -> Projection]] : Replays(w, pr)
  BY DEF ReplayInv
<1> DEFINE empty == [r \in Run |-> NoProjection]
           w == [n \in 0..0 |-> empty]
<1>1. Len(journal[pr]) = 0 /\ Rows(pr) = {}
  BY DEF Init, Rows
<1>2. NoProjection \in Projection
  BY DEF NoProjection, Projection, States, Unknown
<1>3. w \in [0..Len(journal[pr]) -> [Run -> Projection]]
  BY <1>1, <1>2
<1>4. Replays(w, pr)
  BY <1>1 DEF Replays, Init
<1> QED
  BY <1>1, <1>3, <1>4

\* An event's rows stay rows, and depend on the row of its run alone.
LEMMA ProjectedRow ==
    ASSUME NEW view \in [Run -> Projection], NEW e \in Event, NEW n \in Nat
    PROVE  /\ Projected(view, e, n) \in [Run -> Projection]
           /\ \A r \in Run : r # e.run => Projected(view, e, n)[r] = view[r]
<1>1. /\ e.run \in Run /\ e.to \in States
      /\ view[e.run].state \in States \cup {Unknown} /\ view[e.run].version + 1 \in Nat
  BY DEF Event, Projection
<1>2. CASE e.type = "other"
  BY <1>2 DEF Projected
<1>3. CASE e.type # "other"
  <2> DEFINE row == [state |-> IF e.type = "x_run_route_resolved"
                              THEN view[e.run].state ELSE e.to,
                     version |-> view[e.run].version + 1, last |-> n]
  <2>1. row \in Projection
    BY <1>1 DEF Projection
  <2>2. Projected(view, e, n) = [view EXCEPT ![e.run] = row]
    BY <1>3 DEF Projected
  <2> HIDE DEF row
  <2> QED
    BY <1>1, <2>1, <2>2
<1> QED
  BY <1>2, <1>3

LEMMA AlikeRow ==
    ASSUME NEW v \in [Run -> Projection], NEW w \in [Run -> Projection],
           NEW e \in Event, v[e.run] = w[e.run], NEW n \in Nat
    PROVE  /\ Applies(v, e) <=> Applies(w, e)
           /\ Projected(v, e, n)[e.run] = Projected(w, e, n)[e.run]
<1>1. e.run \in Run
  BY DEF Event
<1> QED
  BY <1>1 DEF Applies, Projected

LEMMA ReplayAppend ==
    ASSUME TypeOK, ReplayInv, NEW p \in Proc, AppendEvent(p)
    PROVE  ReplayInv'
<1> DEFINE e == Candidate(p)
           at == ProjectOf[e.run]
           n == Len(journal[at]) + 1
<1>1. e \in Event /\ e.run \in Run /\ at \in Project
  BY CandidateType, RunKernelAssumption DEF Event
<1>2. journal \in [Project -> Seq(Event)] /\ proj \in [Run -> Projection]
  BY DEF TypeOK
<1>3. /\ Applies(proj, e) /\ proj' = Projected(proj, e, n)
      /\ journal' = [journal EXCEPT ![at] = Append(@, e)]
  BY DEF AppendEvent
<1>4. n \in Nat /\ n > 0 /\ Len(journal[at]) = n - 1
  BY <1>1, <1>2
<1> HIDE DEF e, at, n
<1>5. /\ proj' \in [Run -> Projection]
      /\ \A r \in Run : r # e.run => proj'[r] = proj[r]
  BY <1>1, <1>2, <1>3, <1>4, ProjectedRow
<1> SUFFICES ASSUME NEW pr \in Project
             PROVE  (/\ \A k \in Rows(pr) : ProjectOf[journal[pr][k].run] = pr
                     /\ \E w \in [0..Len(journal[pr]) -> [Run -> Projection]] : Replays(w, pr))'
  BY DEF ReplayInv
<1>6. /\ \A k \in Rows(pr) : ProjectOf[journal[pr][k].run] = pr
      /\ \E w \in [0..Len(journal[pr]) -> [Run -> Projection]] : Replays(w, pr)
  BY DEF ReplayInv
<1>7. CASE pr # at
  <2>1. journal'[pr] = journal[pr] /\ Rows(pr)' = Rows(pr)
    BY <1>2, <1>3, <1>7 DEF Rows
  <2>2. \A r \in Run : ProjectOf[r] = pr => proj'[r] = proj[r]
    BY <1>5, <1>7 DEF at
  <2> QED
    BY <1>6, <2>1, <2>2 DEF Replays
<1>8. CASE pr = at
  <2>1. /\ journal'[pr] = Append(journal[pr], e) /\ Len(journal[pr]) = n - 1
        /\ journal[pr] \in Seq(Event)
    BY <1>1, <1>2, <1>3, <1>4, <1>8
  <2>2. /\ Len(journal'[pr]) = n /\ journal'[pr][n] = e
        /\ \A k \in 1..(n - 1) : journal'[pr][k] = journal[pr][k]
        /\ Rows(pr)' = 1..n /\ Rows(pr) = 1..(n - 1)
    BY <1>4, <2>1 DEF Rows
  <2>3. PICK w \in [0..(n - 1) -> [Run -> Projection]] : Replays(w, pr)
    BY <1>6, <2>1
  <2> DEFINE last == Projected(w[n - 1], e, n)
             x == [k \in 0..n |-> IF k = n THEN last ELSE w[k]]
  <2>4. w[n - 1] \in [Run -> Projection] /\ n - 1 \in 0..(n - 1)
    BY <1>4
  <2>5. w[n - 1][e.run] = proj[e.run]
    BY <1>1, <1>8, <2>1, <2>3 DEF Replays, at
  <2>6. Applies(w[n - 1], e) /\ last[e.run] = proj'[e.run]
    BY <1>1, <1>2, <1>3, <1>4, <2>4, <2>5, AlikeRow
  <2>7. last \in [Run -> Projection] /\ \A r \in Run : r # e.run => last[r] = w[n - 1][r]
    BY <1>1, <1>4, <2>4, ProjectedRow
  <2> HIDE DEF last
  <2>8. x \in [0..n -> [Run -> Projection]]
    BY <1>4, <2>7
  <2>9. x[n] = last /\ \A k \in 0..(n - 1) : x[k] = w[k]
    BY <1>4
  <2> HIDE DEF x
  <2>15. PICK y \in [0..n -> [Run -> Projection]] : y = x
    BY <2>8
  <2>10. y[0] = [r \in Run |-> NoProjection]
    BY <1>4, <2>3, <2>9, <2>15 DEF Replays
  <2>11. ASSUME NEW k \in 1..n
         PROVE  /\ Applies(y[k - 1], journal'[pr][k])
                /\ y[k] = Projected(y[k - 1], journal'[pr][k], k)
    <3>1. y[k - 1] = w[k - 1]
      BY <1>4, <2>9, <2>15
    <3>2. CASE k = n
      BY <2>2, <2>6, <2>9, <2>15, <3>1, <3>2 DEF last
    <3>3. CASE k # n
      <4>1. k \in Rows(pr) /\ y[k] = w[k] /\ journal'[pr][k] = journal[pr][k]
        BY <1>4, <2>2, <2>9, <2>15, <3>3
      <4> QED
        BY <2>3, <3>1, <4>1 DEF Replays
    <3> QED
      BY <3>2, <3>3
  <2>12. ASSUME NEW r \in Run, ProjectOf[r] = pr PROVE y[n][r] = proj'[r]
    <3>1. w[n - 1][r] = proj[r]
      BY <2>1, <2>3, <2>12 DEF Replays
    <3> QED
      BY <1>5, <2>6, <2>7, <2>9, <2>15, <3>1
  <2>13. Replays(y, pr)'
    BY <2>2, <2>10, <2>11, <2>12 DEF Replays
  <2>14. \A k \in Rows(pr)' : ProjectOf[journal'[pr][k].run] = pr
    <3> SUFFICES ASSUME NEW k \in 1..n PROVE ProjectOf[journal'[pr][k].run] = pr
      BY <2>2
    <3>1. CASE k = n
      BY <1>8, <2>2, <3>1 DEF at
    <3>2. CASE k # n
      <4>1. k \in 1..(n - 1)
        BY <1>4, <3>2
      <4> QED
        BY <1>6, <2>2, <4>1
    <3> QED
      BY <3>1, <3>2
  <2> QED
    BY <2>2, <2>13, <2>14, <2>15
<1> QED
  BY <1>7, <1>8

\* One turn of the replay.
Turn(prev, e, n) ==
    IF prev.ok /\ Applies(prev.rows, e)
    THEN [ok |-> TRUE, rows |-> Projected(prev.rows, e, n)]
    ELSE [ok |-> FALSE, rows |-> prev.rows]

\* v is what the replay of pr's journal goes through.
IsView(v, pr) ==
    v = [n \in 0..Len(journal[pr]) |-> IF n = 0 THEN [ok |-> TRUE, rows |-> Cleared(pr)]
                                       ELSE Turn(v[n - 1], journal[pr][n], n)]

LEMMA ReplayedIsView ==
    ASSUME NEW pr
    PROVE  Replayed(pr) = (CHOOSE v : IsView(v, pr))[Len(journal[pr])]
BY DEF Replayed, IsView, Turn

\* A replay goes through the same rows every time.
LEMMA ViewIsUnique ==
    ASSUME NEW pr, Len(journal[pr]) \in Nat, NEW v, NEW w, IsView(v, pr), IsView(w, pr)
    PROVE  v = w
<1> DEFINE len == Len(journal[pr])
           other == {n \in 0..len : v[n] # w[n]}
<1>1. /\ \A n \in 0..len : v[n] = IF n = 0 THEN [ok |-> TRUE, rows |-> Cleared(pr)]
                                  ELSE Turn(v[n - 1], journal[pr][n], n)
      /\ \A n \in 0..len : w[n] = IF n = 0 THEN [ok |-> TRUE, rows |-> Cleared(pr)]
                                  ELSE Turn(w[n - 1], journal[pr][n], n)
      /\ v = [n \in 0..len |-> v[n]] /\ w = [n \in 0..len |-> w[n]]
  BY DEF IsView
<1>2. ASSUME other # {} PROVE FALSE
  <2>1. other \subseteq Nat
    OBVIOUS
  <2>2. IsWellFoundedOn(OpToRel(<, Nat), Nat)
    BY NatLessThanWellFounded
  <2>3. PICK n \in other : \A m \in other : ~(<<m, n>> \in OpToRel(<, Nat))
    BY <1>2, <2>1, <2>2, WFMin
  <2>4. \A m \in other : ~(m < n)
    BY <2>1, <2>3 DEF OpToRel
  <2>5. n # 0
    BY <1>1
  <2>6. n - 1 \in 0..len /\ n - 1 < n
    BY <2>5
  <2>7. v[n - 1] = w[n - 1]
    BY <2>4, <2>6
  <2> QED
    BY <1>1, <2>5, <2>7
<1> QED
  BY <1>1, <1>2

LEMMA Reproduces ==
    ASSUME TypeOK, ReplayInv PROVE ReplayReproduces
<1> SUFFICES ASSUME NEW pr \in Project PROVE Replayed(pr) = [ok |-> TRUE, rows |-> proj]
  BY DEF ReplayReproduces
<1> DEFINE len == Len(journal[pr])
<1>1. /\ len \in Nat /\ journal[pr] \in Seq(Event) /\ proj \in [Run -> Projection]
      /\ Rows(pr) = 1..len
  BY DEF TypeOK, Rows
<1>2. PICK w \in [0..len -> [Run -> Projection]] : Replays(w, pr)
  BY DEF ReplayInv
<1> DEFINE rows(n) == [r \in Run |-> IF ProjectOf[r] = pr THEN w[n][r] ELSE proj[r]]
           v == [n \in 0..len |-> [ok |-> TRUE, rows |-> rows(n)]]
<1> HIDE DEF len
<1>3. rows(0) = Cleared(pr)
  BY <1>2 DEF Replays, Cleared
<1>4. ASSUME NEW n \in 1..len
      PROVE  Turn(v[n - 1], journal[pr][n], n) = [ok |-> TRUE, rows |-> rows(n)]
  <2> DEFINE e == journal[pr][n]
             old == rows(n - 1)
             new == rows(n)
  <2>1. e \in Event /\ ProjectOf[e.run] = pr /\ e.run \in Run /\ n - 1 \in 0..len /\ n \in 0..len
    <3>1. n \in Rows(pr) /\ n - 1 \in 0..len /\ n \in 0..len
      BY <1>1
    <3>2. journal[pr][n] \in Event
      BY <1>1 DEF len
    <3>3. ProjectOf[journal[pr][n].run] = pr
      BY <3>1 DEF ReplayInv
    <3> QED
      BY <3>1, <3>2, <3>3 DEF Event
  <2>2. /\ w[n - 1] \in [Run -> Projection] /\ w[n] \in [Run -> Projection]
        /\ Applies(w[n - 1], e) /\ w[n] = Projected(w[n - 1], e, n)
    BY <1>1, <1>2, <2>1 DEF Replays, len
  <2>3. old \in [Run -> Projection] /\ new \in [Run -> Projection]
    BY <1>1, <2>2
  <2>4. old[e.run] = w[n - 1][e.run] /\ new[e.run] = w[n][e.run]
    BY <2>1
  <2>5. \A r \in Run : r # e.run => new[r] = old[r]
    BY <2>1, <2>2, ProjectedRow
  <2>6. v[n - 1] = [ok |-> TRUE, rows |-> old]
    BY <2>1
  <2> HIDE DEF old, new, e, v
  <2>7. Applies(old, e) /\ Projected(old, e, n)[e.run] = new[e.run]
    BY <2>1, <2>2, <2>3, <2>4, AlikeRow
  <2>8. Projected(old, e, n) = new
    BY <2>1, <2>3, <2>5, <2>7, ProjectedRow
  <2>9. Turn(v[n - 1], e, n) = [ok |-> TRUE, rows |-> new]
    BY <2>6, <2>7, <2>8 DEF Turn
  <2> QED
    BY <2>9 DEF e, new
<1>5. IsView(v, pr)
  <2>1. ASSUME NEW n \in 0..len
        PROVE  v[n] = IF n = 0 THEN [ok |-> TRUE, rows |-> Cleared(pr)]
                      ELSE Turn(v[n - 1], journal[pr][n], n)
    <3>1. v[n] = [ok |-> TRUE, rows |-> rows(n)]
      OBVIOUS
    <3> HIDE DEF v, rows
    <3>2. n # 0 => n \in 1..len
      BY <1>1
    <3> QED
      BY <1>3, <1>4, <3>1, <3>2
  <2>2. v = [n \in 0..len |-> v[n]]
    OBVIOUS
  <2> HIDE DEF v
  <2> QED
    BY <2>1, <2>2 DEF IsView, len
<1>6. v[len] = [ok |-> TRUE, rows |-> proj]
  <2>1. v[len] = [ok |-> TRUE, rows |-> rows(len)]
    BY <1>1
  <2>2. rows(len) = proj
    BY <1>1, <1>2 DEF Replays, len
  <2> QED
    BY <2>1, <2>2
<1> HIDE DEF v
<1>7. (CHOOSE x : IsView(x, pr)) = v
  BY <1>1, <1>5, ViewIsUnique DEF len
<1> QED
  BY <1>6, <1>7, ReplayedIsView DEF len

LEMMA RebuildStutters ==
    ASSUME TypeOK, ReplayInv, NEW pr \in Project, Rebuild(pr)
    PROVE  UNCHANGED vars
<1>1. Replayed(pr) = [ok |-> TRUE, rows |-> proj]
  BY Reproduces DEF ReplayReproduces
<1> QED
  BY <1>1 DEF Rebuild, vars, storeVars

RebuildInv == TypeOK /\ ReplayInv

LEMMA RebuildStep == RebuildInv /\ [RebuildNext]_vars => RebuildInv' /\ [Next]_vars
<1> SUFFICES ASSUME RebuildInv, [RebuildNext]_vars PROVE RebuildInv' /\ [Next]_vars
  OBVIOUS
<1>1. [Next]_vars
  <2>1. ASSUME NEW pr \in Project, Rebuild(pr) PROVE UNCHANGED vars
    BY <2>1, RebuildStutters DEF RebuildInv
  <2>2. Next \/ UNCHANGED vars \/ \E pr \in Project : Rebuild(pr)
    BY DEF RebuildNext
  <2> QED
    BY <2>1, <2>2
<1>2. TypeOK'
  BY <1>1, TypeStep DEF RebuildInv
<1>3. CASE \E p \in Proc : AppendEvent(p)
  <2>1. ReplayInv'
    BY <1>3, ReplayAppend DEF RebuildInv
  <2> QED
    BY <1>1, <1>2, <2>1 DEF RebuildInv
<1>4. CASE ~\E p \in Proc : AppendEvent(p)
  <2>1. UNCHANGED storeVars
    BY <1>1, <1>4, StoreStep DEF vars
  <2>2. journal' = journal /\ proj' = proj
    BY <2>1 DEF storeVars
  <2>3. \A w, pr : Replays(w, pr) => Replays(w, pr)'
    BY <2>2 DEF Replays, Rows
  <2>4. ReplayInv'
    BY <2>2, <2>3 DEF RebuildInv, ReplayInv, Rows
  <2> QED
    BY <1>1, <1>2, <2>4 DEF RebuildInv
<1> QED
  BY <1>3, <1>4

LEMMA RebuildInvariant == RebuildSpec => []RebuildInv
<1>1. Init => RebuildInv
  BY TypeInit, ReplayInit DEF RebuildInv
<1> QED
  BY <1>1, RebuildStep, PTL DEF RebuildSpec

(* At any moment, whatever was appended and in whatever order: the whole     *)
(* journal of a project can be replayed, and doing so gives the rows that    *)
(* the appends have left.                                                    *)
THEOREM ReplayIsExact == RebuildSpec => []ReplayReproduces
<1>1. RebuildInv => ReplayReproduces
  BY Reproduces DEF RebuildInv
<1> QED
  BY <1>1, RebuildInvariant, PTL

(* A rebuild at any moment is not noticed by anyone: the store with rebuilds *)
(* is the store without them, and keeps all that is proved of it.            *)
THEOREM RebuildsUnnoticed == RebuildSpec => Spec
<1> QED
  BY RebuildInvariant, RebuildStep, PTL DEF RebuildSpec, Spec

-----------------------------------------------------------------------------
(* publishOutbox: what the consumer can rely on for any number of publishers, *)
(* writers, projects and rows, and any batch size.                            *)

\* Only committed rows are pending.
PendingAreRows == \A pr \in Project, n \in Nat : <<pr, n>> \in pending => n \in Rows(pr)

\* Between publish() and the UPDATE the consumer has the row at hand.
SentIsDelivered ==
    \A u \in sent : batch[u] # <<>> /\ Head(batch[u]) \in delivered

\* What comes before a row in its project was delivered or is ahead of it in batch b.
InOrder(b, rows) ==
    \A i \in 1..Len(b) : \A m \in 1..(b[i][2] - 1) :
        \/ <<b[i][1], m>> \in rows
        \/ \E j \in 1..(i - 1) : b[j] = <<b[i][1], m>>

BatchIsOrdered == \A u \in Publisher : InOrder(batch[u], delivered)

OutboxInv ==
    /\ TypeOK /\ OutboxTypeOK
    /\ PendingAreRows /\ SentIsDelivered /\ BatchIsOrdered
    /\ NoEventLost /\ DeliveredInOrder

LEMMA EmptyInOrder == \A rows : InOrder(<<>>, rows)
BY DEF InOrder

LEMMA MoreDelivered ==
    ASSUME NEW b, NEW rows, NEW more, rows \subseteq more, InOrder(b, rows)
    PROVE  InOrder(b, more)
BY Zenon DEF InOrder

LEMMA OutboxInvInit == OutboxInit => OutboxInv
<1> SUFFICES ASSUME OutboxInit PROVE OutboxInv
  OBVIOUS
<1>1. TypeOK
  BY TypeInit DEF OutboxInit
<1>2. \A pr \in Project : Rows(pr) = {}
  BY DEF OutboxInit, Init, Rows
<1>3. \A u \in Publisher : batch[u] = <<>> /\ Len(batch[u]) = 0
  BY DEF OutboxInit
<1>4. OutboxTypeOK /\ PendingAreRows /\ SentIsDelivered /\ DeliveredInOrder
  BY DEF OutboxInit, Init, OutboxTypeOK, PendingAreRows, SentIsDelivered, DeliveredInOrder
<1>5. BatchIsOrdered
  BY <1>3, EmptyInOrder DEF BatchIsOrdered
<1>6. NoEventLost
  BY <1>2 DEF NoEventLost
<1> QED
  BY <1>1, <1>4, <1>5, <1>6 DEF OutboxInv

\* A publisher leaves the journal alone, and what it takes from pending it has sent.
LEMMA PublisherTypes ==
    ASSUME TypeOK, UNCHANGED <<journal, proj, procVars>>, pending' \subseteq pending
    PROVE  TypeOK' /\ \A pr \in Project : Rows(pr)' = Rows(pr)
BY DEF TypeOK, procVars, Rows

\* Batches stay in order as they are given up and as more is delivered.
LEMMA OrderStays ==
    ASSUME BatchIsOrdered, delivered \subseteq delivered',
           \A v \in Publisher : batch'[v] = batch[v] \/ batch'[v] = <<>>
    PROVE  BatchIsOrdered'
BY EmptyInOrder, MoreDelivered DEF BatchIsOrdered

\* A command's step: one row more, and it is pending, or the tables as they were.
LEMMA CommandKeeps == OutboxInv /\ [Next]_vars /\ UNCHANGED outboxVars => OutboxInv'
<1> SUFFICES ASSUME OutboxInv, [Next]_vars, UNCHANGED outboxVars PROVE OutboxInv'
  OBVIOUS
<1>1. TypeOK'
  BY TypeStep DEF OutboxInv
<1>2. batch' = batch /\ sent' = sent /\ delivered' = delivered
  BY DEF outboxVars
<1>3. OutboxTypeOK' /\ SentIsDelivered' /\ DeliveredInOrder'
  BY <1>2 DEF OutboxInv, OutboxTypeOK, SentIsDelivered, DeliveredInOrder
<1>4. BatchIsOrdered'
  BY <1>2, OrderStays DEF OutboxInv
<1>5. CASE UNCHANGED storeVars
  BY <1>1, <1>2, <1>3, <1>4, <1>5
  DEF OutboxInv, storeVars, PendingAreRows, NoEventLost, Rows
<1>6. ASSUME NEW p \in Proc, AppendEvent(p)
      PROVE  PendingAreRows' /\ NoEventLost'
  <2>1. ProjectOf[Candidate(p).run] \in Project
    BY CandidateType DEF OutboxInv, Candidate
  <2>2. PICK pr \in Project, e \in Event :
           /\ journal' = [journal EXCEPT ![pr] = Append(@, e)]
           /\ pending' = pending \cup {<<pr, Len(journal[pr]) + 1>>}
    BY <1>6, <2>1, CandidateType DEF AppendEvent, OutboxInv
  <2>3. journal \in [Project -> Seq(Event)] /\ Len(journal[pr]) \in Nat
    BY DEF OutboxInv, TypeOK
  <2>4. /\ Len(journal'[pr]) = Len(journal[pr]) + 1
        /\ \A q \in Project \ {pr} : journal'[q] = journal[q]
    BY <2>2, <2>3
  <2>5. ASSUME NEW q \in Project, NEW n \in Nat
        PROVE  n \in Rows(q)' <=> n \in Rows(q) \/ <<q, n>> = <<pr, Len(journal[pr]) + 1>>
    <3>1. CASE q = pr
      BY <2>3, <2>4, <3>1 DEF Rows
    <3>2. CASE q # pr
      BY <2>4, <3>2 DEF Rows
    <3> QED
      BY <3>1, <3>2
  <2>6. PendingAreRows'
    BY <2>2, <2>5 DEF OutboxInv, PendingAreRows
  <2>7. ASSUME NEW q \in Project, NEW n \in Rows(q)'
        PROVE  <<q, n>> \in pending' \cup delivered'
    <3>1. n \in Nat
      BY DEF Rows
    <3> QED
      BY <1>2, <2>2, <2>5, <3>1 DEF OutboxInv, NoEventLost
  <2> QED
    BY <2>6, <2>7 DEF NoEventLost
<1> QED
  BY <1>1, <1>3, <1>4, <1>5, <1>6, StoreStep DEF OutboxInv

\* What is read is in order, and what is not in the batch before a row was delivered.
LEMMA ReadKeeps ==
    ASSUME OutboxInv, NEW u \in Publisher, ReadBatch(u)
    PROVE  OutboxInv'
<1>1. PICK k \in 1..Limit : \E b \in [1..k -> pending] :
          OldestFirst(b, pending) /\ batch' = [batch EXCEPT ![u] = b]
  BY DEF ReadBatch
<1>2. PICK b \in [1..k -> pending] :
          OldestFirst(b, pending) /\ batch' = [batch EXCEPT ![u] = b]
  BY <1>1
<1>3. /\ batch[u] = <<>>
      /\ UNCHANGED <<journal, proj, procVars, pending, sent, delivered>>
  BY DEF ReadBatch, vars, storeVars
<1>4. TypeOK' /\ \A pr \in Project : Rows(pr)' = Rows(pr)
  BY <1>3, PublisherTypes DEF OutboxInv
<1>5. k \in Nat /\ pending \subseteq Project \X Nat /\ b \in Seq(Project \X Nat) /\ Len(b) = k
  BY OutboxAssumption DEF OutboxInv, TypeOK
<1>6. OutboxTypeOK'
  BY <1>2, <1>3, <1>5 DEF OutboxInv, OutboxTypeOK
<1>7. u \notin sent
  BY <1>3 DEF OutboxInv, SentIsDelivered
<1>8. SentIsDelivered'
  BY <1>2, <1>3, <1>7 DEF OutboxInv, SentIsDelivered, OutboxTypeOK
<1>9. ASSUME NEW i \in 1..k, NEW m \in 1..(b[i][2] - 1)
      PROVE  \/ <<b[i][1], m>> \in delivered
             \/ \E j \in 1..(i - 1) : b[j] = <<b[i][1], m>>
  <2> DEFINE pr == b[i][1]
  <2>1. b[i] \in pending /\ pr \in Project /\ b[i][2] \in Nat /\ b[i] = <<pr, b[i][2]>>
    BY <1>5
  <2>2. b[i][2] \in Rows(pr) /\ m \in Nat
    <3>1. <<pr, b[i][2]>> \in pending
      BY <2>1
    <3> HIDE DEF pr
    <3> QED
      BY <2>1, <3>1 DEF OutboxInv, PendingAreRows
  <2>3. m \in Rows(pr)
    BY <2>1, <2>2 DEF Rows
  <2>4. CASE <<pr, m>> \in delivered
    BY <2>4
  <2>5. CASE <<pr, m>> \in pending
    <3>1. \A a, c \in Project \X Nat : Before(a, c) => ~Before(c, a) /\ a # c
      BY OutboxAssumption DEF Before
    <3>2. <<pr, m>> \in Project \X Nat /\ Before(<<pr, m>>, b[i])
      BY <2>1, <2>2 DEF Before
    <3>3. PICK j \in 1..k : b[j] = <<pr, m>>
      BY <1>2, <1>5, <2>1, <2>5, <3>1, <3>2 DEF OldestFirst
    <3>4. i < j => Before(b[i], b[j])
      BY <1>2, <1>5 DEF OldestFirst
    <3>5. j # i /\ ~(i < j)
      BY <2>1, <3>1, <3>2, <3>3, <3>4
    <3> QED
      BY <3>3, <3>5
  <2> QED
    BY <2>1, <2>3, <2>4, <2>5 DEF OutboxInv, NoEventLost
<1>10. InOrder(b, delivered)
  BY <1>5, <1>9 DEF InOrder
<1>12. BatchIsOrdered'
  BY <1>2, <1>3, <1>10 DEF OutboxInv, BatchIsOrdered, OutboxTypeOK
<1>11. PendingAreRows' /\ NoEventLost' /\ DeliveredInOrder'
  BY <1>3, <1>4 DEF OutboxInv, PendingAreRows, NoEventLost, DeliveredInOrder
<1> QED
  BY <1>4, <1>6, <1>8, <1>11, <1>12 DEF OutboxInv

\* Delivering the first row of a batch leaves no hole in what was delivered.
LEMMA DeliverKeeps ==
    ASSUME OutboxInv, NEW u \in Publisher, batch[u] # <<>>,
           delivered' = delivered \cup {Head(batch[u])}
    PROVE  /\ Head(batch[u]) \in Project \X Nat
           /\ delivered' \subseteq Project \X Nat
           /\ DeliveredInOrder'
<1> DEFINE row == Head(batch[u])
<1>1. batch[u] \in Seq(Project \X Nat) /\ delivered \subseteq Project \X Nat
  BY DEF OutboxInv, OutboxTypeOK
<1>2. 1 \in 1..Len(batch[u]) /\ row = batch[u][1] /\ row \in Project \X Nat
  BY <1>1
<1>3. row = <<row[1], row[2]>> /\ row[2] \in Nat
  BY <1>2
<1>4. \A m \in 1..(row[2] - 1) : <<row[1], m>> \in delivered
  BY <1>2 DEF OutboxInv, BatchIsOrdered, InOrder
<1>5. \A m \in 1..row[2] : m = row[2] \/ m \in 1..(row[2] - 1)
  BY <1>3
<1>6. \A m \in 1..row[2] : <<row[1], m>> \in delivered'
  BY <1>3, <1>4, <1>5
<1>7. DeliveredInOrder'
  BY <1>6 DEF OutboxInv, DeliveredInOrder
<1> QED
  BY <1>1, <1>2, <1>7

\* The batch of u is given up, whether or not its first row reached the consumer.
LEMMA DropKeeps ==
    ASSUME OutboxInv, NEW u \in Publisher,
           batch' = [batch EXCEPT ![u] = <<>>], sent' = sent \ {u},
           UNCHANGED <<journal, proj, procVars, pending>>,
           \/ delivered' = delivered
           \/ batch[u] # <<>> /\ delivered' = delivered \cup {Head(batch[u])}
    PROVE  OutboxInv'
<1>1. TypeOK' /\ \A pr \in Project : Rows(pr)' = Rows(pr)
  BY PublisherTypes DEF OutboxInv
<1>2. /\ delivered \subseteq delivered' /\ delivered' \subseteq Project \X Nat
      /\ DeliveredInOrder'
  BY DeliverKeeps DEF OutboxInv, OutboxTypeOK, DeliveredInOrder
<1>3. \A v \in Publisher : batch'[v] = batch[v] \/ batch'[v] = <<>>
  BY DEF OutboxInv, OutboxTypeOK
<1>4. OutboxTypeOK'
  BY <1>2 DEF OutboxInv, OutboxTypeOK
<1>5. SentIsDelivered'
  BY <1>2 DEF OutboxInv, SentIsDelivered, OutboxTypeOK
<1>6. BatchIsOrdered'
  BY <1>2, <1>3, OrderStays DEF OutboxInv
<1>7. PendingAreRows' /\ NoEventLost'
  BY <1>1, <1>2 DEF OutboxInv, PendingAreRows, NoEventLost
<1> QED
  BY <1>1, <1>2, <1>4, <1>5, <1>6, <1>7 DEF OutboxInv

LEMMA PublishKeeps ==
    ASSUME OutboxInv, NEW u \in Publisher, Publish(u)
    PROVE  OutboxInv'
<1>1. /\ batch[u] # <<>> /\ delivered' = delivered \cup {Head(batch[u])}
      /\ sent' = sent \cup {u}
      /\ UNCHANGED <<journal, proj, procVars, pending, batch>>
  BY DEF Publish, vars, storeVars
<1>2. TypeOK' /\ \A pr \in Project : Rows(pr)' = Rows(pr)
  BY <1>1, PublisherTypes DEF OutboxInv
<1>3. delivered' \subseteq Project \X Nat /\ DeliveredInOrder'
  BY <1>1, DeliverKeeps
<1>4. OutboxTypeOK' /\ SentIsDelivered'
  BY <1>1, <1>3 DEF OutboxInv, OutboxTypeOK, SentIsDelivered
<1>6. BatchIsOrdered'
  BY <1>1, OrderStays DEF OutboxInv
<1>5. PendingAreRows' /\ NoEventLost'
  BY <1>1, <1>2 DEF OutboxInv, PendingAreRows, NoEventLost
<1> QED
  BY <1>2, <1>3, <1>4, <1>5, <1>6 DEF OutboxInv

\* The row that stops being pending was delivered; the rest of the batch moves up.
LEMMA MarkKeeps ==
    ASSUME OutboxInv, NEW u \in Publisher, MarkPublished(u)
    PROVE  OutboxInv'
<1> DEFINE row == Head(batch[u])
<1>1. /\ u \in sent /\ pending' = pending \ {row}
      /\ batch' = [batch EXCEPT ![u] = Tail(batch[u])]
      /\ sent' = sent \ {u}
      /\ UNCHANGED <<journal, proj, procVars, delivered>>
  BY DEF MarkPublished
<1>2. batch[u] # <<>> /\ row \in delivered
  BY <1>1 DEF OutboxInv, SentIsDelivered
<1>3. TypeOK' /\ \A pr \in Project : Rows(pr)' = Rows(pr)
  BY <1>1, PublisherTypes DEF OutboxInv
<1>4. batch \in [Publisher -> Seq(Project \X Nat)]
  BY DEF OutboxInv, OutboxTypeOK
<1>5. /\ Tail(batch[u]) \in Seq(Project \X Nat)
      /\ row = batch[u][1]
      /\ Len(Tail(batch[u])) = Len(batch[u]) - 1 /\ Len(batch[u]) \in Nat
      /\ \A i \in 1..Len(Tail(batch[u])) : Tail(batch[u])[i] = batch[u][i + 1]
  BY <1>2, <1>4
<1>6. OutboxTypeOK' /\ SentIsDelivered'
  BY <1>1, <1>5 DEF OutboxInv, OutboxTypeOK, SentIsDelivered
<1>7. InOrder(Tail(batch[u]), delivered)
  <2> DEFINE rest == Tail(batch[u])
  <2> SUFFICES ASSUME NEW i \in 1..Len(rest), NEW m \in 1..(rest[i][2] - 1)
               PROVE  \/ <<rest[i][1], m>> \in delivered
                      \/ \E j \in 1..(i - 1) : rest[j] = <<rest[i][1], m>>
    BY DEF InOrder
  <2>1. i + 1 \in 1..Len(batch[u]) /\ rest[i] = batch[u][i + 1]
    BY <1>5
  <2>2. m \in 1..(batch[u][i + 1][2] - 1)
    BY <2>1, Zenon
  <2>3. InOrder(batch[u], delivered)
    BY <1>1 DEF OutboxInv, BatchIsOrdered, OutboxTypeOK
  <2>4. \/ <<rest[i][1], m>> \in delivered
        \/ \E j \in 1..((i + 1) - 1) : batch[u][j] = <<rest[i][1], m>>
    BY <2>1, <2>2, <2>3, Zenon DEF InOrder
  <2>5. ASSUME NEW j \in 1..((i + 1) - 1), batch[u][j] = <<rest[i][1], m>>
        PROVE  \/ <<rest[i][1], m>> \in delivered
               \/ \E h \in 1..(i - 1) : rest[h] = <<rest[i][1], m>>
    <3>1. CASE j = 1
      BY <1>2, <1>5, <2>5, <3>1
    <3>2. CASE j # 1
      <4>1. j - 1 \in 1..(i - 1) /\ j - 1 \in 1..Len(rest) /\ (j - 1) + 1 = j
        BY <1>5, <3>2
      <4>2. rest[j - 1] = batch[u][j]
        BY <1>5, <4>1
      <4> QED
        BY <2>5, <4>1, <4>2
    <3> QED
      BY <3>1, <3>2
  <2> QED
    BY <2>4, <2>5
<1>8. BatchIsOrdered'
  BY <1>1, <1>4, <1>7 DEF OutboxInv, BatchIsOrdered
<1>9. PendingAreRows' /\ NoEventLost' /\ DeliveredInOrder'
  BY <1>1, <1>2, <1>3 DEF OutboxInv, PendingAreRows, NoEventLost, DeliveredInOrder
<1> QED
  BY <1>3, <1>6, <1>8, <1>9 DEF OutboxInv

LEMMA OutboxInvStep == OutboxInv /\ [OutboxNext]_allVars => OutboxInv'
<1> SUFFICES ASSUME OutboxInv, [OutboxNext]_allVars PROVE OutboxInv'
  OBVIOUS
<1>1. CASE [Next]_vars /\ UNCHANGED outboxVars
  BY <1>1, CommandKeeps
<1>2. ASSUME NEW u \in Publisher, PublishFails(u) PROVE OutboxInv'
  <2>1. sent' = sent \ {u}
    BY <1>2 DEF PublishFails
  <2> QED
    BY <1>2, <2>1, DropKeeps DEF PublishFails, vars, storeVars
<1>3. ASSUME NEW u \in Publisher, PublisherCrash(u) PROVE OutboxInv'
  BY <1>3, DropKeeps DEF PublisherCrash, vars, storeVars
<1> QED
  BY <1>1, <1>2, <1>3, ReadKeeps, PublishKeeps, MarkKeeps DEF OutboxNext, allVars

LEMMA OutboxInvariant == OutboxSpec => []OutboxInv
BY OutboxInvInit, OutboxInvStep, PTL DEF OutboxSpec

\* Type correctness of the batches and of what was sent and delivered.
THEOREM OutboxTypeCorrect == OutboxSpec => []OutboxTypeOK
<1>1. OutboxInv => OutboxTypeOK
  BY DEF OutboxInv
<1> QED
  BY <1>1, OutboxInvariant, PTL

\* publishOutbox: a row is marked only after its publish() resolved, so whatever
\* publishers fail, die or overlap, a committed event is pending or was delivered.
THEOREM EventsAreKept == OutboxSpec => []NoEventLost
<1>1. OutboxInv => NoEventLost
  BY DEF OutboxInv
<1> QED
  BY <1>1, OutboxInvariant, PTL

\* publishOutbox: batches are read oldest first and stop at the first rejection, so
\* even from a stale batch no event is delivered before the earlier ones of its project.
THEOREM DeliveredOrdered == OutboxSpec => []DeliveredInOrder
<1>1. OutboxInv => DeliveredInOrder
  BY DEF OutboxInv
<1> QED
  BY <1>1, OutboxInvariant, PTL
=============================================================================
