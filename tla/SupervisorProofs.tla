-------------------------- MODULE SupervisorProofs --------------------------
(* What the sweep guarantees for every retry budget and under every            *)
(* interruption of Events.                                                     *)
EXTENDS Supervisor, TLAPS

\* markState never leaves the ledger's states, moves nothing but the state, and
\* leaves a finished row alone.
LEMMA TriedRow ==
    ASSUME NEW r \in Row, NEW to \in States
    PROVE  /\ Tried(r, to) \in Row
           /\ Tried(r, to) = r \/ Tried(r, to) = [r EXCEPT !.state = to]
           /\ Terminal(r) => Tried(r, to) = r
<1>1. Tried(r, to) = r \/ Tried(r, to) = [r EXCEPT !.state = to]
  BY DEF Tried
<1>2. Terminal(r) => ~CanTransition(r.state, to)
  BY DEF Terminal, CanTransition, ActiveStates, TerminalStates
<1> QED
  BY <1>1, <1>2 DEF Tried, Row

\* A spent quota leaves a finished row alone, and another one failed or as it was.
LEMMA QuotaWaitRow ==
    ASSUME NEW r \in Row
    PROVE  /\ QuotaWait(r) \in Row
           /\ QuotaWait(r).state \in {r.state, "failed"}
           /\ QuotaWait(r).retries = r.retries
           /\ QuotaWait(r).stall = r.stall
           /\ Terminal(r) => QuotaWait(r) = r
<1> DEFINE f == Tried(r, "failed")
<1>1. f \in Row /\ (f = r \/ f = [r EXCEPT !.state = "failed"])
  BY TriedRow DEF States, ActiveStates
<1>2. CASE Terminal(r)
  BY <1>2 DEF QuotaWait
<1>3. CASE ~Terminal(r)
  <2>1. QuotaWait(r) = [f EXCEPT !.quota = TRUE]
    BY <1>3 DEF QuotaWait
  <2>2. f.state \in {r.state, "failed"} /\ f.retries = r.retries /\ f.stall = r.stall
    BY <1>1 DEF Row
  <2> HIDE DEF f
  <2> QED
    BY <1>1, <1>3, <2>1, <2>2 DEF Row
<1> QED
  BY <1>2, <1>3

\* How an agent that ends leaves the row and the sweep that waits for it.
LEMMA EndStep ==
    ASSUME TypeOK, NEW a \in Agents, NEW r \in Row, NEW result \in Results,
           End(a, r, result)
    PROVE  /\ TypeOK'
           /\ row' = r \/ (~Terminal(r) /\ row' = [r EXCEPT !.dispatcher = previous[a]])
           /\ sw' = sw \/ (sw.pc = "await" /\ sw' = [sw EXCEPT !.result = result])
           /\ UNCHANGED <<working, salvage, told>>
<1>1. row' \in Row /\ (row' = r \/ (~Terminal(r) /\ row' = [r EXCEPT !.dispatcher = previous[a]]))
  BY DEF End, TypeOK, Row
<1>2. at' \in [Agents -> Stages] /\ previous' \in [Agents -> Agents \cup {NoOne}]
  BY DEF End, TypeOK, Move, Stages
<1>3. sw' = sw \/ (sw.pc = "await" /\ sw' = [sw EXCEPT !.result = result])
  BY DEF End, Report
<1>4. sw' \in [pc : SweepSteps, snap : Row, job : {"revise", "sweep"}, result : Results]
  BY <1>3 DEF TypeOK
<1> QED
  BY <1>1, <1>2, <1>3, <1>4 DEF End, TypeOK

-----------------------------------------------------------------------------
LEMMA TypeInit == Init => TypeOK
<1> SUFFICES ASSUME Init PROVE TypeOK
  OBVIOUS
<1>1. Opened \in Row
  BY DEF Opened, Row, Agents, States, ActiveStates, NoOne
<1>2. NoSweep \in [pc : SweepSteps, snap : Row, job : {"revise", "sweep"}, result : Results]
  BY <1>1 DEF NoSweep, SweepSteps, Results
<1>3. at \in [Agents -> Stages]
  BY DEF Init, Stages
<1> QED
  BY <1>1, <1>2, <1>3 DEF Init, TypeOK

\* The steps of dispatchers and revisions.
LEMMA TypeDrive ==
    ASSUME TypeOK, NEW a \in Agents, Drive(a)
    PROVE  TypeOK'
<1>0. {"running", "failed", "verifying", "gated", "delivered", "withheld"} \subseteq States
  BY DEF States, ActiveStates, TerminalStates
<1>1. CASE TakeOver(a)
  BY <1>1 DEF TakeOver, TypeOK, Row, Move, Stages, sweepVars
<1>2. CASE WorksApart(a)
  <2> PICK result \in Results : Report(a, result)
    BY <1>2 DEF WorksApart
  <2>1. sw' \in [pc : SweepSteps, snap : Row, job : {"revise", "sweep"}, result : Results]
    BY DEF Report, TypeOK
  <2> QED
    BY <1>2, <2>1 DEF WorksApart, TypeOK, Move, Stages
<1>3. CASE MarkRunning(a)
  <2>1. row' \in Row
    BY <1>0, <1>3, TriedRow DEF MarkRunning, TypeOK
  <2>2. salvage' \in {"none", "live_writer", "nothing", "judged"} /\ told' \in BOOLEAN
    BY <1>3 DEF MarkRunning, ForgetEscalation, TypeOK
  <2> QED
    BY <1>3, <2>1, <2>2 DEF MarkRunning, TypeOK, Move, Stages
<1>4. CASE Launch(a)
  BY <1>4 DEF Launch, TypeOK, Move, Stages, sweepVars
<1>5. CASE Return(a)
  <2>0. row \in Row /\ "stalled" \in Results /\ "failed" \in Results
    BY DEF TypeOK, Results
  <2>1. CASE End(a, row, "stalled")
    BY <2>0, <2>1, EndStep
  <2>2. CASE Move(a, "verify") /\ UNCHANGED <<row, working, previous, sweepVars>>
    BY <2>2 DEF TypeOK, Move, Stages, sweepVars
  <2>3. CASE /\ row' = Tried(row, "failed")
             /\ Move(a, "verify")
             /\ UNCHANGED <<working, previous, sweepVars>>
    <3>1. row' \in Row
      BY <1>0, <2>0, <2>3, TriedRow
    <3> QED
      BY <2>3, <3>1 DEF TypeOK, Move, Stages, sweepVars
  <2>4. CASE End(a, IF a = "sweep" THEN row ELSE Tried(row, "failed"), "failed")
    <3>1. (IF a = "sweep" THEN row ELSE Tried(row, "failed")) \in Row
      BY <1>0, <2>0, TriedRow
    <3> QED
      BY <2>0, <2>4, <3>1, EndStep
  <2>5. CASE End(a, IF a = "sweep" THEN [row EXCEPT !.quota = TRUE] ELSE QuotaWait(row), "failed")
    <3>1. (IF a = "sweep" THEN [row EXCEPT !.quota = TRUE] ELSE QuotaWait(row)) \in Row
      BY <2>0, QuotaWaitRow DEF Row
    <3> QED
      BY <2>0, <2>5, <3>1, EndStep
  <2> QED
    BY <1>5, <2>1, <2>2, <2>3, <2>4, <2>5 DEF Return
<1>6. CASE Verify(a)
  <2>1. row' \in Row
    BY <1>0, <1>6, TriedRow DEF Verify, TypeOK
  <2> QED
    BY <1>6, <2>1 DEF Verify, TypeOK, Move, Stages, sweepVars
<1>7. CASE Gate(a)
  <2>0. row \in Row /\ "failed" \in Results
    BY DEF TypeOK, Results
  <2>1. CASE End(a, Tried(row, "failed"), "failed")
    <3>1. Tried(row, "failed") \in Row
      BY <1>0, <2>0, TriedRow
    <3> QED
      BY <2>0, <2>1, <3>1, EndStep
  <2>2. CASE /\ row' = Tried(row, "gated")
             /\ Move(a, "decide")
             /\ UNCHANGED <<working, previous, sweepVars>>
    <3>1. row' \in Row
      BY <1>0, <2>0, <2>2, TriedRow
    <3> QED
      BY <2>2, <3>1 DEF TypeOK, Move, Stages, sweepVars
  <2>3. CASE End(a, QuotaWait(row), "failed")
    <3>1. QuotaWait(row) \in Row
      BY <2>0, QuotaWaitRow
    <3> QED
      BY <2>0, <2>3, <3>1, EndStep
  <2> QED
    BY <1>7, <2>1, <2>2, <2>3 DEF Gate
<1>8. CASE Decide(a)
  <2> PICK result \in {"delivered", "withheld"} : End(a, Tried(row, result), result)
    BY <1>8 DEF Decide
  <2>1. Tried(row, result) \in Row /\ result \in Results
    BY <1>0, TriedRow DEF TypeOK, Results
  <2> QED
    BY <2>1, EndStep
<1> QED
  BY <1>1, <1>2, <1>3, <1>4, <1>5, <1>6, <1>7, <1>8 DEF Drive

\* The steps of workers, of their sidecars and of the clock, and a dispatcher's death.
LEMMA TypeAround ==
    ASSUME TypeOK,
           \/ \E a \in Agents : \/ WorkerExits(a) \/ RecordPid(a) \/ Beat(a)
                                \/ ConfirmStall(a) \/ Dies(a)
           \/ LeaseExpires \/ BeatAges \/ QuotaResets
    PROVE  TypeOK'
<1>0. "stalled" \in States
  BY DEF States, ActiveStates
<1>1. ASSUME NEW a \in Agents, WorkerExits(a) PROVE TypeOK'
  BY <1>1 DEF WorkerExits, TypeOK, sweepVars
<1>2. ASSUME NEW a \in Agents, RecordPid(a) PROVE TypeOK'
  BY <1>2 DEF RecordPid, TypeOK, Row, sweepVars, agentVars
<1>3. ASSUME NEW a \in Agents, Beat(a) PROVE TypeOK'
  BY <1>3 DEF Beat, TypeOK, Row, sweepVars, agentVars
<1>4. ASSUME NEW a \in Agents, ConfirmStall(a) PROVE TypeOK'
  <2>1. row' \in Row
    BY <1>0, <1>4 DEF ConfirmStall, TypeOK, Row
  <2> QED
    BY <1>4, <2>1 DEF ConfirmStall, TypeOK, sweepVars
<1>5. ASSUME NEW a \in Agents, Dies(a) PROVE TypeOK'
  BY <1>5 DEF Dies, TypeOK, Move, Stages, sweepVars
<1>6. ASSUME LeaseExpires \/ BeatAges \/ QuotaResets PROVE TypeOK'
  <2>1. row' \in Row
    BY <1>6 DEF LeaseExpires, BeatAges, QuotaResets, TypeOK, Row
  <2> QED
    BY <1>6, <2>1 DEF LeaseExpires, BeatAges, QuotaResets, TypeOK, sweepVars, agentVars
<1> QED
  BY <1>1, <1>2, <1>3, <1>4, <1>5, <1>6

Sw == [pc : SweepSteps, snap : Row, job : {"revise", "sweep"}, result : Results]

LEMMA SweepMoves ==
    ASSUME TypeOK
    PROVE  /\ \A pc \in SweepSteps : Step(pc) => sw' \in Sw /\ sw'.pc = pc
           /\ Leave => sw' \in Sw /\ sw'.pc = "off"
           /\ NoSweep \in Sw
<1>1. Opened \in Row
  BY DEF Opened, Row, Agents, States, ActiveStates, NoOne
<1>2. NoSweep \in Sw
  BY <1>1 DEF NoSweep, SweepSteps, Results, Sw
<1>3. ASSUME NEW pc \in SweepSteps, Step(pc) PROVE sw' \in Sw /\ sw'.pc = pc
  BY <1>1, <1>3 DEF Step, TypeOK, Sw
<1>4. Leave => sw' \in Sw /\ sw'.pc = "off"
  BY <1>2 DEF Leave, NoSweep
<1> QED
  BY <1>2, <1>3, <1>4

\* The steps of a sweep.
LEMMA TypeSweep ==
    ASSUME TypeOK, Sweeping \/ ResumeTimesOut \/ SweepDies
    PROVE  TypeOK'
<1>0. /\ {"running", "failed", "stalled"} \subseteq States
      /\ Results \subseteq States
      /\ row \in Row /\ sw \in Sw
  BY DEF States, ActiveStates, TerminalStates, Results, TypeOK, Sw
<1>s. {"off", "judge", "kill", "markFailed", "increment", "toRunning", "hop", "recover",
       "await", "finalize", "escalate", "stamp", "salvage", "salvaging", "restall",
       "notify"} \subseteq SweepSteps
  BY DEF SweepSteps
<1> USE <1>s, SweepMoves DEF sweepVars, agentVars
<1>1. CASE SweepBegin
  BY <1>0, <1>1 DEF SweepBegin, TypeOK, Sw
<1>2. CASE JudgeSkip
  BY <1>2 DEF JudgeSkip, TypeOK, Sw
<1>3. CASE JudgeGrace
  BY <1>0, <1>3 DEF JudgeGrace, TypeOK, Sw, Row
<1>4. CASE JudgeAct
  BY <1>0, <1>4 DEF JudgeAct, TypeOK, Sw
<1>5. CASE Kill
  BY <1>5 DEF Kill, TypeOK, Sw
<1>6. CASE MarkFailed
  BY <1>0, <1>6, TriedRow DEF MarkFailed, TypeOK, Sw
<1>7. CASE Increment
  BY <1>0, <1>7 DEF Increment, TypeOK, Sw, Row
<1>8. CASE ToRunning
  <2>1. row' \in Row
    <3>1. [row EXCEPT !.state = "running"] \in Row /\ Tried(row, "failed") \in Row
      BY <1>0, TriedRow DEF Row
    <3> QED
      BY <1>0, <1>8, <3>1 DEF ToRunning
  <2>2. salvage' \in {"none", "live_writer", "nothing", "judged"} /\ told' \in BOOLEAN
    BY <1>8 DEF ToRunning, ForgetEscalation, TypeOK
  <2> QED
    BY <1>8, <2>1, <2>2 DEF ToRunning, TypeOK, Sw
<1>9. CASE Hop
  <2>1. row' \in Row
    BY <1>0, <1>9 DEF Hop, Row
  <2>2. salvage' \in {"none", "live_writer", "nothing", "judged"} /\ told' \in BOOLEAN
    BY <1>9 DEF Hop, ForgetEscalation, TypeOK
  <2> QED
    BY <1>9, <2>1, <2>2 DEF Hop, TypeOK, Sw
<1>10. CASE Recover
  <2>1. at' \in [Agents -> Stages]
    BY <1>10 DEF Recover, Move, TypeOK, Stages
  <2>2. sw' \in Sw
    BY <1>10 DEF Recover, Sw
  <2> QED
    BY <1>10, <2>1, <2>2 DEF Recover, TypeOK, Sw
<1>11. CASE Await
  BY <1>11 DEF Await, TypeOK, Sw
<1>12. CASE Finalize
  <2>1. row' \in Row
    <3>1. [row EXCEPT !.state = sw.result] \in Row /\ Tried(row, "failed") \in Row
      BY <1>0, TriedRow DEF Row, Sw
    <3> QED
      BY <1>0, <1>12, <3>1 DEF Finalize
  <2> QED
    BY <1>12, <2>1 DEF Finalize, TypeOK, Sw
<1>13. CASE Escalate
  BY <1>0, <1>13, TriedRow DEF Escalate, TypeOK, Sw
<1>14. CASE StampSalvaged
  BY <1>0, <1>14 DEF StampSalvaged, TypeOK, Sw, Row
<1>15. CASE Salvage
  <2>1. at' \in [Agents -> Stages]
    BY <1>15 DEF Salvage, Move, TypeOK, Stages
  <2> QED
    BY <1>15, <2>1 DEF Salvage, TypeOK, Sw
<1>16. CASE Salvaged
  BY <1>16 DEF Salvaged, TypeOK, Sw
<1>17. CASE Restall
  BY <1>0, <1>17, TriedRow DEF Restall, TypeOK, Sw
<1>18. CASE Notify
  BY <1>18 DEF Notify, TypeOK, Sw
<1>19. CASE ResumeTimesOut
  BY <1>19 DEF ResumeTimesOut, TypeOK, Sw, Move, Stages
<1>20. CASE SweepDies
  BY <1>20 DEF SweepDies, TypeOK, Sw, Move, Stages
<1> QED
  BY <1>1, <1>2, <1>3, <1>4, <1>5, <1>6, <1>7, <1>8, <1>9, <1>10, <1>11, <1>12, <1>13,
     <1>14, <1>15, <1>16, <1>17, <1>18, <1>19, <1>20 DEF Sweeping

\* Type correctness of the row, of every agent and of the sweep, whoever is killed.
THEOREM TypeCorrect == Spec => []TypeOK
<1>1. TypeOK /\ UNCHANGED vars => TypeOK'
  BY DEF TypeOK, vars, agentVars, sweepVars
<1>2. TypeOK /\ [Next]_vars => TypeOK'
  BY <1>1, TypeDrive, TypeAround, TypeSweep DEF Next
<1> QED
  BY <1>2, TypeInit, PTL DEF Spec

-----------------------------------------------------------------------------
\* What a step of anyone but the sweep leaves of the row and of the sweep.
Around ==
    /\ row'.retries = row.retries
    /\ Terminal(row) => row'.state = row.state
    /\ row.stall => row'.stall
    /\ row'.state = "stalled" /\ row'.salvaged /\ ~row'.stall =>
           row.state = "stalled" /\ row.salvaged
    /\ told' = told \/ row'.state = "running"
    /\ sw'.pc = sw.pc /\ sw'.snap = sw.snap
    /\ sw'.result = "stalled" => sw.result = "stalled" \/ row'.stall \/ Terminal(row')

\* Marking the row moves its state only, and never to stalled here.
LEMMA MarkedAround ==
    ASSUME TypeOK, NEW to \in {"running", "failed", "verifying", "gated", "delivered", "withheld"},
           row' = Tried(row, to),
           told' = told \/ row'.state = "running",
           sw' = sw \/ (sw.pc = "await" /\ \E result \in Results \ {"stalled"} :
                                               sw' = [sw EXCEPT !.result = result])
    PROVE  Around
<1>0. row \in Row /\ to \in States
  BY DEF TypeOK, States, ActiveStates, TerminalStates
<1>1. row' = row \/ row' = [row EXCEPT !.state = to]
  BY <1>0, TriedRow
<1>2. Terminal(row) => row' = row
  BY <1>0, TriedRow
<1>3. sw'.pc = sw.pc /\ sw'.snap = sw.snap /\ (sw'.result = "stalled" => sw.result = "stalled")
  BY DEF TypeOK
<1> QED
  BY <1>0, <1>1, <1>2, <1>3 DEF Around, Row

LEMMA EndAround ==
    ASSUME TypeOK, NEW a \in Agents, NEW r \in Row, NEW result \in Results,
           End(a, r, result),
           r.retries = row.retries, r.stall = row.stall, r.salvaged = row.salvaged,
           Terminal(row) => r.state = row.state,
           r.state = "stalled" => row.state = "stalled",
           result = "stalled" => r.stall
    PROVE  Around
<1>1. /\ row' = r \/ row' = [r EXCEPT !.dispatcher = previous[a]]
      /\ sw' = sw \/ sw' = [sw EXCEPT !.result = result]
      /\ told' = told
  BY EndStep
<1>2. /\ row'.retries = r.retries /\ row'.state = r.state
      /\ row'.stall = r.stall /\ row'.salvaged = r.salvaged
  BY <1>1 DEF Row
<1>3. sw'.pc = sw.pc /\ sw'.snap = sw.snap /\ (sw'.result = sw.result \/ sw'.result = result)
  BY <1>1 DEF TypeOK
<1> QED
  BY <1>1, <1>2, <1>3 DEF Around

LEMMA DriveAround ==
    ASSUME TypeOK, NEW a \in Agents, Drive(a)
    PROVE  Around
<1>0. row \in Row /\ Results \subseteq States /\ "failed" \in Results
  BY DEF TypeOK, Results, States, ActiveStates, TerminalStates
<1>f. LET f == Tried(row, "failed") IN
        /\ f \in Row /\ f.retries = row.retries /\ f.stall = row.stall
        /\ f.salvaged = row.salvaged /\ (Terminal(row) => f.state = row.state)
        /\ f.state = "stalled" => row.state = "stalled"
  <2> DEFINE f == Tried(row, "failed")
  <2>1. f \in Row /\ (f = row \/ f = [row EXCEPT !.state = "failed"])
        /\ (Terminal(row) => f = row)
    BY <1>0, TriedRow
  <2> HIDE DEF f
  <2>2. /\ f \in Row /\ f.retries = row.retries /\ f.stall = row.stall
        /\ f.salvaged = row.salvaged /\ (Terminal(row) => f.state = row.state)
        /\ f.state = "stalled" => row.state = "stalled"
    BY <1>0, <2>1 DEF Row
  <2> QED
    BY <2>2 DEF f
<1>q. LET q == QuotaWait(row) IN
        /\ q \in Row /\ q.retries = row.retries /\ q.stall = row.stall
        /\ q.salvaged = row.salvaged /\ (Terminal(row) => q.state = row.state)
        /\ q.state = "stalled" => row.state = "stalled"
  <2>1. QuotaWait(row).salvaged = row.salvaged
    <3> DEFINE f == Tried(row, "failed")
    <3>1. f \in Row /\ f.salvaged = row.salvaged
      BY <1>f
    <3>2. QuotaWait(row) = row \/ QuotaWait(row) = [f EXCEPT !.quota = TRUE]
      BY DEF QuotaWait
    <3> HIDE DEF f
    <3> QED
      BY <3>1, <3>2 DEF Row
  <2> QED
    BY <1>0, <2>1, QuotaWaitRow
<1>1. CASE TakeOver(a)
  BY <1>0, <1>1 DEF TakeOver, Around, Row, sweepVars
<1>2. CASE WorksApart(a)
  <2> PICK result \in Results : Report(a, result)
    BY <1>2 DEF WorksApart
  <2>1. sw'.pc = sw.pc /\ sw'.snap = sw.snap
    BY DEF Report, TypeOK
  <2> QED
    BY <1>2, <2>1 DEF WorksApart, Around, Terminal
<1>3. CASE MarkRunning(a)
  <2>1. told' = told \/ row'.state = "running"
    BY <1>3 DEF MarkRunning, ForgetEscalation
  <2>2. row' = Tried(row, "running") \/ row' = Tried(row, "failed")
    BY <1>3 DEF MarkRunning
  <2>3. sw' = sw
    BY <1>3 DEF MarkRunning
  <2> QED
    BY <2>1, <2>2, <2>3, MarkedAround
<1>4. CASE Launch(a)
  BY <1>4 DEF Launch, Around, sweepVars
<1>5. CASE Return(a)
  <2>1. CASE row.state = "stalled" /\ row.stall /\ End(a, row, "stalled")
    BY <1>0, <2>1, EndAround DEF Results
  <2>2. CASE Move(a, "verify") /\ UNCHANGED <<row, working, previous, sweepVars>>
    BY <2>2 DEF Around, sweepVars
  <2>3. CASE /\ row' = Tried(row, "failed")
             /\ UNCHANGED <<working, previous, sweepVars>>
    BY <2>3, MarkedAround DEF sweepVars
  <2>4. CASE End(a, IF a = "sweep" THEN row ELSE Tried(row, "failed"), "failed")
    <3>1. CASE a = "sweep"
      BY <1>0, <2>4, <3>1, EndAround
    <3>2. CASE a # "sweep"
      BY <1>0, <1>f, <2>4, <3>2, EndAround
    <3> QED
      BY <3>1, <3>2
  <2>5. CASE End(a, IF a = "sweep" THEN [row EXCEPT !.quota = TRUE] ELSE QuotaWait(row), "failed")
    <3>1. CASE a = "sweep"
      <4> DEFINE r == [row EXCEPT !.quota = TRUE]
      <4>1. /\ r \in Row /\ r.retries = row.retries /\ r.stall = row.stall
            /\ r.salvaged = row.salvaged /\ r.state = row.state
        BY <1>0 DEF Row
      <4>2. End(a, r, "failed")
        BY <2>5, <3>1
      <4> HIDE DEF r
      <4> QED
        BY <1>0, <4>1, <4>2, EndAround
    <3>2. CASE a # "sweep"
      BY <1>0, <1>q, <2>5, <3>2, EndAround
    <3> QED
      BY <3>1, <3>2
  <2> QED
    BY <1>5, <2>1, <2>2, <2>3, <2>4, <2>5 DEF Return
<1>6. CASE Verify(a)
  BY <1>6, MarkedAround DEF Verify, sweepVars
<1>7. CASE Gate(a)
  <2>1. CASE End(a, Tried(row, "failed"), "failed")
    BY <1>0, <1>f, <2>1, EndAround
  <2>2. CASE row' = Tried(row, "gated") /\ UNCHANGED <<working, previous, sweepVars>>
    BY <2>2, MarkedAround DEF sweepVars
  <2>3. CASE End(a, QuotaWait(row), "failed")
    BY <1>0, <1>q, <2>3, EndAround
  <2> QED
    BY <1>7, <2>1, <2>2, <2>3 DEF Gate
<1>8. CASE Decide(a)
  <2> PICK result \in {"delivered", "withheld"} : End(a, Tried(row, result), result)
    BY <1>8 DEF Decide
  <2> DEFINE d == Tried(row, result)
  <2>1. d \in Row /\ (d = row \/ d = [row EXCEPT !.state = result])
        /\ (Terminal(row) => d = row)
    BY <1>0, TriedRow DEF Results
  <2>2. End(a, d, result) /\ result \in Results
    BY DEF Results
  <2> HIDE DEF d
  <2>3. /\ d.retries = row.retries /\ d.stall = row.stall /\ d.salvaged = row.salvaged
        /\ d.state = "stalled" => row.state = "stalled"
    BY <1>0, <2>1 DEF Row
  <2> QED
    BY <2>1, <2>2, <2>3, EndAround
<1> QED
  BY <1>1, <1>2, <1>3, <1>4, <1>5, <1>6, <1>7, <1>8 DEF Drive

LEMMA OthersAround ==
    ASSUME TypeOK,
           \/ \E a \in Agents : \/ WorkerExits(a) \/ RecordPid(a) \/ Beat(a)
                                \/ ConfirmStall(a) \/ Dies(a)
           \/ LeaseExpires \/ BeatAges \/ QuotaResets
           \/ UNCHANGED vars
    PROVE  Around
<1>0. row \in Row
  BY DEF TypeOK
<1>1. ASSUME NEW a \in Agents, WorkerExits(a) \/ RecordPid(a) \/ Beat(a) \/ Dies(a)
      PROVE  Around
  BY <1>0, <1>1 DEF WorkerExits, RecordPid, Beat, Dies, Around, Row, sweepVars
<1>2. ASSUME NEW a \in Agents, ConfirmStall(a) PROVE Around
  BY <1>0, <1>2 DEF ConfirmStall, SidecarRuns, Around, Row, sweepVars
<1>3. CASE LeaseExpires \/ BeatAges \/ QuotaResets
  BY <1>0, <1>3 DEF LeaseExpires, BeatAges, QuotaResets, Around, Row, sweepVars
<1>4. CASE UNCHANGED vars
  BY <1>4 DEF vars, sweepVars, agentVars, Around
<1> QED
  BY <1>1, <1>2, <1>3, <1>4

\* Every step is one of Around or one of the sweep's own.
LEMMA StepKinds ==
    ASSUME TypeOK, [Next]_vars
    PROVE  Around \/ Sweeping \/ ResumeTimesOut \/ SweepDies
BY DriveAround, OthersAround DEF Next

-----------------------------------------------------------------------------
\* What the sweep's steps do to a finished row: nothing.
LEMMA SweepKeepsFinished ==
    ASSUME TypeOK, Sweeping \/ ResumeTimesOut \/ SweepDies, Terminal(row)
    PROVE  row'.state = row.state
<1>0. /\ row \in Row /\ sw.result \in States
      /\ {"running", "failed", "stalled"} \subseteq States
  BY DEF TypeOK, Results, States, ActiveStates, TerminalStates
<1>1. \A to \in States : ~CanTransition(row.state, to) /\ Tried(row, to) = row
  BY <1>0, TriedRow DEF Terminal, CanTransition, ActiveStates, TerminalStates
<1>2. CASE SweepBegin \/ JudgeSkip \/ JudgeGrace \/ JudgeAct \/ Kill
  BY <1>2 DEF SweepBegin, JudgeSkip, JudgeGrace, JudgeAct, Kill
<1>3. CASE MarkFailed \/ Escalate \/ Restall
  BY <1>0, <1>1, <1>3 DEF MarkFailed, Escalate, Restall
<1>4. CASE Increment \/ ToRunning
  BY <1>4 DEF Increment, ToRunning
<1>5. CASE Hop \/ Finalize
  BY <1>0, <1>1, <1>5 DEF Hop, Finalize
<1>6. CASE StampSalvaged
  BY <1>0, <1>6 DEF StampSalvaged, Row
<1>7. CASE Recover \/ Await \/ Salvage \/ Salvaged \/ Notify \/ ResumeTimesOut \/ SweepDies
  BY <1>7 DEF Recover, Await, Salvage, Salvaged, Notify, ResumeTimesOut, SweepDies
<1> QED
  BY <1>2, <1>3, <1>4, <1>5, <1>6, <1>7 DEF Sweeping

\* A delivered or withheld run is never moved again: not by a sweep that judged an
\* older copy of its row, not by a salvage, not by a dispatcher given up for dead.
THEOREM FinishedStays == Spec => FinishedIsFinal
<1>1. TypeOK /\ [Next]_vars => (Terminal(row) => row'.state = row.state)
  <2> SUFFICES ASSUME TypeOK, [Next]_vars, Terminal(row) PROVE row'.state = row.state
    OBVIOUS
  <2>1. CASE Around
    BY <2>1 DEF Around
  <2>2. CASE Sweeping \/ ResumeTimesOut \/ SweepDies
    BY <2>2, SweepKeepsFinished
  <2> QED
    BY <2>1, <2>2, StepKinds
<1> QED
  BY <1>1, TypeCorrect, PTL DEF Spec, FinishedIsFinal

-----------------------------------------------------------------------------
\* The strengthening: the sweep decides on the retries it read, and nobody counts a
\* retry between its query and its update.
RetryInv ==
    /\ RetriesBounded
    /\ sw.pc = "judge" => sw.snap.retries = row.retries
    /\ sw.pc = "increment" => row.retries < MaxRetries

LEMMA RetrySweep ==
    ASSUME TypeOK, RetryInv, Sweeping \/ ResumeTimesOut \/ SweepDies
    PROVE  RetryInv'
<1>0. row \in Row /\ sw \in Sw /\ MaxRetries \in Nat /\ row.retries \in Nat
  BY SupervisorAssumption DEF TypeOK, Sw, Row
<1>1. \A to \in States : Tried(row, to).retries = row.retries
  BY <1>0, TriedRow DEF Row
<1>2. {"running", "failed", "stalled"} \subseteq States /\ sw.result \in States
  BY DEF TypeOK, Results, States, ActiveStates, TerminalStates
<1>3. /\ \A pc \in SweepSteps : Step(pc) => sw'.pc = pc
      /\ Leave => sw'.pc = "off"
  BY SweepMoves
<1>s. {"off", "judge", "kill", "markFailed", "increment", "toRunning", "hop", "recover",
       "await", "finalize", "escalate", "stamp", "salvage", "salvaging", "restall",
       "notify"} \subseteq SweepSteps
  BY DEF SweepSteps
<1>4. CASE SweepBegin
  BY <1>0, <1>4 DEF SweepBegin, RetryInv, RetriesBounded, Sw
<1>5. CASE JudgeSkip
  BY <1>3, <1>5 DEF JudgeSkip, RetryInv, RetriesBounded
<1>6. CASE JudgeGrace
  BY <1>0, <1>3, <1>6 DEF JudgeGrace, RetryInv, RetriesBounded, Row
<1>7. CASE JudgeAct
  <2>1. CASE Step("escalate") \/ Step("kill")
    BY <1>3, <1>s, <1>7, <2>1 DEF JudgeAct, RetryInv, RetriesBounded
  <2>2. CASE ~Exhausted(sw.snap)
    <3>1. row.retries < MaxRetries
      BY <1>0, <1>7, <2>2 DEF JudgeAct, Exhausted, RetryInv
    <3> QED
      BY <1>3, <1>s, <1>7, <2>2, <3>1 DEF JudgeAct, RetryInv, RetriesBounded, NoSweep
  <2> QED
    BY <1>7, <2>1, <2>2 DEF JudgeAct
<1>8. CASE MarkFailed
  <2>1. row'.retries = row.retries
    BY <1>1, <1>2, <1>8 DEF MarkFailed
  <2>2. CASE Exhausted(row) \/ Terminal(row)
    BY <1>3, <1>s, <1>8, <2>1, <2>2 DEF MarkFailed, RetryInv, RetriesBounded
  <2>3. CASE ~Exhausted(row) /\ ~Terminal(row)
    <3>1. row.retries < MaxRetries
      BY <1>0, <2>3 DEF Exhausted
    <3> QED
      BY <1>3, <1>s, <1>8, <2>1, <2>3, <3>1 DEF MarkFailed, RetryInv, RetriesBounded
  <2> QED
    BY <2>2, <2>3
<1>9. CASE Increment
  <2>1. row.retries < MaxRetries
    BY <1>9 DEF Increment, RetryInv
  <2>2. row'.retries \in {row.retries, row.retries + 1}
    BY <1>0, <1>9 DEF Increment, Row
  <2> QED
    BY <1>0, <1>3, <1>s, <1>9, <2>1, <2>2 DEF Increment, RetryInv, RetriesBounded
<1>10. CASE ToRunning
  <2>1. row'.retries = row.retries
    BY <1>0, <1>1, <1>2, <1>10 DEF ToRunning, Row
  <2> QED
    BY <1>3, <1>s, <1>10, <2>1 DEF ToRunning, RetryInv, RetriesBounded
<1>11. CASE Hop
  <2>1. row'.retries = row.retries
    BY <1>0, <1>11 DEF Hop, Row
  <2> QED
    BY <1>3, <1>s, <1>11, <2>1 DEF Hop, RetryInv, RetriesBounded
<1>12. CASE Recover
  BY <1>3, <1>s, <1>12 DEF Recover, RetryInv, RetriesBounded, NoSweep
<1>13. CASE Finalize
  <2>1. row'.retries = row.retries
    BY <1>0, <1>1, <1>2, <1>13 DEF Finalize, Row
  <2> QED
    BY <1>3, <1>13, <2>1 DEF Finalize, RetryInv, RetriesBounded
<1>14. CASE Escalate \/ Restall
  <2>1. row'.retries = row.retries
    BY <1>1, <1>2, <1>14 DEF Escalate, Restall
  <2> QED
    BY <1>3, <1>s, <1>14, <2>1 DEF Escalate, Restall, RetryInv, RetriesBounded
<1>15. CASE StampSalvaged
  BY <1>0, <1>3, <1>s, <1>15 DEF StampSalvaged, RetryInv, RetriesBounded, Row
<1>16. CASE Kill \/ Await \/ Salvage \/ Salvaged \/ Notify \/ ResumeTimesOut \/ SweepDies
  BY <1>3, <1>s, <1>16
  DEF Kill, Await, Salvage, Salvaged, Notify, ResumeTimesOut, SweepDies, RetryInv, RetriesBounded
<1> QED
  BY <1>4, <1>5, <1>6, <1>7, <1>8, <1>9, <1>10, <1>11, <1>12, <1>13, <1>14, <1>15, <1>16
  DEF Sweeping

\* However many sweeps find the run, and wherever they are killed, it is recovered at
\* most max_retries times.
THEOREM RetriesAreBounded == Spec => []RetriesBounded
<1>1. Init => RetryInv
  BY SupervisorAssumption DEF Init, Opened, NoSweep, RetryInv, RetriesBounded
<1>2. TypeOK /\ RetryInv /\ [Next]_vars => RetryInv'
  <2> SUFFICES ASSUME TypeOK, RetryInv, [Next]_vars PROVE RetryInv'
    OBVIOUS
  <2>1. CASE Around
    BY <2>1 DEF Around, RetryInv, RetriesBounded
  <2> QED
    BY <2>1, StepKinds, RetrySweep
<1>3. RetryInv => RetriesBounded
  BY DEF RetryInv
<1> QED
  BY <1>1, <1>2, <1>3, TypeCorrect, PTL DEF Spec

-----------------------------------------------------------------------------
Escalating == {"stamp", "salvage", "salvaging", "restall", "notify"}

\* The strengthening: a row no sweep will look at again and nobody was told of is
\* still in the hands of the sweep that escalated it; and a recovery comes to
\* "stalled" only for a run its own sidecar stalled, or one that is finished.
TellInv ==
    /\ row.state = "stalled" /\ row.salvaged /\ ~row.stall /\ ~told => sw.pc \in Escalating
    /\ sw.result = "stalled" => row.stall \/ Terminal(row)

LEMMA TellSweep ==
    ASSUME TypeOK, TellInv, Sweeping \/ ResumeTimesOut
    PROVE  TellInv'
<1>0. row \in Row /\ sw \in Sw
  BY DEF TypeOK, Sw
<1>1. {"running", "failed", "stalled"} \subseteq States /\ sw.result \in States
  BY DEF TypeOK, Results, States, ActiveStates, TerminalStates
<1>2. \A to \in States :
        /\ Tried(row, to).stall = row.stall /\ Tried(row, to).salvaged = row.salvaged
        /\ Terminal(row) => Tried(row, to) = row
        /\ Tried(row, to).state \in {row.state, to}
  BY <1>0, TriedRow DEF Row
<1>3. /\ \A pc \in SweepSteps : Step(pc) => sw'.pc = pc /\ sw'.result = sw.result
      /\ Leave => sw'.pc = "off" /\ sw'.result = "failed"
  <2>1. ASSUME NEW pc \in SweepSteps, Step(pc) PROVE sw'.pc = pc /\ sw'.result = sw.result
    BY <1>0, <2>1 DEF Step, Sw
  <2>2. Leave => sw'.pc = "off" /\ sw'.result = "failed"
    BY DEF Leave, NoSweep
  <2> QED
    BY <2>1, <2>2
<1>s. {"off", "judge", "kill", "markFailed", "increment", "toRunning", "hop", "recover",
       "await", "finalize", "escalate", "stamp", "salvage", "salvaging", "restall",
       "notify"} \subseteq SweepSteps
  BY DEF SweepSteps
<1>t. Terminal(row) => row.state # "stalled"
  BY DEF Terminal, TerminalStates
<1>4. CASE SweepBegin
  BY <1>0, <1>4 DEF SweepBegin, TellInv, Escalating, Sw, Terminal
<1>5. CASE JudgeSkip
  BY <1>3, <1>5 DEF JudgeSkip, TellInv, Escalating
<1>6. CASE JudgeGrace
  <2>1. row'.state = row.state /\ row'.stall = row.stall /\ row'.salvaged = row.salvaged
    BY <1>0, <1>6 DEF JudgeGrace, Row
  <2> QED
    BY <1>3, <1>6, <2>1 DEF JudgeGrace, TellInv, Escalating
<1>7. CASE JudgeAct
  BY <1>3, <1>s, <1>7 DEF JudgeAct, TellInv, Escalating, NoSweep, Terminal
<1>8. CASE MarkFailed
  <2>1. /\ row'.stall = row.stall /\ row'.salvaged = row.salvaged
        /\ row'.state \in {row.state, "failed"} /\ (Terminal(row) => row' = row)
    BY <1>1, <1>2, <1>8 DEF MarkFailed
  <2>2. sw'.result \in {sw.result, "failed"} /\ told' = told /\ sw.pc = "markFailed"
    BY <1>3, <1>s, <1>8 DEF MarkFailed
  <2> QED
    BY <2>1, <2>2 DEF TellInv, Escalating, Terminal
<1>9. CASE Increment
  <2>1. row'.state = row.state /\ row'.stall = row.stall /\ row'.salvaged = row.salvaged
    BY <1>0, <1>9 DEF Increment, Row
  <2>2. sw'.result \in {sw.result, "failed"} /\ told' = told /\ sw.pc = "increment"
    BY <1>3, <1>s, <1>9 DEF Increment
  <2> QED
    BY <2>1, <2>2 DEF TellInv, Escalating, Terminal
<1>10. CASE ToRunning
  <2>1. \/ row' = row
        \/ ~Terminal(row) /\ row' = [row EXCEPT !.state = "running"]
        \/ ~Terminal(row) /\ row' = Tried(row, "failed")
    BY <1>10 DEF ToRunning
  <2>2. /\ row'.stall = row.stall /\ row'.salvaged = row.salvaged
        /\ row'.state \in {row.state, "running", "failed"} /\ (Terminal(row) => row' = row)
    BY <1>0, <1>1, <1>2, <2>1 DEF Row
  <2>3. sw'.result \in {sw.result, "failed"} /\ sw.pc = "toRunning"
    BY <1>3, <1>s, <1>10 DEF ToRunning
  <2>4. told' = told \/ row'.state = "running"
    BY <1>10 DEF ToRunning, ForgetEscalation
  <2> QED
    BY <2>2, <2>3, <2>4 DEF TellInv, Escalating, Terminal
<1>11. CASE Hop
  <2>1. \/ row' = row
        \/ CanTransition(row.state, "running") /\ row' = [row EXCEPT !.state = "running"]
    BY <1>11 DEF Hop
  <2>2. CanTransition(row.state, "running") => ~Terminal(row)
    BY DEF CanTransition, Terminal, ActiveStates, TerminalStates
  <2>3. /\ row'.stall = row.stall /\ row'.salvaged = row.salvaged
        /\ row'.state \in {row.state, "running"} /\ (Terminal(row) => row' = row)
    BY <1>0, <2>1, <2>2 DEF Row
  <2>4. sw'.result \in {sw.result, "failed"} /\ sw.pc = "hop"
    BY <1>3, <1>s, <1>11 DEF Hop
  <2>5. told' = told \/ row'.state = "running"
    BY <1>11 DEF Hop, ForgetEscalation
  <2> QED
    BY <2>3, <2>4, <2>5 DEF TellInv, Escalating, Terminal
<1>12. CASE Recover
  BY <1>3, <1>s, <1>12 DEF Recover, TellInv, Escalating, NoSweep, Terminal
<1>13. CASE Await \/ ResumeTimesOut
  BY <1>3, <1>s, <1>13 DEF Await, ResumeTimesOut, TellInv, Escalating, Terminal
<1>14. CASE Finalize
  <2>1. \/ row' = row \/ row' = Tried(row, "failed")
        \/ CanTransition(row.state, sw.result) /\ row' = [row EXCEPT !.state = sw.result]
    BY <1>14 DEF Finalize
  <2>2. CanTransition(row.state, sw.result) => ~Terminal(row)
    BY DEF CanTransition, Terminal, ActiveStates, TerminalStates
  <2>3. /\ row'.stall = row.stall /\ row'.salvaged = row.salvaged
        /\ \/ row'.state \in {row.state, "failed"}
           \/ row'.state = sw.result /\ ~Terminal(row)
    BY <1>0, <1>1, <1>2, <2>1, <2>2 DEF Row
  <2>4. sw'.result = "failed" /\ told' = told /\ sw.pc = "finalize"
    BY <1>3, <1>14 DEF Finalize
  <2> QED
    BY <2>3, <2>4 DEF TellInv, Escalating
<1>15. CASE Escalate
  <2>1. CASE Terminal(row)
    BY <1>1, <1>2, <1>3, <1>t, <1>15, <2>1 DEF Escalate, TellInv
  <2>2. CASE ~Terminal(row)
    <3>1. row'.stall = row.stall /\ sw'.pc = "stamp" /\ sw'.result = sw.result
      BY <1>1, <1>2, <1>3, <1>s, <1>15, <2>2 DEF Escalate
    <3> QED
      BY <2>2, <3>1 DEF TellInv, Escalating
  <2> QED
    BY <2>1, <2>2
<1>16. CASE StampSalvaged
  <2>1. row'.state = row.state /\ row'.stall = row.stall
    BY <1>0, <1>16 DEF StampSalvaged, Row
  <2> QED
    BY <1>3, <1>s, <1>16, <2>1 DEF StampSalvaged, TellInv, Escalating, Terminal
<1>17. CASE Salvage \/ Salvaged
  BY <1>3, <1>s, <1>17 DEF Salvage, Salvaged, TellInv, Escalating, Terminal
<1>18. CASE Restall
  <2>1. row'.stall = row.stall /\ (Terminal(row) => row' = row)
    BY <1>1, <1>2, <1>18 DEF Restall
  <2>2. sw'.pc = "notify" /\ sw'.result = sw.result
    BY <1>3, <1>s, <1>18 DEF Restall
  <2> QED
    BY <2>1, <2>2 DEF TellInv, Escalating, Terminal
<1>19. CASE Notify
  BY <1>3, <1>19 DEF Notify, TellInv
<1>20. CASE Kill
  BY <1>3, <1>s, <1>20 DEF Kill, TellInv, Escalating, Terminal
<1> QED
  BY <1>4, <1>5, <1>6, <1>7, <1>8, <1>9, <1>10, <1>11, <1>12, <1>13, <1>14, <1>15, <1>16,
     <1>17, <1>18, <1>19, <1>20 DEF Sweeping

\* Where no sweep is killed, no run rests in stalled, skipped by every later sweep,
\* before a human was told; dispatchers and revisions may die anywhere.
THEOREM StalledAreTold ==
    ASSUME "sweepDies" \notin Events
    PROVE  Spec => []StalledIsTold
<1>1. Init => TellInv
  BY DEF Init, Opened, NoSweep, TellInv
<1>2. TypeOK /\ TellInv /\ [Next]_vars => TellInv'
  <2> SUFFICES ASSUME TypeOK, TellInv, [Next]_vars PROVE TellInv'
    OBVIOUS
  <2>1. CASE Around
    BY <2>1 DEF Around, TellInv, Terminal
  <2>2. ~SweepDies
    BY DEF SweepDies
  <2> QED
    BY <2>1, <2>2, StepKinds, TellSweep
<1>3. TellInv => StalledIsTold
  BY DEF TellInv, StalledIsTold, Owned, Escalating
<1> QED
  BY <1>1, <1>2, <1>3, TypeCorrect, PTL DEF Spec
=============================================================================
